--------------------------- MODULE RefreshRotation ---------------------------
(* Refresh tokens of one account: src/auth/src/services/tokenService.js with   *)
(* the /refresh and /logout handlers of routes/authRoutes.js, the revocations  *)
(* of routes/userRoutes.js, and the clients that hold the tokens: the mobile   *)
(* application and the session gateway of the console (consoleBrowser.js).     *)
(*                                                                             *)
(* A refresh is verified outside the transaction that rotates it, so handlers  *)
(* of one token overtake each other; an answer may be lost, a client may       *)
(* repeat the request or restart, and a handler may fail at any step. What     *)
(* gates access tokens (user_devices.is_active, token_version) is left out:    *)
(* no step below reads it.                                                     *)
EXTENDS Integers, FiniteSets

CONSTANTS
    Devices,      \* devices of the account, each with its client
    Consoles,     \* those that are browser sessions behind the console gateway
    Tokens,       \* rows of refresh_tokens; bounds logins and rotations
    Requests,     \* refresh_request_id; bounds the ids tried for one token
    Handlers,     \* requests the service works on at a time
    None

ASSUME DevicesAssumption == Consoles \subseteq Devices
ASSUME NoneAssumption == None \notin Tokens \cup Requests \cup Handlers \cup Devices
ASSUME RefusalsAssumption == {"rejected", "malformed"} \cap (Tokens \cup {None}) = {}

VARIABLES
    token,     \* refresh_tokens
    job,       \* what each handler does
    stored,    \* the refresh token each client keeps
    kept,      \* the request id each client keeps, with the token it is for
    waiting,   \* the handler whose answer each client waits for
    excused    \* history: devices whose session something other than rotation may have ended

clients == <<stored, kept, waiting>>
vars == <<token, job, stored, kept, waiting, excused>>

------------------------------------------------------------------------------

Row == [device: Devices, parent: Tokens \cup {None}, req: Requests \cup {None},
        revoked: BOOLEAN, expired: BOOLEAN]

Steps == {"verify", "rotate", "locked", "revoke", "revoking", "answer"}

Job == [kind: {"refresh", "logout", "revoke"}, at: Steps, scope: SUBSET Devices,
        token: Tokens \cup {None}, req: Requests \cup {None}, rows: SUBSET Tokens,
        answer: Tokens \cup {None, "rejected", "malformed"}]

Kept == [token: Tokens, req: Requests]

ASSUME RecordsAssumption == None \notin Row \cup Job \cup Kept

TypeOK ==
    /\ token \in [Tokens -> Row \cup {None}]
    /\ job \in [Handlers -> Job \cup {None}]
    /\ stored \in [Devices -> Tokens \cup {None}]
    /\ kept \in [Devices -> Kept \cup {None}]
    /\ waiting \in [Devices -> Handlers \cup {None}]
    /\ excused \subseteq Devices

Issued == {t \in Tokens : token[t] # None}
Usable(t) == ~token[t].revoked /\ ~token[t].expired

\* Rows of some devices no revocation has reached yet.
Unrevoked(scope) == {t \in Issued : token[t].device \in scope /\ ~token[t].revoked}

\* A rotation holds the row FOR UPDATE until it commits.
Locked(t) == \E h \in Handlers : job[h] # None /\ job[h].at = "locked" /\ job[h].token = t

\* Mutant: whatever the device can use now.
RecoveredByDevice(t, r) ==
    {c \in Issued : r # None /\ token[c].device = token[t].device /\ Usable(c)}

\* recoverRotation: the usable successor this very request made of the token.
Recovered(t, r) ==
    {c \in Issued : r # None /\ token[c].parent = t /\ token[c].req = r /\ Usable(c)}

Init ==
    /\ token = [t \in Tokens |-> None]
    /\ job = [h \in Handlers |-> None]
    /\ stored = [d \in Devices |-> None]
    /\ kept = [d \in Devices |-> None]
    /\ waiting = [d \in Devices |-> None]
    /\ excused = {}

------------------------------------------------------------------------------
\* Clients.

Ask(h, kind, scope, t, r) ==
    /\ job[h] = None
    /\ job' = [job EXCEPT ![h] =
           [kind |-> kind, at |-> IF t = None THEN "revoke" ELSE "verify", scope |-> scope,
            token |-> t, req |-> r, rows |-> {}, answer |-> None]]

\* A revocation under way may still hit a session that begins now.
Ending(d) ==
    \E h \in Handlers : job[h] # None /\ d \in job[h].scope
        /\ (job[h].kind # "refresh" \/ job[h].at \in {"revoke", "revoking"})

\* issueRefreshToken after a verified code: the client keeps a new root token,
\* whatever it held or waited for before.
SignIn(d, t) ==
    /\ token[t] = None
    /\ token' = [token EXCEPT ![t] =
           [device |-> d, parent |-> None, req |-> None, revoked |-> FALSE, expired |-> FALSE]]
    /\ stored' = [stored EXCEPT ![d] = t]
    /\ excused' = IF Ending(d) THEN excused \cup {d} ELSE excused \ {d}
    /\ UNCHANGED <<job, kept, waiting>>

\* Ids that were never sent with this token.
FreshIds(t) ==
    {r \in Requests :
        /\ \A c \in Issued : token[c].parent = t => token[c].req # r
        /\ \A h \in Handlers : job[h] # None /\ job[h].token = t => job[h].req # r
        /\ [token |-> t, req |-> r] \notin {kept[d] : d \in Devices}}

\* Mutant: the id lives in memory only; a repeated request carries a new one.
NewIds(d) == FreshIds(stored[d])

\* refreshRequestId: the id is stored before it is sent and reused for its
\* token. The console derives it from the token, which comes to the same.
RequestIds(d) ==
    IF kept[d] # None /\ kept[d].token = stored[d] THEN {kept[d].req} ELSE FreshIds(stored[d])

\* One refresh at a time (_refreshInProgress).
Refresh(d, h, r) ==
    /\ stored[d] # None /\ waiting[d] = None
    /\ r \in RequestIds(d)
    /\ Ask(h, "refresh", {d}, stored[d], r)
    /\ kept' = [kept EXCEPT ![d] = [token |-> stored[d], req |-> r]]
    /\ waiting' = [waiting EXCEPT ![d] = h]
    /\ UNCHANGED <<token, stored, excused>>

\* An older application sends no id and has no second try.
RefreshOnce(d, h) ==
    /\ stored[d] # None /\ waiting[d] = None /\ d \notin Consoles
    /\ Ask(h, "refresh", {d}, stored[d], None)
    /\ waiting' = [waiting EXCEPT ![d] = h]
    /\ excused' = excused \cup {d}
    /\ UNCHANGED <<token, stored, kept>>

\* The request times out, its answer is lost, or the application dies while
\* it is under way; the service works on.
GiveUp(d) ==
    /\ waiting[d] # None
    /\ waiting' = [waiting EXCEPT ![d] = None]
    /\ job' = [h \in Handlers |-> IF waiting[d] = h /\ job[h].at = "answer" THEN None ELSE job[h]]
    /\ UNCHANGED <<token, stored, kept, excused>>

\* revokeSession and clear: the client forgets its credentials, whether or
\* not the service ever gets the request.
SignOut(d, h) ==
    /\ stored[d] # None
    /\ Ask(h, "logout", {d}, stored[d], None)
    /\ stored' = [stored EXCEPT ![d] = None]
    /\ kept' = [kept EXCEPT ![d] = None]
    /\ excused' = excused \cup {d}
    /\ UNCHANGED <<token, waiting>>

\* A device is revoked from another one (revokeDeviceTokens), or all are
\* (revokeAllUserTokens).
RevokeDevices(scope, h) ==
    /\ Ask(h, "revoke", scope, None, None)
    /\ excused' = excused \cup scope
    /\ UNCHANGED <<token, clients>>

------------------------------------------------------------------------------
\* The service.

Move(h, step) == job' = [job EXCEPT ![h].at = step]

\* An answer nobody waits for is as good as lost.
Answer(h, a) ==
    job' = [job EXCEPT ![h] = IF \E d \in Devices : waiting[d] = h
                              THEN [@ EXCEPT !.at = "answer", !.answer = a] ELSE None]

Revoke(rows) == token' = [t \in Tokens |-> IF t \in rows THEN [token[t] EXCEPT !.revoked = TRUE]
                                           ELSE token[t]]

\* validateRefreshTokenBody asks for a version 4 UUID; the console sends a digest.
WellFormed(h) == job[h].kind = "refresh" => job[h].scope \cap Consoles = {}

\* verifyRefreshToken reads the row outside any transaction. A spent token
\* whose successor this request cannot claim ends all tokens of the device
\* (handleReuse); that is excused when the client has moved on meanwhile.
Verify(h) ==
    LET t == job[h].token
    IN  /\ job[h] # None /\ job[h].at = "verify"
        /\ \/ /\ ~WellFormed(h)
              /\ Answer(h, "malformed")
              /\ UNCHANGED <<token, excused>>
           \/ /\ WellFormed(h) /\ token[t].revoked /\ Recovered(t, job[h].req) # {}
              /\ Move(h, "rotate")
              /\ UNCHANGED <<token, excused>>
           \/ /\ WellFormed(h) /\ token[t].revoked /\ Recovered(t, job[h].req) = {}
              /\ Move(h, "revoke")
              /\ excused' = IF stored[token[t].device] = t THEN excused
                            ELSE excused \cup {token[t].device}
              /\ UNCHANGED token
           \/ /\ WellFormed(h) /\ ~token[t].revoked /\ token[t].expired /\ ~Locked(t)
              /\ Revoke({t})
              /\ Answer(h, "rejected")
              /\ UNCHANGED excused
           \/ /\ WellFormed(h) /\ Usable(t)
              /\ Move(h, IF job[h].kind = "refresh" THEN "rotate" ELSE "revoke")
              /\ UNCHANGED <<token, excused>>
        /\ UNCHANGED clients

\* rotateRefreshToken takes the row lock.
Lock(h) ==
    /\ job[h] # None /\ job[h].at = "rotate" /\ ~Locked(job[h].token)
    /\ Move(h, "locked")
    /\ UNCHANGED <<token, clients, excused>>

\* Mutant: what was verified before the transaction is trusted in it.
RotateVerified(h) ==
    LET t == job[h].token
    IN  /\ job[h] # None /\ job[h].at = "locked"
        /\ \E c \in Tokens \ Issued :
              /\ token' = [token EXCEPT ![t].revoked = TRUE,
                     ![c] = [device |-> token[t].device, parent |-> t, req |-> job[h].req,
                             revoked |-> FALSE, expired |-> FALSE]]
              /\ Answer(h, c)
        /\ UNCHANGED <<clients, excused>>

\* The successor and the revocation of its parent commit together; a token
\* that was spent since it was verified is recovered once more, or refused.
Rotate(h) ==
    LET t == job[h].token
    IN  /\ job[h] # None /\ job[h].at = "locked"
        /\ \/ /\ token[t].expired
              /\ Answer(h, "rejected")
              /\ UNCHANGED token
           \/ /\ ~token[t].expired /\ token[t].revoked
              /\ \E a \in IF Recovered(t, job[h].req) = {} THEN {"rejected"}
                          ELSE Recovered(t, job[h].req) : Answer(h, a)
              /\ UNCHANGED token
           \/ /\ Usable(t)
              /\ \E c \in Tokens \ Issued :
                    /\ token' = [token EXCEPT ![t].revoked = TRUE,
                           ![c] = [device |-> token[t].device, parent |-> t, req |-> job[h].req,
                                   revoked |-> FALSE, expired |-> FALSE]]
                    /\ Answer(h, c)
        /\ UNCHANGED <<clients, excused>>

\* revokeDeviceTokens, revokeAllUserTokens: one statement sees the rows that
\* are committed when it starts,
RevokeStarts(h) ==
    /\ job[h] # None /\ job[h].at = "revoke"
    /\ job' = [job EXCEPT ![h].at = "revoking", ![h].rows = Unrevoked(job[h].scope)]
    /\ UNCHANGED <<token, clients, excused>>

\* and waits for those a rotation has locked.
RevokeEnds(h) ==
    /\ job[h] # None /\ job[h].at = "revoking"
    /\ \A t \in job[h].rows : ~Locked(t)
    /\ Revoke(job[h].rows)
    /\ Answer(h, "rejected")
    /\ UNCHANGED <<clients, excused>>

\* Mutant: the client does not look at what it holds now.
ReceiveLate(d, h) ==
    /\ stored' = [stored EXCEPT ![d] = IF job[h].answer \in Tokens THEN job[h].answer ELSE None]
    /\ kept' = [kept EXCEPT ![d] = IF job[h].answer = "rejected" THEN None ELSE @]
    /\ waiting' = [waiting EXCEPT ![d] = None]

\* Mutant: every answer is taken for a token.
ReceiveUnparsed(d, h) ==
    /\ stored' = [stored EXCEPT ![d] = IF @ = job[h].token THEN job[h].answer ELSE @]
    /\ waiting' = [waiting EXCEPT ![d] = None]
    /\ UNCHANGED kept

\* The client keeps the successor only if it still holds the token it sent,
\* and drops that token only on a definite refusal; any other answer is dropped.
Receive(d, h) ==
    LET current == stored[d] = job[h].token
        answer == job[h].answer
    IN  /\ stored' = [stored EXCEPT ![d] =
               IF current /\ answer \in Tokens THEN answer
               ELSE IF current /\ answer = "rejected" THEN None
               ELSE @]
        /\ kept' = [kept EXCEPT ![d] = IF current /\ answer = "rejected" THEN None ELSE @]
        /\ waiting' = [waiting EXCEPT ![d] = None]

\* The answer reaches the client that waits for it.
Reply(d, h) ==
    /\ waiting[d] = h /\ job[h] # None /\ job[h].at = "answer"
    /\ Receive(d, h)
    /\ job' = [job EXCEPT ![h] = None]
    /\ UNCHANGED <<token, excused>>

\* A handler dies, or its database fails it, and its transaction is undone.
Fail(h) ==
    /\ job[h] # None
    /\ job' = [job EXCEPT ![h] = None]
    /\ waiting' = [d \in Devices |-> IF waiting[d] = h THEN None ELSE waiting[d]]
    /\ UNCHANGED <<token, stored, kept, excused>>

\* A token reaches its end, not before the one it was rotated from.
Expire(t) ==
    /\ t \in Issued /\ ~token[t].expired
    /\ token[t].parent # None => token[token[t].parent].expired
    /\ token' = [token EXCEPT ![t].expired = TRUE]
    /\ excused' = excused \cup {token[t].device}
    /\ UNCHANGED <<job, clients>>

------------------------------------------------------------------------------

Next ==
    \/ \E d \in Devices, t \in Tokens : SignIn(d, t)
    \/ \E d \in Devices, h \in Handlers, r \in Requests : Refresh(d, h, r)
    \/ \E d \in Devices, h \in Handlers : RefreshOnce(d, h)
    \/ \E d \in Devices : GiveUp(d)
    \/ \E d \in Devices, h \in Handlers : SignOut(d, h)
    \/ \E scope \in (SUBSET Devices) \ {{}}, h \in Handlers : RevokeDevices(scope, h)
    \/ \E h \in Handlers : Verify(h) \/ Lock(h) \/ Rotate(h) \/ RevokeStarts(h)
                             \/ RevokeEnds(h) \/ Fail(h)
    \/ \E d \in Devices, h \in Handlers : Reply(d, h)
    \/ \E t \in Tokens : Expire(t)

Spec == Init /\ [][Next]_vars

------------------------------------------------------------------------------
\* Properties.

\* A token is spent by the rotation that gives it its only successor: no
\* two handlers that verified one token, and no repeated request, fork a session.
OneSuccessor ==
    \A c, d \in Issued : token[c].parent # None =>
        /\ token[token[c].parent].revoked
        /\ token[d].parent = token[c].parent => d = c

\* Every answer to a refresh is the successor of the token that was sent, made
\* by that request, on the same device.
AnswersAreOwn ==
    \A h \in Handlers : job[h] # None /\ job[h].answer \in Tokens =>
        LET c == token[job[h].answer]
        IN  c.parent = job[h].token /\ c.req = job[h].req /\ job[h].scope = {c.device}

\* A client that keeps its request id never loses its session to a lost
\* answer, a repeated request or a restart: it holds a usable token, or one
\* whose usable successor the id it kept still claims.
SessionsSurvive ==
    \A d \in Devices \ excused : stored[d] # None =>
        \/ Usable(stored[d])
        \/ /\ kept[d] # None /\ kept[d].token = stored[d]
           /\ Recovered(stored[d], kept[d].req) # {}

\* Only a new sign-in fills a client that has none: no late answer brings a
\* session back, and none replaces one that began meanwhile.
LateAnswersAreDropped ==
    [][\A d \in Devices : stored'[d] \notin {None, stored[d]} =>
          \/ token[stored'[d]] = None
          \/ stored[d] # None /\ token[stored'[d]].parent = stored[d]]_vars

==============================================================================
