------------------------------ MODULE SplitSync ------------------------------
(***************************************************************************)
(* One account's device and the shared-expense service: the commands the   *)
(* device keeps until the service has answered them, and the change feed   *)
(* from which it rebuilds what the account may see.                        *)
(*                                                                         *)
(* The service keeps a log per context and, per account, a stream of       *)
(* positions in these logs.  A page of the feed lists, for each event of   *)
(* the stream in order, the rows it concerns as they are when the page is  *)
(* read; the cursor is the last row delivered.  One refresh runs at a time *)
(* on the device; leaving a context, and a read that is refused, hide a    *)
(* context beside it.                                                      *)
(*                                                                         *)
(* Left out: the activity row of each event, which no other event shares;  *)
(* the deleted row a revocation leaves, after which the service has no     *)
(* newer one; answers 401, after which the command waits like a failed     *)
(* one; commands refused for what they contain.                            *)
(***************************************************************************)
EXTENDS FiniteSets, Integers, Sequences

CONSTANTS
    Contexts,
    Items,        \* rows of a context: 1..n, in the order of their record keys
    Ops,          \* operation ids of the device's commands
    Command,      \* operation id -> the command
    NoOp,         \* an event of another account, or of no queued command
    PageLimit,    \* rows per page
    Window,       \* events per page
    MaxLog,       \* bounds each context's log
    NoEvent, NoRow, NoTransaction, Idle

ItemRow == 0      \* the context's own row
Grant == Cardinality(Items) + 1     \* the rank of the markers, the last of an event
Ranks == 0..Grant

ASSUME SyncAssumption ==
    /\ IsFiniteSet(Contexts) /\ IsFiniteSet(Items) /\ Items = 1..Cardinality(Items)
    /\ NoOp \notin Ops
    /\ PageLimit \in Nat \ {0} /\ Window \in Nat \ {0, 1} /\ MaxLog \in Nat \ {0}
    /\ Command \in [Ops -> [kind: {"create", "respond", "write"}, context: Contexts,
                            item: Items, needs: SUBSET Ops]]

\* A context is created by the command that drew its id; a command waits only
\* for commands of its own context.
ASSUME CommandsAssumption ==
    \A o, p \in Ops :
        /\ Command[o].kind = "create" /\ Command[p].kind = "create"
           /\ Command[o].context = Command[p].context => o = p
        /\ p \in Command[o].needs => Command[p].context = Command[o].context

VARIABLES
    member,       \* members.state of the account in each context
    log,          \* context_events; its length is contexts.committed_sequence
    stream,       \* profile_events of the account: position -> event
    open,         \* per context: a transaction of another account, not yet committed
    receipts,     \* operation_receipts with a result
    late,         \* commands still on their way whose answer nobody awaits
    command,      \* shared_commands.state; pending until the answer is stored
    stored,       \* shared_projections
    fenced,       \* shared_sync_state 'revoked:...'
    cursor,       \* shared_sync_state 'cursor': position and rank
    call,         \* what the running refresh awaits
    denied,       \* contexts whose loss the app was just told of
    refused       \* history: contexts the device has hidden for such an answer

service == <<member, log, stream, open, receipts>>
store == <<command, stored, fenced, cursor, refused>>
vars == <<member, log, stream, open, receipts, late, command, stored, fenced,
          cursor, call, denied, refused>>

------------------------------------------------------------------------------
\* The service's tables.

Kinds == {"created", "invited", "responded", "claimed", "changed", "owner_changed", "left"}

Entry == [kind: Kinds, item: Items \cup {ItemRow}, by: Ops \cup {NoOp}]

Positions == 1..(MaxLog * Cardinality(Contexts))

Event == [context: Contexts, sequence: 1..MaxLog]

Transaction == [item: Items, position: Positions \cup {0}]

\* What a row says is told apart by the log entry that last changed it.
Row == [rev: 1..MaxLog, val: 0..MaxLog]

Cursor == (Positions \cup {0}) \X Ranks

Page == [next: Cursor, rows: SUBSET (Contexts \X (Items \cup {ItemRow}) \X Row),
         twice: BOOLEAN, revoked: SUBSET Contexts, granted: SUBSET Contexts]

Call == [op: Ops, stage: {"lookup", "execute", "ok", "refused"}]

ASSUME ValuesAssumption ==
    /\ NoEvent \notin Event /\ NoTransaction \notin Transaction /\ NoRow \notin Row
    /\ Idle \notin Call \cup Page

TypeOK ==
    /\ member \in [Contexts -> {"none", "invited", "active", "left"}]
    /\ log \in [Contexts -> Seq(Entry)] /\ \A c \in Contexts : Len(log[c]) <= MaxLog
    /\ stream \in [Positions -> Event \cup {NoEvent}]
    /\ open \in [Contexts -> Transaction \cup {NoTransaction}]
    /\ receipts \subseteq Ops /\ late \subseteq Ops
    /\ command \in [Ops -> {"none", "pending", "committed", "rejected"}]
    /\ stored \in [Contexts -> [Items \cup {ItemRow} -> Row \cup {NoRow}]]
    /\ fenced \subseteq Contexts /\ denied \subseteq Contexts /\ refused \subseteq Contexts
    /\ cursor \in Cursor
    /\ call \in {Idle} \cup Call \cup Page

\* The context is created by the device.
Created(c) == \E o \in Ops : Command[o].kind = "create" /\ Command[o].context = c

\* The other contexts exist.
Init ==
    /\ member = [c \in Contexts |-> "none"]
    /\ log = [c \in Contexts |-> IF Created(c) THEN << >>
                                ELSE << [kind |-> "created", item |-> ItemRow, by |-> NoOp] >>]
    /\ stream = [k \in Positions |-> NoEvent]
    /\ open = [c \in Contexts |-> NoTransaction]
    /\ receipts = {} /\ late = {}
    /\ command = [o \in Ops |-> "none"]
    /\ stored = [c \in Contexts |-> [i \in Items \cup {ItemRow} |-> NoRow]]
    /\ fenced = {} /\ denied = {} /\ refused = {}
    /\ cursor = <<0, 0>>
    /\ call = Idle

------------------------------------------------------------------------------
\* Writing: every command locks its context, adds to its log and, under the
\* lock on the stream's head, to the stream of the account if it is a member.

\* The entry of the log of c, up to n, that last changed row i; 0 if none did.
LastChange(c, i, n) ==
    LET at == {s \in 1..n : log[c][s].item = i}
    IN  IF at = {} THEN 0 ELSE CHOOSE s \in at : \A t \in at : t <= s

Latest(c) == Len(log[c])

Events == {k \in Positions : stream[k] # NoEvent}

\* Positions of events, or of transactions that will write theirs.
Taken ==
    Events \cup {k \in Positions : \E c \in Contexts :
                    open[c] # NoTransaction /\ open[c].position = k}

\* profile_stream_heads, as a transaction with its lock reads it.
NextPosition == Cardinality(Taken) + 1

\* Mutant: positions come from a sequence, without a lock.
StreamIsNeverLocked == TRUE

\* No other transaction holds the stream's head.
StreamIsFree == \A c \in Contexts : open[c] # NoTransaction => open[c].position = 0

\* _emit, by a command that is one step here and concerns the account.
Emit(c, kind, item, by) ==
    /\ open[c] = NoTransaction /\ Latest(c) < MaxLog
    /\ StreamIsFree
    /\ log' = [log EXCEPT ![c] = Append(@, [kind |-> kind, item |-> item, by |-> by])]
    /\ stream' = [stream EXCEPT ![NextPosition] = [context |-> c, sequence |-> Latest(c) + 1]]
    /\ open' = open

\* Another member changes row i of c: the transaction has taken its locks.
BeginChange(c, i) ==
    /\ open[c] = NoTransaction /\ Latest(c) < MaxLog
    /\ log[c] # << >>
    /\ member[c] = "active" => StreamIsFree
    /\ open' = [open EXCEPT ![c] =
                 [item |-> i, position |-> IF member[c] = "active" THEN NextPosition ELSE 0]]
    /\ UNCHANGED <<member, log, stream, receipts, late, store, call, denied>>

CommitChange(c) ==
    /\ open[c] # NoTransaction
    /\ log' = [log EXCEPT ![c] =
                 Append(@, [kind |-> "changed", item |-> open[c].item, by |-> NoOp])]
    /\ stream' = IF open[c].position = 0 THEN stream
                 ELSE [stream EXCEPT ![open[c].position] =
                         [context |-> c, sequence |-> Latest(c) + 1]]
    /\ open' = [open EXCEPT ![c] = NoTransaction]
    /\ UNCHANGED <<member, receipts, late, store, call, denied>>

\* The account owns the context: it created it and has not handed it over.
Owner(c) == Created(c) /\ \A s \in 1..Latest(c) : log[c][s].kind # "owner_changed"

\* Another account adds this one by its profile id: invite_member.
Invited(c) ==
    /\ member[c] = "none" /\ log[c] # << >>
    /\ member' = [member EXCEPT ![c] = "invited"]
    /\ Emit(c, "invited", ItemRow, NoOp)
    /\ UNCHANGED <<receipts, late, store, call, denied>>

\* The account joins through an invitation or the group link: _bind_invitation.
Claimed(c) ==
    /\ member[c] = "none" /\ log[c] # << >>
    /\ member' = [member EXCEPT ![c] = "active"]
    /\ Emit(c, "claimed", ItemRow, NoOp)
    /\ UNCHANGED <<receipts, late, store, call, denied>>

\* transfer_owner, by the account that created the context.
HandOver(c) ==
    /\ member[c] = "active" /\ Owner(c)
    /\ Emit(c, "owner_changed", ItemRow, NoOp)
    /\ UNCHANGED <<member, receipts, late, store, call, denied>>

\* leave_context: the account still gets the event.  The answer may be lost.
Leave(c) ==
    /\ member[c] = "active" /\ ~Owner(c)
    /\ member' = [member EXCEPT ![c] = "left"]
    /\ Emit(c, "left", ItemRow, NoOp)
    /\ \/ denied' = denied \cup {c}
       \/ denied' = denied
    /\ UNCHANGED <<receipts, late, store, call>>

------------------------------------------------------------------------------
\* Commands at the service.  _operation returns the result of the first
\* execution instead of executing a command again.

MayWrite(o) == member[Command[o].context] = "active"

\* Mutant: a repetition is a conflict.
AnsweredOnce(o) == FALSE

Answered(o) ==
    /\ o \in receipts
    /\ Command[o].kind # "respond" => MayWrite(o)

\* Mutant: the receipt is not looked at before the command is executed.
AppliesAgain(o) ==
    LET c == Command[o].context
    IN  CASE Command[o].kind = "create" -> log[c] = << >>
          [] Command[o].kind = "respond" -> member[c] = "invited"
          [] Command[o].kind = "write" -> MayWrite(o)

Applies(o) ==
    LET c == Command[o].context
    IN  /\ o \notin receipts
        /\ CASE Command[o].kind = "create" -> log[c] = << >>
             [] Command[o].kind = "respond" -> member[c] = "invited"
             [] Command[o].kind = "write" -> MayWrite(o)

Apply(o) ==
    LET c == Command[o].context
    IN  /\ Applies(o)
        /\ receipts' = receipts \cup {o}
        /\ CASE Command[o].kind = "create" ->
                  /\ member' = [member EXCEPT ![c] = "active"]
                  /\ Emit(c, "created", ItemRow, o)
             [] Command[o].kind = "respond" ->
                  /\ member' = [member EXCEPT ![c] = "active"]
                  /\ Emit(c, "responded", ItemRow, o)
             [] Command[o].kind = "write" ->
                  /\ member' = member
                  /\ Emit(c, "changed", Command[o].item, o)

\* A request that its sender has given up runs after all.
LateExecution(o) ==
    /\ o \in late
    /\ \/ Apply(o)
       \/ ~Applies(o) /\ UNCHANGED service
    /\ late' = late \ {o}
    /\ UNCHANGED <<store, call, denied>>

------------------------------------------------------------------------------
\* The device's commands: enqueue and flush.

Enqueue(o) ==
    LET c == Command[o].context
    IN  /\ command[o] = "none"
        /\ \A d \in Command[o].needs : command[d] # "none"
        /\ CASE Command[o].kind = "create" -> TRUE
             [] Command[o].kind = "respond" -> member[c] = "invited"
             [] Command[o].kind = "write" -> Command[o].needs # {} \/ member[c] = "active"
        /\ command' = [command EXCEPT ![o] = "pending"]
        /\ UNCHANGED <<service, late, stored, fenced, cursor, refused, call, denied>>

\* The lease of a command that a crash left "sending" has run out.
Claim(o) ==
    /\ call = Idle /\ command[o] = "pending"
    /\ Command[o].context \notin fenced
    /\ \A d \in Command[o].needs : command[d] = "committed"
    /\ call' = [op |-> o, stage |-> "lookup"]
    /\ UNCHANGED <<service, late, store, denied>>

At(o, stage) == call = [op |-> o, stage |-> stage]

\* lookupOperation: readOperation shows a receipt to members only.
Lookup(o) ==
    /\ At(o, "lookup")
    /\ call' = [op |-> o, stage |-> IF o \notin receipts THEN "execute"
                                    ELSE IF MayWrite(o) THEN "ok" ELSE "refused"]
    /\ UNCHANGED <<service, late, store, denied>>

Execute(o) ==
    /\ At(o, "execute")
    /\ \/ Apply(o) /\ call' = [op |-> o, stage |-> "ok"]
       \/ /\ ~Applies(o)
          /\ call' = [op |-> o, stage |-> IF Answered(o) THEN "ok" ELSE "refused"]
          /\ UNCHANGED service
    /\ UNCHANGED <<late, store, denied>>

\* complete: the answer is dropped if the context was hidden meanwhile.
Complete(o) ==
    /\ At(o, "ok")
    /\ command' = IF Command[o].context \in fenced THEN command
                  ELSE [command EXCEPT ![o] = "committed"]
    /\ call' = Idle
    /\ UNCHANGED <<service, late, stored, fenced, cursor, refused, denied>>

\* fail, after an answer 4xx: rejected or in conflict, for good.
Reject(o) ==
    /\ At(o, "refused")
    /\ command' = [command EXCEPT ![o] = "rejected"]
    /\ call' = Idle
    /\ UNCHANGED <<service, late, stored, fenced, cursor, refused, denied>>

\* A request that was sent and has not been executed yet is on its way.
Orphaned == {o \in Ops : At(o, "execute")}

\* fail, after no answer or an answer 5xx: the command is tried again.
Fail(o) ==
    /\ call \in Call /\ call.op = o
    /\ late' = late \cup Orphaned
    /\ call' = Idle
    /\ UNCHANGED <<service, store, denied>>

------------------------------------------------------------------------------
\* The feed: pullProjectionChanges and its query.

Before(x, y) == x[1] < y[1] \/ (x[1] = y[1] /\ x[2] < y[2])

\* The events of a page: from the cursor's own on.
Selected ==
    {k \in Events : /\ cursor[1] <= k
                    /\ Cardinality({j \in Events : cursor[1] <= j /\ j < k}) < Window}

Readable(c) == member[c] \in {"invited", "active"}

EntryOf(k) == log[stream[k].context][stream[k].sequence]

FullGrant(k) ==
    /\ member[stream[k].context] = "active"
    /\ EntryOf(k).kind \in {"created", "responded"}

RowsOf(k) ==
    LET c == stream[k].context
    IN  {ItemRow} \cup {i \in Items : /\ member[c] = "active" /\ LastChange(c, i, Latest(c)) > 0
                                      /\ FullGrant(k) \/ EntryOf(k).item = i}

\* Mutant: the row of the context is shown to those who have left it.
RanksOfAny(k) == RowsOf(k) \cup (IF FullGrant(k) THEN {Grant} ELSE {})

\* The ranks of the rows of event k.
RanksOf(k) ==
    IF Readable(stream[k].context)
    THEN RowsOf(k) \cup (IF FullGrant(k) THEN {Grant} ELSE {})
    ELSE {Grant}

Keys == {x \in Selected \X Ranks : x[2] \in RanksOf(x[1]) /\ Before(cursor, x)}

PageKeys == {x \in Keys : Cardinality({y \in Keys : Before(y, x)}) < PageLimit}

\* Mutant: the number is missing and replaced by zero.
RowRevMissing(x) == 0

\* Mutant: a row carries the number of the event, not that of its context.
RowRevOfEvent(x) == stream[x[1]].sequence

RowRev(x) == Latest(stream[x[1]].context)

RowOf(x) == LET c == stream[x[1]].context
            IN  <<c, x[2], [rev |-> RowRev(x), val |-> LastChange(c, x[2], Latest(c))]>>

\* A revocation is a deleted row of the context itself.
EntityOf(x) == <<stream[x[1]].context, IF Readable(stream[x[1]].context) THEN x[2] ELSE ItemRow>>

Markers(readable) ==
    {stream[x[1]].context : x \in {y \in PageKeys : /\ y[2] = Grant
                                                    /\ Readable(stream[y[1]].context) = readable}}

\* The service answers a pull; it takes no lock that a writer holds.
Pull ==
    /\ call = Idle
    /\ call' = [next |-> IF PageKeys = {} THEN cursor
                         ELSE CHOOSE x \in PageKeys : \A y \in PageKeys : ~Before(x, y),
                rows |-> {RowOf(x) : x \in {y \in PageKeys : y[2] # Grant}},
                twice |-> \E x, y \in PageKeys :
                              x # y /\ EntityOf(x) = EntityOf(y) /\ EntityOf(x)[2] # Grant,
                revoked |-> Markers(FALSE), granted |-> Markers(TRUE)]
    /\ UNCHANGED <<service, late, store, denied>>

NoRows == [i \in Items \cup {ItemRow} |-> NoRow]

\* _projections: an older row never replaces a newer one.
Merged(c) ==
    [i \in Items \cup {ItemRow} |->
        LET old == IF c \in call.revoked THEN NoRow ELSE stored[c][i]
            new == {r[3] : r \in {s \in call.rows : s[1] = c /\ s[2] = i}}
        IN  IF new = {} THEN old
            ELSE LET r == CHOOSE r \in new : TRUE
                 IN  IF old # NoRow /\ old.rev >= r.rev THEN old ELSE r]

\* applyPage.  Two rows of one key are refused: nothing is stored.
ApplyPage ==
    /\ call \in Page
    /\ call' = Idle
    /\ IF call.twice
       THEN UNCHANGED <<stored, fenced, cursor>>
       ELSE /\ stored' = [c \in Contexts |-> Merged(c)]
            /\ fenced' = (fenced \cup call.revoked) \ call.granted
            /\ cursor' = call.next
    /\ UNCHANGED <<service, late, command, refused, denied>>

\* The page, or its answer, is lost.
PageLost ==
    /\ call \in Page
    /\ call' = Idle
    /\ UNCHANGED <<service, late, store, denied>>

------------------------------------------------------------------------------
\* Hiding a context beside the refresh, and the end of the process.

Visible(c) == c \notin fenced /\ stored[c][ItemRow] # NoRow

Queued(c) == \E o \in Ops : Command[o].context = c /\ command[o] # "none"

\* An online read of a context the account is no member of: 404.
ReadDenied(c) ==
    /\ member[c] # "active" /\ c \notin fenced
    /\ Visible(c) \/ Queued(c)
    /\ c \notin denied /\ denied' = denied \cup {c}
    /\ UNCHANGED <<service, late, store, call>>

\* revokeContext.
Fence(c) ==
    /\ c \in denied
    /\ denied' = denied \ {c}
    /\ stored' = [stored EXCEPT ![c] = NoRows]
    /\ fenced' = fenced \cup {c}
    /\ refused' = refused \cup {c}
    /\ UNCHANGED <<service, late, command, cursor, call>>

Crash ==
    /\ call # Idle \/ denied # {}
    /\ call' = Idle /\ denied' = {}
    /\ late' = late \cup Orphaned
    /\ UNCHANGED <<service, store>>

Next ==
    \/ \E c \in Contexts :
          \/ Invited(c) \/ Claimed(c) \/ HandOver(c) \/ Leave(c)
          \/ CommitChange(c) \/ ReadDenied(c) \/ Fence(c)
          \/ \E i \in Items : BeginChange(c, i)
    \/ \E o \in Ops :
          \/ Enqueue(o) \/ Claim(o) \/ Lookup(o) \/ Execute(o)
          \/ Complete(o) \/ Reject(o) \/ Fail(o) \/ LateExecution(o)
    \/ Pull \/ ApplyPage \/ PageLost \/ Crash

Spec == Init /\ [][Next]_vars

------------------------------------------------------------------------------
\* Properties.

\* The feed's record x has been delivered.
Delivered(x) == x = cursor \/ Before(x, cursor)

\* What the cursor has passed is on the device: no event was skipped because
\* a transaction that had begun earlier committed later, or because the rows
\* of an event are spread over pages.  (_emit, PROJECTION_FEED_SQL, applyPage)
NothingSkipped ==
    \A k \in Positions : k <= cursor[1] =>
        /\ stream[k] # NoEvent
        /\ LET c == stream[k].context
           IN  member[c] = "active" /\ c \notin refused =>
                 \A i \in RanksOf(k) \ {Grant} :
                    Delivered(<<k, i>>) /\ LastChange(c, i, stream[k].sequence) > 0
                       => stored[c][i] # NoRow /\ stored[c][i].rev >= stream[k].sequence

\* Once the device has passed the event of its leaving, it shows the context
\* no more, whatever page or denied read came when.  (PROJECTION_FEED_SQL,
\* applyPage, revokeContext)
LeftIsHidden ==
    \A k \in Events : EntryOf(k).kind = "left" /\ Delivered(<<k, Grant>>)
                       => ~Visible(stream[k].context)

\* Every row on the device says what the service said at the row's revision.
\* (PROJECTION_FEED_SQL, _projections)
RowsAreServed ==
    \A c \in Contexts, i \in Items \cup {ItemRow} : stored[c][i] # NoRow =>
        /\ stored[c][i].rev <= Latest(c)
        /\ stored[c][i].val = LastChange(c, i, stored[c][i].rev)

\* However often a command is sent, it is executed once.  (_operation)
AppliedOnce ==
    \A c \in Contexts : \A s, t \in 1..Latest(c) :
        log[c][s].by = log[c][t].by /\ log[c][s].by # NoOp => s = t

\* Another command has answered the invitation that o answers.
AnsweredByAnother(o) ==
    \E p \in receipts \ {o} :
        /\ Command[o].kind = "respond" /\ Command[p].kind = "respond"
        /\ Command[p].context = Command[o].context

\* The device calls a command committed only if it was executed, and rejected
\* only if the account has left the context or has answered the invitation by
\* another command: a lost answer, a repetition or a command that needs another
\* one is no reason.  (flush, claim, readOperation)
AnswersAreTrue ==
    \A o \in Ops :
        /\ command[o] = "committed" => o \in receipts
        /\ command[o] = "rejected" =>
              member[Command[o].context] = "left" \/ AnsweredByAnother(o)

\* The device takes every page it is sent: "equal-version/different-payload
\* records fail", and no others.  docs/implementation/shared-expenses/P05-status.md:44
PagesAreTaken == call \in Page => ~call.twice

==============================================================================
