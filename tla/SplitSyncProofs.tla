--------------------------- MODULE SplitSyncProofs ---------------------------
(***************************************************************************)
(* Proofs about SplitSync, for any number of contexts, rows and commands,  *)
(* any page and window, and logs of any length.                            *)
(***************************************************************************)
EXTENDS SplitSync, FiniteSetTheorems, TLAPS

RowKeys == Items \cup {ItemRow}

------------------------------------------------------------------------------
\* The inductive invariant.

\* A command is in one log, the one of its context, and has a receipt.
LogsAreOwn ==
    \A c \in Contexts : \A s \in 1..Latest(c) :
        log[c][s].by # NoOp =>
            log[c][s].by \in receipts /\ Command[log[c][s].by].context = c

\* A context has members and transactions once it exists, and an open
\* transaction has room in the log.
ContextsBegin ==
    \A c \in Contexts :
        /\ log[c] = << >> => member[c] = "none" /\ open[c] = NoTransaction
        /\ open[c] # NoTransaction => Latest(c) < MaxLog

\* The stream has no gaps but for the open transaction; it refers to each
\* context's log in the order of the log.
StreamInOrder ==
    /\ Taken = 1..Cardinality(Taken)
    /\ \A k \in Events : /\ stream[k].sequence <= Latest(stream[k].context)
                         /\ member[stream[k].context] # "none"
    /\ \A j, k \in Events : j < k /\ stream[j].context = stream[k].context
                               => stream[j].sequence < stream[k].sequence

\* The transaction that holds the stream's head comes after all events.
OpenIsLast ==
    \A c \in Contexts : open[c] # NoTransaction /\ open[c].position # 0 =>
        /\ member[c] = "active"
        /\ \A k \in Events : k < open[c].position
        /\ \A d \in Contexts : open[d] # NoTransaction /\ open[d].position # 0 => d = c

\* Nothing follows the event of leaving; an invited account was told of nothing
\* but its invitation.
FirstAndLast ==
    \A k \in Events :
        LET c == stream[k].context
        IN  /\ EntryOf(k).kind = "left" =>
                  /\ member[c] = "left"
                  /\ \A j \in Events : stream[j].context = c => j <= k
            /\ member[c] = "invited" => /\ EntryOf(k).kind = "invited"
                                        /\ EntryOf(k).item = ItemRow

\* The cursor passes events only; a page begins where the cursor is.
CursorInStream ==
    /\ 1..cursor[1] \subseteq Events
    /\ call \in Page => 1..call.next[1] \subseteq Events /\ ~Before(call.next, cursor)

\* Row i is among the rows of event k for whoever reads it as a member.
Concerns(k, i) ==
    /\ LastChange(stream[k].context, i, stream[k].sequence) > 0
    /\ \/ i = ItemRow
       \/ EntryOf(k).kind \in {"created", "responded"}
       \/ EntryOf(k).item = i

\* The rows of a page are what the service said at their revision.
PageIsServed ==
    call \in Page => \A r \in call.rows :
        /\ r[3].rev <= Latest(r[1])
        /\ r[3].val = LastChange(r[1], r[2], r[3].rev)

\* A page is not older than its events, and has the rows of those it passes.
PageIsWhole ==
    call \in Page => \A k \in 1..call.next[1] :
        LET c == stream[k].context
        IN  /\ \A r \in call.rows : r[1] = c => stream[k].sequence <= r[3].rev
            /\ Readable(c) => \A i \in RowKeys :
                  Concerns(k, i) /\ Before(cursor, <<k, i>>) /\ ~Before(call.next, <<k, i>>)
                     => \E r \in call.rows : r[1] = c /\ r[2] = i

\* A page that passes the event of leaving shows nothing of the context, and
\* revokes it unless a page before it did.
PageHides ==
    call \in Page =>
        /\ \A c \in call.revoked : member[c] = "left"
        /\ \A k \in Events :
              EntryOf(k).kind = "left" /\ ~Before(call.next, <<k, Grant>>) =>
                 LET c == stream[k].context
                 IN  /\ \A r \in call.rows : r[1] # c
                     /\ c \notin call.granted
                     /\ c \in call.revoked \/ ~Before(cursor, <<k, Grant>>)

\* The device has the rows of the events that the cursor has passed.
RowsAreKept ==
    \A k \in 1..cursor[1] :
        LET c == stream[k].context
        IN  Readable(c) /\ c \notin refused => \A i \in RowKeys :
               Concerns(k, i) /\ ~Before(cursor, <<k, i>>) =>
                  stored[c][i] # NoRow /\ stored[c][i].rev >= stream[k].sequence

\* What is known of a context when a command was executed, queued or sent.
Joined(o) == member[Command[o].context] \in {"active", "left"}

HadInvitation(o) ==
    \/ member[Command[o].context] \in {"invited", "left"}
    \/ o \in receipts \/ AnsweredByAnother(o)

CommandsHaveCause ==
    \A o \in Ops :
        /\ o \in receipts => Joined(o)
        /\ Command[o].kind = "create" /\ log[Command[o].context] # << >> => o \in receipts
        /\ command[o] # "none" /\ Command[o].kind = "write" /\ Command[o].needs = {} => Joined(o)
        /\ command[o] # "none" /\ Command[o].kind = "respond" => HadInvitation(o)

\* What the device is told of the command it sends.
CallHasCause ==
    call \in Call =>
        LET o == call.op
        IN  /\ command[o] # "none"
            /\ Command[o].kind = "write" => Joined(o)
            /\ call.stage = "ok" => o \in receipts
            /\ call.stage = "refused" =>
                  member[Command[o].context] = "left" \/ AnsweredByAnother(o)

Service == LogsAreOwn /\ AppliedOnce /\ ContextsBegin /\ StreamInOrder /\ OpenIsLast /\ FirstAndLast
Feed == CursorInStream /\ PageIsServed /\ PageIsWhole /\ PageHides
Copy == RowsAreServed /\ RowsAreKept /\ LeftIsHidden
Answers == CommandsHaveCause /\ CallHasCause /\ AnswersAreTrue

Inv == TypeOK /\ Service /\ Feed /\ Copy /\ Answers

------------------------------------------------------------------------------
\* Finite sets that are ordered have a greatest element: the number of elements
\* below one tells them apart, so that one of them has all others below it.

LEMMA Greatest ==
  ASSUME NEW S, IsFiniteSet(S), S # {}, NEW R,
         \A x \in S : <<x, x>> \notin R,
         \A x, y, z \in S : <<x, y>> \in R /\ <<y, z>> \in R => <<x, z>> \in R,
         \A x, y \in S : x = y \/ <<x, y>> \in R \/ <<y, x>> \in R
  PROVE  \E x \in S : \A y \in S : <<x, y>> \notin R
<1> DEFINE Below(x) == {y \in S : <<y, x>> \in R}
           n == Cardinality(S)
           f == [x \in S |-> Cardinality(Below(x))]
<1>1. n \in Nat \ {0}
  BY FS_CardinalityType, FS_EmptySet
<1>2. \A x \in S : IsFiniteSet(S \ {x}) /\ Cardinality(S \ {x}) = n - 1
  BY FS_RemoveElement
<1>3. ASSUME NEW x \in S
      PROVE  /\ IsFiniteSet(Below(x)) /\ Cardinality(Below(x)) \in 0..(n - 1)
             /\ Cardinality(Below(x)) = n - 1 => Below(x) = S \ {x}
  <2>1. Below(x) \in SUBSET (S \ {x})
    OBVIOUS
  <2> HIDE DEF Below, n
  <2>2. IsFiniteSet(Below(x)) /\ Cardinality(Below(x)) <= Cardinality(S \ {x})
        /\ (Cardinality(S \ {x}) = Cardinality(Below(x)) => S \ {x} = Below(x))
    BY <1>2, <2>1, FS_Subset
  <2>3. Cardinality(Below(x)) \in Nat
    BY <2>2, FS_CardinalityType
  <2> QED BY <1>1, <1>2, <2>2, <2>3
<1>4. ASSUME NEW x \in S, NEW y \in S, <<x, y>> \in R
      PROVE  Cardinality(Below(x)) # Cardinality(Below(y))
  <2>1. Below(x) \in SUBSET (Below(y) \ {x}) /\ x \in Below(y)
    BY <1>4
  <2> HIDE DEF Below, n
  <2>2. Cardinality(Below(x)) \in Nat /\ Cardinality(Below(y)) \in Nat /\ IsFiniteSet(Below(y))
    BY <1>1, <1>3
  <2>3. IsFiniteSet(Below(y) \ {x}) /\ Cardinality(Below(y) \ {x}) = Cardinality(Below(y)) - 1
    BY <2>2, <2>1, FS_RemoveElement
  <2>4. Cardinality(Below(x)) <= Cardinality(Below(y) \ {x})
    BY <2>1, <2>3, FS_Subset
  <2> QED BY <2>2, <2>3, <2>4
<1>5. f \in Injection(S, 0..(n - 1))
  <2>1. f \in [S -> 0..(n - 1)]
    BY <1>3
  <2>2. ASSUME NEW x \in S, NEW y \in S, f[x] = f[y] PROVE x = y
    <3>1. Cardinality(Below(x)) = Cardinality(Below(y))
      BY <2>2
    <3> QED BY <3>1, <1>4
  <2> QED BY <2>1, <2>2 DEF Injection, IsInjective
<1>6. IsFiniteSet(0..(n - 1)) /\ Cardinality(0..(n - 1)) = n
  <2> HIDE DEF n
  <2>1. 0 \in Int /\ n - 1 \in Int /\ ~(0 > n - 1)
    BY <1>1
  <2>2. IsFiniteSet(0..(n - 1))
        /\ Cardinality(0..(n - 1)) = IF 0 > n - 1 THEN 0 ELSE (n - 1) - 0 + 1
    BY <2>1, FS_Interval
  <2> QED BY <1>1, <2>1, <2>2
<1>7. f \in Surjection(S, 0..(n - 1))
  BY <1>5, <1>6, FS_Injection
<1>8. PICK x \in S : f[x] = n - 1
  <2>1. n - 1 \in 0..(n - 1)
    BY <1>1
  <2> QED BY <1>7, <2>1 DEF Surjection
<1>9. Below(x) = S \ {x}
  BY <1>3, <1>8
<1> QED BY <1>9

\* What the constants bound.
LEMMA Numbers ==
  /\ Cardinality(Items) \in Nat /\ Cardinality(Contexts) \in Nat
  /\ MaxLog * Cardinality(Contexts) \in Nat
  /\ Grant \in Nat \ {0} /\ Grant \notin RowKeys /\ RowKeys \subseteq Ranks /\ Grant \in Ranks
  /\ IsFiniteSet(Positions) /\ IsFiniteSet(Ranks) /\ Positions \subseteq Nat /\ Ranks \subseteq Nat
<1>1. Cardinality(Items) \in Nat /\ Cardinality(Contexts) \in Nat
  BY FS_CardinalityType, SyncAssumption
<1>2. MaxLog * Cardinality(Contexts) \in Nat
  BY <1>1, SyncAssumption
<1>3. Items = 1..Cardinality(Items)
  BY SyncAssumption
<1>4. IsFiniteSet(Positions)
  BY <1>2, FS_Interval DEF Positions
<1>5. Grant \in Nat
  BY <1>1 DEF Grant
<1>6. IsFiniteSet(Ranks)
  BY <1>5, FS_Interval DEF Ranks
<1> QED BY <1>1, <1>2, <1>3, <1>4, <1>5, <1>6 DEF Grant, Ranks, RowKeys, ItemRow, Positions

\* The order of the feed's rows.
LEMMA Ordered ==
  ASSUME NEW x \in Nat \X Nat, NEW y \in Nat \X Nat, NEW z \in Nat \X Nat
  PROVE  /\ ~Before(x, x) /\ ~(Before(x, y) /\ Before(y, x))
         /\ Before(x, y) /\ Before(y, z) => Before(x, z)
         /\ x = y \/ Before(x, y) \/ Before(y, x)
         /\ ~Before(y, x) /\ ~Before(z, y) => ~Before(z, x)
         /\ x[1] < y[1] => Before(x, y)
         /\ ~Before(y, x) => x[1] <= y[1]
  BY DEF Before

------------------------------------------------------------------------------
\* The last change of a row: the greatest of the entries that concern it.

Top(at) == IF at = {} THEN 0 ELSE CHOOSE s \in at : \A t \in at : t <= s

LEMMA TopIs ==
  ASSUME NEW n \in Nat, NEW at \in SUBSET (1..n)
  PROVE  /\ Top(at) \in 0..n /\ \A t \in at : t <= Top(at)
         /\ Top(at) > 0 => Top(at) \in at
<1>1. CASE at = {}
  BY <1>1 DEF Top
<1>2. CASE at # {}
  <2> DEFINE R == {p \in at \X at : p[1] < p[2]}
  <2>1. IsFiniteSet(at)
    <3>1. IsFiniteSet(1..n)
      BY FS_Interval
    <3> QED BY <3>1, FS_Subset
  <2>2. \A t \in at : t \in Nat /\ 1 <= t /\ t <= n
    OBVIOUS
  <2>3. /\ \A x \in at : <<x, x>> \notin R
        /\ \A x, y, z \in at : <<x, y>> \in R /\ <<y, z>> \in R => <<x, z>> \in R
        /\ \A x, y \in at : x = y \/ <<x, y>> \in R \/ <<y, x>> \in R
    BY <2>2
  <2>4. PICK s \in at : \A t \in at : <<s, t>> \notin R
    <3> HIDE DEF R
    <3> QED BY <1>2, <2>1, <2>3, Greatest
  <2>5. \A t \in at : ~(s < t)
    BY <2>4
  <2>6. \A t \in at : t <= s
    BY <2>2, <2>5
  <2>7. Top(at) \in at /\ \A t \in at : t <= Top(at)
    BY <1>2, <2>6 DEF Top
  <2>8. Top(at) \in Nat /\ 1 <= Top(at) /\ Top(at) <= n
    BY <2>2, <2>7
  <2>9. Top(at) \in 0..n
    BY <2>8
  <2> QED BY <2>7, <2>9
<1> QED BY <1>1, <1>2

Changes(c, i, n) == {s \in 1..n : log[c][s].item = i}

LEMMA LastChangeIs ==
  ASSUME NEW c, NEW i, NEW n \in Nat
  PROVE  /\ LastChange(c, i, n) \in 0..n
         /\ \A s \in 1..n : log[c][s].item = i => s <= LastChange(c, i, n)
         /\ LastChange(c, i, n) > 0 => log[c][LastChange(c, i, n)].item = i
<1>1. LastChange(c, i, n) = Top(Changes(c, i, n))
  BY DEF LastChange, Top, Changes
<1>2. Changes(c, i, n) \in SUBSET (1..n)
  BY DEF Changes
<1> QED BY <1>1, <1>2, TopIs DEF Changes

LEMMA LaterChange ==
  ASSUME NEW c, NEW i, NEW n \in Nat, NEW m \in Nat, n <= m, LastChange(c, i, n) > 0
  PROVE  LastChange(c, i, m) > 0
  BY LastChangeIs

LEMMA EarlierStays ==
  ASSUME NEW c, NEW i, NEW n, \A s \in 1..n : log'[c][s] = log[c][s]
  PROVE  LastChange(c, i, n)' = LastChange(c, i, n)
<1>1. LastChange(c, i, n) = Top(Changes(c, i, n)) /\ LastChange(c, i, n)' = Top(Changes(c, i, n)')
  BY DEF LastChange, Top, Changes
<1>2. Changes(c, i, n)' = Changes(c, i, n)
  BY DEF Changes
<1> QED BY <1>1, <1>2

------------------------------------------------------------------------------
\* What the device awaits is a call, a page or nothing.

LEMMA Apart ==
  ASSUME NEW x
  PROVE  /\ x \in Call => x \notin Page /\ x # Idle
         /\ x \in Page => x \notin Call /\ x # Idle
<1>1. x \in Call => DOMAIN x = {"op", "stage"}
  BY DEF Call
<1>2. x \in Page => DOMAIN x = {"next", "rows", "twice", "revoked", "granted"}
  BY DEF Page
<1>3. "next" \notin {"op", "stage"}
  OBVIOUS
<1> QED BY <1>1, <1>2, <1>3, ValuesAssumption

LEMMA Sent ==
  ASSUME NEW o \in Ops, NEW s \in {"lookup", "execute", "ok", "refused"}
  PROVE  /\ [op |-> o, stage |-> s] \in Call
         /\ At(o, s) => call \in Call /\ call.op = o /\ call.stage = s
  BY DEF Call, At

------------------------------------------------------------------------------
\* The kinds of steps: what they do to the service, and to the device.

\* Commands of one step, which the account is told of.
Tells(c, kind, item, by) ==
    /\ Emit(c, kind, item, by)
    /\ \/ /\ by = NoOp /\ receipts' = receipts
          /\ \/ /\ kind = "invited" /\ item = ItemRow /\ member[c] = "none" /\ log[c] # << >>
                /\ member' = [member EXCEPT ![c] = "invited"]
             \/ /\ kind = "claimed" /\ member[c] = "none" /\ log[c] # << >>
                /\ member' = [member EXCEPT ![c] = "active"]
             \/ /\ kind = "owner_changed" /\ member[c] = "active"
                /\ member' = member
             \/ /\ kind = "left" /\ member[c] = "active"
                /\ member' = [member EXCEPT ![c] = "left"]
       \/ /\ by \in Ops \ receipts /\ Command[by].context = c /\ receipts' = receipts \cup {by}
          /\ \/ /\ kind = "created" /\ Command[by].kind = "create" /\ log[c] = << >>
                /\ member' = [member EXCEPT ![c] = "active"]
             \/ /\ kind = "responded" /\ Command[by].kind = "respond" /\ member[c] = "invited"
                /\ member' = [member EXCEPT ![c] = "active"]
             \/ /\ kind = "changed" /\ Command[by].kind = "write" /\ member[c] = "active"
                /\ member' = member

ServiceStep ==
    \E c \in Contexts :
        \/ \E kind \in Kinds, item \in RowKeys, by \in Ops \cup {NoOp} : Tells(c, kind, item, by)
        \/ \E i \in Items : BeginChange(c, i)
        \/ CommitChange(c)

\* The device's copy stays, and so does a page it awaits.
Quiet == UNCHANGED <<stored, fenced, cursor, refused>> /\ (call' \in Page => call' = call)

LEMMA Facts ==
  /\ \A o \in Ops : /\ Command[o].kind \in {"create", "respond", "write"}
                    /\ Command[o].context \in Contexts /\ Command[o].item \in Items
                    /\ Command[o].needs \subseteq Ops /\ o # NoOp
  /\ ItemRow \in RowKeys /\ Items \subseteq RowKeys
  BY SyncAssumption DEF RowKeys

LEMMA ApplyTells ==
  ASSUME NEW o \in Ops, Apply(o)
  PROVE  \E c \in Contexts, kind \in Kinds, item \in RowKeys, by \in Ops \cup {NoOp} :
            Tells(c, kind, item, by)
<1> DEFINE c == Command[o].context
<1>1. c \in Contexts /\ o \in Ops \ receipts /\ receipts' = receipts \cup {o}
  BY Facts DEF Apply, Applies
<1>2. CASE Command[o].kind = "create"
  <2>1. Tells(c, "created", ItemRow, o)
    BY <1>1, <1>2 DEF Apply, Applies, Tells
  <2> QED BY <1>1, <2>1, Facts DEF Kinds
<1>3. CASE Command[o].kind = "respond"
  <2>1. Tells(c, "responded", ItemRow, o)
    BY <1>1, <1>3 DEF Apply, Applies, Tells
  <2> QED BY <1>1, <2>1, Facts DEF Kinds
<1>4. CASE Command[o].kind = "write"
  <2>1. Tells(c, "changed", Command[o].item, o)
    BY <1>1, <1>4 DEF Apply, Applies, Tells, MayWrite
  <2> QED BY <1>1, <2>1, Facts DEF Kinds
<1> QED BY <1>2, <1>3, <1>4, Facts

LEMMA Steps ==
  ASSUME [Next]_vars
  PROVE  \/ ServiceStep /\ Quiet
         \/ UNCHANGED service /\ (Quiet \/ Pull \/ ApplyPage \/ \E c \in Contexts : Fence(c))
<1>1. CASE UNCHANGED vars
  BY <1>1 DEF vars, service, Quiet
<1>2. ASSUME NEW c \in Contexts, Invited(c) \/ Claimed(c) \/ HandOver(c) \/ Leave(c)
      PROVE  ServiceStep /\ Quiet
  <2>1. \E kind \in Kinds, item \in RowKeys, by \in Ops \cup {NoOp} : Tells(c, kind, item, by)
    <3>1. CASE Invited(c)
      <4>1. Tells(c, "invited", ItemRow, NoOp)
        BY <3>1 DEF Invited, Tells
      <4> QED BY <4>1, Facts DEF Kinds
    <3>2. CASE Claimed(c)
      <4>1. Tells(c, "claimed", ItemRow, NoOp)
        BY <3>2 DEF Claimed, Tells
      <4> QED BY <4>1, Facts DEF Kinds
    <3>3. CASE HandOver(c)
      <4>1. Tells(c, "owner_changed", ItemRow, NoOp)
        BY <3>3 DEF HandOver, Tells
      <4> QED BY <4>1, Facts DEF Kinds
    <3>4. CASE Leave(c)
      <4>1. Tells(c, "left", ItemRow, NoOp)
        BY <3>4 DEF Leave, Tells
      <4> QED BY <4>1, Facts DEF Kinds
    <3> QED BY <1>2, <3>1, <3>2, <3>3, <3>4
  <2>2. Quiet
    BY <1>2 DEF Invited, Claimed, HandOver, Leave, store, Quiet
  <2> QED BY <2>1, <2>2 DEF ServiceStep
<1>3. ASSUME NEW c \in Contexts, NEW i \in Items, BeginChange(c, i)
      PROVE  ServiceStep /\ Quiet
  BY <1>3 DEF BeginChange, store, ServiceStep, Quiet
<1>4. ASSUME NEW c \in Contexts, CommitChange(c)
      PROVE  ServiceStep /\ Quiet
  BY <1>4 DEF CommitChange, store, ServiceStep, Quiet
<1>5. ASSUME NEW o \in Ops, Execute(o)
      PROVE  Quiet /\ (ServiceStep \/ UNCHANGED service)
  <2>1. Quiet
    BY <1>5, Sent, Apart DEF Execute, store, Quiet
  <2> QED BY <1>5, <2>1, ApplyTells DEF Execute, ServiceStep
<1>6. ASSUME NEW o \in Ops, LateExecution(o)
      PROVE  Quiet /\ (ServiceStep \/ UNCHANGED service)
  <2>1. Quiet
    BY <1>6 DEF LateExecution, store, Quiet
  <2> QED BY <1>6, <2>1, ApplyTells DEF LateExecution, ServiceStep
<1>7. ASSUME NEW c \in Contexts, ReadDenied(c)
      PROVE  UNCHANGED service /\ Quiet
  BY <1>7 DEF ReadDenied, store, Quiet
<1>8. ASSUME NEW o \in Ops, Enqueue(o) \/ Claim(o) \/ Lookup(o)
      PROVE  UNCHANGED service /\ Quiet
  BY <1>8, Sent, Apart DEF Enqueue, Claim, Lookup, store, Quiet
<1>9. ASSUME NEW o \in Ops, Complete(o) \/ Reject(o) \/ Fail(o)
      PROVE  UNCHANGED service /\ Quiet
  BY <1>9, Apart DEF Complete, Reject, Fail, store, Quiet
<1>10. CASE PageLost \/ Crash
  BY <1>10, Apart DEF PageLost, Crash, store, Quiet
<1>11. ASSUME Pull \/ ApplyPage \/ \E c \in Contexts : Fence(c)
       PROVE  UNCHANGED service
  BY <1>11 DEF Pull, ApplyPage, Fence
<1> QED
  BY <1>1, <1>2, <1>3, <1>4, <1>5, <1>6, <1>7, <1>8, <1>9, <1>10, <1>11 DEF Next

------------------------------------------------------------------------------
\* The service.

TypeService ==
    /\ member \in [Contexts -> {"none", "invited", "active", "left"}]
    /\ log \in [Contexts -> Seq(Entry)] /\ \A c \in Contexts : Len(log[c]) <= MaxLog
    /\ stream \in [Positions -> Event \cup {NoEvent}]
    /\ open \in [Contexts -> Transaction \cup {NoTransaction}]
    /\ receipts \subseteq Ops

TypeDevice ==
    /\ late \subseteq Ops
    /\ command \in [Ops -> {"none", "pending", "committed", "rejected"}]
    /\ stored \in [Contexts -> [RowKeys -> Row \cup {NoRow}]]
    /\ fenced \subseteq Contexts /\ denied \subseteq Contexts /\ refused \subseteq Contexts
    /\ cursor \in Cursor
    /\ call \in {Idle} \cup Call \cup Page

LEMMA TypeSplit == TypeOK <=> TypeService /\ TypeDevice
  BY DEF TypeOK, TypeService, TypeDevice, RowKeys

\* Every position that is taken stands for an entry of a log, written or about
\* to be, so that there is a position left as long as a log has room.
Stands(k) ==
    IF k \in Events THEN <<stream[k].context, stream[k].sequence>>
    ELSE LET d == CHOOSE d \in Contexts : open[d] # NoTransaction /\ open[d].position = k
         IN  <<d, Latest(d) + 1>>

LEMMA EventIs ==
  ASSUME TypeService, NEW k \in Events
  PROVE  /\ k \in Positions /\ k \in Nat \ {0} /\ stream[k] \in Event
         /\ stream[k].context \in Contexts
         /\ stream[k].sequence \in 1..MaxLog
<1>1. k \in Positions /\ stream[k] \in Event
  BY DEF TypeService, Events
<1> QED BY <1>1, Numbers DEF Event, Positions

LEMMA RoomLeft ==
  ASSUME TypeService, ContextsBegin, StreamInOrder, OpenIsLast,
         NEW c \in Contexts, open[c] = NoTransaction, Latest(c) < MaxLog
  PROVE  /\ NextPosition \in Positions /\ NextPosition \notin Taken
         /\ \A k \in Taken : k < NextPosition
         /\ IsFiniteSet(Taken)
<1> DEFINE All == Contexts \X (1..MaxLog)
           Rest == All \ {<<c, Latest(c) + 1>>}
           f == [k \in Taken |-> Stands(k)]
<1>1. IsFiniteSet(Taken) /\ Cardinality(Taken) \in Nat
  BY Numbers, FS_Subset, FS_CardinalityType DEF Taken, Events
<1>2. \A d \in Contexts : Latest(d) \in Nat
  BY DEF TypeService, Latest
<1>3. IsFiniteSet(All) /\ Cardinality(All) = Cardinality(Contexts) * MaxLog
  <2>1. IsFiniteSet(1..MaxLog) /\ Cardinality(1..MaxLog) = MaxLog
    BY FS_Interval, SyncAssumption
  <2> QED BY <2>1, FS_Product, SyncAssumption
<1>4. <<c, Latest(c) + 1>> \in All
  BY <1>2, SyncAssumption
<1>5. IsFiniteSet(Rest) /\ Cardinality(Rest) = Cardinality(All) - 1
  BY <1>3, <1>4, FS_RemoveElement
<1>6. ASSUME NEW k \in Taken, k \notin Events
      PROVE  \E d \in Contexts : /\ open[d] # NoTransaction /\ open[d].position = k
                                 /\ Stands(k) = <<d, Latest(d) + 1>>
  BY <1>6 DEF Taken, Stands
<1>7. ASSUME NEW k \in Taken
      PROVE  f[k] \in Rest
  <2>1. CASE k \in Events
    <3>1. f[k] = <<stream[k].context, stream[k].sequence>>
      BY <2>1 DEF Stands
    <3>2. stream[k].sequence <= Latest(stream[k].context)
      BY <2>1 DEF StreamInOrder
    <3> QED BY <2>1, <3>1, <3>2, <1>2, EventIs
  <2>2. CASE k \notin Events
    <3>1. PICK d \in Contexts : open[d] # NoTransaction /\ f[k] = <<d, Latest(d) + 1>>
      BY <1>6, <2>2
    <3>2. d # c /\ Latest(d) < MaxLog
      BY <3>1 DEF ContextsBegin
    <3> QED BY <3>1, <3>2, <1>2, SyncAssumption
  <2> QED BY <2>1, <2>2
<1>8. ASSUME NEW j \in Taken, NEW k \in Taken, f[j] = f[k]
      PROVE  j = k
  <2>1. CASE j \in Events /\ k \in Events
    <3>1. stream[j].context = stream[k].context /\ stream[j].sequence = stream[k].sequence
      BY <1>8, <2>1 DEF Stands
    <3>2. ~(j < k) /\ ~(k < j)
      BY <2>1, <3>1, EventIs DEF StreamInOrder
    <3> QED BY <2>1, <3>2, EventIs
  <2>2. ASSUME NEW x \in Events, NEW y \in Taken \ Events, NEW z \in Taken,
               Stands(x) = Stands(y)
        PROVE  FALSE
    <3>1. PICK d \in Contexts : Stands(y) = <<d, Latest(d) + 1>>
      BY <1>6
    <3>2. stream[x].context = d /\ stream[x].sequence = Latest(d) + 1
      BY <2>2, <3>1 DEF Stands
    <3> QED BY <3>2, <1>2, EventIs DEF StreamInOrder
  <2>3. CASE j \notin Events /\ k \notin Events
    <3>1. PICK d \in Contexts : open[d].position = j /\ Stands(j) = <<d, Latest(d) + 1>>
      BY <1>6, <2>3
    <3>2. PICK e \in Contexts : open[e].position = k /\ Stands(k) = <<e, Latest(e) + 1>>
      BY <1>6, <2>3
    <3> QED BY <1>8, <3>1, <3>2
  <2> QED BY <1>8, <2>1, <2>2, <2>3
<1>9. f \in Injection(Taken, Rest)
  <2>1. f \in [Taken -> Rest]
    BY <1>7
  <2> HIDE DEF f
  <2> QED BY <1>8, <2>1 DEF Injection, IsInjective
<1>10. Cardinality(Taken) <= Cardinality(Contexts) * MaxLog - 1
  BY <1>3, <1>5, <1>9, FS_Injection
<1>11. Cardinality(Taken) + 1 \in Positions
  BY <1>1, <1>10, Numbers, SyncAssumption DEF Positions
<1>12. Taken = 1..Cardinality(Taken)
  BY DEF StreamInOrder
<1> QED BY <1>1, <1>11, <1>12 DEF NextPosition

------------------------------------------------------------------------------
\* One entry is added to the log of c, and its event at position p, or none if
\* p is 0.

Adds(c, p, e) ==
    /\ c \in Contexts /\ e \in Entry /\ Latest(c) < MaxLog
    /\ log' = [log EXCEPT ![c] = Append(@, e)]
    /\ p \in Positions \cup {0} /\ \A k \in Events : p # 0 => k < p
    /\ stream' = IF p = 0 THEN stream
                 ELSE [stream EXCEPT ![p] = [context |-> c, sequence |-> Latest(c) + 1]]

LEMMA AddedLog ==
  ASSUME TypeService, NEW c, NEW p, NEW e, Adds(c, p, e)
  PROVE  /\ log' \in [Contexts -> Seq(Entry)] /\ \A d \in Contexts : Len(log'[d]) <= MaxLog
         /\ \A d \in Contexts : d # c => log'[d] = log[d]
         /\ Len(log'[c]) = Latest(c) + 1 /\ log'[c][Latest(c) + 1] = e
         /\ \A d \in Contexts : Latest(d) \in Nat /\ Latest(d) <= Len(log'[d])
         /\ \A d \in Contexts : \A s \in 1..Latest(d) : log'[d][s] = log[d][s]
<1>1. c \in Contexts /\ e \in Entry /\ log[c] \in Seq(Entry) /\ Len(log[c]) \in Nat /\ Len(log[c]) < MaxLog
  BY DEF Adds, TypeService, Latest
<1>2. log'[c] = Append(log[c], e) /\ \A d \in Contexts : d # c => log'[d] = log[d]
  BY <1>1 DEF Adds, TypeService
<1>3. /\ Append(log[c], e) \in Seq(Entry) /\ Len(Append(log[c], e)) = Len(log[c]) + 1
      /\ Append(log[c], e)[Len(log[c]) + 1] = e
      /\ \A s \in 1..Len(log[c]) : Append(log[c], e)[s] = log[c][s]
  BY <1>1
<1>4. log' \in [Contexts -> Seq(Entry)]
  BY <1>1, <1>3 DEF Adds, TypeService
<1>5. \A d \in Contexts : Len(log[d]) \in Nat /\ Len(log[d]) <= MaxLog
  BY DEF TypeService
<1>6. Len(log'[c]) = Len(log[c]) + 1 /\ log'[c][Len(log[c]) + 1] = e
      /\ \A s \in 1..Len(log[c]) : log'[c][s] = log[c][s]
  BY <1>2, <1>3
<1>7. \A d \in Contexts : Len(log'[d]) <= MaxLog /\ Len(log[d]) <= Len(log'[d])
  BY <1>1, <1>2, <1>5, <1>6, SyncAssumption
<1>8. \A d \in Contexts : \A s \in 1..Len(log[d]) : log'[d][s] = log[d][s]
  BY <1>2, <1>6
<1> QED BY <1>2, <1>4, <1>5, <1>6, <1>7, <1>8 DEF Latest

LEMMA AddedStream ==
  ASSUME TypeService, NEW c, NEW p, NEW e, Adds(c, p, e)
  PROVE  /\ stream' \in [Positions -> Event \cup {NoEvent}]
         /\ \A k \in Events : stream'[k] = stream[k]
         /\ Events' = Events \cup ({p} \ {0}) /\ p \notin Events
         /\ p # 0 => stream'[p] = [context |-> c, sequence |-> Latest(c) + 1]
<1> DEFINE ref == [context |-> c, sequence |-> Latest(c) + 1]
<1>1. ref \in Event /\ ref # NoEvent
  <2>0. c \in Contexts /\ Latest(c) < MaxLog /\ Latest(c) \in Nat
    BY AddedLog DEF Adds
  <2>1. c \in Contexts /\ Latest(c) + 1 \in 1..MaxLog
    BY <2>0, SyncAssumption
  <2> QED BY <2>1, ValuesAssumption DEF Event
<1>2. 0 \notin Positions /\ \A k \in Events : k \in Nat
  BY Numbers DEF Positions, Events
<1>3. p \notin Events
  BY <1>2 DEF Adds, Events
<1>4. CASE p = 0
  BY <1>2, <1>3, <1>4 DEF Adds, TypeService, Events
<1>5. CASE p # 0
  <2> HIDE DEF ref
  <2>1. p \in Positions /\ stream' = [stream EXCEPT ![p] = ref]
    BY <1>5 DEF Adds, ref
  <2>2. stream' \in [Positions -> Event \cup {NoEvent}] /\ stream'[p] = ref
        /\ \A k \in Positions : k # p => stream'[k] = stream[k]
    BY <1>1, <2>1 DEF TypeService
  <2> QED BY <1>1, <1>3, <1>5, <2>1, <2>2 DEF Events, ref
<1> QED BY <1>4, <1>5

\* A command of one step gets the position after all others.
LEMMA TellsAdds ==
  ASSUME TypeService, Service, NEW c \in Contexts, NEW kind \in Kinds, NEW item \in RowKeys,
         NEW by \in Ops \cup {NoOp}, Tells(c, kind, item, by)
  PROVE  /\ Adds(c, NextPosition, [kind |-> kind, item |-> item, by |-> by])
         /\ NextPosition \in Positions /\ NextPosition # 0 /\ open' = open
         /\ Taken = Events /\ Taken' = Taken \cup {NextPosition}
         /\ Cardinality(Taken') = NextPosition
<1>1. open[c] = NoTransaction /\ Latest(c) < MaxLog /\ StreamIsFree /\ open' = open
  BY DEF Tells, Emit
<1>2. /\ NextPosition \in Positions /\ NextPosition \notin Taken /\ IsFiniteSet(Taken)
      /\ \A k \in Taken : k < NextPosition
  BY <1>1, RoomLeft DEF Service
<1>3. 0 \notin Positions
  BY Numbers DEF Positions
<1>4. Taken = Events
  BY <1>1, <1>3 DEF Taken, StreamIsFree
<1>5. [kind |-> kind, item |-> item, by |-> by] \in Entry
  BY DEF Entry, RowKeys
<1>6. Adds(c, NextPosition, [kind |-> kind, item |-> item, by |-> by])
  BY <1>1, <1>2, <1>3, <1>4, <1>5 DEF Adds, Tells, Emit
<1>7. Taken' = Events'
  BY <1>1, <1>3 DEF Taken, StreamIsFree
<1>8. Taken' = Taken \cup {NextPosition}
  BY <1>2, <1>3, <1>4, <1>6, <1>7, AddedStream
<1>9. Cardinality(Taken') = Cardinality(Taken) + 1
  BY <1>2, <1>8, FS_AddElement
<1> QED BY <1>1, <1>2, <1>3, <1>4, <1>6, <1>8, <1>9 DEF NextPosition

\* A transaction of another account writes at the position it has, if any.
LEMMA CommitAdds ==
  ASSUME TypeService, Service, NEW c \in Contexts, CommitChange(c)
  PROVE  /\ Adds(c, open[c].position, [kind |-> "changed", item |-> open[c].item, by |-> NoOp])
         /\ Taken' = Taken /\ member' = member /\ receipts' = receipts
         /\ open' = [open EXCEPT ![c] = NoTransaction] /\ open[c] # NoTransaction
<1>1. open[c] \in Transaction /\ open[c] # NoTransaction
  BY DEF CommitChange, TypeService
<1>2. open[c].item \in Items /\ open[c].position \in Positions \cup {0}
  BY <1>1 DEF Transaction
<1>3. Latest(c) < MaxLog /\ \A k \in Events : open[c].position # 0 => k < open[c].position
  BY <1>1 DEF Service, ContextsBegin, OpenIsLast
<1>4. [kind |-> "changed", item |-> open[c].item, by |-> NoOp] \in Entry
  BY <1>2 DEF Entry, Kinds
<1>5. Adds(c, open[c].position, [kind |-> "changed", item |-> open[c].item, by |-> NoOp])
  BY <1>2, <1>3, <1>4 DEF Adds, CommitChange
<1>6. open' = [open EXCEPT ![c] = NoTransaction]
  BY DEF CommitChange
<1>7. open'[c] = NoTransaction /\ \A d \in Contexts : d # c => open'[d] = open[d]
  BY <1>6 DEF TypeService
<1>8. 0 \notin Positions
  BY Numbers DEF Positions
<1>9. Events' = Events \cup ({open[c].position} \ {0})
  BY <1>5, AddedStream
<1>10. Taken' = Taken
  BY <1>1, <1>2, <1>7, <1>8, <1>9 DEF Taken
<1> QED BY <1>1, <1>5, <1>6, <1>10 DEF CommitChange

\* A transaction of another account takes the position after all others, if
\* this account is a member.
LEMMA BeginTakes ==
  ASSUME TypeService, Service, NEW c \in Contexts, NEW i \in Items, BeginChange(c, i)
  PROVE  /\ UNCHANGED <<member, log, stream, receipts>>
         /\ open \in [Contexts -> Transaction \cup {NoTransaction}]
         /\ open'[c] \in Transaction /\ open[c] = NoTransaction
         /\ \A d \in Contexts : d # c => open'[d] = open[d]
         /\ \/ member[c] # "active" /\ open'[c].position = 0 /\ Taken' = Taken
            \/ /\ member[c] = "active" /\ open'[c].position = NextPosition /\ Taken = Events
               /\ NextPosition \in Positions /\ StreamIsFree
               /\ Taken' = Taken \cup {NextPosition} /\ Cardinality(Taken') = NextPosition
<1> DEFINE t == [item |-> i, position |-> IF member[c] = "active" THEN NextPosition ELSE 0]
<1>1. /\ open[c] = NoTransaction /\ Latest(c) < MaxLog /\ UNCHANGED <<member, log, stream, receipts>>
      /\ open' = [open EXCEPT ![c] = t]
      /\ member[c] = "active" => StreamIsFree
  BY DEF BeginChange
<1>2. /\ NextPosition \in Positions /\ NextPosition \notin Taken /\ IsFiniteSet(Taken)
  BY <1>1, RoomLeft DEF Service
<1>3. 0 \notin Positions
  BY Numbers DEF Positions
<1>4. t \in Transaction /\ t # NoTransaction
  BY <1>2, ValuesAssumption DEF Transaction
<1>5. t.position = IF member[c] = "active" THEN NextPosition ELSE 0
  OBVIOUS
<1> HIDE DEF t
<1>6. open'[c] = t /\ \A d \in Contexts : d # c => open'[d] = open[d]
  BY <1>1 DEF TypeService
<1>7. Events' = Events
  BY <1>1 DEF Events
<1>8. CASE member[c] = "active"
  <2>1. Taken = Events
    BY <1>1, <1>3, <1>8 DEF Taken, StreamIsFree
  <2>2. Taken' = Taken \cup {NextPosition}
    <3>1. \A d \in Contexts : d # c /\ open'[d] # NoTransaction => open'[d].position = 0
      BY <1>1, <1>6, <1>8 DEF StreamIsFree
    <3>2. {k \in Positions : \E d \in Contexts : open'[d] # NoTransaction /\ open'[d].position = k}
            = {NextPosition}
      BY <1>2, <1>3, <1>4, <1>5, <1>6, <1>8, <3>1
    <3> QED BY <1>7, <2>1, <3>2 DEF Taken
  <2>3. Cardinality(Taken') = NextPosition
    BY <1>2, <2>2, FS_AddElement DEF NextPosition
  <2> QED BY <1>1, <1>2, <1>4, <1>5, <1>6, <1>8, <2>1, <2>2, <2>3 DEF TypeService
<1>9. CASE member[c] # "active"
  <2>1. {k \in Positions : \E d \in Contexts : open'[d] # NoTransaction /\ open'[d].position = k}
          = {k \in Positions : \E d \in Contexts : open[d] # NoTransaction /\ open[d].position = k}
    BY <1>1, <1>3, <1>4, <1>5, <1>6, <1>9
  <2>2. Taken' = Taken
    BY <1>7, <2>1 DEF Taken
  <2> QED BY <1>1, <1>4, <1>5, <1>6, <1>9, <2>2 DEF TypeService
<1> QED BY <1>8, <1>9

------------------------------------------------------------------------------
\* The service forgets nothing: logs and stream grow at their ends, accounts
\* join and leave once, receipts stay.

Grows ==
    /\ \A c \in Contexts : /\ Latest(c) \in Nat /\ Latest(c) <= Len(log'[c])
                           /\ \A s \in 1..Latest(c) : log'[c][s] = log[c][s]
    /\ \A k \in Events : k \in Events' /\ stream'[k] = stream[k]
    /\ \A k \in Events' \ Events : \A j \in Events : j < k
    /\ \A c \in Contexts : \/ member'[c] = member[c]
                           \/ member[c] = "none"
                           \/ member[c] = "invited" /\ member'[c] = "active"
                           \/ member[c] = "active" /\ member'[c] = "left"
    /\ receipts \subseteq receipts'

LEMMA ServiceGrows ==
  ASSUME TypeService, Service, ServiceStep
  PROVE  Grows /\ TypeService'
<1>1. ASSUME NEW c, NEW p, NEW e, Adds(c, p, e)
      PROVE  /\ \A d \in Contexts : /\ Latest(d) \in Nat /\ Latest(d) <= Len(log'[d])
                                    /\ \A s \in 1..Latest(d) : log'[d][s] = log[d][s]
             /\ \A k \in Events : k \in Events' /\ stream'[k] = stream[k]
             /\ \A k \in Events' \ Events : \A j \in Events : j < k
             /\ log' \in [Contexts -> Seq(Entry)] /\ \A d \in Contexts : Len(log'[d]) <= MaxLog
             /\ stream' \in [Positions -> Event \cup {NoEvent}]
  <2>1. \A k \in Events' \ Events : \A j \in Events : j < k
    <3>1. Events' = Events \cup ({p} \ {0})
      BY <1>1, AddedStream
    <3>2. \A k \in Events : p # 0 => k < p
      BY <1>1 DEF Adds
    <3> QED BY <3>1, <3>2
  <2>2. /\ \A d \in Contexts : /\ Latest(d) \in Nat /\ Latest(d) <= Len(log'[d])
                               /\ \A s \in 1..Latest(d) : log'[d][s] = log[d][s]
        /\ log' \in [Contexts -> Seq(Entry)] /\ \A d \in Contexts : Len(log'[d]) <= MaxLog
    BY <1>1, AddedLog
  <2>3. /\ \A k \in Events : k \in Events' /\ stream'[k] = stream[k]
        /\ stream' \in [Positions -> Event \cup {NoEvent}]
    BY <1>1, AddedStream
  <2> QED BY <2>1, <2>2, <2>3
<1>2. ASSUME NEW c \in Contexts, NEW kind \in Kinds, NEW item \in RowKeys,
             NEW by \in Ops \cup {NoOp}, Tells(c, kind, item, by)
      PROVE  Grows /\ TypeService'
  <2>1. Adds(c, NextPosition, [kind |-> kind, item |-> item, by |-> by]) /\ open' = open
    BY <1>2, TellsAdds
  <2>2. log[c] = << >> => member[c] = "none"
    BY DEF Service, ContextsBegin
  <2>3. /\ member' \in [Contexts -> {"none", "invited", "active", "left"}]
        /\ \A d \in Contexts : \/ member'[d] = member[d]
                               \/ member[d] = "none"
                               \/ member[d] = "invited" /\ member'[d] = "active"
                               \/ member[d] = "active" /\ member'[d] = "left"
    BY <1>2, <2>2 DEF Tells, TypeService
  <2>4. receipts \subseteq receipts' /\ receipts' \subseteq Ops
    BY <1>2 DEF Tells, TypeService
  <2>5. Grows
    BY <1>1, <2>1, <2>3, <2>4 DEF Grows
  <2> QED BY <1>1, <2>1, <2>3, <2>4, <2>5 DEF TypeService
<1>3. ASSUME NEW c \in Contexts, CommitChange(c)
      PROVE  Grows /\ TypeService'
  <2>1. /\ Adds(c, open[c].position, [kind |-> "changed", item |-> open[c].item, by |-> NoOp])
        /\ member' = member /\ receipts' = receipts /\ open' = [open EXCEPT ![c] = NoTransaction]
    BY <1>3, CommitAdds
  <2>2. open' \in [Contexts -> Transaction \cup {NoTransaction}]
    BY <2>1 DEF TypeService
  <2>3. Grows
    BY <1>1, <2>1 DEF Grows
  <2> QED BY <1>1, <2>1, <2>2, <2>3 DEF TypeService
<1>4. ASSUME NEW c \in Contexts, NEW i \in Items, BeginChange(c, i)
      PROVE  Grows /\ TypeService'
  <2>1. /\ UNCHANGED <<member, log, stream, receipts>> /\ open'[c] \in Transaction
        /\ \A d \in Contexts : d # c => open'[d] = open[d]
    BY <1>4, BeginTakes
  <2>2. open' \in [Contexts -> Transaction \cup {NoTransaction}]
    <3>1. DOMAIN open' = Contexts /\ open' = [d \in Contexts |-> open'[d]]
      BY <1>4 DEF BeginChange, TypeService
    <3> QED BY <2>1, <3>1 DEF TypeService
  <2>3. \A d \in Contexts : Latest(d) \in Nat /\ Latest(d) = Len(log'[d])
    BY <2>1 DEF Latest, TypeService
  <2>4. Events' = Events
    BY <2>1 DEF Events
  <2>5. Grows
    BY <2>1, <2>3, <2>4 DEF Grows
  <2> QED BY <2>1, <2>2, <2>5 DEF TypeService
<1> QED BY <1>2, <1>3, <1>4 DEF ServiceStep

\* What an event says stays.
LEMMA EventsStay ==
  ASSUME TypeService, Service, Grows, NEW k \in Events
  PROVE  /\ EntryOf(k)' = EntryOf(k)
         /\ \A i \in RowKeys : LastChange(stream[k].context, i, stream[k].sequence)'
                                 = LastChange(stream[k].context, i, stream[k].sequence)
         /\ \A i \in RowKeys : Concerns(k, i)' <=> Concerns(k, i)
<1> DEFINE c == stream[k].context  s == stream[k].sequence
<1>1. c \in Contexts /\ s \in Nat /\ 1 <= s /\ s <= Latest(c) /\ Latest(c) \in Nat
  BY EventIs, SyncAssumption DEF Service, StreamInOrder, Grows
<1>2. stream'[k] = stream[k] /\ \A t \in 1..s : log'[c][t] = log[c][t]
  BY <1>1 DEF Grows
<1>3. EntryOf(k)' = EntryOf(k)
  BY <1>1, <1>2 DEF EntryOf
<1>4. ASSUME NEW d, NEW n, d = c, n = s, NEW i \in RowKeys
      PROVE  LastChange(d, i, n)' = LastChange(d, i, n)
  BY <1>2, <1>4, EarlierStays
<1>5. ASSUME NEW i \in RowKeys
      PROVE  LastChange(c, i, s)' = LastChange(c, i, s)
  <2>1. PICK d, n : d = c /\ n = s
    OBVIOUS
  <2>2. LastChange(d, i, n)' = LastChange(d, i, n)
    BY <2>1, <1>4
  <2>3. LastChange(c, i, s) = LastChange(d, i, n)
    BY <2>1
  <2>4. c' = d /\ s' = n
    BY <2>1, <1>2
  <2>5. LastChange(c, i, s)' = LastChange(d, i, n)'
    BY <2>4 DEF LastChange
  <2> QED BY <2>2, <2>3, <2>5
<1>6. ASSUME NEW i \in RowKeys
      PROVE  Concerns(k, i)' <=> Concerns(k, i)
  BY <1>3, <1>5 DEF Concerns
<1> QED BY <1>3, <1>5, <1>6

------------------------------------------------------------------------------
\* Each step of the service keeps its invariants.

LEMMA LogKeeps ==
  ASSUME TypeService, Service, NEW c, NEW p, NEW e, Adds(c, p, e), receipts \subseteq receipts',
         e.by # NoOp => e.by \in receipts' \ receipts /\ Command[e.by].context = c
  PROVE  LogsAreOwn' /\ AppliedOnce'
<1> DEFINE Old(d, s) == s \in 1..Latest(d)
<1>1. \A d \in Contexts : Latest(d) \in Nat /\ Latest(d)' = Len(log'[d])
  BY AddedLog DEF Latest
<1>2. c \in Contexts /\ Latest(c)' = Latest(c) + 1 /\ log'[c][Latest(c) + 1] = e
  BY AddedLog DEF Adds, Latest
<1>3. ASSUME NEW d \in Contexts, NEW s \in 1..Latest(d)'
      PROVE  \/ Old(d, s) /\ log'[d][s] = log[d][s]
             \/ d = c /\ s = Latest(c) + 1 /\ log'[d][s] = e
  <2>1. CASE d = c
    <3>1. s \in 1..(Latest(c) + 1)
      BY <1>2, <2>1
    <3>2. s \in 1..Latest(c) \/ s = Latest(c) + 1
      BY <1>1, <1>2, <3>1
    <3> QED BY <1>2, <2>1, <3>2, AddedLog
  <2>2. CASE d # c
    <3>1. log'[d] = log[d] /\ Latest(d)' = Latest(d)
      BY <2>2, AddedLog DEF Latest
    <3> QED BY <3>1
  <2> QED BY <2>1, <2>2
<1>4. ASSUME NEW d \in Contexts, NEW s, Old(d, s), log[d][s].by # NoOp
      PROVE  log[d][s].by \in receipts /\ Command[log[d][s].by].context = d
  BY <1>4 DEF Service, LogsAreOwn
<1> HIDE DEF Old
<1>5. LogsAreOwn'
  <2>1. ASSUME NEW d \in Contexts, NEW s \in 1..Latest(d)', log'[d][s].by # NoOp
        PROVE  log'[d][s].by \in receipts' /\ Command[log'[d][s].by].context = d
    BY <1>3, <1>4, <2>1
  <2> QED BY <2>1 DEF LogsAreOwn
<1>6. ASSUME NEW d \in Contexts, NEW s \in 1..Latest(d)', NEW t \in 1..Latest(d)',
             log'[d][s].by = log'[d][t].by, log'[d][s].by # NoOp
      PROVE  s = t
  <2>1. CASE Old(d, s) /\ Old(d, t) /\ log'[d][s] = log[d][s] /\ log'[d][t] = log[d][t]
    BY <1>6, <2>1 DEF Service, AppliedOnce, Old
  <2>2. ASSUME NEW x, Old(d, x), d = c, log[d][x].by = e.by, e.by # NoOp
        PROVE  FALSE
    BY <1>4, <2>2
  <2> QED BY <1>3, <1>6, <2>1, <2>2
<1>7. AppliedOnce'
  BY <1>6 DEF AppliedOnce
<1> QED BY <1>5, <1>7

LEMMA TellsKeeps ==
  ASSUME TypeService, Service, NEW c \in Contexts, NEW kind \in Kinds, NEW item \in RowKeys,
         NEW by \in Ops \cup {NoOp}, Tells(c, kind, item, by), Grows
  PROVE  Service'
<1> DEFINE p == NextPosition  e == [kind |-> kind, item |-> item, by |-> by]
<1>1. /\ Adds(c, p, e) /\ p \in Positions /\ p # 0 /\ open' = open
      /\ Taken = Events /\ Taken' = Taken \cup {p} /\ Cardinality(Taken') = p
  BY TellsAdds
<1>2. /\ open[c] = NoTransaction /\ StreamIsFree
      /\ \A d \in Contexts : d # c => member'[d] = member[d]
  BY DEF Tells, Emit, TypeService
<1>3. /\ member[c] \in {"none", "invited", "active"}
      /\ member'[c] \in {"invited", "active", "left"}
      /\ member'[c] = "invited" => kind = "invited" /\ item = ItemRow
      /\ kind = "left" => member'[c] = "left"
  BY DEF Tells, TypeService, Service, ContextsBegin
<1>4. LogsAreOwn' /\ AppliedOnce'
  <2>1. receipts \subseteq receipts'
        /\ (e.by # NoOp => e.by \in receipts' \ receipts /\ Command[e.by].context = c)
    BY DEF Tells
  <2> HIDE DEF e, p
  <2> QED BY <1>1, <2>1, LogKeeps
<1> HIDE DEF e, p
<1>5. /\ Len(log'[c]) = Latest(c) + 1 /\ Latest(c) \in Nat /\ log'[c][Latest(c) + 1] = e
      /\ \A d \in Contexts : d # c => log'[d] = log[d]
  BY <1>1, AddedLog
<1>6. /\ Events' = Events \cup {p} /\ p \notin Events
      /\ stream'[p] = [context |-> c, sequence |-> Latest(c) + 1]
      /\ \A k \in Events : stream'[k] = stream[k]
  BY <1>1, AddedStream
<1>7. p \in Nat /\ \A k \in Events : k < p /\ k \in Nat
  BY <1>1, Numbers DEF Adds, Events
<1>8. ContextsBegin'
  <2>1. ASSUME NEW d \in Contexts
        PROVE  /\ log'[d] = << >> => member'[d] = "none" /\ open'[d] = NoTransaction
               /\ open'[d] # NoTransaction => Len(log'[d]) < MaxLog
    <3>1. CASE d = c
      <4>1. log'[d] # << >>
        BY <1>5, <3>1
      <4> QED BY <1>1, <1>2, <3>1, <4>1
    <3>2. CASE d # c
      BY <1>1, <1>2, <1>5, <3>2 DEF Service, ContextsBegin, Latest
    <3> QED BY <3>1, <3>2
  <2> QED BY <2>1 DEF ContextsBegin, Latest
<1>9. StreamInOrder'
  <2>1. Taken' = 1..Cardinality(Taken')
    <3>1. Taken = 1..Cardinality(Taken) /\ Cardinality(Taken) + 1 = p
      BY DEF Service, StreamInOrder, p, NextPosition
    <3>2. IsFiniteSet(Taken) /\ Cardinality(Taken) \in Nat
      BY Numbers, FS_Subset, FS_CardinalityType DEF Taken, Events
    <3> QED BY <1>1, <3>1, <3>2
  <2>2. ASSUME NEW k \in Events'
        PROVE  stream'[k].sequence <= Len(log'[stream'[k].context])
               /\ member'[stream'[k].context] # "none"
    <3>1. CASE k \in Events
      <4>1. stream[k].context \in Contexts /\ stream[k].sequence \in Nat
        BY <3>1, EventIs, SyncAssumption
      <4>2. /\ stream[k].sequence <= Latest(stream[k].context)
            /\ Latest(stream[k].context) <= Len(log'[stream[k].context])
            /\ member[stream[k].context] # "none"
        BY <3>1, <4>1 DEF Service, StreamInOrder, Grows
      <4>3. Latest(stream[k].context) \in Nat /\ Len(log'[stream[k].context]) \in Nat
        BY <4>1, <1>5 DEF Grows, Latest
      <4>4. member'[stream[k].context] # "none"
        BY <4>1, <4>2, <1>2, <1>3
      <4> QED BY <1>6, <3>1, <4>1, <4>2, <4>3, <4>4
    <3>2. CASE k = p
      BY <1>3, <1>5, <1>6, <3>2
    <3> QED BY <1>6, <3>1, <3>2
  <2>3. ASSUME NEW j \in Events', NEW k \in Events', j < k,
               stream'[j].context = stream'[k].context
        PROVE  stream'[j].sequence < stream'[k].sequence
    <3>1. CASE j \in Events /\ k \in Events
      BY <1>6, <2>3, <3>1 DEF Service, StreamInOrder
    <3>2. CASE j \in Events /\ k = p
      <4>1. stream[j].sequence <= Latest(stream[j].context) /\ stream[j].context = c
        BY <1>6, <2>3, <3>2 DEF Service, StreamInOrder
      <4>2. stream[j].sequence \in Nat
        BY <3>2, EventIs, SyncAssumption
      <4> QED BY <1>5, <1>6, <3>2, <4>1, <4>2
    <3>3. CASE j = p
      <4>1. k \in Events \/ k = p
        BY <1>6
      <4>2. ~(p < k)
        BY <4>1, <1>7
      <4> QED BY <2>3, <3>3, <4>2
    <3> QED BY <1>6, <3>1, <3>2, <3>3
  <2> QED BY <2>1, <2>2, <2>3 DEF StreamInOrder, Latest
<1>10. OpenIsLast'
  BY <1>1, <1>2 DEF OpenIsLast, StreamIsFree
<1>11. FirstAndLast'
  <2>1. ASSUME NEW k \in Events'
        PROVE  LET d == stream'[k].context
               IN  /\ EntryOf(k)'.kind = "left" =>
                         /\ member'[d] = "left"
                         /\ \A j \in Events' : stream'[j].context = d => j <= k
                   /\ member'[d] = "invited" => /\ EntryOf(k)'.kind = "invited"
                                                /\ EntryOf(k)'.item = ItemRow
    <3>1. CASE k \in Events
      <4> DEFINE d == stream[k].context
      <4>1. stream'[k] = stream[k] /\ EntryOf(k)' = EntryOf(k) /\ d \in Contexts
        BY <1>6, <3>1, EventsStay, EventIs
      <4>2. /\ EntryOf(k).kind = "left" =>
                  member[d] = "left" /\ \A j \in Events : stream[j].context = d => j <= k
            /\ member[d] = "invited" => EntryOf(k).kind = "invited" /\ EntryOf(k).item = ItemRow
            /\ member[d] # "none"
        BY <3>1 DEF Service, FirstAndLast, StreamInOrder
      <4>3. CASE EntryOf(k).kind = "left"
        <5>1. d # c /\ member'[d] = "left"
          BY <1>2, <1>3, <4>1, <4>2, <4>3
        <5>2. \A j \in Events' : stream'[j].context = d => j <= k
          BY <1>6, <4>2, <4>3, <5>1
        <5> QED BY <4>1, <4>3, <5>1, <5>2
      <4>4. CASE EntryOf(k).kind # "left"
        <5>1. member'[d] = "invited" => member[d] = "invited"
          BY <4>1, <4>2 DEF Grows
        <5> QED BY <4>1, <4>2, <4>4, <5>1
      <4> QED BY <4>3, <4>4
    <3>2. CASE k = p
      <4>1. stream'[k].context = c /\ EntryOf(k)' = e
        BY <1>5, <1>6, <3>2 DEF EntryOf
      <4>2. e.kind = kind /\ e.item = item
        BY DEF e
      <4>3. \A j \in Events' : j <= k
        BY <1>6, <1>7, <3>2, Numbers, <1>1
      <4> QED BY <1>3, <4>1, <4>2, <4>3
    <3> QED BY <1>6, <3>1, <3>2
  <2> QED BY <2>1 DEF FirstAndLast
<1> QED BY <1>4, <1>8, <1>9, <1>10, <1>11 DEF Service

LEMMA CommitKeeps ==
  ASSUME TypeService, Service, NEW c \in Contexts, CommitChange(c), Grows
  PROVE  Service'
<1> DEFINE p == open[c].position  e == [kind |-> "changed", item |-> open[c].item, by |-> NoOp]
<1>1. /\ Adds(c, p, e) /\ Taken' = Taken /\ member' = member /\ receipts' = receipts
      /\ open' = [open EXCEPT ![c] = NoTransaction] /\ open[c] # NoTransaction
  BY CommitAdds
<1>2. open'[c] = NoTransaction /\ \A d \in Contexts : d # c => open'[d] = open[d]
  BY <1>1 DEF TypeService
<1>3. p # 0 => member[c] = "active" /\ \A k \in Events : k < p
  BY <1>1 DEF Service, OpenIsLast
<1>4. LogsAreOwn' /\ AppliedOnce'
  <2>1. receipts \subseteq receipts' /\ e.by = NoOp
    BY <1>1
  <2> HIDE DEF e, p
  <2> QED BY <1>1, <2>1, LogKeeps
<1>5. e.kind = "changed"
  OBVIOUS
<1> HIDE DEF e, p
<1>6. /\ Len(log'[c]) = Latest(c) + 1 /\ Latest(c) \in Nat /\ log'[c][Latest(c) + 1] = e
      /\ \A d \in Contexts : d # c => log'[d] = log[d]
  BY <1>1, AddedLog
<1>7. /\ Events' = Events \cup ({p} \ {0}) /\ p \notin Events
      /\ p # 0 => stream'[p] = [context |-> c, sequence |-> Latest(c) + 1]
      /\ \A k \in Events : stream'[k] = stream[k]
  BY <1>1, AddedStream
<1>8. p \in Nat /\ \A k \in Events : k \in Nat
  BY <1>1, Numbers DEF Adds, Events
<1>9. ContextsBegin'
  <2>1. ASSUME NEW d \in Contexts
        PROVE  /\ log'[d] = << >> => member'[d] = "none" /\ open'[d] = NoTransaction
               /\ open'[d] # NoTransaction => Len(log'[d]) < MaxLog
    <3>1. CASE d = c
      <4>1. log'[d] # << >>
        BY <1>6, <3>1
      <4> QED BY <1>2, <3>1, <4>1
    <3>2. CASE d # c
      BY <1>1, <1>2, <1>6, <3>2 DEF Service, ContextsBegin, Latest
    <3> QED BY <3>1, <3>2
  <2> QED BY <2>1 DEF ContextsBegin, Latest
<1>10. StreamInOrder'
  <2>1. Taken' = 1..Cardinality(Taken')
    BY <1>1 DEF Service, StreamInOrder
  <2>2. ASSUME NEW k \in Events'
        PROVE  stream'[k].sequence <= Len(log'[stream'[k].context])
               /\ member'[stream'[k].context] # "none"
    <3>1. CASE k \in Events
      <4>1. stream[k].context \in Contexts /\ stream[k].sequence \in Nat
        BY <3>1, EventIs, SyncAssumption
      <4>2. /\ stream[k].sequence <= Latest(stream[k].context)
            /\ Latest(stream[k].context) <= Len(log'[stream[k].context])
            /\ member[stream[k].context] # "none"
        BY <3>1, <4>1 DEF Service, StreamInOrder, Grows
      <4>3. Latest(stream[k].context) \in Nat /\ Len(log'[stream[k].context]) \in Nat
        BY <4>1, <1>6 DEF Grows, Latest
      <4> QED BY <1>1, <1>7, <3>1, <4>1, <4>2, <4>3
    <3>2. CASE k = p /\ p # 0
      BY <1>1, <1>3, <1>6, <1>7, <3>2
    <3> QED BY <1>7, <3>1, <3>2
  <2>3. ASSUME NEW j \in Events', NEW k \in Events', j < k,
               stream'[j].context = stream'[k].context
        PROVE  stream'[j].sequence < stream'[k].sequence
    <3>1. CASE j \in Events /\ k \in Events
      BY <1>7, <2>3, <3>1 DEF Service, StreamInOrder
    <3>2. CASE j \in Events /\ k = p /\ p # 0
      <4>1. stream[j].sequence <= Latest(stream[j].context) /\ stream[j].context = c
        BY <1>7, <2>3, <3>2 DEF Service, StreamInOrder
      <4>2. stream[j].sequence \in Nat
        BY <3>2, EventIs, SyncAssumption
      <4> QED BY <1>6, <1>7, <3>2, <4>1, <4>2
    <3>3. CASE j = p /\ p # 0
      <4>1. k \in Events \/ k = p
        BY <1>7
      <4>2. ~(p < k)
        BY <3>3, <4>1, <1>3, <1>8
      <4> QED BY <2>3, <3>3, <4>2
    <3> QED BY <1>7, <3>1, <3>2, <3>3
  <2> QED BY <2>1, <2>2, <2>3 DEF StreamInOrder, Latest
<1>11. OpenIsLast'
  <2>1. ASSUME NEW d \in Contexts, open'[d] # NoTransaction, open'[d].position # 0
        PROVE  /\ member'[d] = "active"
               /\ \A k \in Events' : k < open'[d].position
               /\ \A f \in Contexts : open'[f] # NoTransaction /\ open'[f].position # 0 => f = d
    <3>1. d # c /\ open[d] = open'[d]
      BY <1>2, <2>1
    <3>2. /\ member[d] = "active" /\ \A k \in Events : k < open[d].position
          /\ \A f \in Contexts : open[f] # NoTransaction /\ open[f].position # 0 => f = d
      BY <2>1, <3>1 DEF Service, OpenIsLast
    <3>3. p = 0
      BY <1>1, <3>1, <3>2 DEF p
    <3> QED BY <1>1, <1>2, <1>7, <3>1, <3>2, <3>3
  <2> QED BY <2>1 DEF OpenIsLast
<1>12. FirstAndLast'
  <2>1. ASSUME NEW k \in Events'
        PROVE  LET d == stream'[k].context
               IN  /\ EntryOf(k)'.kind = "left" =>
                         /\ member'[d] = "left"
                         /\ \A j \in Events' : stream'[j].context = d => j <= k
                   /\ member'[d] = "invited" => /\ EntryOf(k)'.kind = "invited"
                                                /\ EntryOf(k)'.item = ItemRow
    <3>1. CASE k \in Events
      <4> DEFINE d == stream[k].context
      <4>1. stream'[k] = stream[k] /\ EntryOf(k)' = EntryOf(k) /\ d \in Contexts
        BY <1>7, <3>1, EventsStay, EventIs
      <4>2. /\ EntryOf(k).kind = "left" =>
                  member[d] = "left" /\ \A j \in Events : stream[j].context = d => j <= k
            /\ member[d] = "invited" => EntryOf(k).kind = "invited" /\ EntryOf(k).item = ItemRow
        BY <3>1 DEF Service, FirstAndLast
      <4>3. EntryOf(k).kind = "left" => \A j \in Events' : stream'[j].context = d => j <= k
        BY <1>3, <1>7, <4>2
      <4> QED BY <1>1, <4>1, <4>2, <4>3
    <3>2. CASE k = p /\ p # 0
      <4>1. stream'[k].context = c /\ EntryOf(k)' = e
        BY <1>6, <1>7, <3>2 DEF EntryOf
      <4> QED BY <1>1, <1>3, <1>5, <3>2, <4>1
    <3> QED BY <1>7, <3>1, <3>2
  <2> QED BY <2>1 DEF FirstAndLast
<1> QED BY <1>4, <1>9, <1>10, <1>11, <1>12 DEF Service

LEMMA BeginKeeps ==
  ASSUME TypeService, Service, NEW c \in Contexts, NEW i \in Items, BeginChange(c, i)
  PROVE  Service'
<1>1. /\ UNCHANGED <<member, log, stream, receipts>>
      /\ open'[c] \in Transaction /\ open[c] = NoTransaction
      /\ \A d \in Contexts : d # c => open'[d] = open[d]
      /\ \/ member[c] # "active" /\ open'[c].position = 0 /\ Taken' = Taken
         \/ /\ member[c] = "active" /\ open'[c].position = NextPosition /\ Taken = Events
            /\ NextPosition \in Positions /\ StreamIsFree
            /\ Taken' = Taken \cup {NextPosition} /\ Cardinality(Taken') = NextPosition
  BY BeginTakes
<1>2. Events' = Events
  BY <1>1 DEF Events
<1>3. LogsAreOwn' /\ AppliedOnce'
  BY <1>1 DEF Service, LogsAreOwn, AppliedOnce, Latest
<1>4. ContextsBegin'
  <2>1. log[c] # << >> /\ Latest(c) < MaxLog
    BY DEF BeginChange
  <2> QED BY <1>1, <2>1 DEF Service, ContextsBegin, Latest
<1>5. StreamInOrder'
  <2>1. Taken' = 1..Cardinality(Taken')
    <3>1. Taken = 1..Cardinality(Taken)
      BY DEF Service, StreamInOrder
    <3>2. IsFiniteSet(Taken) /\ Cardinality(Taken) \in Nat
      BY Numbers, FS_Subset, FS_CardinalityType DEF Taken, Events
    <3>3. NextPosition = Cardinality(Taken) + 1
      BY DEF NextPosition
    <3>4. CASE Taken' = Taken
      BY <3>1, <3>4
    <3>5. CASE Taken' = Taken \cup {NextPosition} /\ Cardinality(Taken') = NextPosition
      BY <3>1, <3>2, <3>3, <3>5
    <3> QED BY <1>1, <3>4, <3>5
  <2> QED BY <1>1, <1>2, <2>1 DEF Service, StreamInOrder, Latest
<1>6. OpenIsLast'
  <2>1. CASE open'[c].position = 0
    BY <1>1, <1>2, <2>1 DEF Service, OpenIsLast
  <2>2. CASE open'[c].position # 0
    <3>1. /\ member[c] = "active" /\ open'[c].position = NextPosition /\ Taken = Events
          /\ \A d \in Contexts : d # c /\ open'[d] # NoTransaction => open'[d].position = 0
      BY <1>1, <2>2 DEF StreamIsFree
    <3>2. \A k \in Events : k < NextPosition
      BY <1>1, <3>1, RoomLeft DEF Service, BeginChange
    <3> QED BY <1>1, <1>2, <3>1, <3>2 DEF OpenIsLast
  <2> QED BY <2>1, <2>2
<1>7. FirstAndLast'
  <2>1. \A k \in Events : EntryOf(k)' = EntryOf(k)
    BY <1>1 DEF EntryOf
  <2> QED BY <1>1, <1>2, <2>1 DEF Service, FirstAndLast
<1> QED BY <1>3, <1>4, <1>5, <1>6, <1>7 DEF Service

LEMMA ServiceKeeps ==
  ASSUME TypeService, Service, ServiceStep
  PROVE  Service'
  BY ServiceGrows, TellsKeeps, CommitKeeps, BeginKeeps DEF ServiceStep

LEMMA StillGrows ==
  ASSUME TypeService, Service, UNCHANGED <<member, log, stream, open, receipts>>
  PROVE  Grows /\ TypeService' /\ Service'
<1>1. Events' = Events /\ Taken' = Taken
  BY DEF Events, Taken
<1>2. \A c \in Contexts : Latest(c) \in Nat
  BY DEF TypeService, Latest
<1>3. Grows
  BY <1>1, <1>2 DEF Grows, Latest, TypeService
<1>4. TypeService'
  BY DEF TypeService
<1>5. Service'
  BY <1>1 DEF Service, LogsAreOwn, AppliedOnce, ContextsBegin, StreamInOrder, OpenIsLast,
              FirstAndLast, EntryOf, Latest
<1> QED BY <1>3, <1>4, <1>5

------------------------------------------------------------------------------
\* A step of the service that leaves the device alone keeps what is known of
\* the page it awaits and of its copy.

LEMMA ServedStays ==
  ASSUME TypeService, Grows, NEW c \in Contexts, NEW i, NEW n \in Nat, n <= Latest(c)
  PROVE  n <= Latest(c)' /\ LastChange(c, i, n)' = LastChange(c, i, n)
<1>1. Latest(c) \in Nat /\ Latest(c) <= Latest(c)' /\ \A s \in 1..Latest(c) : log'[c][s] = log[c][s]
  BY DEF Grows, Latest
<1>2. Latest(c)' \in Nat
  BY <1>1 DEF Grows, Latest
<1>3. \A s \in 1..n : log'[c][s] = log[c][s]
  BY <1>1
<1> QED BY <1>1, <1>2, <1>3, EarlierStays

LEMMA CursorIs ==
  ASSUME NEW x \in Cursor
  PROVE  x \in Nat \X Ranks /\ x \in Nat \X Nat /\ x[1] \in Nat /\ x[2] \in Nat
<1>1. Positions \cup {0} \subseteq Nat /\ Ranks \subseteq Nat
  BY Numbers
<1>2. x = <<x[1], x[2]>> /\ x[1] \in Positions \cup {0} /\ x[2] \in Ranks
  BY DEF Cursor
<1>3. x[1] \in Nat /\ x[2] \in Nat
  BY <1>1, <1>2
<1> QED BY <1>2, <1>3

\* What type correctness says of a page.
LEMMA PageType ==
  ASSUME TypeDevice, call \in Page
  PROVE  /\ call.next \in Nat \X Nat /\ call.next[1] \in Nat
         /\ \A r \in call.rows : /\ r[1] \in Contexts /\ r[2] \in RowKeys /\ r[3] \in Row
                                 /\ r[3].rev \in 1..MaxLog /\ r[3].rev \in Nat
         /\ call.revoked \subseteq Contexts /\ call.granted \subseteq Contexts
<1>1. call.next \in Cursor /\ call.rows \subseteq Contexts \X RowKeys \X Row
      /\ call.revoked \subseteq Contexts /\ call.granted \subseteq Contexts
  BY DEF Page, RowKeys
<1>2. call.next \in Nat \X Nat /\ call.next[1] \in Nat
  BY <1>1, CursorIs
<1>3. ASSUME NEW r \in call.rows
      PROVE  r[1] \in Contexts /\ r[2] \in RowKeys /\ r[3] \in Row /\ r[3].rev \in 1..MaxLog
  BY <1>1 DEF Row
<1> QED BY <1>1, <1>2, <1>3, SyncAssumption

LEMMA CursorType ==
  ASSUME TypeDevice
  PROVE  cursor \in Nat \X Nat /\ cursor[1] \in Nat
  BY CursorIs DEF TypeDevice

\* Events that are new come after what the device, or its page, has passed.
LEMMA NewComesLater ==
  ASSUME TypeService, TypeService', Grows, NEW n \in Nat, 1..n \subseteq Events,
         NEW k \in Events' \ Events
  PROVE  n < k
<1>1. k \in Nat \ {0}
  BY Numbers DEF Events, Positions
<1> QED BY <1>1

LEMMA QuietFeed ==
  ASSUME TypeService, TypeService', TypeDevice, Service, Feed, Grows,
         cursor' = cursor, call' \in Page => call' = call
  PROVE  Feed'
<1> SUFFICES /\ cursor' = cursor /\ 1..cursor[1] \subseteq Events'
             /\ call' \in Page => CursorInStream' /\ PageIsServed' /\ PageIsWhole' /\ PageHides'
  BY DEF Feed, CursorInStream, PageIsServed, PageIsWhole, PageHides
<1>1. cursor' = cursor /\ 1..cursor[1] \subseteq Events'
  BY DEF Feed, CursorInStream, Grows
<1> SUFFICES ASSUME call' \in Page
             PROVE  CursorInStream' /\ PageIsServed' /\ PageIsWhole' /\ PageHides'
  BY <1>1
<1>2. call \in Page /\ call' = call
  OBVIOUS
<1>3. 1..call.next[1] \subseteq Events /\ ~Before(call.next, cursor)
  BY <1>2 DEF Feed, CursorInStream
<1>4. CursorInStream'
  <2>1. 1..call.next[1] \subseteq Events'
    BY <1>3 DEF Grows
  <2>2. Before(call.next, cursor)' <=> Before(call.next, cursor)
    BY <1>1, <1>2 DEF Before
  <2> QED BY <1>1, <1>2, <1>3, <2>1, <2>2 DEF CursorInStream
<1>5. PageIsServed'
  <2>1. ASSUME NEW r \in call.rows
        PROVE  /\ r[3].rev <= Latest(r[1])'
               /\ r[3].val = LastChange(r[1], r[2], r[3].rev)'
    <3>1. r[1] \in Contexts /\ r[3].rev \in Nat
      BY <1>2, PageType
    <3>2. r[3].rev <= Latest(r[1]) /\ r[3].val = LastChange(r[1], r[2], r[3].rev)
      BY <1>2 DEF Feed, PageIsServed
    <3> QED BY <3>1, <3>2, ServedStays
  <2> QED BY <1>2, <2>1 DEF PageIsServed
<1>6. ASSUME NEW k \in 1..call.next[1]
      PROVE  LET c == stream'[k].context
             IN  /\ \A r \in call.rows : r[1] = c => stream'[k].sequence <= r[3].rev
                 /\ member'[c] \in {"invited", "active"} => \A i \in RowKeys :
                       Concerns(k, i)' /\ Before(cursor, <<k, i>>) /\ ~Before(call.next, <<k, i>>)
                          => \E r \in call.rows : r[1] = c /\ r[2] = i
  <2> DEFINE c == stream[k].context
  <2>1. k \in Events /\ stream'[k] = stream[k] /\ c \in Contexts
    BY <1>3, EventIs DEF Grows
  <2>2. \A i \in RowKeys : Concerns(k, i)' <=> Concerns(k, i)
    BY <2>1, EventsStay
  <2>3. member[c] # "none"
    BY <2>1 DEF Service, StreamInOrder
  <2>4. member'[c] \in {"invited", "active"} => member[c] \in {"invited", "active"}
    BY <2>1, <2>3 DEF Grows
  <2>5. /\ \A r \in call.rows : r[1] = c => stream[k].sequence <= r[3].rev
        /\ Readable(c) => \A i \in RowKeys :
              Concerns(k, i) /\ Before(cursor, <<k, i>>) /\ ~Before(call.next, <<k, i>>)
                 => \E r \in call.rows : r[1] = c /\ r[2] = i
    BY <1>2 DEF Feed, PageIsWhole
  <2> QED BY <2>1, <2>2, <2>4, <2>5 DEF Readable
<1>7. PageIsWhole'
  BY <1>1, <1>2, <1>6 DEF PageIsWhole, Before, Readable
<1>8. \A c \in call.revoked : member'[c] = "left"
  <2>1. \A c \in call.revoked : c \in Contexts /\ member[c] = "left"
    BY <1>2, PageType DEF Feed, PageHides
  <2> QED BY <2>1 DEF Grows
<1>9. ASSUME NEW k \in Events', EntryOf(k)'.kind = "left", ~Before(call.next, <<k, Grant>>)
      PROVE  LET c == stream'[k].context
             IN  /\ \A r \in call.rows : r[1] # c
                 /\ c \notin call.granted
                 /\ c \in call.revoked \/ ~Before(cursor, <<k, Grant>>)
  <2>1. CASE k \in Events
    <3>1. stream'[k] = stream[k] /\ EntryOf(k)' = EntryOf(k)
      BY <2>1, EventsStay DEF Grows
    <3> QED BY <1>2, <1>9, <2>1, <3>1 DEF Feed, PageHides
  <2>2. CASE k \notin Events
    <3>1. call.next[1] < k
      BY <1>2, <1>3, <2>2, PageType, NewComesLater
    <3> QED BY <1>9, <3>1 DEF Before
  <2> QED BY <2>1, <2>2
<1>10. PageHides'
  BY <1>1, <1>2, <1>8, <1>9 DEF PageHides, Before
<1> QED BY <1>4, <1>5, <1>7, <1>10

LEMMA QuietCopy ==
  ASSUME TypeService, TypeService', TypeDevice, Service, Feed, Copy, Grows,
         UNCHANGED <<stored, fenced, cursor, refused>>
  PROVE  Copy'
<1>1. cursor' = cursor /\ stored' = stored /\ fenced' = fenced /\ refused' = refused
  OBVIOUS
<1>2. 1..cursor[1] \subseteq Events /\ cursor[1] \in Nat
  BY CursorType DEF Feed, CursorInStream
<1>3. RowsAreServed'
  <2>1. ASSUME NEW c \in Contexts, NEW i \in Items \cup {ItemRow}, NEW r, r = stored[c][i], r # NoRow
        PROVE  r.rev <= Latest(c)' /\ r.val = LastChange(c, i, r.rev)'
    <3>1. r \in Row
      BY <2>1 DEF TypeDevice, RowKeys
    <3>2. r.rev \in Nat
      BY <3>1, SyncAssumption DEF Row
    <3>3. r.rev <= Latest(c) /\ r.val = LastChange(c, i, r.rev)
      BY <2>1 DEF Copy, RowsAreServed
    <3> QED BY <3>2, <3>3, ServedStays
  <2>2. ASSUME NEW c \in Contexts, NEW i \in Items \cup {ItemRow}, stored'[c][i] # NoRow
        PROVE  stored'[c][i].rev <= Latest(c)'
               /\ stored'[c][i].val = LastChange(c, i, stored[c][i].rev)'
    <3>1. PICK r : r = stored[c][i]
      OBVIOUS
    <3>2. r.rev <= Latest(c)' /\ r.val = LastChange(c, i, r.rev)'
      BY <1>1, <2>1, <2>2, <3>1
    <3>3. LastChange(c, i, stored[c][i].rev)' = LastChange(c, i, r.rev)'
      BY <1>1, <3>1 DEF LastChange
    <3> QED BY <1>1, <3>1, <3>2, <3>3
  <2> QED BY <2>2 DEF RowsAreServed
<1>4. ASSUME NEW k \in 1..cursor[1]
      PROVE  LET c == stream'[k].context
             IN  member'[c] \in {"invited", "active"} /\ c \notin refused => \A i \in RowKeys :
                    Concerns(k, i)' /\ ~Before(cursor, <<k, i>>) =>
                       stored[c][i] # NoRow /\ stored[c][i].rev >= stream'[k].sequence
  <2> DEFINE c == stream[k].context
  <2>1. k \in Events /\ stream'[k] = stream[k] /\ c \in Contexts
    BY <1>2, EventIs DEF Grows
  <2>2. \A i \in RowKeys : Concerns(k, i)' <=> Concerns(k, i)
    BY <2>1, EventsStay
  <2>3. member[c] # "none"
    BY <2>1 DEF Service, StreamInOrder
  <2>4. member'[c] \in {"invited", "active"} => member[c] \in {"invited", "active"}
    BY <2>1, <2>3 DEF Grows
  <2>5. Readable(c) /\ c \notin refused => \A i \in RowKeys :
           Concerns(k, i) /\ ~Before(cursor, <<k, i>>) =>
              stored[c][i] # NoRow /\ stored[c][i].rev >= stream[k].sequence
    BY DEF Copy, RowsAreKept
  <2> QED BY <2>1, <2>2, <2>4, <2>5 DEF Readable
<1>5. RowsAreKept'
  BY <1>1, <1>4 DEF RowsAreKept, Before, Readable
<1>6. LeftIsHidden'
  <2>1. ASSUME NEW k \in Events', EntryOf(k)'.kind = "left", Delivered(<<k, Grant>>)'
        PROVE  ~Visible(stream[k].context)' /\ stream'[k] = stream[k]
    <3>1. CASE k \in Events
      <4>1. stream'[k] = stream[k] /\ EntryOf(k)' = EntryOf(k)
        BY <3>1, EventsStay DEF Grows
      <4>2. Delivered(<<k, Grant>>)
        BY <1>1, <2>1 DEF Delivered, Before
      <4>3. ~Visible(stream[k].context)
        BY <2>1, <3>1, <4>1, <4>2 DEF Copy, LeftIsHidden
      <4> QED BY <1>1, <4>1, <4>3 DEF Visible
    <3>2. CASE k \notin Events
      <4>1. cursor[1] < k
        BY <1>2, <3>2, NewComesLater
      <4>2. k \in Nat
        BY <3>2, Numbers DEF Events
      <4>3. ~Delivered(<<k, Grant>>)'
        BY <1>1, <1>2, <4>1, <4>2 DEF Delivered, Before
      <4> QED BY <2>1, <4>3
    <3> QED BY <3>1, <3>2
  <2> QED BY <1>1, <2>1 DEF LeftIsHidden, Visible
<1> QED BY <1>3, <1>5, <1>6 DEF Copy

------------------------------------------------------------------------------
\* A page is the first part of what follows the cursor.

\* Only the position of an open transaction is missing before an event, and it
\* comes after all of them.
LEMMA NoGaps ==
  ASSUME TypeService, Service, NEW k \in Events
  PROVE  1..k \subseteq Events
<1> SUFFICES ASSUME NEW j \in 1..k, j \notin Events PROVE FALSE
  OBVIOUS
<1>1. k \in Taken /\ k \in Nat /\ j \in Nat /\ 1 <= j /\ j <= k
  BY EventIs DEF Taken
<1>2. Taken = 1..Cardinality(Taken) /\ Cardinality(Taken) \in Nat
  <2>1. IsFiniteSet(Taken) /\ Cardinality(Taken) \in Nat
    BY Numbers, FS_Subset, FS_CardinalityType DEF Taken, Events
  <2> QED BY <2>1 DEF Service, StreamInOrder
<1>3. j \in Taken
  BY <1>1, <1>2
<1>4. PICK c \in Contexts : open[c] # NoTransaction /\ open[c].position = j
  BY <1>3 DEF Taken
<1>5. k < j
  BY <1>1, <1>4 DEF Service, OpenIsLast
<1> QED BY <1>1, <1>5

LEMMA KeysAre ==
  ASSUME TypeService, TypeDevice
  PROVE  /\ \A x \in Keys : /\ x \in Nat \X Nat /\ x \in Cursor /\ x = <<x[1], x[2]>>
                            /\ x[1] \in Selected /\ x[2] \in RanksOf(x[1]) /\ x[2] \in Ranks
                            /\ Before(cursor, x)
         /\ \A k \in Selected, i \in Ranks : i \in RanksOf(k) /\ Before(cursor, <<k, i>>)
                                               => <<k, i>> \in Keys
         /\ Selected \subseteq Events /\ \A k \in Selected : cursor[1] <= k
         /\ IsFiniteSet(Keys) /\ PageKeys \subseteq Keys /\ IsFiniteSet(PageKeys)
<1>1. Selected \subseteq Events /\ Events \subseteq Positions /\ \A k \in Selected : cursor[1] <= k
  BY DEF Selected, Events
<1>2. Positions \subseteq Nat /\ Ranks \subseteq Nat /\ IsFiniteSet(Positions) /\ IsFiniteSet(Ranks)
  BY Numbers
<1>3. ASSUME NEW x \in Keys
      PROVE  /\ x \in Selected \X Ranks /\ x = <<x[1], x[2]>> /\ x[1] \in Selected /\ x[2] \in Ranks
             /\ x[2] \in RanksOf(x[1]) /\ Before(cursor, x)
  BY DEF Keys
<1>4. \A x \in Keys : x \in Nat \X Nat /\ x \in Cursor
  BY <1>1, <1>2, <1>3 DEF Cursor
<1>5. \A k \in Selected, i \in Ranks : i \in RanksOf(k) /\ Before(cursor, <<k, i>>) => <<k, i>> \in Keys
  BY DEF Keys
<1>6. IsFiniteSet(Keys)
  <2>1. IsFiniteSet(Positions \X Ranks)
    BY <1>2, FS_Product
  <2>2. Keys \in SUBSET (Positions \X Ranks)
    BY <1>1, <1>3
  <2> QED BY <2>1, <2>2, FS_Subset
<1>7. PageKeys \in SUBSET Keys
  BY DEF PageKeys
<1>8. IsFiniteSet(PageKeys)
  BY <1>6, <1>7, FS_Subset
<1> QED BY <1>1, <1>3, <1>4, <1>5, <1>6, <1>7, <1>8

Next1 == IF PageKeys = {} THEN cursor
         ELSE CHOOSE x \in PageKeys : \A y \in PageKeys : ~Before(x, y)

LEMMA NextIs ==
  ASSUME TypeService, TypeDevice
  PROVE  /\ Next1 \in Cursor /\ ~Before(Next1, cursor)
         /\ \A y \in Keys : ~Before(Next1, y) => y \in PageKeys
         /\ \/ Next1 = cursor
            \/ Next1 \in PageKeys /\ \A y \in PageKeys : ~Before(Next1, y)
<1>0. cursor \in Nat \X Nat /\ cursor \in Cursor
  BY CursorType DEF TypeDevice
<1>1. CASE PageKeys = {}
  <2>1. Next1 = cursor
    BY <1>1 DEF Next1
  <2> QED BY <2>1, <1>0, KeysAre, Ordered
<1>2. CASE PageKeys # {}
  <2> DEFINE R == {p \in PageKeys \X PageKeys : Before(p[1], p[2])}
  <2>1. \A x \in PageKeys : x \in Nat \X Nat
    BY KeysAre
  <2>2. /\ \A x \in PageKeys : <<x, x>> \notin R
        /\ \A x, y, z \in PageKeys : <<x, y>> \in R /\ <<y, z>> \in R => <<x, z>> \in R
        /\ \A x, y \in PageKeys : x = y \/ <<x, y>> \in R \/ <<y, x>> \in R
    BY <2>1, Ordered
  <2>3. PICK x \in PageKeys : \A y \in PageKeys : <<x, y>> \notin R
    <3> HIDE DEF R
    <3> QED BY <1>2, <2>2, KeysAre, Greatest
  <2>4. \A y \in PageKeys : ~Before(x, y)
    BY <2>3
  <2>5. Next1 \in PageKeys /\ \A y \in PageKeys : ~Before(Next1, y)
    BY <1>2, <2>4 DEF Next1
  <2>6. Next1 \in Nat \X Nat /\ Next1 \in Cursor /\ Before(cursor, Next1)
    BY <2>5, KeysAre
  <2>7. ASSUME NEW y \in Keys, ~Before(Next1, y)
        PROVE  y \in PageKeys
    <3>1. y \in Nat \X Nat
      BY KeysAre
    <3>2. y = Next1 \/ Before(y, Next1)
      BY <2>6, <2>7, <3>1, Ordered
    <3>3. CASE Before(y, Next1)
      <4> DEFINE A == {z \in Keys : Before(z, y)}  B == {z \in Keys : Before(z, Next1)}
      <4>1. A \in SUBSET B
        BY <2>6, <3>1, <3>3, KeysAre, Ordered
      <4>2. IsFiniteSet(B) /\ IsFiniteSet(A)
        BY KeysAre, FS_Subset
      <4>3. Cardinality(B) < PageLimit
        BY <2>5 DEF PageKeys
      <4> HIDE DEF A, B
      <4>4. Cardinality(A) <= Cardinality(B)
        BY <4>1, <4>2, FS_Subset
      <4>5. Cardinality(A) < PageLimit
        BY <4>2, <4>3, <4>4, FS_CardinalityType, SyncAssumption
      <4> QED BY <4>5 DEF A, PageKeys
    <3> QED BY <2>5, <3>2, <3>3
  <2> QED BY <1>0, <2>5, <2>6, <2>7, Ordered
<1> QED BY <1>1, <1>2

\* The window of a page begins at the cursor and has no gaps.
Ahead(n) == {j \in Events : cursor[1] <= j /\ j < n}

LEMMA WindowIs ==
  ASSUME TypeService, TypeDevice, Service, Feed,
         NEW k \in Events, cursor[1] <= k, k <= Next1[1]
  PROVE  k \in Selected
<1>1. cursor[1] \in Nat /\ k \in Nat /\ Next1[1] \in Nat
  BY CursorType, EventIs, NextIs, CursorIs
<1>2. \A j \in Events : j \in Nat
  BY Numbers DEF Events
<1>3. Selected = {n \in Events : cursor[1] <= n /\ Cardinality(Ahead(n)) < Window}
  BY DEF Selected, Ahead
<1>4. CASE Next1 \in PageKeys
  <2>1. Next1[1] \in Selected
    BY <1>4, KeysAre
  <2>2. Cardinality(Ahead(Next1[1])) < Window
    BY <2>1, <1>3
  <2>3. Ahead(k) \in SUBSET Ahead(Next1[1])
    <3>1. ASSUME NEW j \in Ahead(k) PROVE j \in Events /\ cursor[1] <= j /\ j < Next1[1]
      <4>1. j \in Events /\ cursor[1] <= j /\ j < k
        BY DEF Ahead
      <4>2. j \in Nat
        BY <1>2, <4>1
      <4> QED BY <1>1, <4>1, <4>2
    <3> QED BY <3>1 DEF Ahead
  <2>4. IsFiniteSet(Ahead(Next1[1]))
    <3>1. PICK A : A = Ahead(Next1[1])
      OBVIOUS
    <3>2. A \in SUBSET Positions /\ IsFiniteSet(Positions)
      BY <3>1, Numbers DEF Ahead, Events
    <3>3. IsFiniteSet(A)
      BY <3>2, FS_Subset
    <3> QED BY <3>1, <3>3
  <2>5. Cardinality(Ahead(k)) <= Cardinality(Ahead(Next1[1])) /\ IsFiniteSet(Ahead(k))
    BY <2>3, <2>4, FS_Subset
  <2>6. Cardinality(Ahead(k)) < Window
    BY <2>2, <2>4, <2>5, FS_CardinalityType, SyncAssumption
  <2> QED BY <1>3, <2>6
<1>5. CASE Next1 = cursor
  <2>1. Ahead(k) = {}
    <3>1. ASSUME NEW j \in Ahead(k) PROVE FALSE
      <4>1. j \in Events /\ cursor[1] <= j /\ j < k
        BY DEF Ahead
      <4>2. j \in Nat /\ k <= cursor[1]
        BY <1>2, <1>5, <4>1
      <4> QED BY <1>1, <4>1, <4>2
    <3> QED BY <3>1
  <2>2. Cardinality(Ahead(k)) = 0
    BY <2>1, FS_EmptySet
  <2>3. 0 < Window
    BY SyncAssumption
  <2> QED BY <1>3, <2>2, <2>3
<1> QED BY <1>4, <1>5, NextIs

\* The rows of a page: what the account may see, as the service says it now.
LEMMA RowIs ==
  ASSUME TypeService, TypeDevice, Service, NEW x \in PageKeys, x[2] # Grant
  PROVE  LET c == stream[x[1]].context
         IN  /\ c \in Contexts /\ Readable(c) /\ x[2] \in RowKeys
             /\ RowOf(x)[1] = c /\ RowOf(x)[2] = x[2]
             /\ RowOf(x)[3].rev = Latest(c)
             /\ RowOf(x)[3].val = LastChange(c, x[2], Latest(c))
             /\ RowOf(x) \in Contexts \X RowKeys \X Row
<1> DEFINE c == stream[x[1]].context
<1>1. x[1] \in Events /\ x[2] \in RanksOf(x[1])
  BY KeysAre
<1>2. c \in Contexts /\ stream[x[1]].sequence \in 1..MaxLog /\ stream[x[1]].sequence <= Latest(c)
  BY <1>1, EventIs DEF Service, StreamInOrder
<1>3. Latest(c) \in Nat /\ Latest(c) <= MaxLog /\ MaxLog \in Nat
  BY <1>2, SyncAssumption DEF TypeService, Latest
<1>4. Latest(c) \in 1..MaxLog
  BY <1>2, <1>3
<1>5. LastChange(c, x[2], Latest(c)) \in 0..MaxLog
  <2>1. LastChange(c, x[2], Latest(c)) \in 0..Latest(c)
    BY <1>3, LastChangeIs
  <2> QED BY <1>3, <2>1
<1>6. Readable(c) /\ x[2] \in RowsOf(x[1])
  BY <1>1 DEF RanksOf
<1>7. x[2] \in RowKeys
  BY <1>6 DEF RowsOf, RowKeys
<1>8. RowOf(x) = <<c, x[2], [rev |-> Latest(c), val |-> LastChange(c, x[2], Latest(c))]>>
  BY DEF RowOf, RowRev
<1>9. [rev |-> Latest(c), val |-> LastChange(c, x[2], Latest(c))] \in Row
  BY <1>4, <1>5 DEF Row
<1> QED BY <1>2, <1>6, <1>7, <1>8, <1>9

\* A row that an event concerns is among its rows, and a member gets it.
LEMMA ConcernedIs ==
  ASSUME TypeService, Service, NEW k \in Events, NEW i \in RowKeys,
         Readable(stream[k].context), Concerns(k, i)
  PROVE  i \in RanksOf(k) /\ i # Grant /\ i \in Ranks
<1> DEFINE c == stream[k].context
<1>1. i # Grant /\ i \in Ranks
  BY Numbers
<1>2. CASE i = ItemRow
  BY <1>1, <1>2 DEF RanksOf, RowsOf
<1>3. CASE i # ItemRow
  <2>1. i \in Items
    BY <1>3 DEF RowKeys
  <2>2. /\ LastChange(c, i, stream[k].sequence) > 0
        /\ EntryOf(k).kind \in {"created", "responded"} \/ EntryOf(k).item = i
    BY <1>3 DEF Concerns
  <2>3. member[c] # "invited"
    BY <1>3, <2>2 DEF Service, FirstAndLast
  <2>4. member[c] = "active"
    BY <2>3 DEF Readable
  <2>5. LastChange(c, i, Latest(c)) > 0
    <3>1. stream[k].sequence \in Nat /\ Latest(c) \in Nat /\ stream[k].sequence <= Latest(c)
      BY EventIs, SyncAssumption DEF TypeService, Latest, Service, StreamInOrder
    <3> QED BY <2>2, <3>1, LaterChange
  <2>6. i \in RowsOf(k)
    BY <2>1, <2>2, <2>4, <2>5 DEF RowsOf, FullGrant
  <2> QED BY <1>1, <2>6 DEF RanksOf
<1> QED BY <1>2, <1>3

\* The page that the service answers.
LEMMA PullIs ==
  ASSUME TypeService, TypeDevice, Service, Feed, Pull
  PROVE  /\ call' \in Page
         /\ call'.next = Next1
         /\ call'.rows = {RowOf(x) : x \in {y \in PageKeys : y[2] # Grant}}
         /\ call'.revoked = Markers(FALSE) /\ call'.granted = Markers(TRUE)
<1>1. /\ call'.next = Next1
      /\ call'.rows = {RowOf(x) : x \in {y \in PageKeys : y[2] # Grant}}
      /\ call'.revoked = Markers(FALSE) /\ call'.granted = Markers(TRUE)
  BY DEF Pull, Next1
<1>2. call' = [next |-> call'.next, rows |-> call'.rows, twice |-> call'.twice,
               revoked |-> call'.revoked, granted |-> call'.granted]
      /\ call'.twice \in BOOLEAN
  BY DEF Pull
<1>3. call'.next \in Cursor
  BY <1>1, NextIs
<1>4. call'.rows \subseteq Contexts \X RowKeys \X Row
  BY <1>1, RowIs
<1>5. Markers(FALSE) \subseteq Contexts /\ Markers(TRUE) \subseteq Contexts
  <2>1. \A y \in PageKeys : stream[y[1]].context \in Contexts
    BY KeysAre, EventIs
  <2> QED BY <2>1 DEF Markers
<1> QED BY <1>1, <1>2, <1>3, <1>4, <1>5 DEF Page, RowKeys

LEMMA PullKeeps ==
  ASSUME TypeService, TypeDevice, Service, Feed, Copy, Pull
  PROVE  TypeDevice' /\ Feed' /\ Copy'
<1>1. UNCHANGED <<member, log, stream, open, receipts, late, command, stored, fenced, cursor,
                  refused, denied>>
  BY DEF Pull, service, store
<1>2. PICK P : P = call'
  OBVIOUS
<1>3. /\ P \in Page /\ P.next = Next1
      /\ P.rows = {RowOf(x) : x \in {y \in PageKeys : y[2] # Grant}}
      /\ P.revoked = Markers(FALSE) /\ P.granted = Markers(TRUE)
  BY <1>2, PullIs
<1>4. TypeDevice'
  BY <1>1, <1>2, <1>3 DEF TypeDevice
<1>5. cursor \in Nat \X Nat /\ cursor[1] \in Nat /\ Next1 \in Nat \X Nat /\ Next1[1] \in Nat
      /\ ~Before(Next1, cursor)
  BY CursorType, NextIs, CursorIs
<1>6. 1..Next1[1] \subseteq Events
  <2>1. CASE Next1 = cursor
    BY <2>1 DEF Feed, CursorInStream
  <2>2. CASE Next1 \in PageKeys
    BY <2>2, KeysAre, NoGaps
  <2> QED BY <2>1, <2>2, NextIs
\* What lies between the cursor and the end of the page, and is a row, is on it.
<1>7. ASSUME NEW k \in Events, NEW i \in Ranks, i \in RanksOf(k),
             Before(cursor, <<k, i>>), ~Before(Next1, <<k, i>>)
      PROVE  <<k, i>> \in PageKeys
  <2>1. k \in Nat /\ i \in Nat
    BY EventIs, Numbers
  <2>2. cursor[1] <= k /\ k <= Next1[1]
    BY <1>5, <1>7, <2>1 DEF Before
  <2>3. k \in Selected
    BY <2>2, WindowIs
  <2>4. <<k, i>> \in Keys
    BY <1>7, <2>3, KeysAre
  <2> QED BY <1>7, <2>4, NextIs
<1>8. CursorInStream'
  <2>1. Events' = Events
    BY <1>1 DEF Events
  <2>2. ~Before(call'.next, cursor)
    BY <1>2, <1>3, <1>5
  <2> QED BY <1>1, <1>2, <1>3, <1>6, <2>1, <2>2 DEF Feed, CursorInStream, Before
<1>9. ASSUME NEW r \in P.rows
      PROVE  /\ r[1] \in Contexts /\ Readable(r[1]) /\ r[3].rev = Latest(r[1])
             /\ r[3].val = LastChange(r[1], r[2], r[3].rev)
  <2>1. PICK x \in PageKeys : x[2] # Grant /\ r = RowOf(x)
    BY <1>3
  <2> QED BY <2>1, RowIs
<1>10. PageIsServed'
  <2>1. \A r \in P.rows : r[3].rev <= Latest(r[1])
    <3>1. \A c \in Contexts : Latest(c) \in Nat
      BY DEF TypeService, Latest
    <3> QED BY <1>9, <3>1
  <2>2. ASSUME NEW r \in P.rows PROVE r[3].val = LastChange(r[1], r[2], r[3].rev)'
    <3>1. LastChange(r[1], r[2], r[3].rev)' = LastChange(r[1], r[2], r[3].rev)
      BY <1>1, EarlierStays
    <3> QED BY <1>9, <3>1
  <2> QED BY <1>1, <1>2, <2>1, <2>2 DEF PageIsServed, Latest
<1>11. ASSUME NEW k \in 1..Next1[1]
       PROVE  LET c == stream[k].context
              IN  /\ \A r \in P.rows : r[1] = c => stream[k].sequence <= r[3].rev
                  /\ Readable(c) => \A i \in RowKeys :
                        Concerns(k, i) /\ Before(cursor, <<k, i>>) /\ ~Before(Next1, <<k, i>>)
                           => \E r \in P.rows : r[1] = c /\ r[2] = i
  <2> DEFINE c == stream[k].context
  <2>1. k \in Events
    BY <1>6
  <2>2. stream[k].sequence <= Latest(c)
    BY <2>1 DEF Service, StreamInOrder
  <2>3. ASSUME NEW i \in RowKeys, Readable(c), Concerns(k, i), Before(cursor, <<k, i>>),
               ~Before(Next1, <<k, i>>)
        PROVE  \E r \in P.rows : r[1] = c /\ r[2] = i
    <3>1. i \in RanksOf(k) /\ i # Grant /\ i \in Ranks
      BY <2>1, <2>3, ConcernedIs
    <3>2. <<k, i>> \in PageKeys
      BY <1>7, <2>1, <2>3, <3>1
    <3>3. RowOf(<<k, i>>) \in P.rows
      BY <1>3, <3>1, <3>2
    <3>4. RowOf(<<k, i>>)[1] = c /\ RowOf(<<k, i>>)[2] = i
      BY DEF RowOf
    <3> QED BY <3>3, <3>4
  <2> QED BY <1>9, <2>2, <2>3
<1>12. PageIsWhole'
  <2>1. stream' = stream /\ cursor' = cursor
    BY <1>1
  <2>2. \A c : Readable(c)' <=> Readable(c)
    BY <1>1 DEF Readable
  <2>3. \A k, i : Concerns(k, i)' <=> Concerns(k, i)
    BY <1>1 DEF Concerns, EntryOf, LastChange
  <2>4. \A x : (Before(cursor, x)' <=> Before(cursor, x))
               /\ (Before(call.next, x)' <=> Before(Next1, x))
    BY <1>2, <1>3, <2>1 DEF Before
  <2> QED BY <1>2, <1>3, <1>11, <2>1, <2>2, <2>3, <2>4 DEF PageIsWhole
<1>13. \A c \in P.revoked : member[c] = "left"
  <2>1. ASSUME NEW c \in P.revoked PROVE member[c] = "left"
    <3>1. PICK y \in PageKeys : c = stream[y[1]].context /\ ~Readable(c)
      BY <1>3 DEF Markers
    <3>2. c \in Contexts /\ member[c] # "none"
      BY <3>1, KeysAre, EventIs DEF Service, StreamInOrder
    <3> QED BY <3>1, <3>2 DEF Readable, TypeService
  <2> QED BY <2>1
<1>14. ASSUME NEW k \in Events, EntryOf(k).kind = "left", ~Before(Next1, <<k, Grant>>)
       PROVE  LET c == stream[k].context
              IN  /\ \A r \in P.rows : r[1] # c
                  /\ c \notin P.granted
                  /\ c \in P.revoked \/ ~Before(cursor, <<k, Grant>>)
  <2> DEFINE c == stream[k].context
  <2>1. member[c] = "left"
    BY <1>14 DEF Service, FirstAndLast
  <2>2. ~Readable(c)
    BY <2>1 DEF Readable
  <2>3. c \notin P.granted
    BY <1>3, <2>2 DEF Markers
  <2>4. ASSUME Before(cursor, <<k, Grant>>) PROVE c \in P.revoked
    <3>1. RanksOf(k) = {Grant}
      BY <2>2 DEF RanksOf
    <3>2. Grant \in Ranks
      BY Numbers
    <3>3. <<k, Grant>> \in PageKeys
      BY <1>7, <1>14, <2>4, <3>1, <3>2
    <3>4. c \in Markers(FALSE)
      BY <2>2, <3>3 DEF Markers
    <3> QED BY <1>3, <3>4
  <2> QED BY <1>9, <2>2, <2>3, <2>4
<1>15. PageHides'
  <2>1. stream' = stream /\ cursor' = cursor /\ member' = member
    BY <1>1
  <2>2. Events' = Events /\ \A k : EntryOf(k)' = EntryOf(k)
    BY <1>1 DEF Events, EntryOf
  <2>4. \A x : (Before(cursor, x)' <=> Before(cursor, x))
               /\ (Before(call.next, x)' <=> Before(Next1, x))
    BY <1>2, <1>3, <2>1 DEF Before
  <2> QED BY <1>2, <1>3, <1>13, <1>14, <2>1, <2>2, <2>4 DEF PageHides
<1>16. Copy'
  BY <1>1, StillGrows, QuietCopy DEF service
<1> QED BY <1>4, <1>8, <1>10, <1>12, <1>15, <1>16 DEF Feed

------------------------------------------------------------------------------
\* The device takes a page, or hides a context.

\* What becomes of a row.
LEMMA MergedIs ==
  ASSUME TypeDevice, call \in Page, NEW c \in Contexts, NEW i \in RowKeys
  PROVE  LET new == {r \in call.rows : r[1] = c /\ r[2] = i}
         IN  /\ Merged(c)[i] \in {NoRow, stored[c][i]} \cup {r[3] : r \in new}
             /\ new = {} => Merged(c)[i] = IF c \in call.revoked THEN NoRow ELSE stored[c][i]
             /\ new # {} => Merged(c)[i] # NoRow /\ \E r \in new : Merged(c)[i].rev >= r[3].rev
             /\ c \notin call.revoked /\ stored[c][i] # NoRow =>
                   Merged(c)[i] # NoRow /\ Merged(c)[i].rev >= stored[c][i].rev
<1> DEFINE at == {s \in call.rows : s[1] = c /\ s[2] = i}
           old == IF c \in call.revoked THEN NoRow ELSE stored[c][i]
           new == {r[3] : r \in at}
           first == CHOOSE r \in new : TRUE
<1>1. Merged(c)[i] = IF new = {} THEN old
                     ELSE IF old # NoRow /\ old.rev >= first.rev THEN old ELSE first
  BY DEF Merged, RowKeys
<1>2. old \in Row \cup {NoRow} /\ new \subseteq Row
  <2>1. stored[c][i] \in Row \cup {NoRow}
    BY DEF TypeDevice
  <2>2. new \subseteq Row
    BY PageType
  <2> QED BY <2>1, <2>2
<1>3. \A r \in Row : r # NoRow /\ r.rev \in Nat
  BY ValuesAssumption, SyncAssumption DEF Row
<1>4. at = {} <=> new = {}
  OBVIOUS
<1>5. new # {} => first \in new
  OBVIOUS
<1>6. old \in {NoRow, stored[c][i]}
  OBVIOUS
<1>7. c \notin call.revoked => old = stored[c][i]
  OBVIOUS
<1> HIDE DEF first, old
<1>8. CASE new = {}
  <2>1. Merged(c)[i] = old
    BY <1>1, <1>8
  <2>2. old # NoRow => old.rev >= old.rev
    BY <1>2, <1>3
  <2> QED BY <1>4, <1>6, <1>7, <1>8, <2>1, <2>2 DEF old
<1>9. CASE new # {}
  <2>1. first \in Row /\ first \in new
    BY <1>2, <1>5, <1>9
  <2>2. PICK r \in at : first = r[3]
    BY <2>1
  <2>3. at # {}
    BY <2>2
  <2>4. CASE old # NoRow /\ old.rev >= first.rev
    <3>1. Merged(c)[i] = old
      BY <1>1, <1>9, <2>4
    <3>2. old.rev >= old.rev
      BY <1>2, <1>3, <2>4
    <3> QED BY <1>6, <1>7, <2>2, <2>3, <2>4, <3>1, <3>2
  <2>5. CASE ~(old # NoRow /\ old.rev >= first.rev)
    <3>1. Merged(c)[i] = first
      BY <1>1, <1>9, <2>5
    <3>2. first # NoRow /\ first.rev \in Nat /\ first.rev >= first.rev
      BY <1>3, <2>1
    <3>3. old # NoRow => first.rev >= old.rev
      BY <1>2, <1>3, <2>5, <3>2
    <3> QED BY <1>7, <2>1, <2>2, <2>3, <3>1, <3>2, <3>3
  <2> QED BY <2>4, <2>5
<1> QED BY <1>8, <1>9

LEMMA FenceKeeps ==
  ASSUME TypeService, TypeDevice, Service, Feed, Copy, NEW c \in Contexts, Fence(c)
  PROVE  TypeDevice' /\ Feed' /\ Copy'
<1>1. /\ UNCHANGED <<member, log, stream, open, receipts, late, command, cursor, call>>
      /\ stored' = [stored EXCEPT ![c] = NoRows] /\ denied' = denied \ {c}
      /\ fenced' = fenced \cup {c} /\ refused' = refused \cup {c}
  BY DEF Fence, service
<1>2. NoRows \in [RowKeys -> Row \cup {NoRow}] /\ \A i \in RowKeys : NoRows[i] = NoRow
  BY DEF NoRows, RowKeys
<1>3. stored \in [Contexts -> [RowKeys -> Row \cup {NoRow}]]
  BY DEF TypeDevice
<1>4. stored' \in [Contexts -> [RowKeys -> Row \cup {NoRow}]]
      /\ \A d \in Contexts : stored'[d] = IF d = c THEN NoRows ELSE stored[d]
  BY <1>1, <1>2, <1>3
<1>5. TypeDevice'
  BY <1>1, <1>4 DEF TypeDevice
<1>6. Feed'
  BY <1>1, StillGrows, QuietFeed
<1>7. RowsAreServed'
  <2>1. ASSUME NEW d \in Contexts, NEW i \in Items \cup {ItemRow}, NEW r, r = stored'[d][i], r # NoRow
        PROVE  r.rev <= Latest(d)' /\ r.val = LastChange(d, i, r.rev)'
    <3>1. r = stored[d][i]
      BY <1>2, <1>4, <2>1 DEF RowKeys
    <3>2. r.rev <= Latest(d) /\ r.val = LastChange(d, i, r.rev)
      BY <2>1, <3>1 DEF Copy, RowsAreServed
    <3>3. LastChange(d, i, r.rev)' = LastChange(d, i, r.rev)
      BY <1>1, EarlierStays
    <3> QED BY <1>1, <3>2, <3>3 DEF Latest
  <2>2. ASSUME NEW d \in Contexts, NEW i \in Items \cup {ItemRow}, stored'[d][i] # NoRow
        PROVE  stored'[d][i].rev <= Latest(d)'
               /\ stored'[d][i].val = LastChange(d, i, stored[d][i].rev)'
    <3>1. PICK r : r = stored'[d][i]
      OBVIOUS
    <3>2. r.rev <= Latest(d)' /\ r.val = LastChange(d, i, r.rev)'
      BY <2>1, <2>2, <3>1
    <3>3. LastChange(d, i, stored[d][i].rev)' = LastChange(d, i, r.rev)'
      BY <3>1 DEF LastChange
    <3> QED BY <3>1, <3>2, <3>3
  <2> QED BY <2>2 DEF RowsAreServed
<1>8. RowsAreKept'
  <2>1. ASSUME NEW k \in 1..cursor[1], NEW i \in RowKeys
        PROVE  LET d == stream[k].context
               IN  Readable(d) /\ d \notin refused' /\ Concerns(k, i) /\ ~Before(cursor, <<k, i>>) =>
                      stored'[d][i] # NoRow /\ stored'[d][i].rev >= stream[k].sequence
    <3> DEFINE d == stream[k].context
    <3>1. d \in Contexts
      BY EventIs DEF Feed, CursorInStream
    <3>2. Readable(d) /\ d \notin refused /\ Concerns(k, i) /\ ~Before(cursor, <<k, i>>) =>
             stored[d][i] # NoRow /\ stored[d][i].rev >= stream[k].sequence
      BY DEF Copy, RowsAreKept
    <3>3. d # c => stored'[d] = stored[d]
      BY <1>4, <3>1
    <3> QED BY <1>1, <3>1, <3>2, <3>3
  <2>2. /\ \A d : Readable(d)' <=> Readable(d)
        /\ \A k, i : Concerns(k, i)' <=> Concerns(k, i)
        /\ \A x : Before(cursor, x)' <=> Before(cursor, x)
    BY <1>1 DEF Readable, Concerns, EntryOf, LastChange, Before
  <2> QED BY <1>1, <2>1, <2>2 DEF RowsAreKept
<1>9. LeftIsHidden'
  <2>1. ASSUME NEW k \in Events, EntryOf(k).kind = "left", Delivered(<<k, Grant>>)
        PROVE  ~Visible(stream[k].context)'
    <3> DEFINE d == stream[k].context
    <3>1. ~Visible(d) /\ d \in Contexts
      BY <2>1, EventIs DEF Copy, LeftIsHidden
    <3>2. CASE d = c
      BY <1>1, <3>2 DEF Visible
    <3>3. CASE d # c
      BY <1>1, <1>4, <3>1, <3>3 DEF Visible
    <3> QED BY <3>2, <3>3
  <2>2. /\ Events' = Events /\ \A k : EntryOf(k)' = EntryOf(k)
        /\ \A x : Delivered(x)' <=> Delivered(x)
    BY <1>1 DEF Events, EntryOf, Delivered, Before
  <2> QED BY <1>1, <2>1, <2>2 DEF LeftIsHidden, Visible
<1> QED BY <1>5, <1>6, <1>7, <1>8, <1>9 DEF Copy

\* A page that is taken.
LEMMA TakenKeeps ==
  ASSUME TypeService, TypeDevice, Service, Feed, Copy, ApplyPage, ~call.twice
  PROVE  TypeDevice' /\ Feed' /\ Copy'
<1>1. /\ UNCHANGED <<member, log, stream, open, receipts, late, command, refused, denied>>
      /\ call \in Page /\ call' = Idle /\ cursor' = call.next
      /\ stored' = [c \in Contexts |-> Merged(c)]
      /\ fenced' = (fenced \cup call.revoked) \ call.granted
  BY DEF ApplyPage, service
<1>2. /\ call.next \in Nat \X Nat /\ call.next[1] \in Nat /\ call.next \in Cursor
      /\ call.revoked \subseteq Contexts
      /\ \A r \in call.rows : /\ r[1] \in Contexts /\ r[2] \in RowKeys /\ r[3] \in Row
                              /\ r[3].rev \in Nat
  <2>1. call.next \in Cursor
    BY <1>1 DEF Page
  <2> QED BY <1>1, <2>1, PageType
<1>3. cursor \in Nat \X Nat /\ cursor[1] \in Nat
  BY CursorType
<1>4. \A c \in Contexts, i \in RowKeys : stored'[c][i] = Merged(c)[i]
  BY <1>1
<1>5. TypeDevice'
  <2>1. ASSUME NEW c \in Contexts PROVE Merged(c) \in [RowKeys -> Row \cup {NoRow}]
    <3>1. ASSUME NEW i \in RowKeys PROVE Merged(c)[i] \in Row \cup {NoRow}
      <4>1. stored[c][i] \in Row \cup {NoRow}
        BY DEF TypeDevice
      <4>2. Merged(c)[i] \in {NoRow, stored[c][i]} \cup {r[3] : r \in {r \in call.rows : r[1] = c /\ r[2] = i}}
        BY <1>1, MergedIs
      <4> QED BY <1>2, <4>1, <4>2
    <3>2. Merged(c) = [i \in RowKeys |-> Merged(c)[i]]
      BY DEF Merged, RowKeys
    <3> QED BY <3>1, <3>2
  <2>2. stored' \in [Contexts -> [RowKeys -> Row \cup {NoRow}]]
    BY <1>1, <2>1
  <2> QED BY <1>1, <1>2, <2>2 DEF TypeDevice
<1>6. 1..call.next[1] \subseteq Events /\ ~Before(call.next, cursor)
  BY <1>1 DEF Feed, CursorInStream
<1>7. Feed'
  <2>1. call' \notin Page
    BY <1>1, Apart
  <2>2. Events' = Events
    BY <1>1 DEF Events
  <2> QED BY <1>1, <1>6, <2>1, <2>2 DEF Feed, CursorInStream, PageIsServed, PageIsWhole, PageHides
<1>8. RowsAreServed'
  <2>1. ASSUME NEW d \in Contexts, NEW i \in Items \cup {ItemRow}, NEW r, r = stored'[d][i], r # NoRow
        PROVE  r.rev <= Latest(d)' /\ r.val = LastChange(d, i, r.rev)'
    <3>1. i \in RowKeys
      BY DEF RowKeys
    <3>2. r \in {NoRow, stored[d][i]} \cup {s[3] : s \in {s \in call.rows : s[1] = d /\ s[2] = i}}
      BY <1>1, <1>4, <2>1, <3>1, MergedIs
    <3>3. r.rev <= Latest(d) /\ r.val = LastChange(d, i, r.rev)
      <4>1. CASE r = stored[d][i]
        BY <2>1, <4>1 DEF Copy, RowsAreServed
      <4>2. ASSUME NEW s \in call.rows, s[1] = d, s[2] = i, r = s[3]
            PROVE  r.rev <= Latest(d) /\ r.val = LastChange(d, i, r.rev)
        BY <1>1, <4>2 DEF Feed, PageIsServed
      <4> QED BY <2>1, <3>2, <4>1, <4>2
    <3>4. LastChange(d, i, r.rev)' = LastChange(d, i, r.rev)
      BY <1>1, EarlierStays
    <3> QED BY <1>1, <3>3, <3>4 DEF Latest
  <2>2. ASSUME NEW d \in Contexts, NEW i \in Items \cup {ItemRow}, stored'[d][i] # NoRow
        PROVE  stored'[d][i].rev <= Latest(d)'
               /\ stored'[d][i].val = LastChange(d, i, stored[d][i].rev)'
    <3>1. PICK r : r = stored'[d][i]
      OBVIOUS
    <3>2. r.rev <= Latest(d)' /\ r.val = LastChange(d, i, r.rev)'
      BY <2>1, <2>2, <3>1
    <3>3. LastChange(d, i, stored[d][i].rev)' = LastChange(d, i, r.rev)'
      BY <3>1 DEF LastChange
    <3> QED BY <3>1, <3>2, <3>3
  <2> QED BY <2>2 DEF RowsAreServed
<1>9. RowsAreKept'
  <2>1. ASSUME NEW k \in 1..call.next[1], NEW i \in RowKeys,
               Readable(stream[k].context), stream[k].context \notin refused,
               Concerns(k, i), ~Before(call.next, <<k, i>>)
        PROVE  stored'[stream[k].context][i] # NoRow
               /\ stored'[stream[k].context][i].rev >= stream[k].sequence
    <3> DEFINE d == stream[k].context
    <3>1. k \in Events /\ d \in Contexts /\ stream[k].sequence \in Nat /\ i \in Nat
      <4>1. k \in Events
        BY <1>6
      <4>2. d \in Contexts /\ stream[k].sequence \in Nat
        BY <4>1, EventIs, SyncAssumption
      <4>3. i \in Nat
        BY Numbers
      <4> QED BY <4>1, <4>2, <4>3
    <3>2. \A r \in call.rows : r[1] = d => stream[k].sequence <= r[3].rev
      BY <1>1 DEF Feed, PageIsWhole
    <3>3. CASE Before(cursor, <<k, i>>)
      <4>1. \E r \in call.rows : r[1] = d /\ r[2] = i
        BY <1>1, <2>1, <3>3 DEF Feed, PageIsWhole
      <4>2. Merged(d)[i] # NoRow
            /\ \E r \in call.rows : r[1] = d /\ Merged(d)[i].rev >= r[3].rev
        BY <1>1, <3>1, <4>1, MergedIs
      <4>3. Merged(d)[i] \in Row
        BY <1>4, <1>5, <3>1, <4>2 DEF TypeDevice
      <4>4. Merged(d)[i].rev \in Nat
        BY <4>3, SyncAssumption DEF Row
      <4>5. Merged(d)[i].rev >= stream[k].sequence
        BY <1>2, <3>1, <3>2, <4>2, <4>4
      <4> QED BY <1>4, <3>1, <4>2, <4>5
    <3>4. CASE ~Before(cursor, <<k, i>>)
      <4>1. k \in 1..cursor[1]
        BY <1>3, <3>1, <3>4 DEF Before
      <4>2. stored[d][i] # NoRow /\ stored[d][i].rev >= stream[k].sequence
        BY <2>1, <3>4, <4>1 DEF Copy, RowsAreKept
      <4>3. d \notin call.revoked
        BY <1>1, <2>1 DEF Feed, PageHides, Readable
      <4>4. Merged(d)[i] # NoRow /\ Merged(d)[i].rev >= stored[d][i].rev
        BY <1>1, <3>1, <4>2, <4>3, MergedIs
      <4>5. Merged(d)[i] \in Row /\ stored[d][i] \in Row
        BY <1>4, <1>5, <3>1, <4>2, <4>4 DEF TypeDevice
      <4>6. Merged(d)[i].rev \in Nat /\ stored[d][i].rev \in Nat
        BY <4>5, SyncAssumption DEF Row
      <4>7. Merged(d)[i].rev >= stream[k].sequence
        BY <3>1, <4>2, <4>4, <4>6
      <4> QED BY <1>4, <3>1, <4>4, <4>7
    <3> QED BY <3>3, <3>4
  <2>2. /\ \A d : Readable(d)' <=> Readable(d)
        /\ \A k, i : Concerns(k, i)' <=> Concerns(k, i)
        /\ \A x : Before(cursor, x)' <=> Before(call.next, x)
    BY <1>1 DEF Readable, Concerns, EntryOf, LastChange, Before
  <2> QED BY <1>1, <2>1, <2>2 DEF RowsAreKept
<1>10. LeftIsHidden'
  <2>1. ASSUME NEW k \in Events, EntryOf(k).kind = "left", Delivered(<<k, Grant>>)'
        PROVE  ~Visible(stream[k].context)'
    <3> DEFINE d == stream[k].context
    <3>1. d \in Contexts /\ <<k, Grant>> \in Nat \X Nat /\ ItemRow \in RowKeys
      BY EventIs, Numbers, Facts
    <3>2. ~Before(call.next, <<k, Grant>>)
      <4>1. <<k, Grant>> = call.next \/ Before(<<k, Grant>>, call.next)
        BY <1>1, <2>1 DEF Delivered, Before
      <4> QED BY <1>2, <3>1, <4>1, Ordered
    <3>3. /\ \A r \in call.rows : r[1] # d
          /\ d \notin call.granted
          /\ d \in call.revoked \/ ~Before(cursor, <<k, Grant>>)
      BY <1>1, <2>1, <3>2 DEF Feed, PageHides
    <3>4. stored'[d][ItemRow] = IF d \in call.revoked THEN NoRow ELSE stored[d][ItemRow]
      <4>1. {r \in call.rows : r[1] = d /\ r[2] = ItemRow} = {}
        BY <3>3
      <4>2. Merged(d)[ItemRow] = IF d \in call.revoked THEN NoRow ELSE stored[d][ItemRow]
        BY <1>1, <3>1, <4>1, MergedIs
      <4> QED BY <1>4, <3>1, <4>2
    <3>5. CASE d \in call.revoked
      <4>1. stored'[d][ItemRow] = NoRow
        BY <3>4, <3>5
      <4>2. stream'[k].context = d
        BY <1>1
      <4> QED BY <4>1, <4>2 DEF Visible
    <3>6. CASE d \notin call.revoked
      <4>1. Delivered(<<k, Grant>>)
        BY <1>3, <3>1, <3>3, <3>6, Ordered DEF Delivered
      <4>2. ~Visible(d)
        BY <2>1, <4>1 DEF Copy, LeftIsHidden
      <4> QED BY <1>1, <3>3, <3>4, <3>6, <4>2 DEF Visible
    <3> QED BY <3>5, <3>6
  <2>2. Events' = Events /\ \A k : EntryOf(k)' = EntryOf(k)
    BY <1>1 DEF Events, EntryOf
  <2> QED BY <1>1, <2>1, <2>2 DEF LeftIsHidden, Visible
<1> QED BY <1>5, <1>7, <1>8, <1>9, <1>10 DEF Copy

LEMMA ApplyKeeps ==
  ASSUME TypeService, TypeDevice, Service, Feed, Copy, ApplyPage
  PROVE  TypeDevice' /\ Feed' /\ Copy'
<1>1. CASE ~call.twice
  BY <1>1, TakenKeeps
<1>2. CASE call.twice
  <2>1. /\ UNCHANGED <<member, log, stream, open, receipts, late, command, stored, fenced,
                       cursor, refused, denied>>
        /\ call' = Idle /\ call' \notin Page
    BY <1>2, Apart DEF ApplyPage, service
  <2>2. TypeDevice'
    BY <2>1 DEF TypeDevice
  <2>3. Feed'
    BY <2>1, StillGrows, QuietFeed
  <2>4. Copy'
    BY <2>1, StillGrows, QuietCopy
  <2> QED BY <2>2, <2>3, <2>4
<1> QED BY <1>1, <1>2

------------------------------------------------------------------------------
\* The commands of the device.

\* What a command was queued, sent or answered for does not pass; an invitation
\* is answered by a command of the account.
LEMMA CausesStay ==
  ASSUME TypeService, Service, ServiceStep \/ UNCHANGED service, NEW o \in Ops
  PROVE  /\ o \in receipts => o \in receipts'
         /\ Joined(o) => Joined(o)'
         /\ member[Command[o].context] = "left" => member'[Command[o].context] = "left"
         /\ AnsweredByAnother(o) => AnsweredByAnother(o)'
         /\ Command[o].kind = "respond" /\ HadInvitation(o) => HadInvitation(o)'
         /\ o \in receipts' => o \in receipts \/ Joined(o)'
         /\ Command[o].kind = "create" /\ log'[Command[o].context] # << >>
               => log[Command[o].context] # << >> \/ o \in receipts'
<1> DEFINE c == Command[o].context
<1>1. c \in Contexts
  BY Facts
<1>2. Grows
  BY ServiceGrows, StillGrows DEF service
<1>3. receipts \subseteq receipts'
  BY <1>2 DEF Grows
<1>4. \/ member'[c] = member[c]
      \/ member[c] = "none"
      \/ member[c] = "invited" /\ member'[c] = "active"
      \/ member[c] = "active" /\ member'[c] = "left"
  BY <1>1, <1>2 DEF Grows
<1>5. AnsweredByAnother(o) => AnsweredByAnother(o)'
  BY <1>3 DEF AnsweredByAnother
<1>6. CASE UNCHANGED service
  BY <1>3, <1>4, <1>5, <1>6 DEF service, Joined, HadInvitation
<1>7. ASSUME NEW d \in Contexts, CommitChange(d) \/ \E i \in Items : BeginChange(d, i)
      PROVE  /\ receipts' = receipts /\ member' = member
             /\ log'[c] # << >> => log[c] # << >>
  <2>1. CASE \E i \in Items : BeginChange(d, i)
    BY <2>1 DEF BeginChange
  <2>2. CASE CommitChange(d)
    <3>1. log[d] # << >>
      BY <2>2 DEF CommitChange, Service, ContextsBegin
    <3>2. d # c => log'[c] = log[c]
      BY <1>1, <2>2 DEF CommitChange, TypeService
    <3> QED BY <2>2, <3>1, <3>2 DEF CommitChange
  <2> QED BY <1>7, <2>1, <2>2
<1>8. ASSUME NEW d \in Contexts, NEW kind \in Kinds, NEW item \in RowKeys,
             NEW by \in Ops \cup {NoOp}, Tells(d, kind, item, by)
      PROVE  /\ o \in receipts' => o \in receipts \/ Joined(o)'
             /\ Command[o].kind = "respond" /\ HadInvitation(o) => HadInvitation(o)'
             /\ Command[o].kind = "create" /\ log'[c] # << >> => log[c] # << >> \/ o \in receipts'
  <2>1. d # c => log'[c] = log[c]
    BY <1>1, <1>8 DEF Tells, Emit, TypeService
  <2>2. member \in [Contexts -> {"none", "invited", "active", "left"}]
    BY DEF TypeService
  <2>3. ASSUME by \in Ops
        PROVE  /\ by \in Ops \ receipts /\ Command[by].context = d
               /\ receipts' = receipts \cup {by} /\ member'[d] = "active"
               /\ \/ Command[by].kind = "create"
                  \/ Command[by].kind = "respond" /\ member[d] = "invited"
                  \/ Command[by].kind = "write" /\ member[d] = "active" /\ member' = member
               /\ \A b \in Contexts : b # d => member'[b] = member[b]
    <3>1. by # NoOp
      BY <2>3, Facts
    <3> QED BY <1>8, <2>2, <3>1 DEF Tells
  <2>4. ASSUME by = NoOp
        PROVE  /\ receipts' = receipts
               /\ \A b \in Contexts : member'[b] = member[b] \/ member[b] # "invited"
    <3>1. by \notin Ops
      BY <2>4, SyncAssumption
    <3> QED BY <1>8, <2>2, <3>1 DEF Tells
  <2>5. o \in receipts' => o \in receipts \/ Joined(o)'
    BY <2>3, <2>4 DEF Joined
  <2>6. ASSUME Command[o].kind = "respond", HadInvitation(o)
        PROVE  HadInvitation(o)'
    <3>1. CASE o \in receipts \/ AnsweredByAnother(o)
      BY <1>3, <1>5, <3>1 DEF HadInvitation
    <3>2. CASE member[c] = "left"
      BY <1>4, <3>2 DEF HadInvitation
    <3>3. CASE member[c] = "invited" /\ member'[c] = member[c]
      BY <3>3 DEF HadInvitation
    <3>4. CASE member[c] = "invited" /\ member'[c] # member[c]
      <4>1. by \in Ops
        BY <1>1, <2>4, <3>4
      <4>2. d = c
        BY <1>1, <2>3, <3>4, <4>1
      <4>3. CASE Command[by].kind = "respond"
        BY <2>3, <2>6, <4>1, <4>2, <4>3 DEF HadInvitation, AnsweredByAnother
      <4>4. CASE Command[by].kind = "create"
        <5>1. kind = "created" /\ log[c] = << >>
          BY <1>8, <3>4, <4>1, <4>2, <4>4, Facts DEF Tells
        <5> QED BY <1>1, <3>4, <5>1 DEF Service, ContextsBegin
      <4> QED BY <2>3, <3>4, <4>1, <4>2, <4>3, <4>4
    <3> QED BY <2>6, <3>1, <3>2, <3>3, <3>4 DEF HadInvitation
  <2>7. ASSUME Command[o].kind = "create", log'[c] # << >>, log[c] = << >>
        PROVE  o \in receipts'
    <3>1. d = c /\ member[c] = "none"
      BY <1>1, <2>1, <2>7 DEF Service, ContextsBegin
    <3>2. by \in Ops /\ Command[by].kind = "create" /\ Command[by].context = c
          /\ receipts' = receipts \cup {by}
      BY <1>8, <2>7, <3>1 DEF Tells
    <3>3. by = o
      BY <2>7, <3>2, CommandsAssumption
    <3> QED BY <3>2, <3>3
  <2> QED BY <2>5, <2>6, <2>7
<1>9. CASE ServiceStep
  <2>1. PICK d \in Contexts :
           \/ \E kind \in Kinds, item \in RowKeys, by \in Ops \cup {NoOp} : Tells(d, kind, item, by)
           \/ \E i \in Items : BeginChange(d, i)
           \/ CommitChange(d)
    BY <1>9 DEF ServiceStep
  <2>2. CASE CommitChange(d) \/ \E i \in Items : BeginChange(d, i)
    <3>1. receipts' = receipts /\ member' = member /\ (log'[c] # << >> => log[c] # << >>)
      BY <1>7, <2>2
    <3> QED BY <1>5, <3>1 DEF Joined, HadInvitation
  <2>3. CASE \E kind \in Kinds, item \in RowKeys, by \in Ops \cup {NoOp} : Tells(d, kind, item, by)
    <3>1. /\ o \in receipts' => o \in receipts \/ Joined(o)'
          /\ Command[o].kind = "respond" /\ HadInvitation(o) => HadInvitation(o)'
          /\ Command[o].kind = "create" /\ log'[c] # << >> => log[c] # << >> \/ o \in receipts'
      BY <1>8, <2>3
    <3> QED BY <1>3, <1>4, <1>5, <3>1 DEF Joined
  <2> QED BY <2>1, <2>2, <2>3
<1> QED BY <1>6, <1>9

\* A step that queues nothing and sends nothing.
LEMMA CommandsStay ==
  ASSUME TypeService, Service, Answers, ServiceStep \/ UNCHANGED service,
         \A o \in Ops : command'[o] # "none" => command[o] # "none"
  PROVE  CommandsHaveCause'
<1>1. ASSUME NEW o \in Ops
      PROVE  /\ o \in receipts' => Joined(o)'
             /\ Command[o].kind = "create" /\ log'[Command[o].context] # << >> => o \in receipts'
             /\ command'[o] # "none" /\ Command[o].kind = "write" /\ Command[o].needs = {}
                   => Joined(o)'
             /\ command'[o] # "none" /\ Command[o].kind = "respond" => HadInvitation(o)'
  <2>1. /\ o \in receipts => Joined(o)
        /\ Command[o].kind = "create" /\ log[Command[o].context] # << >> => o \in receipts
        /\ command[o] # "none" /\ Command[o].kind = "write" /\ Command[o].needs = {} => Joined(o)
        /\ command[o] # "none" /\ Command[o].kind = "respond" => HadInvitation(o)
    BY DEF Answers, CommandsHaveCause
  <2> QED BY <2>1, CausesStay
<1> QED BY <1>1 DEF CommandsHaveCause

LEMMA AnswersStay ==
  ASSUME TypeService, Service, TypeDevice, Answers, ServiceStep \/ UNCHANGED service,
         command' = command, call' \in Call => call' = call
  PROVE  Answers'
<1>1. CommandsHaveCause'
  BY CommandsStay
<1>2. CallHasCause'
  <2> SUFFICES ASSUME call' \in Call PROVE CallHasCause'
    BY DEF CallHasCause
  <2>1. PICK x : x = call /\ x = call' /\ x \in Call /\ x.op \in Ops
    BY DEF Call
  <2>2. /\ command[x.op] # "none"
        /\ Command[x.op].kind = "write" => Joined(x.op)
        /\ x.stage = "ok" => x.op \in receipts
        /\ x.stage = "refused" =>
              member[Command[x.op].context] = "left" \/ AnsweredByAnother(x.op)
    BY <2>1 DEF Answers, CallHasCause
  <2>3. /\ Command[x.op].kind = "write" => Joined(x.op)'
        /\ x.stage = "ok" => x.op \in receipts'
        /\ x.stage = "refused" =>
              member'[Command[x.op].context] = "left" \/ AnsweredByAnother(x.op)'
    BY <2>1, <2>2, CausesStay
  <2> QED BY <2>1, <2>2, <2>3 DEF CallHasCause, Joined, AnsweredByAnother
<1>3. AnswersAreTrue'
  <2>1. ASSUME NEW o \in Ops
        PROVE  /\ command[o] = "committed" => o \in receipts'
               /\ command[o] = "rejected" =>
                     member'[Command[o].context] = "left" \/ AnsweredByAnother(o)'
    BY CausesStay DEF Answers, AnswersAreTrue
  <2> QED BY <2>1 DEF AnswersAreTrue
<1> QED BY <1>1, <1>2, <1>3 DEF Answers

\* A command is sent, or its stage changes, for a reason.
LEMMA CallKeeps ==
  ASSUME TypeService, Service, TypeDevice, Answers, ServiceStep \/ UNCHANGED service,
         command' = command, NEW o \in Ops, NEW s \in {"lookup", "execute", "ok", "refused"},
         call' = [op |-> o, stage |-> s], command[o] # "none",
         Command[o].kind = "write" => Joined(o),
         s = "ok" => o \in receipts',
         s = "refused" => member'[Command[o].context] = "left" \/ AnsweredByAnother(o)'
  PROVE  Answers' /\ call' \in Call
<1>1. CommandsHaveCause'
  BY CommandsStay
<1>2. call' \in Call /\ call'.op = o /\ call'.stage = s
  BY DEF Call
<1>3. Command[o].kind = "write" => Joined(o)'
  BY CausesStay
<1>4. CallHasCause'
  BY <1>2, <1>3 DEF CallHasCause, Joined, AnsweredByAnother
<1>5. AnswersAreTrue'
  <2>1. ASSUME NEW p \in Ops
        PROVE  /\ command[p] = "committed" => p \in receipts'
               /\ command[p] = "rejected" =>
                     member'[Command[p].context] = "left" \/ AnsweredByAnother(p)'
    BY CausesStay DEF Answers, AnswersAreTrue
  <2> QED BY <2>1 DEF AnswersAreTrue
<1> QED BY <1>1, <1>2, <1>4, <1>5 DEF Answers

LEMMA EnqueueKeeps ==
  ASSUME TypeService, Service, TypeDevice, Answers, NEW o \in Ops, Enqueue(o)
  PROVE  TypeDevice' /\ Answers'
<1>1. /\ UNCHANGED <<member, log, stream, open, receipts, late, stored, fenced, cursor, refused,
                     call, denied>>
      /\ command' = [command EXCEPT ![o] = "pending"] /\ command[o] = "none"
  BY DEF Enqueue, service
<1>2. command \in [Ops -> {"none", "pending", "committed", "rejected"}]
  BY DEF TypeDevice
<1>3. TypeDevice'
  BY <1>1, <1>2 DEF TypeDevice
<1>4. CommandsHaveCause'
  <2>1. Command[o].kind = "write" /\ Command[o].needs = {} => Joined(o)
    BY DEF Enqueue, Joined
  <2>2. Command[o].kind = "respond" => HadInvitation(o)
    BY DEF Enqueue, HadInvitation
  <2> QED BY <1>1, <1>2, <2>1, <2>2
          DEF Answers, CommandsHaveCause, Joined, HadInvitation, AnsweredByAnother
<1>5. CallHasCause'
  <2>1. call \in Call => call.op \in Ops
    BY DEF Call
  <2> QED BY <1>1, <1>2, <2>1 DEF Answers, CallHasCause, Joined, AnsweredByAnother
<1>6. AnswersAreTrue'
  BY <1>1, <1>2 DEF Answers, AnswersAreTrue, AnsweredByAnother
<1> QED BY <1>3, <1>4, <1>5, <1>6 DEF Answers

LEMMA ClaimKeeps ==
  ASSUME TypeService, Service, TypeDevice, Answers, NEW o \in Ops, Claim(o)
  PROVE  TypeDevice' /\ Answers'
<1>1. /\ UNCHANGED <<member, log, stream, open, receipts, late, command, stored, fenced, cursor,
                     refused, denied>>
      /\ call' = [op |-> o, stage |-> "lookup"] /\ command[o] = "pending"
      /\ \A d \in Command[o].needs : command[d] = "committed"
  BY DEF Claim, service, store
<1>2. Command[o].kind = "write" => Joined(o)
  <2>1. CASE Command[o].needs = {}
    BY <1>1, <2>1 DEF Answers, CommandsHaveCause
  <2>2. CASE Command[o].needs # {}
    <3>1. PICK d \in Command[o].needs : d \in Ops /\ Command[d].context = Command[o].context
      BY <2>2, Facts, CommandsAssumption
    <3>2. d \in receipts
      BY <1>1, <3>1 DEF Answers, AnswersAreTrue
    <3> QED BY <3>1, <3>2 DEF Answers, CommandsHaveCause, Joined
  <2> QED BY <2>1, <2>2
<1>3. Answers' /\ call' \in Call
  <2>1. UNCHANGED service /\ command' = command
    BY <1>1 DEF service
  <2> QED BY <1>1, <1>2, <2>1, CallKeeps
<1> QED BY <1>1, <1>3 DEF TypeDevice

LEMMA LookupKeeps ==
  ASSUME TypeService, Service, TypeDevice, Answers, NEW o \in Ops, Lookup(o)
  PROVE  TypeDevice' /\ Answers'
<1>1. /\ UNCHANGED <<member, log, stream, open, receipts, late, command, stored, fenced, cursor,
                     refused, denied>>
      /\ At(o, "lookup")
  BY DEF Lookup, service, store
<1>2. PICK s : s = IF o \notin receipts THEN "execute" ELSE IF MayWrite(o) THEN "ok" ELSE "refused"
  OBVIOUS
<1>3. call' = [op |-> o, stage |-> s] /\ s \in {"lookup", "execute", "ok", "refused"}
  BY <1>2 DEF Lookup
<1>4. command[o] # "none" /\ (Command[o].kind = "write" => Joined(o))
  BY <1>1, Sent DEF Answers, CallHasCause
<1>5. s = "ok" => o \in receipts'
  BY <1>1, <1>2
<1>6. s = "refused" => member'[Command[o].context] = "left"
  <2>1. ASSUME s = "refused" PROVE o \in receipts /\ ~MayWrite(o)
    BY <1>2, <2>1
  <2> QED BY <1>1, <2>1 DEF Answers, CommandsHaveCause, Joined, MayWrite
<1>7. Answers' /\ call' \in Call
  <2>1. UNCHANGED service /\ command' = command
    BY <1>1 DEF service
  <2> QED BY <1>3, <1>4, <1>5, <1>6, <2>1, CallKeeps
<1> QED BY <1>1, <1>7 DEF TypeDevice

LEMMA ExecuteKeeps ==
  ASSUME TypeService, Service, TypeDevice, Answers, NEW o \in Ops, Execute(o)
  PROVE  TypeDevice' /\ Answers'
<1>1. /\ UNCHANGED <<late, command, stored, fenced, cursor, refused, denied>>
      /\ At(o, "execute")
  BY DEF Execute, store
<1>2. command[o] # "none" /\ (Command[o].kind = "write" => Joined(o))
  BY <1>1, Sent DEF Answers, CallHasCause
<1>3. CASE Apply(o) /\ call' = [op |-> o, stage |-> "ok"]
  <2>1. ServiceStep /\ o \in receipts'
    BY <1>3, ApplyTells DEF ServiceStep, Apply
  <2>2. Answers' /\ call' \in Call
    BY <1>1, <1>2, <1>3, <2>1, CallKeeps
  <2> QED BY <1>1, <2>2 DEF TypeDevice
<1>4. CASE /\ ~Applies(o) /\ UNCHANGED service
           /\ call' = [op |-> o, stage |-> IF Answered(o) THEN "ok" ELSE "refused"]
  <2>1. PICK s : s = IF Answered(o) THEN "ok" ELSE "refused"
    OBVIOUS
  <2>2. call' = [op |-> o, stage |-> s] /\ s \in {"lookup", "execute", "ok", "refused"}
    BY <1>4, <2>1
  <2>3. s = "ok" => o \in receipts'
    BY <1>4, <2>1 DEF Answered, service
  <2>4. ASSUME s = "refused"
        PROVE  member[Command[o].context] = "left" \/ AnsweredByAnother(o)
    <3>1. ~Answered(o)
      BY <2>1, <2>4
    <3>2. CASE o \in receipts
      <4>1. ~MayWrite(o) /\ Joined(o)
        BY <3>1, <3>2 DEF Answered, Answers, CommandsHaveCause
      <4> QED BY <4>1 DEF MayWrite, Joined
    <3>3. CASE o \notin receipts /\ Command[o].kind = "create"
      BY <1>4, <3>3 DEF Applies, Answers, CommandsHaveCause
    <3>4. CASE o \notin receipts /\ Command[o].kind = "respond"
      <4>1. HadInvitation(o) /\ member[Command[o].context] # "invited"
        BY <1>2, <1>4, <3>4 DEF Applies, Answers, CommandsHaveCause
      <4> QED BY <3>4, <4>1 DEF HadInvitation
    <3>5. CASE o \notin receipts /\ Command[o].kind = "write"
      <4>1. ~MayWrite(o) /\ Joined(o)
        BY <1>2, <1>4, <3>5 DEF Applies
      <4> QED BY <4>1 DEF MayWrite, Joined
    <3> QED BY <3>2, <3>3, <3>4, <3>5, Facts
  <2>5. s = "refused" => member'[Command[o].context] = "left" \/ AnsweredByAnother(o)'
    BY <1>4, <2>4 DEF service, AnsweredByAnother
  <2>6. Answers' /\ call' \in Call
    BY <1>1, <1>2, <1>4, <2>2, <2>3, <2>5, CallKeeps
  <2> QED BY <1>1, <2>6 DEF TypeDevice
<1> QED BY <1>3, <1>4 DEF Execute

LEMMA AnswerKeeps ==
  ASSUME TypeService, Service, TypeDevice, Answers, NEW o \in Ops, Complete(o) \/ Reject(o)
  PROVE  TypeDevice' /\ Answers'
<1>1. /\ UNCHANGED <<member, log, stream, open, receipts, late, stored, fenced, cursor, refused,
                     denied>>
      /\ call' = Idle
  BY DEF Complete, Reject, service
<1>2. command \in [Ops -> {"none", "pending", "committed", "rejected"}]
  BY DEF TypeDevice
<1>3. command[o] # "none"
  <2>1. call \in Call /\ call.op = o
    BY Sent DEF Complete, Reject
  <2> QED BY <2>1 DEF Answers, CallHasCause
<1>4. \/ command' = command
      \/ command' = [command EXCEPT ![o] = "committed"] /\ o \in receipts
      \/ /\ command' = [command EXCEPT ![o] = "rejected"]
         /\ member[Command[o].context] = "left" \/ AnsweredByAnother(o)
  <2>1. CASE Complete(o)
    <3>1. o \in receipts
      BY <2>1, Sent DEF Complete, Answers, CallHasCause
    <3> QED BY <2>1, <3>1 DEF Complete
  <2>2. CASE Reject(o)
    <3>1. member[Command[o].context] = "left" \/ AnsweredByAnother(o)
      BY <2>2, Sent DEF Reject, Answers, CallHasCause
    <3> QED BY <2>2, <3>1 DEF Reject
  <2> QED BY <2>1, <2>2
<1>5. TypeDevice'
  BY <1>1, <1>2, <1>4 DEF TypeDevice
<1>6. CommandsHaveCause'
  <2>1. \A p \in Ops : command'[p] # "none" => command[p] # "none"
    BY <1>2, <1>3, <1>4
  <2>2. UNCHANGED service
    BY <1>1 DEF service
  <2> QED BY <2>1, <2>2, CommandsStay
<1>7. CallHasCause'
  BY <1>1, Apart DEF CallHasCause
<1>8. AnswersAreTrue'
  BY <1>1, <1>2, <1>4 DEF Answers, AnswersAreTrue, AnsweredByAnother
<1> QED BY <1>5, <1>6, <1>7, <1>8 DEF Answers

------------------------------------------------------------------------------
\* The invariant holds at first, and every step keeps it.

LEMMA InitInv == Init => Inv
<1> SUFFICES ASSUME Init PROVE Inv
  OBVIOUS
<1>1. \A k \in Positions : stream[k] = NoEvent
  BY DEF Init
<1>2. Events = {} /\ Taken = {}
  BY <1>1 DEF Init, Events, Taken
<1>3. \A c \in Contexts :
         /\ log[c] = << >> \/ log[c] = << [kind |-> "created", item |-> ItemRow, by |-> NoOp] >>
         /\ Created(c) => log[c] = << >>
         /\ member[c] = "none" /\ open[c] = NoTransaction
  BY DEF Init
<1>4. [kind |-> "created", item |-> ItemRow, by |-> NoOp] \in Entry
  BY DEF Entry, Kinds
<1>5. log \in [Contexts -> Seq(Entry)]
  <2>1. << >> \in Seq(Entry)
        /\ << [kind |-> "created", item |-> ItemRow, by |-> NoOp] >> \in Seq(Entry)
    BY <1>4
  <2> QED BY <2>1 DEF Init
<1>6. \A c \in Contexts : Len(log[c]) <= MaxLog
      /\ \A s \in 1..Len(log[c]) : s = 1 /\ log[c][s].by = NoOp
  <2>1. 1 <= MaxLog /\ 0 <= MaxLog
    BY SyncAssumption
  <2>2. ASSUME NEW c \in Contexts
        PROVE  Len(log[c]) <= MaxLog /\ \A s \in 1..Len(log[c]) : s = 1 /\ log[c][s].by = NoOp
    <3>1. CASE log[c] = << >>
      BY <2>1, <3>1
    <3>2. CASE log[c] = << [kind |-> "created", item |-> ItemRow, by |-> NoOp] >>
      BY <2>1, <3>2
    <3> QED BY <1>3, <3>1, <3>2
  <2> QED BY <2>2
<1>7. TypeService
  <2>1. /\ member \in [Contexts -> {"none", "invited", "active", "left"}]
        /\ stream \in [Positions -> Event \cup {NoEvent}]
        /\ open \in [Contexts -> Transaction \cup {NoTransaction}]
        /\ receipts \subseteq Ops
    BY DEF Init
  <2> QED BY <1>5, <1>6, <2>1 DEF TypeService
<1>8. cursor = <<0, 0>> /\ cursor[1] = 0 /\ 1..cursor[1] = {} /\ cursor \in Cursor
  <2>1. 0 \in Ranks
    BY Numbers DEF RowKeys, ItemRow
  <2> QED BY <2>1 DEF Init, Cursor
<1>9. TypeDevice
  BY <1>8 DEF Init, TypeDevice, RowKeys
<1>10. Service
  <2>1. Cardinality(Taken) = 0
    BY <1>2, FS_EmptySet
  <2>2. StreamInOrder
    BY <1>2, <2>1 DEF StreamInOrder
  <2>3. LogsAreOwn /\ AppliedOnce
    BY <1>6 DEF LogsAreOwn, AppliedOnce, Latest
  <2>4. ContextsBegin /\ OpenIsLast
    BY <1>3 DEF ContextsBegin, OpenIsLast
  <2> QED BY <1>2, <2>2, <2>3, <2>4 DEF Service, FirstAndLast
<1>11. call \notin Page /\ call \notin Call
  BY Apart DEF Init
<1>12. Feed
  BY <1>8, <1>11 DEF Feed, CursorInStream, PageIsServed, PageIsWhole, PageHides
<1>13. Copy
  <2>1. \A c \in Contexts, i \in Items \cup {ItemRow} : stored[c][i] = NoRow
    BY DEF Init
  <2> QED BY <1>2, <1>8, <2>1 DEF Copy, RowsAreServed, RowsAreKept, LeftIsHidden
<1>14. Answers
  <2>1. \A o \in Ops : command[o] = "none" /\ o \notin receipts
    BY DEF Init
  <2>2. \A o \in Ops : Command[o].kind = "create" => log[Command[o].context] = << >>
    BY <1>3, Facts DEF Created
  <2> QED BY <1>11, <2>1, <2>2 DEF Answers, CommandsHaveCause, CallHasCause, AnswersAreTrue
<1> QED BY <1>7, <1>9, <1>10, <1>12, <1>13, <1>14, TypeSplit DEF Inv

\* What the steps that neither read the feed nor answer a command do.
LEMMA OtherKeeps ==
  ASSUME TypeService, Service, TypeDevice, Answers, ServiceStep \/ UNCHANGED service,
         UNCHANGED <<command, stored, fenced, cursor, refused>>,
         late' \subseteq Ops, denied' \subseteq Contexts, call' \in {call, Idle}
  PROVE  TypeDevice' /\ Answers'
<1>1. TypeDevice'
  BY DEF TypeDevice
<1>2. call' \in Call => call' = call
  BY Apart
<1> QED BY <1>1, <1>2, AnswersStay

LEMMA DeviceKeeps ==
  ASSUME TypeService, Service, TypeDevice, Feed, Copy, Answers, [Next]_vars
  PROVE  TypeDevice' /\ Answers'
<1>1. ServiceStep \/ UNCHANGED service
  BY Steps
<1>2. late \subseteq Ops /\ denied \subseteq Contexts /\ Orphaned \subseteq Ops
  BY DEF TypeDevice, Orphaned
<1>3. CASE UNCHANGED vars
  BY <1>1, <1>2, <1>3, OtherKeeps DEF vars
<1>4. ASSUME NEW c \in Contexts,
             \/ Invited(c) \/ Claimed(c) \/ HandOver(c) \/ Leave(c) \/ CommitChange(c)
             \/ ReadDenied(c) \/ \E i \in Items : BeginChange(c, i)
      PROVE  TypeDevice' /\ Answers'
  <2>1. /\ UNCHANGED <<command, stored, fenced, cursor, refused, late, call>>
        /\ denied' \subseteq Contexts
    BY <1>2, <1>4 DEF Invited, Claimed, HandOver, Leave, CommitChange, ReadDenied, BeginChange, store
  <2> QED BY <1>1, <1>2, <2>1, OtherKeeps
<1>5. ASSUME NEW c \in Contexts, Fence(c)
      PROVE  TypeDevice' /\ Answers'
  <2>1. command' = command /\ call' = call
    BY <1>5 DEF Fence
  <2> QED BY <1>1, <1>5, <2>1, FenceKeeps, AnswersStay
<1>6. CASE Pull
  <2>1. command' = command /\ call' \notin Call
    BY <1>6, PullIs, Apart DEF Pull, store
  <2> QED BY <1>1, <1>6, <2>1, PullKeeps, AnswersStay
<1>7. CASE ApplyPage
  <2>1. command' = command /\ call' \notin Call
    BY <1>7, Apart DEF ApplyPage
  <2> QED BY <1>1, <1>7, <2>1, ApplyKeeps, AnswersStay
<1>8. CASE PageLost \/ Crash
  <2>1. /\ UNCHANGED <<command, stored, fenced, cursor, refused>>
        /\ late' \subseteq Ops /\ denied' \subseteq Contexts /\ call' = Idle
    BY <1>2, <1>8 DEF PageLost, Crash, store
  <2> QED BY <1>1, <2>1, OtherKeeps
<1>9. ASSUME NEW o \in Ops, Fail(o) \/ LateExecution(o)
      PROVE  TypeDevice' /\ Answers'
  <2>1. /\ UNCHANGED <<command, stored, fenced, cursor, refused>>
        /\ late' \subseteq Ops /\ denied' \subseteq Contexts /\ call' \in {call, Idle}
    BY <1>2, <1>9 DEF Fail, LateExecution, store
  <2> QED BY <1>1, <2>1, OtherKeeps
<1>10. ASSUME NEW o \in Ops,
              \/ Enqueue(o) \/ Claim(o) \/ Lookup(o) \/ Execute(o) \/ Complete(o) \/ Reject(o)
       PROVE  TypeDevice' /\ Answers'
  BY <1>10, EnqueueKeeps, ClaimKeeps, LookupKeeps, ExecuteKeeps, AnswerKeeps
<1> QED BY <1>3, <1>4, <1>5, <1>6, <1>7, <1>8, <1>9, <1>10 DEF Next

LEMMA StepInv == Inv /\ [Next]_vars => Inv'
<1> SUFFICES ASSUME Inv, [Next]_vars PROVE Inv'
  OBVIOUS
<1>1. TypeService /\ TypeDevice /\ Service /\ Feed /\ Copy /\ Answers
  BY TypeSplit DEF Inv
<1>2. TypeDevice' /\ Answers' /\ (TypeService' => TypeOK')
  <2>1. TypeService' /\ TypeDevice' => TypeOK'
    BY DEF TypeOK, TypeService, TypeDevice, RowKeys
  <2> QED BY <1>1, <2>1, DeviceKeeps
<1>3. CASE ServiceStep /\ Quiet
  <2>1. Grows /\ TypeService' /\ Service'
    BY <1>1, <1>3, ServiceGrows, ServiceKeeps
  <2>2. Feed' /\ Copy'
    BY <1>1, <1>3, <2>1, QuietFeed, QuietCopy DEF Quiet
  <2> QED BY <1>2, <2>1, <2>2 DEF Inv
<1>4. CASE UNCHANGED service /\ (Quiet \/ Pull \/ ApplyPage \/ \E c \in Contexts : Fence(c))
  <2>1. Grows /\ TypeService' /\ Service'
    BY <1>1, <1>4, StillGrows DEF service
  <2>2. Feed' /\ Copy'
    <3>1. CASE Quiet
      BY <1>1, <2>1, <3>1, QuietFeed, QuietCopy DEF Quiet
    <3>2. CASE Pull \/ ApplyPage \/ \E c \in Contexts : Fence(c)
      BY <1>1, <3>2, PullKeeps, ApplyKeeps, FenceKeeps
    <3> QED BY <1>4, <3>1, <3>2
  <2> QED BY <1>2, <2>1, <2>2 DEF Inv
<1> QED BY <1>3, <1>4, Steps

LEMMA Invariance == Spec => []Inv
  BY InitInv, StepInv, PTL DEF Spec

------------------------------------------------------------------------------
\* Results.

\* Tables, feed and the device's store keep their types.
THEOREM TypeCorrect == Spec => []TypeOK
<1>1. Inv => TypeOK
  BY DEF Inv
<1> QED BY <1>1, Invariance, PTL

\* However often a command is sent, given up and sent again, it is in the log
\* once.  (_operation)
THEOREM Once == Spec => []AppliedOnce
<1>1. Inv => AppliedOnce
  BY DEF Inv, Service
<1> QED BY <1>1, Invariance, PTL

\* The device calls a command committed only if it was executed, and rejected
\* only if the account has left or has answered otherwise.  (flush, claim,
\* readOperation)
THEOREM AnswersTrue == Spec => []AnswersAreTrue
<1>1. Inv => AnswersAreTrue
  BY DEF Inv, Answers
<1> QED BY <1>1, Invariance, PTL

\* Every row on the device says what the service said at the row's revision.
\* (PROJECTION_FEED_SQL, _projections)
THEOREM Served == Spec => []RowsAreServed
<1>1. Inv => RowsAreServed
  BY DEF Inv, Copy
<1> QED BY <1>1, Invariance, PTL

\* Once the device has passed the event of its leaving, it shows the context no
\* more.  (PROJECTION_FEED_SQL, applyPage, revokeContext)
THEOREM Hidden == Spec => []LeftIsHidden
<1>1. Inv => LeftIsHidden
  BY DEF Inv, Copy
<1> QED BY <1>1, Invariance, PTL

\* What the cursor has passed is on the device, in whatever order transactions
\* began and committed and however the rows of an event are spread over pages.
\* (_emit, PROJECTION_FEED_SQL, applyPage)
THEOREM Skipped == Spec => []NothingSkipped
<1>1. ASSUME Inv PROVE NothingSkipped
  <2>1. TypeService /\ TypeDevice /\ Service /\ Feed /\ Copy
    BY <1>1, TypeSplit DEF Inv
  <2>2. cursor \in Nat \X Nat /\ cursor[1] \in Nat /\ 1..cursor[1] \subseteq Events
    BY <2>1, CursorType DEF Feed, CursorInStream
  <2>3. ASSUME NEW k \in Positions, k <= cursor[1]
        PROVE  k \in Events /\ k \in 1..cursor[1] /\ k \in Nat
    <3>1. k \in Nat /\ 1 <= k
      BY Numbers DEF Positions
    <3> QED BY <2>2, <2>3, <3>1
  <2>4. ASSUME NEW k \in Positions, k <= cursor[1], member[stream[k].context] = "active",
               stream[k].context \notin refused, NEW i \in RanksOf(k) \ {Grant},
               Delivered(<<k, i>>), LastChange(stream[k].context, i, stream[k].sequence) > 0
        PROVE  /\ stored[stream[k].context][i] # NoRow
               /\ stored[stream[k].context][i].rev >= stream[k].sequence
    <3>1. Readable(stream[k].context)
      BY <2>4 DEF Readable
    <3>2. i \in RowsOf(k)
      BY <2>4, <3>1 DEF RanksOf
    <3>3. i \in RowKeys /\ Concerns(k, i)
      BY <2>4, <3>2 DEF RowsOf, RowKeys, Concerns, FullGrant
    <3>4. ~Before(cursor, <<k, i>>)
      <4>1. <<k, i>> \in Nat \X Nat
        BY <2>3, <2>4, <3>3, Numbers
      <4> QED BY <2>2, <2>4, <4>1, Ordered DEF Delivered
    <3> QED BY <2>1, <2>3, <2>4, <3>1, <3>3, <3>4 DEF Copy, RowsAreKept
  <2> QED BY <2>3, <2>4 DEF NothingSkipped, Events
<1> QED BY <1>1, Invariance, PTL

==============================================================================
