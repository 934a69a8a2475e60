------------------------ MODULE AccountDeletionProofs ------------------------
(***************************************************************************)
(* Proofs about AccountDeletion, for any number of accounts, workers,      *)
(* requests and attempts, and journals of any capacity.                    *)
(***************************************************************************)
EXTENDS AccountDeletion, SequenceTheorems, WellFoundedInduction, TLAPS

------------------------------------------------------------------------------
\* The inductive invariant.

\* The requests that tombstones, of either database, name.
Named(tombstone) == {tombstone[a] : a \in Accounts} \ {None}

HeldBy(db) == {id \in Ids : db.requests[id] # None}

\* A database has one request in force per account, denies exactly the accounts
\* whose request a worker has committed, and denies all it has seen of the journal.
RowsAgree(db) ==
    /\ HeldBy(db) \subseteq DOMAIN issued
    /\ \A a \in Accounts : db.tombstone[a] # None =>
          /\ db.tombstone[a] \in HeldBy(db) /\ Owner(db.tombstone[a]) = a
          /\ db.requests[db.tombstone[a]].status \notin {"pending", "cancelled"}
    /\ \A id \in HeldBy(db) : db.requests[id].status \in {"processing", "completed", "blocked"}
          => db.tombstone[Owner(id)] = id
    /\ \A x, y \in HeldBy(db) :
          Owner(x) = Owner(y) /\ db.requests[x].status # "cancelled"
          /\ db.requests[y].status # "cancelled" => x = y
    /\ db.seen # None => \A id \in ToSet(db.seen) :
          id \in DOMAIN issued /\ db.tombstone[Owner(id)] = id

\* A generation never exceeds the requests made so far.
GenerationsCount == \A id \in DOMAIN issued : issued[id].generation <= id

\* Either the services run, over a database whose journal position is known, or
\* the operator's tool does.
OneSideWorks ==
    /\ serving => job[Tool].at = "idle" /\ product.seen # None
    /\ ~serving => /\ wire = {}
                   /\ \A w \in Workers : job[w].at = "idle"
                   /\ \A a \in Accounts : user[a].at = "idle"
    /\ job[Tool].at \notin {"durable", "calling", "applied", "failed"}
    /\ \A w \in Workers : job[w].at \notin {"planned", "denied", "done"}

\* The first copy has what the second has, and that what was saved; the other
\* service denies, and is asked to deny, what the copies have.
CopiesInOrder ==
    /\ ToSet(journal.saved) \subseteq ToSet(journal.b)
    /\ ToSet(journal.b) \subseteq ToSet(journal.a)
    /\ ToSet(journal.a) \subseteq DOMAIN issued
    /\ wire \subseteq ToSet(journal.b)
    /\ \A a \in Accounts : auth[a] # None => auth[a] \in ToSet(journal.a) /\ Owner(auth[a]) = a

\* What the journal or the product tells of; a backup tells of nothing else.
Intents == ToSet(journal.a) \cup Named(product.tombstone)

IntentsAgree ==
    /\ \A x, y \in Intents : Owner(x) = Owner(y) => x = y
    /\ Named(backup.tombstone) \subseteq Intents

\* A transaction that has passed its fence is neither denied nor being claimed.
FencesHold ==
    \A a \in Accounts : Shared(a) => product.tombstone[a] = None /\ ~Fenced(a)

\* What the other service denies, or is asked to deny, the product denies.
DenialsAreMade ==
    serving =>
        /\ \A a \in Accounts : auth[a] # None => product.tombstone[a] = auth[a]
        /\ \A id \in wire : product.tombstone[Owner(id)] = id

\* What a worker, or the tool, has written of the deletion it works on.
JobsFollow ==
    /\ \A w \in Workers :
          /\ job[w].at # "idle" => job[w].id \in HeldBy(product)
          /\ w \in Claiming => /\ job[w].at \in {"claimed", "copied", "both", "saved", "durable"}
                               /\ product.requests[job[w].id].status # "cancelled"
          /\ job[w].at = "applied" => auth[Owner(job[w].id)] = job[w].id
    /\ \A w \in Writers :
          /\ job[w].at = "copied" => job[w].id \in ToSet(journal.a)
          /\ job[w].at \in {"both", "saved", "durable"} => job[w].id \in ToSet(journal.b)

\* The tool has denied in both databases what is not in its plan any more.
ToolFollows ==
    LET id == job[Tool].id
    IN  job[Tool].at # "idle" =>
          /\ plan \subseteq Intents
          /\ \A x \in (ToSet(journal.saved) \cup Named(product.tombstone) \cup Named(auth)) \ plan :
                /\ x \in ToSet(journal.saved)
                /\ product.tombstone[Owner(x)] = x /\ auth[Owner(x)] = x
          /\ job[Tool].at \in {"claimed", "copied", "both", "saved", "denied"} => id \in plan
          /\ job[Tool].at = "denied" => /\ plan \subseteq ToSet(journal.saved)
                                        /\ product.tombstone[Owner(id)] = id
          /\ job[Tool].at = "done" => plan = {} /\ product.seen # None

\* One claim is open at a time. Until somebody writes to the journal after a claim,
\* with or without a session, the product has seen what the claim found in it;
\* afterwards an open claim is ahead of the product.
FollowsClaim(j) ==
    /\ j.at = "claimed" =>
          /\ j.expected <= Len(journal.a)
          /\ j.expected = Len(journal.a) =>
                product.seen = journal.a /\ product.tombstone[Owner(j.id)] \in {None, j.id}
    /\ j.session /\ j.at # "claimed" => Len(product.seen) < Len(journal.a)

ClaimsFollow ==
    /\ \A v, w \in Claiming : v = w
    /\ \A w \in Workers : FollowsClaim(job[w])

Rows == RowsAgree(product) /\ RowsAgree(backup) /\ GenerationsCount
Journals == CopiesInOrder /\ IntentsAgree /\ DenialsAreJournaled
Sides == OneSideWorks /\ FencesHold /\ DenialsAreMade
Works == JobsFollow /\ ClaimsFollow /\ ToolFollows /\ CompletedIsDenied

Inv == TypeOK /\ Rows /\ Journals /\ Sides /\ Works

------------------------------------------------------------------------------
\* Types.

LEMMA Facts ==
  /\ MaxRequests \in Nat /\ MaxAttempts \in Nat /\ Ids \subseteq Nat
  /\ None \notin Ids /\ None \notin Request
  /\ None \notin Seq(Ids) /\ Tool \in Writers /\ Workers \subseteq Writers /\ Tool \notin Workers
<1>1. MaxRequests \in Nat /\ MaxAttempts \in Nat /\ Ids \subseteq Nat
  BY BoundsAssumption DEF Ids
<1>2. None \notin Ids
  BY <1>1, NoneAssumption
<1>3. None \notin Seq(Ids)
  <2>1. \A s \in Seq(Ids) : s \in Seq(Nat)
    BY <1>1, SeqMonotonic
  <2> QED BY <2>1, NoneAssumption
<1> QED BY <1>1, <1>2, <1>3, NoneAssumption, RequestAssumption, WritersAssumption DEF Writers

LEMMA Types ==
  ASSUME TypeOK
  PROVE  /\ product.requests \in [Ids -> Request \cup {None}]
         /\ product.tombstone \in [Accounts -> Ids \cup {None}]
         /\ product.seen \in Seq(Ids) \cup {None}
         /\ backup.requests \in [Ids -> Request \cup {None}]
         /\ backup.tombstone \in [Accounts -> Ids \cup {None}]
         /\ backup.seen \in Seq(Ids) \cup {None}
         /\ journal.a \in Seq(Ids) /\ journal.b \in Seq(Ids) /\ journal.saved \in Seq(Ids)
         /\ journal.locked \in BOOLEAN
         /\ auth \in [Accounts -> Ids \cup {None}]
         /\ Len(issued) \in Nat /\ DOMAIN issued = 1..Len(issued) /\ DOMAIN issued \subseteq Ids
         /\ \A id \in DOMAIN issued : Owner(id) \in Accounts /\ issued[id].generation \in Ids
         /\ \A w \in Writers : job[w] \in Job
<1>1. product \in Product /\ backup \in Product /\ journal \in Journal
      /\ auth \in [Accounts -> Ids \cup {None}] /\ job \in [Writers -> Job]
  BY DEF TypeOK
<1>2. issued \in Seq([account: Accounts, generation: Ids]) /\ Len(issued) <= MaxRequests
  BY DEF TypeOK
<1>3. Len(issued) \in Nat /\ DOMAIN issued = 1..Len(issued)
      /\ \A id \in 1..Len(issued) : issued[id] \in [account: Accounts, generation: Ids]
  <2>1. PICK S : S = [account: Accounts, generation: Ids]
    OBVIOUS
  <2>2. issued \in Seq(S)
    BY <1>2, <2>1
  <2>3. Len(issued) \in Nat /\ DOMAIN issued = 1..Len(issued) /\ \A id \in 1..Len(issued) : issued[id] \in S
    BY <2>2
  <2> QED BY <2>1, <2>3
<1>4. DOMAIN issued \subseteq Ids
  BY <1>2, <1>3, Facts DEF Ids
<1>5. \A id \in DOMAIN issued : Owner(id) \in Accounts /\ issued[id].generation \in Ids
  BY <1>3 DEF Owner
<1> QED BY <1>1, <1>3, <1>4, <1>5 DEF Product, Journal

\* The entries of a journal.
LEMMA Entries ==
  ASSUME NEW s \in Seq(Ids), NEW x \in Ids
  PROVE  /\ Append(s, x) \in Seq(Ids) /\ ToSet(Append(s, x)) = ToSet(s) \cup {x}
         /\ ToSet(s) \subseteq Ids
<1>1. /\ Append(s, x) \in Seq(Ids) /\ Len(Append(s, x)) = Len(s) + 1 /\ Len(s) \in Nat
      /\ Append(s, x)[Len(s) + 1] = x
      /\ DOMAIN s = 1..Len(s) /\ DOMAIN Append(s, x) = 1..Len(Append(s, x))
      /\ \A i \in 1..Len(s) : Append(s, x)[i] = s[i] /\ s[i] \in Ids
  OBVIOUS
<1>2. ToSet(s) \cup {x} \subseteq ToSet(Append(s, x))
  <2>1. x \in ToSet(Append(s, x))
    <3>1. Len(s) + 1 \in DOMAIN Append(s, x)
      BY <1>1
    <3> QED BY <1>1, <3>1 DEF ToSet
  <2>2. ASSUME NEW i \in DOMAIN s PROVE s[i] \in ToSet(Append(s, x))
    <3>1. i \in DOMAIN Append(s, x) /\ Append(s, x)[i] = s[i]
      BY <1>1
    <3> QED BY <3>1 DEF ToSet
  <2> QED BY <2>1, <2>2 DEF ToSet
<1>3. ToSet(Append(s, x)) \subseteq ToSet(s) \cup {x}
  <2>1. ASSUME NEW i \in DOMAIN Append(s, x) PROVE Append(s, x)[i] \in ToSet(s) \cup {x}
    <3>1. i = Len(s) + 1 \/ i \in 1..Len(s)
      BY <1>1
    <3> QED BY <1>1, <3>1 DEF ToSet
  <2> QED BY <2>1 DEF ToSet
<1> QED BY <1>1, <1>2, <1>3 DEF ToSet

------------------------------------------------------------------------------
\* What each part of the invariant does not depend on.

LEMMA RowsStay ==
  ASSUME Rows, UNCHANGED <<issued, product, backup>>
  PROVE  Rows'
<1>1. RowsAgree(product)'
  BY DEF Rows, RowsAgree, HeldBy, Owner, ToSet
<1>2. RowsAgree(backup)'
  BY DEF Rows, RowsAgree, HeldBy, Owner, ToSet
<1>3. GenerationsCount'
  BY DEF Rows, GenerationsCount
<1> QED BY <1>1, <1>2, <1>3 DEF Rows

LEMMA CopiesStay ==
  ASSUME CopiesInOrder, UNCHANGED <<issued, journal.a, journal.b, journal.saved, auth>>,
         wire' \subseteq wire
  PROVE  CopiesInOrder'
  BY DEF CopiesInOrder, Owner, ToSet

LEMMA IntentsStay ==
  ASSUME IntentsAgree, UNCHANGED <<issued, product, backup, journal.a>>
  PROVE  IntentsAgree' /\ Intents' = Intents
<1>1. /\ Intents' = Intents /\ ToSet(journal.a)' = ToSet(journal.a)
      /\ HeldBy(backup)' = HeldBy(backup) /\ HeldBy(product)' = HeldBy(product)
      /\ Named(backup.tombstone)' = Named(backup.tombstone)
  BY DEF Intents, ToSet, Named, HeldBy
<1> QED BY <1>1 DEF IntentsAgree, Owner

LEMMA DenialsStay ==
  ASSUME DenialsAreJournaled, UNCHANGED <<product.tombstone, auth, journal.a, journal.b>>,
         serving' => serving
  PROVE  DenialsAreJournaled'
  BY DEF DenialsAreJournaled, ToSet

LEMMA FencesStay ==
  ASSUME FencesHold, UNCHANGED <<issued, user, product.tombstone>>,
         \A w \in Workers : w \in Claiming' => w \in Claiming /\ job'[w].id = job[w].id
  PROVE  FencesHold'
<1>1. \A a \in Accounts : Fenced(a)' => Fenced(a)
  BY DEF Fenced, Claiming, Owner
<1> QED BY <1>1 DEF FencesHold, Shared

LEMMA MadeStay ==
  ASSUME DenialsAreMade, UNCHANGED <<issued, auth, product.tombstone>>,
         wire' \subseteq wire, serving' => serving
  PROVE  DenialsAreMade'
  BY DEF DenialsAreMade, Owner

LEMMA ClaimsStay ==
  ASSUME ClaimsFollow, UNCHANGED <<issued, journal.a, product.seen, product.tombstone>>,
         \A w \in Workers :
            \/ job'[w] = job[w]
            \/ job'[w].at # "claimed" /\ ~job'[w].session
  PROVE  ClaimsFollow'
  BY DEF ClaimsFollow, FollowsClaim, Claiming, Owner

LEMMA JobsStay ==
  ASSUME JobsFollow, UNCHANGED <<issued, product.requests, auth, journal.a, journal.b, job>>
  PROVE  JobsFollow'
<1>1. /\ HeldBy(product)' = HeldBy(product) /\ Claiming' = Claiming
      /\ ToSet(journal.a)' = ToSet(journal.a) /\ ToSet(journal.b)' = ToSet(journal.b)
  BY DEF HeldBy, Claiming, ToSet
<1> QED BY <1>1 DEF JobsFollow, Owner

LEMMA ToolStays ==
  ASSUME ToolFollows,
         UNCHANGED <<issued, product, auth, journal.a, journal.saved, job[Tool], plan>>
  PROVE  ToolFollows'
<1>1. /\ Intents' = Intents /\ ToSet(journal.saved)' = ToSet(journal.saved)
      /\ Named(product.tombstone)' = Named(product.tombstone) /\ Named(auth)' = Named(auth)
  BY DEF Intents, ToSet, Named
<1> QED BY <1>1 DEF ToolFollows, Owner

LEMMA CompletedStay ==
  ASSUME CompletedIsDenied, UNCHANGED <<issued, product.requests, auth>>, serving' => serving
  PROVE  CompletedIsDenied'
  BY DEF CompletedIsDenied, Held, Owner

------------------------------------------------------------------------------
\* Transactions of users.

\* One transaction goes on; nothing else changes.
LEMMA UserGoes ==
  ASSUME Inv, NEW a \in Accounts, NEW u \in User, user' = [user EXCEPT ![a] = u],
         UNCHANGED <<issued, due, product, backup, auth, journal, job, plan, wire, serving>>,
         u.at # "idle" => serving,
         u.at \in {"fenced", "admitted"} => product.tombstone[a] = None /\ ~Fenced(a)
  PROVE  Inv'
<1>1. user \in [Accounts -> User]
  BY DEF Inv, TypeOK
<1>2. TypeOK'
  BY <1>1 DEF Inv, TypeOK
<1>3. Rows' /\ CopiesInOrder' /\ IntentsAgree' /\ DenialsAreJournaled'
  BY RowsStay, CopiesStay, IntentsStay, DenialsStay DEF Inv, Journals
<1>4. JobsFollow' /\ ClaimsFollow' /\ ToolFollows' /\ CompletedIsDenied'
  BY JobsStay, ClaimsStay, ToolStays, CompletedStay DEF Inv, Works
<1>5. OneSideWorks'
  BY <1>1 DEF Inv, Sides, OneSideWorks
<1>6. \A b \in Accounts : Fenced(b)' <=> Fenced(b)
  BY DEF Fenced, Claiming, Owner
<1>7. FencesHold'
  BY <1>1, <1>6 DEF Inv, Sides, FencesHold, Shared
<1>8. DenialsAreMade'
  BY MadeStay DEF Inv, Sides
<1> QED BY <1>2, <1>3, <1>4, <1>5, <1>7, <1>8 DEF Inv, Journals, Sides, Works

LEMMA UserSteps ==
  ASSUME Inv, NEW a \in Accounts,
         Begin(a) \/ Access(a) \/ Admit(a) \/ Leave(a)
  PROVE  Inv'
<1>1. user \in [Accounts -> User] /\ Away \in User
  BY DEF Inv, TypeOK, User, Away
<1>2. user[a].at # "idle" => serving
  BY DEF Inv, Sides, OneSideWorks
<1>3. \A at \in {"idle", "begun", "fenced", "admitted"} : [user[a] EXCEPT !.at = at] \in User
  BY <1>1 DEF User
<1>4. CASE user' = [user EXCEPT ![a] = Away]
           /\ UNCHANGED <<issued, due, product, backup, auth, journal, job, plan, wire, serving>>
  BY <1>1, <1>4, UserGoes DEF Away
<1>5. CASE Begin(a)
  <2>1. PICK u : u = [at |-> "begun", late |-> Active(a) \cap due # {}]
    OBVIOUS
  <2>2. u \in User /\ u.at = "begun"
    BY <2>1 DEF User
  <2>3. user' = [user EXCEPT ![a] = u]
    BY <1>5, <2>1 DEF Begin
  <2> QED BY <1>5, <2>2, <2>3, UserGoes DEF Begin
<1>6. CASE Access(a)
  <2>1. CASE product.tombstone[a] = None
    <3>1. PICK u : u = [user[a] EXCEPT !.at = "fenced"]
      OBVIOUS
    <3>2. u \in User /\ u.at = "fenced"
      BY <1>1, <1>3, <3>1 DEF User
    <3>3. user' = [user EXCEPT ![a] = u]
      BY <1>1, <1>6, <2>1, <3>1 DEF Access, Turn
    <3> QED BY <1>2, <1>6, <2>1, <3>2, <3>3, UserGoes DEF Access
  <2>2. CASE product.tombstone[a] # None
    BY <1>4, <1>6, <2>2 DEF Access, Return
  <2> QED BY <2>1, <2>2
<1>7. CASE Admit(a)
  <2>1. CASE Ready
    <3>1. PICK u : u = [user[a] EXCEPT !.at = "admitted"]
      OBVIOUS
    <3>2. u \in User /\ u.at = "admitted"
      BY <1>1, <1>3, <3>1 DEF User
    <3>3. user' = [user EXCEPT ![a] = u]
      BY <1>1, <1>7, <2>1, <3>1 DEF Admit, Turn
    <3>4. product.tombstone[a] = None /\ ~Fenced(a)
      BY <1>7 DEF Admit, Shared, Inv, Sides, FencesHold
    <3> QED BY <1>2, <1>7, <3>2, <3>3, <3>4, UserGoes DEF Admit
  <2>2. CASE ~Ready
    BY <1>4, <1>7, <2>2 DEF Admit, Return
  <2> QED BY <2>1, <2>2
<1>8. CASE Leave(a)
  BY <1>4, <1>8 DEF Leave, Return
<1> QED BY <1>5, <1>6, <1>7, <1>8

------------------------------------------------------------------------------
\* Requests that turn: leases end, workers finish, users cancel.

\* What becomes of a request without a denial.
Turns(id) ==
    LET old == product.requests[id]  new == product'.requests[id]
    IN  \/ new = old
        \/ /\ old # None /\ new # None
           /\ \/ new.status = old.status
              \/ old.status = "processing" /\ new.status = "blocked"
              \/ /\ old.status = "processing" /\ new.status = "completed"
                 /\ auth[Owner(id)] = id
              \/ /\ old.status = "pending" /\ new.status = "cancelled"
                 /\ \A w \in Claiming : job[w].id # id

\* A worker or a user goes on, or has done.
EachRests ==
    /\ \A a \in Accounts : user'[a] = user[a] \/ user'[a].at = "idle"
    /\ \A w \in Workers : job'[w] = job[w] \/ job'[w] = Resting
    /\ job'[Tool] = job[Tool]

LEMMA RequestsTurn ==
  ASSUME Inv, TypeOK', UNCHANGED <<issued, backup, auth, journal, plan, serving>>,
         wire' \subseteq wire, product'.tombstone = product.tombstone, product'.seen = product.seen,
         \A id \in Ids : Turns(id), EachRests
  PROVE  Inv'
<1>1. /\ product.requests \in [Ids -> Request \cup {None}]
      /\ product.tombstone \in [Accounts -> Ids \cup {None}]
      /\ DOMAIN issued \subseteq Ids /\ \A id \in DOMAIN issued : Owner(id) \in Accounts
  BY Types DEF Inv
<1>2. /\ HeldBy(product)' = HeldBy(product) /\ HeldBy(backup)' = HeldBy(backup)
      /\ \A id : Owner(id)' = Owner(id)
      /\ ToSet(journal.a)' = ToSet(journal.a) /\ ToSet(journal.b)' = ToSet(journal.b)
      /\ ToSet(journal.saved)' = ToSet(journal.saved)
      /\ ToSet(product.seen)' = ToSet(product.seen)
      /\ Intents' = Intents
      /\ Named(product.tombstone)' = Named(product.tombstone)
      /\ Named(backup.tombstone)' = Named(backup.tombstone)
      /\ Named(auth)' = Named(auth)
  BY DEF Turns, HeldBy, Owner, ToSet, Intents, Named
<1>3. \A id \in HeldBy(product) :
         /\ id \in Ids /\ product'.requests[id] # None
         /\ \/ product'.requests[id].status = product.requests[id].status
            \/ product.requests[id].status = "processing" /\ product'.requests[id].status = "blocked"
            \/ /\ product.requests[id].status = "processing" /\ product'.requests[id].status = "completed"
               /\ auth[Owner(id)] = id
            \/ /\ product.requests[id].status = "pending" /\ product'.requests[id].status = "cancelled"
               /\ \A w \in Claiming : job[w].id # id
  BY DEF Turns, HeldBy
<1>4. RowsAgree(product)'
  <2>1. HeldBy(product) \subseteq DOMAIN issued
    BY DEF Inv, Rows, RowsAgree
  <2>2. ASSUME NEW a \in Accounts, product.tombstone[a] # None
        PROVE  /\ product.tombstone[a] \in HeldBy(product) /\ Owner(product.tombstone[a]) = a
               /\ product'.requests[product.tombstone[a]].status \notin {"pending", "cancelled"}
    BY <1>3, <2>2 DEF Inv, Rows, RowsAgree
  <2>3. ASSUME NEW id \in HeldBy(product),
               product'.requests[id].status \in {"processing", "completed", "blocked"}
        PROVE  product.tombstone[Owner(id)] = id
    <3>1. product.requests[id].status \in {"processing", "completed", "blocked"}
      BY <1>3, <2>3
    <3> QED BY <3>1 DEF Inv, Rows, RowsAgree
  <2>4. ASSUME NEW x \in HeldBy(product), NEW y \in HeldBy(product), Owner(x) = Owner(y),
               product'.requests[x].status # "cancelled", product'.requests[y].status # "cancelled"
        PROVE  x = y
    <3>1. product.requests[x].status # "cancelled" /\ product.requests[y].status # "cancelled"
      BY <1>3, <2>4
    <3> QED BY <2>4, <3>1 DEF Inv, Rows, RowsAgree
  <2>5. product.seen # None => \A id \in ToSet(product.seen) :
           id \in DOMAIN issued /\ product.tombstone[Owner(id)] = id
    BY DEF Inv, Rows, RowsAgree
  <2> QED BY <1>2, <2>1, <2>2, <2>3, <2>4, <2>5 DEF RowsAgree
<1>5. RowsAgree(backup)' /\ GenerationsCount'
  BY <1>2 DEF Inv, Rows, RowsAgree, GenerationsCount, ToSet
<1>6. CopiesInOrder' /\ DenialsAreJournaled'
  BY CopiesStay, DenialsStay DEF Inv, Journals
<1>7. IntentsAgree'
  BY <1>2 DEF Inv, Journals, IntentsAgree
<1>8. OneSideWorks'
  BY DEF Inv, Sides, OneSideWorks, EachRests, Resting
<1>9. \A w \in Workers : w \in Claiming' => w \in Claiming /\ job'[w].id = job[w].id
  BY DEF EachRests, Claiming, Resting
<1>10. FencesHold'
  <2>1. \A a \in Accounts : Fenced(a)' => Fenced(a)
    BY <1>2, <1>9 DEF Fenced, Claiming
  <2> QED BY <2>1 DEF Inv, Sides, FencesHold, Shared, EachRests
<1>11. DenialsAreMade' /\ ClaimsFollow'
  BY MadeStay, ClaimsStay DEF EachRests, Resting, Inv, Sides, Works
<1>12. JobsFollow'
  <2>1. ASSUME NEW w \in Workers
        PROVE  /\ job'[w].at # "idle" => job'[w].id \in HeldBy(product)
               /\ w \in Claiming' =>
                     /\ job'[w].at \in {"claimed", "copied", "both", "saved", "durable"}
                     /\ product'.requests[job'[w].id].status # "cancelled"
               /\ job'[w].at = "applied" => auth[Owner(job'[w].id)] = job'[w].id
    <3>1. /\ job'[w].at # "idle" => job'[w] = job[w] /\ job[w].id \in HeldBy(product)
          /\ job[w].at = "applied" => auth[Owner(job[w].id)] = job[w].id
      BY DEF EachRests, Resting, Inv, Works, JobsFollow
    <3>2. ASSUME w \in Claiming'
          PROVE  /\ job'[w].at \in {"claimed", "copied", "both", "saved", "durable"}
                 /\ product'.requests[job'[w].id].status # "cancelled"
      <4>1. w \in Claiming /\ job'[w] = job[w]
        BY <3>2 DEF EachRests, Resting, Claiming
      <4>2. /\ job[w].at \in {"claimed", "copied", "both", "saved", "durable"}
            /\ job[w].id \in HeldBy(product) /\ product.requests[job[w].id].status # "cancelled"
        BY <4>1 DEF Inv, Works, JobsFollow
      <4> QED BY <1>3, <4>1, <4>2
    <3> QED BY <3>1, <3>2
  <2>2. \A w \in Writers : job'[w] = job[w] \/ job'[w].at = "idle"
    BY DEF EachRests, Resting, Writers
  <2>3. \A w \in Writers :
           /\ job'[w].at = "copied" => job'[w].id \in ToSet(journal.a)
           /\ job'[w].at \in {"both", "saved", "durable"} => job'[w].id \in ToSet(journal.b)
    BY <2>2 DEF Inv, Works, JobsFollow
  <2> QED BY <1>2, <2>1, <2>3 DEF JobsFollow
<1>13. ToolFollows'
  <2>1. ToolFollows
    BY DEF Inv, Works
  <2> QED BY <1>2, <2>1 DEF ToolFollows, EachRests
<1>14. CompletedIsDenied'
  <2>1. Held' = HeldBy(product) /\ Held = HeldBy(product)
    BY <1>2 DEF Held, HeldBy
  <2>2. ASSUME serving, NEW id \in HeldBy(product), product'.requests[id].status = "completed"
        PROVE  auth[Owner(id)] = id
    <3>1. product.requests[id].status = "completed" \/ auth[Owner(id)] = id
      BY <1>3, <2>2
    <3> QED BY <2>1, <2>2, <3>1 DEF Inv, Works, CompletedIsDenied
  <2> QED BY <1>2, <2>1, <2>2 DEF CompletedIsDenied
<1> QED BY <1>4, <1>5, <1>6, <1>7, <1>8, <1>10, <1>11, <1>12, <1>13, <1>14
        DEF Inv, Rows, Journals, Sides, Works

LEMMA GraceSteps ==
  ASSUME Inv, NEW id \in Ids, GraceEnds(id)
  PROVE  Inv'
<1>1. TypeOK'
  BY DEF GraceEnds, Inv, TypeOK
<1> QED BY <1>1, RequestsTurn DEF GraceEnds, Turns, EachRests

LEMMA LeaseSteps ==
  ASSUME Inv, NEW id \in Ids, LeaseEnds(id)
  PROVE  Inv'
<1>1. product.requests \in [Ids -> Request \cup {None}] /\ product \in Product
  BY Types DEF Inv, TypeOK
<1>2. PICK r : r = [product.requests[id] EXCEPT !.lease = "over"]
  OBVIOUS
<1>3. product.requests[id] \in Request
  BY <1>1 DEF LeaseEnds, Held
<1>4. r \in Request /\ r.status = product.requests[id].status /\ r # None
  <2>1. r \in Request /\ r.status = product.requests[id].status
    BY <1>2, <1>3 DEF Request
  <2> QED BY <2>1, Facts
<1>5. /\ product'.requests = [product.requests EXCEPT ![id] = r]
      /\ product'.tombstone = product.tombstone /\ product'.seen = product.seen
      /\ product' \in Product
  BY <1>1, <1>2, <1>4 DEF LeaseEnds, Product
<1>6. TypeOK'
  BY <1>5 DEF LeaseEnds, Inv, TypeOK
<1>7. \A x \in Ids : Turns(x)
  BY <1>1, <1>4, <1>5, Facts DEF Turns, LeaseEnds, Held
<1> QED BY <1>5, <1>6, <1>7, RequestsTurn DEF LeaseEnds, EachRests

LEMMA CancelSteps ==
  ASSUME Inv, NEW a \in Accounts, CancelDeletion(a)
  PROVE  Inv'
<1>1. product.requests \in [Ids -> Request \cup {None}] /\ product \in Product
      /\ user \in [Accounts -> User] /\ Away \in User /\ Away.at = "idle"
  BY Types DEF Inv, TypeOK, Away, User
<1>2. PICK rs : rs = [id \in Ids |->
            IF /\ id \in Active(a) /\ product.requests[id].status = "pending"
               /\ ~user[a].late
            THEN [product.requests[id] EXCEPT !.status = "cancelled"]
            ELSE product.requests[id]]
  OBVIOUS
<1>3. ASSUME NEW id \in Ids
      PROVE  \/ rs[id] = product.requests[id]
             \/ /\ id \in Active(a) /\ product.requests[id].status = "pending"
                /\ product.requests[id] \in Request
                /\ rs[id] \in Request /\ rs[id].status = "cancelled"
  <2>1. CASE id \in Active(a) /\ product.requests[id].status = "pending" /\ ~user[a].late
    <3>1. product.requests[id] \in Request
      BY <1>1, <2>1 DEF Active, Held
    <3>2. rs[id] = [product.requests[id] EXCEPT !.status = "cancelled"]
      BY <1>2, <2>1
    <3> QED BY <2>1, <3>1, <3>2 DEF Request
  <2>2. CASE ~(id \in Active(a) /\ product.requests[id].status = "pending" /\ ~user[a].late)
    BY <1>2, <2>2
  <2> QED BY <2>1, <2>2
<1>4. rs \in [Ids -> Request \cup {None}]
  BY <1>1, <1>2, <1>3
<1>5. /\ product'.requests = rs
      /\ product'.tombstone = product.tombstone /\ product'.seen = product.seen
      /\ product' \in Product
  <2>1. product' = [product EXCEPT !.requests = rs]
    BY <1>2 DEF CancelDeletion
  <2> QED BY <1>1, <1>4, <2>1 DEF Product
<1>6. TypeOK'
  BY <1>1, <1>5 DEF CancelDeletion, Return, Inv, TypeOK
<1>7. ASSUME NEW id \in Active(a)
      PROVE  \A w \in Claiming : job[w].id # id
  <2>1. Owner(id) = a
    BY DEF Active
  <2>2. ~Fenced(a)
    BY DEF CancelDeletion, Shared, Inv, Sides, FencesHold
  <2> QED BY <2>1, <2>2 DEF Fenced
<1>8. \A x \in Ids : Turns(x)
  BY <1>3, <1>5, <1>7, Facts DEF Turns
<1>9. EachRests
  BY <1>1 DEF CancelDeletion, Return, EachRests
<1> QED BY <1>5, <1>6, <1>8, <1>9, RequestsTurn DEF CancelDeletion

\* What claim_due does to the requests whose last attempt ran out.
LEMMA BlockedIs ==
  ASSUME NEW rs \in [Ids -> Request \cup {None}]
  PROVE  /\ Blocked(rs) \in [Ids -> Request \cup {None}]
         /\ \A id \in Ids : \/ Blocked(rs)[id] = rs[id]
                            \/ /\ rs[id] \in Request /\ Blocked(rs)[id] \in Request
                               /\ rs[id].status = "processing" /\ Blocked(rs)[id].status = "blocked"
<1>1. ASSUME NEW id \in Ids
      PROVE  \/ Blocked(rs)[id] = rs[id]
             \/ /\ rs[id] \in Request /\ Blocked(rs)[id] \in Request
                /\ rs[id].status = "processing" /\ Blocked(rs)[id].status = "blocked"
  <2>1. PICK b : b <=> /\ rs[id] # None /\ rs[id].status = "processing"
                       /\ rs[id].attempts = MaxAttempts /\ rs[id].lease = "over"
    OBVIOUS
  <2>2. CASE ~b
    BY <2>1, <2>2 DEF Blocked
  <2>3. CASE b
    <3>1. rs[id] \in Request /\ rs[id].status = "processing"
      BY <2>1, <2>3
    <3>2. Blocked(rs)[id] = [rs[id] EXCEPT !.status = "blocked", !.lease = "none"]
      BY <2>1, <2>3 DEF Blocked
    <3> QED BY <3>1, <3>2 DEF Request
  <2> QED BY <2>2, <2>3
<1>2. Blocked(rs) = [id \in Ids |-> Blocked(rs)[id]]
  BY DEF Blocked
<1>3. Blocked(rs) \in [Ids -> Request \cup {None}]
  BY <1>1, <1>2
<1> QED BY <1>1, <1>3

------------------------------------------------------------------------------
\* Workers.

\* One worker goes on; nothing else changes but the lock directories.
LEMMA WorkerGoes ==
  ASSUME Inv, NEW w \in Workers, NEW j \in Job, job' = [job EXCEPT ![w] = j],
         UNCHANGED <<issued, due, product, backup, auth, user, plan, wire, serving>>,
         UNCHANGED <<journal.a, journal.b, journal.saved>>, journal' \in Journal,
         j.at \notin {"planned", "denied", "done"},
         j.at # "idle" => serving /\ j.id \in HeldBy(product),
         j.session => /\ j.at \in {"claimed", "copied", "both", "saved", "durable"}
                      /\ product.requests[j.id].status # "cancelled" /\ ~Shared(Owner(j.id))
                      /\ Claiming \subseteq {w},
         FollowsClaim(j),
         j.at = "applied" => auth[Owner(j.id)] = j.id,
         j.at = "copied" => j.id \in ToSet(journal.a),
         j.at \in {"both", "saved", "durable"} => j.id \in ToSet(journal.b)
  PROVE  Inv'
<1>1. job \in [Writers -> Job] /\ w \in Writers /\ Tool \notin Workers /\ Workers \subseteq Writers
  BY Facts DEF Inv, TypeOK
<1>2. \A v \in Writers : job'[v] = IF v = w THEN j ELSE job[v]
  BY <1>1
<1>3. TypeOK'
  BY <1>1 DEF Inv, TypeOK
<1>4. Rows' /\ CopiesInOrder' /\ IntentsAgree' /\ DenialsAreJournaled'
  BY RowsStay, CopiesStay, IntentsStay, DenialsStay DEF Inv, Journals
<1>5. job'[Tool] = job[Tool]
  BY <1>1, <1>2, Facts
<1>6. OneSideWorks'
  BY <1>1, <1>2, <1>5 DEF Inv, Sides, OneSideWorks
<1>7. FencesHold'
  <2>1. ASSUME NEW a \in Accounts, Shared(a), Fenced(a)' PROVE Fenced(a)
    <3>1. PICK v \in Claiming' : Owner(job'[v].id) = a
      BY <2>1 DEF Fenced, Owner
    <3>2. v \in Workers /\ job'[v].session
      BY DEF Claiming
    <3>3. v # w
      BY <1>1, <1>2, <2>1, <3>1, <3>2
    <3>4. job'[v] = job[v]
      BY <1>1, <1>2, <3>2, <3>3
    <3> QED BY <3>1, <3>2, <3>4 DEF Fenced, Claiming
  <2> QED BY <2>1 DEF Inv, Sides, FencesHold, Shared
<1>8. DenialsAreMade'
  BY MadeStay DEF Inv, Sides
<1>9. JobsFollow'
  <2>1. /\ HeldBy(product)' = HeldBy(product) /\ \A id : Owner(id)' = Owner(id)
        /\ ToSet(journal.a)' = ToSet(journal.a) /\ ToSet(journal.b)' = ToSet(journal.b)
    BY DEF HeldBy, Owner, ToSet
  <2>2. ASSUME NEW v \in Workers
        PROVE  /\ job'[v].at # "idle" => job'[v].id \in HeldBy(product)
               /\ v \in Claiming' =>
                     /\ job'[v].at \in {"claimed", "copied", "both", "saved", "durable"}
                     /\ product.requests[job'[v].id].status # "cancelled"
               /\ job'[v].at = "applied" => auth[Owner(job'[v].id)] = job'[v].id
    <3>1. CASE v = w
      BY <1>1, <1>2, <3>1 DEF Claiming
    <3>2. CASE v # w
      BY <1>1, <1>2, <3>2 DEF Claiming, Inv, Works, JobsFollow
    <3> QED BY <3>1, <3>2
  <2>3. ASSUME NEW v \in Writers
        PROVE  /\ job'[v].at = "copied" => job'[v].id \in ToSet(journal.a)
               /\ job'[v].at \in {"both", "saved", "durable"} => job'[v].id \in ToSet(journal.b)
    BY <1>2 DEF Inv, Works, JobsFollow
  <2> QED BY <2>1, <2>2, <2>3 DEF JobsFollow
<1>10. ToolFollows' /\ CompletedIsDenied'
  BY <1>5, ToolStays, CompletedStay DEF Inv, Works
<1>11. ClaimsFollow'
  <2>1. \A v \in Workers : FollowsClaim(job[v])
    BY DEF Inv, Works, ClaimsFollow
  <2>2. \A v \in Workers : FollowsClaim(job'[v])
    BY <1>1, <1>2, <2>1
  <2>3. ASSUME NEW v \in Workers PROVE FollowsClaim(job[v])'
    BY <2>2 DEF FollowsClaim, Owner
  <2>4. \A u, v \in Claiming' : u = v
    BY <1>1, <1>2 DEF Inv, Works, ClaimsFollow, Claiming
  <2> QED BY <2>3, <2>4 DEF ClaimsFollow
<1> QED BY <1>3, <1>4, <1>6, <1>7, <1>8, <1>9, <1>10, <1>11 DEF Inv, Journals, Sides, Works

\* What is known of a worker.
LEMMA WorkerIs ==
  ASSUME Inv, NEW w \in Workers
  PROVE  /\ job \in [Writers -> Job] /\ w \in Writers /\ w # Tool /\ job[w] \in Job
         /\ Resting \in Job /\ Resting.at = "idle" /\ ~Resting.session /\ FollowsClaim(Resting)
         /\ FollowsClaim(job[w]) /\ (w \in Claiming => Claiming \subseteq {w})
         /\ job[w].at # "idle" => /\ serving /\ job[w].id \in HeldBy(product)
                                  /\ job[w].id \in DOMAIN issued /\ job[w].id \in Ids
                                  /\ Owner(job[w].id) \in Accounts
                                  /\ product.requests[job[w].id] \in Request
         /\ w \in Claiming => /\ job[w].at \in {"claimed", "copied", "both", "saved", "durable"}
                              /\ product.requests[job[w].id].status # "cancelled"
                              /\ ~Shared(Owner(job[w].id))
         /\ product.requests \in [Ids -> Request \cup {None}] /\ product \in Product
         /\ journal \in Journal
<1>1. job \in [Writers -> Job] /\ w \in Writers /\ w # Tool /\ product \in Product /\ journal \in Journal
  BY Facts DEF Inv, TypeOK
<1>2. /\ Resting \in Job /\ Resting.at = "idle" /\ ~Resting.session /\ FollowsClaim(Resting)
      /\ FollowsClaim(job[w]) /\ (w \in Claiming => Claiming \subseteq {w})
  <2>1. 0 \in 0 .. MaxAttempts
    BY BoundsAssumption
  <2>2. Resting \in Job /\ Resting.at = "idle" /\ ~Resting.session
    BY <2>1 DEF Resting, Job
  <2>3. FollowsClaim(job[w]) /\ (w \in Claiming => Claiming \subseteq {w})
    BY DEF Inv, Works, ClaimsFollow
  <2> QED BY <2>2, <2>3 DEF FollowsClaim
<1>3. job[w].at # "idle" => serving /\ job[w].id \in HeldBy(product)
  BY DEF Inv, Sides, OneSideWorks, Works, JobsFollow
<1>4. product.requests \in [Ids -> Request \cup {None}]
      /\ \A id \in DOMAIN issued : id \in Ids /\ Owner(id) \in Accounts
  BY Types DEF Inv
<1>5. \A id \in HeldBy(product) : id \in DOMAIN issued /\ product.requests[id] \in Request
  BY <1>4 DEF HeldBy, Inv, Rows, RowsAgree
<1>6. w \in Claiming => /\ product.requests[job[w].id].status # "cancelled" /\ job[w].at # "idle"
                        /\ job[w].at \in {"claimed", "copied", "both", "saved", "durable"}
  BY DEF Inv, Works, JobsFollow, Claiming
<1>7. ASSUME w \in Claiming PROVE ~Shared(Owner(job[w].id))
  <2>1. Owner(job[w].id) \in Accounts
    BY <1>3, <1>4, <1>5, <1>6, <1>7
  <2>2. Fenced(Owner(job[w].id))
    BY <1>7 DEF Fenced
  <2> QED BY <2>1, <2>2 DEF Inv, Sides, FencesHold
<1> QED BY <1>1, <1>2, <1>3, <1>4, <1>5, <1>6, <1>7

\* An account is denied for the request in force, or not at all.
LEMMA ActiveIsDenied ==
  ASSUME Inv, NEW id \in HeldBy(product), product.requests[id].status # "cancelled"
  PROVE  product.tombstone[Owner(id)] \in {None, id}
<1> DEFINE t == product.tombstone[Owner(id)]
<1>1. Owner(id) \in Accounts
  BY Types DEF Inv, Rows, RowsAgree
<1>2. ASSUME t # None PROVE t = id
  <2>1. t \in HeldBy(product) /\ Owner(t) = Owner(id) /\ product.requests[t].status # "cancelled"
    BY <1>1, <1>2 DEF Inv, Rows, RowsAgree
  <2> QED BY <2>1 DEF Inv, Rows, RowsAgree
<1> QED BY <1>2

LEMMA ClaimSteps ==
  ASSUME Inv, NEW w \in Workers, Claim(w)
  PROVE  Inv'
<1>1. CASE \E id \in Candidates :
              /\ ~Shared(Owner(id))
              /\ job' = [job EXCEPT ![w] = [at |-> "claimed", id |-> id,
                              attempt |-> product.requests[id].attempts + 1,
                              session |-> TRUE, expected |-> Len(journal.saved)]]
              /\ UNCHANGED product
  <2>1. PICK id \in Candidates :
              /\ ~Shared(Owner(id))
              /\ job' = [job EXCEPT ![w] = [at |-> "claimed", id |-> id,
                              attempt |-> product.requests[id].attempts + 1,
                              session |-> TRUE, expected |-> Len(journal.saved)]]
    BY <1>1
  <2>2. id \in HeldBy(product) /\ id \in Ids /\ product.requests[id].status # "cancelled"
        /\ product.requests[id].attempts < MaxAttempts
    BY DEF Candidates, Held, HeldBy
  <2>3. product.requests[id].attempts + 1 \in 0 .. MaxAttempts
    <3>1. product.requests[id] \in Request
      BY <2>2, WorkerIs DEF HeldBy
    <3>2. product.requests[id].attempts \in 0 .. MaxAttempts
      BY <3>1 DEF Request
    <3> QED BY <2>2, <3>2, BoundsAssumption
  <2>4. PICK j : j = [at |-> "claimed", id |-> id, attempt |-> product.requests[id].attempts + 1,
                      session |-> TRUE, expected |-> Len(journal.saved)]
    OBVIOUS
  <2>5. /\ j.at = "claimed" /\ j.id = id /\ j.session /\ j.expected = Len(journal.saved)
        /\ j \in Job /\ Len(journal.saved) \in Nat
    <3>1. Len(journal.saved) \in Nat
      <4>1. journal.saved \in Seq(Ids)
        BY Types DEF Inv
      <4> QED BY <4>1
    <3> QED BY <2>2, <2>3, <2>4, <3>1 DEF Job
  <2>6. journal' \in Journal
    BY WorkerIs DEF Claim
  <2>7. FollowsClaim(j)
    <3>1. product.seen = journal.a /\ journal.saved = journal.a
      BY DEF Claim, Ready, Agreed
    <3>2. product.tombstone[Owner(id)] \in {None, id}
      BY <2>2, ActiveIsDenied
    <3> QED BY <2>5, <3>1, <3>2 DEF FollowsClaim
  <2> QED BY <1>1, <2>1, <2>2, <2>4, <2>5, <2>6, <2>7, WorkerGoes DEF Claim
<1>2. CASE product' = [product EXCEPT !.requests = Blocked(@)] /\ UNCHANGED job
  <2>1. PICK rs : rs = Blocked(product.requests)
    OBVIOUS
  <2>2. /\ rs \in [Ids -> Request \cup {None}]
        /\ \A id \in Ids : \/ rs[id] = product.requests[id]
                           \/ /\ product.requests[id] \in Request /\ rs[id] \in Request
                              /\ product.requests[id].status = "processing" /\ rs[id].status = "blocked"
    BY <2>1, WorkerIs, BlockedIs
  <2>3. /\ product'.requests = rs /\ product' \in Product
        /\ product'.tombstone = product.tombstone /\ product'.seen = product.seen
    BY <1>2, <2>1, <2>2, WorkerIs DEF Product
  <2>4. TypeOK'
    BY <1>2, <2>3 DEF Claim, Inv, TypeOK
  <2>5. \A id \in Ids : Turns(id)
    BY <2>2, <2>3, Facts DEF Turns
  <2> QED BY <1>2, <2>3, <2>4, <2>5, RequestsTurn DEF Claim, EachRests
<1> QED BY <1>1, <1>2 DEF Claim

LEMMA FinishSteps ==
  ASSUME Inv, NEW w \in Workers, Finish(w)
  PROVE  Inv'
<1> DEFINE id == job[w].id
<1>1. /\ id \in Ids /\ id \in HeldBy(product) /\ product.requests[id] \in Request
      /\ product.requests \in [Ids -> Request \cup {None}] /\ product \in Product
      /\ job \in [Writers -> Job] /\ w \in Writers /\ w # Tool /\ Resting \in Job /\ Resting.at = "idle"
  BY WorkerIs DEF Finish
<1>2. job[w].at = "applied" => auth[Owner(id)] = id
  BY DEF Inv, Works, JobsFollow
<1>3. \/ product' = product
      \/ /\ product.requests[id].status = "processing"
         /\ \E r \in Request :
               /\ product' = [product EXCEPT !.requests[id] = r]
               /\ \/ r.status = "completed" /\ job[w].at = "applied"
                  \/ r.status = "blocked"
                  \/ r.status = "processing"
  <2>1. PICK r : r = product.requests[id]
    OBVIOUS
  <2>0. r \in Request
    BY <1>1, <2>1
  <2>2. ASSUME NEW n, NEW status \in {"completed", "blocked"},
               n = [r EXCEPT !.status = status, !.lease = "none"]
        PROVE  n \in Request /\ n.status = status
    BY <2>0, <2>2 DEF Request
  <2>5. ASSUME NEW n, n = [r EXCEPT !.lease = "none"]
        PROVE  n \in Request /\ n.status = r.status
    BY <2>0, <2>5 DEF Request
  <2>3. CASE r.status = "processing" /\ r.lease = "live" /\ r.attempts = job[w].attempt
    <3>1. PICK v : v = CASE job[w].at = "applied" -> Completed(r)
                         [] job[w].at = "failed" /\ r.attempts = MaxAttempts ->
                               [r EXCEPT !.status = "blocked", !.lease = "none"]
                         [] OTHER -> [r EXCEPT !.lease = "none"]
      OBVIOUS
    <3>2. product' = [product EXCEPT !.requests[id] = v]
      BY <2>1, <2>3, <3>1 DEF Finish
    <3>3. job[w].at = "applied" \/ job[w].at = "failed"
      BY DEF Finish
    <3>4. CASE job[w].at = "applied"
      <4>1. v = [r EXCEPT !.status = "completed", !.lease = "none"]
        BY <3>1, <3>4 DEF Completed
      <4>2. v \in Request /\ v.status = "completed"
        BY <2>2, <4>1
      <4> QED BY <2>1, <2>3, <3>2, <3>4, <4>2
    <3>5. CASE job[w].at = "failed" /\ r.attempts = MaxAttempts
      <4>1. v = [r EXCEPT !.status = "blocked", !.lease = "none"]
        <5>1. job[w].at # "applied"
          BY <3>5
        <5> QED BY <3>1, <3>5, <5>1
      <4>2. v \in Request /\ v.status = "blocked"
        BY <2>2, <4>1
      <4> QED BY <2>1, <2>3, <3>2, <4>2
    <3>6. CASE job[w].at = "failed" /\ r.attempts # MaxAttempts
      <4>1. v = [r EXCEPT !.lease = "none"]
        <5>1. job[w].at # "applied"
          BY <3>6
        <5> QED BY <3>1, <3>6, <5>1
      <4>2. v \in Request /\ v.status = "processing"
        BY <2>3, <2>5, <4>1
      <4> QED BY <2>1, <2>3, <3>2, <4>2
    <3> QED BY <3>3, <3>4, <3>5, <3>6
  <2>4. CASE ~(r.status = "processing" /\ r.lease = "live" /\ r.attempts = job[w].attempt)
    BY <2>1, <2>4 DEF Finish
  <2> QED BY <2>3, <2>4
<1>4. job' = [job EXCEPT ![w] = Resting] /\ job' \in [Writers -> Job]
  BY <1>1 DEF Finish
<1>5. EachRests
  BY <1>1, <1>4, Facts DEF Finish, EachRests
<1>6. CASE product' = product
  <2>1. TypeOK'
    BY <1>4, <1>6 DEF Finish, Inv, TypeOK
  <2> QED BY <1>5, <1>6, <2>1, RequestsTurn DEF Finish, Turns
<1>7. ASSUME product.requests[id].status = "processing", NEW r \in Request,
             product' = [product EXCEPT !.requests[id] = r],
             \/ r.status = "completed" /\ job[w].at = "applied"
             \/ r.status = "blocked"
             \/ r.status = "processing"
      PROVE  Inv'
  <2>1. /\ product'.requests = [product.requests EXCEPT ![id] = r]
        /\ product'.tombstone = product.tombstone /\ product'.seen = product.seen
        /\ product' \in Product
    BY <1>1, <1>7 DEF Product
  <2>2. TypeOK'
    BY <1>4, <2>1 DEF Finish, Inv, TypeOK
  <2>3. ASSUME NEW x \in Ids PROVE Turns(x)
    <3>1. CASE x # id
      BY <1>1, <2>1, <3>1 DEF Turns
    <3>2. CASE x = id
      <4>1. product'.requests[x] = r /\ r # None /\ product.requests[x] # None
        BY <1>1, <2>1, <3>2, Facts
      <4> QED BY <1>2, <1>7, <3>2, <4>1 DEF Turns
    <3> QED BY <3>1, <3>2
  <2> QED BY <1>5, <2>1, <2>2, <2>3, RequestsTurn DEF Finish
<1> QED BY <1>3, <1>6, <1>7

------------------------------------------------------------------------------
\* New requests.

\* All that is denied, or was ever written, was issued.
LEMMA Known ==
  ASSUME Inv
  PROVE  /\ HeldBy(product) \subseteq DOMAIN issued /\ HeldBy(backup) \subseteq DOMAIN issued
         /\ ToSet(journal.a) \subseteq DOMAIN issued /\ ToSet(journal.b) \subseteq DOMAIN issued
         /\ ToSet(journal.saved) \subseteq DOMAIN issued
         /\ Named(product.tombstone) \subseteq DOMAIN issued
         /\ Named(backup.tombstone) \subseteq DOMAIN issued
         /\ Named(auth) \subseteq DOMAIN issued
         /\ Intents \subseteq DOMAIN issued
         /\ \A a \in Accounts : product.tombstone[a] # None =>
               product.tombstone[a] \in DOMAIN issued /\ Owner(product.tombstone[a]) = a
         /\ \A a \in Accounts : backup.tombstone[a] # None =>
               backup.tombstone[a] \in DOMAIN issued /\ Owner(backup.tombstone[a]) = a
         /\ \A a \in Accounts : auth[a] # None => auth[a] \in DOMAIN issued /\ Owner(auth[a]) = a
<1>1. HeldBy(product) \subseteq DOMAIN issued /\ HeldBy(backup) \subseteq DOMAIN issued
  BY DEF Inv, Rows, RowsAgree
<1>2. /\ ToSet(journal.a) \subseteq DOMAIN issued /\ ToSet(journal.b) \subseteq DOMAIN issued
      /\ ToSet(journal.saved) \subseteq DOMAIN issued
  BY DEF Inv, Journals, CopiesInOrder
<1>3. /\ \A a \in Accounts : product.tombstone[a] # None =>
               product.tombstone[a] \in DOMAIN issued /\ Owner(product.tombstone[a]) = a
      /\ \A a \in Accounts : backup.tombstone[a] # None =>
               backup.tombstone[a] \in DOMAIN issued /\ Owner(backup.tombstone[a]) = a
  BY DEF Inv, Rows, RowsAgree
<1>4. \A a \in Accounts : auth[a] # None => auth[a] \in DOMAIN issued /\ Owner(auth[a]) = a
  BY <1>2 DEF Inv, Journals, CopiesInOrder
<1> QED BY <1>1, <1>2, <1>3, <1>4 DEF Named, Intents

LEMMA GreatestIs ==
  ASSUME NEW n \in Nat, NEW S \in SUBSET (0..n), S # {}
  PROVE  Max(S) \in S
<1> DEFINE T == {n - x : x \in S}
<1>1. T \subseteq Nat /\ T # {}
  <2>1. \A x \in S : x \in Nat /\ x <= n
    OBVIOUS
  <2>2. \A x \in S : n - x \in Nat
    BY <2>1
  <2> QED BY <2>2
<1>2. PICK d \in T : \A y \in T : ~(<<y, d>> \in OpToRel(<, Nat))
  BY <1>1, NatLessThanWellFounded, WFMin
<1>3. \A y \in T : ~(y < d)
  BY <1>1, <1>2 DEF OpToRel
<1>4. PICK m \in S : d = n - m
  OBVIOUS
<1>5. ASSUME NEW x \in S PROVE m >= x
  <2>1. ~(n - x < n - m)
    BY <1>3, <1>4
  <2>2. x \in Nat /\ m \in Nat
    OBVIOUS
  <2> QED BY <2>1, <2>2
<1> QED BY <1>5 DEF Max

LEMMA GenerationIs ==
  ASSUME Inv, NEW a \in Accounts
  PROVE  Generation(a) \in 1 .. Len(issued) + 1
<1> DEFINE S == {issued[id].generation : id \in {x \in Held : Owner(x) = a}} \cup {0}
<1>1. Len(issued) \in Nat /\ DOMAIN issued = 1..Len(issued)
      /\ \A id \in DOMAIN issued : issued[id].generation \in Nat
  BY Types, Facts DEF Inv
<1>2. Held \subseteq DOMAIN issued
  BY Known DEF Held, HeldBy
<1>3. \A id \in DOMAIN issued : issued[id].generation \in 0..Len(issued)
  BY <1>1 DEF Inv, Rows, GenerationsCount
<1>4. S \in SUBSET (0..Len(issued)) /\ S # {}
  BY <1>1, <1>2, <1>3
<1> HIDE DEF S
<1>5. Max(S) \in 0..Len(issued)
  BY <1>1, <1>4, GreatestIs
<1>6. Generation(a) = 1 + Max(S)
  BY DEF Generation, S
<1> QED BY <1>1, <1>5, <1>6

LEMMA RequestSteps ==
  ASSUME Inv, NEW a \in Accounts, RequestDeletion(a)
  PROVE  Inv'
<1>1. user \in [Accounts -> User] /\ Away \in User /\ Away.at = "idle"
  BY DEF Inv, TypeOK, User, Away
<1>2. CASE UNCHANGED <<issued, product>>
  BY <1>1, <1>2, UserGoes DEF RequestDeletion, Return
<1>3. CASE /\ Active(a) = {} /\ Len(issued) < MaxRequests
           /\ issued' = Append(issued, [account |-> a, generation |-> Generation(a)])
           /\ product' = [product EXCEPT !.requests[Len(issued')] = Pending]
  <2>1. PICK e : e = [account |-> a, generation |-> Generation(a)]
    OBVIOUS
  <2>2. PICK n : n = Len(issued) + 1
    OBVIOUS
  <2>3. /\ Len(issued) \in Nat /\ DOMAIN issued = 1..Len(issued) /\ DOMAIN issued \subseteq Ids
        /\ \A id \in DOMAIN issued : Owner(id) \in Accounts /\ issued[id].generation \in Ids
    BY Types DEF Inv
  <2>4. n \in Ids /\ n \notin DOMAIN issued /\ n \in Nat
    BY <1>3, <2>2, <2>3, Facts DEF Ids
  <2>5. /\ Generation(a) \in Ids /\ Generation(a) <= n
        /\ e \in [account: Accounts, generation: Ids] /\ e.account = a /\ e.generation <= n
    <3>1. Generation(a) \in 1..n
      BY <2>2, GenerationIs
    <3>2. Generation(a) \in Ids /\ Generation(a) <= n
      BY <3>1, <2>4, Facts DEF Ids
    <3> QED BY <3>2, <2>1
  <2>6. /\ issued' \in Seq([account: Accounts, generation: Ids]) /\ Len(issued') = n
        /\ DOMAIN issued' = DOMAIN issued \cup {n}
        /\ issued'[n] = e /\ \A id \in DOMAIN issued : issued'[id] = issued[id]
    <3>1. PICK S : S = [account: Accounts, generation: Ids]
      OBVIOUS
    <3>2. issued \in Seq(S) /\ e \in S /\ issued' = Append(issued, e)
      BY <1>3, <2>1, <2>5, <3>1 DEF Inv, TypeOK
    <3>3. issued' \in Seq(S) /\ Len(issued') = n
      BY <2>2, <3>2
    <3>4. DOMAIN issued' = 1..n
      BY <3>3
    <3>5. issued'[n] = e /\ \A id \in 1..Len(issued) : issued'[id] = issued[id]
      BY <2>2, <3>2
    <3> QED BY <2>2, <2>3, <3>1, <3>3, <3>4, <3>5
  <2>7. /\ Owner(n)' = a /\ \A id \in DOMAIN issued : Owner(id)' = Owner(id)
    BY <2>5, <2>6 DEF Owner
  <2>8. Pending \in Request /\ Pending.status = "pending" /\ Pending # None
    <3>1. Pending \in Request /\ Pending.status = "pending"
      BY BoundsAssumption DEF Pending, Request
    <3> QED BY <3>1, Facts
  <2>9. /\ product \in Product /\ product.requests \in [Ids -> Request \cup {None}]
    BY Types DEF Inv, TypeOK
  <2>10. /\ product'.requests = [product.requests EXCEPT ![n] = Pending]
         /\ product'.tombstone = product.tombstone /\ product'.seen = product.seen
         /\ product' \in Product
    <3>1. product' = [product EXCEPT !.requests[n] = Pending]
      BY <1>3, <2>6
    <3> QED BY <2>8, <2>9, <3>1 DEF Product
  <2>11. TypeOK'
    <3>1. Len(issued') <= MaxRequests /\ due' \subseteq DOMAIN issued'
      BY <2>4, <2>6, Facts DEF Ids, RequestDeletion, Inv, TypeOK
    <3>2. user' \in [Accounts -> User]
      BY <1>1 DEF RequestDeletion, Return
    <3> QED BY <2>6, <2>10, <3>1, <3>2 DEF RequestDeletion, Inv, TypeOK
  <2>12. /\ HeldBy(product)' = HeldBy(product) \cup {n} /\ HeldBy(backup)' = HeldBy(backup)
         /\ product'.requests[n] = Pending
         /\ \A id \in DOMAIN issued : product'.requests[id] = product.requests[id]
         /\ ToSet(journal.a)' = ToSet(journal.a) /\ ToSet(journal.b)' = ToSet(journal.b)
         /\ ToSet(journal.saved)' = ToSet(journal.saved)
         /\ ToSet(product.seen)' = ToSet(product.seen) /\ ToSet(backup.seen)' = ToSet(backup.seen)
         /\ Intents' = Intents
         /\ Named(product.tombstone)' = Named(product.tombstone)
         /\ Named(backup.tombstone)' = Named(backup.tombstone)
         /\ Named(auth)' = Named(auth)
    <3>1. HeldBy(product)' = HeldBy(product) \cup {n}
      BY <2>4, <2>8, <2>9, <2>10 DEF HeldBy
    <3>2. product'.requests[n] = Pending
         /\ \A id \in DOMAIN issued : product'.requests[id] = product.requests[id]
      BY <2>3, <2>4, <2>9, <2>10
    <3> QED BY <2>10, <3>1, <3>2 DEF RequestDeletion, HeldBy, ToSet, Intents, Named
  <2>13. \A x \in HeldBy(product) : Owner(x) = a => product.requests[x].status = "cancelled"
    BY <1>3 DEF Active, Held, HeldBy
  <2>14. RowsAgree(product)'
    <3>1. ASSUME NEW b \in Accounts, product.tombstone[b] # None
          PROVE  /\ product.tombstone[b] \in HeldBy(product)' /\ Owner(product.tombstone[b])' = b
                 /\ product'.requests[product.tombstone[b]].status \notin {"pending", "cancelled"}
      <4>1. /\ product.tombstone[b] \in HeldBy(product) /\ Owner(product.tombstone[b]) = b
            /\ product.requests[product.tombstone[b]].status \notin {"pending", "cancelled"}
        BY <3>1 DEF Inv, Rows, RowsAgree
      <4> QED BY <2>7, <2>10, <2>12, <4>1, Known
    <3>2. ASSUME NEW id \in HeldBy(product)',
                 product'.requests[id].status \in {"processing", "completed", "blocked"}
          PROVE  product.tombstone[Owner(id)'] = id
      <4>1. id \in HeldBy(product) /\ id \in DOMAIN issued
        BY <2>8, <2>12, <3>2, Known
      <4> QED BY <2>7, <2>12, <3>2, <4>1 DEF Inv, Rows, RowsAgree
    <3>3. ASSUME NEW x \in HeldBy(product)', NEW y \in HeldBy(product)', Owner(x)' = Owner(y)',
                 product'.requests[x].status # "cancelled", product'.requests[y].status # "cancelled"
          PROVE  x = y
      <4>1. CASE x \in HeldBy(product) /\ y \in HeldBy(product)
        BY <2>7, <2>12, <3>3, <4>1, Known DEF Inv, Rows, RowsAgree
      <4>2. CASE x = n /\ y \in HeldBy(product)
        BY <2>7, <2>12, <2>13, <3>3, <4>2, Known
      <4>3. CASE x \in HeldBy(product) /\ y = n
        BY <2>7, <2>12, <2>13, <3>3, <4>3, Known
      <4> QED BY <2>12, <4>1, <4>2, <4>3
    <3>4. product.seen # None => \A id \in ToSet(product.seen) :
             id \in DOMAIN issued' /\ product.tombstone[Owner(id)'] = id
      BY <2>6, <2>7 DEF Inv, Rows, RowsAgree
    <3> QED BY <2>6, <2>10, <2>12, <3>1, <3>2, <3>3, <3>4, Known DEF RowsAgree
  <2>15. RowsAgree(backup)'
    <3>1. backup' = backup
      BY DEF RequestDeletion
    <3>2. RowsAgree(backup)
      BY DEF Inv, Rows
    <3>3. HeldBy(backup) \subseteq DOMAIN issued
      BY Known
    <3> QED BY <2>6, <2>7, <2>12, <3>1, <3>2, <3>3 DEF RowsAgree
  <2>16. GenerationsCount'
    BY <2>5, <2>6 DEF Inv, Rows, GenerationsCount
  <2>17. CopiesInOrder'
    BY <2>6, <2>7, <2>12, Known DEF RequestDeletion, Inv, Journals, CopiesInOrder
  <2>18. IntentsAgree'
    <3>1. \A x, y \in Intents : Owner(x)' = Owner(y)' => x = y
      BY <2>7, Known DEF Inv, Journals, IntentsAgree
    <3>2. Named(backup.tombstone) \subseteq Intents
      BY DEF Inv, Journals, IntentsAgree
    <3> QED BY <2>12, <3>1, <3>2 DEF IntentsAgree
  <2>19. DenialsAreJournaled'
    BY <2>10, DenialsStay DEF RequestDeletion, Inv, Journals
  <2>20. /\ user' = [user EXCEPT ![a] = Away] /\ job' = job /\ serving' = serving /\ wire' = wire
         /\ serving /\ job[Tool].at = "idle"
    BY DEF RequestDeletion, Return, Inv, Sides, OneSideWorks
  <2>21. OneSideWorks'
    BY <1>1, <2>10, <2>20 DEF Inv, Sides, OneSideWorks
  <2>22. \A b \in Accounts : user'[b] = user[b] \/ user'[b].at = "idle"
    BY <1>1, <2>20
  <2>23. /\ Claiming' = Claiming
         /\ \A w \in Workers : job[w].at # "idle" =>
               job[w].id \in HeldBy(product) /\ job[w].id \in DOMAIN issued
         /\ \A w \in Claiming : job[w].at # "idle"
    BY <2>20, Known DEF Claiming, Inv, Works, JobsFollow
  <2>24. FencesHold'
    <3>1. ASSUME NEW b \in Accounts, Shared(b)' PROVE product'.tombstone[b] = None /\ ~Fenced(b)'
      <4>1. Shared(b)
        BY <2>22, <3>1 DEF Shared
      <4>2. product.tombstone[b] = None /\ ~Fenced(b)
        BY <4>1 DEF Inv, Sides, FencesHold
      <4>3. Fenced(b)' => Fenced(b)
        BY <2>7, <2>20, <2>23 DEF Fenced, Claiming
      <4> QED BY <2>10, <4>2, <4>3
    <3> QED BY <3>1 DEF FencesHold
  <2>25. DenialsAreMade'
    <3>1. auth' = auth /\ \A id \in wire : id \in DOMAIN issued
      BY Known DEF RequestDeletion, Inv, Journals, CopiesInOrder
    <3> QED BY <2>7, <2>10, <2>20, <3>1 DEF Inv, Sides, DenialsAreMade
  <2>26. JobsFollow'
    <3>1. \A w \in Workers :
          /\ job[w].at # "idle" => job[w].id \in HeldBy(product)'
          /\ w \in Claiming =>
                /\ job[w].at \in {"claimed", "copied", "both", "saved", "durable"}
                /\ product'.requests[job[w].id].status # "cancelled"
          /\ job[w].at = "applied" => auth[Owner(job[w].id)'] = job[w].id
      BY <2>7, <2>12, <2>20, <2>23 DEF Claiming, Inv, Works, JobsFollow
    <3>2. auth' = auth
      BY DEF RequestDeletion
    <3> QED BY <2>12, <2>20, <2>23, <3>1, <3>2 DEF Inv, Works, JobsFollow
  <2>27. ToolFollows'
    BY <2>20 DEF ToolFollows
  <2>28. CompletedIsDenied'
    <3>1. Held' = HeldBy(product) \cup {n} /\ Held = HeldBy(product)
      BY <2>12 DEF Held, HeldBy
    <3>2. auth' = auth
      BY DEF RequestDeletion
    <3> QED BY <2>7, <2>8, <2>12, <2>20, <3>1, <3>2, Known DEF Inv, Works, CompletedIsDenied
  <2>29. ClaimsFollow'
    <3>1. journal' = journal
      BY DEF RequestDeletion
    <3>2. ASSUME NEW w \in Workers PROVE FollowsClaim(job[w])'
      <4>1. FollowsClaim(job[w])
        BY DEF Inv, Works, ClaimsFollow
      <4>2. job[w].at = "claimed" => Owner(job[w].id)' = Owner(job[w].id)
        BY <2>7, <2>20, <2>23
      <4> QED BY <2>10, <2>20, <3>1, <4>1, <4>2 DEF FollowsClaim
    <3> QED BY <2>23, <3>2 DEF Inv, Works, ClaimsFollow
  <2> QED BY <2>11, <2>14, <2>15, <2>16, <2>17, <2>18, <2>19, <2>21, <2>24, <2>25, <2>26, <2>27, <2>28, <2>29
          DEF Inv, Rows, Journals, Sides, Works
<1> QED BY <1>2, <1>3 DEF RequestDeletion

------------------------------------------------------------------------------
\* Writing to the journal.

\* Whoever writes, writes of a request that was issued.
LEMMA WriterIs ==
  ASSUME Inv, NEW w \in Writers, job[w].at \in {"claimed", "copied", "both", "saved"}
  PROVE  /\ job \in [Writers -> Job] /\ job[w] \in Job /\ journal \in Journal
         /\ job[w].id \in DOMAIN issued /\ job[w].id \in Ids
         /\ w \in Workers => serving /\ w # Tool /\ job[w].id \in HeldBy(product)
         /\ w \notin Workers => /\ w = Tool /\ ~serving
                                /\ job[w].id \in plan /\ job[w].id \in Intents
         /\ job[w].at # "claimed" => job[w].id \in ToSet(journal.a)
         /\ job[w].at \notin {"claimed", "copied"} => job[w].id \in ToSet(journal.b)
<1>1. job \in [Writers -> Job] /\ job[w] \in Job /\ journal \in Journal /\ DOMAIN issued \subseteq Ids
  BY Types DEF Inv, TypeOK
<1>2. /\ job[w].at # "claimed" => job[w].id \in ToSet(journal.a)
      /\ job[w].at \notin {"claimed", "copied"} => job[w].id \in ToSet(journal.b)
  BY DEF Inv, Works, JobsFollow, Journals, CopiesInOrder
<1>3. CASE w \in Workers
  BY <1>1, <1>2, <1>3, WorkerIs
<1>4. CASE w \notin Workers
  <2>1. w = Tool /\ ~serving
    BY <1>4 DEF Writers, Inv, Sides, OneSideWorks
  <2>2. job[w].id \in plan /\ plan \subseteq Intents
    BY <2>1 DEF Inv, Works, ToolFollows
  <2>3. job[w].id \in DOMAIN issued
    BY <2>2, Known
  <2> QED BY <1>1, <1>2, <1>4, <2>1, <2>2, <2>3
<1> QED BY <1>3, <1>4

\* One more frame of one copy, or none.
LEMMA Written ==
  ASSUME Inv, NEW w \in Writers, NEW step,
         \/ job[w].at = "claimed" /\ step = "copied"
         \/ job[w].at = "copied" /\ step = "both"
         \/ job[w].at = "both" /\ step = "saved"
         \/ job[w].at = "saved" /\ step = IF w = Tool THEN "planned" ELSE "durable",
         job' = [job EXCEPT ![w].at = step], journal' \in Journal,
         UNCHANGED <<issued, due, product, backup, auth, user, plan, wire, serving>>,
         ToSet(journal.a)' = ToSet(journal.a) \cup {job[w].id},
         ToSet(journal.b)' = IF step = "copied" THEN ToSet(journal.b)
                             ELSE ToSet(journal.b) \cup {job[w].id},
         \/ ToSet(journal.saved)' = ToSet(journal.saved)
         \/ ToSet(journal.saved)' = ToSet(journal.saved) \cup {job[w].id} /\ step = "saved",
         \A y \in Intents : Owner(y) = Owner(job[w].id) => y = job[w].id,
         \/ step # "copied" /\ journal'.a = journal.a
         \/ /\ step = "copied" /\ Len(journal'.a) = Len(journal.a) + 1
            /\ w \in Workers => product.seen = journal.a
  PROVE  Inv'
<1>1. PICK id : id = job[w].id
  OBVIOUS
<1>2. /\ job[w].at \in {"claimed", "copied", "both", "saved"}
      /\ step \in {"copied", "both", "saved", "planned", "durable"}
      /\ w = Tool => step # "durable"
      /\ w # Tool => step # "planned"
  OBVIOUS
<1>3. /\ job \in [Writers -> Job] /\ job[w] \in Job
      /\ id \in DOMAIN issued /\ id \in Ids
      /\ w \in Workers => serving /\ w # Tool /\ id \in HeldBy(product)
      /\ w \notin Workers => w = Tool /\ ~serving /\ id \in plan /\ id \in Intents
  BY <1>1, <1>2, WriterIs
<1>4. /\ \A v \in Writers : v # w => job'[v] = job[v]
      /\ job'[w] \in Job /\ job'[w].at = step /\ job'[w].id = id
      /\ job'[w].session = job[w].session
  <2>1. job'[w] = [job[w] EXCEPT !.at = step] /\ \A v \in Writers : v # w => job'[v] = job[v]
    BY <1>3
  <2> QED BY <1>1, <1>2, <1>3, <2>1 DEF Job
<1>5. TypeOK'
  <2>1. job' \in [Writers -> Job]
    BY <1>3, <1>4
  <2> QED BY <2>1 DEF Inv, TypeOK
<1>6. Rows'
  BY RowsStay DEF Inv
<1>7. /\ \A x : Owner(x)' = Owner(x)
      /\ HeldBy(product)' = HeldBy(product) /\ HeldBy(backup)' = HeldBy(backup)
      /\ Named(product.tombstone)' = Named(product.tombstone)
      /\ Named(backup.tombstone)' = Named(backup.tombstone) /\ Named(auth)' = Named(auth)
      /\ Intents' = Intents \cup {id}
  BY <1>1 DEF Owner, HeldBy, Named, Intents
<1>8. CopiesInOrder'
  BY <1>1, <1>2, <1>3, <1>7 DEF Inv, Journals, CopiesInOrder
<1>9. IntentsAgree'
  <2>1. \A x, y \in Intents \cup {id} : Owner(x) = Owner(y) => x = y
    BY <1>1 DEF Inv, Journals, IntentsAgree
  <2>2. Named(backup.tombstone) \subseteq Intents
    BY DEF Inv, Journals, IntentsAgree
  <2> QED BY <1>7, <2>1, <2>2 DEF IntentsAgree
<1>10. DenialsAreJournaled'
  BY <1>2 DEF Inv, Journals, DenialsAreJournaled
<1>11. OneSideWorks'
  <2>1. CASE w \in Workers
    <3>1. job'[Tool] = job[Tool]
      BY <1>3, <1>4, <2>1, Facts
    <3>2. ASSUME NEW v \in Workers
          PROVE  job'[v].at \notin {"planned", "denied", "done"}
      <4>1. CASE v = w
        BY <1>2, <1>3, <1>4, <2>1, <4>1
      <4>2. CASE v # w
        BY <1>4, <4>2, Facts DEF Inv, Sides, OneSideWorks
      <4> QED BY <4>1, <4>2
    <3> QED BY <1>3, <2>1, <3>1, <3>2 DEF Inv, Sides, OneSideWorks
  <2>2. CASE w \notin Workers
    <3>1. w = Tool /\ ~serving /\ \A v \in Workers : job'[v] = job[v]
      BY <1>3, <1>4, <2>2, Facts
    <3>2. job'[Tool].at \notin {"durable", "calling", "applied", "failed"}
      BY <1>2, <1>4, <3>1
    <3> QED BY <3>1, <3>2 DEF Inv, Sides, OneSideWorks
  <2> QED BY <2>1, <2>2
<1>12. \A v \in Workers : job'[v].id = job[v].id /\ job'[v].session = job[v].session
  BY <1>1, <1>4, Facts
<1>13. Claiming' = Claiming /\ FencesHold'
  <2>1. Claiming' = Claiming
    BY <1>12 DEF Claiming
  <2> QED BY <1>12, <2>1, FencesStay DEF Inv, Sides
<1>14. DenialsAreMade'
  BY MadeStay DEF Inv, Sides
<1>15. JobsFollow'
  <2>1. ASSUME NEW v \in Workers
        PROVE  /\ job'[v].at # "idle" => job'[v].id \in HeldBy(product)
               /\ v \in Claiming =>
                     /\ job'[v].at \in {"claimed", "copied", "both", "saved", "durable"}
                     /\ product.requests[job'[v].id].status # "cancelled"
               /\ job'[v].at = "applied" => auth[Owner(job'[v].id)] = job'[v].id
    <3>1. CASE v = w
      <4>1. v \in Claiming => product.requests[id].status # "cancelled"
        BY <1>1, <3>1 DEF Inv, Works, JobsFollow
      <4> QED BY <1>2, <1>3, <1>4, <3>1, <4>1
    <3>2. CASE v # w
      <4>1. job'[v] = job[v]
        BY <1>4, <3>2, Facts
      <4> QED BY <4>1 DEF Inv, Works, JobsFollow
    <3> QED BY <3>1, <3>2
  <2>2. ASSUME NEW v \in Writers
        PROVE  /\ job'[v].at = "copied" => job'[v].id \in ToSet(journal.a)'
               /\ job'[v].at \in {"both", "saved", "durable"} => job'[v].id \in ToSet(journal.b)'
    <3>1. CASE v = w
      BY <1>1, <1>2, <1>4, <3>1
    <3>2. CASE v # w
      <4>1. job'[v] = job[v]
        BY <1>4, <3>2
      <4> QED BY <4>1 DEF Inv, Works, JobsFollow
    <3> QED BY <3>1, <3>2
  <2> QED BY <1>7, <1>12, <1>13, <2>1, <2>2 DEF JobsFollow
<1>16. ClaimsFollow'
  <2>1. ASSUME NEW v \in Workers PROVE FollowsClaim(job[v])'
    <3>1. FollowsClaim(job[v]) /\ Len(journal.a) \in Nat /\ job[v].expected \in Nat
      <4>1. job[v] \in Job /\ journal.a \in Seq(Ids)
        BY Types, Facts DEF Inv
      <4>2. Len(journal.a) \in Nat
        BY <4>1
      <4> QED BY <4>1, <4>2 DEF Job, Inv, Works, ClaimsFollow
    <3>2. \/ job'[v] = job[v]
          \/ v = w /\ job'[v].at # "claimed" /\ job'[v].session = job[v].session
      BY <1>2, <1>4, Facts
    <3>3. CASE step # "copied" /\ journal'.a = journal.a
      <4>1. v = w => job[v].at # "claimed"
        BY <3>3
      <4> QED BY <3>1, <3>2, <3>3, <4>1 DEF FollowsClaim, Owner
    <3>4. CASE step = "copied" /\ Len(journal'.a) = Len(journal.a) + 1 /\ w \in Workers
      <4>1. product.seen = journal.a
        BY <3>4
      <4> QED BY <3>1, <3>2, <3>4, <4>1 DEF FollowsClaim, Owner
    <3>5. CASE w \notin Workers
      <4>1. job'[v] = job[v] /\ job[v].at = "idle" /\ v \notin Claiming
        BY <1>3, <3>2, <3>5 DEF Inv, Sides, OneSideWorks, Works, JobsFollow
      <4> QED BY <4>1 DEF FollowsClaim, Claiming
    <3> QED BY <3>3, <3>4, <3>5
  <2> QED BY <1>13, <2>1 DEF Inv, Works, ClaimsFollow
<1>17. ToolFollows'
  <2>1. CASE w \in Workers
    <3>1. job'[Tool].at = "idle"
      BY <1>3, <1>4, <2>1, Facts DEF Inv, Sides, OneSideWorks
    <3> QED BY <3>1 DEF ToolFollows
  <2>2. CASE w \notin Workers
    <3>1. w = Tool /\ id \in plan /\ plan \subseteq Intents
      BY <1>2, <1>3, <2>2 DEF Inv, Works, ToolFollows
    <3>2. \A x \in (ToSet(journal.saved) \cup Named(product.tombstone) \cup Named(auth)) \ plan :
                /\ x \in ToSet(journal.saved)
                /\ product.tombstone[Owner(x)] = x /\ auth[Owner(x)] = x
      BY <1>2, <3>1 DEF Inv, Works, ToolFollows
    <3>3. \A x \in (ToSet(journal.saved)' \cup Named(product.tombstone) \cup Named(auth)) \ plan :
                /\ x \in ToSet(journal.saved)'
                /\ product.tombstone[Owner(x)] = x /\ auth[Owner(x)] = x
      BY <1>1, <3>1, <3>2
    <3>4. job'[Tool].at = step /\ step \notin {"denied", "done"} /\ job'[Tool].id = id
      BY <1>2, <1>4, <3>1
    <3> QED BY <1>7, <3>1, <3>3, <3>4 DEF ToolFollows
  <2> QED BY <2>1, <2>2
<1>18. CompletedIsDenied'
  BY CompletedStay DEF Inv, Works
<1> QED BY <1>5, <1>6, <1>8, <1>9, <1>10, <1>11, <1>13, <1>14, <1>15, <1>16, <1>17, <1>18
        DEF Inv, Journals, Sides, Works

LEMMA WriteSteps ==
  ASSUME Inv, NEW w \in Writers, CopyFirst(w) \/ CopySecond(w) \/ SaveCheckpoint(w) \/ Unlock(w)
  PROVE  Inv'
<1>1. job[w].at \in {"claimed", "copied", "both", "saved"}
  BY DEF CopyFirst, CopySecond, SaveCheckpoint, Unlock
<1>2. /\ journal \in Journal /\ job[w].id \in Ids
      /\ journal.a \in Seq(Ids) /\ journal.b \in Seq(Ids) /\ journal.saved \in Seq(Ids)
  BY <1>1, WriterIs, Types DEF Inv
<1>3. /\ \A s \in Seq(Ids) : Append(s, job[w].id) \in Seq(Ids)
      /\ \A s \in Seq(Ids) : ToSet(Append(s, job[w].id)) = ToSet(s) \cup {job[w].id}
  BY <1>2, Entries
<1>4. ASSUME job[w].id \in Intents
      PROVE  \A y \in Intents : Owner(y) = Owner(job[w].id) => y = job[w].id
  BY <1>4 DEF Inv, Journals, IntentsAgree
<1>5. job[w].at # "claimed" => job[w].id \in ToSet(journal.a) /\ job[w].id \in Intents
  BY <1>1, WriterIs DEF Intents
<1>6. job[w].at \notin {"claimed", "copied"} => job[w].id \in ToSet(journal.b)
  BY <1>1, WriterIs
<1>0. /\ ToSet(journal.a)' = ToSet(journal'.a) /\ ToSet(journal.b)' = ToSet(journal'.b)
      /\ ToSet(journal.saved)' = ToSet(journal'.saved)
  BY DEF ToSet
<1>7. CASE CopyFirst(w)
  <2>1. /\ journal'.a = Append(journal.a, job[w].id) /\ journal'.b = journal.b
        /\ journal'.saved = journal.saved /\ journal' \in Journal
    BY <1>2, <1>3, <1>7 DEF CopyFirst, Journal
  <2>2. /\ ToSet(journal.a)' = ToSet(journal.a) \cup {job[w].id}
        /\ ToSet(journal.b)' = ToSet(journal.b) /\ ToSet(journal.saved)' = ToSet(journal.saved)
    BY <1>0, <1>2, <1>3, <2>1
  <2>3. ASSUME w \in Workers
        PROVE  product.seen = journal.a /\ product.tombstone[Owner(job[w].id)] \in {None, job[w].id}
    BY <1>7, <2>3 DEF CopyFirst, Inv, Works, ClaimsFollow, FollowsClaim
  <2>4. ASSUME w \in Workers, NEW y \in Intents, Owner(y) = Owner(job[w].id) PROVE y = job[w].id
    <3>1. product.seen # None
      BY <1>1, <2>4, WriterIs DEF Inv, Sides, OneSideWorks
    <3>2. y # None
      BY <2>4, Known, Types, Facts DEF Inv
    <3>3. product.tombstone[Owner(y)] = y
      <4>1. CASE y \in ToSet(journal.a)
        BY <2>3, <2>4, <3>1, <4>1 DEF Inv, Rows, RowsAgree
      <4>2. CASE y \in Named(product.tombstone)
        BY <4>2 DEF Named, Inv, Rows, RowsAgree
      <4> QED BY <2>4, <4>1, <4>2 DEF Intents
    <3> QED BY <2>3, <2>4, <3>2, <3>3
  <2>5. \A y \in Intents : Owner(y) = Owner(job[w].id) => y = job[w].id
    BY <1>1, <1>4, <2>4, WriterIs
  <2>6. Len(journal'.a) = Len(journal.a) + 1
    BY <1>2, <2>1
  <2> QED BY <1>7, <2>1, <2>2, <2>3, <2>5, <2>6, Written DEF CopyFirst, Go
<1>8. CASE CopySecond(w)
  <2>1. /\ journal'.a = journal.a /\ journal'.b = Append(journal.b, job[w].id)
        /\ journal'.saved = journal.saved /\ journal' \in Journal
    BY <1>2, <1>3, <1>8 DEF CopySecond, Journal
  <2>2. /\ ToSet(journal.a)' = ToSet(journal.a) \cup {job[w].id}
        /\ ToSet(journal.b)' = ToSet(journal.b) \cup {job[w].id}
        /\ ToSet(journal.saved)' = ToSet(journal.saved)
    <3>1. job[w].id \in ToSet(journal.a)
      BY <1>5, <1>8 DEF CopySecond
    <3> QED BY <1>0, <1>2, <1>3, <2>1, <3>1
  <2> QED BY <1>4, <1>5, <1>8, <2>1, <2>2, Written DEF CopySecond, Go
<1>9. CASE SaveCheckpoint(w)
  <2>1. /\ journal'.a = journal.a /\ journal'.b = journal.b
        /\ journal'.saved = Append(journal.saved, job[w].id) /\ journal' \in Journal
    BY <1>2, <1>3, <1>9 DEF SaveCheckpoint, Journal
  <2>2. /\ ToSet(journal.a)' = ToSet(journal.a) \cup {job[w].id}
        /\ ToSet(journal.b)' = ToSet(journal.b) \cup {job[w].id}
        /\ ToSet(journal.saved)' = ToSet(journal.saved) \cup {job[w].id}
    <3>1. job[w].id \in ToSet(journal.a) /\ job[w].id \in ToSet(journal.b)
      BY <1>5, <1>6, <1>9 DEF SaveCheckpoint
    <3> QED BY <1>0, <1>2, <1>3, <2>1, <3>1
  <2> QED BY <1>4, <1>5, <1>9, <2>1, <2>2, Written DEF SaveCheckpoint, Go
<1>10. CASE Unlock(w)
  <2>1. /\ journal'.a = journal.a /\ journal'.b = journal.b
        /\ journal'.saved = journal.saved /\ journal' \in Journal
    BY <1>2, <1>10 DEF Unlock, Journal
  <2>2. /\ ToSet(journal.a)' = ToSet(journal.a) \cup {job[w].id}
        /\ ToSet(journal.b)' = ToSet(journal.b) \cup {job[w].id}
        /\ ToSet(journal.saved)' = ToSet(journal.saved)
    <3>1. job[w].id \in ToSet(journal.a) /\ job[w].id \in ToSet(journal.b)
      BY <1>5, <1>6, <1>10 DEF Unlock
    <3> QED BY <1>0, <2>1, <3>1
  <2>3. PICK step : step = IF w = Tool THEN "planned" ELSE "durable"
    OBVIOUS
  <2>4. job[w].at = "saved" /\ job' = [job EXCEPT ![w].at = step] /\ step # "copied"
    BY <1>10, <2>3 DEF Unlock, Go
  <2> QED BY <1>4, <1>5, <1>10, <2>1, <2>2, <2>3, <2>4, Written DEF Unlock
<1> QED BY <1>7, <1>8, <1>9, <1>10

------------------------------------------------------------------------------
\* The tool goes on, or rests, without changing either database.

LEMMA ToolGoes ==
  ASSUME Inv, NEW j \in Job, job' = [job EXCEPT ![Tool] = j], ~serving,
         UNCHANGED <<issued, due, product, backup, auth, user, wire, serving>>,
         UNCHANGED <<journal.a, journal.b, journal.saved>>, journal' \in Journal,
         plan' \subseteq Ids,
         j.at \in {"idle", "claimed", "planned", "denied"}, ToolFollows'
  PROVE  Inv'
<1>1. job \in [Writers -> Job] /\ Tool \in Writers /\ Tool \notin Workers /\ Workers \subseteq Writers
  BY Facts DEF Inv, TypeOK
<1>2. job'[Tool] = j /\ \A v \in Writers : v # Tool => job'[v] = job[v]
  BY <1>1
<1>3. \A v \in Workers : job'[v] = job[v]
  BY <1>1, <1>2
<1>4. TypeOK'
  BY <1>1 DEF Inv, TypeOK
<1>5. Rows' /\ CopiesInOrder' /\ IntentsAgree' /\ DenialsAreJournaled'
  BY RowsStay, CopiesStay, IntentsStay, DenialsStay DEF Inv, Journals
<1>6. OneSideWorks'
  BY <1>2, <1>3 DEF Inv, Sides, OneSideWorks
<1>7. FencesHold'
  BY <1>3, FencesStay DEF Claiming, Inv, Sides
<1>8. DenialsAreMade' /\ ClaimsFollow' /\ CompletedIsDenied'
  BY <1>3, MadeStay, ClaimsStay, CompletedStay DEF Inv, Sides, Works
<1>9. JobsFollow'
  <2>1. /\ HeldBy(product)' = HeldBy(product) /\ Claiming' = Claiming
        /\ \A x : Owner(x)' = Owner(x)
        /\ ToSet(journal.a)' = ToSet(journal.a) /\ ToSet(journal.b)' = ToSet(journal.b)
    BY <1>3 DEF HeldBy, Claiming, Owner, ToSet
  <2>2. ASSUME NEW v \in Writers
        PROVE  /\ job'[v].at = "copied" => job'[v].id \in ToSet(journal.a)
               /\ job'[v].at \in {"both", "saved", "durable"} => job'[v].id \in ToSet(journal.b)
    BY <1>2 DEF Inv, Works, JobsFollow
  <2> QED BY <1>3, <2>1, <2>2 DEF Inv, Works, JobsFollow
<1> QED BY <1>4, <1>5, <1>6, <1>7, <1>8, <1>9 DEF Inv, Journals, Sides, Works

LEMMA FallSteps ==
  ASSUME Inv, NEW w \in Writers, Fail(w) \/ Crash(w)
  PROVE  Inv'
<1>1. /\ job[w].at # "idle" /\ job' = [job EXCEPT ![w] = Resting]
      /\ plan' = (IF w = Tool THEN {} ELSE plan)
      /\ UNCHANGED <<issued, due, product, backup, auth, user, wire, serving>>
  BY DEF Fail, Crash
<1>2. /\ journal' \in Journal /\ journal'.a = journal.a /\ journal'.b = journal.b
      /\ journal'.saved = journal.saved
  <2>1. journal \in Journal
    BY DEF Inv, TypeOK
  <2>2. journal' = journal \/ journal' = [journal EXCEPT !.locked = FALSE]
    BY DEF Fail, Crash
  <2> QED BY <2>1, <2>2 DEF Journal
<1>3. Resting \in Job /\ Resting.at = "idle"
  <2>1. 0 \in 0 .. MaxAttempts
    BY BoundsAssumption
  <2> QED BY <2>1 DEF Resting, Job
<1>4. CASE w \in Workers
  BY <1>1, <1>2, <1>4, WorkerIs, WorkerGoes, Facts
<1>5. CASE w \notin Workers
  <2>1. w = Tool
    BY <1>5 DEF Writers
  <2>2. ~serving /\ job'[Tool].at = "idle" /\ plan' = {}
    BY <1>1, <1>3, <2>1 DEF Inv, TypeOK, Sides, OneSideWorks
  <2>3. ToolFollows'
    BY <2>2 DEF ToolFollows
  <2> QED BY <1>1, <1>2, <1>3, <2>1, <2>2, <2>3, ToolGoes
<1> QED BY <1>4, <1>5

------------------------------------------------------------------------------
\* The call to the other service.

LEMMA TimeOutSteps ==
  ASSUME Inv, NEW w \in Workers, TimeOut(w)
  PROVE  Inv'
<1>1. PICK j : j = [job[w] EXCEPT !.at = "failed"]
  OBVIOUS
<1>2. /\ job \in [Writers -> Job] /\ w \in Writers /\ job[w] \in Job /\ journal \in Journal
      /\ serving /\ job[w].id \in HeldBy(product)
  BY WorkerIs DEF TimeOut
<1>3. j \in Job /\ j.at = "failed" /\ j.id = job[w].id /\ j.session = job[w].session
  BY <1>1, <1>2 DEF Job
<1>4. job' = [job EXCEPT ![w] = j]
  BY <1>1, <1>2 DEF TimeOut, Go
<1>5. ~j.session
  BY <1>3 DEF TimeOut, Claiming, Inv, Works, JobsFollow
<1>6. FollowsClaim(j)
  BY <1>3, <1>5 DEF FollowsClaim
<1> QED BY <1>2, <1>3, <1>4, <1>5, <1>6, WorkerGoes DEF TimeOut

\* A claim without its session is like the claim it was, but fences nothing.
LEMMA LoseSessionSteps ==
  ASSUME Inv, NEW w \in Workers, LoseSession(w)
  PROVE  Inv'
<1>1. PICK j : j = [job[w] EXCEPT !.session = FALSE]
  OBVIOUS
<1>2. /\ job \in [Writers -> Job] /\ w \in Writers /\ job[w] \in Job /\ journal \in Journal
      /\ FollowsClaim(job[w])
      /\ job[w].at # "idle" => serving /\ job[w].id \in HeldBy(product)
  BY WorkerIs
<1>3. /\ j \in Job /\ j.at = job[w].at /\ j.id = job[w].id
      /\ j.expected = job[w].expected /\ ~j.session
  BY <1>1, <1>2 DEF Job
<1>4. job' = [job EXCEPT ![w] = j]
  BY <1>1, <1>2 DEF LoseSession
<1>5. FollowsClaim(j)
  BY <1>2, <1>3 DEF FollowsClaim
<1>6. /\ job[w].at \in {"claimed", "copied", "both", "saved", "durable"}
      /\ job[w].at = "copied" => job[w].id \in ToSet(journal.a)
      /\ job[w].at \in {"both", "saved", "durable"} => job[w].id \in ToSet(journal.b)
  BY <1>2 DEF LoseSession, Inv, Works, JobsFollow
<1> QED BY <1>2, <1>3, <1>4, <1>5, <1>6, WorkerGoes DEF LoseSession

LEMMA LoseSteps ==
  ASSUME Inv, NEW id \in Ids, Lose(id)
  PROVE  Inv'
<1>1. TypeOK'
  BY DEF Lose, Inv, TypeOK
<1>2. \A x \in Ids : Turns(x)
  BY DEF Lose, Turns
<1> QED BY <1>1, <1>2, RequestsTurn DEF Lose, EachRests

LEMMA ApplySteps ==
  ASSUME Inv, NEW id \in Ids, Apply(id)
  PROVE  Inv'
<1>1. PICK o : o = Owner(id)
  OBVIOUS
<1>2. /\ id \in ToSet(journal.a) /\ id \in ToSet(journal.b) /\ id \in DOMAIN issued
      /\ o \in Accounts /\ id # None /\ auth \in [Accounts -> Ids \cup {None}]
      /\ job \in [Writers -> Job]
  <2>1. id \in ToSet(journal.a) /\ id \in ToSet(journal.b) /\ id \in DOMAIN issued
    BY DEF Apply, Inv, Journals, CopiesInOrder
  <2> QED BY <1>1, <2>1, Types, Facts DEF Inv, TypeOK
<1>3. /\ auth[o] \in {id, None} /\ auth' = [auth EXCEPT ![o] = id] /\ wire' = wire \ {id}
      /\ UNCHANGED <<issued, due, product, backup, journal, user, plan, serving>>
  BY <1>1 DEF Apply, Denies
<1>4. /\ auth'[o] = id /\ \A a \in Accounts : a # o => auth'[a] = auth[a]
      /\ \A a \in Accounts : auth[a] # None => auth'[a] = auth[a]
  BY <1>2, <1>3
<1>5. serving /\ job[Tool].at = "idle"
  BY DEF Apply, Inv, Sides, OneSideWorks
<1>6. \/ job' = job
      \/ \E w \in Workers :
            /\ job[w].at = "calling" /\ job[w].id = id
            /\ job' = [job EXCEPT ![w].at = "applied"]
  BY DEF Apply, Go
<1>7. /\ job' \in [Writers -> Job] /\ job'[Tool] = job[Tool]
      /\ \A v \in Workers : \/ job'[v] = job[v]
                            \/ /\ job[v].at = "calling" /\ job[v].id = id
                               /\ job'[v].at = "applied" /\ job'[v].id = id
                               /\ ~job'[v].session
  <2>1. CASE job' = job
    BY <1>2, <2>1
  <2>2. ASSUME NEW w \in Workers, job[w].at = "calling", job[w].id = id,
               job' = [job EXCEPT ![w].at = "applied"]
        PROVE  <1>7!:
    <3>1. PICK j : j = [job[w] EXCEPT !.at = "applied"]
      OBVIOUS
    <3>2. w \in Writers /\ w # Tool /\ job[w] \in Job
      BY <1>2, Facts
    <3>3. j \in Job /\ j.at = "applied" /\ j.id = id /\ ~j.session
      <4>1. ~job[w].session
        BY <2>2 DEF Claiming, Inv, Works, JobsFollow
      <4> QED BY <2>2, <3>1, <3>2, <4>1 DEF Job
    <3>4. job' = [job EXCEPT ![w] = j]
      BY <1>2, <2>2, <3>1, <3>2
    <3> QED BY <1>2, <2>2, <3>2, <3>3, <3>4, Facts
  <2> QED BY <1>6, <2>1, <2>2
<1>8. TypeOK'
  BY <1>2, <1>3, <1>7 DEF Inv, TypeOK
<1>9. /\ \A x : Owner(x)' = Owner(x)
      /\ HeldBy(product)' = HeldBy(product) /\ Held' = Held
      /\ ToSet(journal.a)' = ToSet(journal.a) /\ ToSet(journal.b)' = ToSet(journal.b)
      /\ ToSet(journal.saved)' = ToSet(journal.saved)
  BY <1>3 DEF Owner, HeldBy, Held, ToSet
<1>10. Rows' /\ IntentsAgree'
  BY <1>3, RowsStay, IntentsStay DEF Inv, Journals
<1>11. CopiesInOrder'
  <2>1. ASSUME NEW a \in Accounts, auth'[a] # None
        PROVE  auth'[a] \in ToSet(journal.a) /\ Owner(auth'[a]) = a
    <3>1. CASE a = o
      BY <1>1, <1>2, <1>4, <3>1
    <3>2. CASE a # o
      BY <1>4, <2>1, <3>2 DEF Inv, Journals, CopiesInOrder
    <3> QED BY <3>1, <3>2
  <2>2. wire' \subseteq ToSet(journal.b)
    BY <1>3 DEF Inv, Journals, CopiesInOrder
  <2> QED BY <1>3, <1>9, <2>1, <2>2 DEF Inv, Journals, CopiesInOrder
<1>12. DenialsAreJournaled'
  BY <1>2, <1>3, <1>4, <1>5, <1>9 DEF Inv, Journals, DenialsAreJournaled
<1>13. OneSideWorks'
  BY <1>3, <1>5, <1>7 DEF Inv, Sides, OneSideWorks
<1>14. FencesHold'
  <2>1. \A v \in Workers : v \in Claiming' => v \in Claiming /\ job'[v].id = job[v].id
    BY <1>7 DEF Claiming
  <2> QED BY <1>3, <2>1, FencesStay DEF Inv, Sides
<1>15. DenialsAreMade' /\ ClaimsFollow'
  <2>1. product.tombstone[o] = id
    BY <1>1, <1>5 DEF Apply, Inv, Sides, DenialsAreMade
  <2>2. DenialsAreMade'
    BY <1>3, <1>4, <1>9, <2>1 DEF Inv, Sides, DenialsAreMade
  <2>3. ASSUME NEW v \in Workers
        PROVE  \/ job'[v] = job[v]
               \/ job'[v].at # "claimed" /\ ~job'[v].session
    BY <1>7
  <2> QED BY <1>3, <2>2, <2>3, ClaimsStay DEF Inv, Works
<1>16. JobsFollow'
  <2>1. ASSUME NEW v \in Workers
        PROVE  /\ job'[v].at # "idle" => job'[v].id \in HeldBy(product)
               /\ v \in Claiming' =>
                     /\ job'[v].at \in {"claimed", "copied", "both", "saved", "durable"}
                     /\ product.requests[job'[v].id].status # "cancelled"
               /\ job'[v].at = "applied" => auth'[Owner(job'[v].id)] = job'[v].id
    <3>1. CASE job'[v] = job[v]
      <4>1. /\ job[v].at # "idle" => job[v].id \in HeldBy(product)
            /\ v \in Claiming =>
                  /\ job[v].at \in {"claimed", "copied", "both", "saved", "durable"}
                  /\ product.requests[job[v].id].status # "cancelled"
            /\ job[v].at = "applied" => auth[Owner(job[v].id)] = job[v].id
        BY DEF Inv, Works, JobsFollow
      <4>2. v \in Claiming' => v \in Claiming
        BY <3>1 DEF Claiming
      <4>3. job[v].at # "idle" => Owner(job[v].id) \in Accounts /\ job[v].id # None
        BY WorkerIs, Facts
      <4> QED BY <1>4, <3>1, <4>1, <4>2, <4>3
    <3>2. CASE /\ job[v].at = "calling" /\ job[v].id = id
               /\ job'[v].at = "applied" /\ job'[v].id = id /\ ~job'[v].session
      <4>1. id \in HeldBy(product)
        BY <3>2 DEF Inv, Works, JobsFollow
      <4>2. v \notin Claiming'
        BY <3>2 DEF Claiming
      <4> QED BY <1>1, <1>4, <3>2, <4>1, <4>2
    <3> QED BY <1>7, <3>1, <3>2
  <2>2. ASSUME NEW v \in Writers
        PROVE  /\ job'[v].at = "copied" => job'[v].id \in ToSet(journal.a)
               /\ job'[v].at \in {"both", "saved", "durable"} => job'[v].id \in ToSet(journal.b)
    <3>1. job'[v] = job[v] \/ job'[v].at = "applied"
      BY <1>7 DEF Writers
    <3> QED BY <3>1 DEF Inv, Works, JobsFollow
  <2> QED BY <1>3, <1>9, <2>1, <2>2 DEF JobsFollow
<1>17. ToolFollows'
  BY <1>5, <1>7 DEF ToolFollows
<1>18. CompletedIsDenied'
  <2>1. ASSUME NEW x \in Held, product.requests[x].status = "completed"
        PROVE  auth'[Owner(x)] = x
    <3>1. auth[Owner(x)] = x
      BY <1>5, <2>1 DEF Inv, Works, CompletedIsDenied
    <3>2. Owner(x) \in Accounts /\ x # None
      BY Known, Types, Facts DEF Inv, Held, HeldBy
    <3> QED BY <1>4, <3>1, <3>2
  <2> QED BY <1>3, <1>9, <2>1 DEF CompletedIsDenied
<1> QED BY <1>8, <1>10, <1>11, <1>12, <1>13, <1>14, <1>15, <1>16, <1>17, <1>18
        DEF Inv, Journals, Sides, Works

------------------------------------------------------------------------------
\* The product denies an account, by a worker's commit or in a replay.

LEMMA DenialIs ==
  ASSUME Inv, NEW id \in Intents, UNCHANGED <<issued, backup, journal>>,
         product.tombstone[Owner(id)] \in {None, id},
         id \in HeldBy(product) => product.requests[id].status # "cancelled",
         id \notin HeldBy(product) =>
            \A x \in HeldBy(product) : Owner(x) = Owner(id) => product.requests[x].status = "cancelled",
         product'.requests[id] \in Request,
         product'.requests[id].status \in {"processing", "completed"},
         \A x \in Ids : x # id =>
            \/ product'.requests[x] = product.requests[x]
            \/ /\ product.requests[x] \in Request /\ product'.requests[x] \in Request
               /\ product.requests[x].status = "processing" /\ product'.requests[x].status = "blocked",
         product'.tombstone = [product.tombstone EXCEPT ![Owner(id)] = id],
         \/ product'.seen = product.seen
         \/ product'.seen # None /\ product.seen # None
            /\ ToSet(product'.seen) = ToSet(product.seen) \cup {id}
  PROVE  /\ Rows' /\ IntentsAgree' /\ Intents' = Intents
         /\ Named(product.tombstone)' = Named(product.tombstone) \cup {id}
         /\ HeldBy(product)' = HeldBy(product) \cup {id}
         /\ \A a \in Accounts : product'.tombstone[a] = IF a = Owner(id) THEN id ELSE product.tombstone[a]
         /\ \A x \in Intents : product.tombstone[Owner(x)] = x => product'.tombstone[Owner(x)] = x
         /\ \A x \in HeldBy(product) : x # id => product'.requests[x].status # "cancelled"
                                           \/ product.requests[x].status = "cancelled"
<1>1. /\ id \in DOMAIN issued /\ id \in Ids /\ Owner(id) \in Accounts /\ id # None
      /\ product.requests \in [Ids -> Request \cup {None}]
      /\ product.tombstone \in [Accounts -> Ids \cup {None}]
      /\ \A x \in DOMAIN issued : x \in Ids /\ Owner(x) \in Accounts /\ x # None
  <2>1. id \in DOMAIN issued
    BY Known
  <2> QED BY <2>1, Types, Facts DEF Inv
<1>2. PICK o : o = Owner(id)
  OBVIOUS
<1>3. \A a \in Accounts : product'.tombstone[a] = IF a = o THEN id ELSE product.tombstone[a]
  BY <1>1, <1>2
<1>4. \A x : Owner(x)' = Owner(x)
  BY DEF Owner
<1>5. HeldBy(product)' = HeldBy(product) \cup {id}
  BY <1>1, Facts DEF HeldBy
<1>6. \A x \in HeldBy(product) : x # id =>
         \/ product'.requests[x].status = product.requests[x].status
         \/ product.requests[x].status = "processing" /\ product'.requests[x].status = "blocked"
  BY DEF HeldBy
<1>7. Named(product.tombstone)' = Named(product.tombstone) \cup {id}
  <2>1. Named(product.tombstone)' \subseteq Named(product.tombstone) \cup {id}
    BY <1>1, <1>3 DEF Named
  <2>2. id \in Named(product.tombstone)'
    BY <1>1, <1>2, <1>3 DEF Named
  <2>3. ASSUME NEW a \in Accounts, product.tombstone[a] # None
        PROVE  product.tombstone[a] \in Named(product.tombstone)'
    <3>1. product'.tombstone[a] = product.tombstone[a]
      BY <1>2, <1>3, <2>3
    <3> QED BY <2>3, <3>1 DEF Named
  <2>4. Named(product.tombstone) \subseteq Named(product.tombstone)'
    BY <2>3 DEF Named
  <2> QED BY <2>1, <2>2, <2>4
<1>8. Intents' = Intents
  <2>1. ToSet(journal.a)' = ToSet(journal.a)
    BY DEF ToSet
  <2> QED BY <1>7, <2>1 DEF Intents
<1>9. \A x \in Intents : product.tombstone[Owner(x)] = x => product'.tombstone[Owner(x)] = x
  BY <1>1, <1>2, <1>3, Known
<1>10. RowsAgree(product)'
  <2>1. ASSUME NEW a \in Accounts, product'.tombstone[a] # None
        PROVE  /\ product'.tombstone[a] \in HeldBy(product)' /\ Owner(product'.tombstone[a]) = a
               /\ product'.requests[product'.tombstone[a]].status \notin {"pending", "cancelled"}
    <3>1. CASE a = o
      BY <1>2, <1>3, <1>5, <3>1
    <3>2. CASE a # o
      <4>1. PICK t : t = product.tombstone[a]
        OBVIOUS
      <4>2. /\ t \in HeldBy(product) /\ Owner(t) = a /\ t # id /\ product'.tombstone[a] = t
            /\ product.requests[t].status \notin {"pending", "cancelled"}
        BY <1>2, <1>3, <2>1, <3>2, <4>1 DEF Inv, Rows, RowsAgree
      <4>3. product'.requests[t].status \notin {"pending", "cancelled"}
        BY <1>6, <4>2
      <4> QED BY <1>5, <4>2, <4>3
    <3> QED BY <3>1, <3>2
  <2>2. ASSUME NEW x \in HeldBy(product)',
               product'.requests[x].status \in {"processing", "completed", "blocked"}
        PROVE  product'.tombstone[Owner(x)] = x
    <3>1. CASE x = id
      BY <1>1, <1>2, <1>3, <3>1
    <3>2. CASE x # id
      <4>1. x \in HeldBy(product) /\ product.requests[x].status \in {"processing", "completed", "blocked"}
        BY <1>5, <1>6, <2>2, <3>2
      <4>2. product.tombstone[Owner(x)] = x /\ x \in DOMAIN issued
        BY <4>1, Known DEF Inv, Rows, RowsAgree
      <4> QED BY <1>1, <1>2, <1>3, <3>2, <4>2
    <3> QED BY <3>1, <3>2
  <2>3. ASSUME NEW x \in HeldBy(product), x # id, Owner(x) = Owner(id), product'.requests[x].status # "cancelled"
        PROVE  FALSE
    <3>1. product.requests[x].status # "cancelled"
      BY <1>6, <2>3
    <3>2. CASE id \in HeldBy(product)
      BY <2>3, <3>1, <3>2 DEF Inv, Rows, RowsAgree
    <3> QED BY <2>3, <3>1, <3>2
  <2>4. ASSUME NEW x \in HeldBy(product)', NEW y \in HeldBy(product)', Owner(x) = Owner(y),
               product'.requests[x].status # "cancelled", product'.requests[y].status # "cancelled"
        PROVE  x = y
    <3>1. CASE x # id /\ y # id
      <4>1. /\ x \in HeldBy(product) /\ product.requests[x].status # "cancelled"
            /\ y \in HeldBy(product) /\ product.requests[y].status # "cancelled"
        BY <1>5, <1>6, <2>4, <3>1
      <4> QED BY <2>4, <4>1 DEF Inv, Rows, RowsAgree
    <3>2. CASE x = id \/ y = id
      BY <1>5, <2>3, <2>4, <3>2
    <3> QED BY <3>1, <3>2
  <2>5. ASSUME product'.seen # None, NEW x \in ToSet(product'.seen)
        PROVE  x \in DOMAIN issued /\ product'.tombstone[Owner(x)] = x
    <3>1. CASE x = id
      BY <1>1, <1>2, <1>3, <3>1
    <3>2. CASE x # id
      <4>1. product.seen # None /\ x \in ToSet(product.seen)
        BY <2>5, <3>2
      <4>2. x \in DOMAIN issued /\ product.tombstone[Owner(x)] = x
        BY <4>1 DEF Inv, Rows, RowsAgree
      <4> QED BY <1>1, <1>2, <1>3, <3>2, <4>2
    <3> QED BY <3>1, <3>2
  <2>6. HeldBy(product)' \subseteq DOMAIN issued /\ ToSet(product.seen)' = ToSet(product'.seen)
    BY <1>1, <1>5, Known DEF ToSet
  <2> QED BY <1>4, <2>1, <2>2, <2>4, <2>5, <2>6 DEF RowsAgree
<1>11. RowsAgree(backup)' /\ GenerationsCount'
  BY <1>4 DEF Inv, Rows, RowsAgree, GenerationsCount, HeldBy, ToSet
<1>12. IntentsAgree'
  <2>1. Named(backup.tombstone)' = Named(backup.tombstone)
    BY DEF Named
  <2> QED BY <1>4, <1>8, <2>1 DEF Inv, Journals, IntentsAgree
<1>13. \A x \in HeldBy(product) : x # id => product'.requests[x].status # "cancelled"
                                           \/ product.requests[x].status = "cancelled"
  BY <1>6
<1> QED BY <1>2, <1>3, <1>5, <1>7, <1>8, <1>9, <1>10, <1>11, <1>12, <1>13 DEF Rows

LEMMA CommitSteps ==
  ASSUME Inv, NEW w \in Workers, Commit(w)
  PROVE  Inv'
<1>1. PICK id : id = job[w].id
  OBVIOUS
<1>2. w \in Claiming /\ job[w].at = "durable"
  BY DEF Commit, Claiming
<1>3. /\ job \in [Writers -> Job] /\ w \in Writers /\ w # Tool /\ job[w] \in Job
      /\ serving /\ id \in HeldBy(product) /\ id \in DOMAIN issued /\ id \in Ids
      /\ Owner(id) \in Accounts /\ product.requests[id] \in Request
      /\ product.requests[id].status # "cancelled"
      /\ ~Shared(Owner(id)) /\ product \in Product
      /\ product.requests \in [Ids -> Request \cup {None}]
      /\ product.tombstone \in [Accounts -> Ids \cup {None}]
  BY <1>1, <1>2, WorkerIs, Types DEF Inv
<1>4. /\ id \in ToSet(journal.b) /\ id \in ToSet(journal.a) /\ id \in Intents
  BY <1>1, <1>2, <1>3 DEF Inv, Works, JobsFollow, Journals, CopiesInOrder, Intents
<1>5. product.tombstone[Owner(id)] \in {None, id}
  BY <1>3, ActiveIsDenied
<1>6. /\ product.seen \in Seq(Ids) /\ product.seen # None
      /\ Append(product.seen, id) \in Seq(Ids) /\ Append(product.seen, id) # None
      /\ ToSet(Append(product.seen, id)) = ToSet(product.seen) \cup {id}
  <2>1. product.seen # None /\ product.seen \in Seq(Ids)
    BY <1>3, Types DEF Inv, Sides, OneSideWorks
  <2>2. PICK s : s = Append(product.seen, id)
    OBVIOUS
  <2>3. s \in Seq(Ids) /\ ToSet(s) = ToSet(product.seen) \cup {id}
    BY <1>3, <2>1, <2>2, Entries
  <2>4. s # None
    BY <2>3, Facts
  <2> QED BY <2>1, <2>2, <2>3, <2>4
<1>7. PICK rs : rs = Blocked(product.requests)
  OBVIOUS
<1>8. /\ rs \in [Ids -> Request \cup {None}]
      /\ \A x \in Ids : \/ rs[x] = product.requests[x]
                        \/ /\ product.requests[x] \in Request /\ rs[x] \in Request
                           /\ product.requests[x].status = "processing" /\ rs[x].status = "blocked"
  BY <1>3, <1>7, BlockedIs
<1>9. PICK r : r = [status |-> "processing", attempts |-> job[w].attempt, lease |-> "live"]
  OBVIOUS
<1>10. r \in Request /\ r.status = "processing"
  <2>1. job[w].attempt \in 0 .. MaxAttempts
    BY <1>3 DEF Job
  <2> QED BY <1>9, <2>1 DEF Request
<1>11. /\ product'.requests = [rs EXCEPT ![id] = r]
       /\ product'.tombstone = [product.tombstone EXCEPT ![Owner(id)] = id]
       /\ product'.seen = Append(product.seen, id)
       /\ product' \in Product
  <2>1. PICK o : o = Owner(id)
    OBVIOUS
  <2>2. PICK t : t = IF product.tombstone[o] = None THEN id ELSE product.tombstone[o]
    OBVIOUS
  <2>3. t = id
    BY <1>5, <2>1, <2>2
  <2>4. PICK rr : rr = [rs EXCEPT ![id] = r]
    OBVIOUS
  <2>5. PICK s : s = Append(product.seen, id)
    OBVIOUS
  <2>6. product' = [product EXCEPT !.requests = rr, !.tombstone[o] = t, !.seen = s]
    BY <1>1, <1>7, <1>9, <2>1, <2>2, <2>4, <2>5 DEF Commit
  <2>7. /\ rr \in [Ids -> Request \cup {None}]
        /\ [product.tombstone EXCEPT ![o] = t] \in [Accounts -> Ids \cup {None}]
        /\ s \in Seq(Ids) \cup {None}
    BY <1>3, <1>6, <1>8, <1>10, <2>1, <2>3, <2>4, <2>5
  <2>8. /\ product'.requests = rr /\ product'.tombstone = [product.tombstone EXCEPT ![o] = t]
        /\ product'.seen = s /\ product' \in Product
    BY <1>3, <2>6, <2>7 DEF Product
  <2> QED BY <2>1, <2>3, <2>4, <2>5, <2>8
<1>12. /\ UNCHANGED <<issued, due, backup, auth, journal, user, plan, serving>>
       /\ wire' = wire \cup {id} /\ job' = [job EXCEPT ![w].at = "calling", ![w].session = FALSE]
  BY <1>1 DEF Commit
<1>13. /\ product'.requests[id] = r
       /\ \A x \in Ids : x # id => product'.requests[x] = rs[x]
  BY <1>3, <1>8, <1>11
<1>14. /\ Rows' /\ IntentsAgree' /\ Intents' = Intents
       /\ HeldBy(product)' = HeldBy(product) \cup {id}
       /\ \A a \in Accounts : product'.tombstone[a] = IF a = Owner(id) THEN id ELSE product.tombstone[a]
       /\ \A x \in HeldBy(product) : x # id => product'.requests[x].status # "cancelled"
                                           \/ product.requests[x].status = "cancelled"
  BY <1>3, <1>4, <1>5, <1>6, <1>8, <1>10, <1>11, <1>12, <1>13, DenialIs
<1>15. /\ job' \in [Writers -> Job] /\ job'[w].at = "calling" /\ job'[w].id = id /\ ~job'[w].session
       /\ \A v \in Writers : v # w => job'[v] = job[v]
  <2>1. PICK j : j = [job[w] EXCEPT !.at = "calling", !.session = FALSE]
    OBVIOUS
  <2>2. j \in Job /\ j.at = "calling" /\ j.id = id /\ ~j.session
    BY <1>1, <1>3, <2>1 DEF Job
  <2>3. job' = [job EXCEPT ![w] = j]
    BY <1>3, <1>12, <2>1
  <2> QED BY <1>3, <2>2, <2>3
<1>16. TypeOK'
  BY <1>3, <1>11, <1>12, <1>15 DEF Inv, TypeOK
<1>17. /\ \A x : Owner(x)' = Owner(x)
       /\ ToSet(journal.a)' = ToSet(journal.a) /\ ToSet(journal.b)' = ToSet(journal.b)
       /\ ToSet(journal.saved)' = ToSet(journal.saved)
  BY <1>12 DEF Owner, ToSet
<1>18. CopiesInOrder'
  BY <1>4, <1>12, <1>17 DEF Inv, Journals, CopiesInOrder
<1>19. DenialsAreJournaled'
  BY <1>3, <1>4, <1>12, <1>14, <1>17 DEF Inv, Journals, DenialsAreJournaled
<1>20. job'[Tool] = job[Tool] /\ job[Tool].at = "idle"
  BY <1>3, <1>15, Facts DEF Inv, Sides, OneSideWorks
<1>21. OneSideWorks'
  <2>1. \A v \in Workers : job'[v].at \notin {"planned", "denied", "done"}
    BY <1>15, Facts DEF Inv, Sides, OneSideWorks
  <2> QED BY <1>3, <1>6, <1>11, <1>12, <1>20, <2>1 DEF OneSideWorks
<1>22. Claiming' = {}
  <2>1. \A v \in Workers : v # w => v \notin Claiming /\ job'[v] = job[v]
    BY <1>2, <1>15, WorkerIs, Facts
  <2> QED BY <1>15, <2>1 DEF Claiming
<1>23. FencesHold'
  BY <1>3, <1>12, <1>14, <1>22 DEF Inv, Sides, FencesHold, Fenced, Shared
<1>24. DenialsAreMade'
  <2>1. \A a \in Accounts : auth[a] # None => product'.tombstone[a] = auth[a]
    BY <1>3, <1>5, <1>14 DEF Inv, Sides, DenialsAreMade
  <2>2. \A x \in wire : product'.tombstone[Owner(x)] = x
    <3>1. \A x \in wire : product.tombstone[Owner(x)] = x /\ Owner(x) \in Accounts /\ x # None
      BY <1>3, Known, Types, Facts DEF Inv, Sides, DenialsAreMade, Journals, CopiesInOrder
    <3> QED BY <1>5, <1>14, <3>1
  <2> QED BY <1>3, <1>12, <1>14, <1>17, <2>1, <2>2 DEF DenialsAreMade
<1>25. ClaimsFollow'
  <2>1. product.seen # journal.a
    BY <1>1, <1>2, <1>3 DEF Claiming, Inv, Works, ClaimsFollow, FollowsClaim
  <2>2. ASSUME NEW v \in Workers PROVE FollowsClaim(job[v])'
    <3>1. CASE v = w
      BY <1>15, <3>1 DEF FollowsClaim
    <3>2. CASE v # w
      <4>1. job'[v] = job[v] /\ ~job'[v].session
        BY <1>15, <1>22, <3>2, Facts DEF Claiming
      <4>2. FollowsClaim(job[v])
        BY DEF Inv, Works, ClaimsFollow
      <4>3. journal' = journal
        BY <1>12
      <4> QED BY <2>1, <4>1, <4>2, <4>3 DEF FollowsClaim
    <3> QED BY <3>1, <3>2
  <2> QED BY <1>22, <2>2 DEF ClaimsFollow
<1>26. JobsFollow'
  <2>1. ASSUME NEW v \in Workers
        PROVE  /\ job'[v].at # "idle" => job'[v].id \in HeldBy(product)'
               /\ job'[v].at = "applied" => auth[Owner(job'[v].id)] = job'[v].id
    <3>1. CASE v = w
      BY <1>14, <1>15, <3>1
    <3>2. CASE v # w
      <4>1. /\ job'[v] = job[v]
            /\ job[v].at # "idle" => job[v].id \in HeldBy(product)
            /\ job[v].at = "applied" => auth[Owner(job[v].id)] = job[v].id
        BY <1>15, <3>2, Facts DEF Inv, Works, JobsFollow
      <4> QED BY <1>14, <4>1
    <3> QED BY <3>1, <3>2
  <2>2. ASSUME NEW v \in Writers
        PROVE  /\ job'[v].at = "copied" => job'[v].id \in ToSet(journal.a)
               /\ job'[v].at \in {"both", "saved", "durable"} => job'[v].id \in ToSet(journal.b)
    <3>1. job'[v] = job[v] \/ job'[v].at = "calling"
      BY <1>15
    <3> QED BY <3>1 DEF Inv, Works, JobsFollow
  <2> QED BY <1>12, <1>17, <1>22, <2>1, <2>2 DEF JobsFollow
<1>27. ToolFollows'
  BY <1>20 DEF ToolFollows
<1>28. CompletedIsDenied'
  <2>1. ASSUME NEW x \in HeldBy(product)', product'.requests[x].status = "completed"
        PROVE  auth[Owner(x)] = x
    <3>1. x # id
      <4>1. product'.requests[id].status = "processing"
        BY <1>10, <1>13
      <4> QED BY <2>1, <4>1
    <3>2. x \in HeldBy(product) /\ x \in Ids
      BY <1>14, <2>1, <3>1 DEF HeldBy
    <3>3. product.requests[x].status = "completed"
      BY <1>8, <1>13, <2>1, <3>1, <3>2
    <3> QED BY <1>3, <3>2, <3>3 DEF Inv, Works, CompletedIsDenied, Held, HeldBy
  <2>2. Held' = HeldBy(product)'
    BY DEF Held, HeldBy
  <2> QED BY <1>12, <1>17, <2>1, <2>2 DEF CompletedIsDenied
<1> QED BY <1>14, <1>16, <1>18, <1>19, <1>21, <1>23, <1>24, <1>25, <1>26, <1>27, <1>28
        DEF Inv, Journals, Sides, Works

------------------------------------------------------------------------------
\* The operator and the tool, while all services are stopped.

LEMMA Stopped ==
  ASSUME Inv, ~serving, ~serving', user' = user, wire' = wire,
         \A v \in Workers : job'[v] = job[v],
         job'[Tool].at \in {"idle", "claimed", "planned", "denied", "done"}
  PROVE  Sides' /\ DenialsAreJournaled' /\ JobsFollow' /\ ClaimsFollow' /\ CompletedIsDenied'
<1>1. /\ wire = {} /\ \A v \in Workers : job[v].at = "idle" /\ ~job[v].session
      /\ \A a \in Accounts : user[a].at = "idle"
  BY DEF Inv, Sides, OneSideWorks, Works, JobsFollow, Claiming
<1>2. OneSideWorks'
  BY <1>1 DEF OneSideWorks
<1>3. FencesHold' /\ DenialsAreMade'
  BY <1>1 DEF FencesHold, Shared, DenialsAreMade
<1>4. DenialsAreJournaled' /\ CompletedIsDenied'
  BY DEF DenialsAreJournaled, CompletedIsDenied
<1>5. JobsFollow' /\ ClaimsFollow'
  BY <1>1 DEF JobsFollow, ClaimsFollow, FollowsClaim, Claiming, Writers
<1> QED BY <1>2, <1>3, <1>4, <1>5 DEF Sides

\* What is known of the tool at work.
LEMMA ToolIs ==
  ASSUME Inv
  PROVE  /\ job \in [Writers -> Job] /\ Tool \in Writers /\ Tool \notin Workers /\ job[Tool] \in Job
         /\ Workers \subseteq Writers
         /\ job[Tool].at # "idle" => ~serving /\ plan \subseteq Intents
         /\ job[Tool].at = "done" => plan = {} /\ product.seen # None
         /\ job[Tool].at = "denied" => /\ job[Tool].id \in plan /\ plan \subseteq ToSet(journal.saved)
                                       /\ product.tombstone[Owner(job[Tool].id)] = job[Tool].id
         /\ job[Tool].at # "idle" =>
               \A x \in (ToSet(journal.saved) \cup Named(product.tombstone) \cup Named(auth)) \ plan :
                  /\ x \in ToSet(journal.saved)
                  /\ product.tombstone[Owner(x)] = x /\ auth[Owner(x)] = x
         /\ Intents \subseteq Ids /\ Told = Intents
         /\ \A x \in Intents : Owner(x) \in Accounts /\ x # None
         /\ \A x, y \in Intents : Owner(x) = Owner(y) => x = y
<1>1. job \in [Writers -> Job] /\ Tool \in Writers /\ Tool \notin Workers /\ Workers \subseteq Writers
  BY Facts DEF Inv, TypeOK
<1>2. job[Tool].at # "idle" => ~serving
  BY DEF Inv, TypeOK, Sides, OneSideWorks
<1>3. /\ job[Tool].at # "idle" => plan \subseteq Intents
      /\ job[Tool].at = "done" => plan = {} /\ product.seen # None
      /\ job[Tool].at = "denied" => /\ job[Tool].id \in plan /\ plan \subseteq ToSet(journal.saved)
                                    /\ product.tombstone[Owner(job[Tool].id)] = job[Tool].id
      /\ job[Tool].at # "idle" =>
            \A x \in (ToSet(journal.saved) \cup Named(product.tombstone) \cup Named(auth)) \ plan :
               /\ x \in ToSet(journal.saved)
               /\ product.tombstone[Owner(x)] = x /\ auth[Owner(x)] = x
  BY DEF Inv, Works, ToolFollows
<1>4. Intents \subseteq Ids /\ \A x \in Intents : Owner(x) \in Accounts /\ x # None
  BY Known, Types, Facts DEF Inv
<1>5. \A x, y \in Intents : Owner(x) = Owner(y) => x = y
  BY DEF Inv, Journals, IntentsAgree
<1>6. Told = Intents
  <2>1. Named(auth) \subseteq ToSet(journal.a)
    BY DEF Named, Inv, Journals, CopiesInOrder
  <2> QED BY <2>1 DEF Told, Intents, Named
<1> QED BY <1>1, <1>2, <1>3, <1>4, <1>5, <1>6

LEMMA ReviewSteps ==
  ASSUME Inv, Review
  PROVE  Inv'
<1>1. PICK j : j = [job[Tool] EXCEPT !.at = "planned"]
  OBVIOUS
<1>2. j \in Job /\ j.at = "planned" /\ job' = [job EXCEPT ![Tool] = j]
  BY <1>1, ToolIs DEF Job, Review, Go
<1>3. plan' = Intents /\ plan' \subseteq Ids
  BY ToolIs DEF Review
<1>4. ToolFollows'
  <2>1. /\ Intents' = Intents /\ ToSet(journal.saved)' = ToSet(journal.saved)
        /\ Named(product.tombstone)' = Named(product.tombstone) /\ Named(auth)' = Named(auth)
    BY DEF Review, Intents, ToSet, Named
  <2>2. ToSet(journal.saved) \cup Named(product.tombstone) \cup Named(auth) \subseteq Intents
    <3>1. ToSet(journal.saved) \subseteq ToSet(journal.a)
      BY DEF Inv, Journals, CopiesInOrder
    <3>2. Named(auth) \subseteq ToSet(journal.a)
      BY DEF Named, Inv, Journals, CopiesInOrder
    <3> QED BY <3>1, <3>2 DEF Intents
  <2>3. job'[Tool].at = "planned"
    BY <1>2, ToolIs
  <2> QED BY <1>3, <2>1, <2>2, <2>3 DEF ToolFollows
<1>5. journal' \in Journal
  BY DEF Review, Inv, TypeOK
<1> QED BY <1>2, <1>3, <1>4, <1>5, ToolGoes DEF Review

LEMMA ReplayingIs ==
  ASSUME NEW at \in {"claimed", "denied"}, NEW id \in Ids
  PROVE  Replaying(at, id) \in Job /\ Replaying(at, id).at = at /\ Replaying(at, id).id = id
<1>1. 0 \in 0 .. MaxAttempts /\ 0 \in Nat
  BY BoundsAssumption
<1> QED BY <1>1 DEF Replaying, Resting, Job

LEMMA MissingSteps ==
  ASSUME Inv, WriteMissing
  PROVE  Inv'
<1>1. PICK id \in Unwritten :
         job' = [job EXCEPT ![Tool] = [Replaying("claimed", id) EXCEPT !.expected = Len(journal.saved)]]
  BY DEF WriteMissing
<1>2. PICK j : j = [Replaying("claimed", id) EXCEPT !.expected = Len(journal.saved)]
  OBVIOUS
<1>3. id \in plan /\ job[Tool].at = "planned" /\ id \in Ids
  BY ToolIs DEF Unwritten, WriteMissing
<1>4. j \in Job /\ j.at = "claimed" /\ j.id = id
  <2>1. Replaying("claimed", id) \in Job /\ Replaying("claimed", id).at = "claimed"
        /\ Replaying("claimed", id).id = id
    BY <1>3, ReplayingIs
  <2>2. Len(journal.saved) \in Nat
    <3>1. journal.saved \in Seq(Ids)
      BY Types DEF Inv
    <3> QED BY <3>1
  <2> QED BY <1>2, <2>1, <2>2 DEF Job
<1>5. job' = [job EXCEPT ![Tool] = j]
  BY <1>1, <1>2
<1>6. ToolFollows'
  <2>1. /\ Intents' = Intents /\ ToSet(journal.saved)' = ToSet(journal.saved)
        /\ Named(product.tombstone)' = Named(product.tombstone) /\ Named(auth)' = Named(auth)
        /\ \A x : Owner(x)' = Owner(x)
    BY DEF WriteMissing, Intents, ToSet, Named, Owner
  <2>2. job'[Tool] = j
    BY <1>5, ToolIs
  <2>3. /\ plan \subseteq Intents
        /\ \A x \in (ToSet(journal.saved) \cup Named(product.tombstone) \cup Named(auth)) \ plan :
              /\ x \in ToSet(journal.saved)
              /\ product.tombstone[Owner(x)] = x /\ auth[Owner(x)] = x
    BY <1>3, ToolIs
  <2>4. UNCHANGED <<plan, product, auth>>
    BY DEF WriteMissing
  <2> QED BY <1>3, <1>4, <2>1, <2>2, <2>3, <2>4 DEF ToolFollows
<1>7. journal' \in Journal /\ plan' \subseteq Ids /\ ~serving
  BY <1>3, ToolIs DEF WriteMissing, Inv, TypeOK
<1> QED BY <1>4, <1>5, <1>6, <1>7, ToolGoes DEF WriteMissing

LEMMA ReplaySteps ==
  ASSUME Inv, NEW id \in Ids, ReplayProduct(id)
  PROVE  Inv'
<1>1. /\ job[Tool].at = "planned" /\ id \in plan /\ Replayable(id) /\ ~serving
      /\ plan \subseteq ToSet(journal.saved) /\ id \in Intents /\ plan \subseteq Intents
      /\ Owner(id) \in Accounts
      /\ UNCHANGED <<issued, due, backup, auth, journal, user, plan, wire, serving>>
  BY ToolIs DEF ReplayProduct, Unwritten
<1>2. PICK j : j = Replaying("denied", id)
  OBVIOUS
<1>3. j \in Job /\ j.at = "denied" /\ j.id = id /\ job' = [job EXCEPT ![Tool] = j]
  BY <1>2, ReplayingIs DEF ReplayProduct
<1>4. /\ job' \in [Writers -> Job] /\ job'[Tool] = j /\ \A v \in Workers : job'[v] = job[v]
  BY <1>3, ToolIs
<1>5. /\ ToSet(journal.saved)' = ToSet(journal.saved) /\ Named(auth)' = Named(auth)
      /\ \A x : Owner(x)' = Owner(x)
  BY <1>1 DEF ToSet, Named, Owner
<1>6. CASE product.tombstone[Owner(id)] = id
  <2>1. product' = product
    BY <1>6 DEF ReplayProduct
  <2>2. Intents' = Intents /\ Named(product.tombstone)' = Named(product.tombstone)
    BY <1>1, <2>1 DEF Intents, Named, ToSet
  <2>3. \A x \in (ToSet(journal.saved) \cup Named(product.tombstone) \cup Named(auth)) \ plan :
              /\ x \in ToSet(journal.saved)
              /\ product.tombstone[Owner(x)] = x /\ auth[Owner(x)] = x
    BY <1>1, ToolIs
  <2>4. ToolFollows'
    BY <1>1, <1>3, <1>4, <1>5, <1>6, <2>1, <2>2, <2>3 DEF ToolFollows
  <2>5. journal' \in Journal /\ plan' \subseteq Ids
    BY <1>1 DEF Inv, TypeOK
  <2> QED BY <1>1, <1>3, <2>1, <2>4, <2>5, ToolGoes
<1>7. CASE product.tombstone[Owner(id)] # id
  <2>1. /\ product.tombstone[Owner(id)] = None
        /\ id \in HeldBy(product) => product.requests[id].status # "cancelled"
        /\ id \notin HeldBy(product) => Active(Owner(id)) = {}
    BY <1>1, <1>7 DEF Replayable, Held, HeldBy
  <2>2. /\ product \in Product /\ product.requests \in [Ids -> Request \cup {None}]
        /\ product.tombstone \in [Accounts -> Ids \cup {None}]
    BY Types DEF Inv, TypeOK
  <2>3. PICK old : old = IF id \in Held THEN product.requests[id] ELSE Pending
    OBVIOUS
  <2>4. old \in Request
    <3>1. Pending \in Request
      BY BoundsAssumption DEF Pending, Request
    <3> QED BY <2>2, <2>3, <3>1 DEF Held
  <2>5. PICK r : r = [old EXCEPT !.status = "completed", !.lease = "none"]
    OBVIOUS
  <2>6. r \in Request /\ r.status = "completed"
    BY <2>4, <2>5 DEF Request
  <2>7. product' = [product EXCEPT !.requests[id] = r, !.tombstone[Owner(id)] = id]
    BY <1>7, <2>3, <2>5 DEF ReplayProduct, Completed
  <2>8. /\ product'.requests = [product.requests EXCEPT ![id] = r]
        /\ product'.tombstone = [product.tombstone EXCEPT ![Owner(id)] = id]
        /\ product'.seen = product.seen /\ product' \in Product
    <3>1. PICK o : o = Owner(id)
      OBVIOUS
    <3>2. /\ [product.requests EXCEPT ![id] = r] \in [Ids -> Request \cup {None}]
          /\ [product.tombstone EXCEPT ![o] = id] \in [Accounts -> Ids \cup {None}]
      BY <2>2, <2>6
    <3>3. product' = [product EXCEPT !.requests[id] = r, !.tombstone[o] = id]
      BY <2>7, <3>1
    <3>4. /\ product'.requests = [product.requests EXCEPT ![id] = r]
          /\ product'.tombstone = [product.tombstone EXCEPT ![o] = id]
          /\ product'.seen = product.seen /\ product' \in Product
      BY <2>2, <3>2, <3>3 DEF Product
    <3> QED BY <3>1, <3>4
  <2>9. product'.requests[id] = r /\ \A x \in Ids : x # id => product'.requests[x] = product.requests[x]
    BY <2>2, <2>8
  <2>10. id \notin HeldBy(product) =>
            \A x \in HeldBy(product) : Owner(x) = Owner(id) => product.requests[x].status = "cancelled"
    BY <2>1 DEF Active, Held, HeldBy
  <2>11. /\ Rows' /\ IntentsAgree' /\ Intents' = Intents
         /\ Named(product.tombstone)' = Named(product.tombstone) \cup {id}
         /\ \A a \in Accounts : product'.tombstone[a] = IF a = Owner(id) THEN id ELSE product.tombstone[a]
         /\ \A x \in Intents : product.tombstone[Owner(x)] = x => product'.tombstone[Owner(x)] = x
    BY <1>1, <2>1, <2>6, <2>8, <2>9, <2>10, DenialIs
  <2>12. TypeOK'
    BY <1>1, <1>4, <2>8 DEF Inv, TypeOK
  <2>13. CopiesInOrder'
    BY <1>1, CopiesStay DEF Inv, Journals
  <2>14. Sides' /\ DenialsAreJournaled' /\ JobsFollow' /\ ClaimsFollow' /\ CompletedIsDenied'
    BY <1>1, <1>3, <1>4, Stopped
  <2>15. ToolFollows'
    <3>1. ASSUME NEW x \in (ToSet(journal.saved) \cup Named(product.tombstone)' \cup Named(auth)) \ plan
          PROVE  /\ x \in ToSet(journal.saved)
                 /\ product'.tombstone[Owner(x)] = x /\ auth[Owner(x)] = x
      <4>1. x \in ToSet(journal.saved) \cup Named(product.tombstone) \cup Named(auth)
        BY <1>1, <2>11
      <4>2. /\ x \in ToSet(journal.saved) /\ product.tombstone[Owner(x)] = x /\ auth[Owner(x)] = x
        BY <1>1, <4>1, ToolIs
      <4>3. x \in Intents
        BY <4>2 DEF Intents, Inv, Journals, CopiesInOrder
      <4> QED BY <2>11, <4>2, <4>3
    <3>2. product'.tombstone[Owner(id)] = id
      BY <1>1, <2>11
    <3> QED BY <1>1, <1>3, <1>4, <1>5, <2>11, <3>1, <3>2 DEF ToolFollows
  <2> QED BY <2>11, <2>12, <2>13, <2>14, <2>15 DEF Inv, Journals, Works
<1> QED BY <1>6, <1>7

LEMMA ReplayAuthSteps ==
  ASSUME Inv, ReplayAuth
  PROVE  Inv'
<1>1. PICK id : id = job[Tool].id
  OBVIOUS
<1>2. PICK o : o = Owner(id)
  OBVIOUS
<1>3. /\ job[Tool].at = "denied" /\ ~serving /\ auth[o] \in {id, None}
      /\ auth' = [auth EXCEPT ![o] = id] /\ plan' = plan \ {id}
      /\ job' = [job EXCEPT ![Tool].at = "planned"]
      /\ UNCHANGED <<issued, due, product, backup, journal, user, wire, serving>>
  BY <1>1, <1>2, ToolIs DEF ReplayAuth, Denies, Go
<1>4. /\ id \in plan /\ plan \subseteq ToSet(journal.saved) /\ plan \subseteq Intents
      /\ product.tombstone[o] = id /\ o \in Accounts /\ id \in Ids /\ id # None
      /\ id \in ToSet(journal.a)
  <2>1. id \in plan /\ plan \subseteq ToSet(journal.saved) /\ plan \subseteq Intents /\ product.tombstone[o] = id
    BY <1>1, <1>2, <1>3, ToolIs
  <2>2. id \in ToSet(journal.a)
    BY <2>1 DEF Inv, Journals, CopiesInOrder
  <2>3. o \in Accounts /\ id # None /\ id \in Ids
    BY <1>2, <2>1, ToolIs
  <2> QED BY <2>1, <2>2, <2>3
<1>5. /\ auth \in [Accounts -> Ids \cup {None}] /\ auth' \in [Accounts -> Ids \cup {None}]
      /\ \A a \in Accounts : auth'[a] = IF a = o THEN id ELSE auth[a]
  <2>1. auth \in [Accounts -> Ids \cup {None}]
    BY DEF Inv, TypeOK
  <2> QED BY <1>3, <1>4, <2>1
<1>6. PICK j : j = [job[Tool] EXCEPT !.at = "planned"]
  OBVIOUS
<1>7. /\ j \in Job /\ j.at = "planned" /\ job' = [job EXCEPT ![Tool] = j]
      /\ job' \in [Writers -> Job] /\ job'[Tool] = j /\ \A v \in Workers : job'[v] = job[v]
  <2>1. j \in Job /\ j.at = "planned"
    BY <1>6, ToolIs DEF Job
  <2>2. job' = [job EXCEPT ![Tool] = j]
    BY <1>3, <1>6, ToolIs
  <2> QED BY <2>1, <2>2, ToolIs
<1>8. TypeOK'
  BY <1>3, <1>5, <1>7 DEF Inv, TypeOK
<1>9. Rows' /\ IntentsAgree' /\ Intents' = Intents
  BY <1>3, RowsStay, IntentsStay DEF Inv, Journals
<1>10. /\ \A x : Owner(x)' = Owner(x)
       /\ ToSet(journal.a)' = ToSet(journal.a) /\ ToSet(journal.b)' = ToSet(journal.b)
       /\ ToSet(journal.saved)' = ToSet(journal.saved)
       /\ Named(product.tombstone)' = Named(product.tombstone)
       /\ Named(auth)' \subseteq Named(auth) \cup {id}
  BY <1>3, <1>5 DEF Owner, ToSet, Named
<1>11. CopiesInOrder'
  <2>1. ASSUME NEW a \in Accounts, auth'[a] # None
        PROVE  auth'[a] \in ToSet(journal.a) /\ Owner(auth'[a]) = a
    <3>1. CASE a = o
      BY <1>2, <1>4, <1>5, <3>1
    <3>2. CASE a # o
      BY <1>5, <2>1, <3>2 DEF Inv, Journals, CopiesInOrder
    <3> QED BY <3>1, <3>2
  <2> QED BY <1>3, <1>10, <2>1 DEF Inv, Journals, CopiesInOrder
<1>12. Sides' /\ DenialsAreJournaled' /\ JobsFollow' /\ ClaimsFollow' /\ CompletedIsDenied'
  BY <1>3, <1>7, Stopped
<1>13. ToolFollows'
  <2>1. ASSUME NEW x \in (ToSet(journal.saved) \cup Named(product.tombstone) \cup Named(auth)') \ (plan \ {id})
        PROVE  /\ x \in ToSet(journal.saved)
               /\ product.tombstone[Owner(x)] = x /\ auth'[Owner(x)] = x
    <3>1. CASE x = id
      BY <1>2, <1>4, <1>5, <3>1
    <3>2. CASE x # id
      <4>1. /\ x \in ToSet(journal.saved) /\ product.tombstone[Owner(x)] = x /\ auth[Owner(x)] = x
        BY <1>3, <1>10, <2>1, <3>2, ToolIs
      <4>2. Owner(x) \in Accounts
        <5>1. x \in Intents
          BY <4>1 DEF Intents, Inv, Journals, CopiesInOrder
        <5> QED BY <5>1, ToolIs
      <4>3. Owner(x) # o
        BY <1>4, <3>2, <4>1
      <4> QED BY <1>5, <4>1, <4>2, <4>3
    <3> QED BY <3>1, <3>2
  <2> QED BY <1>3, <1>4, <1>7, <1>9, <1>10, <2>1 DEF ToolFollows
<1> QED BY <1>8, <1>9, <1>11, <1>12, <1>13 DEF Inv, Journals, Works

LEMMA InstallSteps ==
  ASSUME Inv, InstallCheckpoint
  PROVE  Inv'
<1>1. /\ job[Tool].at = "planned" /\ plan = {} /\ ~serving
      /\ job' = [job EXCEPT ![Tool].at = "done"]
      /\ UNCHANGED <<issued, due, backup, auth, journal, user, plan, wire, serving>>
  BY ToolIs DEF InstallCheckpoint, Go
<1>2. /\ product \in Product /\ journal.saved \in Seq(Ids) /\ journal.saved # None
      /\ product.requests \in [Ids -> Request \cup {None}]
  BY Types, Facts DEF Inv, TypeOK
<1>3. /\ product'.requests = product.requests /\ product'.tombstone = product.tombstone
      /\ product'.seen = journal.saved /\ product' \in Product
  BY <1>2 DEF InstallCheckpoint, Product
<1>4. PICK j : j = [job[Tool] EXCEPT !.at = "done"]
  OBVIOUS
<1>5. /\ j.at = "done" /\ job' \in [Writers -> Job] /\ job'[Tool] = j
      /\ \A v \in Workers : job'[v] = job[v]
  <2>1. j \in Job /\ j.at = "done"
    BY <1>4, ToolIs DEF Job
  <2>2. job' = [job EXCEPT ![Tool] = j]
    BY <1>1, <1>4, ToolIs
  <2> QED BY <2>1, <2>2, ToolIs
<1>6. TypeOK'
  BY <1>1, <1>3, <1>5 DEF Inv, TypeOK
<1>7. /\ \A x : Owner(x)' = Owner(x)
      /\ ToSet(journal.a)' = ToSet(journal.a) /\ ToSet(journal.saved)' = ToSet(journal.saved)
      /\ ToSet(product.seen)' = ToSet(journal.saved)
      /\ HeldBy(product)' = HeldBy(product) /\ HeldBy(backup)' = HeldBy(backup)
      /\ Named(product.tombstone)' = Named(product.tombstone)
      /\ Named(backup.tombstone)' = Named(backup.tombstone)
      /\ Named(auth)' = Named(auth) /\ Intents' = Intents
  BY <1>1, <1>3 DEF Owner, ToSet, HeldBy, Named, Intents
<1>8. RowsAgree(product)'
  <2>1. \A x \in ToSet(journal.saved) : x \in DOMAIN issued /\ product.tombstone[Owner(x)] = x
    BY <1>1, ToolIs, Known
  <2>2. RowsAgree(product)
    BY DEF Inv, Rows
  <2> QED BY <1>1, <1>3, <1>7, <2>1, <2>2 DEF RowsAgree
<1>9. RowsAgree(backup)' /\ GenerationsCount'
  <2>1. RowsAgree(backup) /\ GenerationsCount
    BY DEF Inv, Rows
  <2>2. ToSet(backup.seen)' = ToSet(backup.seen)
    BY <1>1 DEF ToSet
  <2> QED BY <1>1, <1>7, <2>1, <2>2 DEF RowsAgree, GenerationsCount
<1>10. IntentsAgree'
  BY <1>1, <1>3, <1>7 DEF Inv, Journals, IntentsAgree
<1>11. CopiesInOrder'
  BY <1>1, CopiesStay DEF Inv, Journals
<1>12. Sides' /\ DenialsAreJournaled' /\ JobsFollow' /\ ClaimsFollow' /\ CompletedIsDenied'
  BY <1>1, <1>5, Stopped
<1>13. ToolFollows'
  BY <1>1, <1>2, <1>3, <1>5, <1>7, ToolIs DEF ToolFollows
<1> QED BY <1>6, <1>8, <1>9, <1>10, <1>11, <1>12, <1>13 DEF Inv, Rows, Journals, Works

LEMMA ResumeSteps ==
  ASSUME Inv, Resume
  PROVE  Inv'
<1>1. /\ job[Tool].at = "done" /\ ~serving /\ serving' = TRUE /\ plan = {} /\ product.seen # None
      /\ job' = [job EXCEPT ![Tool] = Resting]
      /\ UNCHANGED <<issued, due, product, backup, auth, journal, user, plan, wire>>
  BY ToolIs DEF Resume
<1>2. /\ Resting \in Job /\ Resting.at = "idle" /\ job' \in [Writers -> Job] /\ job'[Tool] = Resting
      /\ \A v \in Workers : job'[v] = job[v]
  <2>1. 0 \in 0 .. MaxAttempts /\ 0 \in Nat
    BY BoundsAssumption
  <2>2. Resting \in Job /\ Resting.at = "idle"
    BY <2>1 DEF Resting, Job
  <2> QED BY <1>1, <2>2, ToolIs
<1>3. TypeOK'
  BY <1>1, <1>2 DEF Inv, TypeOK
<1>4. Rows' /\ CopiesInOrder' /\ IntentsAgree'
  BY <1>1, RowsStay, CopiesStay, IntentsStay DEF Inv, Journals
<1>5. \A x \in Named(product.tombstone) \cup Named(auth) :
         /\ x \in ToSet(journal.saved) /\ x \in ToSet(journal.a) /\ x \in ToSet(journal.b)
         /\ auth[Owner(x)] = x
  <2>1. \A x \in Named(product.tombstone) \cup Named(auth) :
           x \in ToSet(journal.saved) /\ auth[Owner(x)] = x
    BY <1>1, ToolIs
  <2> QED BY <2>1 DEF Inv, Journals, CopiesInOrder
<1>6. DenialsAreJournaled'
  <2>1. \A a \in Accounts : {product.tombstone[a], auth[a]} \ {None} \subseteq Named(product.tombstone) \cup Named(auth)
    BY DEF Named
  <2>2. ToSet(journal.a)' = ToSet(journal.a) /\ ToSet(journal.b)' = ToSet(journal.b)
    BY <1>1 DEF ToSet
  <2> QED BY <1>1, <1>5, <2>1, <2>2 DEF DenialsAreJournaled
<1>7. /\ wire = {} /\ \A v \in Workers : job[v].at = "idle" /\ ~job[v].session
      /\ \A a \in Accounts : user[a].at = "idle"
  BY <1>1 DEF Inv, Sides, OneSideWorks, Works, JobsFollow, Claiming
<1>8. OneSideWorks' /\ FencesHold' /\ DenialsAreMade'
  <2>1. OneSideWorks' /\ FencesHold'
    BY <1>1, <1>2, <1>7 DEF OneSideWorks, FencesHold, Shared
  <2>2. ASSUME NEW a \in Accounts, auth[a] # None PROVE product.tombstone[a] = auth[a]
    <3>1. auth[a] \in Named(auth) /\ Owner(auth[a]) = a
      BY <2>2, Known DEF Named
    <3> QED BY <1>1, <3>1, ToolIs DEF Resume
  <2> QED BY <1>1, <1>7, <2>1, <2>2 DEF DenialsAreMade
<1>9. JobsFollow' /\ ClaimsFollow'
  BY <1>2, <1>7 DEF JobsFollow, ClaimsFollow, FollowsClaim, Claiming, Writers
<1>10. ToolFollows'
  BY <1>2 DEF ToolFollows
<1>11. CompletedIsDenied'
  <2>1. ASSUME NEW x \in Held, product.requests[x].status = "completed"
        PROVE  auth[Owner(x)] = x
    <3>1. x \in HeldBy(product) /\ product.tombstone[Owner(x)] = x
      BY <2>1 DEF Held, HeldBy, Inv, Rows, RowsAgree
    <3>2. Owner(x) \in Accounts /\ x # None
      BY <3>1, Known, Types, Facts DEF Inv
    <3>3. x \in Named(product.tombstone)
      BY <3>1, <3>2 DEF Named
    <3> QED BY <1>5, <3>3
  <2>2. Held' = Held /\ \A x : Owner(x)' = Owner(x)
    BY <1>1 DEF Held, Owner
  <2> QED BY <1>1, <2>1, <2>2 DEF CompletedIsDenied
<1> QED BY <1>3, <1>4, <1>6, <1>8, <1>9, <1>10, <1>11 DEF Inv, Journals, Sides, Works

LEMMA BackupSteps ==
  ASSUME Inv, TakeBackup \/ Quiesce
  PROVE  Inv'
<1>1. CASE TakeBackup
  <2>1. backup' = product /\ UNCHANGED <<issued, due, product, auth, journal, user, job, plan, wire, serving>>
    BY <1>1 DEF TakeBackup
  <2>2. TypeOK'
    BY <2>1 DEF Inv, TypeOK
  <2>3. Rows'
    <3>1. RowsAgree(product) /\ GenerationsCount
      BY DEF Inv, Rows
    <3>2. RowsAgree(product)' /\ RowsAgree(backup)'
      BY <2>1, <3>1 DEF RowsAgree, HeldBy, Owner, ToSet
    <3> QED BY <2>1, <3>1, <3>2 DEF Rows, GenerationsCount
  <2>4. IntentsAgree'
    <3>1. /\ Intents' = Intents /\ \A x : Owner(x)' = Owner(x)
          /\ Named(backup.tombstone)' = Named(product.tombstone)
      BY <2>1 DEF Intents, Owner, Named, ToSet
    <3>2. Named(product.tombstone) \subseteq Intents
      BY DEF Intents
    <3> QED BY <3>1, <3>2 DEF Inv, Journals, IntentsAgree
  <2>5. CopiesInOrder' /\ DenialsAreJournaled' /\ DenialsAreMade'
    BY <2>1, CopiesStay, DenialsStay, MadeStay DEF Inv, Journals, Sides
  <2>6. FencesHold' /\ JobsFollow' /\ ClaimsFollow' /\ ToolFollows' /\ CompletedIsDenied'
    BY <2>1, FencesStay, JobsStay, ClaimsStay, ToolStays, CompletedStay DEF Claiming, Inv, Sides, Works
  <2>7. OneSideWorks'
    BY <2>1 DEF Inv, Sides, OneSideWorks
  <2> QED BY <2>2, <2>3, <2>4, <2>5, <2>6, <2>7 DEF Inv, Journals, Sides, Works
<1>2. CASE Quiesce
  <2>1. /\ serving /\ wire = {} /\ \A w \in Workers : job[w].at = "idle"
        /\ \A a \in Accounts : user[a].at = "idle"
        /\ serving' = FALSE
        /\ UNCHANGED <<issued, due, product, backup, auth, journal, user, job, plan, wire>>
    BY <1>2 DEF Quiesce
  <2>2. TypeOK'
    BY <2>1 DEF Inv, TypeOK
  <2>3. Rows' /\ CopiesInOrder' /\ IntentsAgree' /\ DenialsAreJournaled'
    BY <2>1, RowsStay, CopiesStay, IntentsStay, DenialsStay DEF Inv, Journals
  <2>4. OneSideWorks'
    BY <2>1 DEF Inv, Sides, OneSideWorks
  <2>5. FencesHold' /\ DenialsAreMade'
    BY <2>1, FencesStay, MadeStay DEF Claiming, Inv, Sides
  <2>6. JobsFollow' /\ ClaimsFollow' /\ ToolFollows' /\ CompletedIsDenied'
    BY <2>1, JobsStay, ClaimsStay, ToolStays, CompletedStay DEF Inv, Works
  <2> QED BY <2>2, <2>3, <2>4, <2>5, <2>6 DEF Inv, Journals, Sides, Works
<1> QED BY <1>1, <1>2

LEMMA RestoreSteps ==
  ASSUME Inv, RestoreProduct \/ RestoreAuth \/ Repair
  PROVE  Inv'
<1>1. /\ ~serving /\ job[Tool].at = "idle"
      /\ UNCHANGED <<issued, due, backup, user, job, plan, wire, serving>>
  BY DEF RestoreProduct, RestoreAuth, Repair
<1>2. Sides' /\ DenialsAreJournaled' /\ JobsFollow' /\ ClaimsFollow' /\ CompletedIsDenied'
  BY <1>1, Stopped
<1>3. ToolFollows'
  BY <1>1 DEF ToolFollows
<1>4. CASE RestoreProduct
  <2>1. product' = backup /\ UNCHANGED <<auth, journal>>
    BY <1>4 DEF RestoreProduct
  <2>2. TypeOK'
    BY <1>1, <2>1 DEF Inv, TypeOK
  <2>3. Rows'
    <3>1. RowsAgree(backup) /\ GenerationsCount
      BY DEF Inv, Rows
    <3>2. RowsAgree(product)' /\ RowsAgree(backup)'
      BY <1>1, <2>1, <3>1 DEF RowsAgree, HeldBy, Owner, ToSet
    <3> QED BY <1>1, <3>1, <3>2 DEF Rows, GenerationsCount
  <2>4. IntentsAgree'
    <3>1. /\ \A x : Owner(x)' = Owner(x)
          /\ Named(backup.tombstone)' = Named(backup.tombstone)
          /\ Intents' = ToSet(journal.a) \cup Named(backup.tombstone)
      BY <1>1, <2>1 DEF Intents, Owner, Named, ToSet
    <3>2. /\ \A x, y \in Intents : Owner(x) = Owner(y) => x = y
          /\ Named(backup.tombstone) \subseteq Intents /\ ToSet(journal.a) \subseteq Intents
      BY DEF Inv, Journals, IntentsAgree, Intents
    <3> QED BY <3>1, <3>2 DEF IntentsAgree
  <2>5. CopiesInOrder'
    BY <1>1, <2>1, CopiesStay DEF Inv, Journals
  <2> QED BY <1>2, <1>3, <2>2, <2>3, <2>4, <2>5 DEF Inv, Journals, Works
<1>5. CASE RestoreAuth
  <2>1. PICK missed \in SUBSET Accounts :
           auth' = [a \in Accounts |-> IF a \in missed THEN None ELSE auth[a]]
    BY <1>5 DEF RestoreAuth
  <2>2. UNCHANGED <<product, journal>>
    BY <1>5 DEF RestoreAuth
  <2>3. auth' \in [Accounts -> Ids \cup {None}] /\ \A a \in Accounts : auth'[a] \in {None, auth[a]}
    <3>1. auth \in [Accounts -> Ids \cup {None}]
      BY DEF Inv, TypeOK
    <3> QED BY <2>1, <3>1
  <2>4. TypeOK'
    BY <1>1, <2>2, <2>3 DEF Inv, TypeOK
  <2>5. Rows' /\ IntentsAgree'
    BY <1>1, <2>2, RowsStay, IntentsStay DEF Inv, Journals
  <2>6. CopiesInOrder'
    <3>1. /\ ToSet(journal.a)' = ToSet(journal.a) /\ ToSet(journal.b)' = ToSet(journal.b)
          /\ ToSet(journal.saved)' = ToSet(journal.saved) /\ \A x : Owner(x)' = Owner(x)
      BY <1>1, <2>2 DEF ToSet, Owner
    <3>2. \A a \in Accounts : auth'[a] # None => auth'[a] \in ToSet(journal.a) /\ Owner(auth'[a]) = a
      BY <2>3 DEF Inv, Journals, CopiesInOrder
    <3> QED BY <1>1, <3>1, <3>2 DEF Inv, Journals, CopiesInOrder
  <2> QED BY <1>2, <1>3, <2>4, <2>5, <2>6 DEF Inv, Journals, Works
<1>6. CASE Repair
  <2>1. /\ journal'.a = journal.a /\ journal'.b = journal.a /\ journal'.saved = journal.a
        /\ journal' \in Journal /\ UNCHANGED <<product, auth>>
    <3>1. journal.a \in Seq(Ids)
      BY Types DEF Inv
    <3> QED BY <1>6, <3>1 DEF Repair, Journal
  <2>2. TypeOK'
    BY <1>1, <2>1 DEF Inv, TypeOK
  <2>3. Rows' /\ IntentsAgree'
    BY <1>1, <2>1, RowsStay, IntentsStay DEF Inv, Journals
  <2>4. CopiesInOrder'
    <3>1. /\ ToSet(journal.a)' = ToSet(journal.a) /\ ToSet(journal.b)' = ToSet(journal.a)
          /\ ToSet(journal.saved)' = ToSet(journal.a) /\ \A x : Owner(x)' = Owner(x)
      BY <1>1, <2>1 DEF ToSet, Owner
    <3>2. wire = {}
      BY <1>1 DEF Inv, Sides, OneSideWorks
    <3> QED BY <1>1, <2>1, <3>1, <3>2 DEF Inv, Journals, CopiesInOrder
  <2> QED BY <1>2, <1>3, <2>2, <2>3, <2>4 DEF Inv, Journals, Works
<1> QED BY <1>4, <1>5, <1>6

------------------------------------------------------------------------------
\* The invariant holds.

\* At first the journal is empty, and at most one account is half deleted.
LEMMA InitInv ==
  ASSUME Init
  PROVE  Inv
<1>1. /\ backup = product /\ due = DOMAIN issued /\ auth = [a \in Accounts |-> None]
      /\ journal = [a |-> <<>>, b |-> <<>>, saved |-> <<>>, locked |-> FALSE]
      /\ user = [a \in Accounts |-> Away] /\ job = [w \in Writers |-> Resting]
      /\ plan = {} /\ wire = {} /\ serving = FALSE
  BY DEF Init
<1>2. /\ Away \in User /\ Away.at = "idle" /\ Resting \in Job /\ Resting.at = "idle"
      /\ Tool \in Writers /\ Workers \subseteq Writers /\ None \notin Ids /\ None \notin Request
      /\ 1 \in Ids /\ MaxRequests \in Nat /\ 1 <= MaxRequests
  <2>1. 0 \in 0 .. MaxAttempts /\ 0 \in Nat
    BY BoundsAssumption
  <2>2. 1 \in Ids /\ MaxRequests \in Nat /\ 1 <= MaxRequests
    BY BoundsAssumption DEF Ids
  <2> QED BY <2>1, <2>2, Facts DEF Away, User, Resting, Job
<1>3. /\ journal.a = <<>> /\ journal.b = <<>> /\ journal.saved = <<>>
      /\ journal \in Journal /\ ToSet(journal.a) = {} /\ ToSet(journal.b) = {} /\ ToSet(journal.saved) = {}
  <2>1. <<>> \in Seq(Ids) /\ ToSet(<<>>) = {}
    BY DEF ToSet
  <2>2. journal.a = <<>> /\ journal.b = <<>> /\ journal.saved = <<>> /\ journal \in Journal
    BY <1>1, <2>1 DEF Journal
  <2> QED BY <2>1, <2>2
<1>4. /\ \A a \in Accounts : user[a].at = "idle" /\ auth[a] = None
      /\ \A w \in Writers : job[w] = Resting /\ job[w].at = "idle"
      /\ job[Tool].at = "idle" /\ \A w \in Workers : job[w].at = "idle"
  BY <1>1, <1>2
<1>5. /\ issued \in Seq([account: Accounts, generation: Ids]) /\ Len(issued) <= MaxRequests
      /\ product \in Product /\ RowsAgree(product) /\ GenerationsCount
      /\ \A x, y \in Named(product.tombstone) : x = y
      /\ \A id \in HeldBy(product) : product.requests[id].status # "cancelled"
  <2>1. CASE /\ issued = <<>>
             /\ product = [requests |-> [id \in Ids |-> None],
                           tombstone |-> [a \in Accounts |-> None], seen |-> None]
    <3>1. /\ product.requests = [id \in Ids |-> None] /\ product.seen = None
          /\ product.tombstone = [a \in Accounts |-> None] /\ product \in Product
      BY <2>1 DEF Product
    <3>2. HeldBy(product) = {} /\ \A a \in Accounts : product.tombstone[a] = None
      BY <3>1 DEF HeldBy
    <3>3. RowsAgree(product) /\ Named(product.tombstone) = {}
      BY <3>1, <3>2 DEF RowsAgree, Named
    <3>4. /\ issued \in Seq([account: Accounts, generation: Ids]) /\ Len(issued) <= MaxRequests
          /\ GenerationsCount
      BY <1>2, <2>1 DEF GenerationsCount
    <3> QED BY <3>1, <3>2, <3>3, <3>4
  <2>2. ASSUME NEW gone \in Accounts,
               issued = << [account |-> gone, generation |-> 1] >>,
               product = [requests |-> [id \in Ids |-> IF id # 1 THEN None ELSE
                             [status |-> "processing", attempts |-> 1, lease |-> "over"]],
                          tombstone |-> [a \in Accounts |-> IF a = gone THEN 1 ELSE None],
                          seen |-> None]
        PROVE  <1>5!:
    <3>1. PICK r : r = [status |-> "processing", attempts |-> 1, lease |-> "over"]
      OBVIOUS
    <3>2. r \in Request /\ r.status = "processing" /\ r # None
      <4>1. 1 \in 0 .. MaxAttempts
        BY BoundsAssumption
      <4>2. r \in Request /\ r.status = "processing"
        BY <3>1, <4>1 DEF Request
      <4> QED BY <1>2, <4>2
    <3>3. /\ product.requests = [id \in Ids |-> IF id # 1 THEN None ELSE r]
          /\ product.tombstone = [a \in Accounts |-> IF a = gone THEN 1 ELSE None]
          /\ product.seen = None
      BY <2>2, <3>1
    <3>4. product \in Product
      <4>1. /\ product.requests \in [Ids -> Request \cup {None}]
            /\ product.tombstone \in [Accounts -> Ids \cup {None}]
        BY <1>2, <3>2, <3>3
      <4>2. product = [requests |-> product.requests, tombstone |-> product.tombstone, seen |-> product.seen]
        BY <2>2
      <4> QED BY <3>3, <4>1, <4>2 DEF Product
    <3>5. PICK e : e = [account |-> gone, generation |-> 1]
      OBVIOUS
    <3>6. e \in [account: Accounts, generation: Ids] /\ e.account = gone /\ e.generation = 1
      BY <1>2, <3>5
    <3>7. /\ issued \in Seq([account: Accounts, generation: Ids]) /\ Len(issued) = 1
          /\ DOMAIN issued = {1} /\ issued[1] = e
      <4>1. PICK S : S = [account: Accounts, generation: Ids]
        OBVIOUS
      <4>2. issued = <<e>> /\ e \in S
        BY <2>2, <3>5, <3>6, <4>1
      <4> QED BY <4>1, <4>2
    <3>8. HeldBy(product) = {1} /\ product.requests[1] = r /\ product.requests[1].status = "processing"
      BY <1>2, <3>2, <3>3 DEF HeldBy
    <3>9. /\ Owner(1) = gone /\ product.tombstone[gone] = 1
          /\ \A a \in Accounts : product.tombstone[a] # None => a = gone /\ product.tombstone[a] = 1
      BY <3>3, <3>6, <3>7 DEF Owner
    <3>10. RowsAgree(product) /\ GenerationsCount
      BY <3>3, <3>6, <3>7, <3>8, <3>9 DEF RowsAgree, GenerationsCount
    <3>11. \A x, y \in Named(product.tombstone) : x = y
      BY <3>9 DEF Named
    <3> QED BY <1>2, <3>4, <3>7, <3>8, <3>10, <3>11
  <2> QED BY <2>1, <2>2 DEF Init
<1>6. TypeOK
  BY <1>1, <1>2, <1>3, <1>5 DEF TypeOK
<1>7. Rows
  BY <1>1, <1>5 DEF Rows
<1>8. CopiesInOrder /\ DenialsAreJournaled
  BY <1>1, <1>3, <1>4 DEF CopiesInOrder, DenialsAreJournaled
<1>9. IntentsAgree
  <2>1. Intents = Named(product.tombstone)
    BY <1>3 DEF Intents
  <2> QED BY <1>1, <1>3, <1>5, <2>1 DEF IntentsAgree
<1>10. OneSideWorks /\ FencesHold /\ DenialsAreMade
  BY <1>1, <1>4 DEF OneSideWorks, FencesHold, Shared, DenialsAreMade
<1>11. JobsFollow /\ ClaimsFollow /\ ToolFollows /\ CompletedIsDenied
  <2>1. Claiming = {}
    BY <1>2, <1>4 DEF Claiming, Resting
  <2>2. ClaimsFollow
    BY <1>2, <1>4, <2>1 DEF ClaimsFollow, FollowsClaim, Resting
  <2> QED BY <1>1, <1>4, <2>1, <2>2 DEF JobsFollow, ToolFollows, CompletedIsDenied
<1> QED BY <1>6, <1>7, <1>8, <1>9, <1>10, <1>11 DEF Inv, Journals, Sides, Works

LEMMA StepInv ==
  ASSUME Inv, [Next]_vars
  PROVE  Inv'
<1>1. ASSUME NEW a \in Accounts,
             \/ Begin(a) \/ Access(a) \/ Admit(a) \/ Leave(a)
             \/ RequestDeletion(a) \/ CancelDeletion(a)
      PROVE  Inv'
  BY <1>1, UserSteps, RequestSteps, CancelSteps
<1>2. ASSUME NEW id \in Ids,
             GraceEnds(id) \/ LeaseEnds(id) \/ Apply(id) \/ Lose(id) \/ ReplayProduct(id)
      PROVE  Inv'
  BY <1>2, GraceSteps, LeaseSteps, ApplySteps, LoseSteps, ReplaySteps
<1>3. ASSUME NEW w \in Workers,
             Claim(w) \/ LoseSession(w) \/ Commit(w) \/ TimeOut(w) \/ Finish(w)
      PROVE  Inv'
  BY <1>3, ClaimSteps, LoseSessionSteps, CommitSteps, TimeOutSteps, FinishSteps
<1>4. ASSUME NEW w \in Writers,
             \/ CopyFirst(w) \/ CopySecond(w) \/ SaveCheckpoint(w) \/ Unlock(w)
             \/ Fail(w) \/ Crash(w)
      PROVE  Inv'
  BY <1>4, WriteSteps, FallSteps
<1>5. CASE TakeBackup \/ Quiesce \/ RestoreProduct \/ RestoreAuth \/ Repair
  BY <1>5, BackupSteps, RestoreSteps
<1>6. CASE Review \/ WriteMissing \/ ReplayAuth \/ InstallCheckpoint \/ Resume
  BY <1>6, ReviewSteps, MissingSteps, ReplayAuthSteps, InstallSteps, ResumeSteps
<1>7. CASE UNCHANGED vars
  <2>1. UNCHANGED <<issued, due, product, backup, auth, journal, user, job, plan, wire, serving>>
    BY <1>7 DEF vars
  <2>2. TypeOK'
    BY <2>1 DEF Inv, TypeOK
  <2>3. \A id \in Ids : Turns(id)
    BY <2>1 DEF Turns
  <2> QED BY <2>1, <2>2, <2>3, RequestsTurn DEF EachRests
<1> QED BY <1>1, <1>2, <1>3, <1>4, <1>5, <1>6, <1>7 DEF Next

LEMMA Invariance == Spec => []Inv
<1>1. Init => Inv
  BY InitInv
<1>2. Inv /\ [Next]_vars => Inv'
  BY StepInv
<1> QED BY <1>1, <1>2, PTL DEF Spec

\* Only readiness admits.
LEMMA AdmitAdmits ==
  ASSUME Inv, [Next]_vars, NEW a \in Accounts, user[a].at # "admitted", user'[a].at = "admitted"
  PROVE  user[a].at = "fenced" /\ Ready
<1>1. user \in [Accounts -> User] /\ Away.at = "idle" /\ user' # user
  BY DEF Inv, TypeOK, Away
<1>2. PICK b \in Accounts : \/ Begin(b) \/ Access(b) \/ Admit(b) \/ Leave(b)
                           \/ RequestDeletion(b) \/ CancelDeletion(b)
  BY <1>1 DEF Next, vars, GraceEnds, LeaseEnds, Apply, Lose, ReplayProduct, Claim, LoseSession,
       Commit, TimeOut, Finish, CopyFirst, CopySecond, SaveCheckpoint, Unlock, Fail, Crash,
       TakeBackup, Quiesce, RestoreProduct, RestoreAuth, Repair, Review, WriteMissing,
       ReplayAuth, InstallCheckpoint, Resume
<1>3. CASE Begin(b)
  BY <1>1, <1>3 DEF Begin
<1>4. CASE Access(b)
  <2>1. PICK u : u = [user[b] EXCEPT !.at = "fenced"]
    OBVIOUS
  <2>2. u.at = "fenced"
    BY <1>1, <2>1 DEF User
  <2>3. user' = [user EXCEPT ![b] = u] \/ user' = [user EXCEPT ![b] = Away]
    BY <1>1, <1>4, <2>1 DEF Access, Turn, Return
  <2> QED BY <1>1, <2>2, <2>3
<1>5. CASE Admit(b)
  BY <1>1, <1>5 DEF Admit, Turn, Return
<1>6. CASE Leave(b) \/ RequestDeletion(b) \/ CancelDeletion(b)
  BY <1>1, <1>6 DEF Leave, RequestDeletion, CancelDeletion, Return
<1> QED BY <1>2, <1>3, <1>4, <1>5, <1>6

------------------------------------------------------------------------------
\* Results.

\* Rows, journals, transactions and jobs of account_lifecycle_worker.js,
\* _journal.js and _recovery.js keep their types.
THEOREM TypeCorrect == Spec => []TypeOK
<1>1. Inv => TypeOK
  BY DEF Inv
<1> QED BY <1>1, Invariance, PTL

\* assert_access and readiness of withUserClient, in db.js, admit nobody once a
\* frame of the account's deletion is in either copy of the journal, though the
\* worker that wrote it may have lost its session.
THEOREM AdmittedFirst == Spec => AdmittedBeforeIntent
<1>1. ASSUME Inv, [Next]_vars, NEW a \in Accounts,
             user[a].at # "admitted", user'[a].at = "admitted",
             NEW i \in ToSet(journal.a) \cup ToSet(journal.b)
      PROVE  Owner(i) # a
  <2>1. user[a].at = "fenced" /\ Ready
    BY <1>1, AdmitAdmits
  <2>2. i \in ToSet(product.seen) /\ product.seen # None /\ product.tombstone[a] = None
    <3>1. journal.a = product.seen /\ journal.b = product.seen
      BY <2>1 DEF Ready, Agreed
    <3>2. serving
      BY <1>1, <2>1 DEF Inv, Sides, OneSideWorks
    <3>3. product.tombstone[a] = None
      BY <1>1, <2>1 DEF Inv, Sides, FencesHold, Shared
    <3> QED BY <1>1, <3>1, <3>2, <3>3 DEF Inv, Sides, OneSideWorks
  <2>3. product.tombstone[Owner(i)] = i /\ i # None
    BY <1>1, <2>2, Known, Types, Facts DEF Inv, Rows, RowsAgree
  <2> QED BY <2>2, <2>3
<1>2. Inv /\ [Next]_vars =>
         [\A a \in Accounts :
            user[a].at # "admitted" /\ user'[a].at = "admitted" =>
                \A i \in ToSet(journal.a) \cup ToSet(journal.b) : Owner(i) # a]_vars
  BY <1>1
<1> QED BY <1>2, Invariance, PTL DEF Spec, AdmittedBeforeIntent

\* A claim does not commit its tombstone, nor is the other service asked to deny
\* the account, while a transaction of the account holds its shared fence.
THEOREM DeniedIsOver == Spec => []NobodyCommitsDenied
<1>1. ASSUME Inv, NEW a \in Accounts, user[a].at = "admitted"
      PROVE  product.tombstone[a] = None /\ auth[a] = None
  <2>1. serving /\ product.tombstone[a] = None
    BY <1>1 DEF Inv, Sides, OneSideWorks, FencesHold, Shared
  <2> QED BY <1>1, <2>1 DEF Inv, Sides, DenialsAreMade
<1>2. Inv => NobodyCommitsDenied
  BY <1>1 DEF NobodyCommitsDenied
<1> QED BY <1>2, Invariance, PTL

\* runOnce writes to both copies before it commits, and reconcile before it lets
\* the services start: each denial of either database is in both copies.
THEOREM BothCopiesTell == Spec => []DenialsAreJournaled
<1>1. Inv => DenialsAreJournaled
  BY DEF Inv, Journals
<1> QED BY <1>1, Invariance, PTL

\* collectRetainedTombstones, of account_lifecycle_replay_plan.js, never meets two
\* requests of one account in the journal, the databases and a backup.
THEOREM NoConflict == Spec => []OneIntentPerAccount
<1>1. Inv => OneIntentPerAccount
  <2>1. SUFFICES ASSUME Inv PROVE OneIntentPerAccount
    OBVIOUS
  <2>2. Told = Intents /\ \A x, y \in Intents : Owner(x) = Owner(y) => x = y
    BY <2>1, ToolIs
  <2>3. Named(backup.tombstone) \subseteq Intents
    BY <2>1 DEF Inv, Journals, IntentsAgree
  <2> QED BY <2>2, <2>3 DEF OneIntentPerAccount, Named
<1> QED BY <1>1, Invariance, PTL

\* When readiness lets the API admit anyone, advance_journal has enforced every
\* intent of the journal.
THEOREM ReadyIsEnforced == Spec => []AdmissionMeansEnforced
<1>1. Inv => AdmissionMeansEnforced
  <2>1. SUFFICES ASSUME Inv, serving, Ready, NEW id \in ToSet(journal.saved)
                 PROVE  product.tombstone[Owner(id)] = id
    BY DEF AdmissionMeansEnforced
  <2>2. product.seen # None /\ product.seen = journal.saved
    BY <2>1 DEF Ready, Inv, Sides, OneSideWorks
  <2> QED BY <2>1, <2>2 DEF Inv, Rows, RowsAgree
<1> QED BY <1>1, Invariance, PTL

\* finish reports a deletion as completed only when apply_account_deletion has
\* been answered; a restore is replayed before the services start.
THEOREM CompletedIsApplied == Spec => []CompletedIsDenied
<1>1. Inv => CompletedIsDenied
  BY DEF Inv, Works
<1> QED BY <1>1, Invariance, PTL

==============================================================================
