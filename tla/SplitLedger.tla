----------------------------- MODULE SplitLedger -----------------------------
(***************************************************************************)
(* The money side of one shared-expense context: proposals, approvals, the *)
(* accepted head of every expense, reported and confirmed settlements, and *)
(* the balances they post.  Every action is one SQL command of the schema  *)
(* shared_expenses, executed under the context row lock, so it is atomic   *)
(* here.  What a command reads BEFORE it waits for that lock can be stale  *)
(* when it runs; `late' holds the profiles whose command passed the        *)
(* authorization check before they left and still waits for the lock.      *)
(* Roles and invitations are in SplitMembership, receipts in SplitSync. *)
(***************************************************************************)
EXTENDS Integers, FiniteSets, Functions

CONSTANTS
    Members,       \* member ids: integers, so that a pair has a low and a high end
    Founder,       \* the member that created the context and owns it
    Profiles,      \* accounts
    FounderProfile,
    NoProfile,     \* profile_id IS NULL
    Expenses,
    RevIds,        \* client-chosen revision ids
    NoRevision,    \* accepted_revision_id IS NULL
    SettlementIds,
    Bills,         \* the projected snapshots a client may submit
    Amounts,       \* settlement amounts
    GrossCap       \* the cap on the sum of absolute pair balances

Pairs == {p \in Members \X Members : p[1] < p[2]}

\* What _project_snapshot and _validate_bill leave of a proposal's payload.
\* owes[p] > 0 means that the high member of p owes the low one.
BillType == [parties: SUBSET Members, charged: SUBSET Members,
             contributors: SUBSET Members, sources: SUBSET Members,
             owes: [Pairs -> Int]]

Void == [parties |-> {}, charged |-> {}, contributors |-> {},
         sources |-> {}, owes |-> [p \in Pairs |-> 0]]

ASSUME MembersAssumption == Members \subseteq Int /\ Founder \in Members
\* Members, expenses and settlements are uuid rows: there are only so many.
ASSUME FiniteAssumption ==
    IsFiniteSet(Members) /\ IsFiniteSet(Expenses) /\ IsFiniteSet(SettlementIds)
ASSUME CapAssumption == GrossCap \in Nat
ASSUME ProfilesAssumption == FounderProfile \in Profiles /\ NoProfile \notin Profiles
ASSUME RevisionsAssumption == NoRevision \notin RevIds
ASSUME AmountsAssumption == Amounts \subseteq Nat \ {0}
\* Every end of an obligation has paid or owes a share: an edge joins a
\* debtor and a creditor of the projection, whose paid and share differ.
ASSUME BillsAssumption ==
    /\ Bills \subseteq BillType
    /\ \A b \in Bills : /\ b.charged \subseteq b.parties
                        /\ \A p \in Pairs : b.owes[p] # 0 => {p[1], p[2]} \subseteq b.charged

VARIABLES
    accounts,      \* public.profiles: the accounts not deleted
    profile,       \* members.profile_id
    state,         \* members.state; "none" where there is no row
    revision,      \* expense_revisions with their revision_members
    approvals,     \* revision_approvals
    head,          \* expenses.accepted_revision_id
    posted,        \* the revisions that have journal entries
    settlement,    \* settlement_reports with their terminal event
    pair,          \* pair_balances; 0 where there is no row
    bal,           \* member_balances; 0 where there is no row
    settings,      \* the operator's feature flags
    late           \* profiles with an authorized command that outlived their membership

members == <<accounts, profile, state, late>>
proposals == <<revision, approvals>>
ledger == <<head, posted, pair, bal>>
vars == <<accounts, profile, state, revision, approvals, head, posted, settlement,
          pair, bal, settings, late>>

------------------------------------------------------------------------------

Revision == [expense: Expenses, prev: RevIds \cup {NoRevision},
             rows: SUBSET Members, charged: SUBSET Members,
             required: SUBSET Members, sources: SUBSET Members,
             frozen: [Members -> Profiles \cup {NoProfile}],
             owes: [Pairs -> Int]]

ASSUME NoRevisionAssumption == NoRevision \notin Revision

Approval == [rev: RevIds, member: Members, by: Profiles, decision: {"approve", "reject"}]

NoSettlement == [status |-> "none"]

Settlement == [status: {"reported", "confirmed", "rejected"},
               payer: Members, receiver: Members, amount: Amounts]

TypeOK ==
    /\ accounts \subseteq Profiles
    /\ profile \in [Members -> Profiles \cup {NoProfile}]
    /\ state \in [Members -> {"none", "invited", "active", "declined", "left"}]
    /\ revision \in [RevIds -> Revision \cup {NoRevision}]
    /\ approvals \subseteq Approval
    /\ head \in [Expenses -> RevIds \cup {NoRevision}]
    /\ posted \subseteq RevIds
    /\ settlement \in [SettlementIds -> Settlement \cup {NoSettlement}]
    /\ pair \in [Pairs -> Int]
    /\ bal \in [Members -> Int]
    /\ settings \in [acceptedWrites: BOOLEAN, settlements: BOOLEAN]
    /\ late \subseteq Profiles

Init ==
    /\ accounts = Profiles
    /\ profile = [m \in Members |-> IF m = Founder THEN FounderProfile ELSE NoProfile]
    /\ state = [m \in Members |-> IF m = Founder THEN "active" ELSE "none"]
    /\ revision = [r \in RevIds |-> NoRevision]
    /\ approvals = {}
    /\ head = [e \in Expenses |-> NoRevision]
    /\ posted = {}
    /\ settlement = [s \in SettlementIds |-> NoSettlement]
    /\ pair = [p \in Pairs |-> 0]
    /\ bal = [m \in Members |-> 0]
    /\ settings \in [acceptedWrites: BOOLEAN, settlements: BOOLEAN]
    /\ late = {}

------------------------------------------------------------------------------
\* Helpers.

known == {r \in RevIds : revision[r] # NoRevision}

CanRead(a) == \E m \in Members : profile[m] = a /\ state[m] = "active"

\* The check passed when the command started; a late one leaves `late'.
Authorized(a) == CanRead(a) \/ a \in late

Present == {m \in Members : state[m] \in {"invited", "active"}}

Abs(n) == IF n < 0 THEN -n ELSE n

Gross(pairs) == SumFunction([p \in Pairs |-> Abs(pairs[p])])

\* Mutant: only the low end is booked.
LowIncidence(pairs, m) == SumFunctionOnSet(pairs, {p \in Pairs : p[1] = m})

\* What a set of pair amounts does to one member: the low end gains, the
\* high end loses.
Incidence(pairs, m) ==
    SumFunctionOnSet(pairs, {p \in Pairs : p[1] = m})
      - SumFunctionOnSet(pairs, {p \in Pairs : p[2] = m})

\* Mutant: the effect replaces the row instead of adding to it.
OverwritePairs(delta) ==
    /\ pair' = [p \in Pairs |-> IF delta[p] # 0 THEN delta[p] ELSE pair[p]]
    /\ bal' = [m \in Members |-> bal[m] + Incidence(delta, m)]
    /\ Gross(pair') <= GrossCap

\* Mutant: no gross cap.
PostUncapped(delta) ==
    /\ pair' = [p \in Pairs |-> pair[p] + delta[p]]
    /\ bal' = [m \in Members |-> bal[m] + Incidence(delta, m)]

\* _post_pair for every line of one effect, followed by the gross cap that
\* aborts the whole command.
PostPairs(delta) ==
    /\ pair' = [p \in Pairs |-> pair[p] + delta[p]]
    /\ bal' = [m \in Members |-> bal[m] + Incidence(delta, m)]
    /\ Gross(pair') <= GrossCap

\* The reviewer frozen at submission, or the account that claimed the member
\* later and is active.
ReviewProfile(rec, m) ==
    IF rec.frozen[m] # NoProfile THEN rec.frozen[m]
    ELSE IF state[m] = "active" THEN profile[m]
    ELSE NoProfile

\* Mutant: a member nobody has claimed yet does not count.
ConsentedByAccounts(rec, r, given) ==
    \A m \in {n \in rec.required : ReviewProfile(rec, n) # NoProfile} :
        [rev |-> r, member |-> m, by |-> ReviewProfile(rec, m), decision |-> "approve"] \in given

Consented(rec, r, given) ==
    \A m \in rec.required :
        /\ ReviewProfile(rec, m) # NoProfile
        /\ [rev |-> r, member |-> m, by |-> ReviewProfile(rec, m), decision |-> "approve"] \in given

HeadOwes(e) == IF head[e] = NoRevision THEN Void.owes ELSE revision[head[e]].owes

\* Mutant: the edit is booked on top of the revision it replaces.
EffectWithoutReversal(rec) == rec.owes

\* The edges the revision adds, less the edges of the one it replaces.
Effect(rec) == [p \in Pairs |-> rec.owes[p] - HeadOwes(rec.expense)[p]]

\* Mutant: an approval is accepted whatever the head is by now.
AlwaysCurrent(rec) == TRUE

\* The revision was written against the head its expense still has.
Current(rec) == head[rec.expense] = rec.prev

\* _accept_revision past its head check: `given' are the approvals with the
\* caller's own.  The three waiting results leave the ledger alone.  Every
\* review profile is NULL to a caller that has left, so a late caller waits.
AcceptRevision(a, r, rec, given) ==
    IF CanRead(a) /\ Consented(rec, r, given) /\ settings.acceptedWrites /\ rec.sources = {}
    THEN /\ PostPairs(Effect(rec))
         /\ head' = [head EXCEPT ![rec.expense] = r]
         /\ posted' = posted \cup {r}
    ELSE UNCHANGED ledger

------------------------------------------------------------------------------
\* Membership, as far as money depends on it.

\* invite_member with or without a profile, or a join request by group link.
Invite(m, p) ==
    /\ state[m] = "none"
    /\ p # NoProfile => p \in accounts /\ \A n \in Members : profile[n] # p
    /\ state' = [state EXCEPT ![m] = "invited"]
    /\ profile' = [profile EXCEPT ![m] = p]
    /\ UNCHANGED <<accounts, proposals, ledger, settlement, settings, late>>

\* Mutant: the answer of the client is stored as the state.
StoreResponse(m, accept) ==
    /\ state[m] = "invited" /\ profile[m] # NoProfile
    /\ state' = [state EXCEPT ![m] = IF accept THEN "accept" ELSE "decline"]
    /\ UNCHANGED <<accounts, profile, proposals, ledger, settlement, settings, late>>

\* respond_membership.
RespondMembership(m, accept) ==
    /\ state[m] = "invited" /\ profile[m] # NoProfile
    /\ state' = [state EXCEPT ![m] = IF accept THEN "active" ELSE "declined"]
    /\ UNCHANGED <<accounts, profile, proposals, ledger, settlement, settings, late>>

\* _bind_invitation: an account claims an unregistered member.
BindInvitation(m, p) ==
    /\ state[m] = "invited" /\ profile[m] = NoProfile
    /\ p \in accounts /\ \A n \in Members : profile[n] # p
    /\ profile' = [profile EXCEPT ![m] = p]
    /\ state' = [state EXCEPT ![m] = "active"]
    /\ UNCHANGED <<accounts, proposals, ledger, settlement, settings, late>>

\* remove_member: never joined and in no revision.
RemoveMember(m) ==
    /\ m # Founder /\ state[m] = "invited" /\ profile[m] = NoProfile
    /\ \A r \in known : m \notin revision[r].rows
    /\ state' = [state EXCEPT ![m] = "declined"]
    /\ UNCHANGED <<accounts, profile, proposals, ledger, settlement, settings, late>>

\* leave_context under the lock; another command of the same person may have
\* been authorized before and still wait for the lock.
LeaveContext(m) ==
    /\ m # Founder /\ state[m] = "active" /\ profile[m] # NoProfile
    /\ bal[m] = 0
    /\ \A r \in known : m \in revision[r].rows => head[revision[r].expense] # NoRevision
    /\ state' = [state EXCEPT ![m] = "left"]
    /\ late' \in {late, late \cup {profile[m]}}
    /\ UNCHANGED <<accounts, profile, proposals, ledger, settlement, settings>>

\* The account is deleted: members.profile_id is SET NULL by the foreign key.
DeleteAccount(m) ==
    /\ profile[m] # NoProfile
    /\ profile' = [profile EXCEPT ![m] = NoProfile]
    /\ late' = late \ {profile[m]}
    /\ accounts' = accounts \ {profile[m]}
    /\ UNCHANGED <<state, proposals, ledger, settlement, settings>>

------------------------------------------------------------------------------
\* Expenses.

\* Mutant: whoever the edit leaves out has no say.
NewReviewers(b, old) == b.charged \cup b.contributors

\* approval_required: whoever the old head charged reviews the change too.
Reviewers(b, old) == b.charged \cup old.charged \cup old.required \cup b.contributors

\* review_profile_id of every row.
Frozen(rows) == [m \in Members |-> IF m \in rows THEN profile[m] ELSE NoProfile]

\* The revision submit_proposal stores; the rows of the revision it replaces
\* stay in it.
Draft(e, b) ==
    LET prev == head[e]
        old == IF prev = NoRevision THEN [rows |-> {}, charged |-> {}, required |-> {}]
               ELSE revision[prev]
        rows == b.parties \cup old.rows \cup b.contributors
    IN  [expense |-> e, prev |-> prev, rows |-> rows, charged |-> b.charged,
         required |-> Reviewers(b, old),
         sources |-> b.sources,
         frozen |-> Frozen(rows),
         owes |-> b.owes]

\* submit_proposal on the current head; any other expected head aborts.
SubmitProposal(a, e, r, b) ==
    /\ Authorized(a)
    /\ revision[r] = NoRevision
    /\ b = Void => head[e] # NoRevision
    /\ b.parties \cup b.contributors \subseteq Present
    /\ \A m \in b.sources : profile[m] # NoProfile
    /\ LET rec == Draft(e, b)
           own == [rev: {r}, member: {m \in rec.required : rec.frozen[m] = a},
                   by: {a}, decision: {"approve"}]
       IN  /\ revision' = [revision EXCEPT ![r] = rec]
           /\ approvals' = approvals \cup own
           /\ AcceptRevision(a, r, rec, approvals \cup own)
    /\ late' = IF CanRead(a) THEN late ELSE late \ {a}
    /\ UNCHANGED <<accounts, profile, state, settlement, settings>>

\* respond_expense.  The first decision of a member stands; approving again
\* retries the acceptance, and aborts once another revision has the head.
RespondExpense(a, r, decision) ==
    LET rec == revision[r]
        mine == {m \in rec.required : ReviewProfile(rec, m) = a}
        decided == {m \in mine : \E x \in approvals : x.rev = r /\ x.member = m}
        given == approvals \cup [rev: {r}, member: mine \ decided, by: {a}, decision: {decision}]
    IN  /\ r \in known
        /\ CanRead(a)
        /\ mine # {}
        /\ \A x \in approvals : x.rev = r /\ x.by = a => x.decision = decision
        /\ approvals' = given
        /\ \/ decision = "reject" /\ UNCHANGED ledger
           \/ decision = "approve" /\ head[rec.expense] = r /\ UNCHANGED ledger
           \/ decision = "approve" /\ Current(rec) /\ AcceptRevision(a, r, rec, given)
        /\ UNCHANGED <<members, revision, settlement, settings>>

------------------------------------------------------------------------------
\* Settlements.

\* report_settlement: any authorized caller, for two registered active members.
ReportSettlement(a, s, payer, receiver, amount) ==
    /\ Authorized(a)
    /\ settlement[s] = NoSettlement
    /\ payer # receiver
    /\ \A m \in {payer, receiver} : state[m] = "active" /\ profile[m] # NoProfile
    /\ settlement' = [settlement EXCEPT ![s] =
           [status |-> "reported", payer |-> payer, receiver |-> receiver, amount |-> amount]]
    /\ late' = IF CanRead(a) THEN late ELSE late \ {a}
    /\ UNCHANGED <<accounts, profile, state, proposals, ledger, settings>>

Paid(x) ==
    [p \in Pairs |-> IF p = <<x.payer, x.receiver>> THEN x.amount
                     ELSE IF p = <<x.receiver, x.payer>> THEN -x.amount
                     ELSE 0]

\* respond_settlement: only the active receiver, and only one terminal event.
RespondSettlement(a, s, decision) ==
    LET x == settlement[s]
    IN  /\ x.status = "reported"
        /\ profile[x.receiver] = a /\ state[x.receiver] = "active"
        /\ \/ /\ decision = "confirm"
              /\ settings.acceptedWrites /\ settings.settlements
              /\ settlement' = [settlement EXCEPT ![s].status = "confirmed"]
              /\ PostPairs(Paid(x))
              /\ UNCHANGED <<head, posted>>
           \/ /\ decision = "reject"
              /\ settlement' = [settlement EXCEPT ![s].status = "rejected"]
              /\ UNCHANGED ledger
        /\ UNCHANGED <<members, proposals, settings>>

\* An operator flips the feature flags.
SetFlags ==
    /\ settings' \in [acceptedWrites: BOOLEAN, settlements: BOOLEAN]
    /\ UNCHANGED <<members, proposals, ledger, settlement>>

------------------------------------------------------------------------------

MembershipStep ==
    \/ \E m \in Members, p \in Profiles \cup {NoProfile} : Invite(m, p)
    \/ \E m \in Members, accept \in BOOLEAN : RespondMembership(m, accept)
    \/ \E m \in Members, p \in Profiles : BindInvitation(m, p)
    \/ \E m \in Members : RemoveMember(m) \/ LeaveContext(m) \/ DeleteAccount(m)

ExpenseStep ==
    \/ \E a \in Profiles, e \in Expenses, r \in RevIds, b \in Bills \cup {Void} :
           SubmitProposal(a, e, r, b)
    \/ \E a \in Profiles, r \in RevIds, d \in {"approve", "reject"} : RespondExpense(a, r, d)

SettlementStep ==
    \/ \E a \in Profiles, s \in SettlementIds, payer, receiver \in Members, amount \in Amounts :
           ReportSettlement(a, s, payer, receiver, amount)
    \/ \E a \in Profiles, s \in SettlementIds, d \in {"confirm", "reject"} :
           RespondSettlement(a, s, d)

Next == MembershipStep \/ ExpenseStep \/ SettlementStep \/ SetFlags

Spec == Init /\ [][Next]_vars

------------------------------------------------------------------------------
\* Properties.

\* A revision reaches the head of its expense (_accept_revision) only with
\* the approval of everyone who had to review it, given by the account it
\* was put to, and a member who rejected it never sees it accepted.
ConsentIsUnanimous ==
    \A r \in posted : \A m \in revision[r].required :
        /\ \E x \in approvals :
              /\ x.rev = r /\ x.member = m /\ x.decision = "approve"
              /\ revision[r].frozen[m] # NoProfile => x.by = revision[r].frozen[m]
        /\ \A x \in approvals : x.rev = r /\ x.member = m => x.decision = "approve"

\* The accepted revisions of an expense form one chain that ends in the
\* head: concurrent edits of one head never both win, and an edit is never
\* accepted over a head its author did not see (revision_head_conflict).
AcceptedHistoryIsAChain ==
    /\ \A r, q \in posted :
          revision[r].expense = revision[q].expense /\ revision[r].prev = revision[q].prev => r = q
    /\ \A e \in Expenses : head[e] # NoRevision =>
          head[e] \in posted /\ revision[head[e]].expense = e
    /\ \A r \in posted : r # head[revision[r].expense] =>
          \E q \in posted : revision[q].prev = r /\ revision[q].expense = revision[r].expense
    /\ \A r \in posted : revision[r].prev # NoRevision => revision[r].prev \in posted

\* Every pair owes exactly what the current heads say, corrected by the
\* confirmed payments between the two: an edit or a void takes back all of
\* the revision it replaces and no payment is lost or reassigned.
HeadsAndPaymentsExplainPairs ==
    \A p \in Pairs :
        pair[p] = SumFunction([e \in Expenses |-> HeadOwes(e)[p]])
                    + SumFunction([s \in SettlementIds |->
                          IF settlement[s].status = "confirmed" THEN Paid(settlement[s])[p] ELSE 0])

\* member_balances is kept by increments beside pair_balances and must stay
\* the incidence of the pairs, so that the members of a context sum to zero.
MembersMatchPairs ==
    /\ \A m \in Members : bal[m] = Incidence(pair, m)
    /\ SumFunction(bal) = 0

\* The gross cap bounds every balance, so the CHECKs of both tables never fire.
BalancesWithinCap ==
    Gross(pair) <= GrossCap /\ \A m \in Members : Abs(bal[m]) <= GrossCap

\* What two members owe each other changes only by a revision both of them
\* approved or by a payment between the two that its receiver confirmed.
PairChangesNeedConsent ==
    [][\A p \in Pairs : pair'[p] # pair[p] =>
          \/ \E r \in posted' \ posted : \A m \in {p[1], p[2]} :
                 \E x \in approvals' : x.rev = r /\ x.member = m /\ x.decision = "approve"
          \/ \E s \in SettlementIds :
                 /\ settlement[s].status = "reported" /\ settlement'[s].status = "confirmed"
                 /\ {settlement[s].payer, settlement[s].receiver} = {p[1], p[2]}]_vars

\* 20261114030000_shared_expense_membership_exit.sql:3 says that a member can
\* leave only when settled up, and docs/contracts/shared-expenses-v1/journal.md:9
\* that a zero net balance does not imply settled.
LeaversOweNobody ==
    [][\A m \in Members : state[m] = "active" /\ state'[m] = "left" =>
          \A p \in Pairs : m \in {p[1], p[2]} => pair[p] = 0]_vars

==============================================================================
