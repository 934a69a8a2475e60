-------------------------- MODULE SplitLedgerProofs --------------------------
(* Type correctness, consent and the head chain of SplitLedger, proved for *)
(* every context, every set of bills and every number of revisions.        *)
EXTENDS SplitLedger, FiniteSums, TLAPS

\* What a revision says of itself and of the one it replaces: an obligation
\* lies between charged members, and everyone charged now or by the previous
\* revision has to review (submit_proposal's approval_required).
RevisionsWellFormed ==
    \A r \in known :
        /\ revision[r].charged \subseteq revision[r].required
        /\ \A p \in Pairs : revision[r].owes[p] # 0 => {p[1], p[2]} \subseteq revision[r].charged
        /\ revision[r].prev # NoRevision =>
              /\ revision[r].prev \in known
              /\ revision[revision[r].prev].charged \subseteq revision[r].required

\* One decision per member and revision, only of a required reviewer, and
\* from the account frozen at submission where there is one.
ApprovalsWellFormed ==
    /\ \A x, y \in approvals : x.rev = y.rev /\ x.member = y.member => x = y
    /\ \A x \in approvals :
          /\ x.rev \in known
          /\ x.member \in revision[x.rev].required
          /\ revision[x.rev].frozen[x.member] # NoProfile
                => x.by = revision[x.rev].frozen[x.member]

\* A head has no accepted successor, and an expense without a head has no
\* accepted revision.
HeadsAreLast ==
    /\ posted \subseteq known
    /\ \A q \in posted : head[revision[q].expense] # revision[q].prev

Inv ==
    /\ TypeOK
    /\ RevisionsWellFormed
    /\ ApprovalsWellFormed
    /\ HeadsAreLast
    /\ ConsentIsUnanimous
    /\ AcceptedHistoryIsAChain

------------------------------------------------------------------------------
\* What a set of pair amounts does to the members.
LEMMA PairsFinite ==
    IsFiniteSet(Pairs) /\ \A m \in Members : /\ IsFiniteSet({p \in Pairs : p[1] = m})
                                            /\ IsFiniteSet({p \in Pairs : p[2] = m})
<1>1. IsFiniteSet(Members \X Members) /\ Pairs \in SUBSET (Members \X Members)
  BY FiniteAssumption, FS_Product DEF Pairs
<1>2. IsFiniteSet(Pairs)
  BY <1>1, FS_Subset
<1>3. \A m \in Members : /\ {p \in Pairs : p[1] = m} \in SUBSET Pairs
                         /\ {p \in Pairs : p[2] = m} \in SUBSET Pairs
  OBVIOUS
<1> QED BY <1>2, <1>3, FS_Subset

LEMMA IncidenceType ==
    ASSUME NEW d \in [Pairs -> Int], NEW m \in Members
    PROVE  /\ SumFunctionOnSet(d, {p \in Pairs : p[1] = m}) \in Int
           /\ SumFunctionOnSet(d, {p \in Pairs : p[2] = m}) \in Int
           /\ Incidence(d, m) \in Int
<1>1. /\ SumFunctionOnSet(d, {p \in Pairs : p[1] = m}) \in Int
      /\ SumFunctionOnSet(d, {p \in Pairs : p[2] = m}) \in Int
  BY PairsFinite, SumTakesOut
<1> QED BY <1>1 DEF Incidence

LEMMA IncidenceAdds ==
    ASSUME NEW d \in [Pairs -> Int], NEW e \in [Pairs -> Int], NEW m \in Members
    PROVE  Incidence([p \in Pairs |-> d[p] + e[p]], m) = Incidence(d, m) + Incidence(e, m)
<1> DEFINE low == {p \in Pairs : p[1] = m}
           high == {p \in Pairs : p[2] = m}
           both == [p \in Pairs |-> d[p] + e[p]]
<1>1. SumFunctionOnSet(both, low) = SumFunctionOnSet(d, low) + SumFunctionOnSet(e, low)
  <2>1. \A p \in low : d[p] \in Int /\ e[p] \in Int /\ both[p] = d[p] + e[p]
    OBVIOUS
  <2> HIDE DEF both
  <2> QED BY <2>1, PairsFinite, SumOfSums
<1>2. SumFunctionOnSet(both, high) = SumFunctionOnSet(d, high) + SumFunctionOnSet(e, high)
  <2>1. \A p \in high : d[p] \in Int /\ e[p] \in Int /\ both[p] = d[p] + e[p]
    OBVIOUS
  <2> HIDE DEF both
  <2> QED BY <2>1, PairsFinite, SumOfSums
<1> HIDE DEF both
<1>3. Incidence(both, m) = Incidence(d, m) + Incidence(e, m)
  BY <1>1, <1>2, IncidenceType DEF Incidence
<1> QED BY <1>3 DEF both

\* Whatever the pairs owe, the members of a context sum to zero.
LEMMA IncidencesCancel ==
    ASSUME NEW d \in [Pairs -> Int]
    PROVE  SumFunctionOnSet([m \in Members |-> Incidence(d, m)], Members) = 0
<1> DEFINE low == [m \in Members |-> SumFunctionOnSet(d, {p \in Pairs : p[1] = m})]
           high == [m \in Members |-> SumFunctionOnSet(d, {p \in Pairs : p[2] = m})]
           net == [m \in Members |-> Incidence(d, m)]
           first == [p \in Pairs |-> p[1]]
           second == [p \in Pairs |-> p[2]]
<1>1. IsFiniteSet(Members) /\ IsFiniteSet(Pairs)
  BY FiniteAssumption, PairsFinite
<1>2. first \in [Pairs -> Members] /\ second \in [Pairs -> Members]
  BY DEF Pairs
<1>3. /\ \A m \in Members : {p \in Pairs : first[p] = m} = {p \in Pairs : p[1] = m}
      /\ \A m \in Members : {p \in Pairs : second[p] = m} = {p \in Pairs : p[2] = m}
  OBVIOUS
<1>4. /\ low = [m \in Members |-> SumFunctionOnSet(d, {p \in Pairs : first[p] = m})]
      /\ high = [m \in Members |-> SumFunctionOnSet(d, {p \in Pairs : second[p] = m})]
  BY <1>3
<1> HIDE DEF first, second
<1>5. /\ SumFunctionOnSet(low, Members) = SumFunctionOnSet(d, Pairs)
      /\ SumFunctionOnSet(high, Members) = SumFunctionOnSet(d, Pairs)
  <2>1. \A p \in Pairs : d[p] \in Int
    OBVIOUS
  <2>2. SumFunctionOnSet([m \in Members |-> SumFunctionOnSet(d, {p \in Pairs : first[p] = m})], Members)
          = SumFunctionOnSet(d, Pairs)
    BY <1>1, <1>2, <2>1, SumByClass
  <2>3. SumFunctionOnSet([m \in Members |-> SumFunctionOnSet(d, {p \in Pairs : second[p] = m})], Members)
          = SumFunctionOnSet(d, Pairs)
    BY <1>1, <1>2, <2>1, SumByClass
  <2> QED BY <1>4, <2>2, <2>3
<1>6. \A m \in Members : low[m] \in Int /\ high[m] \in Int /\ net[m] = low[m] - high[m]
  BY IncidenceType DEF Incidence
<1> HIDE DEF low, high, net
<1>7. \A m \in Members : high[m] \in Int /\ net[m] \in Int /\ low[m] = high[m] + net[m]
  BY <1>6
<1>8. SumFunctionOnSet(low, Members) = SumFunctionOnSet(high, Members) + SumFunctionOnSet(net, Members)
  BY <1>1, <1>7, SumOfSums
<1>9. SumFunctionOnSet(high, Members) \in Int /\ SumFunctionOnSet(net, Members) \in Int
  BY <1>1, <1>7, SumTakesOut
<1> QED BY <1>5, <1>8, <1>9 DEF net

\* No member owes or is owed more than the gross of the context.
LEMMA IncidenceWithinGross ==
    ASSUME NEW d \in [Pairs -> Int], NEW m \in Members
    PROVE  Gross(d) \in Int /\ Abs(Incidence(d, m)) <= Gross(d)
<1> DEFINE low == {p \in Pairs : p[1] = m}
           high == {p \in Pairs : p[2] = m}
           size == [p \in Pairs |-> Abs(d[p])]
<1>1. \A p \in Pairs : d[p] \in Int /\ size[p] \in Nat /\ -size[p] <= d[p] /\ d[p] <= size[p]
  BY DEF Abs
<1>2. Gross(d) = SumFunctionOnSet(size, Pairs)
  BY DEF Gross, SumFunction
<1>3. low \in SUBSET Pairs /\ high \in SUBSET Pairs /\ low \cap high = {}
  BY MembersAssumption DEF Pairs
<1>4. IsFiniteSet(Pairs) /\ IsFiniteSet(low) /\ IsFiniteSet(high)
  BY PairsFinite
<1> HIDE DEF size
<1>5. Incidence(d, m) = SumFunctionOnSet(d, low) - SumFunctionOnSet(d, high)
  BY DEF Incidence
<1> HIDE DEF low, high
<1>6. /\ -SumFunctionOnSet(size, low) <= SumFunctionOnSet(d, low)
      /\ SumFunctionOnSet(d, low) <= SumFunctionOnSet(size, low)
  BY <1>1, <1>3, <1>4, SumWithin
<1>7. /\ -SumFunctionOnSet(size, high) <= SumFunctionOnSet(d, high)
      /\ SumFunctionOnSet(d, high) <= SumFunctionOnSet(size, high)
  BY <1>1, <1>3, <1>4, SumWithin
<1>8. SumFunctionOnSet(size, low \cup high) = SumFunctionOnSet(size, low) + SumFunctionOnSet(size, high)
  BY <1>1, <1>3, <1>4, SumOfUnion
<1>9. SumFunctionOnSet(size, low \cup high) <= SumFunctionOnSet(size, Pairs)
  <2>1. low \cup high \in SUBSET Pairs
    BY <1>3
  <2> QED BY <1>1, <1>4, <2>1, SumOfPart
<1>10. /\ SumFunctionOnSet(size, low) \in Int /\ SumFunctionOnSet(size, high) \in Int
       /\ SumFunctionOnSet(size, Pairs) \in Int
       /\ SumFunctionOnSet(d, low) \in Int /\ SumFunctionOnSet(d, high) \in Int
  BY <1>1, <1>3, <1>4, SumTakesOut
<1> QED BY <1>2, <1>5, <1>6, <1>7, <1>8, <1>9, <1>10 DEF Abs

\* Posting keeps the balances of the members beside those of their pairs.
LEMMA PostFacts ==
    ASSUME TypeOK, NEW delta \in [Pairs -> Int], PostPairs(delta)
    PROVE  /\ pair' \in [Pairs -> Int] /\ \A p \in Pairs : pair'[p] = pair[p] + delta[p]
           /\ bal' \in [Members -> Int]
           /\ MembersMatchPairs => MembersMatchPairs'
           /\ MembersMatchPairs => BalancesWithinCap'
<1>1. /\ pair' = [p \in Pairs |-> pair[p] + delta[p]]
      /\ bal' = [m \in Members |-> bal[m] + Incidence(delta, m)]
      /\ Gross(pair') <= GrossCap
  BY DEF PostPairs
<1>2. pair \in [Pairs -> Int] /\ bal \in [Members -> Int]
  BY DEF TypeOK
<1>3. pair' \in [Pairs -> Int] /\ bal' \in [Members -> Int]
  <2>1. \A m \in Members : Incidence(delta, m) \in Int
    BY IncidenceType
  <2> QED BY <1>1, <1>2, <2>1
<1>4. ASSUME MembersMatchPairs PROVE MembersMatchPairs' /\ BalancesWithinCap'
  <2>1. \A m \in Members : bal'[m] = Incidence(pair', m)
    <3>1. \A m \in Members : Incidence(pair', m) = Incidence(pair, m) + Incidence(delta, m)
      BY <1>1, <1>2, IncidenceAdds
    <3> QED BY <1>1, <1>4, <3>1 DEF MembersMatchPairs
  <2>2. SumFunction(bal') = 0
    <3>1. bal' = [m \in Members |-> Incidence(pair', m)] /\ DOMAIN bal' = Members
      BY <1>3, <2>1
    <3>2. SumFunctionOnSet([m \in Members |-> Incidence(pair', m)], Members) = 0
      BY <1>3, IncidencesCancel
    <3> QED BY <3>1, <3>2 DEF SumFunction
  <2>3. \A m \in Members : Abs(bal'[m]) <= GrossCap
    <3>1. ASSUME NEW m \in Members PROVE Abs(bal'[m]) <= GrossCap
      <4>1. Gross(pair') \in Int /\ Abs(Incidence(pair', m)) <= Gross(pair')
        BY <1>3, IncidenceWithinGross
      <4>2. Incidence(pair', m) \in Int
        BY <1>3, IncidenceType
      <4> QED BY <1>1, <2>1, <4>1, <4>2, CapAssumption DEF Abs
    <3> QED BY <3>1
  <2> QED BY <1>1, <2>1, <2>2, <2>3 DEF MembersMatchPairs, BalancesWithinCap
<1> QED BY <1>1, <1>2, <1>3, <1>4

------------------------------------------------------------------------------
\* The record submit_proposal stores.
LEMMA DraftFacts ==
    ASSUME TypeOK, NEW e \in Expenses, NEW b \in Bills \cup {Void},
           head[e] # NoRevision => head[e] \in known
    PROVE  /\ Draft(e, b) \in Revision
           /\ Draft(e, b).expense = e
           /\ Draft(e, b).prev = head[e]
           /\ Draft(e, b).charged \subseteq Draft(e, b).required
           /\ \A p \in Pairs : Draft(e, b).owes[p] # 0 => {p[1], p[2]} \subseteq Draft(e, b).charged
           /\ head[e] # NoRevision => revision[head[e]].charged \subseteq Draft(e, b).required
<1>1. b \in BillType /\ \A p \in Pairs : b.owes[p] # 0 => {p[1], p[2]} \subseteq b.charged
  <2>1. CASE b = Void
    BY <2>1 DEF BillType, Void
  <2>2. CASE b \in Bills
    BY <2>2, BillsAssumption
  <2> QED BY <2>1, <2>2
<1> DEFINE old == IF head[e] = NoRevision
                  THEN [rows |-> {}, charged |-> {}, required |-> {}]
                  ELSE revision[head[e]]
           rows == b.parties \cup old.rows \cup b.contributors
           required == b.charged \cup old.charged \cup old.required \cup b.contributors
           frozen == [m \in Members |-> IF m \in rows THEN profile[m] ELSE NoProfile]
<1>2. /\ b.parties \in SUBSET Members /\ b.charged \in SUBSET Members
      /\ b.contributors \in SUBSET Members /\ b.sources \in SUBSET Members
      /\ b.owes \in [Pairs -> Int]
  BY <1>1 DEF BillType
<1>3. /\ old.rows \in SUBSET Members
      /\ old.charged \in SUBSET Members
      /\ old.required \in SUBSET Members
  <2>1. CASE head[e] = NoRevision
    BY <2>1
  <2>2. CASE head[e] # NoRevision
    <3>1. revision[head[e]] \in Revision
      BY <2>2 DEF TypeOK, known
    <3> QED BY <2>2, <3>1 DEF Revision
  <2> QED BY <2>1, <2>2
<1>4. head[e] \in RevIds \cup {NoRevision}
  BY DEF TypeOK
<1>5. frozen \in [Members -> Profiles \cup {NoProfile}]
  BY DEF TypeOK
<1>6. Draft(e, b) = [expense |-> e, prev |-> head[e], rows |-> rows, charged |-> b.charged,
                     required |-> required, sources |-> b.sources, frozen |-> frozen,
                     owes |-> b.owes]
  BY DEF Draft, Reviewers, Frozen
<1>7. rows \in SUBSET Members /\ required \in SUBSET Members
  BY <1>2, <1>3
<1> HIDE DEF old, rows, required, frozen
<1>8. Draft(e, b) \in Revision
  BY <1>2, <1>4, <1>5, <1>6, <1>7 DEF Revision
<1>9. b.charged \subseteq required /\ (head[e] # NoRevision => revision[head[e]].charged \subseteq required)
  BY DEF required, old
<1> QED BY <1>1, <1>6, <1>8, <1>9

\* Gaining the head or waiting: what _accept_revision does to the ledger.
LEMMA AcceptFacts ==
    ASSUME TypeOK, NEW a \in Profiles, NEW r \in RevIds, NEW rec \in Revision, NEW given,
           head[rec.expense] # NoRevision => head[rec.expense] \in known,
           AcceptRevision(a, r, rec, given)
    PROVE  /\ pair' \in [Pairs -> Int] /\ bal' \in [Members -> Int]
           /\ \/ UNCHANGED ledger
              \/ /\ Consented(rec, r, given)
                 /\ head' = [head EXCEPT ![rec.expense] = r]
                 /\ posted' = posted \cup {r}
                 /\ \A p \in Pairs : pair'[p] # pair[p] =>
                       \/ rec.owes[p] # 0
                       \/ head[rec.expense] # NoRevision /\ revision[head[rec.expense]].owes[p] # 0
<1>1. CASE UNCHANGED ledger
  BY <1>1 DEF TypeOK, ledger
<1>2. CASE ~UNCHANGED ledger
  <2> DEFINE before == HeadOwes(rec.expense)
             delta == [p \in Pairs |-> rec.owes[p] - before[p]]
  <2>1. /\ Consented(rec, r, given)
        /\ PostPairs(delta)
        /\ head' = [head EXCEPT ![rec.expense] = r]
        /\ posted' = posted \cup {r}
    BY <1>2 DEF AcceptRevision, Effect
  <2>2. before \in [Pairs -> Int] /\ rec.owes \in [Pairs -> Int]
    BY DEF HeadOwes, Void, TypeOK, known, Revision
  <2>3. \A p \in Pairs : before[p] # 0 =>
           head[rec.expense] # NoRevision /\ revision[head[rec.expense]].owes[p] # 0
    BY DEF HeadOwes, Void
  <2> HIDE DEF before
  <2>4. pair' = [p \in Pairs |-> pair[p] + delta[p]] /\ bal' \in [Members -> Int]
    <3>1. delta \in [Pairs -> Int]
      BY <2>2
    <3>2. bal' \in [Members -> Int]
      BY <2>1, <3>1, PostFacts
    <3> QED BY <2>1, <3>2 DEF PostPairs
  <2>5. pair' \in [Pairs -> Int]
    BY <2>2, <2>4 DEF TypeOK
  <2>6. \A p \in Pairs : pair'[p] # pair[p] => rec.owes[p] # 0 \/ before[p] # 0
    BY <2>2, <2>4 DEF TypeOK
  <2> QED BY <2>1, <2>3, <2>4, <2>5, <2>6
<1> QED BY <1>1, <1>2

\* The accepted history survives a command that posts nothing: it may add a
\* revision and approvals, and rewrites none of the old ones.
LEMMA HistoryKept ==
    ASSUME Inv, \A q \in known : q \in known' /\ revision'[q] = revision[q],
           head' = head, posted' = posted
    PROVE  HeadsAreLast' /\ AcceptedHistoryIsAChain'
<1>1. \A q \in posted : q \in known /\ q \in known' /\ revision'[q] = revision[q]
  BY DEF Inv, HeadsAreLast
<1>2. HeadsAreLast'
  BY <1>1 DEF Inv, HeadsAreLast
<1>3. AcceptedHistoryIsAChain'
  BY <1>1 DEF Inv, AcceptedHistoryIsAChain
<1> QED BY <1>2, <1>3

\* Posting a revision whose previous revision is the head makes the chain one
\* longer.
LEMMA HistoryExtended ==
    ASSUME Inv, \A q \in known : q \in known' /\ revision'[q] = revision[q],
           NEW r \in known', NEW e \in Expenses,
           revision'[r].expense = e, revision'[r].prev = head[e],
           r \in known => revision'[r] = revision[r],
           head' = [head EXCEPT ![e] = r], posted' = posted \cup {r}
    PROVE  r \notin posted /\ HeadsAreLast' /\ AcceptedHistoryIsAChain'
<1>1. \A q \in posted : /\ q \in known /\ q \in known' /\ revision'[q] = revision[q]
                        /\ revision[q] \in Revision /\ revision[q].expense \in Expenses
  BY DEF Inv, HeadsAreLast, TypeOK, known, Revision
<1>2. r \notin posted
  BY <1>1 DEF Inv, HeadsAreLast
<1>3. \A x \in Expenses : head'[x] = IF x = e THEN r ELSE head[x]
  BY DEF Inv, TypeOK
<1>4. head[e] # r /\ r # NoRevision
  BY <1>2, RevisionsAssumption DEF Inv, AcceptedHistoryIsAChain, known
<1>5. \A q \in posted : revision[q].prev # r
  BY <1>2, <1>4 DEF Inv, AcceptedHistoryIsAChain
<1>6. HeadsAreLast'
  BY <1>1, <1>3, <1>4, <1>5 DEF Inv, HeadsAreLast
<1>7. \A q, s \in posted' :
         revision'[q].expense = revision'[s].expense /\ revision'[q].prev = revision'[s].prev => q = s
  BY <1>1 DEF Inv, HeadsAreLast, AcceptedHistoryIsAChain
<1>8. \A x \in Expenses : head'[x] # NoRevision =>
         head'[x] \in posted' /\ revision'[head'[x]].expense = x
  BY <1>1, <1>3 DEF Inv, AcceptedHistoryIsAChain
<1>9. ASSUME NEW q \in posted', q # head'[revision'[q].expense]
      PROVE  \E s \in posted' : revision'[s].prev = q /\ revision'[s].expense = revision'[q].expense
  <2>1. q \in posted
    BY <1>3, <1>9
  <2>2. CASE q = head[e]
    <3>1. q # NoRevision
      BY <1>1, <2>1, RevisionsAssumption DEF known
    <3>2. revision'[q].expense = e
      BY <1>1, <2>1, <2>2, <3>1 DEF Inv, AcceptedHistoryIsAChain
    <3> QED BY <2>2, <3>2
  <2>3. CASE q # head[e]
    BY <1>1, <1>3, <1>9, <2>1, <2>3 DEF Inv, AcceptedHistoryIsAChain
  <2> QED BY <2>2, <2>3
<1>10. \A q \in posted' : revision'[q].prev # NoRevision => revision'[q].prev \in posted'
  BY <1>1 DEF Inv, AcceptedHistoryIsAChain
<1>11. AcceptedHistoryIsAChain'
  BY <1>7, <1>8, <1>9, <1>10 DEF AcceptedHistoryIsAChain
<1> QED BY <1>2, <1>6, <1>11

\* A decided member has one decision, so the approvals that carried a
\* revision to the head can never be joined by a rejection.
LEMMA ConsentKept ==
    ASSUME Inv, ApprovalsWellFormed', approvals \subseteq approvals',
           \A q \in known : revision'[q] = revision[q],
           \A q \in posted' \ posted : \A m \in revision'[q].required :
              \E x \in approvals' : /\ x.rev = q /\ x.member = m /\ x.decision = "approve"
    PROVE  ConsentIsUnanimous'
<1>1. ASSUME NEW q \in posted', NEW m \in revision'[q].required
      PROVE  \E x \in approvals' : x.rev = q /\ x.member = m /\ x.decision = "approve"
  <2>1. CASE q \in posted
    <3>1. revision'[q] = revision[q]
      BY <2>1 DEF Inv, HeadsAreLast
    <3> QED BY <2>1, <3>1 DEF Inv, ConsentIsUnanimous
  <2>2. CASE q \notin posted
    BY <2>2
  <2> QED BY <2>1, <2>2
<1> QED BY <1>1 DEF ApprovalsWellFormed, ConsentIsUnanimous

\* New decisions of one account on one revision, each of a required member
\* that had none and that the account may review.
LEMMA ApprovalsExtended ==
    ASSUME Inv, \A q \in known : q \in known' /\ revision'[q] = revision[q],
           NEW r \in known', NEW a, NEW d, NEW mine \in SUBSET revision'[r].required,
           \A m \in mine : revision'[r].frozen[m] # NoProfile => a = revision'[r].frozen[m],
           \A m \in mine : ~\E x \in approvals : x.rev = r /\ x.member = m,
           approvals' = approvals \cup [rev: {r}, member: mine, by: {a}, decision: {d}]
    PROVE  ApprovalsWellFormed'
<1> DEFINE own == [rev: {r}, member: mine, by: {a}, decision: {d}]
<1>1. \A x \in own : /\ x.rev = r /\ x.member \in mine /\ x.by = a
                     /\ x = [rev |-> r, member |-> x.member, by |-> a, decision |-> d]
  OBVIOUS
<1>2. \A x \in approvals : x.rev \in known
  BY DEF Inv, ApprovalsWellFormed
<1> HIDE DEF own
<1>3. \A x, y \in approvals' : x.rev = y.rev /\ x.member = y.member => x = y
  BY <1>1 DEF own, Inv, ApprovalsWellFormed
<1>4. ASSUME NEW x \in approvals'
      PROVE  /\ x.rev \in known'
             /\ x.member \in revision'[x.rev].required
             /\ revision'[x.rev].frozen[x.member] # NoProfile
                   => x.by = revision'[x.rev].frozen[x.member]
  <2>1. CASE x \in approvals
    BY <1>2, <2>1 DEF Inv, ApprovalsWellFormed
  <2>2. CASE x \in own
    BY <1>1, <2>2
  <2> QED BY <2>1, <2>2 DEF own
<1> QED BY <1>3, <1>4 DEF ApprovalsWellFormed

\* A payment moves the pair of its two members and no other.
LEMMA PaidFacts ==
    ASSUME NEW x \in Settlement
    PROVE  /\ Paid(x) \in [Pairs -> Int]
           /\ \A p \in Pairs : Paid(x)[p] # 0 => {x.payer, x.receiver} = {p[1], p[2]}
<1>1. x.amount \in Int /\ -x.amount \in Int
  <2>1. x.amount \in Amounts
    BY DEF Settlement
  <2>2. x.amount \in Nat
    BY <2>1, AmountsAssumption
  <2> QED BY <2>2
<1>2. \A p \in Pairs : Paid(x)[p] = IF p = <<x.payer, x.receiver>> THEN x.amount
                                   ELSE IF p = <<x.receiver, x.payer>> THEN -x.amount
                                   ELSE 0
  BY DEF Paid
<1>3. Paid(x) = [p \in Pairs |-> Paid(x)[p]]
  BY DEF Paid
<1> QED BY <1>1, <1>2, <1>3

\* Commands that touch neither revisions nor approvals nor heads.
LEMMA QuietStep ==
    ASSUME Inv, TypeOK', UNCHANGED proposals, head' = head, posted' = posted
    PROVE  Inv'
<1>1. revision' = revision /\ approvals' = approvals /\ known' = known
  BY DEF proposals, known
<1> QED
  BY <1>1 DEF Inv, RevisionsWellFormed, ApprovalsWellFormed, HeadsAreLast,
              ConsentIsUnanimous, AcceptedHistoryIsAChain

------------------------------------------------------------------------------
LEMMA InitInv == Init => Inv
<1> SUFFICES ASSUME Init PROVE Inv
  OBVIOUS
<1>1. TypeOK
  BY MembersAssumption, ProfilesAssumption DEF Init, TypeOK
<1>2. known = {}
  BY DEF Init, known
<1> QED
  BY <1>1, <1>2 DEF Init, Inv, RevisionsWellFormed, ApprovalsWellFormed, HeadsAreLast,
                    ConsentIsUnanimous, AcceptedHistoryIsAChain

LEMMA MembershipKeepsInv == Inv /\ MembershipStep => Inv'
<1> SUFFICES ASSUME Inv, MembershipStep PROVE Inv'
  OBVIOUS
<1> USE DEF Inv
<1>1. ASSUME NEW m \in Members, NEW p \in Profiles \cup {NoProfile}, Invite(m, p) PROVE TypeOK'
  BY <1>1 DEF Invite, TypeOK, proposals, ledger
<1>2. ASSUME NEW m \in Members, NEW accept \in BOOLEAN, RespondMembership(m, accept) PROVE TypeOK'
  BY <1>2 DEF RespondMembership, TypeOK, proposals, ledger
<1>3. ASSUME NEW m \in Members, NEW p \in Profiles, BindInvitation(m, p) PROVE TypeOK'
  BY <1>3 DEF BindInvitation, TypeOK, proposals, ledger
<1>4. ASSUME NEW m \in Members, RemoveMember(m) PROVE TypeOK'
  BY <1>4 DEF RemoveMember, TypeOK, proposals, ledger
<1>5. ASSUME NEW m \in Members, LeaveContext(m) PROVE TypeOK'
  <2>1. profile[m] \in Profiles
    BY <1>5 DEF LeaveContext, TypeOK
  <2> QED BY <1>5, <2>1 DEF LeaveContext, TypeOK, proposals, ledger
<1>6. ASSUME NEW m \in Members, DeleteAccount(m) PROVE TypeOK'
  BY <1>6 DEF DeleteAccount, TypeOK, proposals, ledger
<1>7. UNCHANGED proposals /\ head' = head /\ posted' = posted
  BY DEF MembershipStep, Invite, RespondMembership, BindInvitation, RemoveMember,
         LeaveContext, DeleteAccount, ledger
<1>8. TypeOK'
  BY <1>1, <1>2, <1>3, <1>4, <1>5, <1>6 DEF MembershipStep
<1> QED BY <1>7, <1>8, QuietStep

LEMMA SettlementKeepsInv == Inv /\ (SettlementStep \/ SetFlags) => Inv'
<1> SUFFICES ASSUME Inv, SettlementStep \/ SetFlags PROVE Inv'
  OBVIOUS
<1> USE DEF Inv
<1>1. ASSUME NEW a \in Profiles, NEW s \in SettlementIds, NEW payer \in Members,
             NEW receiver \in Members, NEW amount \in Amounts,
             ReportSettlement(a, s, payer, receiver, amount)
      PROVE  TypeOK'
  <2> DEFINE x == [status |-> "reported", payer |-> payer, receiver |-> receiver, amount |-> amount]
  <2>1. x \in Settlement
    BY DEF Settlement
  <2>2. settlement' = [settlement EXCEPT ![s] = x] /\ late' \subseteq late
    BY <1>1 DEF ReportSettlement
  <2> HIDE DEF x
  <2>3. settlement' \in [SettlementIds -> Settlement \cup {NoSettlement}]
    BY <2>1, <2>2 DEF TypeOK
  <2> QED BY <1>1, <2>2, <2>3 DEF ReportSettlement, TypeOK, proposals, ledger
<1>2. ASSUME NEW a \in Profiles, NEW s \in SettlementIds, NEW d \in {"confirm", "reject"},
             RespondSettlement(a, s, d)
      PROVE  TypeOK'
  <2>1. settlement[s] \in Settlement
    BY <1>2 DEF RespondSettlement, TypeOK, NoSettlement
  <2>2. \E st \in {"confirmed", "rejected"} : settlement' = [settlement EXCEPT ![s].status = st]
    BY <1>2 DEF RespondSettlement
  <2>3. settlement' \in [SettlementIds -> Settlement \cup {NoSettlement}]
    BY <2>1, <2>2 DEF Settlement, TypeOK
  <2>4. Paid(settlement[s]) \in [Pairs -> Int]
    BY <2>1, PaidFacts
  <2>5. /\ pair' \in [Pairs -> Int] /\ bal' \in [Members -> Int]
        /\ UNCHANGED <<head, posted>>
    <3>1. CASE UNCHANGED ledger
      BY <3>1 DEF ledger, TypeOK
    <3>2. CASE PostPairs(Paid(settlement[s])) /\ UNCHANGED <<head, posted>>
      BY <2>4, <3>2, PostFacts
    <3> QED BY <1>2, <3>1, <3>2 DEF RespondSettlement
  <2> QED BY <1>2, <2>3, <2>5 DEF RespondSettlement, TypeOK, members, proposals
<1>3. ASSUME SetFlags PROVE TypeOK'
  BY <1>3 DEF SetFlags, TypeOK, members, proposals, ledger
<1>4. UNCHANGED proposals /\ head' = head /\ posted' = posted
  BY DEF SettlementStep, ReportSettlement, RespondSettlement, SetFlags, ledger
<1>5. TypeOK'
  BY <1>1, <1>2, <1>3 DEF SettlementStep
<1> QED BY <1>4, <1>5, QuietStep

\* What AcceptRevision needs to have reviewed is what the approvals then hold.
LEMMA ConsentedFacts ==
    ASSUME NEW r, NEW rec, NEW given, Consented(rec, r, given)
    PROVE  \A m \in rec.required :
              \E x \in given : x.rev = r /\ x.member = m /\ x.decision = "approve"
BY DEF Consented

\* The two commands that may end in _accept_revision, seen together: the
\* revision r is stored, its decisions are extended, and the ledger waits or
\* takes r as the head that replaces the one r was written against.
LEMMA ReviewKeepsInv ==
    ASSUME Inv, TypeOK', RevisionsWellFormed', ApprovalsWellFormed', approvals \subseteq approvals',
           \A q \in known : q \in known' /\ revision'[q] = revision[q],
           NEW r \in known', r \in known => revision'[r] = revision[r],
           NEW e \in Expenses, revision'[r].expense = e,
           \/ head' = head /\ posted' = posted
           \/ /\ revision'[r].prev = head[e]
              /\ Consented(revision'[r], r, approvals')
              /\ head' = [head EXCEPT ![e] = r]
              /\ posted' = posted \cup {r}
    PROVE  Inv'
<1>1. CASE head' = head /\ posted' = posted
  <2>1. HeadsAreLast' /\ AcceptedHistoryIsAChain'
    BY <1>1, HistoryKept
  <2>2. ConsentIsUnanimous'
    BY <1>1, ConsentKept
  <2> QED BY <2>1, <2>2 DEF Inv
<1>2. CASE /\ revision'[r].prev = head[e]
           /\ Consented(revision'[r], r, approvals')
           /\ head' = [head EXCEPT ![e] = r]
           /\ posted' = posted \cup {r}
  <2>1. HeadsAreLast' /\ AcceptedHistoryIsAChain'
    BY <1>2, HistoryExtended
  <2>2. \A q \in posted' \ posted : \A m \in revision'[q].required :
           \E x \in approvals' : x.rev = q /\ x.member = m /\ x.decision = "approve"
    BY <1>2, ConsentedFacts
  <2>3. ConsentIsUnanimous'
    BY <2>2, ConsentKept
  <2> QED BY <2>1, <2>3 DEF Inv
<1> QED BY <1>1, <1>2

LEMMA SubmitKeepsInv ==
    ASSUME Inv, NEW a \in Profiles, NEW e \in Expenses, NEW r \in RevIds,
           NEW b \in Bills \cup {Void}, SubmitProposal(a, e, r, b)
    PROVE  /\ Inv'
           /\ revision'[r] = Draft(e, b) /\ r \in known'
           /\ \A q \in known : q \in known' /\ revision'[q] = revision[q]
<1> DEFINE rec == Draft(e, b)
           mine == {m \in rec.required : rec.frozen[m] = a}
           own == [rev: {r}, member: mine, by: {a}, decision: {"approve"}]
<1>1. head[e] # NoRevision => head[e] \in known
  BY DEF Inv, AcceptedHistoryIsAChain, HeadsAreLast
<1>2. /\ rec \in Revision /\ rec.expense = e /\ rec.prev = head[e]
      /\ rec.charged \subseteq rec.required
      /\ \A p \in Pairs : rec.owes[p] # 0 => {p[1], p[2]} \subseteq rec.charged
      /\ head[e] # NoRevision => revision[head[e]].charged \subseteq rec.required
  BY <1>1, DraftFacts DEF Inv
<1>3. /\ revision[r] = NoRevision
      /\ revision' = [revision EXCEPT ![r] = rec]
      /\ approvals' = approvals \cup own
      /\ AcceptRevision(a, r, rec, approvals \cup own)
      /\ UNCHANGED <<accounts, profile, state, settlement, settings>>
      /\ late' \subseteq late
  BY DEF SubmitProposal
<1> HIDE DEF rec
<1>4. r \notin known /\ r \in known' /\ revision'[r] = rec
      /\ revision' \in [RevIds -> Revision \cup {NoRevision}]
      /\ \A q \in known : q \in known' /\ revision'[q] = revision[q]
  BY <1>2, <1>3, NoRevisionAssumption DEF known, Inv, TypeOK
<1>5. mine \subseteq Members
  BY <1>2 DEF Revision
<1>6. own \subseteq Approval
  BY <1>5 DEF Approval
<1>7. /\ pair' \in [Pairs -> Int] /\ bal' \in [Members -> Int]
      /\ \/ head' = head /\ posted' = posted
         \/ /\ Consented(rec, r, approvals')
            /\ head' = [head EXCEPT ![e] = r]
            /\ posted' = posted \cup {r}
  BY <1>1, <1>2, <1>3, AcceptFacts DEF Inv, ledger
<1>8. TypeOK'
  <2>1. head' \in [Expenses -> RevIds \cup {NoRevision}] /\ posted' \subseteq RevIds
    BY <1>7 DEF Inv, TypeOK
  <2>2. approvals' \subseteq Approval
    BY <1>3, <1>6 DEF Inv, TypeOK
  <2> QED BY <1>3, <1>4, <1>7, <2>1, <2>2 DEF Inv, TypeOK
<1>9. RevisionsWellFormed'
  <2>1. ASSUME NEW q \in known', q # r
        PROVE  q \in known /\ revision'[q] = revision[q]
    BY <1>3, <2>1 DEF known, Inv, TypeOK
  <2>2. \A q \in known : revision[q].prev # NoRevision => revision[q].prev \in known
    BY DEF Inv, RevisionsWellFormed
  <2> QED BY <1>1, <1>2, <1>4, <2>1, <2>2 DEF Inv, RevisionsWellFormed
<1>10. ApprovalsWellFormed'
  <2>1. \A m \in mine : ~\E x \in approvals : x.rev = r /\ x.member = m
    BY <1>4 DEF Inv, ApprovalsWellFormed
  <2>2. mine \in SUBSET revision'[r].required
    BY <1>4
  <2>3. \A m \in mine : revision'[r].frozen[m] # NoProfile => a = revision'[r].frozen[m]
    BY <1>4
  <2> HIDE DEF mine
  <2>4. approvals' = approvals \cup [rev: {r}, member: mine, by: {a}, decision: {"approve"}]
    BY <1>3
  <2>5. r \in known' /\ \A q \in known : q \in known' /\ revision'[q] = revision[q]
    BY <1>4
  <2> QED BY <2>1, <2>2, <2>3, <2>4, <2>5, ApprovalsExtended
<1>11. Inv'
  BY <1>2, <1>3, <1>4, <1>7, <1>8, <1>9, <1>10, ReviewKeepsInv
<1> QED BY <1>4, <1>11 DEF rec

LEMMA RespondKeepsInv ==
    ASSUME Inv, NEW a \in Profiles, NEW r \in RevIds, NEW d \in {"approve", "reject"},
           RespondExpense(a, r, d)
    PROVE  Inv' /\ r \in known
<1> DEFINE rec == revision[r]
           mine == {m \in rec.required : ReviewProfile(rec, m) = a}
           decided == {m \in mine : \E x \in approvals : x.rev = r /\ x.member = m}
           fresh == mine \ decided
           own == [rev: {r}, member: fresh, by: {a}, decision: {d}]
<1>1. /\ r \in known
      /\ approvals' = approvals \cup own
      /\ \/ UNCHANGED ledger
         \/ head[rec.expense] = rec.prev /\ AcceptRevision(a, r, rec, approvals \cup own)
      /\ UNCHANGED <<members, revision, settlement, settings>>
  BY DEF RespondExpense, Current
<1>2. rec \in Revision /\ rec.expense \in Expenses /\ rec.required \subseteq Members
  BY <1>1 DEF Inv, TypeOK, known, Revision
<1>3. revision' = revision /\ known' = known
  BY <1>1 DEF known
<1>4. head[rec.expense] # NoRevision => head[rec.expense] \in known
  BY <1>2 DEF Inv, AcceptedHistoryIsAChain, HeadsAreLast
<1> HIDE DEF rec
<1>5. /\ pair' \in [Pairs -> Int] /\ bal' \in [Members -> Int]
      /\ \/ head' = head /\ posted' = posted
         \/ /\ head[rec.expense] = rec.prev
            /\ Consented(rec, r, approvals')
            /\ head' = [head EXCEPT ![rec.expense] = r]
            /\ posted' = posted \cup {r}
  <2>1. CASE UNCHANGED ledger
    BY <2>1 DEF ledger, Inv, TypeOK
  <2>2. CASE head[rec.expense] = rec.prev /\ AcceptRevision(a, r, rec, approvals \cup own)
    BY <1>1, <1>2, <1>4, <2>2, AcceptFacts DEF Inv, ledger
  <2> QED BY <1>1, <2>1, <2>2
<1>6. own \subseteq Approval
  BY <1>2 DEF Approval
<1>7. TypeOK'
  <2>1. head' \in [Expenses -> RevIds \cup {NoRevision}] /\ posted' \subseteq RevIds
    BY <1>5 DEF Inv, TypeOK
  <2>2. approvals' \subseteq Approval
    BY <1>1, <1>6 DEF Inv, TypeOK
  <2> QED BY <1>1, <1>5, <2>1, <2>2 DEF Inv, TypeOK, members
<1>8. RevisionsWellFormed'
  BY <1>3 DEF Inv, RevisionsWellFormed
<1>9. ApprovalsWellFormed'
  <2>1. \A m \in fresh : rec.frozen[m] # NoProfile => a = rec.frozen[m]
    BY DEF ReviewProfile
  <2>2. \A m \in fresh : ~\E x \in approvals : x.rev = r /\ x.member = m
    OBVIOUS
  <2>3. fresh \in SUBSET revision'[r].required /\ r \in known'
    BY <1>1, <1>3 DEF rec
  <2> HIDE DEF fresh
  <2>4. approvals' = approvals \cup [rev: {r}, member: fresh, by: {a}, decision: {d}]
    BY <1>1
  <2>5. \A m \in fresh : revision'[r].frozen[m] # NoProfile => a = revision'[r].frozen[m]
    BY <1>3, <2>1 DEF rec
  <2>6. \A q \in known : q \in known' /\ revision'[q] = revision[q]
    BY <1>3
  <2> QED BY <2>2, <2>3, <2>4, <2>5, <2>6, ApprovalsExtended
<1>10. Inv'
  <2>1. /\ r \in known' /\ revision'[r] = rec
        /\ \A q \in known : q \in known' /\ revision'[q] = revision[q]
        /\ r \in known => revision'[r] = revision[r]
    BY <1>1, <1>3 DEF rec
  <2> QED BY <1>1, <1>2, <1>5, <1>7, <1>8, <1>9, <2>1, ReviewKeepsInv
<1> QED BY <1>1, <1>10

------------------------------------------------------------------------------
LEMMA StepKeepsInv == Inv /\ [Next]_vars => Inv'
<1> SUFFICES ASSUME Inv, [Next]_vars PROVE Inv'
  OBVIOUS
<1>1. CASE MembershipStep
  BY <1>1, MembershipKeepsInv
<1>2. CASE SettlementStep \/ SetFlags
  BY <1>2, SettlementKeepsInv
<1>3. CASE ExpenseStep
  BY <1>3, SubmitKeepsInv, RespondKeepsInv DEF ExpenseStep
<1>4. CASE UNCHANGED vars
  <2>1. TypeOK' /\ UNCHANGED proposals /\ head' = head /\ posted' = posted
    BY <1>4 DEF vars, Inv, TypeOK, proposals
  <2> QED BY <2>1, QuietStep
<1> QED BY <1>1, <1>2, <1>3, <1>4 DEF Next

LEMMA Invariance == Spec => []Inv
<1>1. Inv /\ [Next]_vars => Inv'
  BY StepKeepsInv
<1> QED BY <1>1, InitInv, PTL DEF Spec

\* Every command leaves every table in its type.
THEOREM TypeCorrect == Spec => []TypeOK
<1>1. Inv => TypeOK
  BY DEF Inv
<1> QED BY <1>1, Invariance, PTL

\* No revision becomes the head without the approval of every member who had
\* to review it, whatever the members, bills and interleaving (_accept_revision).
THEOREM Consent == Spec => []ConsentIsUnanimous
<1>1. Inv => ConsentIsUnanimous
  BY DEF Inv
<1> QED BY <1>1, Invariance, PTL

\* Concurrent edits never fork the accepted history of an expense
\* (revision_head_conflict in submit_proposal and _accept_revision).
THEOREM AcceptedChain == Spec => []AcceptedHistoryIsAChain
<1>1. Inv => AcceptedHistoryIsAChain
  BY DEF Inv
<1> QED BY <1>1, Invariance, PTL

------------------------------------------------------------------------------
\* Whoever an accepted revision moves has to review it: both ends of a pair it
\* touches are charged by it or by the revision it replaces.
LEMMA MovedPairsAreReviewed ==
    ASSUME Inv, Inv', NEW r \in known',
           \A q \in known : q \in known' /\ revision'[q] = revision[q],
           head[revision'[r].expense] = revision'[r].prev,
           Consented(revision'[r], r, approvals'),
           posted' = posted \cup {r}, r \notin posted,
           NEW p \in Pairs,
           \/ revision'[r].owes[p] # 0
           \/ /\ revision'[r].prev # NoRevision
              /\ revision[revision'[r].prev].owes[p] # 0
              /\ revision'[r].prev \in known
    PROVE  \E q \in posted' \ posted : \A m \in {p[1], p[2]} :
              \E x \in approvals' : x.rev = q /\ x.member = m /\ x.decision = "approve"
<1>1. {p[1], p[2]} \subseteq revision'[r].required
  <2>1. CASE revision'[r].owes[p] # 0
    BY <2>1 DEF Inv, RevisionsWellFormed
  <2>2. CASE /\ revision'[r].prev # NoRevision
             /\ revision[revision'[r].prev].owes[p] # 0
             /\ revision'[r].prev \in known
    <3> DEFINE q == revision'[r].prev
    <3>1. {p[1], p[2]} \subseteq revision[q].charged
      BY <2>2 DEF Inv, RevisionsWellFormed
    <3>2. revision'[q].charged \subseteq revision'[r].required /\ revision'[q] = revision[q]
      BY <2>2 DEF Inv, RevisionsWellFormed
    <3> QED BY <3>1, <3>2
  <2> QED BY <2>1, <2>2
<1>2. \A m \in {p[1], p[2]} :
         \E x \in approvals' : x.rev = r /\ x.member = m /\ x.decision = "approve"
  BY <1>1, ConsentedFacts
<1> QED BY <1>2

\* The step behind PairChangesNeedConsent.
ConsentedChange ==
    \A p \in Pairs : pair'[p] # pair[p] =>
        \/ \E r \in posted' \ posted : \A m \in {p[1], p[2]} :
               \E x \in approvals' : x.rev = r /\ x.member = m /\ x.decision = "approve"
        \/ \E s \in SettlementIds :
               /\ settlement[s].status = "reported" /\ settlement'[s].status = "confirmed"
               /\ {settlement[s].payer, settlement[s].receiver} = {p[1], p[2]}

LEMMA SubmitIsConsented ==
    ASSUME Inv, NEW a \in Profiles, NEW e \in Expenses, NEW r \in RevIds,
           NEW b \in Bills \cup {Void}, SubmitProposal(a, e, r, b)
    PROVE  ConsentedChange
<1> DEFINE rec == Draft(e, b)
<1>1. head[e] # NoRevision => head[e] \in known
  BY DEF Inv, AcceptedHistoryIsAChain, HeadsAreLast
<1>2. rec \in Revision /\ rec.expense = e /\ rec.prev = head[e]
  BY <1>1, DraftFacts DEF Inv
<1>3. /\ Inv' /\ revision'[r] = rec /\ r \in known'
      /\ \A q \in known : q \in known' /\ revision'[q] = revision[q]
  BY SubmitKeepsInv
<1>4. r \notin posted
  BY DEF SubmitProposal, Inv, HeadsAreLast, known
<1>5. AcceptRevision(a, r, rec, approvals')
  BY DEF SubmitProposal
<1> HIDE DEF rec
<1>6. \/ UNCHANGED ledger
      \/ /\ Consented(rec, r, approvals')
         /\ posted' = posted \cup {r}
         /\ \A p \in Pairs : pair'[p] # pair[p] =>
               \/ rec.owes[p] # 0
               \/ head[e] # NoRevision /\ revision[head[e]].owes[p] # 0
  BY <1>1, <1>2, <1>5, AcceptFacts DEF Inv
<1>7. CASE UNCHANGED ledger
  BY <1>7 DEF ledger, ConsentedChange
<1>8. CASE posted' = posted \cup {r} /\ ~UNCHANGED ledger
  BY <1>1, <1>2, <1>3, <1>4, <1>6, <1>8, MovedPairsAreReviewed DEF ConsentedChange
<1> QED BY <1>6, <1>7, <1>8

LEMMA RespondIsConsented ==
    ASSUME Inv, NEW a \in Profiles, NEW r \in RevIds, NEW d \in {"approve", "reject"},
           RespondExpense(a, r, d)
    PROVE  ConsentedChange
<1> DEFINE rec == revision[r]
<1>1. Inv' /\ r \in known /\ revision' = revision
  <2>1. Inv' /\ r \in known
    BY RespondKeepsInv
  <2>2. revision' = revision
    BY DEF RespondExpense
  <2> QED BY <2>1, <2>2
<1>2. rec \in Revision /\ rec.expense \in Expenses
  BY <1>1 DEF Inv, TypeOK, known, Revision
<1>3. known' = known
  BY <1>1 DEF known
<1>4. head[rec.expense] # NoRevision => head[rec.expense] \in known
  BY <1>2 DEF Inv, AcceptedHistoryIsAChain, HeadsAreLast
<1>5. \/ UNCHANGED ledger
      \/ head[rec.expense] = rec.prev /\ AcceptRevision(a, r, rec, approvals')
  BY DEF RespondExpense, Current
<1>6. CASE UNCHANGED ledger
  BY <1>6 DEF ledger, ConsentedChange
<1>7. CASE head[rec.expense] = rec.prev /\ AcceptRevision(a, r, rec, approvals') /\ ~UNCHANGED ledger
  <2>1. r \notin posted
    BY <1>7 DEF Inv, HeadsAreLast
  <2>2. /\ Consented(rec, r, approvals')
        /\ posted' = posted \cup {r}
        /\ \A p \in Pairs : pair'[p] # pair[p] =>
              \/ rec.owes[p] # 0
              \/ head[rec.expense] # NoRevision /\ revision[head[rec.expense]].owes[p] # 0
    BY <1>2, <1>4, <1>7, AcceptFacts DEF Inv
  <2> QED BY <1>1, <1>3, <1>4, <1>7, <2>1, <2>2, MovedPairsAreReviewed DEF ConsentedChange
<1> QED BY <1>5, <1>6, <1>7

LEMMA SettlementIsConsented ==
    ASSUME Inv, NEW a \in Profiles, NEW s \in SettlementIds, NEW d \in {"confirm", "reject"},
           RespondSettlement(a, s, d)
    PROVE  ConsentedChange
<1>1. settlement[s] \in Settlement /\ settlement[s].status = "reported"
  BY DEF RespondSettlement, Inv, TypeOK, NoSettlement
<1>2. CASE UNCHANGED ledger
  BY <1>2 DEF ledger, ConsentedChange
<1>3. CASE /\ settlement' = [settlement EXCEPT ![s].status = "confirmed"]
           /\ PostPairs(Paid(settlement[s]))
  <2>1. settlement'[s].status = "confirmed"
    BY <1>1, <1>3 DEF Inv, TypeOK, Settlement
  <2>2. /\ Paid(settlement[s]) \in [Pairs -> Int]
        /\ \A p \in Pairs : Paid(settlement[s])[p] # 0 =>
              {settlement[s].payer, settlement[s].receiver} = {p[1], p[2]}
    BY <1>1, PaidFacts
  <2>3. \A p \in Pairs : pair'[p] = pair[p] + Paid(settlement[s])[p]
    BY <1>3 DEF PostPairs
  <2>4. \A p \in Pairs : pair'[p] # pair[p] => Paid(settlement[s])[p] # 0
    BY <2>2, <2>3 DEF Inv, TypeOK
  <2> QED BY <1>1, <2>1, <2>2, <2>4 DEF ConsentedChange
<1> QED BY <1>2, <1>3 DEF RespondSettlement

\* What two members owe each other changes only by a revision both approved
\* (_accept_revision) or a payment between them that its receiver confirmed
\* (respond_settlement).
THEOREM ConsentedPairs == Spec => PairChangesNeedConsent
<1>1. Inv /\ [Next]_vars => [ConsentedChange]_vars
  <2> SUFFICES ASSUME Inv, Next PROVE ConsentedChange \/ pair' = pair
    BY DEF ConsentedChange, vars
  <2>1. CASE MembershipStep
    BY <2>1 DEF MembershipStep, Invite, RespondMembership, BindInvitation, RemoveMember,
                LeaveContext, DeleteAccount, ledger
  <2>2. CASE ExpenseStep
    BY <2>2, SubmitIsConsented, RespondIsConsented DEF ExpenseStep
  <2>3. CASE SettlementStep
    BY <2>3, SettlementIsConsented DEF SettlementStep, ReportSettlement, ledger
  <2>4. CASE SetFlags
    BY <2>4 DEF SetFlags, ledger
  <2> QED BY <2>1, <2>2, <2>3, <2>4 DEF Next
<1>2. Spec => [][ConsentedChange]_vars
  BY <1>1, Invariance, PTL DEF Spec
<1> QED BY <1>2 DEF PairChangesNeedConsent, ConsentedChange

------------------------------------------------------------------------------
\* The lines whose sums explain what a pair owes.
HeadLines(p) == [e \in Expenses |-> HeadOwes(e)[p]]
PaidLines(p) == [s \in SettlementIds |->
                    IF settlement[s].status = "confirmed" THEN Paid(settlement[s])[p] ELSE 0]

Money ==
    /\ HeadsAndPaymentsExplainPairs
    /\ MembersMatchPairs
    /\ BalancesWithinCap

LEMMA HeadOwesType ==
    ASSUME Inv, NEW e \in Expenses
    PROVE  /\ HeadOwes(e) \in [Pairs -> Int]
           /\ head[e] # NoRevision => head[e] \in known /\ revision[head[e]] \in Revision
<1>1. head[e] # NoRevision => head[e] \in known /\ revision[head[e]] \in Revision
  BY DEF Inv, AcceptedHistoryIsAChain, HeadsAreLast, TypeOK, known
<1>2. CASE head[e] = NoRevision
  BY <1>1, <1>2 DEF HeadOwes, Void
<1>3. CASE head[e] # NoRevision
  BY <1>1, <1>3 DEF HeadOwes, Revision
<1> QED BY <1>1, <1>2, <1>3

LEMMA LinesType ==
    ASSUME Inv, NEW p \in Pairs
    PROVE  /\ \A e \in Expenses : HeadLines(p)[e] = HeadOwes(e)[p] /\ HeadLines(p)[e] \in Int
           /\ DOMAIN HeadLines(p) = Expenses
           /\ \A s \in SettlementIds :
                 /\ PaidLines(p)[s] = IF settlement[s].status = "confirmed"
                                      THEN Paid(settlement[s])[p] ELSE 0
                 /\ PaidLines(p)[s] \in Int
           /\ DOMAIN PaidLines(p) = SettlementIds
<1>1. \A e \in Expenses : HeadOwes(e)[p] \in Int
  BY HeadOwesType
<1>2. ASSUME NEW s \in SettlementIds, settlement[s].status = "confirmed"
      PROVE  Paid(settlement[s])[p] \in Int
  <2>1. settlement[s] \in Settlement
    BY <1>2 DEF Inv, TypeOK, NoSettlement
  <2> QED BY <2>1, PaidFacts
<1> QED BY <1>1, <1>2 DEF HeadLines, PaidLines

LEMMA ExplainedBySums ==
    HeadsAndPaymentsExplainPairs <=>
        \A p \in Pairs : pair[p] = SumFunctionOnSet(HeadLines(p), Expenses)
                                     + SumFunctionOnSet(PaidLines(p), SettlementIds)
BY DEF HeadsAndPaymentsExplainPairs, HeadLines, PaidLines, SumFunction

\* A command that moves neither a head nor a confirmed payment.
LEMMA ExplanationKept ==
    ASSUME Inv, Inv', HeadsAndPaymentsExplainPairs, pair' = pair,
           \A e \in Expenses : HeadOwes(e)' = HeadOwes(e),
           \A s \in SettlementIds :
              \/ settlement'[s] = settlement[s]
              \/ settlement[s].status # "confirmed" /\ settlement'[s].status # "confirmed"
    PROVE  HeadsAndPaymentsExplainPairs'
<1>1. ASSUME NEW p \in Pairs
      PROVE  pair'[p] = SumFunctionOnSet(HeadLines(p)', Expenses)
                          + SumFunctionOnSet(PaidLines(p)', SettlementIds)
  <2>1. HeadLines(p)' = HeadLines(p)
    BY DEF HeadLines
  <2>2. PaidLines(p)' = PaidLines(p)
    BY DEF PaidLines, Paid
  <2>3. pair[p] = SumFunctionOnSet(HeadLines(p), Expenses) + SumFunctionOnSet(PaidLines(p), SettlementIds)
    BY ExplainedBySums
  <2> QED BY <2>1, <2>2, <2>3
<1> QED BY <1>1 DEF HeadsAndPaymentsExplainPairs, HeadLines, PaidLines, SumFunction

\* A command that moves the head of one expense and posts the difference.
LEMMA ExplanationOfHead ==
    ASSUME Inv, Inv', HeadsAndPaymentsExplainPairs, NEW e \in Expenses,
           \A x \in Expenses \ {e} : HeadOwes(x)' = HeadOwes(x), settlement' = settlement,
           HeadOwes(e)' \in [Pairs -> Int],
           \A p \in Pairs : pair'[p] = pair[p] + (HeadOwes(e)'[p] - HeadOwes(e)[p])
    PROVE  HeadsAndPaymentsExplainPairs'
<1>1. ASSUME NEW p \in Pairs
      PROVE  pair'[p] = SumFunctionOnSet(HeadLines(p)', Expenses)
                          + SumFunctionOnSet(PaidLines(p)', SettlementIds)
  <2> DEFINE old == HeadLines(p)
             new == HeadLines(p)'
             paid == PaidLines(p)
  <2>1. \A x \in Expenses : old[x] = HeadOwes(x)[p] /\ old[x] \in Int
    BY LinesType
  <2>2. \A x \in Expenses : new[x] = HeadOwes(x)'[p] /\ new[x] \in Int
    <3>1. \A x \in Expenses : HeadOwes(x)'[p] \in Int
      <4>1. \A x \in Expenses \ {e} : HeadOwes(x)' \in [Pairs -> Int]
        BY HeadOwesType
      <4> QED BY <4>1
    <3> QED BY <3>1 DEF HeadLines
  <2>3. PaidLines(p)' = PaidLines(p)
    BY DEF PaidLines, Paid
  <2>4. pair[p] = SumFunctionOnSet(old, Expenses) + SumFunctionOnSet(paid, SettlementIds)
    BY ExplainedBySums
  <2>5. \A x \in Expenses \ {e} : new[x] = old[x]
    BY <2>1, <2>2
  <2>6. pair'[p] = pair[p] + (new[e] - old[e])
    BY <2>1, <2>2
  <2> HIDE DEF old, new, paid
  <2>7. SumFunctionOnSet(new, Expenses) = SumFunctionOnSet(old, Expenses) + (new[e] - old[e])
    <3>1. \A x \in Expenses : old[x] \in Int /\ new[x] \in Int
      BY <2>1, <2>2
    <3> QED BY <2>5, <3>1, FiniteAssumption, SumMoves
  <2>8. SumFunctionOnSet(old, Expenses) \in Int /\ new[e] \in Int /\ old[e] \in Int
    BY <2>1, <2>2, FiniteAssumption, SumTakesOut
  <2>9. SumFunctionOnSet(paid, SettlementIds) \in Int
    <3>1. \A s \in SettlementIds : paid[s] \in Int
      BY LinesType DEF paid
    <3> QED BY <3>1, FiniteAssumption, SumTakesOut
  <2>10. pair'[p] = SumFunctionOnSet(new, Expenses) + SumFunctionOnSet(paid, SettlementIds)
    BY <2>4, <2>6, <2>7, <2>8, <2>9
  <2> QED BY <2>3, <2>10 DEF new, paid
<1> QED BY <1>1 DEF HeadsAndPaymentsExplainPairs, HeadLines, PaidLines, SumFunction

\* The confirmation of one payment, which posts its amount.
LEMMA ExplanationOfPayment ==
    ASSUME Inv, Inv', HeadsAndPaymentsExplainPairs, NEW s \in SettlementIds,
           settlement[s].status = "reported",
           settlement' = [settlement EXCEPT ![s].status = "confirmed"],
           \A e \in Expenses : HeadOwes(e)' = HeadOwes(e),
           \A p \in Pairs : pair'[p] = pair[p] + Paid(settlement[s])[p]
    PROVE  HeadsAndPaymentsExplainPairs'
<1>1. settlement[s] \in Settlement
  BY DEF Inv, TypeOK, NoSettlement
<1>2. /\ settlement'[s].status = "confirmed"
      /\ settlement'[s].payer = settlement[s].payer
      /\ settlement'[s].receiver = settlement[s].receiver
      /\ settlement'[s].amount = settlement[s].amount
      /\ \A x \in SettlementIds \ {s} : settlement'[x] = settlement[x]
  BY <1>1 DEF Inv, TypeOK, Settlement
<1>3. ASSUME NEW p \in Pairs
      PROVE  pair'[p] = SumFunctionOnSet(HeadLines(p)', Expenses)
                          + SumFunctionOnSet(PaidLines(p)', SettlementIds)
  <2> DEFINE old == PaidLines(p)
             new == PaidLines(p)'
             owed == HeadLines(p)
             amount == Paid(settlement[s])[p]
  <2>1. \A x \in SettlementIds : old[x] \in Int
    BY LinesType
  <2>2. old[s] = 0 /\ amount \in Int
    BY <1>1, LinesType, PaidFacts
  <2>3. new[s] = amount
    BY <1>2 DEF PaidLines, Paid
  <2>4. \A x \in SettlementIds \ {s} : new[x] = old[x]
    BY <1>2 DEF PaidLines, Paid
  <2>5. HeadLines(p)' = HeadLines(p)
    BY DEF HeadLines
  <2>6. pair[p] = SumFunctionOnSet(owed, Expenses) + SumFunctionOnSet(old, SettlementIds)
    BY ExplainedBySums
  <2>7. pair'[p] = pair[p] + amount
    OBVIOUS
  <2>8. \A x \in Expenses : owed[x] \in Int
    BY LinesType
  <2> HIDE DEF old, new, owed, amount
  <2>9. SumFunctionOnSet(new, SettlementIds) = SumFunctionOnSet(old, SettlementIds) + (new[s] - old[s])
    <3>1. \A x \in SettlementIds : old[x] \in Int /\ new[x] \in Int
      BY <2>1, <2>2, <2>3, <2>4
    <3> QED BY <2>4, <3>1, FiniteAssumption, SumMoves
  <2>10. SumFunctionOnSet(old, SettlementIds) \in Int /\ SumFunctionOnSet(owed, Expenses) \in Int
    BY <2>1, <2>8, FiniteAssumption, SumTakesOut
  <2>11. pair'[p] = SumFunctionOnSet(owed, Expenses) + SumFunctionOnSet(new, SettlementIds)
    BY <2>2, <2>3, <2>6, <2>7, <2>9, <2>10
  <2> QED BY <2>5, <2>11 DEF new, owed
<1> QED BY <1>3 DEF HeadsAndPaymentsExplainPairs, HeadLines, PaidLines, SumFunction

\* A command that leaves the ledger, the payments and the old revisions alone.
LEMMA MoneyKept ==
    ASSUME Inv, Inv', Money, UNCHANGED ledger,
           \A q \in known : revision'[q] = revision[q],
           \A s \in SettlementIds :
              \/ settlement'[s] = settlement[s]
              \/ settlement[s].status # "confirmed" /\ settlement'[s].status # "confirmed"
    PROVE  Money'
<1>1. head' = head /\ pair' = pair /\ bal' = bal
  BY DEF ledger
<1>2. \A e \in Expenses : HeadOwes(e)' = HeadOwes(e)
  <2>1. ASSUME NEW e \in Expenses PROVE HeadOwes(e)' = HeadOwes(e)
    <3>1. head[e] # NoRevision => revision'[head[e]] = revision[head[e]]
      BY HeadOwesType
    <3> QED BY <1>1, <3>1 DEF HeadOwes, Void
  <2> QED BY <2>1
<1>3. HeadsAndPaymentsExplainPairs'
  BY <1>1, <1>2, ExplanationKept DEF Money
<1>4. MembersMatchPairs' /\ BalancesWithinCap'
  BY <1>1 DEF Money, MembersMatchPairs, BalancesWithinCap
<1> QED BY <1>3, <1>4 DEF Money

LEMMA AcceptKeepsMoney ==
    ASSUME Inv, Inv', Money, NEW a \in Profiles, NEW r \in RevIds, NEW rec \in Revision, NEW given,
           \A q \in known : revision'[q] = revision[q],
           revision'[r] = rec, settlement' = settlement,
           AcceptRevision(a, r, rec, given)
    PROVE  Money'
<1>1. CASE UNCHANGED ledger
  BY <1>1, MoneyKept
<1>2. CASE ~UNCHANGED ledger
  <2> DEFINE e == rec.expense
             before == HeadOwes(e)
             delta == [p \in Pairs |-> rec.owes[p] - before[p]]
  <2>1. PostPairs(delta) /\ head' = [head EXCEPT ![e] = r]
    BY <1>2 DEF AcceptRevision, Effect
  <2>2. e \in Expenses /\ rec.owes \in [Pairs -> Int] /\ r # NoRevision
    BY RevisionsAssumption DEF Revision
  <2>3. before \in [Pairs -> Int]
    BY <2>2, HeadOwesType
  <2>4. \A x \in Expenses : head'[x] = IF x = e THEN r ELSE head[x]
    BY <2>1, <2>2 DEF Inv, TypeOK
  <2>5. HeadOwes(e)' = rec.owes
    BY <2>2, <2>4 DEF HeadOwes
  <2>6. \A x \in Expenses \ {e} : HeadOwes(x)' = HeadOwes(x)
    <3>1. ASSUME NEW x \in Expenses \ {e} PROVE HeadOwes(x)' = HeadOwes(x)
      <4>1. head'[x] = head[x] /\ (head[x] # NoRevision => revision'[head[x]] = revision[head[x]])
        BY <2>4, HeadOwesType
      <4> QED BY <4>1 DEF HeadOwes, Void
    <3> QED BY <3>1
  <2> HIDE DEF e, before
  <2>7. delta \in [Pairs -> Int] /\ \A p \in Pairs : delta[p] = rec.owes[p] - before[p]
    BY <2>2, <2>3
  <2> HIDE DEF delta
  <2>8. /\ \A p \in Pairs : pair'[p] = pair[p] + delta[p]
        /\ MembersMatchPairs' /\ BalancesWithinCap'
    BY <2>1, <2>7, PostFacts DEF Inv, Money
  <2>9. HeadsAndPaymentsExplainPairs'
    <3>1. \A p \in Pairs : pair'[p] = pair[p] + (HeadOwes(e)'[p] - HeadOwes(e)[p])
      BY <2>5, <2>7, <2>8 DEF before
    <3> QED BY <2>2, <2>5, <2>6, <3>1, ExplanationOfHead DEF Money
  <2> QED BY <2>8, <2>9 DEF Money
<1> QED BY <1>1, <1>2

LEMMA ExpenseKeepsMoney == Inv /\ Inv' /\ Money /\ ExpenseStep => Money'
<1> SUFFICES ASSUME Inv, Inv', Money, ExpenseStep PROVE Money'
  OBVIOUS
<1>1. ASSUME NEW a \in Profiles, NEW e \in Expenses, NEW r \in RevIds,
             NEW b \in Bills \cup {Void}, SubmitProposal(a, e, r, b)
      PROVE  Money'
  <2>1. /\ revision'[r] = Draft(e, b)
        /\ \A q \in known : revision'[q] = revision[q]
    BY <1>1, SubmitKeepsInv
  <2>2. Draft(e, b) \in Revision
    BY HeadOwesType, DraftFacts DEF Inv
  <2>3. settlement' = settlement /\ AcceptRevision(a, r, Draft(e, b), approvals')
    BY <1>1 DEF SubmitProposal
  <2> QED BY <2>1, <2>2, <2>3, AcceptKeepsMoney
<1>2. ASSUME NEW a \in Profiles, NEW r \in RevIds, NEW d \in {"approve", "reject"},
             RespondExpense(a, r, d)
      PROVE  Money'
  <2>1. r \in known /\ revision' = revision /\ settlement' = settlement
    BY <1>2 DEF RespondExpense
  <2>2. revision[r] \in Revision
    BY <2>1 DEF Inv, TypeOK, known
  <2>3. UNCHANGED ledger \/ AcceptRevision(a, r, revision[r], approvals')
    BY <1>2 DEF RespondExpense
  <2>4. CASE UNCHANGED ledger
    BY <2>1, <2>4, MoneyKept
  <2>5. CASE AcceptRevision(a, r, revision[r], approvals')
    BY <2>1, <2>2, <2>5, AcceptKeepsMoney
  <2> QED BY <2>3, <2>4, <2>5
<1> QED BY <1>1, <1>2 DEF ExpenseStep

LEMMA SettlementKeepsMoney == Inv /\ Inv' /\ Money /\ SettlementStep => Money'
<1> SUFFICES ASSUME Inv, Inv', Money, SettlementStep PROVE Money'
  OBVIOUS
<1>1. ASSUME NEW a \in Profiles, NEW s \in SettlementIds, NEW payer \in Members,
             NEW receiver \in Members, NEW amount \in Amounts,
             ReportSettlement(a, s, payer, receiver, amount)
      PROVE  Money'
  <2>1. /\ settlement[s].status # "confirmed" /\ settlement'[s].status # "confirmed"
        /\ \A x \in SettlementIds \ {s} : settlement'[x] = settlement[x]
    BY <1>1 DEF ReportSettlement, NoSettlement, Inv, TypeOK
  <2>2. UNCHANGED ledger /\ revision' = revision
    BY <1>1 DEF ReportSettlement, proposals
  <2> QED BY <2>1, <2>2, MoneyKept
<1>2. ASSUME NEW a \in Profiles, NEW s \in SettlementIds, NEW d \in {"confirm", "reject"},
             RespondSettlement(a, s, d)
      PROVE  Money'
  <2>1. /\ settlement[s] \in Settlement /\ settlement[s].status = "reported"
        /\ revision' = revision
    BY <1>2 DEF RespondSettlement, proposals, Inv, TypeOK, NoSettlement
  <2>2. CASE /\ settlement' = [settlement EXCEPT ![s].status = "rejected"]
             /\ UNCHANGED ledger
    <3>1. /\ settlement[s].status # "confirmed" /\ settlement'[s].status # "confirmed"
          /\ \A x \in SettlementIds \ {s} : settlement'[x] = settlement[x]
      BY <2>1, <2>2 DEF Inv, TypeOK, Settlement
    <3> QED BY <2>1, <2>2, <3>1, MoneyKept
  <2>3. CASE /\ settlement' = [settlement EXCEPT ![s].status = "confirmed"]
             /\ PostPairs(Paid(settlement[s]))
             /\ head' = head
    <3>1. /\ \A p \in Pairs : pair'[p] = pair[p] + Paid(settlement[s])[p]
          /\ MembersMatchPairs' /\ BalancesWithinCap'
      BY <2>1, <2>3, PaidFacts, PostFacts DEF Inv, Money
    <3>2. \A e \in Expenses : HeadOwes(e)' = HeadOwes(e)
      BY <2>1, <2>3 DEF HeadOwes, Void
    <3>3. HeadsAndPaymentsExplainPairs'
      BY <2>1, <2>3, <3>1, <3>2, ExplanationOfPayment DEF Money
    <3> QED BY <3>1, <3>3 DEF Money
  <2> QED BY <1>2, <2>2, <2>3 DEF RespondSettlement
<1> QED BY <1>1, <1>2 DEF SettlementStep

LEMMA InitMoney == Init => Money
<1> SUFFICES ASSUME Init PROVE Money
  OBVIOUS
<1> USE InitInv
<1>1. pair = [p \in Pairs |-> 0] /\ bal = [m \in Members |-> 0]
  BY DEF Init
<1>2. HeadsAndPaymentsExplainPairs
  <2>1. ASSUME NEW p \in Pairs
        PROVE  pair[p] = SumFunctionOnSet(HeadLines(p), Expenses)
                           + SumFunctionOnSet(PaidLines(p), SettlementIds)
    <3>1. \A e \in Expenses : HeadLines(p)[e] = 0
      BY DEF Init, HeadLines, HeadOwes, Void
    <3>2. \A s \in SettlementIds : PaidLines(p)[s] = 0
      BY DEF Init, PaidLines, NoSettlement
    <3>3. /\ SumFunctionOnSet(HeadLines(p), Expenses) = 0
          /\ SumFunctionOnSet(PaidLines(p), SettlementIds) = 0
      BY <3>1, <3>2, FiniteAssumption, SumOfZeros
    <3> QED BY <1>1, <3>3
  <2> QED BY <2>1, ExplainedBySums
<1>3. \A m \in Members : Incidence(pair, m) = 0
  <2>1. ASSUME NEW m \in Members
        PROVE  /\ SumFunctionOnSet(pair, {p \in Pairs : p[1] = m}) = 0
               /\ SumFunctionOnSet(pair, {p \in Pairs : p[2] = m}) = 0
    BY <1>1, PairsFinite, SumOfZeros
  <2> QED BY <2>1 DEF Incidence
<1>4. SumFunction(bal) = 0
  BY <1>1, FiniteAssumption, SumOfZeros DEF SumFunction
<1>5. Gross(pair) = 0
  <2> DEFINE size == [p \in Pairs |-> Abs(pair[p])]
  <2>1. \A p \in Pairs : size[p] = 0
    BY <1>1 DEF Abs
  <2>2. Gross(pair) = SumFunctionOnSet(size, Pairs)
    BY DEF Gross, SumFunction
  <2> HIDE DEF size
  <2> QED BY <2>1, <2>2, PairsFinite, SumOfZeros
<1>6. MembersMatchPairs /\ BalancesWithinCap
  BY <1>1, <1>3, <1>4, <1>5, CapAssumption DEF MembersMatchPairs, BalancesWithinCap, Abs
<1> QED BY <1>2, <1>6 DEF Money

LEMMA StepKeepsMoney == Inv /\ Inv' /\ Money /\ [Next]_vars => Money'
<1> SUFFICES ASSUME Inv, Inv', Money, [Next]_vars PROVE Money'
  OBVIOUS
<1>1. CASE ExpenseStep
  BY <1>1, ExpenseKeepsMoney
<1>2. CASE SettlementStep
  BY <1>2, SettlementKeepsMoney
<1>3. CASE MembershipStep \/ SetFlags \/ UNCHANGED vars
  <2>1. UNCHANGED <<ledger, revision, settlement>>
    BY <1>3 DEF MembershipStep, Invite, RespondMembership, BindInvitation, RemoveMember,
                LeaveContext, DeleteAccount, SetFlags, vars, ledger, proposals
  <2> QED BY <2>1, MoneyKept
<1> QED BY <1>1, <1>2, <1>3 DEF Next

LEMMA MoneyInvariance == Spec => []Money
<1> QED BY InitInv, InitMoney, StepKeepsInv, StepKeepsMoney, Invariance, PTL DEF Spec

\* Every pair owes what the accepted revisions say, corrected by the confirmed
\* payments between the two (_accept_revision, respond_settlement, _post_pair).
THEOREM PairsExplained == Spec => []HeadsAndPaymentsExplainPairs
<1>1. Money => HeadsAndPaymentsExplainPairs
  BY DEF Money
<1> QED BY <1>1, MoneyInvariance, PTL

\* The balances of the members, kept by increments, are those of their pairs
\* and sum to zero (_post_pair updates both tables).
THEOREM MembersBalance == Spec => []MembersMatchPairs
<1>1. Money => MembersMatchPairs
  BY DEF Money
<1> QED BY <1>1, MoneyInvariance, PTL

\* The gross cap of the context bounds the balance of every member
\* (aggregate_limit_exceeded).
THEOREM CapHolds == Spec => []BalancesWithinCap
<1>1. Money => BalancesWithinCap
  BY DEF Money
<1> QED BY <1>1, MoneyInvariance, PTL
==============================================================================
