---------------------------- MODULE MCSplitLedger ----------------------------
(* Small instances of SplitLedger for TLC. *)
EXTENDS SplitLedger, TLC

CONSTANTS p1, p2, p3, e1, e2, r1, r2, r3, s1, s2

Owes(f) == [p \in Pairs |-> IF p \in DOMAIN f THEN f[p] ELSE 0]

\* Member 1 paid 2 for members 2 and 3.
Dinner == [parties |-> {1, 2, 3}, charged |-> {1, 2, 3}, contributors |-> {},
           sources |-> {}, owes |-> Owes((<<1, 2>> :> 1) @@ (<<1, 3>> :> 1))]
\* Member 2 paid 1 for member 1; member 3 has a zero row.
Taxi == [parties |-> {1, 2, 3}, charged |-> {1, 2}, contributors |-> {},
         sources |-> {}, owes |-> Owes(<<1, 2>> :> -1)]
\* Member 3 paid 1 for member 1 from a linked bank transaction, with member 2's
\* card listed as a payer.
Linked == [parties |-> {1, 3}, charged |-> {1, 3}, contributors |-> {2},
           sources |-> {3}, owes |-> Owes(<<1, 3>> :> -1)]
\* Member 2 paid 1 for member 3.
Cab == [Taxi EXCEPT !.parties = {2, 3}, !.charged = {2, 3}, !.owes = Owes(<<2, 3>> :> 1)]

AllBills == {Dinner, Taxi, Cab, Linked}
Household == {Dinner, Taxi}
WithBankLink == {Dinner, Linked}
ThreeMembers == {1, 2, 3}

\* A context whose members 1 and 2 have joined and whose member 3 is still to be added.
Friends ==
    /\ accounts = Profiles
    /\ profile = (1 :> p1) @@ (2 :> p2) @@ (3 :> NoProfile)
    /\ state = (1 :> "active") @@ (2 :> "active") @@ (3 :> "none")
    /\ revision = [r \in RevIds |-> NoRevision]
    /\ approvals = {}
    /\ head = [e \in Expenses |-> NoRevision]
    /\ posted = {}
    /\ settlement = [s \in SettlementIds |-> NoSettlement]
    /\ pair = [p \in Pairs |-> 0]
    /\ bal = [m \in Members |-> 0]
    /\ settings = [acceptedWrites |-> TRUE, settlements |-> TRUE]
    /\ late = {}

\* Friends once member 3 has joined as p3.
AllJoined ==
    /\ accounts = Profiles
    /\ profile = (1 :> p1) @@ (2 :> p2) @@ (3 :> p3)
    /\ state = [m \in Members |-> "active"]
    /\ revision = [r \in RevIds |-> NoRevision]
    /\ approvals = {}
    /\ head = [e \in Expenses |-> NoRevision]
    /\ posted = {}
    /\ settlement = [s \in SettlementIds |-> NoSettlement]
    /\ pair = [p \in Pairs |-> 0]
    /\ bal = [m \in Members |-> 0]
    /\ settings = [acceptedWrites |-> TRUE, settlements |-> TRUE]
    /\ late = {}

\* The settlement switch only refuses commands, so it stays on here; the other one
\* also defers acceptance and is switched at any time.
FriendsSpec == Friends /\ [][Next /\ settings'.settlements]_vars
AllJoinedSpec == AllJoined /\ [][Next]_vars
\* Money alone: nobody joins, leaves or deletes an account and the flags stay on.
MoneySpec == AllJoined /\ [][ExpenseStep \/ SettlementStep]_vars
ClientIds == Permutations(RevIds) \cup Permutations(SettlementIds) \cup Permutations(Expenses)
==============================================================================
