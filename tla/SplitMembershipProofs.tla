------------------------ MODULE SplitMembershipProofs ------------------------
(* Type correctness, invitations, bindings, final states and ownership of  *)
(* SplitMembership, proved for any members, accounts, invitations and      *)
(* connections.                                                            *)
EXTENDS SplitMembership, TLAPS

\* An invitation is only ever made for a row that exists.
InvitedExist == \A i \in issued : state[invitation[i].member] # "none"

\* A command past its check runs for a row that was active then, and an
\* active row becomes nothing but left.
WaitingWereActive ==
    \A c \in Connections :
        waiting[c] # Idle /\ waiting[c].role # "visitor"
            => state[waiting[c].member] \in {"active", "left"}

Inv ==
    /\ TypeOK
    /\ InvitedExist
    /\ WaitingWereActive
    /\ OneLinkPerPerson
    /\ OneRequestPerAccount
    /\ BindingsAreJoins

------------------------------------------------------------------------------
\* A row of invitations stays one when it is answered.
LEMMA AnswerType ==
    ASSUME TypeOK, NEW i \in issued, NEW p \in Profiles,
           NEW s \in {"open", "awaiting_owner", "joined", "rejected"}
    PROVE  /\ invitation[i] \in Invitation
           /\ [invitation EXCEPT ![i].state = s]
                 \in [Invitations -> Invitation \cup {NoInvitation}]
           /\ [invitation EXCEPT ![i].state = s, ![i].claimed = p]
                 \in [Invitations -> Invitation \cup {NoInvitation}]
<1>1. i \in Invitations /\ invitation[i] \in Invitation
  BY DEF TypeOK, issued
<1>2. [invitation[i] EXCEPT !.state = s] \in Invitation
  BY <1>1 DEF Invitation
<1>3. [invitation[i] EXCEPT !.state = s, !.claimed = p] \in Invitation
  BY <1>1 DEF Invitation
<1> QED BY <1>1, <1>2, <1>3 DEF TypeOK

LEMMA ClosedType ==
    ASSUME TypeOK, NEW m \in Members
    PROVE  Closed(m) \in [Invitations -> Invitation \cup {NoInvitation}]
<1> SUFFICES ASSUME NEW i \in Invitations, Outstanding(i)
             PROVE  [invitation[i] EXCEPT !.state = "rejected"] \in Invitation
  BY DEF Closed, TypeOK
<1>1. invitation[i] \in Invitation
  BY DEF Outstanding, TypeOK, issued
<1> QED BY <1>1 DEF Invitation

LEMMA BindType ==
    ASSUME TypeOK, NEW i \in issued, NEW p \in Profiles, Bind(i, p)
    PROVE  /\ binding' \in [Members -> Profiles \cup {NoProfile}]
           /\ profile' \in [Members -> Profiles \cup {NoProfile}]
           /\ state' \in [Members -> {"none", "invited", "active", "declined", "left"}]
           /\ invitation' \in [Invitations -> Invitation \cup {NoInvitation}]
<1>1. invitation[i] \in Invitation /\ invitation' \in [Invitations -> Invitation \cup {NoInvitation}]
  BY AnswerType DEF Bind
<1>2. invitation[i].member \in Members
  BY <1>1 DEF Invitation
<1> QED BY <1>1, <1>2 DEF Bind, TypeOK

LEMMA TypeStep == TypeOK /\ [Next]_vars => TypeOK'
<1> SUFFICES ASSUME TypeOK, [Next]_vars PROVE TypeOK'
  OBVIOUS
<1> USE DEF seats
<1>1. ASSUME NEW c \in Connections, NEW p \in Profiles, NEW m \in Members, Begin(c, p, m)
      PROVE  TypeOK'
  BY <1>1 DEF TypeOK, Begin, Snapshot
<1>2. ASSUME NEW c \in Connections, NEW p \in Profiles, OpenLink(c, p)
      PROVE  TypeOK'
  BY <1>2, MembershipAssumption DEF TypeOK, OpenLink, Snapshot
<1>3. ASSUME NEW c \in Connections, Abort(c)
      PROVE  TypeOK'
  BY <1>3 DEF TypeOK, Abort, Done
<1>4. ASSUME NEW c \in Connections, NEW m \in Members, NEW p \in Profiles \cup {NoProfile},
             InviteMember(c, m, p)
      PROVE  TypeOK'
  BY <1>4 DEF TypeOK, InviteMember, Done
<1>5. ASSUME NEW c \in Connections, NEW i \in Invitations, NEW m \in Members,
             NEW t \in Profiles \cup {NoProfile}, CreateInvitation(c, i, m, t)
      PROVE  TypeOK'
  <2>1. waiting[c] \in Snapshot
    BY <1>5 DEF CreateInvitation, ByOwner, TypeOK
  <2>2. [member |-> m, issuer |-> waiting[c].by, target |-> t, claimed |-> NoProfile,
         viaLink |-> FALSE, expired |-> FALSE, state |-> "open"] \in Invitation
    BY <2>1 DEF Snapshot, Invitation
  <2>3. invitation' \in [Invitations -> Invitation \cup {NoInvitation}]
    BY <1>5, <2>2, ClosedType DEF CreateInvitation
  <2> QED BY <1>5, <2>3 DEF CreateInvitation, TypeOK, Done
<1>6. ASSUME NEW c \in Connections, NEW i \in Invitations, NEW approve \in BOOLEAN,
             RespondInvitation(c, i, approve)
      PROVE  TypeOK'
  <2>1. i \in issued /\ invitation[i] \in Invitation
    BY <1>6 DEF RespondInvitation, Outstanding, issued, TypeOK
  <2>2. CASE Bind(i, invitation[i].claimed) /\ invitation[i].claimed # NoProfile
    <3>1. invitation[i].claimed \in Profiles
      BY <2>1, <2>2 DEF Invitation
    <3> QED BY <1>6, <2>1, <2>2, <3>1, BindType DEF RespondInvitation, TypeOK, Done
  <2>3. CASE invitation' = [invitation EXCEPT ![i].state = "rejected"] /\ ~approve
    <3>1. invitation' \in [Invitations -> Invitation \cup {NoInvitation}]
      BY <2>1, <2>3, AnswerType, MembershipAssumption
    <3>2. state' \in [Members -> {"none", "invited", "active", "declined", "left"}]
      BY <1>6, <2>3 DEF RespondInvitation, TypeOK
    <3> QED BY <1>6, <2>3, <3>1, <3>2 DEF RespondInvitation, TypeOK, Done
  <2> QED BY <1>6, <2>2, <2>3 DEF RespondInvitation
<1>7. ASSUME NEW c \in Connections, NEW live \in BOOLEAN, SetGroupLink(c, live)
      PROVE  TypeOK'
  BY <1>7 DEF TypeOK, SetGroupLink, Done
<1>8. ASSUME NEW c \in Connections, NEW m \in Members, RemoveMember(c, m)
      PROVE  TypeOK'
  BY <1>8, ClosedType DEF TypeOK, RemoveMember, Done
<1>9. ASSUME NEW c \in Connections, NEW m \in Members, TransferOwner(c, m)
      PROVE  TypeOK'
  BY <1>9 DEF TypeOK, TransferOwner, Done
<1>10. ASSUME NEW m \in Members, NEW accept \in BOOLEAN, RespondMembership(m, accept)
       PROVE  TypeOK'
  BY <1>10 DEF TypeOK, RespondMembership
<1>11. ASSUME NEW p \in Profiles, NEW i \in Invitations, ClaimInvitation(p, i)
       PROVE  TypeOK'
  <2>1. i \in issued
    BY <1>11 DEF ClaimInvitation
  <2>2. CASE Bind(i, p)
    BY <1>11, <2>1, <2>2, BindType DEF ClaimInvitation, TypeOK
  <2>3. CASE /\ invitation' = [invitation EXCEPT ![i].state = "awaiting_owner", ![i].claimed = p]
             /\ UNCHANGED <<profile, state, binding>>
    <3>1. invitation' \in [Invitations -> Invitation \cup {NoInvitation}]
      BY <2>1, <2>3, AnswerType
    <3> QED BY <1>11, <2>3, <3>1 DEF ClaimInvitation, TypeOK
  <2> QED BY <1>11, <2>2, <2>3 DEF ClaimInvitation
<1>12. ASSUME NEW p \in Profiles, NEW i \in Invitations, DeclineInvitation(p, i)
       PROVE  TypeOK'
  <2>1. invitation' \in [Invitations -> Invitation \cup {NoInvitation}]
    BY <1>12, AnswerType DEF DeclineInvitation
  <2> QED BY <1>12, <2>1 DEF DeclineInvitation, TypeOK
<1>13. ASSUME NEW c \in Connections, NEW i \in Invitations, NEW m \in Members,
              ClaimGroupLink(c, i, m)
       PROVE  TypeOK'
  <2>1. waiting[c] \in Snapshot
    BY <1>13 DEF ClaimGroupLink, TypeOK
  <2>2. [member |-> m, issuer |-> NoProfile, target |-> NoProfile, claimed |-> waiting[c].by,
         viaLink |-> TRUE, expired |-> FALSE, state |-> "awaiting_owner"] \in Invitation
    BY <2>1 DEF Snapshot, Invitation
  <2> QED BY <1>13, <2>2 DEF ClaimGroupLink, TypeOK, Done
<1>14. ASSUME NEW c \in Connections, LeaveContext(c)
       PROVE  TypeOK'
  BY <1>14 DEF TypeOK, LeaveContext, Done
<1>15. ASSUME NEW c \in Connections, TakeOver(c)
       PROVE  TypeOK'
  BY <1>15 DEF TypeOK, TakeOver, Done
<1>16. ASSUME NEW p \in Profiles, DeleteAccount(p)
       PROVE  TypeOK'
  BY <1>16 DEF TypeOK, DeleteAccount
<1>17. ASSUME NEW i \in Invitations, Expire(i)
       PROVE  TypeOK'
  <2>1. invitation[i] \in Invitation
    BY <1>17 DEF Expire, issued, TypeOK
  <2>2. [invitation[i] EXCEPT !.expired = TRUE] \in Invitation
    BY <2>1 DEF Invitation
  <2> QED BY <1>17, <2>2 DEF Expire, TypeOK
<1>18. CASE ExpireLink
  BY <1>18 DEF TypeOK, ExpireLink
<1>19. CASE UNCHANGED vars
  BY <1>19 DEF TypeOK, vars
<1> QED
  BY <1>1, <1>2, <1>3, <1>4, <1>5, <1>6, <1>7, <1>8, <1>9, <1>10, <1>11, <1>12, <1>13, <1>14,
     <1>15, <1>16, <1>17, <1>18, <1>19
  DEF Next, Waiting, OwnerCommand, MemberCommand, Outside

------------------------------------------------------------------------------
\* How a step treats the rows it finds.
Request(i) ==
    i \in issued /\ invitation[i].viaLink /\ invitation[i].state = "awaiting_owner"

RowsKept ==
    \A i \in issued :
        /\ i \in issued'
        /\ invitation'[i].member = invitation[i].member
        /\ ~Outstanding(i) => /\ invitation'[i].state = invitation[i].state
                              /\ invitation'[i].claimed = invitation[i].claimed

\* A step that neither makes an invitation nor seats anyone.
Calm ==
    /\ binding' = binding
    /\ issued' = issued
    /\ RowsKept
    /\ \A i \in issued :
          /\ Outstanding(i)' => Outstanding(i)
          /\ Request(i)' => Request(i) /\ invitation'[i].claimed = invitation[i].claimed
          /\ invitation'[i].state = "joined" => invitation[i].state = "joined"

LEMMA UntouchedIsCalm ==
    ASSUME UNCHANGED <<invitation, binding>>
    PROVE  Calm
BY DEF Calm, RowsKept, Outstanding, Request, issued

\* Answering one invitation without seating anyone.
LEMMA AnswerIsCalm ==
    ASSUME TypeOK, UNCHANGED binding, NEW i \in issued, NEW row \in Invitation,
           invitation' = [invitation EXCEPT ![i] = row],
           row.member = invitation[i].member, row.viaLink = invitation[i].viaLink,
           \/ row.state = invitation[i].state /\ row.claimed = invitation[i].claimed
           \/ Outstanding(i) /\ row.state = "rejected"
           \/ Outstanding(i) /\ row.state = "awaiting_owner" /\ ~row.viaLink
    PROVE  Calm
<1>1. /\ i \in Invitations /\ invitation'[i] = row /\ row # NoInvitation
      /\ \A j \in Invitations \ {i} : invitation'[j] = invitation[j]
  BY NullAssumption DEF TypeOK, issued
<1>2. issued' = issued
  BY <1>1 DEF issued
<1> QED BY <1>1, <1>2 DEF Calm, RowsKept, Outstanding, Request

LEMMA ClosedRows ==
    ASSUME TypeOK, NEW m \in Members, NEW i \in Invitations
    PROVE  /\ ~(Outstanding(i) /\ invitation[i].member = m) => Closed(m)[i] = invitation[i]
           /\ Outstanding(i) /\ invitation[i].member = m =>
                 Closed(m)[i] = [invitation[i] EXCEPT !.state = "rejected"]
           /\ i \in issued => Closed(m)[i] \in Invitation
BY ClosedType, NullAssumption DEF Closed, TypeOK, issued, Invitation, Outstanding

LEMMA ClosingIsCalm ==
    ASSUME TypeOK, UNCHANGED binding, NEW m \in Members, invitation' = Closed(m)
    PROVE  Calm
<1>1. ASSUME NEW i \in Invitations
      PROVE  \/ invitation'[i] = invitation[i]
             \/ /\ Outstanding(i) /\ i \in issued /\ invitation'[i] \in Invitation
                /\ invitation[i] \in Invitation
                /\ invitation'[i] = [invitation[i] EXCEPT !.state = "rejected"]
  BY ClosedRows DEF Outstanding, TypeOK, issued
<1>2. issued' = issued
  BY <1>1, NullAssumption DEF issued
<1> QED BY <1>1, <1>2 DEF Calm, RowsKept, Outstanding, Request, Invitation, issued

\* A step is calm, makes one invitation, or seats one account.
LEMMA Kinds ==
    ASSUME TypeOK, [Next]_vars
    PROVE  \/ Calm
           \/ \E c \in Connections, i \in Invitations, m \in Members, t \in Profiles \cup {NoProfile} :
                 CreateInvitation(c, i, m, t)
           \/ \E c \in Connections, i \in Invitations, m \in Members : ClaimGroupLink(c, i, m)
           \/ \E i \in issued, p \in Profiles : Outstanding(i) /\ Bind(i, p)
<1> USE DEF seats
<1>1. ASSUME NEW c \in Connections, NEW i \in Invitations, NEW approve \in BOOLEAN,
             RespondInvitation(c, i, approve)
      PROVE  Calm \/ \E p \in Profiles : i \in issued /\ Outstanding(i) /\ Bind(i, p)
  <2>1. i \in issued /\ Outstanding(i) /\ invitation[i] \in Invitation
    BY <1>1 DEF RespondInvitation, Outstanding, issued, TypeOK
  <2>2. CASE Bind(i, invitation[i].claimed) /\ invitation[i].claimed # NoProfile
    BY <2>1, <2>2 DEF Invitation
  <2>3. CASE invitation' = [invitation EXCEPT ![i].state = "rejected"] /\ UNCHANGED binding
    <3> DEFINE row == [invitation[i] EXCEPT !.state = "rejected"]
    <3>1. row \in Invitation /\ row.member = invitation[i].member
          /\ row.viaLink = invitation[i].viaLink /\ row.state = "rejected"
      BY <2>1 DEF Invitation
    <3>2. invitation' = [invitation EXCEPT ![i] = row]
      BY <2>3
    <3> HIDE DEF row
    <3> QED BY <2>1, <2>3, <3>1, <3>2, AnswerIsCalm
  <2> QED BY <1>1, <2>2, <2>3 DEF RespondInvitation
<1>2. ASSUME NEW p \in Profiles, NEW i \in Invitations, ClaimInvitation(p, i)
      PROVE  Calm \/ (i \in issued /\ Outstanding(i) /\ Bind(i, p))
  <2>1. i \in issued /\ Outstanding(i) /\ invitation[i] \in Invitation
        /\ ~invitation[i].viaLink
    BY <1>2 DEF ClaimInvitation, MayClaim, Outstanding, issued, TypeOK
  <2>2. CASE /\ invitation' = [invitation EXCEPT ![i].state = "awaiting_owner", ![i].claimed = p]
             /\ UNCHANGED binding
    <3> DEFINE row == [invitation[i] EXCEPT !.state = "awaiting_owner", !.claimed = p]
    <3>1. row \in Invitation /\ row.member = invitation[i].member
          /\ row.viaLink = invitation[i].viaLink /\ row.state = "awaiting_owner"
      BY <2>1 DEF Invitation
    <3>2. invitation' = [invitation EXCEPT ![i] = row]
      BY <2>2, <2>1 DEF issued, TypeOK
    <3> HIDE DEF row
    <3> QED BY <2>1, <2>2, <3>1, <3>2, AnswerIsCalm
  <2> QED BY <1>2, <2>1, <2>2 DEF ClaimInvitation
<1>3. ASSUME NEW p \in Profiles, NEW i \in Invitations, DeclineInvitation(p, i)
      PROVE  Calm
  <2> DEFINE row == [invitation[i] EXCEPT !.state = "rejected"]
  <2>1. i \in issued /\ Outstanding(i) /\ invitation[i] \in Invitation /\ UNCHANGED binding
    BY <1>3 DEF DeclineInvitation, Outstanding, issued, TypeOK
  <2>2. row \in Invitation /\ row.member = invitation[i].member
        /\ row.viaLink = invitation[i].viaLink /\ row.state = "rejected"
    BY <2>1 DEF Invitation
  <2>3. invitation' = [invitation EXCEPT ![i] = row]
    BY <1>3 DEF DeclineInvitation
  <2> HIDE DEF row
  <2> QED BY <2>1, <2>2, <2>3, AnswerIsCalm
<1>4. ASSUME NEW i \in Invitations, Expire(i)
      PROVE  Calm
  <2> DEFINE row == [invitation[i] EXCEPT !.expired = TRUE]
  <2>1. i \in issued /\ invitation[i] \in Invitation /\ UNCHANGED binding
    BY <1>4 DEF Expire, issued, TypeOK
  <2>2. row \in Invitation /\ row.member = invitation[i].member
        /\ row.viaLink = invitation[i].viaLink /\ row.state = invitation[i].state
        /\ row.claimed = invitation[i].claimed
    BY <2>1 DEF Invitation
  <2>3. invitation' = [invitation EXCEPT ![i] = row]
    BY <1>4 DEF Expire
  <2> HIDE DEF row
  <2> QED BY <2>1, <2>2, <2>3, AnswerIsCalm
<1>5. ASSUME NEW c \in Connections, NEW m \in Members, RemoveMember(c, m)
      PROVE  Calm
  BY <1>5, ClosingIsCalm DEF RemoveMember
<1>6. CASE UNCHANGED <<invitation, binding>>
  BY <1>6, UntouchedIsCalm
<1>7. ASSUME NEW c \in Connections,
             \/ \E p \in Profiles, m \in Members : Begin(c, p, m)
             \/ \E p \in Profiles : OpenLink(c, p)
             \/ Abort(c)
             \/ \E m \in Members, p \in Profiles \cup {NoProfile} : InviteMember(c, m, p)
             \/ \E live \in BOOLEAN : SetGroupLink(c, live)
             \/ \E m \in Members : TransferOwner(c, m)
             \/ LeaveContext(c)
             \/ TakeOver(c)
      PROVE  UNCHANGED <<invitation, binding>>
  BY <1>7 DEF Begin, OpenLink, Abort, InviteMember, SetGroupLink, TransferOwner, LeaveContext, TakeOver
<1>8. ASSUME \/ \E m \in Members, accept \in BOOLEAN : RespondMembership(m, accept)
             \/ \E p \in Profiles : DeleteAccount(p)
             \/ ExpireLink
             \/ UNCHANGED vars
      PROVE  UNCHANGED <<invitation, binding>>
  BY <1>8 DEF RespondMembership, DeleteAccount, ExpireLink, vars
<1> QED
  BY <1>1, <1>2, <1>3, <1>4, <1>5, <1>6, <1>7, <1>8
  DEF Next, Waiting, OwnerCommand, MemberCommand, Outside

------------------------------------------------------------------------------
\* How a step moves the members.
MembersKept ==
    \A m \in Members :
        /\ state[m] # "none" => state'[m] # "none"
        /\ state[m] \in {"active", "left"} => state'[m] \in {"active", "left"}
        /\ state[m] \in {"declined", "left"} => state'[m] = state[m]

LEMMA UntouchedMembers == ASSUME UNCHANGED state PROVE MembersKept
BY DEF MembersKept

LEMMA MembersMove ==
    ASSUME TypeOK, WaitingWereActive, [Next]_vars
    PROVE  MembersKept
<1> USE DEF seats
<1>1. ASSUME NEW i \in issued, NEW p \in Profiles, Bind(i, p)
      PROVE  MembersKept
  <2>1. invitation[i].member \in Members
    BY DEF TypeOK, issued, Invitation
  <2> QED BY <1>1, <2>1 DEF Bind, CanBind, MembersKept, TypeOK
<1>2. ASSUME NEW c \in Connections, NEW i \in Invitations, NEW approve \in BOOLEAN,
             RespondInvitation(c, i, approve)
      PROVE  MembersKept
  <2>1. i \in issued /\ invitation[i] \in Invitation
    BY <1>2 DEF RespondInvitation, Outstanding, issued, TypeOK
  <2>2. CASE Bind(i, invitation[i].claimed) /\ invitation[i].claimed # NoProfile
    <3>1. invitation[i].claimed \in Profiles
      BY <2>1, <2>2 DEF Invitation
    <3> QED BY <1>1, <2>1, <2>2, <3>1
  <2>3. CASE ~approve
    <3>1. invitation[i].member \in Members
      BY <2>1 DEF Invitation
    <3> QED BY <1>2, <2>3, <3>1 DEF RespondInvitation, MembersKept, TypeOK
  <2> QED BY <1>2, <2>2, <2>3 DEF RespondInvitation
<1>3. ASSUME NEW p \in Profiles, NEW i \in Invitations, ClaimInvitation(p, i)
      PROVE  MembersKept
  BY <1>1, <1>3, UntouchedMembers DEF ClaimInvitation
<1>4. ASSUME NEW c \in Connections, NEW m \in Members,
             \/ \E p \in Profiles \cup {NoProfile} : InviteMember(c, m, p)
             \/ \E i \in Invitations : ClaimGroupLink(c, i, m)
      PROVE  MembersKept
  BY <1>4 DEF InviteMember, ClaimGroupLink, MembersKept, TypeOK
<1>5. ASSUME NEW m \in Members,
             \/ \E c \in Connections : RemoveMember(c, m)
             \/ \E accept \in BOOLEAN : RespondMembership(m, accept)
      PROVE  MembersKept
  BY <1>5 DEF RemoveMember, RespondMembership, MembersKept, TypeOK
<1>6. ASSUME NEW c \in Connections, LeaveContext(c)
      PROVE  MembersKept
  <2>1. waiting[c].member \in Members /\ state[waiting[c].member] \in {"active", "left"}
    BY <1>6 DEF LeaveContext, WaitingWereActive, TypeOK, Snapshot
  <2> QED BY <1>6, <2>1 DEF LeaveContext, MembersKept, TypeOK
<1>7. ASSUME NEW c \in Connections,
             \/ \E p \in Profiles, m \in Members : Begin(c, p, m)
             \/ \E p \in Profiles : OpenLink(c, p)
             \/ Abort(c)
             \/ \E i \in Invitations, m \in Members, t \in Profiles \cup {NoProfile} :
                   CreateInvitation(c, i, m, t)
             \/ \E live \in BOOLEAN : SetGroupLink(c, live)
             \/ \E m \in Members : TransferOwner(c, m)
             \/ TakeOver(c)
      PROVE  MembersKept
  BY <1>7, UntouchedMembers
  DEF Begin, OpenLink, Abort, CreateInvitation, SetGroupLink, TransferOwner, TakeOver
<1>8. ASSUME \/ \E p \in Profiles, i \in Invitations : DeclineInvitation(p, i)
             \/ \E p \in Profiles : DeleteAccount(p)
             \/ \E i \in Invitations : Expire(i)
             \/ ExpireLink
             \/ UNCHANGED vars
      PROVE  MembersKept
  BY <1>8, UntouchedMembers DEF DeclineInvitation, DeleteAccount, Expire, ExpireLink, vars
<1> QED
  BY <1>2, <1>3, <1>4, <1>5, <1>6, <1>7, <1>8
  DEF Next, Waiting, OwnerCommand, MemberCommand, Outside

\* A command that starts waiting has just found its row active; the others
\* keep what they have read or go away.
LEMMA WaitingStep ==
    ASSUME TypeOK, WaitingWereActive, [Next]_vars
    PROVE  WaitingWereActive'
<1> USE DEF seats
<1>1. MembersKept
  BY MembersMove
<1>2. ASSUME NEW d \in Connections, waiting'[d] # Idle, waiting'[d].role # "visitor"
      PROVE  \/ waiting'[d] = waiting[d]
             \/ state[waiting'[d].member] = "active"
  <2>1. ASSUME NEW c \in Connections, NEW p \in Profiles, NEW m \in Members, Begin(c, p, m)
        PROVE  waiting'[d] = waiting[d] \/ state[waiting'[d].member] = "active"
    BY <2>1 DEF Begin, TypeOK
  <2>2. ASSUME NEW c \in Connections, NEW p \in Profiles, OpenLink(c, p)
        PROVE  waiting'[d] = waiting[d]
    BY <1>2, <2>2 DEF OpenLink, TypeOK
  <2>3. ASSUME NEW c \in Connections, Done(c)
        PROVE  waiting'[d] = waiting[d]
    BY <1>2, <2>3 DEF Done, TypeOK
  <2>4. ASSUME NEW p \in Profiles, DeleteAccount(p)
        PROVE  waiting'[d] = waiting[d]
    BY <1>2, <2>4 DEF DeleteAccount
  <2>5. CASE UNCHANGED waiting
    BY <2>5
  <2>6. ASSUME NEW c \in Connections,
               \/ Abort(c)
               \/ \E m \in Members, p \in Profiles \cup {NoProfile} : InviteMember(c, m, p)
               \/ \E i \in Invitations, m \in Members, p \in Profiles \cup {NoProfile} :
                     CreateInvitation(c, i, m, p)
               \/ \E i \in Invitations, approve \in BOOLEAN : RespondInvitation(c, i, approve)
               \/ \E live \in BOOLEAN : SetGroupLink(c, live)
               \/ \E m \in Members : RemoveMember(c, m) \/ TransferOwner(c, m)
               \/ \E i \in Invitations, m \in Members : ClaimGroupLink(c, i, m)
               \/ LeaveContext(c) \/ TakeOver(c)
        PROVE  Done(c)
    BY <2>6 DEF Abort, InviteMember, CreateInvitation, RespondInvitation, SetGroupLink,
       RemoveMember, TransferOwner, ClaimGroupLink, LeaveContext, TakeOver
  <2>7. ASSUME \/ \E m \in Members, accept \in BOOLEAN : RespondMembership(m, accept)
               \/ \E p \in Profiles, i \in Invitations :
                     ClaimInvitation(p, i) \/ DeclineInvitation(p, i)
               \/ \E i \in Invitations : Expire(i)
               \/ ExpireLink
               \/ UNCHANGED vars
        PROVE  UNCHANGED waiting
    BY <2>7 DEF RespondMembership, ClaimInvitation, DeclineInvitation, Expire, ExpireLink, vars
  <2> QED
    BY <2>1, <2>2, <2>3, <2>4, <2>5, <2>6, <2>7
    DEF Next, Waiting, OwnerCommand, MemberCommand, Outside
<1>3. TypeOK'
  BY TypeStep
<1>4. \A d \in Connections : waiting'[d] # Idle => waiting'[d].member \in Members
  BY <1>3 DEF TypeOK, Snapshot
<1> QED BY <1>1, <1>2, <1>4 DEF WaitingWereActive, MembersKept

------------------------------------------------------------------------------
\* What the steps that make an invitation or seat an account do to invitations.
LEMMA CreatedRow ==
    ASSUME TypeOK, NEW c \in Connections, NEW i \in Invitations, NEW m \in Members,
           NEW t \in Profiles \cup {NoProfile}, CreateInvitation(c, i, m, t)
    PROVE  /\ i \notin issued /\ issued' = issued \cup {i}
           /\ invitation'[i].member = m /\ invitation'[i].state = "open"
           /\ ~invitation'[i].viaLink
           /\ \A j \in issued : invitation'[j] = Closed(m)[j]
           /\ binding' = binding /\ state' = state /\ state[m] = "invited"
<1> DEFINE row == [member |-> m, issuer |-> waiting[c].by, target |-> t, claimed |-> NoProfile,
                   viaLink |-> FALSE, expired |-> FALSE, state |-> "open"]
<1>1. /\ invitation[i] = NoInvitation /\ invitation' = [Closed(m) EXCEPT ![i] = row]
      /\ binding' = binding /\ state' = state /\ state[m] = "invited"
      /\ waiting[c] # Idle
  BY DEF CreateInvitation, seats, ByOwner
<1>2. row \in Invitation
  BY <1>1 DEF TypeOK, Snapshot, Invitation
<1>3. row # NoInvitation
  BY <1>2, NullAssumption
<1>4. /\ row.member = m /\ row.state = "open" /\ ~row.viaLink
  OBVIOUS
<1> HIDE DEF row
<1>5. Closed(m) \in [Invitations -> Invitation \cup {NoInvitation}]
  BY ClosedType
<1>6. /\ invitation'[i] = row
      /\ \A j \in Invitations \ {i} : invitation'[j] = Closed(m)[j]
  BY <1>1, <1>5
<1>7. \A j \in Invitations : j \in issued <=> Closed(m)[j] # NoInvitation
  <2> SUFFICES ASSUME NEW j \in Invitations
               PROVE  j \in issued <=> Closed(m)[j] # NoInvitation
    OBVIOUS
  <2>1. CASE j \in issued
    <3>1. Closed(m)[j] \in Invitation
      BY <2>1, ClosedRows
    <3> QED BY <2>1, <3>1, NullAssumption
  <2>2. CASE j \notin issued
    <3>1. Closed(m)[j] = invitation[j]
      BY <2>2, ClosedRows DEF Outstanding
    <3> QED BY <2>2, <3>1 DEF issued
  <2> QED BY <2>1, <2>2
<1>8. i \notin issued /\ issued' = issued \cup {i}
  BY <1>1, <1>3, <1>6, <1>7 DEF issued
<1> QED BY <1>1, <1>4, <1>6, <1>8 DEF issued

LEMMA RequestedRow ==
    ASSUME TypeOK, NEW c \in Connections, NEW i \in Invitations, NEW m \in Members,
           ClaimGroupLink(c, i, m)
    PROVE  /\ i \notin issued /\ issued' = issued \cup {i}
           /\ invitation'[i].member = m /\ invitation'[i].state = "awaiting_owner"
           /\ invitation'[i].viaLink /\ invitation'[i].claimed = waiting[c].by
           /\ \A j \in issued : invitation'[j] = invitation[j]
           /\ binding' = binding /\ state[m] = "none" /\ state'[m] = "invited"
           /\ MayRequest(waiting[c].by)
<1> DEFINE row == [member |-> m, issuer |-> NoProfile, target |-> NoProfile,
                   claimed |-> waiting[c].by, viaLink |-> TRUE, expired |-> FALSE,
                   state |-> "awaiting_owner"]
<1>1. /\ invitation[i] = NoInvitation /\ invitation' = [invitation EXCEPT ![i] = row]
      /\ binding' = binding /\ state' = [state EXCEPT ![m] = "invited"] /\ state[m] = "none"
      /\ waiting[c] # Idle /\ MayRequest(waiting[c].by)
  BY DEF ClaimGroupLink
<1>2. row \in Invitation
  BY <1>1 DEF TypeOK, Snapshot, Invitation
<1>3. row # NoInvitation
  BY <1>2, NullAssumption
<1>4. /\ row.member = m /\ row.state = "awaiting_owner" /\ row.viaLink
      /\ row.claimed = waiting[c].by
  OBVIOUS
<1> HIDE DEF row
<1>5. invitation'[i] = row /\ \A j \in Invitations \ {i} : invitation'[j] = invitation[j]
  BY <1>1 DEF TypeOK
<1>6. i \notin issued /\ issued' = issued \cup {i}
  BY <1>1, <1>3, <1>5 DEF issued
<1> QED BY <1>1, <1>4, <1>5, <1>6 DEF issued, TypeOK

LEMMA BoundRow ==
    ASSUME TypeOK, NEW i \in issued, NEW p \in Profiles, Outstanding(i), Bind(i, p)
    PROVE  /\ issued' = issued
           /\ invitation'[i].member = invitation[i].member
           /\ invitation'[i].state = "joined" /\ invitation'[i].claimed = p
           /\ \A j \in issued \ {i} : invitation'[j] = invitation[j]
           /\ invitation[i].member \in Members
           /\ binding[invitation[i].member] = NoProfile
           /\ binding' = [binding EXCEPT ![invitation[i].member] = p]
<1> DEFINE row == [invitation[i] EXCEPT !.state = "joined", !.claimed = p]
<1>1. invitation[i] \in Invitation /\ i \in Invitations
  BY DEF TypeOK, issued
<1>2. /\ row \in Invitation /\ row.member = invitation[i].member
      /\ row.state = "joined" /\ row.claimed = p
  BY <1>1 DEF Invitation
<1>3. invitation' = [invitation EXCEPT ![i] = row]
  BY <1>1 DEF Bind, TypeOK
<1>4. row # NoInvitation
  BY <1>2, NullAssumption
<1> HIDE DEF row
<1>5. invitation'[i] = row /\ \A j \in Invitations \ {i} : invitation'[j] = invitation[j]
  BY <1>1, <1>3 DEF TypeOK
<1>6. issued' = issued
  BY <1>4, <1>5 DEF issued
<1>7. invitation[i].member \in Members
  BY <1>1 DEF Invitation
<1> QED BY <1>2, <1>5, <1>6, <1>7 DEF Bind, CanBind, issued

LEMMA RowsMove ==
    ASSUME TypeOK, [Next]_vars
    PROVE  RowsKept
<1>1. CASE Calm
  BY <1>1 DEF Calm
<1>2. ASSUME NEW c \in Connections, NEW i \in Invitations, NEW m \in Members,
             NEW t \in Profiles \cup {NoProfile}, CreateInvitation(c, i, m, t)
      PROVE  RowsKept
  <2>1. ASSUME NEW j \in issued
        PROVE  /\ j \in issued' /\ invitation'[j] = Closed(m)[j] /\ j \in Invitations
               /\ invitation[j] \in Invitation
    BY <1>2, CreatedRow DEF issued, TypeOK
  <2>2. ASSUME NEW j \in issued
        PROVE  /\ invitation'[j].member = invitation[j].member
               /\ ~Outstanding(j) => invitation'[j] = invitation[j]
    <3>1. [invitation[j] EXCEPT !.state = "rejected"].member = invitation[j].member
      BY <2>1 DEF Invitation
    <3> QED BY <2>1, <3>1, ClosedRows
  <2> QED BY <2>1, <2>2 DEF RowsKept
<1>3. ASSUME NEW c \in Connections, NEW i \in Invitations, NEW m \in Members,
             ClaimGroupLink(c, i, m)
      PROVE  RowsKept
  BY <1>3, RequestedRow DEF RowsKept
<1>4. ASSUME NEW i \in issued, NEW p \in Profiles, Outstanding(i), Bind(i, p)
      PROVE  RowsKept
  BY <1>4, BoundRow DEF RowsKept
<1> QED BY <1>1, <1>2, <1>3, <1>4, Kinds

------------------------------------------------------------------------------
\* The invariant, part by part.
LEMMA InvitedExistStep ==
    ASSUME TypeOK, InvitedExist, WaitingWereActive, [Next]_vars
    PROVE  InvitedExist'
<1>1. MembersKept /\ RowsKept
  BY MembersMove, RowsMove
<1>2. \A i \in issued : invitation[i].member \in Members
  BY DEF TypeOK, issued, Invitation
<1>3. \A i \in issued : state'[invitation'[i].member] # "none"
  BY <1>1, <1>2 DEF MembersKept, RowsKept, InvitedExist
<1>4. \A i \in issued' \ issued : state'[invitation'[i].member] # "none"
  BY Kinds, CreatedRow, RequestedRow, BoundRow DEF Calm
<1> QED BY <1>3, <1>4 DEF InvitedExist

LEMMA OneLinkStep ==
    ASSUME TypeOK, InvitedExist, OneLinkPerPerson, [Next]_vars
    PROVE  OneLinkPerPerson'
<1>1. CASE Calm
  BY <1>1 DEF Calm, RowsKept, OneLinkPerPerson, Outstanding
<1>2. ASSUME NEW c \in Connections, NEW i \in Invitations, NEW m \in Members,
             NEW t \in Profiles \cup {NoProfile}, CreateInvitation(c, i, m, t)
      PROVE  OneLinkPerPerson'
  <2>1. ASSUME NEW j \in issued, Outstanding(j)'
        PROVE  Outstanding(j) /\ invitation'[j] = invitation[j] /\ invitation[j].member # m
    <3>1. invitation'[j] = Closed(m)[j] /\ j \in Invitations /\ invitation[j] \in Invitation
      BY <1>2, CreatedRow DEF issued, TypeOK
    <3>2. [invitation[j] EXCEPT !.state = "rejected"].state = "rejected"
      BY <3>1 DEF Invitation
    <3>3. ~(Outstanding(j) /\ invitation[j].member = m)
      BY <2>1, <3>1, <3>2, ClosedRows DEF Outstanding
    <3> QED BY <2>1, <3>1, <3>3, ClosedRows DEF Outstanding
  <2>2. issued' = issued \cup {i} /\ invitation'[i].member = m
    BY <1>2, CreatedRow
  <2>3. \A j \in Invitations : Outstanding(j)' => j = i \/ j \in issued
    BY <2>2 DEF Outstanding
  <2> QED BY <2>1, <2>2, <2>3 DEF OneLinkPerPerson
<1>3. ASSUME NEW c \in Connections, NEW i \in Invitations, NEW m \in Members,
             ClaimGroupLink(c, i, m)
      PROVE  OneLinkPerPerson'
  <2>1. /\ issued' = issued \cup {i} /\ invitation'[i].member = m /\ state[m] = "none"
        /\ \A j \in issued : invitation'[j] = invitation[j]
    BY <1>3, RequestedRow
  <2>2. \A j \in issued : invitation[j].member # m
    BY <2>1 DEF InvitedExist
  <2> QED BY <2>1, <2>2 DEF OneLinkPerPerson, Outstanding
<1>4. ASSUME NEW i \in issued, NEW p \in Profiles, Outstanding(i), Bind(i, p)
      PROVE  OneLinkPerPerson'
  BY <1>4, BoundRow DEF OneLinkPerPerson, Outstanding
<1> QED BY <1>1, <1>2, <1>3, <1>4, Kinds

LEMMA OneRequestStep ==
    ASSUME TypeOK, OneRequestPerAccount, [Next]_vars
    PROVE  OneRequestPerAccount'
<1>1. CASE Calm
  BY <1>1 DEF Calm, OneRequestPerAccount, Request
<1>2. ASSUME NEW c \in Connections, NEW i \in Invitations, NEW m \in Members,
             NEW t \in Profiles \cup {NoProfile}, CreateInvitation(c, i, m, t)
      PROVE  OneRequestPerAccount'
  <2>1. ASSUME NEW j \in issued, invitation'[j].state = "awaiting_owner"
        PROVE  invitation'[j] = invitation[j]
    <3>1. invitation'[j] = Closed(m)[j] /\ j \in Invitations /\ invitation[j] \in Invitation
      BY <1>2, CreatedRow DEF issued, TypeOK
    <3>2. [invitation[j] EXCEPT !.state = "rejected"].state = "rejected"
      BY <3>1 DEF Invitation
    <3> QED BY <2>1, <3>1, <3>2, ClosedRows
  <2>2. issued' = issued \cup {i} /\ ~invitation'[i].viaLink
    BY <1>2, CreatedRow
  <2> QED BY <2>1, <2>2 DEF OneRequestPerAccount
<1>3. ASSUME NEW c \in Connections, NEW i \in Invitations, NEW m \in Members,
             ClaimGroupLink(c, i, m)
      PROVE  OneRequestPerAccount'
  BY <1>3, RequestedRow DEF OneRequestPerAccount, MayRequest
<1>4. ASSUME NEW i \in issued, NEW p \in Profiles, Outstanding(i), Bind(i, p)
      PROVE  OneRequestPerAccount'
  BY <1>4, BoundRow DEF OneRequestPerAccount
<1> QED BY <1>1, <1>2, <1>3, <1>4, Kinds

\* The joined invitations of a member.
Joins(m) == {i \in issued : invitation[i].state = "joined" /\ invitation[i].member = m}

LEMMA BindingsStep ==
    ASSUME TypeOK, BindingsAreJoins, [Next]_vars
    PROVE  BindingsAreJoins'
<1>1. ASSUME \A m \in Members : Joins(m)' = Joins(m), binding' = binding,
             \A i \in issued : invitation[i].state = "joined" =>
                 invitation'[i].claimed = invitation[i].claimed
      PROVE  BindingsAreJoins'
  BY <1>1 DEF BindingsAreJoins, Joins
<1>2. RowsKept
  BY RowsMove
<1>3. \A i \in issued : invitation[i].state = "joined" =>
         /\ i \in issued' /\ invitation'[i].state = "joined"
         /\ invitation'[i].member = invitation[i].member
         /\ invitation'[i].claimed = invitation[i].claimed
  BY <1>2 DEF RowsKept, Outstanding
<1>4. CASE Calm
  BY <1>1, <1>3, <1>4 DEF Calm, Joins
<1>5. ASSUME NEW c \in Connections, NEW i \in Invitations, NEW m \in Members,
             NEW t \in Profiles \cup {NoProfile}, CreateInvitation(c, i, m, t)
      PROVE  BindingsAreJoins'
  <2>1. ASSUME NEW j \in issued, invitation'[j].state = "joined"
        PROVE  invitation'[j] = invitation[j]
    <3>1. invitation'[j] = Closed(m)[j] /\ j \in Invitations /\ invitation[j] \in Invitation
      BY <1>5, CreatedRow DEF issued, TypeOK
    <3>2. [invitation[j] EXCEPT !.state = "rejected"].state = "rejected"
      BY <3>1 DEF Invitation
    <3> QED BY <2>1, <3>1, <3>2, ClosedRows
  <2>2. issued' = issued \cup {i} /\ invitation'[i].state = "open" /\ binding' = binding
    BY <1>5, CreatedRow
  <2> QED BY <1>1, <1>3, <2>1, <2>2 DEF Joins
<1>6. ASSUME NEW c \in Connections, NEW i \in Invitations, NEW m \in Members,
             ClaimGroupLink(c, i, m)
      PROVE  BindingsAreJoins'
  <2>1. /\ issued' = issued \cup {i} /\ invitation'[i].state = "awaiting_owner"
        /\ binding' = binding /\ \A j \in issued : invitation'[j] = invitation[j]
    BY <1>6, RequestedRow
  <2> QED BY <1>1, <2>1 DEF Joins
<1>7. ASSUME NEW i \in issued, NEW p \in Profiles, Outstanding(i), Bind(i, p)
      PROVE  BindingsAreJoins'
  <2>0. PICK n \in Members : n = invitation[i].member
    BY <1>7, BoundRow
  <2>1. /\ issued' = issued
        /\ invitation'[i].member = n /\ invitation'[i].state = "joined"
        /\ invitation'[i].claimed = p
        /\ \A j \in issued \ {i} : invitation'[j] = invitation[j]
        /\ binding[n] = NoProfile /\ binding' = [binding EXCEPT ![n] = p]
    BY <1>7, <2>0, BoundRow
  <2>2. Joins(n)' = {i} /\ binding'[n] = p /\ p # NoProfile
    BY <2>1, MembershipAssumption DEF BindingsAreJoins, Joins, TypeOK
  <2>3. ASSUME NEW m \in Members, m # n
        PROVE  Joins(m)' = Joins(m) /\ binding'[m] = binding[m] /\ i \notin Joins(m)
    BY <1>7, <2>0, <2>1, <2>3 DEF Joins, Outstanding, TypeOK
  <2>4. ASSUME NEW m \in Members
        PROVE  /\ binding'[m] = NoProfile => Joins(m)' = {}
               /\ binding'[m] # NoProfile =>
                     \E j \in Joins(m)' : Joins(m)' = {j} /\ invitation'[j].claimed = binding'[m]
    <3>1. CASE m = n
      BY <2>1, <2>2, <3>1
    <3>2. CASE m # n
      <4>1. /\ binding[m] = NoProfile => Joins(m) = {}
            /\ binding[m] # NoProfile =>
                  \E j \in Joins(m) : Joins(m) = {j} /\ invitation[j].claimed = binding[m]
        BY DEF BindingsAreJoins, Joins
      <4>2. \A j \in Joins(m) : j # i /\ invitation'[j] = invitation[j]
        BY <2>1, <2>3, <3>2 DEF Joins
      <4> QED BY <2>3, <3>2, <4>1, <4>2
    <3> QED BY <3>1, <3>2
  <2> QED BY <2>4 DEF BindingsAreJoins, Joins
<1> QED BY <1>4, <1>5, <1>6, <1>7, Kinds

------------------------------------------------------------------------------
LEMMA InitInv == Init => Inv
<1> SUFFICES ASSUME Init PROVE Inv
  OBVIOUS
<1>1. issued = {}
  BY DEF Init, issued
<1>2. TypeOK
  BY MembershipAssumption DEF Init, TypeOK
<1>3. InvitedExist /\ OneRequestPerAccount
  BY <1>1 DEF InvitedExist, OneRequestPerAccount
<1>4. WaitingWereActive
  BY DEF Init, WaitingWereActive
<1>5. OneLinkPerPerson
  BY <1>1 DEF OneLinkPerPerson, Outstanding
<1>6. BindingsAreJoins
  BY <1>1 DEF BindingsAreJoins, Init
<1> QED BY <1>2, <1>3, <1>4, <1>5, <1>6 DEF Inv

LEMMA Invariance == Spec => []Inv
<1>1. Inv /\ [Next]_vars => Inv'
  BY TypeStep, InvitedExistStep, WaitingStep, OneLinkStep, OneRequestStep, BindingsStep DEF Inv
<1> QED BY InitInv, <1>1, PTL DEF Spec

\* Every command leaves every table of the membership in its type.
THEOREM TypeCorrect == Spec => []TypeOK
BY Invariance, PTL DEF Inv

\* A replaced link never competes with its replacement (create_invitation,
\* _claim_group_link).
THEOREM OneLink == Spec => []OneLinkPerPerson
BY Invariance, PTL DEF Inv

\* No number of taps on the group link, on any number of connections, makes
\* two waiting requests of one account (_claim_group_link).
THEOREM OneRequest == Spec => []OneRequestPerAccount
BY Invariance, PTL DEF Inv

\* A slot is seated through one invitation for ever (_bind_invitation).
THEOREM BindingsStay == Spec => []BindingsAreJoins
BY Invariance, PTL DEF Inv

\* An answered invitation, a declined and a departed member stay what they
\* are, however late a command reaches the lock.
THEOREM EndsStay == Spec => EndsAreFinal
<1>1. Inv /\ [Next]_vars =>
         [/\ \A i \in issued : ~Outstanding(i) => invitation'[i].state = invitation[i].state
          /\ \A m \in Members : state[m] \in {"declined", "left"} => state'[m] = state[m]]_vars
  BY RowsMove, MembersMove DEF Inv, RowsKept, MembersKept
<1> QED BY Invariance, <1>1, PTL DEF Spec, EndsAreFinal

------------------------------------------------------------------------------
\* Seats.
Consent(m) ==
    \/ profile[m] # NoProfile /\ profile'[m] = profile[m]
    \/ \E i \in Invitations :
          /\ i \in issued /\ invitation[i].member = m
          /\ invitation'[i].state = "joined" /\ invitation'[i].claimed = profile'[m]
          /\ \/ invitation[i].target = profile'[m]
             \/ /\ invitation[i].claimed = profile'[m]
                /\ \E c \in Connections : ByOwner(c) /\ waiting'[c] = Idle

SeatsConsented == \A m \in Members : state[m] # "active" /\ state'[m] = "active" => Consent(m)

LEMMA BoundSeat ==
    ASSUME TypeOK, NEW i \in issued, NEW p \in Profiles, Outstanding(i), Bind(i, p),
           NEW m \in Members, state[m] # "active", state'[m] = "active"
    PROVE  /\ m = invitation[i].member /\ profile'[m] = p
           /\ invitation'[i].state = "joined" /\ invitation'[i].claimed = p
<1>1. m = invitation[i].member
  BY DEF Bind, TypeOK
<1> QED BY <1>1, BoundRow DEF Bind, TypeOK

LEMMA SeatsStep ==
    ASSUME TypeOK, [Next]_vars
    PROVE  SeatsConsented
<1> USE DEF seats
<1>1. ASSUME NEW c \in Connections, NEW i \in Invitations, NEW approve \in BOOLEAN,
             RespondInvitation(c, i, approve)
      PROVE  SeatsConsented
  <2>1. i \in issued /\ Outstanding(i) /\ invitation[i] \in Invitation
    BY <1>1 DEF RespondInvitation, Outstanding, issued, TypeOK
  <2>2. CASE Bind(i, invitation[i].claimed) /\ invitation[i].claimed # NoProfile
    <3>1. invitation[i].claimed \in Profiles
      BY <2>1, <2>2 DEF Invitation
    <3>2. ByOwner(c) /\ waiting'[c] = Idle
      BY <1>1 DEF RespondInvitation, Done, TypeOK
    <3> QED BY <2>1, <2>2, <3>1, <3>2, BoundSeat DEF SeatsConsented, Consent, issued
  <2>3. CASE ~approve
    BY <1>1, <2>3 DEF RespondInvitation, SeatsConsented, TypeOK
  <2> QED BY <1>1, <2>2, <2>3 DEF RespondInvitation
<1>2. ASSUME NEW p \in Profiles, NEW i \in Invitations, ClaimInvitation(p, i)
      PROVE  SeatsConsented
  <2>1. i \in issued /\ Outstanding(i)
    BY <1>2 DEF ClaimInvitation, MayClaim, Outstanding
  <2>2. CASE invitation[i].target # NoProfile /\ Bind(i, p)
    <3>1. invitation[i].target = p
      BY <1>2, <2>2 DEF ClaimInvitation, MayClaim
    <3> QED BY <2>1, <2>2, <3>1, BoundSeat DEF SeatsConsented, Consent
  <2>3. CASE UNCHANGED state
    BY <2>3 DEF SeatsConsented
  <2> QED BY <1>2, <2>2, <2>3 DEF ClaimInvitation
<1>3. ASSUME NEW m \in Members, NEW accept \in BOOLEAN, RespondMembership(m, accept)
      PROVE  SeatsConsented
  BY <1>3 DEF RespondMembership, SeatsConsented, Consent, TypeOK
<1>4. ASSUME NEW c \in Connections, NEW m \in Members,
             \/ \E p \in Profiles \cup {NoProfile} : InviteMember(c, m, p)
             \/ \E i \in Invitations : ClaimGroupLink(c, i, m)
             \/ RemoveMember(c, m)
             \/ LeaveContext(c)
      PROVE  SeatsConsented
  BY <1>4 DEF InviteMember, ClaimGroupLink, RemoveMember, LeaveContext, SeatsConsented, TypeOK
<1>5. ASSUME NEW c \in Connections,
             \/ \E p \in Profiles, m \in Members : Begin(c, p, m)
             \/ \E p \in Profiles : OpenLink(c, p)
             \/ Abort(c)
             \/ \E i \in Invitations, m \in Members, t \in Profiles \cup {NoProfile} :
                   CreateInvitation(c, i, m, t)
             \/ \E live \in BOOLEAN : SetGroupLink(c, live)
             \/ \E m \in Members : TransferOwner(c, m)
             \/ TakeOver(c)
      PROVE  SeatsConsented
  BY <1>5
  DEF Begin, OpenLink, Abort, CreateInvitation, SetGroupLink, TransferOwner, TakeOver, SeatsConsented
<1>6. ASSUME \/ \E p \in Profiles, i \in Invitations : DeclineInvitation(p, i)
             \/ \E p \in Profiles : DeleteAccount(p)
             \/ \E i \in Invitations : Expire(i)
             \/ ExpireLink
             \/ UNCHANGED vars
      PROVE  SeatsConsented
  BY <1>6 DEF DeclineInvitation, DeleteAccount, Expire, ExpireLink, vars, SeatsConsented
<1> QED
  BY <1>1, <1>2, <1>3, <1>4, <1>5, <1>6, MembershipAssumption
  DEF Next, Waiting, OwnerCommand, MemberCommand, Outside

\* Nobody is seated without the account that sits there, and nobody seats
\* themselves: an invitation by name or to their phone was accepted, or an
\* owner's command let the claimant in.
THEOREM Seats == Spec => SeatsNeedBothSides
<1>1. TypeOK /\ [Next]_vars => [SeatsConsented]_vars
  BY SeatsStep
<1>2. SeatsConsented <=>
         (\A m \in Members : state[m] # "active" /\ state'[m] = "active" =>
             \/ profile[m] # NoProfile /\ profile'[m] = profile[m]
             \/ \E i \in Invitations :
                   /\ i \in issued /\ invitation[i].member = m
                   /\ invitation'[i].state = "joined" /\ invitation'[i].claimed = profile'[m]
                   /\ \/ invitation[i].target = profile'[m]
                      \/ /\ invitation[i].claimed = profile'[m]
                         /\ \E c \in Connections : ByOwner(c) /\ waiting'[c] = Idle)
  BY DEF SeatsConsented, Consent
<1> QED BY TypeCorrect, <1>1, <1>2, PTL DEF Spec, SeatsNeedBothSides

------------------------------------------------------------------------------
\* Ownership.
HandedOver ==
    LiveOwners # {} /\ LiveOwners' = {} =>
        \E m \in LiveOwners : profile'[m] = NoProfile \/ state'[m] = "left"

\* It is enough that every live owner stays one or goes in a permitted way.
LEMMA StillOwned ==
    ASSUME \A m \in LiveOwners : \/ m \in LiveOwners'
                                 \/ profile'[m] = NoProfile \/ state'[m] = "left"
    PROVE  HandedOver
BY DEF HandedOver

LEMMA OwnersStep ==
    ASSUME TypeOK, [Next]_vars
    PROVE  HandedOver
<1> USE DEF seats
<1>1. ASSUME NEW i \in issued, NEW p \in Profiles, Bind(i, p), role' = role
      PROVE  HandedOver
  <2>1. invitation[i].member \in Members
    BY DEF TypeOK, issued, Invitation
  <2>2. state[invitation[i].member] = "invited"
    BY <1>1 DEF Bind, CanBind
  <2>3. \A m \in LiveOwners : m \in LiveOwners'
    BY <1>1, <2>1, <2>2 DEF Bind, LiveOwners, TypeOK
  <2> QED BY <2>3, StillOwned
<1>2. ASSUME NEW c \in Connections, NEW i \in Invitations, NEW approve \in BOOLEAN,
             RespondInvitation(c, i, approve)
      PROVE  HandedOver
  <2>1. i \in issued /\ invitation[i] \in Invitation /\ role' = role
    BY <1>2 DEF RespondInvitation, Outstanding, issued, TypeOK
  <2>2. CASE Bind(i, invitation[i].claimed) /\ invitation[i].claimed # NoProfile
    BY <1>1, <2>1, <2>2 DEF Invitation
  <2>3. CASE ~approve
    <3>1. \A m \in LiveOwners : m \in LiveOwners'
      BY <1>2, <2>3 DEF RespondInvitation, LiveOwners, TypeOK
    <3> QED BY <3>1, StillOwned
  <2> QED BY <1>2, <2>2, <2>3 DEF RespondInvitation
<1>3. ASSUME NEW p \in Profiles, NEW i \in Invitations, ClaimInvitation(p, i)
      PROVE  HandedOver
  <2>1. i \in issued /\ role' = role
    BY <1>3 DEF ClaimInvitation
  <2>2. CASE UNCHANGED <<profile, state>>
    BY <2>1, <2>2 DEF HandedOver, LiveOwners
  <2> QED BY <1>1, <1>3, <2>1, <2>2 DEF ClaimInvitation
<1>4. ASSUME NEW m \in Members,
             \/ \E c \in Connections, p \in Profiles \cup {NoProfile} : InviteMember(c, m, p)
             \/ \E c \in Connections, i \in Invitations : ClaimGroupLink(c, i, m)
             \/ \E c \in Connections : RemoveMember(c, m)
             \/ \E accept \in BOOLEAN : RespondMembership(m, accept)
      PROVE  HandedOver
  <2>1. \A n \in LiveOwners : n \in LiveOwners'
    BY <1>4 DEF InviteMember, ClaimGroupLink, RemoveMember, RespondMembership, LiveOwners, TypeOK
  <2> QED BY <2>1, StillOwned
<1>5. ASSUME NEW c \in Connections, NEW t \in Members, TransferOwner(c, t)
      PROVE  HandedOver
  <2>1. t \in LiveOwners'
    BY <1>5 DEF TransferOwner, Heir, LiveOwners
  <2> QED BY <2>1 DEF HandedOver
<1>6. ASSUME NEW c \in Connections, LeaveContext(c)
      PROVE  HandedOver
  <2>1. \A m \in LiveOwners : m \in LiveOwners' \/ state'[m] = "left"
    BY <1>6 DEF LeaveContext, LiveOwners, TypeOK
  <2> QED BY <2>1, StillOwned
<1>7. ASSUME NEW c \in Connections, TakeOver(c)
      PROVE  HandedOver
  BY <1>7 DEF TakeOver, HandedOver
<1>8. ASSUME NEW p \in Profiles, DeleteAccount(p)
      PROVE  HandedOver
  <2>1. \A m \in LiveOwners : m \in LiveOwners' \/ profile'[m] = NoProfile
    BY <1>8 DEF DeleteAccount, LiveOwners, TypeOK
  <2> QED BY <2>1, StillOwned
<1>9. ASSUME \/ \E c \in Connections, p \in Profiles, m \in Members : Begin(c, p, m)
             \/ \E c \in Connections, p \in Profiles : OpenLink(c, p)
             \/ \E c \in Connections : Abort(c)
             \/ \E c \in Connections, i \in Invitations, m \in Members,
                   t \in Profiles \cup {NoProfile} : CreateInvitation(c, i, m, t)
             \/ \E c \in Connections, live \in BOOLEAN : SetGroupLink(c, live)
             \/ \E p \in Profiles, i \in Invitations : DeclineInvitation(p, i)
             \/ \E i \in Invitations : Expire(i)
             \/ ExpireLink
             \/ UNCHANGED vars
      PROVE  UNCHANGED <<profile, role, state>>
  BY <1>9 DEF Begin, OpenLink, Abort, CreateInvitation, SetGroupLink, DeclineInvitation, Expire,
     ExpireLink, vars
<1>10. CASE UNCHANGED <<profile, role, state>>
  BY <1>10 DEF HandedOver, LiveOwners
<1> QED
  BY <1>2, <1>3, <1>4, <1>5, <1>6, <1>7, <1>8, <1>9, <1>10
  DEF Next, Waiting, OwnerCommand, MemberCommand, Outside

\* No command but a departure leaves a context without a live owner:
\* transfer_owner hands over to an active member with an account.
THEOREM Ownership == Spec => OwnershipIsHandedOver
<1>1. TypeOK /\ [Next]_vars => [HandedOver]_vars
  BY OwnersStep
<1>2. HandedOver <=>
         (LiveOwners # {} /\ LiveOwners' = {} =>
             \E m \in LiveOwners : profile'[m] = NoProfile \/ state'[m] = "left")
  BY DEF HandedOver
<1> QED BY TypeCorrect, <1>1, <1>2, PTL DEF Spec, OwnershipIsHandedOver

==============================================================================
