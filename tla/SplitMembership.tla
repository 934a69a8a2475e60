--------------------------- MODULE SplitMembership ---------------------------
(***************************************************************************)
(* Who belongs to one shared-expense context and who owns it: members and  *)
(* roles, personal invitations, the group link with its join requests,     *)
(* leaving, removal, and the two ways ownership moves.                     *)
(*                                                                         *)
(* Every command checks its caller first and only then waits for the lock  *)
(* on the context row.  `waiting' holds, per connection, what such a       *)
(* command has read: who it runs for, the member row of the caller and the *)
(* role in it.  Under the lock a command is one atomic action; what it     *)
(* does not read again there may be stale.  Rate limits and cool-downs     *)
(* only refuse commands and are left out; the balance that keeps a member  *)
(* from leaving is in SplitLedger.                                         *)
(***************************************************************************)
EXTENDS FiniteSets, Naturals

CONSTANTS
    Members,         \* member ids
    Founder,         \* the member of the account that created the context
    Profiles,        \* accounts
    FounderProfile,
    NoProfile,       \* NULL
    Invitations,     \* invitation ids
    NoInvitation,    \* no row with that id
    Connections,     \* database connections: bounds the commands that wait
    Idle             \* no command on the connection

ASSUME MembershipAssumption ==
    /\ Founder \in Members
    /\ FounderProfile \in Profiles
    /\ NoProfile \notin Profiles

VARIABLES
    accounts,        \* public.profiles: the accounts not deleted
    profile,         \* members.profile_id
    role,            \* members.role
    state,           \* members.state; "none" where there is no row
    binding,         \* member_identity_bindings
    invitation,      \* invitations
    link,            \* group_links: there is a live link
    waiting          \* per connection: the authorized command on its way to the lock

seats == <<profile, role, state, binding>>
vars == <<accounts, profile, role, state, binding, invitation, link, waiting>>

------------------------------------------------------------------------------

\* What a command has read before the lock.  A visitor has read the live
\* group link; the others the caller's own member row.
Snapshot == [by: Profiles, member: Members, role: {"owner", "member", "visitor"}]

\* target is the profile whose phone hash the invitation is bound to.
Invitation ==
    [member: Members, issuer: Profiles \cup {NoProfile}, target: Profiles \cup {NoProfile},
     claimed: Profiles \cup {NoProfile}, viaLink: BOOLEAN, expired: BOOLEAN,
     state: {"open", "awaiting_owner", "joined", "rejected"}]

ASSUME NullAssumption == Idle \notin Snapshot /\ NoInvitation \notin Invitation

TypeOK ==
    /\ accounts \subseteq Profiles
    /\ profile \in [Members -> Profiles \cup {NoProfile}]
    /\ role \in [Members -> {"owner", "member"}]
    /\ state \in [Members -> {"none", "invited", "active", "declined", "left"}]
    /\ binding \in [Members -> Profiles \cup {NoProfile}]
    /\ invitation \in [Invitations -> Invitation \cup {NoInvitation}]
    /\ link \in BOOLEAN
    /\ waiting \in [Connections -> Snapshot \cup {Idle}]

Init ==
    /\ accounts = Profiles
    /\ profile = [m \in Members |-> IF m = Founder THEN FounderProfile ELSE NoProfile]
    /\ role = [m \in Members |-> IF m = Founder THEN "owner" ELSE "member"]
    /\ state = [m \in Members |-> IF m = Founder THEN "active" ELSE "none"]
    /\ binding = [m \in Members |-> NoProfile]
    /\ invitation = [i \in Invitations |-> NoInvitation]
    /\ link = FALSE
    /\ waiting = [c \in Connections |-> Idle]

------------------------------------------------------------------------------
\* Helpers.

issued == {i \in Invitations : invitation[i] # NoInvitation}

Outstanding(i) == i \in issued /\ invitation[i].state \in {"open", "awaiting_owner"}

Seated(p) == \E m \in Members : profile[m] = p

\* The commands that the pre-lock checks let through as the owner's.
ByOwner(c) == waiting[c] # Idle /\ waiting[c].role = "owner"

Done(c) == waiting' = [waiting EXCEPT ![c] = Idle]

LiveOwners == {m \in Members : role[m] = "owner" /\ state[m] = "active" /\ profile[m] # NoProfile}

\* Mutant: a replaced link stays open.
NothingClosed(m) == invitation

\* The update that closes the outstanding invitations of a member.
Closed(m) ==
    [i \in Invitations |->
        IF Outstanding(i) /\ invitation[i].member = m
        THEN [invitation[i] EXCEPT !.state = "rejected"]
        ELSE invitation[i]]

\* _bind_invitation and the foreign key of members.profile_id.
CanBind(m, p) ==
    /\ state[m] = "invited"
    /\ profile[m] \in {NoProfile, p}
    /\ \A n \in Members \ {m} : profile[n] # p
    /\ binding[m] = NoProfile
    /\ \A n \in Members : binding[n] # p
    /\ p \in accounts

\* Mutant: the slot does not remember who claimed it.
BindUnbound(i, p) ==
    LET m == invitation[i].member
    IN  /\ CanBind(m, p)
        /\ binding' = binding
        /\ profile' = [profile EXCEPT ![m] = p]
        /\ state' = [state EXCEPT ![m] = "active"]
        /\ invitation' = [invitation EXCEPT ![i].state = "joined", ![i].claimed = p]

Bind(i, p) ==
    LET m == invitation[i].member
    IN  /\ CanBind(m, p)
        /\ binding' = [binding EXCEPT ![m] = p]
        /\ profile' = [profile EXCEPT ![m] = p]
        /\ state' = [state EXCEPT ![m] = "active"]
        /\ invitation' = [invitation EXCEPT ![i].state = "joined", ![i].claimed = p]

------------------------------------------------------------------------------
\* Before the lock.

\* A member's command has passed its check and read its own row.
Begin(c, p, m) ==
    /\ profile[m] = p /\ state[m] = "active"
    /\ waiting[c] = Idle
    /\ waiting' = [waiting EXCEPT ![c] = [by |-> p, member |-> m, role |-> role[m]]]
    /\ UNCHANGED <<accounts, seats, invitation, link>>

\* _claim_group_link has found the live link; its member does not matter.
OpenLink(c, p) ==
    /\ link /\ p \in accounts
    /\ waiting[c] = Idle
    /\ waiting' = [waiting EXCEPT ![c] = [by |-> p, member |-> Founder, role |-> "visitor"]]
    /\ UNCHANGED <<accounts, seats, invitation, link>>

\* The command is refused under the lock, or its connection is lost.
Abort(c) ==
    /\ waiting[c] # Idle
    /\ Done(c)
    /\ UNCHANGED <<accounts, seats, invitation, link>>

------------------------------------------------------------------------------
\* The owner's commands.

\* invite_member, with or without the profile of a registered person.
InviteMember(c, m, p) ==
    /\ ByOwner(c)
    /\ state[m] = "none"
    /\ p # NoProfile => p \in accounts /\ ~Seated(p)
    /\ state' = [state EXCEPT ![m] = "invited"]
    /\ profile' = [profile EXCEPT ![m] = p]
    /\ Done(c)
    /\ UNCHANGED <<accounts, role, binding, invitation, link>>

\* create_invitation: for an unregistered member, to anybody or to one phone.
CreateInvitation(c, i, m, target) ==
    /\ ByOwner(c)
    /\ invitation[i] = NoInvitation
    /\ state[m] = "invited" /\ profile[m] = NoProfile
    /\ target # NoProfile =>
          /\ target # waiting[c].by
          /\ \A n \in Members : profile[n] = target => state[n] \notin {"active", "invited"}
          /\ \A j \in issued : invitation[j].member # m /\ invitation[j].target = target =>
                invitation[j].state = "rejected" \/ invitation[j].expired
    /\ invitation' = [Closed(m) EXCEPT ![i] =
          [member |-> m, issuer |-> waiting[c].by, target |-> target, claimed |-> NoProfile,
           viaLink |-> FALSE, expired |-> FALSE, state |-> "open"]]
    /\ Done(c)
    /\ UNCHANGED <<accounts, seats, link>>

\* respond_invitation.  A refused join request takes its member along.
RespondInvitation(c, i, approve) ==
    /\ ByOwner(c)
    /\ Outstanding(i) /\ ~invitation[i].expired
    /\ \/ /\ approve /\ invitation[i].claimed # NoProfile
          /\ Bind(i, invitation[i].claimed)
       \/ /\ ~approve
          /\ invitation' = [invitation EXCEPT ![i].state = "rejected"]
          /\ LET m == invitation[i].member
                 gone == invitation[i].viaLink /\ profile[m] = NoProfile /\ state[m] = "invited"
             IN  state' = IF gone THEN [state EXCEPT ![m] = "declined"] ELSE state
          /\ UNCHANGED <<profile, binding>>
    /\ Done(c)
    /\ UNCHANGED <<accounts, role, link>>

\* create_group_link replaces the link; revoke_group_link deletes it, without the lock.
SetGroupLink(c, live) ==
    /\ ByOwner(c)
    /\ link' = live
    /\ Done(c)
    /\ UNCHANGED <<accounts, seats, invitation>>

\* remove_member, for a member that is in no revision.
RemoveMember(c, m) ==
    /\ ByOwner(c)
    /\ state[m] = "invited" /\ profile[m] = NoProfile /\ role[m] # "owner"
    /\ state' = [state EXCEPT ![m] = "declined"]
    /\ invitation' = Closed(m)
    /\ Done(c)
    /\ UNCHANGED <<accounts, profile, role, binding, link>>

\* Mutant: the new owner is not looked at.
AnyHeir(c, t) == profile[t] # waiting[c].by

\* The checks of transfer_owner on the new owner, under the lock.
Heir(c, t) == state[t] = "active" /\ profile[t] \notin {NoProfile, waiting[c].by}

\* transfer_owner: the caller's role is not read again.
TransferOwner(c, t) ==
    /\ ByOwner(c)
    /\ Heir(c, t)
    /\ role' = [m \in Members |-> IF m = t THEN "owner"
                                  ELSE IF profile[m] = waiting[c].by THEN "member"
                                  ELSE role[m]]
    /\ Done(c)
    /\ UNCHANGED <<accounts, profile, state, binding, invitation, link>>

------------------------------------------------------------------------------
\* Everybody's commands.

\* Mutant: the response is stored as the state.
StoreResponse(m, accept) ==
    /\ state[m] = "invited" /\ profile[m] # NoProfile
    /\ state' = [state EXCEPT ![m] = IF accept THEN "accept" ELSE "decline"]
    /\ UNCHANGED <<accounts, profile, role, binding, invitation, link, waiting>>

\* respond_membership reads the row again under the lock.
RespondMembership(m, accept) ==
    /\ state[m] = "invited" /\ profile[m] # NoProfile
    /\ state' = [state EXCEPT ![m] = IF accept THEN "active" ELSE "declined"]
    /\ UNCHANGED <<accounts, profile, role, binding, invitation, link, waiting>>

\* Mutant: the phone is not compared.
MayClaimAnyPhone(p, i) ==
    /\ p \in accounts
    /\ invitation[i].state = "open" /\ ~invitation[i].expired
    /\ invitation[i].issuer # p /\ ~invitation[i].viaLink

\* The checks of claim_invitation and claim_invitation_by_id on an open invitation.
MayClaim(p, i) ==
    /\ p \in accounts
    /\ invitation[i].state = "open" /\ ~invitation[i].expired
    /\ invitation[i].issuer # p /\ ~invitation[i].viaLink
    /\ invitation[i].target \in {NoProfile, p}

\* A phone-bound claim joins at once, a forwarded link waits for the owner.
\* A repeated claim changes nothing.
ClaimInvitation(p, i) ==
    /\ i \in issued /\ MayClaim(p, i)
    /\ \/ invitation[i].target # NoProfile /\ Bind(i, p)
       \/ /\ invitation[i].target = NoProfile
          /\ invitation' = [invitation EXCEPT ![i].state = "awaiting_owner", ![i].claimed = p]
          /\ UNCHANGED <<profile, state, binding>>
    /\ UNCHANGED <<accounts, role, link, waiting>>

\* Mutant: any invitation to the phone can be declined.
DeclineAnyInvitation(p, i) ==
    /\ i \in issued /\ p \in accounts
    /\ invitation[i].target = p
    /\ invitation' = [invitation EXCEPT ![i].state = "rejected"]
    /\ UNCHANGED <<accounts, seats, link, waiting>>

\* decline_invitation, by the holder of the phone.
DeclineInvitation(p, i) ==
    /\ i \in issued /\ p \in accounts
    /\ invitation[i].target = p /\ invitation[i].state = "open"
    /\ invitation' = [invitation EXCEPT ![i].state = "rejected"]
    /\ UNCHANGED <<accounts, seats, link, waiting>>

\* Mutant: a second tap makes a second request.
MayRequestAgain(p) == p \in accounts /\ ~Seated(p)

\* Not in the context, and no request waits.
MayRequest(p) ==
    /\ p \in accounts /\ ~Seated(p)
    /\ \A i \in issued : ~(/\ invitation[i].viaLink /\ invitation[i].claimed = p
                           /\ invitation[i].state = "awaiting_owner")

\* _claim_group_link makes a member and a request for it.  Nobody holds the
\* token of the request, so its issuer does not matter.
ClaimGroupLink(c, i, m) ==
    /\ waiting[c] # Idle /\ waiting[c].role = "visitor"
    /\ MayRequest(waiting[c].by)
    /\ state[m] = "none" /\ invitation[i] = NoInvitation
    /\ state' = [state EXCEPT ![m] = "invited"]
    /\ invitation' = [invitation EXCEPT ![i] =
          [member |-> m, issuer |-> NoProfile, target |-> NoProfile, claimed |-> waiting[c].by,
           viaLink |-> TRUE, expired |-> FALSE, state |-> "awaiting_owner"]]
    /\ Done(c)
    /\ UNCHANGED <<accounts, profile, role, binding, link>>

\* leave_context: the role and the member are those read before the lock.
LeaveContext(c) ==
    /\ waiting[c] # Idle /\ waiting[c].role = "member"
    /\ state' = [state EXCEPT ![waiting[c].member] = "left"]
    /\ Done(c)
    /\ UNCHANGED <<accounts, profile, role, binding, invitation, link>>

\* take_over_ownership: no owner with a live account remains; whether the
\* caller is still a member is not read again.
TakeOver(c) ==
    /\ waiting[c] # Idle /\ waiting[c].role # "visitor"
    /\ LiveOwners = {}
    /\ role' = [m \in Members |-> IF m = waiting[c].member THEN "owner" ELSE "member"]
    /\ Done(c)
    /\ UNCHANGED <<accounts, profile, state, binding, invitation, link>>

\* The account is deleted with everything it is running; the foreign key
\* sets members.profile_id to NULL and nothing else follows.
DeleteAccount(p) ==
    /\ p \in accounts
    /\ accounts' = accounts \ {p}
    /\ profile' = [m \in Members |-> IF profile[m] = p THEN NoProfile ELSE profile[m]]
    /\ waiting' = [c \in Connections |->
          IF waiting[c] # Idle /\ waiting[c].by = p THEN Idle ELSE waiting[c]]
    /\ UNCHANGED <<role, state, binding, invitation, link>>

\* Seven days pass for an invitation, thirty for the group link.
Expire(i) ==
    /\ i \in issued /\ ~invitation[i].expired
    /\ invitation' = [invitation EXCEPT ![i].expired = TRUE]
    /\ UNCHANGED <<accounts, seats, link, waiting>>

ExpireLink == link /\ link' = FALSE /\ UNCHANGED <<accounts, seats, invitation, waiting>>

------------------------------------------------------------------------------

Waiting ==
    \/ \E c \in Connections, p \in Profiles, m \in Members : Begin(c, p, m)
    \/ \E c \in Connections, p \in Profiles : OpenLink(c, p)
    \/ \E c \in Connections : Abort(c)

OwnerCommand ==
    \E c \in Connections :
        \/ \E m \in Members, p \in Profiles \cup {NoProfile} : InviteMember(c, m, p)
        \/ \E i \in Invitations, m \in Members, p \in Profiles \cup {NoProfile} :
               CreateInvitation(c, i, m, p)
        \/ \E i \in Invitations, approve \in BOOLEAN : RespondInvitation(c, i, approve)
        \/ \E live \in BOOLEAN : SetGroupLink(c, live)
        \/ \E m \in Members : RemoveMember(c, m) \/ TransferOwner(c, m)

MemberCommand ==
    \/ \E m \in Members, accept \in BOOLEAN : RespondMembership(m, accept)
    \/ \E p \in Profiles, i \in Invitations : ClaimInvitation(p, i) \/ DeclineInvitation(p, i)
    \/ \E c \in Connections :
          \/ \E i \in Invitations, m \in Members : ClaimGroupLink(c, i, m)
          \/ LeaveContext(c) \/ TakeOver(c)

Outside ==
    \/ \E p \in Profiles : DeleteAccount(p)
    \/ \E i \in Invitations : Expire(i)
    \/ ExpireLink

Next == Waiting \/ OwnerCommand \/ MemberCommand \/ Outside

Spec == Init /\ [][Next]_vars

------------------------------------------------------------------------------
\* Properties.

\* Nobody is seated by somebody else alone: a member becomes active for an
\* account that was invited by name, that holds the phone the invitation is
\* bound to, or that claimed a forwarded link or the group link and was let
\* in by an owner's command (respond_membership, _bind_invitation).
SeatsNeedBothSides ==
    [][\A m \in Members : state[m] # "active" /\ state'[m] = "active" =>
          \/ profile[m] # NoProfile /\ profile'[m] = profile[m]
          \/ \E i \in Invitations :
                /\ i \in issued /\ invitation[i].member = m
                /\ invitation'[i].state = "joined" /\ invitation'[i].claimed = profile'[m]
                /\ \/ invitation[i].target = profile'[m]
                   \/ /\ invitation[i].claimed = profile'[m]
                      /\ \E c \in Connections : ByOwner(c) /\ waiting'[c] = Idle]_vars

\* 20261113000000_shared_expense_invitations.sql:58 promises one outstanding
\* link per person: an older link never seats anyone after it was replaced.
OneLinkPerPerson ==
    \A i, j \in Invitations :
        Outstanding(i) /\ Outstanding(j) /\ invitation[i].member = invitation[j].member => i = j

\* A second tap on the group link does not make a second request, whatever
\* commands of the same account wait for the lock (_claim_group_link).
OneRequestPerAccount ==
    \A i, j \in issued :
        /\ invitation[i].viaLink /\ invitation[j].viaLink
        /\ invitation[i].state = "awaiting_owner" /\ invitation[j].state = "awaiting_owner"
        /\ invitation[i].claimed = invitation[j].claimed
        => i = j

\* A member slot is claimed once: its binding is the account of its one
\* joined invitation, also after that account is deleted (_bind_invitation).
BindingsAreJoins ==
    \A m \in Members :
        LET joins == {i \in issued : invitation[i].state = "joined" /\ invitation[i].member = m}
        IN  /\ binding[m] = NoProfile => joins = {}
            /\ binding[m] # NoProfile => \E i \in joins : joins = {i} /\ invitation[i].claimed = binding[m]

\* Late commands bring nobody back: a joined or rejected invitation is
\* final, and so is a declined or departed member.
EndsAreFinal ==
    [][/\ \A i \in issued : ~Outstanding(i) => invitation'[i].state = invitation[i].state
       /\ \A m \in Members : state[m] \in {"declined", "left"} => state'[m] = state[m]]_vars

\* No command but a departure leaves a context without a live owner: the
\* group is handed to an active member or kept (transfer_owner).
OwnershipIsHandedOver ==
    [][LiveOwners # {} /\ LiveOwners' = {} =>
          \E m \in LiveOwners : profile'[m] = NoProfile \/ state'[m] = "left"]_vars

\* "Owners cannot leave": 20261114030000_shared_expense_membership_exit.sql:4.
OwnersStay == \A m \in Members : role[m] = "owner" => state[m] # "left"

==============================================================================
