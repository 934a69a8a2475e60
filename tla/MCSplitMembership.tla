-------------------------- MODULE MCSplitMembership --------------------------
(* Small instances of SplitMembership for TLC. *)
EXTENDS SplitMembership, TLC

CONSTANTS m1, m2, m3, p1, p2, p3, i1, i2, c1, c2

\* Two commands at a time, one invitation.
Races == Permutations({m2, m3}) \cup Permutations({p2, p3}) \cup Permutations({c1, c2})

\* Two commands, two invitations.
All == Races \cup Permutations({i1, i2})

\* One account is deleted or one invitation expires, not both.
Bound ==
    Cardinality({i \in issued : invitation[i].expired})
        + Cardinality(Profiles \ accounts) <= 1

==============================================================================
