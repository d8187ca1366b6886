---------------------------- MODULE Roles_proofs ----------------------------
(***************************************************************************)
(* What the rules of Roles guarantee for every group and every             *)
(* INITIAL_ADMIN_IDS.                                                      *)
(***************************************************************************)
EXTENDS Roles, FiniteSetTheorems, TLAPS

\* The inductive invariant.  RemovedStaysOut needs its last conjunct: the
\* bootstrap rule does not look at the status, so nobody may have been removed
\* while there is no admin; and that needs an admin to survive every step.
SomebodyRemoved == \E u \in Users : status[u] = "removed"

RolesInv == /\ RolesTypeOK
            /\ PendingIsNoAdmin
            /\ ActiveAdminExists
            /\ SomebodyRemoved => AnyAdmin

-----------------------------------------------------------------------------
\* A set with more than one element has one that is not x: the reason why the
\* count of the admins taken when the button is pressed suffices.
LEMMA AnotherOne ==
  ASSUME NEW S, IsFiniteSet(S), Cardinality(S) > 1, NEW x
  PROVE  \E y \in S : y # x
<1> SUFFICES ASSUME \A y \in S : y = x
             PROVE  FALSE
  OBVIOUS
<1>1. IsFiniteSet({x}) /\ Cardinality({x}) = 1
  BY FS_Singleton
<1>2. Cardinality(S) <= 1
  BY <1>1, FS_Subset, S \subseteq {x}
<1>3. Cardinality(S) \in Nat
  BY FS_CardinalityType
<1> QED
  BY <1>2, <1>3

\* Once there are two admins who are members, one is left whoever goes.
LEMMA AdminLeft ==
  ASSUME Cardinality(ActiveAdmins) > 1, NEW x
  PROVE  \E y \in Users : y # x /\ status[y] = "active" /\ isAdmin[y]
<1>1. IsFiniteSet(ActiveAdmins)
  BY UsersAssumption, FS_Subset DEF ActiveAdmins, ActiveUsers
<1>2. PICK y \in ActiveAdmins : y # x
  BY <1>1, AnotherOne
<1> QED
  BY <1>2 DEF ActiveAdmins, ActiveUsers

\* ActiveAdminExists without the set, as the steps below use it.
LEMMA ActiveAdminsNonempty ==
  ActiveAdmins # {} <=> \E y \in Users : status[y] = "active" /\ isAdmin[y]
BY DEF ActiveAdmins, ActiveUsers

-----------------------------------------------------------------------------
LEMMA RolesInvInit == RolesInit => RolesInv
<1> SUFFICES ASSUME RolesInit PROVE RolesInv
  OBVIOUS
<1>1. RolesTypeOK
  BY DEF RolesInit, RolesTypeOK, Statuses
<1>2. PendingIsNoAdmin /\ ~AnyAdmin /\ ~SomebodyRemoved
  BY DEF RolesInit, PendingIsNoAdmin, AnyAdmin, SomebodyRemoved
<1> QED
  BY <1>1, <1>2 DEF RolesInv, ActiveAdminExists

\* What every step but Join and Approve leaves behind: an admin who is a member.
LEMMA RolesInvStep == RolesInv /\ [RolesNext]_roleVars => RolesInv'
<1> SUFFICES ASSUME RolesInv, [RolesNext]_roleVars
             PROVE  RolesInv'
  OBVIOUS
<1> DEFINE Witness == \E y \in Users : status[y] = "active" /\ isAdmin[y]
<1> USE DEF RolesTypeOK, Statuses
<1>0. /\ RolesTypeOK /\ PendingIsNoAdmin
      /\ AnyAdmin => Witness
      /\ SomebodyRemoved => AnyAdmin
  BY ActiveAdminsNonempty DEF RolesInv, ActiveAdminExists
<1>a. ASSUME RolesTypeOK', PendingIsNoAdmin', Witness'
      PROVE  RolesInv'
  <2>1. ActiveAdmins' # {}
    BY <1>a DEF ActiveAdmins, ActiveUsers
  <2>2. AnyAdmin'
    BY <1>a DEF AnyAdmin
  <2> QED
    BY <1>a, <2>1, <2>2 DEF RolesInv, ActiveAdminExists
<1>1. ASSUME NEW u \in Users, Join(u) PROVE RolesInv'
  <2>1. RolesTypeOK' /\ PendingIsNoAdmin'
    BY <1>0, <1>1 DEF Join, PendingIsNoAdmin
  <2>2. CASE AnyAdmin
    <3>1. Witness'
      BY <1>0, <1>1, <2>2 DEF Join
    <3> QED BY <2>1, <3>1, <1>a
  <2>3. CASE ~AnyAdmin
    <3>1. ~AnyAdmin' /\ ~SomebodyRemoved'
      BY <1>0, <1>1, <2>3 DEF Join, AnyAdmin, SomebodyRemoved
    <3> QED BY <2>1, <3>1 DEF RolesInv, ActiveAdminExists
  <2> QED BY <2>2, <2>3
<1>2. ASSUME NEW u \in Users, Bootstrap(u) PROVE RolesInv'
  <2>1. RolesTypeOK' /\ PendingIsNoAdmin'
    BY <1>0, <1>2 DEF Bootstrap, PendingIsNoAdmin
  <2>2. Witness'
    BY <1>0, <1>2 DEF Bootstrap
  <2> QED BY <2>1, <2>2, <1>a
<1>3. ASSUME NEW u \in Users, Approve(u) PROVE RolesInv'
  <2>1. RolesTypeOK' /\ PendingIsNoAdmin'
    BY <1>0, <1>3 DEF Approve, PendingIsNoAdmin
  <2>2. Witness'
    BY <1>0, <1>3 DEF Approve
  <2> QED BY <2>1, <2>2, <1>a
<1>4. ASSUME NEW u \in Users, Reject(u) PROVE RolesInv'
  <2>1. RolesTypeOK' /\ PendingIsNoAdmin'
    BY <1>0, <1>4 DEF Reject, PendingIsNoAdmin
  <2>2. Witness'
    BY <1>0, <1>4 DEF Reject
  <2> QED BY <2>1, <2>2, <1>a
<1>5. ASSUME NEW u \in Users, Promote(u) PROVE RolesInv'
  <2>1. RolesTypeOK' /\ PendingIsNoAdmin'
    BY <1>0, <1>5 DEF Promote, PendingIsNoAdmin
  <2>2. Witness'
    BY <1>0, <1>5 DEF Promote
  <2> QED BY <2>1, <2>2, <1>a
<1>6. ASSUME NEW u \in Users, Demote(u) PROVE RolesInv'
  <2>1. RolesTypeOK' /\ PendingIsNoAdmin'
    BY <1>0, <1>6 DEF Demote, PendingIsNoAdmin
  <2>2. PICK y \in Users : y # u /\ status[y] = "active" /\ isAdmin[y]
    BY <1>6, AdminLeft DEF Demote
  <2>3. Witness'
    BY <1>0, <1>6, <2>2 DEF Demote
  <2> QED BY <2>1, <2>3, <1>a
<1>7. ASSUME NEW u \in Users, RemoveMember(u) PROVE RolesInv'
  <2>1. RolesTypeOK' /\ PendingIsNoAdmin'
    BY <1>0, <1>7 DEF RemoveMember, PendingIsNoAdmin
  <2>2. PICK y \in Users : y # u /\ status[y] = "active" /\ isAdmin[y]
    <3>1. CASE isAdmin[u]
      BY <1>7, <3>1, AdminLeft DEF RemoveMember
    <3>2. CASE ~isAdmin[u]
      BY <1>0, <1>7, <3>2 DEF RemoveMember
    <3> QED BY <3>1, <3>2
  <2>3. Witness'
    BY <1>0, <1>7, <2>2 DEF RemoveMember
  <2> QED BY <2>1, <2>3, <1>a
<1>8. CASE UNCHANGED roleVars
  BY <1>8 DEF roleVars, RolesInv, PendingIsNoAdmin, ActiveAdminExists, ActiveAdmins,
              ActiveUsers, AnyAdmin, SomebodyRemoved
<1> QED
  BY <1>1, <1>2, <1>3, <1>4, <1>5, <1>6, <1>7, <1>8 DEF RolesNext

\* Two facts about single steps that implementations of Roles lean on: there
\* never ceases to be an admin, and who was admitted or refused never becomes
\* an applicant again.
LEMMA AnyAdminStays == RolesInv /\ [RolesNext]_roleVars /\ AnyAdmin => AnyAdmin'
<1> SUFFICES ASSUME RolesInv, [RolesNext]_roleVars, AnyAdmin
             PROVE  AnyAdmin'
  OBVIOUS
<1>0. RolesTypeOK
  BY DEF RolesInv
<1>1. CASE UNCHANGED roleVars
  BY <1>1 DEF roleVars, AnyAdmin
<1>2. ASSUME NEW u \in Users, Join(u) \/ Bootstrap(u) \/ Approve(u) \/ Reject(u)
                              \/ Promote(u) \/ RemoveMember(u)
      PROVE  AnyAdmin'
  <2>1. PICK y \in Users : isAdmin[y]
    BY DEF AnyAdmin
  <2>2. CASE Approve(u)
    <3>1. y # u
      BY <2>1, <2>2 DEF Approve, RolesInv, PendingIsNoAdmin
    <3> QED BY <1>0, <2>1, <2>2, <3>1 DEF Approve, AnyAdmin, RolesTypeOK
  <2>3. CASE Join(u) \/ Reject(u) \/ RemoveMember(u)
    BY <2>1, <2>3 DEF Join, Reject, RemoveMember, AnyAdmin
  <2>4. CASE Bootstrap(u) \/ Promote(u)
    BY <1>0, <2>4 DEF Bootstrap, Promote, AnyAdmin, RolesTypeOK
  <2> QED BY <1>2, <2>2, <2>3, <2>4
<1>3. ASSUME NEW u \in Users, Demote(u) PROVE AnyAdmin'
  <2>1. PICK y \in Users : y # u /\ status[y] = "active" /\ isAdmin[y]
    BY <1>3, AdminLeft DEF Demote
  <2> QED BY <1>0, <1>3, <2>1 DEF Demote, AnyAdmin, RolesTypeOK
<1> QED
  BY <1>1, <1>2, <1>3 DEF RolesNext

LEMMA DecidedStays ==
  ASSUME RolesTypeOK, [RolesNext]_roleVars, NEW t \in Users, status[t] \in {"active", "removed"}
  PROVE  status'[t] \in {"active", "removed"}
BY DEF RolesNext, roleVars, RolesTypeOK, Statuses, Join, Bootstrap, Approve, Reject,
       Promote, Demote, RemoveMember

\* The invariant that everything below rests on.
THEOREM RolesInvariant == RolesSpec => []RolesInv
<1>1. RolesInit => RolesInv
  BY RolesInvInit
<1>2. RolesInv /\ [RolesNext]_roleVars => RolesInv'
  BY RolesInvStep
<1> QED
  BY <1>1, <1>2, PTL DEF RolesSpec

\* Whoever ends up with the rights, once there was an admin there is always one
\* who is a member (members.py:87-101).
THEOREM RolesKeepAnAdmin == RolesSpec => []ActiveAdminExists
BY RolesInvariant, PTL DEF RolesInv

\* Approving somebody never takes the admin flag from an admin.
THEOREM RolesPendingIsNoAdmin == RolesSpec => []PendingIsNoAdmin
BY RolesInvariant, PTL DEF RolesInv

\* A step brings a removed member back only if the configuration names them.
LEMMA RemovedStep ==
  RolesInv /\ [RolesNext]_roleVars
    => [\A u \in Users \ InitialAdmins :
            status[u] = "removed" => status'[u] = "removed"]_roleVars
<1> SUFFICES ASSUME RolesInv, RolesNext,
                    NEW u \in Users \ InitialAdmins, status[u] = "removed"
             PROVE  status'[u] = "removed"
  OBVIOUS
<1>0. RolesTypeOK /\ AnyAdmin
  BY DEF RolesInv, SomebodyRemoved
<1>1. PICK v \in Users : \/ Join(v) \/ Bootstrap(v) \/ Approve(v) \/ Reject(v)
                         \/ Promote(v) \/ Demote(v) \/ RemoveMember(v)
  BY DEF RolesNext
<1>2. CASE Bootstrap(v)
  BY <1>0, <1>2 DEF Bootstrap, RolesTypeOK
<1>3. CASE Join(v) \/ Approve(v) \/ Reject(v)
  BY <1>0, <1>3 DEF Join, Approve, Reject, RolesTypeOK
<1>4. CASE Promote(v) \/ Demote(v) \/ RemoveMember(v)
  BY <1>0, <1>4 DEF Promote, Demote, RemoveMember, RolesTypeOK
<1> QED
  BY <1>1, <1>2, <1>3, <1>4

\* Nobody who was removed gets back in (registration.py:80-86).
THEOREM RolesRemovedStaysOut == RolesSpec => RemovedStaysOut
<1>1. RolesInv /\ [RolesNext]_roleVars
        => [\A u \in Users \ InitialAdmins :
                status[u] = "removed" => status'[u] = "removed"]_roleVars
  BY RemovedStep
<1> QED
  BY <1>1, RolesInvariant, PTL DEF RolesSpec, RemovedStaysOut
=============================================================================
