-------------------------- MODULE Membership_proofs --------------------------
(***************************************************************************)
(* The handlers implement Roles, for every group and every                 *)
(* INITIAL_ADMIN_IDS: whoever presses which button of whatever age, in any *)
(* order, with answers failing and the bot restarting.  So all that is     *)
(* proved of Roles holds of them.                                          *)
(***************************************************************************)
EXTENDS Membership, Roles_proofs

\* What a button on the screen proves, however old it is: there was an admin
\* when it was sent, so there is one now; and a member button names somebody
\* who had been admitted.  The handlers do not check either again.
ButtonsNeedAdmin ==
    \A a \in Users :
        menu[a] # "END" \/ seen[a] # {} \/ prompts[a] # {} => AnyAdmin
SeenAdmitted == \A a \in Users : \A t \in seen[a] : status[t] \in {"active", "removed"}

\* Registration runs for people who have a row.
RegHasRow == \A u \in Users : reg[u] # "END" => status[u] # "none"

MembershipInv == TypeOK /\ RolesInv /\ ButtonsNeedAdmin /\ SeenAdmitted /\ RegHasRow

-----------------------------------------------------------------------------
LEMMA NotLastAdmin == ~LastAdmin => Cardinality(ActiveAdmins) > 1
<1>1. IsFiniteSet(ActiveAdmins)
  BY UsersAssumption, FS_Subset DEF ActiveAdmins, ActiveUsers
<1>2. Cardinality(ActiveAdmins) \in Nat
  BY <1>1, FS_CardinalityType
<1> QED
  BY <1>2 DEF LastAdmin

\* Handler by handler: the guards of the code, with what the buttons prove,
\* imply the guards of Roles.
LEMMA HandlersFollowRoles == MembershipInv /\ [Next]_vars => [RolesNext]_roleVars
<1> SUFFICES ASSUME MembershipInv, Next
             PROVE  RolesNext \/ UNCHANGED roleVars
  BY DEF vars, roleVars
<1> USE DEF MembershipInv, TypeOK, roleVars
<1>1. ASSUME NEW u \in Users, Registration(u)
      PROVE  RolesNext \/ UNCHANGED roleVars
  <2>1. ASSUME NEW ok \in BOOLEAN, Start(u, ok) PROVE Join(u)
    BY <2>1 DEF Start, Join
  <2>2. ASSUME NEW ok \in BOOLEAN, RegWeightBootstrap(u, ok)
        PROVE  Bootstrap(u)
    BY <2>2 DEF RegWeightBootstrap, ShouldBootstrap, ActivateUser, Bootstrap, RegHasRow
  <2>3. CASE RegCardReceived(u) \/ \E reached \in SUBSET ActiveAdmins : RegWeightNotify(u, reached)
    BY <2>3 DEF RegCardReceived, RegWeightNotify
  <2> QED
    BY <1>1, <2>1, <2>2, <2>3 DEF Registration, RolesNext
<1>2. ASSUME NEW a \in Users, AdminAct(a)
      PROVE  RolesNext \/ UNCHANGED roleVars
  <2>1. CASE PendingEntry(a) \/ MembersEntry(a) \/ MenuBack(a) \/ EditReceived(a)
             \/ \E t \in Users : MenuEdit(a, t)
    BY <2>1 DEF PendingEntry, MembersEntry, MenuBack, EditReceived, MenuEdit
  <2>2. ASSUME NEW t \in Users, ApproveMember(a, t) PROVE Approve(t)
    BY <2>2 DEF ApproveMember, MayDecide, ActivateUser, Approve, AnyAdmin
  <2>3. ASSUME NEW t \in Users, RejectMember(a, t) PROVE Reject(t)
    BY <2>3 DEF RejectMember, MayDecide, Reject, AnyAdmin
  <2>4. ASSUME NEW t \in Users, Pressed(a, t)
        PROVE  AnyAdmin /\ status[t] \in {"active", "removed"}
    BY <2>4 DEF Pressed, ButtonsNeedAdmin, SeenAdmitted
  <2>5. ASSUME NEW t \in Users, MenuMakeAdmin(a, t) PROVE Promote(t)
    BY <2>4, <2>5 DEF MenuMakeAdmin, Promote
  <2>6. ASSUME NEW t \in Users, MenuUnadmin(a, t) PROVE Demote(t)
    BY <2>4, <2>6, NotLastAdmin DEF MenuUnadmin, Demote
  <2>7. ASSUME NEW t \in Users, NEW ok \in BOOLEAN, MenuRemove(a, t, ok) PROVE RemoveMember(t)
    BY <2>4, <2>7, NotLastAdmin DEF MenuRemove, RemoveMember
  <2> QED
    BY <1>2, <2>1, <2>2, <2>3, <2>5, <2>6, <2>7 DEF AdminAct, RolesNext
<1>3. ASSUME NEW u \in Users, Cancel(u) PROVE UNCHANGED roleVars
  BY <1>3 DEF Cancel
<1>4. CASE Restart
  BY <1>4 DEF Restart
<1> QED
  BY <1>1, <1>2, <1>3, <1>4 DEF Next

-----------------------------------------------------------------------------
LEMMA MembershipInvInit == Init => MembershipInv
<1> SUFFICES ASSUME Init PROVE MembershipInv
  OBVIOUS
<1>1. RolesInv
  BY RolesInvInit DEF Init
<1>2. TypeOK
  BY <1>1 DEF Init, TypeOK, RolesInv
<1>3. ButtonsNeedAdmin /\ SeenAdmitted /\ RegHasRow
  BY DEF Init, ButtonsNeedAdmin, SeenAdmitted, RegHasRow
<1> QED
  BY <1>1, <1>2, <1>3 DEF MembershipInv

LEMMA MembershipTypeStep == TypeOK /\ [Next]_vars => TypeOK'
<1> SUFFICES ASSUME TypeOK, [Next]_vars PROVE TypeOK'
  OBVIOUS
<1> USE DEF TypeOK, RolesTypeOK, Statuses
<1>1. ASSUME NEW u \in Users, Registration(u) PROVE TypeOK'
  <2>1. ASSUME NEW ok \in BOOLEAN, Start(u, ok) PROVE TypeOK'
    BY <2>1 DEF Start
  <2>2. ASSUME NEW ok \in BOOLEAN, RegWeightBootstrap(u, ok) PROVE TypeOK'
    BY <2>2 DEF RegWeightBootstrap, ActivateUser
  <2>3. CASE RegCardReceived(u)
    BY <2>3 DEF RegCardReceived
  <2>4. ASSUME NEW reached \in SUBSET ActiveAdmins, RegWeightNotify(u, reached) PROVE TypeOK'
    BY <2>4 DEF RegWeightNotify
  <2> QED
    BY <1>1, <2>1, <2>2, <2>3, <2>4 DEF Registration
<1>2. ASSUME NEW a \in Users, AdminAct(a) PROVE TypeOK'
  <2>1. CASE PendingEntry(a) \/ MembersEntry(a) \/ MenuBack(a) \/ EditReceived(a)
    BY <2>1 DEF PendingEntry, MembersEntry, MenuBack, EditReceived, ActiveUsers
  <2>2. ASSUME NEW t \in Users, ApproveMember(a, t) \/ RejectMember(a, t) \/ MenuEdit(a, t)
        PROVE  TypeOK'
    BY <2>2 DEF ApproveMember, RejectMember, MenuEdit, ActivateUser
  <2>3. ASSUME NEW t \in Users, MenuMakeAdmin(a, t) \/ MenuUnadmin(a, t) PROVE TypeOK'
    BY <2>3 DEF MenuMakeAdmin, MenuUnadmin
  <2>4. ASSUME NEW t \in Users, NEW ok \in BOOLEAN, MenuRemove(a, t, ok) PROVE TypeOK'
    BY <2>4 DEF MenuRemove
  <2> QED
    BY <1>2, <2>1, <2>2, <2>3, <2>4 DEF AdminAct
<1>3. ASSUME NEW u \in Users, Cancel(u) PROVE TypeOK'
  BY <1>3 DEF Cancel
<1>4. CASE Restart
  BY <1>4 DEF Restart
<1>5. CASE UNCHANGED vars
  BY <1>5 DEF vars
<1> QED
  BY <1>1, <1>2, <1>3, <1>4, <1>5 DEF Next

\* New buttons are sent, and a menu is opened, only for an active admin.
LEMMA ButtonsStep ==
  ASSUME MembershipInv, [Next]_vars, AnyAdmin => AnyAdmin'
  PROVE  ButtonsNeedAdmin'
<1> SUFFICES ASSUME NEW b \in Users, ~AnyAdmin', ~AnyAdmin,
                    menu'[b] # "END" \/ seen'[b] # {} \/ prompts'[b] # {}
             PROVE  FALSE
  BY DEF ButtonsNeedAdmin
<1> USE DEF MembershipInv, TypeOK
<1>0. \A a \in Users : menu[a] = "END" /\ seen[a] = {} /\ prompts[a] = {}
  BY DEF ButtonsNeedAdmin
<1>a. ActiveAdmins = {}
  BY DEF ActiveAdmins, AnyAdmin, ActiveUsers
<1>1. ASSUME NEW u \in Users, Registration(u) PROVE FALSE
  BY <1>0, <1>1, <1>a DEF Registration, Start, RegCardReceived, RegWeightBootstrap, RegWeightNotify,
                          ShouldBootstrap
<1>2. ASSUME NEW a \in Users, AdminAct(a) PROVE FALSE
  <2>1. CASE PendingEntry(a) \/ MembersEntry(a)
    BY <1>0, <1>a, <2>1 DEF PendingEntry, MembersEntry
  <2>2. CASE MenuBack(a) \/ EditReceived(a)
    BY <1>0, <2>2 DEF MenuBack, EditReceived
  <2>3. ASSUME NEW t \in Users,
               ApproveMember(a, t) \/ RejectMember(a, t) \/ Pressed(a, t)
        PROVE  FALSE
    BY <1>0, <2>3 DEF ApproveMember, RejectMember, MayDecide, Pressed
  <2> QED
    BY <1>2, <2>1, <2>2, <2>3 DEF AdminAct, MenuEdit, MenuMakeAdmin, MenuUnadmin, MenuRemove
<1>3. ASSUME NEW u \in Users, Cancel(u) PROVE FALSE
  BY <1>0, <1>3 DEF Cancel
<1>4. CASE Restart
  BY <1>0, <1>4 DEF Restart
<1>5. CASE UNCHANGED vars
  BY <1>0, <1>5 DEF vars
<1> QED
  BY <1>1, <1>2, <1>3, <1>4, <1>5 DEF Next

\* Member lists name active members only.
LEMMA SeenStep ==
  ASSUME MembershipInv, [Next]_vars, [RolesNext]_roleVars
  PROVE  SeenAdmitted'
<1> SUFFICES ASSUME NEW b \in Users, NEW t \in seen'[b]
             PROVE  status'[t] \in {"active", "removed"}
  BY DEF SeenAdmitted
<1> USE DEF MembershipInv, TypeOK
<1>1. seen' = seen \/ \E a \in Users : seen' = [seen EXCEPT ![a] = @ \cup ActiveUsers]
  BY DEF Next, vars, Registration, AdminAct, Start, RegCardReceived, RegWeightBootstrap,
         RegWeightNotify, PendingEntry, MembersEntry, MenuBack, EditReceived, ApproveMember,
         RejectMember, MenuEdit, MenuMakeAdmin, MenuUnadmin, MenuRemove, Cancel, Restart
<1>2. t \in seen[b] \/ t \in ActiveUsers
  BY <1>1
<1>3. t \in Users /\ status[t] \in {"active", "removed"}
  BY <1>2 DEF SeenAdmitted, ActiveUsers
<1> QED
  BY <1>3, DecidedStays

LEMMA RegStep ==
  ASSUME MembershipInv, [Next]_vars
  PROVE  RegHasRow'
<1> USE DEF MembershipInv, TypeOK, RolesTypeOK, RegHasRow
<1>1. ASSUME NEW u \in Users, Registration(u) PROVE RegHasRow'
  BY <1>1 DEF Registration, Start, RegCardReceived, RegWeightBootstrap, RegWeightNotify, ActivateUser
<1>2. ASSUME NEW a \in Users, AdminAct(a) PROVE RegHasRow'
  BY <1>2 DEF AdminAct, PendingEntry, MembersEntry, MenuBack, EditReceived, ApproveMember,
              RejectMember, MenuEdit, MenuMakeAdmin, MenuUnadmin, MenuRemove, ActivateUser
<1>3. CASE Restart \/ (\E u \in Users : Cancel(u)) \/ UNCHANGED vars
  BY <1>3 DEF Cancel, Restart, vars
<1> QED
  BY <1>1, <1>2, <1>3 DEF Next

LEMMA MembershipInvStep == MembershipInv /\ [Next]_vars => MembershipInv'
<1> SUFFICES ASSUME MembershipInv, [Next]_vars PROVE MembershipInv'
  OBVIOUS
<1>1. [RolesNext]_roleVars
  BY HandlersFollowRoles
<1>2. RolesInv' /\ (AnyAdmin => AnyAdmin')
  BY <1>1, RolesInvStep, AnyAdminStays DEF MembershipInv
<1>3. TypeOK'
  BY MembershipTypeStep DEF MembershipInv
<1>4. ButtonsNeedAdmin'
  BY <1>2, ButtonsStep
<1>5. SeenAdmitted' /\ RegHasRow'
  BY <1>1, SeenStep, RegStep
<1> QED
  BY <1>2, <1>3, <1>4, <1>5 DEF MembershipInv

-----------------------------------------------------------------------------
\* The tables keep the rules of Roles, a button shows that there has been an admin
\* and that the person it names was admitted, and only people with a row register.
THEOREM MembershipInvariant == Spec => []MembershipInv
<1>1. Init => MembershipInv
  BY MembershipInvInit
<1>2. MembershipInv /\ [Next]_vars => MembershipInv'
  BY MembershipInvStep
<1> QED
  BY <1>1, <1>2, PTL DEF Spec

\* Tables, conversations and buttons keep their types.
THEOREM MembershipTypeCorrect == Spec => []TypeOK
BY MembershipInvariant, PTL DEF MembershipInv

\* The handlers keep to the rules of Roles.
THEOREM MembershipImplementsRoles == Spec => ImplementsRoles
<1>1. Init => RolesInit
  BY DEF Init
<1>2. MembershipInv /\ [Next]_vars => [RolesNext]_roleVars
  BY HandlersFollowRoles
<1> QED
  BY <1>1, <1>2, MembershipInvariant, PTL DEF Spec, ImplementsRoles, RolesSpec

\* So there is an active admin once there was an admin, however the menus of
\* several admins interleave.
THEOREM AnActiveAdminRemains == Spec => []ActiveAdminExists
BY MembershipImplementsRoles, RolesKeepAnAdmin DEF ImplementsRoles

\* Approving a request never downgrades an admin.
THEOREM NoPendingAdmin == Spec => []PendingIsNoAdmin
BY MembershipImplementsRoles, RolesPendingIsNoAdmin DEF ImplementsRoles

\* And nobody who was removed gets back in, whatever they had open and whatever
\* buttons about them are still around.
THEOREM RemovedMembersStayOut == Spec => RemovedStaysOut
BY MembershipImplementsRoles, RolesRemovedStaysOut DEF ImplementsRoles
=============================================================================
