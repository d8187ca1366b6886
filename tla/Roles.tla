------------------------------- MODULE Roles -------------------------------
(***************************************************************************)
(* What the rest of the bot relies on about membership: the `status` and   *)
(* `is_admin` columns of the users table, and the only ways they change.   *)
(* Who pressed which button, with how old a menu, is left to Membership,   *)
(* which implements this specification; Accounts builds on it.             *)
(***************************************************************************)
EXTENDS Integers, FiniteSets

CONSTANTS Users,          \* everybody who may ever write to the bot
          InitialAdmins   \* config.INITIAL_ADMIN_IDS

ASSUME UsersAssumption == IsFiniteSet(Users) /\ InitialAdmins \subseteq Users

VARIABLES status,    \* "none": no row yet
          isAdmin    \* kept when a member is removed

roleVars == <<status, isAdmin>>

Statuses == {"none", "pending", "active", "removed"}

RolesTypeOK == status \in [Users -> Statuses] /\ isAdmin \in [Users -> BOOLEAN]

ActiveUsers  == { u \in Users : status[u] = "active" }     \* list_active_users
ActiveAdmins == { u \in ActiveUsers : isAdmin[u] }         \* list_admins
AnyAdmin     == \E u \in Users : isAdmin[u]                \* any_admin_exists

RolesInit == /\ status = [u \in Users |-> "none"]
             /\ isAdmin = [u \in Users |-> FALSE]

\* create_pending_user
Join(u) == /\ status[u] = "none"
           /\ status' = [status EXCEPT ![u] = "pending"]
           /\ UNCHANGED isAdmin

\* activate_user(as_admin=True), under the bootstrap rule
Bootstrap(u) == /\ status[u] # "none"
                /\ ~AnyAdmin \/ u \in InitialAdmins
                /\ status' = [status EXCEPT ![u] = "active"]
                /\ isAdmin' = [isAdmin EXCEPT ![u] = TRUE]

\* activate_user(as_admin=False): clears is_admin whatever it was
Approve(u) == /\ AnyAdmin /\ status[u] = "pending"
              /\ status' = [status EXCEPT ![u] = "active"]
              /\ isAdmin' = [isAdmin EXCEPT ![u] = FALSE]

\* reject_user
Reject(u) == /\ AnyAdmin /\ status[u] = "pending"
             /\ status' = [status EXCEPT ![u] = "removed"]
             /\ UNCHANGED isAdmin

\* set_admin(True) and set_admin(False); the target may have been removed since
Promote(u) == /\ AnyAdmin /\ status[u] \in {"active", "removed"}
              /\ isAdmin' = [isAdmin EXCEPT ![u] = TRUE]
              /\ UNCHANGED status

Demote(u) == /\ status[u] \in {"active", "removed"}
             /\ Cardinality(ActiveAdmins) > 1
             /\ isAdmin' = [isAdmin EXCEPT ![u] = FALSE]
             /\ UNCHANGED status

\* remove_user: is_admin stays as it is
RemoveMember(u) ==
    /\ AnyAdmin /\ status[u] \in {"active", "removed"}
    /\ isAdmin[u] => Cardinality(ActiveAdmins) > 1
    /\ status' = [status EXCEPT ![u] = "removed"]
    /\ UNCHANGED isAdmin

RolesNext == \E u \in Users : \/ Join(u) \/ Bootstrap(u) \/ Approve(u) \/ Reject(u)
                              \/ Promote(u) \/ Demote(u) \/ RemoveMember(u)

RolesSpec == RolesInit /\ [][RolesNext]_roleVars

-----------------------------------------------------------------------------
\* Once there has been an admin there is always one who is still a member, so
\* somebody can always approve, promote and confirm (members.py:87-101: both
\* guards count the active admins at the moment the button is pressed).
ActiveAdminExists == AnyAdmin => ActiveAdmins # {}

\* Nobody who was removed or rejected gets back in, unless the configuration
\* names them: reg_weight_received does not look at the status, so this rests
\* on an admin existing ever since the first removal (registration.py:80-86).
RemovedStaysOut ==
    [][\A u \in Users \ InitialAdmins :
           status[u] = "removed" => status'[u] = "removed"]_roleVars

\* Nobody waiting for approval holds the admin flag, which is why the reset of
\* is_admin in activate_user never downgrades an admin, as its comment wants
\* (database.py:222-230).
PendingIsNoAdmin == \A u \in Users : status[u] \in {"none", "pending"} => ~isAdmin[u]
=============================================================================
