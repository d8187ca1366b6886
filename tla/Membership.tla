----------------------------- MODULE Membership -----------------------------
(***************************************************************************)
(* Registration, approval and the admin's member menu, as the handlers run *)
(* them: one update at a time, but updates of different people interleave, *)
(* and every inline button stays in the chat and can be pressed later.     *)
(*                                                                         *)
(* A handler commits its database change before it answers, and an answer  *)
(* may fail (TimedOut); then the conversation stays where it was although  *)
(* the change is in the database.  `ok` says whether the answer got out.   *)
(* A restart loses the conversations and keeps the tables and the buttons. *)
(*                                                                         *)
(* Left out: weight and card number (data no rule of membership reads),    *)
(* the user's name, and inputs that are asked for again.                   *)
(***************************************************************************)
EXTENDS Roles

VARIABLES reg,       \* registration_conv's state for each user
          menu,      \* members_conv's state: "AWAIT" is either AWAIT state
          seen,      \* whose buttons have appeared on a's member lists
          prompts    \* whose approve/reject buttons a has been sent

convVars == <<reg, menu>>
vars == <<status, isAdmin, reg, menu, seen, prompts>>

TypeOK ==
    /\ RolesTypeOK
    /\ reg \in [Users -> {"END", "REG_CARD", "REG_WEIGHT"}]
    /\ menu \in [Users -> {"END", "MENU", "AWAIT"}]
    /\ seen \in [Users -> SUBSET Users]
    /\ prompts \in [Users -> SUBSET Users]

Init == /\ RolesInit
        /\ reg = [u \in Users |-> "END"] /\ menu = [u \in Users |-> "END"]
        /\ seen = [u \in Users |-> {}] /\ prompts = [u \in Users |-> {}]

-----------------------------------------------------------------------------
(* registration.py *)

\* Mutant: who was removed can register again.
StartAgain(u, ok) ==
    /\ reg[u] = "END" /\ status[u] \in {"none", "removed"}
    /\ status' = [status EXCEPT ![u] = "pending"]
    /\ reg' = [reg EXCEPT ![u] = IF ok THEN "REG_CARD" ELSE "END"]
    /\ UNCHANGED <<isAdmin, menu, seen, prompts>>

\* start_command for somebody new; for anybody else it only answers.
Start(u, ok) ==
    /\ reg[u] = "END" /\ status[u] = "none"
    /\ status' = [status EXCEPT ![u] = "pending"]
    /\ reg' = [reg EXCEPT ![u] = IF ok THEN "REG_CARD" ELSE "END"]
    /\ UNCHANGED <<isAdmin, menu, seen, prompts>>

RegCardReceived(u) ==
    /\ reg[u] = "REG_CARD"
    /\ reg' = [reg EXCEPT ![u] = "REG_WEIGHT"]
    /\ UNCHANGED <<status, isAdmin, menu, seen, prompts>>

\* activate_user: is_admin becomes what the caller says, whatever it was
ActivateUser(u, asAdmin) == /\ status' = [status EXCEPT ![u] = "active"]
                            /\ isAdmin' = [isAdmin EXCEPT ![u] = asAdmin]

ShouldBootstrap(u) == ~AnyAdmin \/ u \in InitialAdmins

\* reg_weight_received, the first admin or a configured one: active at once.
RegWeightBootstrap(u, ok) ==
    /\ reg[u] = "REG_WEIGHT"
    /\ ShouldBootstrap(u)
    /\ ActivateUser(u, TRUE)
    /\ reg' = [reg EXCEPT ![u] = IF ok THEN "END" ELSE @]
    /\ UNCHANGED <<menu, seen, prompts>>

\* reg_weight_received, anybody else: the admins it can reach get the buttons.
RegWeightNotify(u, reached) ==
    /\ reg[u] = "REG_WEIGHT"
    /\ ~ShouldBootstrap(u)
    /\ reached \subseteq ActiveAdmins
    /\ reg' = [reg EXCEPT ![u] = "END"]
    /\ prompts' = [a \in Users |-> IF a \in reached THEN prompts[a] \cup {u} ELSE prompts[a]]
    /\ UNCHANGED <<status, isAdmin, menu, seen>>

\* Mutant: a request that has been decided can be decided again.
MayDecideAgain(a, u) == u \in prompts[a] /\ isAdmin[a]

\* approval_callback: the presser needs the flag, not to be active.
MayDecide(a, u) == u \in prompts[a] /\ isAdmin[a] /\ status[u] = "pending"

ApproveMember(a, u) ==
    /\ MayDecide(a, u)
    /\ ActivateUser(u, FALSE)
    /\ UNCHANGED <<reg, menu, seen, prompts>>

\* Mutant: a status no other query knows.
RejectMemberAsRejected(a, u) ==
    /\ MayDecide(a, u)
    /\ status' = [status EXCEPT ![u] = "rejected"]
    /\ UNCHANGED <<isAdmin, reg, menu, seen, prompts>>

RejectMember(a, u) ==
    /\ MayDecide(a, u)
    /\ status' = [status EXCEPT ![u] = "removed"]
    /\ UNCHANGED <<isAdmin, reg, menu, seen, prompts>>

-----------------------------------------------------------------------------
(* members.py *)

\* pending_entry: a command would first cancel a's conversation, and a text is
\* swallowed by a conversation that waits for one.
PendingEntry(a) ==
    /\ reg[a] = "END" /\ menu[a] # "AWAIT"
    /\ a \in ActiveAdmins
    /\ prompts' = [prompts EXCEPT ![a] = @ \cup { u \in Users : status[u] = "pending" }]
    /\ UNCHANGED <<status, isAdmin, reg, menu, seen>>

\* members_entry, as entry point or as fallback of the open menu.
MembersEntry(a) ==
    /\ reg[a] = "END"
    /\ IF a \in ActiveAdmins
       THEN /\ menu' = [menu EXCEPT ![a] = "MENU"]
            /\ seen' = [seen EXCEPT ![a] = @ \cup ActiveUsers]
       ELSE /\ menu' = [menu EXCEPT ![a] = "END"]
            /\ UNCHANGED seen
    /\ UNCHANGED <<status, isAdmin, reg, prompts>>

\* "memedit_back" lists the active members again.  Opening a member only
\* redraws a message, so that any button on t is at most two presses away for
\* whoever has seen t listed.
MenuBack(a) ==
    /\ menu[a] = "MENU"
    /\ seen' = [seen EXCEPT ![a] = @ \cup ActiveUsers]
    /\ UNCHANGED <<status, isAdmin, reg, menu, prompts>>

\* A press on t's buttons: nothing asks again whether a is still an admin.
Pressed(a, t) == menu[a] = "MENU" /\ t \in seen[a]

MenuEdit(a, t) ==
    /\ Pressed(a, t)
    /\ menu' = [menu EXCEPT ![a] = "AWAIT"]
    /\ UNCHANGED <<status, isAdmin, reg, seen, prompts>>

\* weight_received, card_received
EditReceived(a) ==
    /\ reg[a] = "END" /\ menu[a] = "AWAIT"
    /\ menu' = [menu EXCEPT ![a] = "MENU"]
    /\ UNCHANGED <<status, isAdmin, reg, seen, prompts>>

\* Mutant: off by one.
NoAdmin == Cardinality(ActiveAdmins) < 1

\* len(list_admins()) <= 1
LastAdmin == Cardinality(ActiveAdmins) <= 1

MenuMakeAdmin(a, t) ==
    /\ Pressed(a, t)
    /\ isAdmin' = [isAdmin EXCEPT ![t] = TRUE]
    /\ UNCHANGED <<status, reg, menu, seen, prompts>>

MenuUnadmin(a, t) ==
    /\ Pressed(a, t)
    /\ ~LastAdmin
    /\ isAdmin' = [isAdmin EXCEPT ![t] = FALSE]
    /\ UNCHANGED <<status, reg, menu, seen, prompts>>

\* Mutant: the last admin can be removed.
MenuRemoveAnybody(a, t, ok) ==
    /\ Pressed(a, t)
    /\ status' = [status EXCEPT ![t] = "removed"]
    /\ menu' = [menu EXCEPT ![a] = IF ok THEN "END" ELSE @]
    /\ UNCHANGED <<isAdmin, reg, seen, prompts>>

MenuRemove(a, t, ok) ==
    /\ Pressed(a, t)
    /\ isAdmin[t] => ~LastAdmin
    /\ status' = [status EXCEPT ![t] = "removed"]
    /\ menu' = [menu EXCEPT ![a] = IF ok THEN "END" ELSE @]
    /\ UNCHANGED <<isAdmin, reg, seen, prompts>>

-----------------------------------------------------------------------------
\* cancel_conversation, by /cancel or any other command: only the first of the
\* two conversations that is open ends.
Cancel(u) ==
    \/ /\ reg[u] # "END"
       /\ reg' = [reg EXCEPT ![u] = "END"]
       /\ UNCHANGED <<status, isAdmin, menu, seen, prompts>>
    \/ /\ reg[u] = "END" /\ menu[u] # "END"
       /\ menu' = [menu EXCEPT ![u] = "END"]
       /\ UNCHANGED <<status, isAdmin, reg, seen, prompts>>

\* persistent=False: every conversation is forgotten.
Restart == /\ reg' = [u \in Users |-> "END"] /\ menu' = [u \in Users |-> "END"]
           /\ UNCHANGED <<status, isAdmin, seen, prompts>>

Registration(u) ==
    \/ \E ok \in BOOLEAN : Start(u, ok) \/ RegWeightBootstrap(u, ok)
    \/ RegCardReceived(u)
    \/ \E reached \in SUBSET ActiveAdmins : RegWeightNotify(u, reached)

AdminAct(a) ==
    \/ PendingEntry(a) \/ MembersEntry(a) \/ MenuBack(a) \/ EditReceived(a)
    \/ \E t \in Users : \/ ApproveMember(a, t) \/ RejectMember(a, t) \/ MenuEdit(a, t)
                        \/ MenuMakeAdmin(a, t) \/ MenuUnadmin(a, t)
                        \/ \E ok \in BOOLEAN : MenuRemove(a, t, ok)

Next == \/ \E u \in Users : Registration(u) \/ AdminAct(u) \/ Cancel(u)
        \/ Restart

Spec == Init /\ [][Next]_vars

-----------------------------------------------------------------------------
\* The handlers together keep to the rules of Roles, whoever presses what and
\* however old the button is.
ImplementsRoles == RolesSpec

(* What the documents say and the code does not do *)

\* members.py:2: "Admin-only member management".  A menu opened by an admin
\* keeps working after they were demoted or removed.
AdminOnlyMenu ==
    [][\A a, t \in Users :
           \/ MenuMakeAdmin(a, t) \/ MenuUnadmin(a, t) \/ MenuRemove(a, t, TRUE)
           => a \in ActiveAdmins]_vars
=============================================================================
