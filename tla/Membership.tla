------------------------------ MODULE Membership ------------------------------
(***************************************************************************)
(* The team of a workspace: an owner invites by e-mail, whoever holds the  *)
(* account of that address accepts, and owners change roles and remove     *)
(* members, themselves included.  Each operation is one transaction.       *)
(***************************************************************************)
EXTENDS Naturals, FiniteSets

CONSTANT Clients         \* the accounts, each with an address of its own

VARIABLES roles,         \* the role of each account in the workspace
          invitation     \* the open invitation of each address, by its role

teamVars == <<roles, invitation>>

Roles == {"owner", "member"}

TeamTypeOK == /\ roles \in [Clients -> Roles \cup {"none"}]
              /\ invitation \in [Clients -> Roles \cup {"none"}]

members == {c \in Clients : roles[c] # "none"}
owners  == {c \in Clients : roles[c] = "owner"}

-----------------------------------------------------------------------------

\* Whoever registers owns the workspace that is made for them.
TeamInit ==
    /\ \E c \in Clients : roles = [d \in Clients |-> IF d = c THEN "owner" ELSE "none"]
    /\ invitation = [c \in Clients |-> "none"]

\* Owners invite; an invitation replaces the open one of the same address.
CreateInvitation(actor, c, role) ==
    /\ actor \in owners
    /\ invitation' = [invitation EXCEPT ![c] = role]
    /\ UNCHANGED roles

Expire(c) ==
    /\ invitation[c] # "none"
    /\ invitation' = [invitation EXCEPT ![c] = "none"]
    /\ UNCHANGED roles

\* A member who accepts keeps the role they have.
AcceptInvitation(c) ==
    /\ invitation[c] # "none"
    /\ roles' = [roles EXCEPT ![c] = IF @ = "none" THEN invitation[c] ELSE @]
    /\ invitation' = [invitation EXCEPT ![c] = "none"]

SomeOwner(c) == owners # {}
OtherOwner(c) == roles[c] = "owner" => Cardinality(owners) > 1

ChangeRole(actor, c, role) ==
    /\ actor \in owners /\ c \in members
    /\ role = "member" => OtherOwner(c)
    /\ roles' = [roles EXCEPT ![c] = role]
    /\ UNCHANGED invitation

RemoveMember(actor, c) ==
    /\ actor \in owners /\ c \in members
    /\ OtherOwner(c)
    /\ roles' = [roles EXCEPT ![c] = "none"]
    /\ UNCHANGED invitation

TeamNext ==
    \/ \E actor, c \in Clients, role \in Roles :
        \/ CreateInvitation(actor, c, role)
        \/ ChangeRole(actor, c, role)
    \/ \E actor, c \in Clients : RemoveMember(actor, c)
    \/ \E c \in Clients : Expire(c) \/ AcceptInvitation(c)

TeamSpec == TeamInit /\ [][TeamNext]_teamVars

\* A workspace always has an owner, whoever removes or demotes whom, themselves
\* included, in whatever order their requests arrive (ChangeRole, RemoveMember).
OwnerRemains == owners # {}
=============================================================================
