-------------------------------- MODULE Access --------------------------------
(***************************************************************************)
(* The team of a workspace behind its sessions: every operation of         *)
(* Membership is a request whose token was resolved to an account first,   *)
(* in a transaction before its own.  A session may end, and the account's  *)
(* role may change, between the two.                                       *)
(***************************************************************************)
EXTENDS Sessions, Membership

\* An account of the platform goes by its address.
ASSUME AddressAssumption == Addresses = Clients

vars == <<sessionVars, teamVars>>

TypeOK == SessionTypeOK /\ TeamTypeOK

\* A founder has registered, and nobody else.
Init ==
    /\ TeamInit
    /\ \E p \in People :
          SessionInit([realm \in Realms |-> [a \in Addresses |->
                          IF realm = Platform /\ a \in owners THEN p ELSE None]])

\* A request of the platform is one operation of the team, as its account.
TeamAct(r) ==
    LET actor == request[r].address
    IN  /\ request[r].realm = Platform
        /\ \/ AcceptInvitation(actor)
           \/ \E c \in Clients : RemoveMember(actor, c)
           \/ \E c \in Clients, role \in Roles :
                 CreateInvitation(actor, c, role) \/ ChangeRole(actor, c, role)

\* What is refused, and what an application's user does, leaves the team as it is.
Perform(r) == Act(r) /\ (TeamAct(r) \/ UNCHANGED teamVars)

RunsOut == (\E c \in Clients : Expire(c)) /\ UNCHANGED sessionVars

Next ==
    \/ \E r \in Requests : Perform(r)
    \/ SessionNext /\ UNCHANGED teamVars
    \/ RunsOut

Spec == Init /\ [][Next]_vars
=============================================================================
