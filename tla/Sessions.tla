------------------------------- MODULE Sessions -------------------------------
(***************************************************************************)
(* Accounts and sessions: of the platform, and of the users of each        *)
(* application that was provisioned.  People register addresses, log in    *)
(* with their password, and act with the tokens they were given until they *)
(* log out or the session runs out: its row stays, and each use compares   *)
(* its expiry with the clock, which may be any two times.  A handler's     *)
(* statements are separate transactions, and its request may be lost       *)
(* between any two of them or before its answer arrives.  A request is     *)
(* here from its first statement.                                          *)
(***************************************************************************)
EXTENDS TextTime

CONSTANTS Addresses,     \* each of at most one account per realm
          People,        \* whoever sends requests; each has a password of their own
          Tokens,        \* random, and so never given twice
          Requests,
          Apps,          \* the applications
          None

ASSUME NoneAssumption == None \notin People \cup Addresses \cup Tokens

VARIABLES holder,        \* per realm and address, whose password the account has
          session,       \* the row of each token
          knows,         \* who was told a token
          out,           \* the tokens whose log-out, where they are from, was answered
          request        \* where each request is

sessionVars == <<holder, session, knows, out, request>>

Platform == "platform"
Realms   == {Platform} \cup Apps

NoSession == [state |-> "unused", realm |-> Platform, address |-> None]
Session   == [state: {"unused", "live", "over"}, realm: Realms, address: Addresses \cup {None}]

\* A request acts as an address once it is admitted.  It is late when it came after the
\* answer to its token's log-out, and overdue when the second its session ended in was over.
Idle    == [at |-> "idle", person |-> None, realm |-> Platform, address |-> None,
            token |-> None, late |-> FALSE, overdue |-> FALSE]
Request == [at: {"idle", "insert", "issue", "act", "delete"},
            person: People \cup {None}, realm: Realms, address: Addresses \cup {None},
            token: Tokens \cup {None}, late: BOOLEAN, overdue: BOOLEAN]

SessionTypeOK ==
    /\ holder \in [Realms -> [Addresses -> People \cup {None}]]
    /\ session \in [Tokens -> Session]
    /\ knows \in [Tokens -> People \cup {None}]
    /\ out \subseteq Tokens
    /\ request \in [Requests -> Request]

SessionInit(registered) ==
    /\ holder = registered
    /\ session = [t \in Tokens |-> NoSession]
    /\ knows = [t \in Tokens |-> None]
    /\ out = {}
    /\ request = [r \in Requests |-> Idle]

At(r, at) == request[r].at = at
Done(r) == request' = [request EXCEPT ![r] = Idle]

Admit(r, at, p, realm, a, t, overdue) ==
    request' = [request EXCEPT ![r] = [at |-> at, person |-> p, realm |-> realm,
                                       address |-> a, token |-> t,
                                       late |-> t \in out, overdue |-> overdue]]
Goto(r, at, p, realm, a) == Admit(r, at, p, realm, a, None, FALSE)

-----------------------------------------------------------------------------
(* Accounts.                                                               *)

Inserted(p, realm, a) == holder' = [holder EXCEPT ![realm][a] = p]

\* The address of an account is unique in its realm.
TakenNever(realm, a) == FALSE
Taken(realm, a) == holder[realm][a] # None

Register(r, p, a) ==
    /\ At(r, "idle") /\ ~Taken(Platform, a)
    /\ Inserted(p, Platform, a)
    /\ Goto(r, "issue", p, Platform, a)
    /\ UNCHANGED <<session, knows, out>>

\* An application looks for the address first.
Look(r, p, app, a) ==
    /\ At(r, "idle") /\ holder[app][a] = None
    /\ Goto(r, "insert", p, app, a)
    /\ UNCHANGED <<holder, session, knows, out>>

Insert(r) ==
    /\ At(r, "insert")
    /\ LET q == request[r]
       IN  IF Taken(q.realm, q.address) THEN Done(r) /\ UNCHANGED holder
           ELSE /\ Inserted(q.person, q.realm, q.address)
                /\ Goto(r, "issue", q.person, q.realm, q.address)
    /\ UNCHANGED <<session, knows, out>>

-----------------------------------------------------------------------------
(* Sessions.                                                               *)

Login(r, p, realm, a) ==
    /\ At(r, "idle") /\ holder[realm][a] = p
    /\ Goto(r, "issue", p, realm, a)
    /\ UNCHANGED <<holder, session, knows, out>>

\* The session is stored, and the answer with its token arrives or not.
Issue(r) ==
    /\ At(r, "issue")
    /\ \E t \in Tokens :
        /\ session[t] = NoSession
        /\ session' = [session EXCEPT ![t] = [state |-> "live", realm |-> request[r].realm,
                                               address |-> request[r].address]]
        /\ knows' \in {knows, [knows EXCEPT ![t] = request[r].person]}
    /\ Done(r)
    /\ UNCHANGED <<holder, out>>

Admits(realm, t) == session[t].state = "live" /\ session[t].realm = realm

\* What a use that finds its session valid can be: at any time now, with any expiry.
Overdue == {SecondsOf(q[1]) > SecondsOf(q[2]) : q \in {q \in Times \X Times : Lasts(q[1], q[2])}}

\* A token is resolved to an account, to act or to log out.
Resolve(r, p, realm, t) ==
    /\ At(r, "idle") /\ knows[t] = p /\ Admits(realm, t)
    /\ \E overdue \in Overdue, at \in {"act", "delete"} :
          /\ at = "delete" => realm = Platform
          /\ Admit(r, at, p, realm, session[t].address, t, overdue)
    /\ UNCHANGED <<holder, session, knows, out>>

\* A row is deleted under its token and, for an application, its project; the answer is
\* the same when there was none.
Deletes(realm, t) == session[t].realm = realm

Deleted(realm, t) ==
    /\ session' = IF Deletes(realm, t) THEN [session EXCEPT ![t].state = "over"] ELSE session
    /\ out' \in {out, IF session[t].realm = realm THEN out \cup {t} ELSE out}

Logout(r) ==
    /\ At(r, "delete")
    /\ Deleted(Platform, request[r].token)
    /\ Done(r)
    /\ UNCHANGED <<holder, knows>>

\* An application does not ask whose token it is.
AppLogout(app, t) ==
    /\ knows[t] # None
    /\ Deleted(app, t)
    /\ UNCHANGED <<holder, knows, request>>

\* The client or the server goes away.
Lose(r) == ~At(r, "idle") /\ Done(r) /\ UNCHANGED <<holder, session, knows, out>>

Act(r) == At(r, "act") /\ Done(r) /\ UNCHANGED <<holder, session, knows, out>>

Arrives(r) ==
    \E p \in People :
        \/ \E a \in Addresses : \/ Register(r, p, a)
                              \/ \E app \in Apps : Look(r, p, app, a)
                              \/ \E realm \in Realms : Login(r, p, realm, a)
        \/ \E realm \in Realms, t \in Tokens : Resolve(r, p, realm, t)

Continues(r) == Insert(r) \/ Issue(r) \/ Logout(r) \/ Lose(r)

SessionNext == \/ \E r \in Requests : Arrives(r) \/ Continues(r)
               \/ \E t \in Tokens, app \in Apps : AppLogout(app, t)

-----------------------------------------------------------------------------

\* Whoever acts as an address in a realm is who registered it there: whatever is sent at
\* the same time, and whatever is lost between an account and its session.
ActsForItself ==
    \A r \in Requests : At(r, "act") => holder[request[r].realm][request[r].address] = request[r].person

\* A request sent after the answer to its token's log-out is not admitted, nor one sent
\* after the second its session ended in, although times are compared as texts.
LoggedOutStaysOut ==
    \A r \in Requests : At(r, "act") => ~request[r].late /\ ~request[r].overdue
=============================================================================
