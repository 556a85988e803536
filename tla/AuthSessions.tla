---------------------------- MODULE AuthSessions ----------------------------
(***************************************************************************)
(* AuthService of the back end: login, refresh and logout over the         *)
(* UserSession table.  A refresh token is a signed JWT and at the same     *)
(* time the key of its session row; refresh reads the row, signs a new     *)
(* pair of tokens and then writes the row by id, and any other call may    *)
(* run between these steps.  Access tokens are never looked up in a table. *)
(* The permissions of the role are read by login and copied by refresh,    *)
(* while the seed may be adding to them.                                   *)
(***************************************************************************)
EXTENDS Naturals, FiniteSets

CONSTANTS
    Handlers,   \* HTTP calls that can be in flight at the same time
    Accounts,   \* pairs of a user and a tenant a login can name
    Members,    \* the accounts with a TenantUser row; nothing changes them
    Sessions,   \* ids of UserSession rows
    Tokens,     \* refresh tokens that can be signed (bound on jti values)
    Permissions,\* the keys the seed gives the owner role
    RefreshTtl, \* "30d"
    MaxTime,    \* bound on the clock
    Faults,     \* TRUE when an await may throw (error, crash, restart)
    None        \* null

ASSUME AccountsAssumption == Members \subseteq Accounts
ASSUME ClockAssumption == RefreshTtl \in Nat /\ MaxTime \in Nat
ASSUME FaultsAssumption == Faults \in BOOLEAN
ASSUME NoneAssumption ==
    None \notin Accounts \cup Sessions \cup Tokens \cup (Sessions \X Tokens)

VARIABLES
    session,    \* table UserSession
    granted,    \* table RolePermission: the permissions of the members' role
    claims,     \* what is signed into each refresh token
    now,        \* the clock
    call,       \* what each handler is doing
    held,       \* the refresh tokens clients have been answered
    spent,      \* history: tokens a committed rotation has replaced
    lost        \* history: tokens a failed call signed and never answered

vars == <<session, granted, claims, now, call, held, spent, lost>>

Row == [account : Accounts \cup {None}, token : Tokens \cup {None},
        expiresAt : Nat, revoked : BOOLEAN]
NoRow == [account |-> None, token |-> None, expiresAt |-> 0, revoked |-> FALSE]

\* The payload of a refresh token; from is history, the token presented for it.
Claims == [account : Accounts \cup {None}, rights : SUBSET Permissions, exp : Nat,
           from : Tokens \cup {None}]
Unsigned == [account |-> None, rights |-> {}, exp |-> 0, from |-> None]

Pc == {"idle", "credentials", "find", "sign", "create", "update", "answer"}
Call == [op : {"none", "login", "refresh"}, pc : Pc,
         account : Accounts \cup {None}, \* of the login, or of the payload
         rights : SUBSET Permissions,    \* of the role, or of the payload
         token : Tokens \cup {None},     \* the token presented
         session : Sessions \cup {None}, \* the row refresh found
         fresh : Tokens \cup {None},     \* the token signed for the answer
         dead : BOOLEAN]                 \* history: token was dead on arrival
Idle == [op |-> "none", pc |-> "idle", account |-> None, rights |-> {}, token |-> None,
         session |-> None, fresh |-> None, dead |-> FALSE]

Goto(h, pc) == call' = [call EXCEPT ![h].pc = pc]
Answer(h) == call' = [call EXCEPT ![h] = Idle]

\* Replaced by a rotation, or of a session that was logged out.
Dead(t) ==
    \/ t \in spent
    \/ \E s \in Sessions : session[s].token = t /\ session[s].revoked

----------------------------------------------------------------------------
\* login

CallLogin(h) ==
    /\ call[h].pc = "idle"
    /\ \E a \in Accounts : call' = [call EXCEPT ![h] =
         [Idle EXCEPT !.op = "login", !.pc = "credentials", !.account = a]]
    /\ UNCHANGED <<session, granted, claims, now, held, spent, lost>>

\* Mutant of Authenticate: the membership is not looked up.
AuthenticateAnyone(h) ==
    /\ call[h].pc = "credentials"
    /\ Goto(h, "sign")
    /\ UNCHANGED <<session, granted, claims, now, held, spent, lost>>

\* The user, the password and the membership; 401 unless all three are right.
\* The membership is read with the permissions of its role.
Authenticate(h) ==
    /\ call[h].pc = "credentials"
    /\ \/ /\ call[h].account \in Members
          /\ call' = [call EXCEPT ![h].pc = "sign", ![h].rights = granted]
       \/ Answer(h)
    /\ UNCHANGED <<session, granted, claims, now, held, spent, lost>>

CreateSession(h) ==
    /\ call[h].pc = "create"
    /\ \E s \in Sessions :
        /\ session[s] = NoRow
        /\ session' = [session EXCEPT ![s] =
             [account |-> call[h].account, token |-> call[h].fresh,
              expiresAt |-> now + RefreshTtl, revoked |-> FALSE]]
    /\ Goto(h, "answer")
    /\ UNCHANGED <<granted, claims, now, held, spent, lost>>

----------------------------------------------------------------------------
\* refresh

\* The call arrives and verifyAsync accepts the token; an expired one is 401.
CallRefresh(h) ==
    /\ call[h].pc = "idle"
    /\ \E t \in held :
        /\ now < claims[t].exp
        /\ call' = [call EXCEPT ![h] =
             [Idle EXCEPT !.op = "refresh", !.pc = "find", !.token = t,
                          !.account = claims[t].account, !.rights = claims[t].rights,
                          !.dead = Dead(t)]]
    /\ UNCHANGED <<session, granted, claims, now, held, spent, lost>>

\* Mutant of Usable: the revocation is not looked at.
UsableThoughRevoked(s, t) == session[s].token = t /\ session[s].expiresAt >= now

\* findUnique by token returns this row and none of the three refusals applies.
Usable(s, t) ==
    /\ session[s].token = t
    /\ ~session[s].revoked
    /\ session[s].expiresAt >= now

FindSession(h) ==
    /\ call[h].pc = "find"
    /\ \/ \E s \in Sessions :
            /\ Usable(s, call[h].token)
            /\ call' = [call EXCEPT ![h].pc = "sign", ![h].session = s]
       \/ /\ \A s \in Sessions : ~Usable(s, call[h].token)
          /\ Answer(h)                                                \* 401
    /\ UNCHANGED <<session, granted, claims, now, held, spent, lost>>

\* Both tokens are signed, in login and in refresh alike: the claims are
\* those login read or the old token carried, the jti is a randomUUID no token had before.
Sign(h) ==
    /\ call[h].pc = "sign"
    /\ \E t \in Tokens :
        /\ claims[t] = Unsigned
        /\ claims' = [claims EXCEPT ![t] =
             [account |-> call[h].account, rights |-> call[h].rights,
              exp |-> now + RefreshTtl, from |-> call[h].token]]
        /\ call' = [call EXCEPT ![h].fresh = t,
                        ![h].pc = IF call[h].op = "login" THEN "create" ELSE "update"]
    /\ UNCHANGED <<session, granted, now, held, spent, lost>>

\* Mutant of Rotated: the expiry is left.
RotatedKeepingExpiry(h) == [session[call[h].session] EXCEPT !.token = call[h].fresh]

\* The row update({id}) writes: revokedAt is neither checked nor touched.
Rotated(h) == [session[call[h].session] EXCEPT !.token = call[h].fresh,
                                               !.expiresAt = now + RefreshTtl]

UpdateSession(h) ==
    /\ call[h].pc = "update"
    /\ session' = [session EXCEPT ![call[h].session] = Rotated(h)]
    /\ spent' = spent \cup {session[call[h].session].token}
    /\ Goto(h, "answer")
    /\ UNCHANGED <<granted, claims, now, held, lost>>

\* Mutants of Answered: the client is answered the token it presented, a
\* login none at all.
AnsweredPresentedAlways(h) == call[h].token
AnsweredPresented(h) == IF call[h].op = "refresh" THEN call[h].token ELSE call[h].fresh

\* The refresh token in the body of the answer.
Answered(h) == call[h].fresh

Reply(h) ==
    /\ call[h].pc = "answer"
    /\ held' = held \cup {Answered(h)}
    /\ Answer(h)
    /\ UNCHANGED <<session, granted, claims, now, spent, lost>>

----------------------------------------------------------------------------
\* logout, failures, time

\* updateMany({refreshToken, revokedAt: null}) is the whole of logout, so it
\* is one step.  A token no row carries changes nothing and is answered 200.
Logout(h) ==
    /\ call[h].pc = "idle"
    /\ \E t \in held :
        session' = [s \in Sessions |->
            IF session[s].token = t THEN [session[s] EXCEPT !.revoked = TRUE] ELSE session[s]]
    /\ UNCHANGED <<granted, claims, now, call, held, spent, lost>>

\* The await rejects or the process stops; what was written stays.
Fail(h) ==
    /\ Faults /\ call[h].pc # "idle"
    /\ lost' = lost \cup ({call[h].fresh} \ {None})
    /\ Answer(h)
    /\ UNCHANGED <<session, granted, claims, now, held, spent>>

Tick ==
    /\ now < MaxTime
    /\ now' = now + 1
    /\ UNCHANGED <<session, granted, claims, call, held, spent, lost>>

\* The seed runs beside the API and gives the role one permission after the
\* other, by upserts.  Nothing takes one away.
Seed ==
    /\ \E p \in Permissions \ granted : granted' = granted \cup {p}
    /\ UNCHANGED <<session, claims, now, call, held, spent, lost>>

Init ==
    /\ session = [s \in Sessions |-> NoRow]
    /\ granted = {}
    /\ claims = [t \in Tokens |-> Unsigned]
    /\ now = 0
    /\ call = [h \in Handlers |-> Idle]
    /\ held = {} /\ spent = {} /\ lost = {}

Next ==
    \/ \E h \in Handlers :
        \/ CallLogin(h) \/ Authenticate(h) \/ CreateSession(h)
        \/ CallRefresh(h) \/ FindSession(h) \/ Sign(h) \/ UpdateSession(h)
        \/ Reply(h) \/ Logout(h) \/ Fail(h)
    \/ Tick \/ Seed

Spec == Init /\ [][Next]_vars

----------------------------------------------------------------------------
\* Properties

TypeOK ==
    /\ session \in [Sessions -> Row]
    /\ granted \subseteq Permissions
    /\ claims \in [Tokens -> Claims]
    /\ now \in Nat
    /\ call \in [Handlers -> Call]
    /\ held \subseteq Tokens /\ spent \subseteq Tokens /\ lost \subseteq Tokens

\* A refresh token that was already replaced, or whose session was logged
\* out, when the call arrived is refused, whatever refreshes are in flight.
DeadTokenRefused ==
    \A h \in Handlers : call[h].dead => call[h].pc \in {"idle", "find"}

\* A session and its token speak of the same member and the row outlives the
\* token, although the two expiries are read off the clock apart; no two
\* sessions carry one token; and a token never claims what the role does not
\* have, however old the claims are that refresh copies.
SessionIdentity ==
    /\ \A s \in Sessions : session[s].token # None =>
         LET c == claims[session[s].token] IN
         /\ session[s].account = c.account /\ c.account \in Members
         /\ c.exp <= session[s].expiresAt
    /\ \A s, r \in Sessions :
         session[s].token = session[r].token /\ session[s].token # None => s = r
    /\ \A t \in Tokens : claims[t].rights \subseteq granted

\* The token of a live session is in a client's hands, or in the answer of a
\* call still running, or was lost with a call that failed.
SessionReachable ==
    \A s \in Sessions : session[s].token # None =>
        \/ session[s].token \in held \cup lost
        \/ \E h \in Handlers : call[h].pc = "answer" /\ call[h].fresh = session[s].token

\* Every refresh token buys at most one new pair of tokens (rotation
\* invalidates the old one).
SingleUse ==
    \A t, u \in held :
        t # u /\ claims[t].from # None => claims[t].from # claims[u].from

\* The module keeps the promise of SessionLedger, with calls interleaved and
\* dying at any await: a refresh past FindSession holds a grant, and one that
\* found its session before a logout rewrites the row but never revives it.
Live(s) == session[s].token # None
Committed == spent \cup {session[s].token : s \in {r \in Sessions : Live(r)}}
Currents == [s \in Sessions |-> session[s].token]
Revoked == {s \in Sessions : session[s].revoked}
Granted(h) == call[h].op = "refresh" /\ call[h].pc \in {"sign", "update"}
Grants == [h \in Handlers |->
    IF Granted(h) THEN <<call[h].session, call[h].token>> ELSE None]
Exchanged == {<<claims[t].from, t>> : t \in {u \in Committed : claims[u].from # None}}
Ledger == INSTANCE SessionLedger WITH Calls <- Handlers, current <- Currents,
    revoked <- Revoked, grants <- Grants, exchanged <- Exchanged, used <- Committed
ImplementsLedger == Ledger!Spec
=============================================================================
