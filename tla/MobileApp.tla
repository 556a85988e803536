----------------------------- MODULE MobileApp -----------------------------
(***************************************************************************)
(* The Flutter application: its session, kept in memory by SessionNotifier *)
(* and key by key in a Hive box by SessionRepository, the router that      *)
(* reads it, the pages, and the tenant guard that meets its requests at    *)
(* the back end.  A stored value is named by the login it came with:       *)
(* box.tenant = l is the tenant typed for login l.  The application may be *)
(* stopped between any two writes and started again.                       *)
(***************************************************************************)
CONSTANTS
    Logins,    \* answers of POST /auth/login (bound on their number)
    TenantOf,  \* the tenant each of them is for
    Approvers, \* those whose access token has the permission leave.approve
    Taps,      \* presses of the logout button in flight (bound)
    None       \* null

ASSUME ApproversAssumption == Approvers \subseteq Logins
ASSUME NoneAssumption == None \notin Logins

VARIABLES
    box,     \* the Hive box "eva_session"
    state,   \* the state of SessionNotifier
    page,    \* the page shown; "off" while the application is stopped
    login,   \* _submit of the login page
    logout,  \* the presses of the logout button
    used,    \* the logins already answered
    sent,    \* history: requests sent, with their two headers
    torn,    \* history: which of save and clear were cut between two keys
    crossed  \* history: a save wrote while a logout was still running

vars == <<box, state, page, login, logout, used, sent, torn, crossed>>

Value == Logins \cup {None}
Session == [access : Value, refresh : Value, tenant : Value]
Empty == [access |-> None, refresh |-> None, tenant |-> None]
\* Mutant of SessionOf: the refresh token is not taken over.
SessionOfNoRefresh(l) == [access |-> l, tenant |-> l]

\* What setSession puts into the state.
SessionOf(l) == [access |-> l, refresh |-> l, tenant |-> l]

Pages == {"off", "splash", "login", "home", "leaveRequest", "leaveApprove"}

\* What save and clear do next: the key to write, then the state to set.
Pc == {"idle", "post", "refresh", "tenant", "state"}
LoginCall == [pc : Pc, as : Value]
NoLogin == [pc |-> "idle", as |-> None]

\* isAuthenticated; a stored token or tenant is never the empty string.
Authenticated(s) == s.access # None /\ s.tenant # None

\* Mutant of Redirect: a page is left alone whatever the session.
RedirectNowhere(p, s) == IF Authenticated(s) /\ p = "login" THEN "home" ELSE p

\* The page the router shows for a location and a session.
Redirect(p, s) ==
    IF p # "splash" /\ ~Authenticated(s) THEN "login"
    ELSE IF p = "login" THEN "home" ELSE p

----------------------------------------------------------------------------
\* Requests and the tenant guard of the back end

\* TenantContextGuard: the header must name the tenant of the token.
TenantGuard(r) == r.tenant # None /\ TenantOf[r.tenant] = TenantOf[r.access]

\* A page sends a request: the interceptor puts both headers on, from the
\* state of this moment.
Request(p) ==
    sent' = sent \cup {[page |-> p, access |-> state.access, tenant |-> state.tenant]}

\* The submit buttons of the two leave pages.  What the answer changes is the
\* text on the page; a page left meanwhile ignores it.
CreateLeave ==
    /\ page = "leaveRequest"
    /\ Request(page)
    /\ UNCHANGED <<box, state, page, login, logout, used, torn, crossed>>

ApproveLeave ==
    /\ page = "leaveApprove"
    /\ Request(page)
    /\ UNCHANGED <<box, state, page, login, logout, used, torn, crossed>>

----------------------------------------------------------------------------
\* Start, stop and navigation

\* main opens the box; the notifier takes it over as it is.
Start ==
    /\ page = "off"
    /\ page' = "splash"
    /\ state' = box
    /\ UNCHANGED <<box, login, logout, used, sent, torn, crossed>>

LeaveSplash ==
    /\ page = "splash"
    /\ page' = IF Authenticated(state) THEN "home" ELSE "login"
    /\ UNCHANGED <<box, state, login, logout, used, sent, torn, crossed>>

\* The leave request page asks for the employees when it opens.
PushRequest ==
    /\ page = "home"
    /\ page' = "leaveRequest"
    /\ Request(page')
    /\ UNCHANGED <<box, state, login, logout, used, torn, crossed>>

\* The approval tile is enabled by the permissions read from the token.
PushApprove ==
    /\ page = "home" /\ state.access \in Approvers
    /\ page' = "leaveApprove"
    /\ UNCHANGED <<box, state, login, logout, used, sent, torn, crossed>>

Back ==
    /\ page \in {"leaveRequest", "leaveApprove"}
    /\ page' = "home"
    /\ UNCHANGED <<box, state, login, logout, used, sent, torn, crossed>>

\* Which calls are between the writes of two keys.
Cut(saving, clearing) ==
    (IF saving \in {"refresh", "tenant"} THEN {"save"} ELSE {}) \cup
    (IF clearing \cap {"refresh", "tenant"} # {} THEN {"clear"} ELSE {})

\* The system or the user ends the application; the box stays.
Stop ==
    /\ page # "off"
    /\ page' = "off"
    /\ state' = Empty
    /\ login' = NoLogin
    /\ logout' = [g \in Taps |-> "idle"]
    /\ torn' = torn \cup Cut(login.pc, {logout[g] : g \in Taps})
    /\ UNCHANGED <<box, used, sent, crossed>>

----------------------------------------------------------------------------
\* The login page

\* The button is disabled while _loading.
Submit ==
    /\ page = "login" /\ login.pc = "idle"
    /\ login' = [pc |-> "post", as |-> None]
    /\ UNCHANGED <<box, state, page, logout, used, sent, torn, crossed>>

Running == \E g \in Taps : logout[g] # "idle"

\* put writes one key for the login; next says what is left to do.
Put(key, l, next) ==
    /\ box' = [box EXCEPT ![key] = l]
    /\ login' = [pc |-> next, as |-> l]
    /\ crossed' = (crossed \/ Running)

\* The answer comes with fresh tokens, and save writes the first key.
SaveAccess ==
    /\ login.pc = "post"
    /\ \E l \in Logins \ used :
        /\ Put("access", l, "refresh")
        /\ used' = used \cup {l}
    /\ UNCHANGED <<state, page, logout, sent, torn>>

\* Mutant of SaveRefresh: the tenant is forgotten.
SaveRefreshLast ==
    /\ login.pc = "refresh"
    /\ Put("refresh", login.as, "state")
    /\ UNCHANGED <<state, page, logout, used, sent, torn>>

SaveRefresh ==
    /\ login.pc = "refresh"
    /\ Put("refresh", login.as, "tenant")
    /\ UNCHANGED <<state, page, logout, used, sent, torn>>

SaveTenant ==
    /\ login.pc = "tenant"
    /\ Put("tenant", login.as, "state")
    /\ UNCHANGED <<state, page, logout, used, sent, torn>>

\* setSession sets the state; the router, or go if it is first, shows home.
SetSession ==
    /\ login.pc = "state"
    /\ state' = SessionOf(login.as)
    /\ page' = Redirect(page, state')
    /\ login' = NoLogin
    /\ UNCHANGED <<box, logout, used, sent, torn, crossed>>

\* The request is refused or times out, or a put rejects: an error is shown.
LoginFails ==
    /\ login.pc \in {"post", "refresh", "tenant"}
    /\ login' = NoLogin
    /\ torn' = torn \cup Cut(login.pc, {})
    /\ UNCHANGED <<box, state, page, logout, used, sent, crossed>>

----------------------------------------------------------------------------
\* The logout button of the home page

\* delete removes one key for a press; next says what is left to do.
Delete(g, key, next) ==
    /\ box' = [box EXCEPT ![key] = None]
    /\ logout' = [logout EXCEPT ![g] = next]

\* The button is never disabled: a second press starts a second clear.
ClearAccess(g) ==
    /\ page = "home" /\ logout[g] = "idle"
    /\ Delete(g, "access", "refresh")
    /\ UNCHANGED <<state, page, login, used, sent, torn, crossed>>

ClearRefresh(g) ==
    /\ logout[g] = "refresh"
    /\ Delete(g, "refresh", "tenant")
    /\ UNCHANGED <<state, page, login, used, sent, torn, crossed>>

\* Mutant of ClearTenant: the tenant is kept for the next login.
ClearTenantKept(g) ==
    /\ logout[g] = "tenant"
    /\ logout' = [logout EXCEPT ![g] = "state"]
    /\ UNCHANGED <<box, state, page, login, used, sent, torn, crossed>>

ClearTenant(g) ==
    /\ logout[g] = "tenant"
    /\ Delete(g, "tenant", "state")
    /\ UNCHANGED <<state, page, login, used, sent, torn, crossed>>

ResetState(g) ==
    /\ logout[g] = "state"
    /\ state' = Empty
    /\ page' = Redirect(page, state')
    /\ logout' = [logout EXCEPT ![g] = "idle"]
    /\ UNCHANGED <<box, login, used, sent, torn, crossed>>

\* A delete rejects; the handler ends there and nothing is shown.
LogoutFails(g) ==
    /\ logout[g] \in {"refresh", "tenant"}
    /\ logout' = [logout EXCEPT ![g] = "idle"]
    /\ torn' = torn \cup Cut("idle", {logout[g]})
    /\ UNCHANGED <<box, state, page, login, used, sent, crossed>>

----------------------------------------------------------------------------
Init ==
    /\ box = Empty /\ state = Empty
    /\ page = "off"
    /\ login = NoLogin
    /\ logout = [g \in Taps |-> "idle"]
    /\ used = {} /\ sent = {} /\ torn = {}
    /\ crossed = FALSE

Next ==
    \/ Start \/ LeaveSplash \/ PushRequest \/ PushApprove \/ Back \/ Stop
    \/ CreateLeave \/ ApproveLeave
    \/ Submit \/ SaveAccess \/ SaveRefresh \/ SaveTenant \/ SetSession \/ LoginFails
    \/ \E g \in Taps :
        \/ ClearAccess(g) \/ ClearRefresh(g) \/ ClearTenant(g)
        \/ ResetState(g) \/ LogoutFails(g)

Spec == Init /\ [][Next]_vars

----------------------------------------------------------------------------
\* Properties

TypeOK ==
    /\ box \in Session /\ state \in Session
    /\ page \in Pages
    /\ login \in LoginCall
    /\ logout \in [Taps -> Pc \ {"post"}]
    /\ used \subseteq Logins
    /\ sent \subseteq [page : Pages, access : Value, tenant : Value]
    /\ torn \subseteq {"save", "clear"}
    /\ crossed \in BOOLEAN

\* Whatever logins and logouts are running, and after any stop, the pages
\* behind the login are shown with a session, and the approval page with the
\* permission: the router's redirect, and the tile of the home page.
PageGuarded ==
    /\ page \in {"home", "leaveRequest", "leaveApprove"} => Authenticated(state)
    /\ page = "leaveApprove" => state.access \in Approvers

\* A stored session can be a mixture of two logins.
Mixed == "save" \in torn /\ ("clear" \in torn \/ crossed)

\* The two headers of every request name one tenant, the one its token is
\* for: the back end's tenant guard refuses a request only if a save was cut
\* between two keys over what an unfinished logout had left.  The guards that
\* read the token alone, its expiry and its permissions, are not told apart.
HeadersAgree == \A r \in sent : TenantGuard(r) \/ Mixed

\* Between calls, stopping and starting the application does not change who
\* is logged in: box and state are the same unless a call was cut or two
\* crossed, and a session that ended is not found again even then, unless
\* what is stored can be a mixture or a logout outlived the next login.
RestartKeepsTheSession ==
    page # "off" /\ login.pc \in {"idle", "post"} /\ ~Running =>
        /\ torn = {} /\ ~crossed => box = state
        /\ Authenticated(box) /\ ~Authenticated(state) => Mixed \/ crossed
=============================================================================
