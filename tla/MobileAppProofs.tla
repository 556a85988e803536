-------------------------- MODULE MobileAppProofs --------------------------
(***************************************************************************)
(* Proofs about MobileApp for every set of logins, tenants and presses of  *)
(* the logout button.  The invariant says what a save and a clear have     *)
(* done so far to the box, and what a cut or a crossing may have left.     *)
(***************************************************************************)
EXTENDS MobileApp, TLAPS

Behind == {"home", "leaveRequest", "leaveApprove"}

\* A login is under way on the login page only, and the login page is shown
\* without a session.
LoginOnItsPage ==
    /\ login.pc # "idle" => page = "login" /\ (login.pc # "post" => login.as \in Logins)
    /\ page = "login" => ~Authenticated(state)

\* A press of logout keeps what it has deleted deleted, unless a save crossed it.
Deleted(g) ==
    /\ logout[g] # "idle" => box.access = None
    /\ logout[g] \in {"tenant", "state"} => box.refresh = None
    /\ logout[g] = "state" => box.tenant = None
ClearProgress == crossed \/ \A g \in Taps : Deleted(g)

\* A save has written its access token.
SaveProgress == login.pc \in {"refresh", "tenant", "state"} => box.access = login.as

Unfinished == "clear" \in torn \/ crossed
Clearing == \E g \in Taps : logout[g] \in {"refresh", "tenant"}
Saving == login.pc \in {"refresh", "tenant"}

\* A tenant without an access token is what an unfinished clear leaves, an
\* access token without a tenant what an unfinished save leaves.
Leftovers ==
    /\ box.tenant # None /\ box.access = None => Unfinished \/ Clearing
    /\ box.access # None /\ box.tenant = None => Saving \/ "save" \in torn \/ crossed

\* Without a session in memory the box has a tenant, or an access token,
\* for the same two reasons.
NoSession ==
    page # "off" /\ ~Authenticated(state) /\ login.pc # "state" =>
        /\ box.tenant # None => Unfinished
        /\ box.access # None => Saving \/ "save" \in torn \/ crossed

\* Two logins meet in the box, or in the state, for both reasons together.
OneLogin ==
    /\ Authenticated(box) /\ box.access # box.tenant => Mixed \/ (Saving /\ Unfinished)
    /\ Authenticated(state) /\ state.access # state.tenant => Mixed

Clean == torn = {} /\ ~crossed
Whole == box = Empty \/ \E l \in Logins : box = SessionOf(l)

\* While nothing was cut or crossed the box is the state between calls, and
\* what the save under way has written during one.
InStep ==
    Clean =>
        /\ login.pc \in {"idle", "post"} /\ ~Running => Whole /\ (page # "off" => box = state)
        /\ login.pc = "refresh" => box.refresh = None /\ box.tenant = None
        /\ login.pc = "tenant" => box.refresh = login.as /\ box.tenant = None
        /\ login.pc = "state" => box = SessionOf(login.as)

AtRest == page = "off" => login.pc = "idle" /\ ~Running

IInv ==
    /\ TypeOK /\ PageGuarded /\ HeadersAgree
    /\ LoginOnItsPage /\ AtRest
    /\ ClearProgress /\ SaveProgress
    /\ Leftovers /\ NoSession /\ OneLogin /\ InStep

LEMMA InvariantPreserved == IInv /\ [Next]_vars => IInv'
<1> SUFFICES ASSUME IInv, [Next]_vars PROVE IInv' OBVIOUS
<1> USE NoneAssumption DEF IInv
<1>1. ASSUME Start PROVE IInv'
  <2>1. TypeOK' BY <1>1 DEF Start, TypeOK, Pages
  <2>2. PageGuarded' BY <1>1 DEF Start, PageGuarded
  <2>3. LoginOnItsPage' BY <1>1 DEF Start, LoginOnItsPage
  <2>4. AtRest' BY <1>1 DEF Start, AtRest
  <2>5. NoSession'
      BY <1>1 DEF Start, NoSession, Authenticated, Unfinished, Saving,
      Leftovers, Clearing, AtRest, Running
  <2>6. OneLogin' BY <1>1 DEF Start, OneLogin, Mixed, Saving, AtRest
  <2>7. InStep' BY <1>1 DEF Start, InStep, Clean, Whole, Running
  <2>8. (HeadersAgree /\ ClearProgress /\ SaveProgress /\ Leftovers)'
      BY <1>1 DEF Start, HeadersAgree, Mixed, ClearProgress, Deleted,
      SaveProgress, Leftovers, Unfinished, Clearing, Saving
  <2> QED BY <2>1, <2>2, <2>3, <2>4, <2>5, <2>6, <2>7, <2>8
<1>2. ASSUME LeaveSplash PROVE IInv'
  <2>1. TypeOK' BY <1>2 DEF LeaveSplash, TypeOK, Pages
  <2>2. PageGuarded' BY <1>2 DEF LeaveSplash, PageGuarded
  <2>3. LoginOnItsPage' BY <1>2 DEF LeaveSplash, LoginOnItsPage
  <2>4. AtRest' BY <1>2 DEF LeaveSplash, AtRest
  <2>5. NoSession' BY <1>2 DEF LeaveSplash, NoSession, Unfinished, Saving
  <2>6. InStep' BY <1>2 DEF LeaveSplash, InStep, Clean, Whole, Running
  <2>7. (HeadersAgree /\ ClearProgress /\ SaveProgress /\ Leftovers /\ OneLogin)'
      BY <1>2 DEF LeaveSplash, HeadersAgree, Mixed, ClearProgress, Deleted,
      SaveProgress, Leftovers, Unfinished, Clearing, Saving, OneLogin
  <2> QED BY <2>1, <2>2, <2>3, <2>4, <2>5, <2>6, <2>7
<1>3. ASSUME PushRequest PROVE IInv'
  <2>1. TypeOK' BY <1>3 DEF PushRequest, Request, TypeOK, Session, Pages
  <2>2. PageGuarded' BY <1>3 DEF PushRequest, PageGuarded
  <2>3. HeadersAgree'
      BY <1>3 DEF PushRequest, Request, HeadersAgree,
      TenantGuard, Mixed, PageGuarded, OneLogin, Authenticated
  <2>4. LoginOnItsPage' BY <1>3 DEF PushRequest, LoginOnItsPage
  <2>5. AtRest' BY <1>3 DEF PushRequest, AtRest
  <2>6. NoSession' BY <1>3 DEF PushRequest, NoSession, Unfinished, Saving
  <2>7. InStep' BY <1>3 DEF PushRequest, InStep, Clean, Whole, Running
  <2>8. (ClearProgress /\ SaveProgress /\ Leftovers /\ OneLogin)'
      BY <1>3 DEF PushRequest, ClearProgress, Deleted, SaveProgress,
      Leftovers, Unfinished, Clearing, Saving, OneLogin, Mixed
  <2> QED BY <2>1, <2>2, <2>3, <2>4, <2>5, <2>6, <2>7, <2>8
<1>4. ASSUME PushApprove PROVE IInv'
  <2>1. TypeOK' BY <1>4 DEF PushApprove, TypeOK, Pages
  <2>2. PageGuarded' BY <1>4 DEF PushApprove, PageGuarded
  <2>3. LoginOnItsPage' BY <1>4 DEF PushApprove, LoginOnItsPage
  <2>4. AtRest' BY <1>4 DEF PushApprove, AtRest
  <2>5. NoSession' BY <1>4 DEF PushApprove, NoSession, Unfinished, Saving
  <2>6. InStep' BY <1>4 DEF PushApprove, InStep, Clean, Whole, Running
  <2>7. (HeadersAgree /\ ClearProgress /\ SaveProgress /\ Leftovers /\ OneLogin)'
      BY <1>4 DEF PushApprove, HeadersAgree, Mixed, ClearProgress, Deleted,
      SaveProgress, Leftovers, Unfinished, Clearing, Saving, OneLogin
  <2> QED BY <2>1, <2>2, <2>3, <2>4, <2>5, <2>6, <2>7
<1>5. ASSUME Back PROVE IInv'
  <2>1. TypeOK' BY <1>5 DEF Back, TypeOK, Pages
  <2>2. PageGuarded' BY <1>5 DEF Back, PageGuarded
  <2>3. LoginOnItsPage' BY <1>5 DEF Back, LoginOnItsPage
  <2>4. AtRest' BY <1>5 DEF Back, AtRest
  <2>5. NoSession' BY <1>5 DEF Back, NoSession, Unfinished, Saving
  <2>6. InStep' BY <1>5 DEF Back, InStep, Clean, Whole, Running
  <2>7. (HeadersAgree /\ ClearProgress /\ SaveProgress /\ Leftovers /\ OneLogin)'
      BY <1>5 DEF Back, HeadersAgree, Mixed, ClearProgress, Deleted,
      SaveProgress, Leftovers, Unfinished, Clearing, Saving, OneLogin
  <2> QED BY <2>1, <2>2, <2>3, <2>4, <2>5, <2>6, <2>7
<1>6. ASSUME Stop PROVE IInv'
  <2>1. TypeOK'
      BY <1>6 DEF Stop, Cut, TypeOK, Session, Value, Pages, LoginCall, Pc,
      Empty, NoLogin
  <2>2. PageGuarded' BY <1>6 DEF Stop, PageGuarded
  <2>3. HeadersAgree' BY <1>6 DEF Stop, HeadersAgree, Mixed
  <2>4. LoginOnItsPage' BY <1>6 DEF Stop, LoginOnItsPage, NoLogin
  <2>5. AtRest' BY <1>6 DEF Stop, AtRest, Running, NoLogin
  <2>6. ClearProgress' BY <1>6 DEF Stop, ClearProgress, Deleted
  <2>7. SaveProgress' BY <1>6 DEF Stop, SaveProgress, NoLogin
  <2>8. Leftovers'
      BY <1>6 DEF Stop, Cut, Leftovers, Unfinished, Clearing, Saving
  <2>9. NoSession' BY <1>6 DEF Stop, NoSession
  <2>10. OneLogin'
      BY <1>6 DEF Stop, Cut, OneLogin, Mixed, Saving, Unfinished, Empty
  <2>11. InStep'
      BY <1>6 DEF Stop, Cut, InStep, Clean, Whole, Running, TypeOK, Session,
      Value, LoginCall, Pc, NoLogin, ClearProgress, Deleted, Empty, SessionOf
  <2> QED BY <2>1, <2>2, <2>3, <2>4, <2>5, <2>6, <2>7, <2>8, <2>9, <2>10, <2>11
<1>7. ASSUME CreateLeave PROVE IInv'
  <2>1. TypeOK' BY <1>7 DEF CreateLeave, Request, TypeOK, Session
  <2>2. HeadersAgree'
      BY <1>7 DEF CreateLeave, Request, HeadersAgree,
      TenantGuard, Mixed, PageGuarded, OneLogin, Authenticated
  <2>3. (PageGuarded /\ LoginOnItsPage /\ AtRest /\ ClearProgress /\ SaveProgress /\ Leftovers /\ NoSession /\ OneLogin /\ InStep)'
      BY <1>7 DEF CreateLeave, PageGuarded, LoginOnItsPage, AtRest, Running,
      ClearProgress, Deleted, SaveProgress, Leftovers, Unfinished, Clearing,
      Saving, NoSession, OneLogin, Mixed, InStep, Clean, Whole
  <2> QED BY <2>1, <2>2, <2>3
<1>8. ASSUME ApproveLeave PROVE IInv'
  <2>1. TypeOK' BY <1>8 DEF ApproveLeave, Request, TypeOK, Session
  <2>2. HeadersAgree'
      BY <1>8 DEF ApproveLeave, Request, HeadersAgree,
      TenantGuard, Mixed, PageGuarded, OneLogin, Authenticated
  <2>3. (PageGuarded /\ LoginOnItsPage /\ AtRest /\ ClearProgress /\ SaveProgress /\ Leftovers /\ NoSession /\ OneLogin /\ InStep)'
      BY <1>8 DEF ApproveLeave, PageGuarded, LoginOnItsPage, AtRest, Running,
      ClearProgress, Deleted, SaveProgress, Leftovers, Unfinished, Clearing,
      Saving, NoSession, OneLogin, Mixed, InStep, Clean, Whole
  <2> QED BY <2>1, <2>2, <2>3
<1>9. ASSUME Submit PROVE IInv'
  <2>1. TypeOK' BY <1>9 DEF Submit, TypeOK, Value, LoginCall, Pc
  <2>2. LoginOnItsPage' BY <1>9 DEF Submit, LoginOnItsPage
  <2>3. AtRest' BY <1>9 DEF Submit, AtRest
  <2>4. SaveProgress' BY <1>9 DEF Submit, SaveProgress
  <2>5. Leftovers' BY <1>9 DEF Submit, Leftovers, Unfinished, Clearing, Saving
  <2>6. NoSession' BY <1>9 DEF Submit, NoSession, Unfinished, Saving
  <2>7. OneLogin' BY <1>9 DEF Submit, OneLogin, Mixed, Saving
  <2>8. InStep' BY <1>9 DEF Submit, InStep, Clean, Whole, Running
  <2>9. (PageGuarded /\ HeadersAgree /\ ClearProgress)'
      BY <1>9 DEF Submit, PageGuarded, HeadersAgree, Mixed, ClearProgress,
      Deleted
  <2> QED BY <2>1, <2>2, <2>3, <2>4, <2>5, <2>6, <2>7, <2>8, <2>9
<1>10. ASSUME SaveAccess PROVE IInv'
  <2>1. TypeOK'
      BY <1>10 DEF SaveAccess, Put, TypeOK, Session, Value, LoginCall, Pc
  <2>2. HeadersAgree' BY <1>10 DEF SaveAccess, Put, HeadersAgree, Mixed
  <2>3. LoginOnItsPage' BY <1>10 DEF SaveAccess, Put, LoginOnItsPage
  <2>4. AtRest' BY <1>10 DEF SaveAccess, AtRest
  <2>5. ClearProgress'
      BY <1>10 DEF SaveAccess, Put, ClearProgress, Deleted, Running
  <2>6. SaveProgress'
      BY <1>10 DEF SaveAccess, Put, SaveProgress, TypeOK, Session
  <2>7. Leftovers'
      BY <1>10 DEF SaveAccess, Put, Leftovers, Unfinished, Clearing, Saving,
      TypeOK
  <2>8. NoSession'
      BY <1>10 DEF SaveAccess, Put, NoSession, Unfinished, Saving, TypeOK
  <2>9. OneLogin'
      BY <1>10 DEF SaveAccess, Put, OneLogin, Authenticated, Saving,
      Unfinished, TypeOK, LoginOnItsPage, NoSession
  <2>10. InStep'
    <3>1. CASE ~Clean'
      BY <3>1, <1>10 DEF SaveAccess, Put, InStep
    <3>2. CASE Clean'
      <4>1. ~Running /\ page = "login" /\ login.pc = "post" /\ Clean
        BY <3>2, <1>10 DEF SaveAccess, Put, Clean, LoginOnItsPage
      <4>2. Whole /\ box = state /\ ~Authenticated(state)
        BY <4>1 DEF InStep, LoginOnItsPage
      <4>3. box = Empty
        BY <4>2 DEF Whole, SessionOf, Authenticated
      <4> QED BY <4>3, <1>10 DEF SaveAccess, Put, InStep, Empty
    <3> QED BY <3>1, <3>2
  <2>11. (PageGuarded)' BY <1>10 DEF SaveAccess, PageGuarded
  <2> QED BY <2>1, <2>2, <2>3, <2>4, <2>5, <2>6, <2>7, <2>8, <2>9, <2>10, <2>11
<1>11. ASSUME SaveRefresh PROVE IInv'
  <2>1. TypeOK' BY <1>11 DEF SaveRefresh, Put, TypeOK, Session, LoginCall, Pc
  <2>2. HeadersAgree' BY <1>11 DEF SaveRefresh, Put, HeadersAgree, Mixed
  <2>3. LoginOnItsPage' BY <1>11 DEF SaveRefresh, Put, LoginOnItsPage
  <2>4. AtRest' BY <1>11 DEF SaveRefresh, AtRest
  <2>5. ClearProgress'
      BY <1>11 DEF SaveRefresh, Put, ClearProgress, Deleted, Running
  <2>6. SaveProgress' BY <1>11 DEF SaveRefresh, Put, SaveProgress
  <2>7. Leftovers'
      BY <1>11 DEF SaveRefresh, Put, Leftovers, Saving, SaveProgress,
      LoginOnItsPage
  <2>8. NoSession'
      BY <1>11 DEF SaveRefresh, Put, NoSession, Unfinished, Saving, TypeOK
  <2>9. OneLogin'
      BY <1>11 DEF SaveRefresh, Put, OneLogin, Authenticated, Mixed, Saving,
      Unfinished, TypeOK
  <2>10. InStep' BY <1>11 DEF SaveRefresh, Put, InStep, Clean, TypeOK, Session
  <2>11. (PageGuarded)' BY <1>11 DEF SaveRefresh, PageGuarded
  <2> QED BY <2>1, <2>2, <2>3, <2>4, <2>5, <2>6, <2>7, <2>8, <2>9, <2>10, <2>11
<1>12. ASSUME SaveTenant PROVE IInv'
  <2>1. TypeOK' BY <1>12 DEF SaveTenant, Put, TypeOK, Session, LoginCall, Pc
  <2>2. HeadersAgree' BY <1>12 DEF SaveTenant, Put, HeadersAgree, Mixed
  <2>3. LoginOnItsPage' BY <1>12 DEF SaveTenant, Put, LoginOnItsPage
  <2>4. AtRest' BY <1>12 DEF SaveTenant, AtRest
  <2>5. ClearProgress'
      BY <1>12 DEF SaveTenant, Put, ClearProgress, Deleted, Running
  <2>6. SaveProgress' BY <1>12 DEF SaveTenant, Put, SaveProgress
  <2>7. Leftovers'
      BY <1>12 DEF SaveTenant, Put, Leftovers, TypeOK, Session, SaveProgress
  <2>8. NoSession' BY <1>12 DEF SaveTenant, Put, NoSession
  <2>9. OneLogin'
      BY <1>12 DEF SaveTenant, Put, OneLogin, Mixed, TypeOK, Session,
      SaveProgress
  <2>10. InStep'
      BY <1>12 DEF SaveTenant, Put, InStep, Clean, TypeOK, Session,
      SaveProgress, SessionOf
  <2>11. (PageGuarded)' BY <1>12 DEF SaveTenant, PageGuarded
  <2> QED BY <2>1, <2>2, <2>3, <2>4, <2>5, <2>6, <2>7, <2>8, <2>9, <2>10, <2>11
<1>13. ASSUME SetSession PROVE IInv'
  <2>1. TypeOK'
      BY <1>13 DEF SetSession, Redirect, TypeOK, Session, Value, Pages,
      LoginCall, Pc, NoLogin, SessionOf
  <2>2. PageGuarded'
      BY <1>13 DEF SetSession, Redirect, PageGuarded, LoginOnItsPage
  <2>3. LoginOnItsPage'
      BY <1>13 DEF SetSession, Redirect, LoginOnItsPage, NoLogin
  <2>4. AtRest' BY <1>13 DEF SetSession, Redirect, AtRest
  <2>5. SaveProgress' BY <1>13 DEF SetSession, SaveProgress, NoLogin
  <2>6. Leftovers'
      BY <1>13 DEF SetSession, Leftovers, Unfinished, Clearing, Saving
  <2>7. NoSession'
      BY <1>13 DEF SetSession, NoSession, Authenticated, LoginOnItsPage,
      SessionOf
  <2>8. OneLogin' BY <1>13 DEF SetSession, OneLogin, Mixed, Saving, SessionOf
  <2>9. InStep'
      BY <1>13 DEF SetSession, InStep, Clean, Whole, NoLogin, LoginOnItsPage
  <2>10. (HeadersAgree /\ ClearProgress)'
      BY <1>13 DEF SetSession, HeadersAgree, Mixed, ClearProgress, Deleted
  <2> QED BY <2>1, <2>2, <2>3, <2>4, <2>5, <2>6, <2>7, <2>8, <2>9, <2>10
<1>14. ASSUME LoginFails PROVE IInv'
  <2>1. TypeOK'
      BY <1>14 DEF LoginFails, Cut, TypeOK, Value, LoginCall, Pc, NoLogin
  <2>2. HeadersAgree' BY <1>14 DEF LoginFails, HeadersAgree, Mixed
  <2>3. LoginOnItsPage' BY <1>14 DEF LoginFails, LoginOnItsPage, NoLogin
  <2>4. AtRest' BY <1>14 DEF LoginFails, AtRest
  <2>5. SaveProgress' BY <1>14 DEF LoginFails, SaveProgress, NoLogin
  <2>6. Leftovers'
      BY <1>14 DEF LoginFails, Cut, Leftovers, Unfinished, Clearing, Saving
  <2>7. NoSession' BY <1>14 DEF LoginFails, Cut, NoSession, Unfinished, Saving
  <2>8. OneLogin'
      BY <1>14 DEF LoginFails, Cut, OneLogin, Mixed, Saving, Unfinished
  <2>9. InStep'
      BY <1>14 DEF LoginFails, Cut, InStep, Clean, Whole, Running, NoLogin
  <2>10. (PageGuarded /\ ClearProgress)'
      BY <1>14 DEF LoginFails, PageGuarded, ClearProgress, Deleted
  <2> QED BY <2>1, <2>2, <2>3, <2>4, <2>5, <2>6, <2>7, <2>8, <2>9, <2>10
<1>15. ASSUME NEW g \in Taps, ClearAccess(g) PROVE IInv'
  <2>1. TypeOK' BY <1>15 DEF ClearAccess, Delete, TypeOK, Session, Value, Pc
  <2>2. AtRest' BY <1>15 DEF ClearAccess, AtRest
  <2>3. ClearProgress'
      BY <1>15 DEF ClearAccess, Delete, ClearProgress, Deleted, TypeOK,
      Session
  <2>4. SaveProgress' BY <1>15 DEF ClearAccess, SaveProgress, LoginOnItsPage
  <2>5. Leftovers'
      BY <1>15 DEF ClearAccess, Delete, Leftovers, Clearing, Saving, TypeOK
  <2>6. NoSession'
      BY <1>15 DEF ClearAccess, Delete, NoSession, Unfinished, Saving
  <2>7. OneLogin'
      BY <1>15 DEF ClearAccess, Delete, OneLogin, Authenticated, Mixed,
      Saving, Unfinished
  <2>8. InStep'
      BY <1>15 DEF ClearAccess, Delete, InStep, Running, TypeOK,
      LoginOnItsPage
  <2>9. (PageGuarded /\ HeadersAgree /\ LoginOnItsPage)'
      BY <1>15 DEF ClearAccess, PageGuarded, HeadersAgree, Mixed,
      LoginOnItsPage
  <2> QED BY <2>1, <2>2, <2>3, <2>4, <2>5, <2>6, <2>7, <2>8, <2>9
<1>16. ASSUME NEW g \in Taps, ClearRefresh(g) PROVE IInv'
  <2>1. TypeOK' BY <1>16 DEF ClearRefresh, Delete, TypeOK, Session, Value, Pc
  <2>2. AtRest' BY <1>16 DEF ClearRefresh, AtRest, Running
  <2>3. ClearProgress'
      BY <1>16 DEF ClearRefresh, Delete, ClearProgress, Deleted, TypeOK,
      Session
  <2>4. SaveProgress' BY <1>16 DEF ClearRefresh, Delete, SaveProgress
  <2>5. Leftovers'
      BY <1>16 DEF ClearRefresh, Delete, Leftovers, Clearing, Saving
  <2>6. NoSession'
      BY <1>16 DEF ClearRefresh, Delete, NoSession, Unfinished, Saving
  <2>7. OneLogin'
      BY <1>16 DEF ClearRefresh, Delete, OneLogin, Authenticated, Mixed,
      Saving, Unfinished
  <2>8. InStep'
      BY <1>16 DEF ClearRefresh, Delete, InStep, Clean, Running, SaveProgress,
      ClearProgress, Deleted, LoginOnItsPage
  <2>9. (PageGuarded /\ HeadersAgree /\ LoginOnItsPage)'
      BY <1>16 DEF ClearRefresh, PageGuarded, HeadersAgree, Mixed,
      LoginOnItsPage
  <2> QED BY <2>1, <2>2, <2>3, <2>4, <2>5, <2>6, <2>7, <2>8, <2>9
<1>17. ASSUME NEW g \in Taps, ClearTenant(g) PROVE IInv'
  <2>1. TypeOK' BY <1>17 DEF ClearTenant, Delete, TypeOK, Session, Value, Pc
  <2>2. AtRest' BY <1>17 DEF ClearTenant, AtRest, Running
  <2>3. ClearProgress'
      BY <1>17 DEF ClearTenant, Delete, ClearProgress, Deleted, TypeOK,
      Session
  <2>4. SaveProgress' BY <1>17 DEF ClearTenant, Delete, SaveProgress
  <2>5. Leftovers'
      BY <1>17 DEF ClearTenant, Delete, Leftovers, TypeOK, Session,
      ClearProgress, Deleted
  <2>6. NoSession'
      BY <1>17 DEF ClearTenant, Delete, NoSession, Unfinished, Saving
  <2>7. OneLogin'
      BY <1>17 DEF ClearTenant, Delete, OneLogin, Authenticated, Mixed,
      Saving, Unfinished
  <2>8. InStep'
      BY <1>17 DEF ClearTenant, Delete, InStep, Clean, Running, SaveProgress,
      ClearProgress, Deleted, LoginOnItsPage
  <2>9. (PageGuarded /\ HeadersAgree /\ LoginOnItsPage)'
      BY <1>17 DEF ClearTenant, PageGuarded, HeadersAgree, Mixed,
      LoginOnItsPage
  <2> QED BY <2>1, <2>2, <2>3, <2>4, <2>5, <2>6, <2>7, <2>8, <2>9
<1>18. ASSUME NEW g \in Taps, ResetState(g) PROVE IInv'
  <2>1. TypeOK'
      BY <1>18 DEF ResetState, Redirect, TypeOK, Session, Value, Pages, Pc,
      Empty
  <2>2. PageGuarded'
      BY <1>18 DEF ResetState, Redirect, PageGuarded, Authenticated, Empty
  <2>3. LoginOnItsPage'
      BY <1>18 DEF ResetState, Redirect, LoginOnItsPage, Authenticated, Empty
  <2>4. AtRest' BY <1>18 DEF ResetState, Redirect, AtRest, Running
  <2>5. ClearProgress' BY <1>18 DEF ResetState, ClearProgress, Deleted
  <2>6. Leftovers'
      BY <1>18 DEF ResetState, Leftovers, Unfinished, Clearing, Saving
  <2>7. NoSession'
      BY <1>18 DEF ResetState, NoSession, Unfinished, ClearProgress, Deleted
  <2>8. OneLogin'
      BY <1>18 DEF ResetState, OneLogin, Mixed, Saving, Unfinished, Empty
  <2>9. InStep'
      BY <1>18 DEF ResetState, InStep, Clean, Whole, TypeOK, Session,
      ClearProgress, Deleted, Empty
  <2>10. (HeadersAgree /\ SaveProgress)'
      BY <1>18 DEF ResetState, HeadersAgree, Mixed, SaveProgress
  <2> QED BY <2>1, <2>2, <2>3, <2>4, <2>5, <2>6, <2>7, <2>8, <2>9, <2>10
<1>19. ASSUME NEW g \in Taps, LogoutFails(g) PROVE IInv'
  <2>1. TypeOK' BY <1>19 DEF LogoutFails, Cut, TypeOK, Pc
  <2>2. HeadersAgree' BY <1>19 DEF LogoutFails, HeadersAgree, Mixed
  <2>3. AtRest' BY <1>19 DEF LogoutFails, AtRest, Running
  <2>4. ClearProgress' BY <1>19 DEF LogoutFails, ClearProgress, Deleted
  <2>5. Leftovers' BY <1>19 DEF LogoutFails, Cut, Leftovers, Unfinished, Saving
  <2>6. NoSession' BY <1>19 DEF LogoutFails, NoSession, Unfinished, Saving
  <2>7. OneLogin' BY <1>19 DEF LogoutFails, OneLogin, Mixed, Saving, Unfinished
  <2>8. InStep' BY <1>19 DEF LogoutFails, Cut, InStep, Clean
  <2>9. (PageGuarded /\ LoginOnItsPage /\ SaveProgress)'
      BY <1>19 DEF LogoutFails, PageGuarded, LoginOnItsPage, SaveProgress
  <2> QED BY <2>1, <2>2, <2>3, <2>4, <2>5, <2>6, <2>7, <2>8, <2>9
<1>20. CASE UNCHANGED vars 
    BY <1>20 DEF vars, TypeOK, PageGuarded, Authenticated, HeadersAgree,
    TenantGuard, Mixed, LoginOnItsPage, AtRest, Running,
    ClearProgress, Deleted, SaveProgress, Leftovers, Unfinished, Clearing,
    Saving, NoSession, OneLogin, InStep, Clean, Whole
<1> QED BY <1>1, <1>2, <1>3, <1>4, <1>5, <1>6, <1>7, <1>8, <1>9, <1>10, <1>11,
    <1>12, <1>13, <1>14, <1>15, <1>16, <1>17, <1>18, <1>19, <1>20 DEF Next

LEMMA InvariantInitially == Init => IInv
<1> USE NoneAssumption
<1> SUFFICES ASSUME Init PROVE IInv OBVIOUS
<1>1. TypeOK
  BY DEF Init, TypeOK, Session, Value, Empty, Pages, LoginCall, NoLogin, Pc
<1>2. PageGuarded /\ HeadersAgree /\ LoginOnItsPage /\ AtRest
  BY DEF Init, PageGuarded, HeadersAgree, LoginOnItsPage, AtRest, Running, NoLogin
<1>3. ClearProgress /\ SaveProgress /\ Leftovers /\ NoSession /\ OneLogin
  BY DEF Init, ClearProgress, Deleted, SaveProgress, Leftovers, NoSession, OneLogin,
         Authenticated, NoLogin, Empty
<1>4. InStep
  BY DEF Init, InStep, Whole, NoLogin
<1> QED BY <1>1, <1>2, <1>3, <1>4 DEF IInv

LEMMA InvariantAlways == Spec => []IInv
<1>1. Init => IInv BY InvariantInitially
<1>2. IInv /\ [Next]_vars => IInv' BY InvariantPreserved
<1> QED BY <1>1, <1>2, PTL DEF Spec

\* The variables keep their types.
THEOREM AppTypeCorrect == Spec => []TypeOK
<1>1. IInv => TypeOK BY DEF IInv
<1> QED BY <1>1, InvariantAlways, PTL

\* No page behind the login is ever shown without a session, nor the approval
\* page without the permission.
THEOREM PagesGuarded == Spec => []PageGuarded
<1>1. IInv => PageGuarded BY DEF IInv
<1> QED BY <1>1, InvariantAlways, PTL

\* The tenant header of every request names the tenant of its token, unless a
\* save was cut over what an unfinished logout had left.
THEOREM OneTenantPerRequest == Spec => []HeadersAgree
<1>1. IInv => HeadersAgree BY DEF IInv
<1> QED BY <1>1, InvariantAlways, PTL

\* Stopping and starting the application between calls does not change who is
\* logged in, unless a call was cut or two crossed.
THEOREM SessionSurvives == Spec => []RestartKeepsTheSession
<1>1. IInv => RestartKeepsTheSession
  <2> SUFFICES ASSUME IInv, page # "off", login.pc \in {"idle", "post"}, ~Running
               PROVE /\ torn = {} /\ ~crossed => box = state
                     /\ Authenticated(box) /\ ~Authenticated(state) => Mixed \/ crossed
    BY DEF RestartKeepsTheSession
  <2>1. torn = {} /\ ~crossed => box = state
    BY DEF IInv, InStep, Clean
  <2>2. Authenticated(box) /\ ~Authenticated(state) => Mixed \/ crossed
    BY DEF IInv, NoSession, Authenticated, Unfinished, Saving, Mixed
  <2> QED BY <2>1, <2>2
<1> QED BY <1>1, InvariantAlways, PTL
=============================================================================
