------------------------- MODULE AuthSessionsProofs -------------------------
(***************************************************************************)
(* Proofs about AuthSessions for any accounts, sessions, tokens and number *)
(* of calls: what is signed, current and spent, and that the interleaved   *)
(* calls keep the promise of SessionLedger.                                *)
(***************************************************************************)
EXTENDS AuthSessions, TLAPS

Signed(t) == claims[t] # Unsigned
Current(t) == \E s \in Sessions : session[s].token = t

\* Members alone are signed for, and no token is used before it is signed.
TokenInv ==
    /\ \A t \in Tokens : Signed(t) => claims[t].account \in Members
    /\ \A t \in held \cup spent : Signed(t)
    /\ \A s \in Sessions : session[s].token # None =>
         Signed(session[s].token) /\ session[s].token \notin spent

\* What a call has learnt at each of its awaits, and nothing takes back.
Known(h) == LET c == call[h] IN
    /\ c.rights \subseteq granted
    /\ c.op = "login" => c.token = None
    /\ c.pc = "credentials" => c.op = "login"
    /\ c.pc = "find" => /\ c.op = "refresh" /\ c.token \in Tokens /\ Signed(c.token)
                        /\ c.account = claims[c.token].account
                        /\ c.dead => Dead(c.token)
    /\ c.pc = "sign" => c.op \in {"login", "refresh"}
    /\ c.pc = "create" => c.op = "login"
    /\ c.pc = "update" => c.op = "refresh"
    /\ c.pc \in {"sign", "create", "update"} => c.account \in Members
    /\ c.op = "refresh" /\ c.pc \in {"sign", "update"} =>
         /\ c.token \in Tokens /\ c.session \in Sessions
         /\ session[c.session].token # None /\ session[c.session].account = c.account
    /\ c.pc \in {"create", "update"} =>
         /\ c.fresh \in Tokens /\ claims[c.fresh].account = c.account
         /\ claims[c.fresh].exp <= now + RefreshTtl /\ claims[c.fresh].from = c.token
    /\ c.pc = "answer" => c.fresh \in Tokens /\ Signed(c.fresh)
    /\ c.dead => c.pc \in {"idle", "find"}

\* What a call has signed and not yet written is nobody else's.
Writing(h) == call[h].pc \in {"create", "update"}
FreshInv ==
    /\ \A h \in Handlers : Writing(h) => call[h].fresh \notin spent /\ ~Current(call[h].fresh)
    /\ \A g, h \in Handlers : Writing(g) /\ Writing(h) /\ call[g].fresh = call[h].fresh => g = h

IInv == /\ TypeOK /\ TokenInv /\ FreshInv /\ SessionIdentity /\ SessionReachable
        /\ \A h \in Handlers : Known(h)

Act(h) == \/ CallLogin(h) \/ Authenticate(h) \/ CreateSession(h)
          \/ CallRefresh(h) \/ FindSession(h) \/ Sign(h) \/ UpdateSession(h)
          \/ Reply(h) \/ Logout(h) \/ Fail(h)

LEMMA InitInvariant == Init => IInv
  <1> SUFFICES ASSUME Init PROVE IInv
    OBVIOUS
  <1>1. TypeOK
    BY ClockAssumption DEF Init, TypeOK, Row, NoRow, Claims, Unsigned, Call, Idle, Pc
  <1>2. TokenInv /\ SessionIdentity /\ SessionReachable
    BY DEF Init, TokenInv, SessionIdentity, SessionReachable, Signed, NoRow, Unsigned
  <1>3. FreshInv /\ \A h \in Handlers : Known(h)
    BY DEF Init, FreshInv, Writing, Known, Idle
  <1>4. QED
    BY <1>1, <1>2, <1>3 DEF IInv

\* The call of a step and what becomes of it.
LEMMA Step ==
    ASSUME TypeOK, NEW h \in Handlers, Act(h)
    PROVE  /\ \E c : call' = [call EXCEPT ![h] = c]
           /\ \A g \in Handlers \ {h} : call'[g] = call[g]
  <1>1. \E c : call' = [call EXCEPT ![h] = c]
    <2>1. CASE CallLogin(h) \/ Reply(h) \/ Fail(h) \/ CallRefresh(h)
      BY <2>1 DEF CallLogin, Reply, Fail, CallRefresh, Answer
    <2>2. CASE Authenticate(h) \/ CreateSession(h) \/ UpdateSession(h)
      BY <2>2 DEF Authenticate, CreateSession, UpdateSession, Goto, Answer
    <2>3. CASE FindSession(h) \/ Sign(h)
      BY <2>3 DEF FindSession, Sign, Answer
    <2>4. CASE Logout(h)
      <3>1. call' = [call EXCEPT ![h] = call[h]]
        BY <2>4 DEF Logout, TypeOK
      <3>2. QED
        BY <3>1
    <2>5. QED
      BY <2>1, <2>2, <2>3, <2>4 DEF Act
  <1>2. QED
    BY <1>1 DEF TypeOK

\* Every update writes a row a login created.
LEMMA UpdatesRow ==
    ASSUME IInv, NEW h \in Handlers, UpdateSession(h)
    PROVE  /\ call[h].session \in Sessions /\ call[h].fresh \in Tokens
           /\ session[call[h].session].token \in Tokens
           /\ session[call[h].session].account = call[h].account
           /\ Rotated(h) \in Row /\ Rotated(h).token = call[h].fresh
           /\ session' = [session EXCEPT ![call[h].session] = Rotated(h)]
  <1>1. Known(h) /\ call[h].pc = "update"
    BY DEF IInv, UpdateSession
  <1>2. /\ call[h].session \in Sessions /\ call[h].fresh \in Tokens
        /\ session[call[h].session].token # None
        /\ session[call[h].session].account = call[h].account
    BY <1>1 DEF Known
  <1>3. session[call[h].session] \in Row
    BY <1>2 DEF IInv, TypeOK
  <1>4. now + RefreshTtl \in Nat
    BY ClockAssumption DEF IInv, TypeOK
  <1>5. QED
    BY <1>2, <1>3, <1>4 DEF UpdateSession, Rotated, Row

LEMMA TypeStep ==
    ASSUME IInv, NEW h \in Handlers, Act(h)
    PROVE  TypeOK'
  <1> USE DEF IInv
  <1>1. call[h] \in Call /\ Known(h) /\ now + RefreshTtl \in Nat
    BY ClockAssumption DEF TypeOK
  <1>2. ASSUME NEW c \in Call, call' = [call EXCEPT ![h] = c]
        PROVE  call' \in [Handlers -> Call]
    BY <1>2 DEF TypeOK
  <1>3. Idle \in Call
    BY DEF Idle, Call, Pc
  <1>4. CASE CallLogin(h)
    <2>1. PICK a \in Accounts : call' = [call EXCEPT ![h] =
            [Idle EXCEPT !.op = "login", !.pc = "credentials", !.account = a]]
      BY <1>4 DEF CallLogin
    <2>2. [Idle EXCEPT !.op = "login", !.pc = "credentials", !.account = a] \in Call
      BY DEF Idle, Call, Pc
    <2>3. QED
      BY <1>2, <1>4, <2>1, <2>2 DEF CallLogin, TypeOK
  <1>5. CASE Authenticate(h)
    BY <1>1, <1>3, <1>5 DEF Authenticate, Answer, TypeOK, Call, Pc
  <1>6. CASE CreateSession(h)
    <2>1. PICK s \in Sessions : session' = [session EXCEPT ![s] =
            [account |-> call[h].account, token |-> call[h].fresh,
             expiresAt |-> now + RefreshTtl, revoked |-> FALSE]]
      BY <1>6 DEF CreateSession
    <2>2. session' \in [Sessions -> Row]
      BY <1>1, <2>1 DEF TypeOK, Row, Call
    <2>3. QED
      BY <1>1, <1>6, <2>2 DEF CreateSession, Goto, TypeOK, Call, Pc
  <1>7. CASE CallRefresh(h)
    <2>1. PICK t \in held : call' = [call EXCEPT ![h] =
            [Idle EXCEPT !.op = "refresh", !.pc = "find", !.token = t,
                         !.account = claims[t].account, !.rights = claims[t].rights,
                         !.dead = Dead(t)]]
      BY <1>7 DEF CallRefresh
    <2>2. claims[t] \in Claims /\ t \in Tokens /\ Dead(t) \in BOOLEAN
      BY DEF TypeOK, Dead
    <2>3. [Idle EXCEPT !.op = "refresh", !.pc = "find", !.token = t,
                       !.account = claims[t].account, !.rights = claims[t].rights,
                       !.dead = Dead(t)] \in Call
      BY <2>2 DEF Idle, Call, Pc, Claims
    <2>4. QED
      BY <1>2, <1>7, <2>1, <2>3 DEF CallRefresh, TypeOK
  <1>8. CASE FindSession(h)
    <2>1. \A s \in Sessions : [call[h] EXCEPT !.pc = "sign", !.session = s] \in Call
      BY <1>1 DEF Call, Pc
    <2>2. \/ \E s \in Sessions :
               call' = [call EXCEPT ![h] = [call[h] EXCEPT !.pc = "sign", !.session = s]]
          \/ call' = [call EXCEPT ![h] = Idle]
      BY <1>8 DEF FindSession, Answer, TypeOK
    <2>3. QED
      BY <1>2, <1>3, <1>8, <2>1, <2>2 DEF FindSession, TypeOK
  <1>9. CASE Sign(h)
    <2>1. PICK t \in Tokens :
            /\ claims' = [claims EXCEPT ![t] =
                 [account |-> call[h].account, rights |-> call[h].rights,
                  exp |-> now + RefreshTtl, from |-> call[h].token]]
            /\ call' = [call EXCEPT ![h].fresh = t,
                        ![h].pc = IF call[h].op = "login" THEN "create" ELSE "update"]
      BY <1>9 DEF Sign
    <2>2. claims' \in [Tokens -> Claims]
      BY <1>1, <2>1 DEF TypeOK, Claims, Call
    <2>3. call' \in [Handlers -> Call]
      BY <1>1, <2>1 DEF TypeOK, Call, Pc
    <2>4. QED
      BY <1>9, <2>2, <2>3 DEF Sign, TypeOK
  <1>10. CASE UpdateSession(h)
    <2>1. session' \in [Sessions -> Row]
      BY <1>10, UpdatesRow DEF TypeOK
    <2>2. spent' \subseteq Tokens
      <3>1. session[call[h].session].token \in Tokens
        BY <1>10, UpdatesRow
      <3>2. QED
        BY <1>10, <3>1 DEF UpdateSession, TypeOK
    <2>3. QED
      BY <1>1, <1>10, <2>1, <2>2 DEF UpdateSession, Goto, TypeOK, Call, Pc
  <1>11. CASE Reply(h)
    <2>1. held' \subseteq Tokens
      BY <1>1, <1>11 DEF Reply, Answered, Known, TypeOK
    <2>2. QED
      BY <1>2, <1>3, <1>11, <2>1 DEF Reply, Answer, TypeOK
  <1>12. CASE Logout(h)
    <2>1. PICK t \in held : session' = [s \in Sessions |->
            IF session[s].token = t THEN [session[s] EXCEPT !.revoked = TRUE] ELSE session[s]]
      BY <1>12 DEF Logout
    <2>2. session' \in [Sessions -> Row]
      BY <2>1 DEF TypeOK, Row
    <2>3. QED
      BY <1>12, <2>2 DEF Logout, TypeOK
  <1>13. CASE Fail(h)
    <2>1. lost' \subseteq Tokens
      BY <1>1, <1>13 DEF Fail, TypeOK, Call
    <2>2. QED
      BY <1>2, <1>3, <1>13, <2>1 DEF Fail, Answer, TypeOK
  <1>14. QED
    BY <1>4, <1>5, <1>6, <1>7, <1>8, <1>9, <1>10, <1>11, <1>12, <1>13 DEF Act

\* What happened to a session.
LEMMA SessionStep ==
    ASSUME IInv, NEW h \in Handlers, Act(h), NEW s \in Sessions
    PROVE  \/ session'[s] = session[s]
           \/ /\ CreateSession(h) /\ session[s].token = None /\ ~session[s].revoked
              /\ session'[s].token = call[h].fresh /\ session'[s].account = call[h].account
              /\ session'[s].expiresAt = now + RefreshTtl /\ session'[s].revoked = FALSE
           \/ /\ UpdateSession(h) /\ s = call[h].session
              /\ session'[s].token = call[h].fresh /\ session'[s].account = session[s].account
              /\ session'[s].expiresAt = now + RefreshTtl
              /\ session'[s].revoked = session[s].revoked
           \/ /\ Logout(h) /\ session[s].token \in held
              /\ session'[s].token = session[s].token /\ session'[s].account = session[s].account
              /\ session'[s].expiresAt = session[s].expiresAt /\ session'[s].revoked
  <1>1. TypeOK /\ session[s] \in Row
    BY DEF IInv, TypeOK
  <1>2. CASE CreateSession(h)
    <2>1. PICK r \in Sessions :
            /\ session[r] = NoRow
            /\ session' = [session EXCEPT ![r] =
                 [account |-> call[h].account, token |-> call[h].fresh,
                  expiresAt |-> now + RefreshTtl, revoked |-> FALSE]]
      BY <1>2 DEF CreateSession
    <2>2. CASE r = s
      <3>1. session[s].token = None /\ ~session[s].revoked
        BY <2>1, <2>2 DEF NoRow
      <3>2. session'[s] = [account |-> call[h].account, token |-> call[h].fresh,
                           expiresAt |-> now + RefreshTtl, revoked |-> FALSE]
        BY <1>1, <2>1, <2>2 DEF TypeOK
      <3>3. /\ session'[s].token = call[h].fresh /\ session'[s].account = call[h].account
            /\ session'[s].expiresAt = now + RefreshTtl
        BY <3>2
      <3>4. session'[s].revoked = FALSE
        BY <3>2
      <3>5. QED
        BY <1>2, <3>1, <3>3, <3>4
    <2>3. CASE r # s
      BY <1>1, <2>1, <2>3 DEF TypeOK
    <2>4. QED
      BY <2>2, <2>3
  <1>3. CASE UpdateSession(h)
    <2>1. session' = [session EXCEPT ![call[h].session] = Rotated(h)]
      BY <1>3, UpdatesRow
    <2>2. CASE s = call[h].session
      <3>1. session'[s] = [session[s] EXCEPT !.token = call[h].fresh,
                                             !.expiresAt = now + RefreshTtl]
        BY <1>1, <2>1, <2>2 DEF TypeOK, Rotated
      <3>2. QED
        BY <1>1, <1>3, <2>2, <3>1 DEF Row
    <2>3. CASE s # call[h].session
      BY <1>1, <2>1, <2>3 DEF TypeOK
    <2>4. QED
      BY <2>2, <2>3
  <1>4. CASE Logout(h)
    BY <1>1, <1>4 DEF Logout, Row
  <1>5. CASE ~CreateSession(h) /\ ~UpdateSession(h) /\ ~Logout(h)
    BY <1>5 DEF Act, CallLogin, Authenticate, CallRefresh, FindSession, Sign, Reply, Fail
  <1>6. QED
    BY <1>2, <1>3, <1>4, <1>5

\* What the other calls rely on is never undone.
Grows ==
    /\ \A t \in Tokens : Signed(t) => claims'[t] = claims[t]
    /\ granted \subseteq granted' /\ now <= now' /\ spent \subseteq spent' /\ held \subseteq held'
    /\ \A s \in Sessions : session[s].token # None =>
         session'[s].token # None /\ session'[s].account = session[s].account
    /\ \A t \in Tokens : Dead(t) => Dead(t)'

LEMMA Growth ==
    ASSUME IInv, NEW h \in Handlers, Act(h)
    PROVE  Grows
  <1>1. TypeOK
    BY DEF IInv
  <1>2. \A t \in Tokens : Signed(t) => claims'[t] = claims[t]
    <2>1. CASE Sign(h)
      BY <1>1, <2>1 DEF Sign, Signed, TypeOK
    <2>2. CASE ~Sign(h)
      BY <2>2 DEF Act, CallLogin, Authenticate, CreateSession, CallRefresh, FindSession,
         UpdateSession, Reply, Logout, Fail
    <2>3. QED
      BY <2>1, <2>2
  <1>3. granted \subseteq granted' /\ now' = now /\ spent \subseteq spent' /\ held \subseteq held'
    BY DEF Act, CallLogin, Authenticate, CreateSession, CallRefresh, FindSession, Sign,
       UpdateSession, Reply, Logout, Fail
  <1>4. \A s \in Sessions : session[s] \in Row /\ (session[s].token # None =>
           session'[s].token # None /\ session'[s].account = session[s].account)
    <2>1. SUFFICES ASSUME NEW s \in Sessions
          PROVE  session[s] \in Row /\ (session[s].token # None =>
                   session'[s].token # None /\ session'[s].account = session[s].account)
      OBVIOUS
    <2>2. session[s] \in Row
      BY <1>1 DEF TypeOK
    <2>3. UpdateSession(h) => call[h].fresh # None
      BY UpdatesRow, NoneAssumption
    <2>4. QED
      BY <2>2, <2>3, SessionStep
  <1>5. ASSUME NEW t \in Tokens, Dead(t) PROVE Dead(t)'
    <2>1. CASE t \in spent
      BY <1>3, <2>1 DEF Dead
    <2>2. ASSUME NEW s \in Sessions, session[s].token = t, session[s].revoked
          PROVE  Dead(t)'
      <3>1. t # None /\ session[s] \in Row
        BY <1>4, NoneAssumption
      <3>2. CASE UpdateSession(h) /\ s = call[h].session
        BY <2>2, <3>2 DEF UpdateSession, Dead
      <3>3. CASE ~(UpdateSession(h) /\ s = call[h].session)
        <4>1. session'[s].token = t /\ session'[s].revoked
          BY <2>2, <3>1, <3>3, SessionStep
        <4>2. QED
          BY <4>1 DEF Dead
      <3>4. QED
        BY <3>2, <3>3
    <2>3. QED
      BY <1>5, <2>1, <2>2 DEF Dead
  <1>6. now <= now'
    BY <1>1, <1>3 DEF TypeOK
  <1>7. QED
    BY <1>2, <1>3, <1>4, <1>5, <1>6 DEF Grows

LEMMA ClockAndSeedGrow ==
    ASSUME IInv, Tick \/ Seed \/ UNCHANGED vars
    PROVE  Grows /\ TypeOK'
  <1>1. TypeOK
    BY DEF IInv
  <1>2. CASE Tick
    BY <1>1, <1>2 DEF Tick, Grows, TypeOK, Dead
  <1>3. CASE Seed
    BY <1>1, <1>3 DEF Seed, Grows, TypeOK, Dead
  <1>4. CASE UNCHANGED vars
    BY <1>1, <1>4 DEF vars, Grows, TypeOK, Dead
  <1>5. QED
    BY <1>2, <1>3, <1>4

LEMMA OthersKnow ==
    ASSUME IInv, NEW g \in Handlers, Grows, TypeOK', call'[g] = call[g]
    PROVE  Known(g)'
  <1>1. Known(g) /\ TokenInv /\ TypeOK /\ call[g] \in Call
    BY DEF IInv, TypeOK
  <1>2. \A t \in Tokens : claims[t].account \in Members => Signed(t)
    BY AccountsAssumption, NoneAssumption DEF Signed, Unsigned
  <1>3. \A t \in Tokens : Signed(t) => Signed(t)'
    BY DEF Grows, Signed
  <1>4. call[g].fresh \in Tokens => claims[call[g].fresh].exp \in Nat
    BY <1>1 DEF TypeOK, Claims
  <1>5. call[g].pc \in {"create", "update"} => claims'[call[g].fresh].exp <= now' + RefreshTtl
    <2>1. SUFFICES ASSUME call[g].pc \in {"create", "update"}
                   PROVE  claims'[call[g].fresh].exp <= now' + RefreshTtl
      OBVIOUS
    <2>2. claims'[call[g].fresh] = claims[call[g].fresh] /\ call[g].fresh \in Tokens
      BY <1>1, <1>2, <2>1 DEF Known, Grows
    <2>3. claims[call[g].fresh].exp <= now + RefreshTtl
      BY <1>1, <2>1 DEF Known
    <2>4. QED
      BY <1>1, <1>4, <2>2, <2>3, ClockAssumption DEF Grows, TypeOK
  <1>6. QED
    BY <1>1, <1>2, <1>3, <1>5 DEF Known, Grows

\* A token that was dead on arrival finds no session.
LEMMA DeadNotUsable ==
    ASSUME IInv, NEW t \in Tokens, Dead(t), NEW s \in Sessions
    PROVE  ~Usable(s, t)
  <1>1. SUFFICES ASSUME session[s].token = t, ~session[s].revoked
                 PROVE  FALSE
    BY DEF Usable
  <1>2. t # None
    BY NoneAssumption
  <1>3. t \notin spent
    BY <1>1, <1>2 DEF IInv, TokenInv
  <1>4. PICK r \in Sessions : session[r].token = t /\ session[r].revoked
    BY <1>3 DEF Dead
  <1>5. r = s
    BY <1>1, <1>2, <1>4 DEF IInv, SessionIdentity
  <1>6. QED
    BY <1>1, <1>4, <1>5

LEMMA KnownStep ==
    ASSUME IInv, NEW h \in Handlers, Act(h)
    PROVE  Known(h)'
  <1>1. /\ TypeOK /\ TypeOK' /\ Grows /\ Known(h) /\ call[h] \in Call
        /\ call[h].pc \notin {"idle", "find"} => call[h].dead = FALSE
    BY TypeStep, Growth DEF IInv, TypeOK, Known, Call
  <1>2. \A t \in Tokens : claims[t].account \in Members => Signed(t)
    BY AccountsAssumption, NoneAssumption DEF Signed, Unsigned
  <1>3. ASSUME call'[h] = Idle PROVE Known(h)'
    BY <1>3 DEF Known, Idle
  <1>4. CASE CallLogin(h)
    <2>1. PICK a \in Accounts : call'[h] =
            [Idle EXCEPT !.op = "login", !.pc = "credentials", !.account = a]
      BY <1>1, <1>4 DEF CallLogin, TypeOK
    <2>2. /\ call'[h].op = "login" /\ call'[h].pc = "credentials" /\ call'[h].token = None
          /\ call'[h].rights = {} /\ call'[h].dead = FALSE
      BY <2>1 DEF Idle
    <2>3. QED
      BY <2>2 DEF Known
  <1>5. CASE Authenticate(h)
    <2>1. CASE call'[h] = Idle
      BY <1>3, <2>1
    <2>2. CASE call'[h] # Idle
      <3>1. /\ call[h].pc = "credentials" /\ call[h].account \in Members
            /\ call' = [call EXCEPT ![h].pc = "sign", ![h].rights = granted]
        BY <1>1, <1>5, <2>2 DEF Authenticate, Answer, TypeOK
      <3>2. /\ call'[h].pc = "sign" /\ call'[h].rights = granted /\ call'[h].op = "login"
            /\ call'[h].token = None /\ call'[h].account = call[h].account
            /\ call'[h].dead = FALSE
        BY <1>1, <3>1 DEF TypeOK, Call, Known
      <3>3. QED
        BY <1>1, <3>1, <3>2 DEF Known, Grows
    <2>3. QED
      BY <2>1, <2>2
  <1>6. CASE CreateSession(h) \/ UpdateSession(h)
    <2>1. /\ Writing(h) /\ call' = [call EXCEPT ![h].pc = "answer"] /\ claims' = claims
      BY <1>6 DEF CreateSession, UpdateSession, Goto, Writing
    <2>2. /\ call'[h].pc = "answer" /\ call'[h].op = call[h].op /\ call'[h].token = call[h].token
          /\ call'[h].fresh = call[h].fresh /\ call'[h].rights = call[h].rights
          /\ call'[h].dead = FALSE
      BY <1>1, <2>1 DEF TypeOK, Call, Writing
    <2>3. call[h].fresh \in Tokens /\ Signed(call[h].fresh)
      BY <1>1, <1>2, <2>1 DEF Known, Writing
    <2>4. QED
      BY <1>1, <2>1, <2>2, <2>3 DEF Known, Grows, Signed
  <1>7. CASE CallRefresh(h)
    <2>1. PICK t \in held :
            call'[h] = [Idle EXCEPT !.op = "refresh", !.pc = "find", !.token = t,
                                    !.account = claims[t].account, !.rights = claims[t].rights,
                                    !.dead = Dead(t)]
      BY <1>1, <1>7 DEF CallRefresh, TypeOK
    <2>2. /\ call'[h].op = "refresh" /\ call'[h].pc = "find" /\ call'[h].token = t
          /\ call'[h].account = claims[t].account /\ call'[h].rights = claims[t].rights
          /\ call'[h].dead = Dead(t)
      BY <2>1 DEF Idle
    <2>3. t \in Tokens /\ Signed(t) /\ claims[t].rights \subseteq granted
      BY DEF IInv, TypeOK, TokenInv, SessionIdentity
    <2>4. claims'[t] = claims[t] /\ (Dead(t) => Dead(t)') /\ granted \subseteq granted'
      BY <1>1, <2>3 DEF Grows
    <2>5. QED
      BY <2>2, <2>3, <2>4 DEF Known, Signed
  <1>8. CASE FindSession(h)
    <2>1. CASE call'[h] = Idle
      BY <1>3, <2>1
    <2>2. CASE call'[h] # Idle
      <3>1. PICK s \in Sessions : /\ call[h].pc = "find"
              /\ Usable(s, call[h].token)
              /\ call' = [call EXCEPT ![h].pc = "sign", ![h].session = s]
        BY <1>1, <1>8, <2>2 DEF FindSession, Answer, TypeOK
      <3>2. /\ call'[h].pc = "sign" /\ call'[h].session = s /\ call'[h].op = call[h].op
            /\ call'[h].token = call[h].token /\ call'[h].account = call[h].account
            /\ call'[h].rights = call[h].rights /\ call'[h].dead = call[h].dead
        BY <1>1, <3>1 DEF TypeOK, Call
      <3>3. /\ call[h].op = "refresh" /\ call[h].token \in Tokens /\ call[h].token # None
            /\ call[h].account = claims[call[h].token].account
        BY <1>1, <3>1, NoneAssumption DEF Known
      <3>4. ~call[h].dead
        BY <1>1, <3>1, <3>3, DeadNotUsable DEF Known
      <3>5. /\ session[s].token = call[h].token /\ session[s].account = call[h].account
            /\ call[h].account \in Members
        BY <3>1, <3>3 DEF Usable, IInv, SessionIdentity
      <3>6. session'[s].token # None /\ session'[s].account = call[h].account
        BY <1>1, <3>3, <3>5 DEF Grows
      <3>7. call[h].rights \subseteq granted'
        BY <1>1 DEF Known, Grows
      <3>8. QED
        BY <3>2, <3>3, <3>4, <3>5, <3>6, <3>7 DEF Known
    <2>3. QED
      BY <2>1, <2>2
  <1>9. CASE Sign(h)
    <2>1. PICK t \in Tokens :
            /\ call[h].pc = "sign"
            /\ claims' = [claims EXCEPT ![t] =
                 [account |-> call[h].account, rights |-> call[h].rights,
                  exp |-> now + RefreshTtl, from |-> call[h].token]]
            /\ call' = [call EXCEPT ![h].fresh = t,
                        ![h].pc = IF call[h].op = "login" THEN "create" ELSE "update"]
            /\ UNCHANGED <<session, granted, now>>
      BY <1>9 DEF Sign
    <2>2. /\ call'[h].pc = IF call[h].op = "login" THEN "create" ELSE "update"
          /\ call'[h].fresh = t /\ call'[h].op = call[h].op /\ call'[h].token = call[h].token
          /\ call'[h].account = call[h].account /\ call'[h].rights = call[h].rights
          /\ call'[h].session = call[h].session /\ call'[h].dead = FALSE
      BY <1>1, <2>1 DEF TypeOK, Call
    <2>3. /\ claims'[t].account = call[h].account /\ claims'[t].from = call[h].token
          /\ claims'[t].exp = now' + RefreshTtl
      BY <1>1, <2>1 DEF TypeOK
    <2>4. claims'[t].exp <= now' + RefreshTtl
      BY <1>1, <2>1, <2>3, ClockAssumption DEF TypeOK
    <2>5. /\ call[h].op \in {"login", "refresh"} /\ call[h].account \in Members
          /\ call[h].rights \subseteq granted'
          /\ call[h].op = "login" => call[h].token = None
      BY <1>1, <2>1 DEF Known
    <2>6. call[h].op = "refresh" =>
            /\ call[h].token \in Tokens /\ call[h].session \in Sessions
            /\ session'[call[h].session].token # None
            /\ session'[call[h].session].account = call[h].account
      BY <1>1, <2>1 DEF Known
    <2>7. QED
      BY <2>2, <2>3, <2>4, <2>5, <2>6 DEF Known
  <1>10. CASE Reply(h) \/ Fail(h)
    <2>1. call'[h] = Idle
      BY <1>1, <1>10 DEF Reply, Fail, Answer, TypeOK
    <2>2. QED
      BY <1>3, <2>1
  <1>11. CASE Logout(h)
    <2>1. call'[h] = call[h]
      BY <1>11 DEF Logout
    <2>2. QED
      BY <1>1, <2>1, OthersKnow
  <1>12. QED
    BY <1>4, <1>5, <1>6, <1>7, <1>8, <1>9, <1>10, <1>11 DEF Act

\* Who signs, who writes a row and who neither does.
LEMMA SignStep ==
    ASSUME IInv, NEW h \in Handlers, Sign(h)
    PROVE  /\ call'[h].fresh \in Tokens /\ ~Signed(call'[h].fresh)
           /\ claims'[call'[h].fresh].account \in Members
           /\ claims'[call'[h].fresh].rights \subseteq granted
           /\ \A t \in Tokens \ {call'[h].fresh} : claims'[t] = claims[t]
           /\ UNCHANGED <<session, granted, spent, held, lost>>
  <1>1. PICK t \in Tokens :
          /\ call[h].pc = "sign" /\ claims[t] = Unsigned
          /\ claims' = [claims EXCEPT ![t] =
               [account |-> call[h].account, rights |-> call[h].rights,
                exp |-> now + RefreshTtl, from |-> call[h].token]]
          /\ call' = [call EXCEPT ![h].fresh = t,
                      ![h].pc = IF call[h].op = "login" THEN "create" ELSE "update"]
    BY DEF Sign
  <1>2. call'[h].fresh = t
    BY <1>1 DEF IInv, TypeOK, Call
  <1>3. claims'[t].account = call[h].account /\ claims'[t].rights = call[h].rights
    BY <1>1 DEF IInv, TypeOK
  <1>4. call[h].account \in Members /\ call[h].rights \subseteq granted
    BY <1>1 DEF IInv, Known
  <1>5. QED
    BY <1>1, <1>2, <1>3, <1>4 DEF Sign, Signed, IInv, TypeOK

\* A row that gets a token gets one that was signed for its account, is
\* nobody else's, and expires no later than the row.
LEMMA WriteStep ==
    ASSUME IInv, NEW h \in Handlers, CreateSession(h) \/ UpdateSession(h)
    PROVE  /\ call[h].fresh \in Tokens /\ Signed(call[h].fresh)
           /\ call[h].fresh \notin spent /\ ~Current(call[h].fresh)
           /\ claims[call[h].fresh].account = call[h].account /\ call[h].account \in Members
           /\ claims[call[h].fresh].exp <= now + RefreshTtl
           /\ call'[h].pc = "answer" /\ call'[h].fresh = call[h].fresh
           /\ UNCHANGED <<claims, held, lost, granted>>
  <1>1. Writing(h) /\ call' = [call EXCEPT ![h].pc = "answer"]
    BY DEF CreateSession, UpdateSession, Goto, Writing
  <1>2. Known(h)
    BY DEF IInv
  <1>3. /\ call[h].fresh \in Tokens /\ claims[call[h].fresh].account = call[h].account
        /\ call[h].account \in Members
        /\ claims[call[h].fresh].exp <= now + RefreshTtl
    BY <1>1, <1>2 DEF Known, Writing
  <1>4. Signed(call[h].fresh)
    BY <1>3, AccountsAssumption, NoneAssumption DEF Signed, Unsigned
  <1>5. QED
    BY <1>1, <1>3, <1>4 DEF IInv, TypeOK, FreshInv, CreateSession, UpdateSession, Call

LEMMA SpentStep ==
    ASSUME IInv, NEW h \in Handlers, Act(h)
    PROVE  spent' = IF UpdateSession(h) THEN spent \cup {session[call[h].session].token} ELSE spent
  BY DEF Act, CallLogin, Authenticate, CreateSession, CallRefresh, FindSession, Sign,
     UpdateSession, Reply, Logout, Fail

LEMMA TokenStep ==
    ASSUME IInv, NEW h \in Handlers, Act(h)
    PROVE  TokenInv'
  <1>1. TypeOK /\ TypeOK' /\ Grows /\ TokenInv
    BY TypeStep, Growth DEF IInv
  <1>2. ASSUME NEW t \in Tokens, Signed(t)' PROVE claims'[t].account \in Members
    <2>1. CASE Signed(t)
      BY <1>1, <2>1 DEF Grows, TokenInv
    <2>2. CASE ~Signed(t)
      <3>1. Sign(h)
        BY <1>2, <2>2 DEF Signed, Act, CallLogin, Authenticate, CreateSession, CallRefresh,
           FindSession, UpdateSession, Reply, Logout, Fail
      <3>2. QED
        BY <1>2, <2>2, <3>1, SignStep DEF Signed
    <2>3. QED
      BY <2>1, <2>2
  <1>3. ASSUME NEW t \in held' \cup spent' PROVE Signed(t)'
    <2>1. t \in Tokens
      BY <1>1 DEF TypeOK
    <2>2. Signed(t)
      <3>1. CASE t \in held \cup spent
        BY <1>1, <3>1 DEF TokenInv
      <3>2. CASE t \in held' /\ t \notin held
        <4>1. Reply(h) /\ t = call[h].fresh
          BY <3>2 DEF Act, CallLogin, Authenticate, CreateSession, CallRefresh, FindSession, Sign,
             UpdateSession, Reply, Logout, Fail, Answered
        <4>2. QED
          BY <4>1 DEF Reply, IInv, Known
      <3>3. CASE t \in spent' /\ t \notin spent
        <4>1. UpdateSession(h) /\ t = session[call[h].session].token
          BY <3>3, SpentStep
        <4>2. QED
          BY <1>1, <2>1, <4>1, UpdatesRow, NoneAssumption DEF TokenInv
      <3>4. QED
        BY <1>3, <3>1, <3>2, <3>3
    <2>3. QED
      BY <1>1, <2>1, <2>2 DEF Grows, Signed
  <1>4. ASSUME NEW s \in Sessions, session'[s].token # None
        PROVE  (Signed(session[s].token) /\ session[s].token \notin spent)'
    <2>1. session'[s].token \in Tokens
      BY <1>1, <1>4 DEF TypeOK, Row
    <2>2. CASE session'[s].token = session[s].token
      <3>1. Signed(session[s].token) /\ session[s].token \notin spent
        BY <1>1, <1>4, <2>2 DEF TokenInv
      <3>2. session[s].token \notin spent'
        <4>1. ASSUME UpdateSession(h), session[s].token = session[call[h].session].token
              PROVE  FALSE
          <5>1. s = call[h].session
            BY <1>4, <2>2, <4>1, UpdatesRow DEF IInv, SessionIdentity
          <5>2. session'[s].token = call[h].fresh
            BY <1>1, <4>1, <5>1, UpdatesRow DEF TypeOK
          <5>3. QED
            BY <2>2, <4>1, <5>2, WriteStep DEF Current
        <4>2. QED
          BY <3>1, <4>1, SpentStep
      <3>3. QED
        BY <1>1, <2>1, <2>2, <3>1, <3>2 DEF Grows, Signed
    <2>3. CASE session'[s].token # session[s].token
      <3>1. (CreateSession(h) \/ UpdateSession(h)) /\ session'[s].token = call[h].fresh
        BY <2>3, SessionStep
      <3>2. call[h].fresh \notin spent'
        BY <3>1, WriteStep, SpentStep, UpdatesRow DEF Current
      <3>3. QED
        BY <1>1, <2>1, <3>1, <3>2, WriteStep DEF Grows, Signed
    <2>4. QED
      BY <2>2, <2>3
  <1>5. QED
    BY <1>2, <1>3, <1>4 DEF TokenInv

LEMMA FreshStep ==
    ASSUME IInv, NEW h \in Handlers, Act(h)
    PROVE  FreshInv'
  <1>1. TypeOK /\ TokenInv /\ FreshInv /\ \A g \in Handlers \ {h} : call'[g] = call[g]
    BY Step DEF IInv
  <1>2. \A g \in Handlers : Writing(g) => call[g].fresh \in Tokens /\ Signed(call[g].fresh)
    BY AccountsAssumption, NoneAssumption DEF IInv, Known, Writing, Signed, Unsigned
  <1>3. Writing(h)' => Sign(h)
    <2>1. CASE Reply(h) \/ Fail(h)
      BY <1>1, <2>1 DEF Reply, Fail, Answer, Idle, TypeOK, Writing
    <2>2. CASE CallLogin(h)
      BY <1>1, <2>2 DEF CallLogin, Idle, TypeOK, Writing
    <2>3. CASE CallRefresh(h)
      <3>1. PICK t \in held :
              call'[h] = [Idle EXCEPT !.op = "refresh", !.pc = "find", !.token = t,
                                      !.account = claims[t].account, !.rights = claims[t].rights,
                                      !.dead = Dead(t)]
        BY <1>1, <2>3 DEF CallRefresh, TypeOK
      <3>2. QED
        BY <3>1 DEF Idle, Writing
    <2>4. CASE Authenticate(h) \/ FindSession(h)
      BY <1>1, <2>4 DEF Authenticate, FindSession, Answer, Idle, TypeOK, Call, Writing
    <2>5. CASE CreateSession(h) \/ UpdateSession(h)
      BY <2>5, WriteStep DEF Writing
    <2>6. CASE Logout(h)
      BY <2>6 DEF Logout, Writing
    <2>7. QED
      BY <2>1, <2>2, <2>3, <2>4, <2>5, <2>6 DEF Act
  <1>4. ASSUME NEW g \in Handlers, Writing(g)'
        PROVE  (call[g].fresh \notin spent /\ ~Current(call[g].fresh))'
    <2>1. CASE g = h
      <3>1. Sign(h)
        BY <1>3, <1>4, <2>1
      <3>2. call'[h].fresh \in Tokens /\ ~Signed(call'[h].fresh) /\ session' = session /\ spent' = spent
        BY <3>1, SignStep
      <3>3. call'[h].fresh # None
        BY <3>2, NoneAssumption
      <3>4. QED
        BY <1>1, <2>1, <3>2, <3>3 DEF TokenInv, Current
    <2>2. CASE g # h
      <3>1. Writing(g) /\ call'[g] = call[g]
        BY <1>1, <1>4, <2>2 DEF Writing
      <3>2. call[g].fresh \notin spent /\ ~Current(call[g].fresh)
        BY <1>1, <3>1 DEF FreshInv
      <3>3. call[g].fresh \notin spent'
        BY <3>2, SpentStep, UpdatesRow DEF Current
      <3>4. ASSUME NEW s \in Sessions, session'[s].token = call[g].fresh PROVE FALSE
        <4>1. session[s].token # call[g].fresh
          BY <3>2 DEF Current
        <4>2. (CreateSession(h) \/ UpdateSession(h)) /\ call[g].fresh = call[h].fresh
          BY <3>4, <4>1, SessionStep
        <4>3. Writing(h)
          BY <4>2 DEF CreateSession, UpdateSession, Writing
        <4>4. QED
          BY <1>1, <2>2, <3>1, <4>2, <4>3 DEF FreshInv
      <3>5. QED
        BY <3>1, <3>3, <3>4 DEF Current
    <2>3. QED
      BY <2>1, <2>2
  <1>5. ASSUME NEW f \in Handlers, NEW g \in Handlers, Writing(f)', Writing(g)',
               call'[f].fresh = call'[g].fresh
        PROVE  f = g
    <2>1. ASSUME NEW k \in Handlers \ {h}, Writing(k)', Writing(h)'
          PROVE  call'[k].fresh # call'[h].fresh
      <3>1. Writing(k) /\ call'[k] = call[k] /\ Sign(h)
        BY <1>1, <1>3, <2>1 DEF Writing
      <3>2. QED
        BY <1>2, <3>1, SignStep
    <2>2. CASE f # h /\ g # h
      BY <1>1, <1>5, <2>2 DEF FreshInv, Writing
    <2>3. QED
      BY <1>5, <2>1, <2>2
  <1>6. QED
    BY <1>4, <1>5 DEF FreshInv

LEMMA IdentityStep ==
    ASSUME IInv, NEW h \in Handlers, Act(h)
    PROVE  SessionIdentity'
  <1>1. TypeOK /\ TypeOK' /\ Grows /\ TokenInv /\ SessionIdentity
    BY TypeStep, Growth DEF IInv
  <1>2. ASSUME NEW s \in Sessions, session'[s].token # None
        PROVE  LET c == claims'[session'[s].token] IN
               /\ session'[s].account = c.account /\ c.account \in Members
               /\ c.exp <= session'[s].expiresAt
    <2>1. CASE session'[s].token = session[s].token /\ session'[s].expiresAt = session[s].expiresAt
      <3>1. Signed(session[s].token) /\ session[s].token \in Tokens
        BY <1>1, <1>2, <2>1 DEF TokenInv, TypeOK, Row
      <3>2. claims'[session[s].token] = claims[session[s].token]
        BY <1>1, <3>1 DEF Grows
      <3>3. session'[s].account = session[s].account
        BY <1>1, <1>2, <2>1 DEF Grows
      <3>4. QED
        BY <1>1, <1>2, <2>1, <3>2, <3>3 DEF SessionIdentity
    <2>2. CASE ~(session'[s].token = session[s].token /\ session'[s].expiresAt = session[s].expiresAt)
      <3>1. /\ CreateSession(h) \/ UpdateSession(h)
            /\ session'[s].token = call[h].fresh /\ session'[s].account = call[h].account
            /\ session'[s].expiresAt = now + RefreshTtl
        <4>1. CASE UpdateSession(h)
          <5>1. /\ session' = [session EXCEPT ![call[h].session] = Rotated(h)]
                /\ session[call[h].session].account = call[h].account
            BY <4>1, UpdatesRow
          <5>2. session'[s] # session[s]
            BY <2>2
          <5>3. s = call[h].session
            BY <1>1, <5>1, <5>2 DEF TypeOK
          <5>4. QED
            BY <4>1, <5>1, <5>2, <5>3, SessionStep DEF UpdateSession, CreateSession, Logout
        <4>2. CASE CreateSession(h)
          BY <2>2, <4>2, SessionStep DEF UpdateSession, CreateSession, Logout
        <4>3. QED
          BY <2>2, <4>1, <4>2, SessionStep
      <3>2. QED
        BY <3>1, WriteStep
    <2>3. QED
      BY <2>1, <2>2
  <1>3. ASSUME NEW s \in Sessions, NEW r \in Sessions,
               session'[s].token = session'[r].token, session'[s].token # None
        PROVE  s = r
    <2>1. ASSUME NEW x \in Sessions, NEW y \in Sessions, x # y,
                 session'[x].token = session'[y].token, session'[x].token # session[x].token
          PROVE  FALSE
      <3>1. /\ CreateSession(h) \/ UpdateSession(h)
            /\ session'[x].token = call[h].fresh
        BY <2>1, SessionStep
      <3>2. session[y].token # call[h].fresh
        BY <3>1, WriteStep DEF Current
      <3>3. session'[y] = session[y]
        <4>1. CASE UpdateSession(h)
          BY <1>1, <2>1, <3>1, <4>1, <3>2, SessionStep, UpdatesRow DEF TypeOK, UpdateSession, CreateSession
        <4>2. CASE CreateSession(h)
          <5>1. PICK z \in Sessions : session' = [session EXCEPT ![z] =
             [account |-> call[h].account, token |-> call[h].fresh,
              expiresAt |-> now + RefreshTtl, revoked |-> FALSE]]
            BY <4>2 DEF CreateSession
          <5>2. x = z
            BY <1>1, <2>1, <5>1 DEF TypeOK
          <5>3. QED
            BY <1>1, <2>1, <5>1, <5>2 DEF TypeOK
        <4>3. QED
          BY <3>1, <4>1, <4>2
      <3>4. QED
        BY <2>1, <3>1, <3>2, <3>3
    <2>2. QED
      BY <1>1, <1>3, <2>1 DEF SessionIdentity
  <1>4. ASSUME NEW t \in Tokens PROVE claims'[t].rights \subseteq granted'
    <2>1. CASE claims'[t] = claims[t]
      BY <1>1, <2>1 DEF SessionIdentity, Grows
    <2>2. CASE claims'[t] # claims[t]
      <3>1. Sign(h)
        BY <2>2 DEF Act, CallLogin, Authenticate, CreateSession, CallRefresh, FindSession,
           UpdateSession, Reply, Logout, Fail
      <3>2. QED
        BY <2>2, <3>1, SignStep
    <2>3. QED
      BY <2>1, <2>2
  <1>5. QED
    BY <1>2, <1>3, <1>4 DEF SessionIdentity

LEMMA ReachableStep ==
    ASSUME IInv, NEW h \in Handlers, Act(h)
    PROVE  SessionReachable'
  <1>1. TypeOK /\ SessionReachable /\ \A g \in Handlers \ {h} : call'[g] = call[g]
    BY Step DEF IInv
  <1>2. held \subseteq held' /\ lost \subseteq lost'
    BY DEF Act, CallLogin, Authenticate, CreateSession, CallRefresh, FindSession, Sign,
       UpdateSession, Reply, Logout, Fail
  <1>3. ASSUME NEW s \in Sessions, session'[s].token # None
        PROVE  \/ session'[s].token \in held' \cup lost'
               \/ \E g \in Handlers : call'[g].pc = "answer" /\ call'[g].fresh = session'[s].token
    <2>1. CASE session'[s].token = session[s].token
      <3>1. CASE session[s].token \in held \cup lost
        BY <1>2, <2>1, <3>1
      <3>2. ASSUME NEW g \in Handlers, call[g].pc = "answer", call[g].fresh = session[s].token
            PROVE  \/ session'[s].token \in held' \cup lost'
                   \/ call'[g].pc = "answer" /\ call'[g].fresh = session'[s].token
        <4>1. CASE g = h
          <5>1. Reply(h) \/ Fail(h)
            BY <3>2, <4>1 DEF Act, CallLogin, Authenticate, CreateSession, CallRefresh,
               FindSession, Sign, UpdateSession, Reply, Logout, Fail
          <5>2. QED
            BY <1>3, <2>1, <3>2, <4>1, <5>1 DEF Reply, Fail, Answered
        <4>2. CASE g # h
          BY <1>1, <2>1, <3>2, <4>2
        <4>3. QED
          BY <4>1, <4>2
      <3>3. QED
        BY <1>1, <1>3, <2>1, <3>1, <3>2 DEF SessionReachable
    <2>2. CASE session'[s].token # session[s].token
      BY <2>2, SessionStep, WriteStep
    <2>3. QED
      BY <2>1, <2>2
  <1>4. QED
    BY <1>3 DEF SessionReachable

LEMMA InvariantStep == IInv /\ [Next]_vars => IInv'
  <1>1. ASSUME IInv, NEW h \in Handlers, Act(h) PROVE IInv'
    <2>1. \A g \in Handlers : Known(g)'
      <3>1. ASSUME NEW g \in Handlers \ {h} PROVE Known(g)'
        BY <1>1, Growth, TypeStep, Step, OthersKnow DEF IInv
      <3>2. QED
        BY <1>1, <3>1, KnownStep
    <2>2. QED
      BY <1>1, <2>1, TypeStep, TokenStep, FreshStep, IdentityStep, ReachableStep DEF IInv
  <1>2. ASSUME IInv, Tick \/ Seed \/ UNCHANGED vars PROVE IInv'
    <2>1. Grows /\ TypeOK'
      BY <1>2, ClockAndSeedGrow
    <2>2. UNCHANGED <<session, claims, call, held, spent, lost>> /\ granted \subseteq granted'
      BY <1>2 DEF Tick, Seed, vars
    <2>3. \A g \in Handlers : Known(g)'
      BY <1>2, <2>1, <2>2, OthersKnow
    <2>4. (TokenInv /\ FreshInv /\ SessionReachable)'
      BY <1>2, <2>2 DEF IInv, TokenInv, FreshInv, SessionReachable, Signed, Current, Writing
    <2>5. SessionIdentity'
      BY <1>2, <2>2 DEF IInv, SessionIdentity
    <2>6. QED
      BY <2>1, <2>3, <2>4, <2>5 DEF IInv
  <1>3. QED
    BY <1>1, <1>2 DEF Next, Act

\* The invariant holds whatever calls arrive, interleave and fail.
THEOREM Invariant == Spec => []IInv
  BY InitInvariant, InvariantStep, PTL DEF Spec

\* Sessions, tokens and calls keep their types.
THEOREM TypesKept == Spec => []TypeOK
  <1>1. IInv => TypeOK
    BY DEF IInv
  <1>2. QED
    BY <1>1, Invariant, PTL

\* refresh refuses a token that was dead when the call arrived, however many
\* refreshes and logouts are in flight.
THEOREM DeadTokensRefused == Spec => []DeadTokenRefused
  <1>1. IInv => DeadTokenRefused
    BY DEF IInv, Known, DeadTokenRefused
  <1>2. QED
    BY <1>1, Invariant, PTL

\* Row and token name one member, the row outlives the token, and no token
\* claims a permission the role was never given.
THEOREM OneIdentity == Spec => []SessionIdentity
  <1>1. IInv => SessionIdentity
    BY DEF IInv
  <1>2. QED
    BY <1>1, Invariant, PTL

\* The current token of a session is with a client, on its way, or lost with
\* a call that failed.
THEOREM NoSessionStranded == Spec => []SessionReachable
  <1>1. IInv => SessionReachable
    BY DEF IInv
  <1>2. QED
    BY <1>1, Invariant, PTL

----------------------------------------------------------------------------
\* Every step is a step of SessionLedger or leaves it alone.

\* A call that neither gets nor loses a grant leaves the grants alone.
LEMMA GrantsKept ==
    ASSUME TypeOK, NEW h \in Handlers, \A g \in Handlers \ {h} : call'[g] = call[g],
           ~Granted(h), ~Granted(h)'
    PROVE  UNCHANGED Grants
  <1>1. ASSUME NEW g \in Handlers PROVE Grants[g] = Grants'[g]
    <2>1. CASE g = h
      BY <2>1 DEF Grants
    <2>2. CASE g # h
      BY <2>2 DEF Grants, Granted
    <2>3. QED
      BY <2>1, <2>2
  <1>2. QED
    BY <1>1 DEF Grants

\* What is committed was signed, so that signing another token exchanges none.
LEMMA CommittedSigned ==
    ASSUME IInv
    PROVE  /\ Committed \subseteq Tokens
           /\ \A t \in Committed : Signed(t)
  <1>1. /\ spent \subseteq Tokens /\ \A t \in spent : Signed(t)
        /\ \A s \in Sessions : session[s] \in Row
    BY DEF IInv, TypeOK, TokenInv
  <1>2. ASSUME NEW s \in Sessions, Live(s)
        PROVE  session[s].token \in Tokens /\ Signed(session[s].token)
    BY <1>1, <1>2 DEF IInv, TokenInv, Row, Live
  <1>3. QED
    BY <1>1, <1>2 DEF Committed

\* The row a login creates or a refresh rotates gives its session a new token.
LEMMA CommitsFresh ==
    ASSUME IInv, NEW h \in Handlers, CreateSession(h) \/ UpdateSession(h)
    PROVE  /\ call[h].fresh \notin Committed
           /\ Committed' = Committed \cup {call[h].fresh}
           /\ Revoked' = Revoked
           /\ \E s \in Sessions :
                /\ CreateSession(h) => session[s].token = None
                /\ UpdateSession(h) => s = call[h].session
                /\ Currents' = [Currents EXCEPT ![s] = call[h].fresh]
  <1>1. /\ call[h].fresh \in Tokens /\ call[h].fresh # None
        /\ call[h].fresh \notin spent /\ ~Current(call[h].fresh)
    BY WriteStep, NoneAssumption
  <1>2. call[h].fresh \notin Committed
    BY <1>1 DEF Committed, Current
  <1>3. PICK s \in Sessions, r \in Row :
          /\ session' = [session EXCEPT ![s] = r]
          /\ r.token = call[h].fresh /\ r.revoked = session[s].revoked
          /\ spent' = spent \cup ({session[s].token} \ {None})
          /\ CreateSession(h) => session[s].token = None
          /\ UpdateSession(h) => s = call[h].session
    <2>1. CASE CreateSession(h)
      <3>1. PICK s \in Sessions : session[s] = NoRow /\ session' = [session EXCEPT ![s] =
              [account |-> call[h].account, token |-> call[h].fresh,
               expiresAt |-> now + RefreshTtl, revoked |-> FALSE]]
        BY <2>1 DEF CreateSession
      <3>2. [account |-> call[h].account, token |-> call[h].fresh,
             expiresAt |-> now + RefreshTtl, revoked |-> FALSE] \in Row
        BY <1>1, ClockAssumption DEF IInv, TypeOK, Call, Row
      <3>3. ~UpdateSession(h) /\ spent' = spent
        BY <2>1 DEF CreateSession, UpdateSession
      <3>4. /\ session[s].token = None /\ session[s].revoked = FALSE
            /\ spent' = spent \cup ({session[s].token} \ {None})
        BY <3>1, <3>3 DEF NoRow
      <3>5. QED
        BY <2>1, <3>1, <3>2, <3>3, <3>4
    <2>2. CASE UpdateSession(h)
      <3>1. /\ call[h].session \in Sessions
            /\ session[call[h].session].token \in Tokens
            /\ Rotated(h) \in Row /\ Rotated(h).token = call[h].fresh
            /\ session' = [session EXCEPT ![call[h].session] = Rotated(h)]
        BY <2>2, UpdatesRow
      <3>2. Rotated(h).revoked = session[call[h].session].revoked
        BY <3>1 DEF Rotated, IInv, TypeOK, Row
      <3>3. ~CreateSession(h) /\ spent' = spent \cup {session[call[h].session].token}
        BY <2>2 DEF CreateSession, UpdateSession
      <3>4. QED
        BY <3>1, <3>2, <3>3, NoneAssumption
    <2>3. QED
      BY <2>1, <2>2
  <1>4. /\ session'[s] = r /\ \A z \in Sessions \ {s} : session'[z] = session[z]
        /\ DOMAIN session = Sessions
    BY <1>3 DEF IInv, TypeOK
  <1>5. Currents' = [Currents EXCEPT ![s] = call[h].fresh]
    BY <1>3, <1>4 DEF Currents
  <1>6. Revoked' = Revoked
    BY <1>3, <1>4 DEF Revoked
  <1>7. Committed' = Committed \cup {call[h].fresh}
    BY <1>1, <1>3, <1>4 DEF Committed, Live
  <1>8. QED
    BY <1>2, <1>3, <1>5, <1>6, <1>7

\* A login opens a session under the token it signed.
LEMMA CreateOpens ==
    ASSUME IInv, NEW h \in Handlers, CreateSession(h)
    PROVE  \E s \in Sessions, t \in Tokens : Ledger!Open(s, t)
  <1>1. /\ call[h].fresh \in Tokens /\ call[h].fresh \notin Committed /\ claims' = claims
        /\ Committed' = Committed \cup {call[h].fresh} /\ Revoked' = Revoked
    BY WriteStep, CommitsFresh
  <1>2. PICK s \in Sessions :
          /\ session[s].token = None
          /\ Currents' = [Currents EXCEPT ![s] = call[h].fresh]
    BY CommitsFresh
  <1>3. claims[call[h].fresh].from = None /\ call[h].op = "login" /\ call[h].pc = "create"
    BY DEF IInv, Known, CreateSession
  <1>4. Exchanged' = Exchanged
    BY <1>1, <1>3 DEF Exchanged
  <1>5. TypeOK /\ \A g \in Handlers \ {h} : call'[g] = call[g]
    BY Step DEF IInv, Act
  <1>6. Grants' = Grants
    BY <1>3, <1>5, GrantsKept, WriteStep DEF Granted
  <1>7. Currents[s] = None
    BY <1>2 DEF Currents
  <1>8. QED
    BY <1>1, <1>2, <1>4, <1>6, <1>7 DEF Ledger!Open

\* A refresh that found a usable session is granted an exchange of its token.
LEMMA FindGrants ==
    ASSUME IInv, NEW h \in Handlers, FindSession(h)
    PROVE  (\E s \in Sessions : Ledger!Grant(h, s)) \/ UNCHANGED Ledger!ledger
  <1>1. TypeOK /\ \A g \in Handlers \ {h} : call'[g] = call[g]
    BY Step DEF IInv, Act
  <1>2. /\ call[h].op = "refresh" /\ call[h].pc = "find" /\ call[h].token \in Tokens
        /\ call[h] \in Call
    BY DEF IInv, Known, FindSession, TypeOK
  <1>3. UNCHANGED <<Currents, Revoked, Exchanged, Committed>>
    BY DEF FindSession, Currents, Revoked, Exchanged, Committed, Live
  <1>4. CASE Answer(h)
    <2>1. ~Granted(h)' /\ ~Granted(h)
      BY <1>1, <1>2, <1>4 DEF Answer, Idle, Granted, TypeOK
    <2>2. QED
      BY <1>1, <1>3, <2>1, GrantsKept DEF Ledger!ledger
  <1>5. ASSUME NEW s \in Sessions, Usable(s, call[h].token),
               call' = [call EXCEPT ![h].pc = "sign", ![h].session = s]
        PROVE  Ledger!Grant(h, s)
    <2>1. /\ session[s].token = call[h].token /\ session[s].token # None
          /\ s \notin Revoked
      BY <1>2, <1>5, NoneAssumption DEF Usable, Revoked
    <2>2. Currents[s] = call[h].token /\ Currents[s] # None
      BY <2>1 DEF Currents
    <2>3. /\ call'[h].op = "refresh" /\ call'[h].pc = "sign"
          /\ call'[h].session = s /\ call'[h].token = call[h].token
      BY <1>1, <1>2, <1>5 DEF TypeOK, Call
    <2>4. Grants[h] = None /\ Grants'[h] = <<s, call[h].token>>
      BY <1>2, <2>3 DEF Grants, Granted
    <2>5. ASSUME NEW g \in Handlers \ {h} PROVE Grants'[g] = Grants[g]
      BY <1>1, <2>5 DEF Grants, Granted
    <2>6. Grants' = [Grants EXCEPT ![h] = <<s, Currents[s]>>]
      BY <2>2, <2>4, <2>5 DEF Grants
    <2>7. QED
      BY <1>3, <2>1, <2>2, <2>4, <2>6 DEF Ledger!Grant
  <1>6. QED
    BY <1>4, <1>5 DEF FindSession

\* The write of a refresh is the exchange it was granted, even after a
\* logout or after another refresh of the same token.
LEMMA UpdateExchanges ==
    ASSUME IInv, NEW h \in Handlers, UpdateSession(h)
    PROVE  \E t \in Tokens : Ledger!Exchange(h, t)
  <1> DEFINE t == call[h].fresh
  <1>1. /\ t \in Tokens /\ t \notin Committed /\ claims' = claims
        /\ Committed' = Committed \cup {t} /\ Revoked' = Revoked
        /\ Currents' = [Currents EXCEPT ![call[h].session] = t]
    BY WriteStep, CommitsFresh
  <1>2. /\ call[h].op = "refresh" /\ call[h].pc = "update" /\ claims[t].from = call[h].token
        /\ call[h].token \in Tokens /\ call[h].session \in Sessions
    BY DEF IInv, Known, UpdateSession
  <1>3. TypeOK /\ (\A g \in Handlers \ {h} : call'[g] = call[g]) /\ call'[h].pc = "answer"
    BY Step, WriteStep DEF IInv, Act
  <1>4. Grants[h] = <<call[h].session, call[h].token>> /\ Grants[h] # None
    BY <1>2, NoneAssumption DEF Grants, Granted
  <1>5. Grants' = [Grants EXCEPT ![h] = None]
    <2>1. ~Granted(h)' /\ \A g \in Handlers \ {h} : Grants'[g] = Grants[g]
      BY <1>3 DEF Granted, Grants
    <2>2. QED
      BY <2>1 DEF Grants
  <1>6. Exchanged' = Exchanged \cup {<<call[h].token, t>>}
    <2>1. claims[t].from # None
      BY <1>2, NoneAssumption
    <2>2. QED
      BY <1>1, <1>2, <2>1 DEF Exchanged
  <1>7. Grants[h][1] = call[h].session /\ Grants[h][2] = call[h].token
    BY <1>4
  <1>8. QED
    BY <1>1, <1>4, <1>5, <1>6, <1>7 DEF Ledger!Exchange

\* A logout revokes the one session of its token, if there is one.
LEMMA LogoutRevokes ==
    ASSUME IInv, NEW h \in Handlers, Logout(h)
    PROVE  (\E s \in Sessions : Ledger!Revoke(s)) \/ UNCHANGED Ledger!ledger
  <1>1. PICK t \in held : session' = [s \in Sessions |->
          IF session[s].token = t THEN [session[s] EXCEPT !.revoked = TRUE] ELSE session[s]]
    BY DEF Logout
  <1>2. TypeOK /\ t \in Tokens /\ t # None /\ \A s \in Sessions : session[s] \in Row
    BY <1>1, NoneAssumption DEF IInv, TypeOK
  <1>3. ASSUME NEW s \in Sessions
        PROVE  /\ session'[s].token = session[s].token
               /\ session'[s].revoked <=> session[s].revoked \/ session[s].token = t
    BY <1>1, <1>2 DEF Row
  <1>4. UNCHANGED <<Currents, Committed, Exchanged, Grants>>
    <2>1. UNCHANGED <<Currents, Committed, Grants>>
      BY <1>3 DEF Logout, Currents, Committed, Live, Grants, Granted
    <2>2. QED
      BY <2>1 DEF Logout, Exchanged
  <1>5. CASE \E s \in Sessions : session[s].token = t
    <2>1. PICK s \in Sessions : session[s].token = t
      BY <1>5
    <2>2. \A r \in Sessions : session[r].token = t => r = s
      BY <1>2, <2>1 DEF IInv, SessionIdentity
    <2>3. Revoked' = Revoked \cup {s}
      BY <1>3, <2>1, <2>2 DEF Revoked
    <2>4. Currents[s] # None
      BY <1>2, <2>1 DEF Currents
    <2>5. QED
      BY <1>4, <2>3, <2>4 DEF Ledger!Revoke
  <1>6. CASE ~\E s \in Sessions : session[s].token = t
    <2>1. Revoked' = Revoked
      BY <1>3, <1>6 DEF Revoked
    <2>2. QED
      BY <1>4, <2>1 DEF Ledger!ledger
  <1>7. QED
    BY <1>5, <1>6

\* A failed call gives its grant up, if it has one.
LEMMA FailGivesUp ==
    ASSUME IInv, NEW h \in Handlers, Fail(h)
    PROVE  Ledger!GiveUp(h)
  <1>1. TypeOK /\ (\A g \in Handlers \ {h} : call'[g] = call[g]) /\ ~Granted(h)'
    BY Step DEF IInv, Act, Fail, Answer, Idle, Granted, TypeOK
  <1>2. UNCHANGED <<Currents, Revoked, Committed, Exchanged>>
    BY DEF Fail, Currents, Revoked, Committed, Exchanged, Live
  <1>3. \A g \in Handlers \ {h} : Grants'[g] = Grants[g]
    BY <1>1 DEF Grants, Granted
  <1>4. Grants' = [Grants EXCEPT ![h] = None]
    BY <1>1, <1>3 DEF Grants
  <1>5. QED
    BY <1>2, <1>4 DEF Ledger!GiveUp

\* The other steps of a call are none of the ledger's.
LEMMA QuietStep ==
    ASSUME IInv, NEW h \in Handlers,
           CallLogin(h) \/ Authenticate(h) \/ CallRefresh(h) \/ Reply(h)
    PROVE  UNCHANGED Ledger!ledger
  <1>1. TypeOK /\ \A g \in Handlers \ {h} : call'[g] = call[g]
    BY Step DEF IInv, Act
  <1>2. UNCHANGED <<Currents, Revoked, Committed, Exchanged>>
    BY DEF CallLogin, Authenticate, CallRefresh, Reply, Currents, Revoked, Committed,
       Exchanged, Live
  <1>3. ~Granted(h)
    BY DEF IInv, Known, CallLogin, Authenticate, CallRefresh, Reply, Granted
  <1>4. ~Granted(h)'
    <2>1. CASE CallLogin(h)
      BY <1>1, <2>1 DEF CallLogin, Idle, TypeOK, Granted
    <2>2. CASE Authenticate(h)
      BY <1>1, <2>2 DEF Authenticate, Answer, Idle, TypeOK, Call, Granted, IInv, Known
    <2>3. CASE CallRefresh(h)
      <3>1. PICK t \in held :
              call'[h] = [Idle EXCEPT !.op = "refresh", !.pc = "find", !.token = t,
                                      !.account = claims[t].account, !.rights = claims[t].rights,
                                      !.dead = Dead(t)]
        BY <1>1, <2>3 DEF CallRefresh, TypeOK
      <3>2. QED
        BY <3>1 DEF Idle, Granted
    <2>4. CASE Reply(h)
      BY <1>1, <2>4 DEF Reply, Answer, Idle, TypeOK, Granted
    <2>5. QED
      BY <2>1, <2>2, <2>3, <2>4
  <1>5. QED
    BY <1>1, <1>2, <1>3, <1>4, GrantsKept DEF Ledger!ledger

\* Signing keeps the grant of a refresh and exchanges nothing yet.
LEMMA SignIsQuiet ==
    ASSUME IInv, NEW h \in Handlers, Sign(h)
    PROVE  UNCHANGED Ledger!ledger
  <1>1. TypeOK /\ \A g \in Handlers \ {h} : call'[g] = call[g]
    BY Step DEF IInv, Act
  <1>2. PICK t \in Tokens :
          /\ claims[t] = Unsigned
          /\ claims' = [claims EXCEPT ![t] =
               [account |-> call[h].account, rights |-> call[h].rights,
                exp |-> now + RefreshTtl, from |-> call[h].token]]
          /\ call' = [call EXCEPT ![h].fresh = t,
                          ![h].pc = IF call[h].op = "login" THEN "create" ELSE "update"]
    BY DEF Sign
  <1>3. UNCHANGED <<Currents, Revoked, Committed>>
    BY DEF Sign, Currents, Revoked, Committed, Live
  <1>4. ASSUME NEW u \in Committed PROVE claims'[u] = claims[u]
    BY <1>1, <1>2, <1>4, CommittedSigned DEF TypeOK, Signed
  <1>5. Exchanged' = Exchanged
    BY <1>3, <1>4 DEF Exchanged
  <1>6. /\ call'[h].op = call[h].op /\ call'[h].session = call[h].session
        /\ call'[h].token = call[h].token /\ call[h].pc = "sign"
        /\ call'[h].pc = IF call[h].op = "login" THEN "create" ELSE "update"
    BY <1>1, <1>2 DEF TypeOK, Call, Sign
  <1>7. Granted(h)' <=> Granted(h)
    BY <1>6 DEF Granted, IInv, Known
  <1>8. Grants' = Grants
    <2>1. ASSUME NEW g \in Handlers PROVE Grants'[g] = Grants[g]
      <3>1. CASE g = h
        BY <1>6, <1>7, <3>1 DEF Grants
      <3>2. CASE g # h
        BY <1>1, <3>2 DEF Grants, Granted
      <3>3. QED
        BY <3>1, <3>2
    <2>2. QED
      BY <2>1 DEF Grants
  <1>9. QED
    BY <1>3, <1>5, <1>8 DEF Ledger!ledger

\* The interleaved calls, dying at any await, implement the ledger.
THEOREM Refinement == Spec => ImplementsLedger
  <1>1. Init => Ledger!Init
    BY DEF Init, Ledger!Init, Currents, Revoked, Grants, Granted, Exchanged, Committed,
       Live, NoRow, Idle
  <1>2. IInv /\ [Next]_vars => [Ledger!Next]_(Ledger!ledger)
    <2> SUFFICES ASSUME IInv, [Next]_vars PROVE Ledger!Next \/ UNCHANGED Ledger!ledger
      OBVIOUS
    <2>1. ASSUME NEW h \in Handlers, Act(h) PROVE Ledger!Next \/ UNCHANGED Ledger!ledger
      BY <2>1, CreateOpens, FindGrants, UpdateExchanges, LogoutRevokes, FailGivesUp,
         QuietStep, SignIsQuiet DEF Act, Ledger!Next
    <2>2. CASE Tick \/ Seed \/ UNCHANGED vars
      BY <2>2 DEF Tick, Seed, vars, Ledger!ledger, Currents, Revoked, Grants, Granted,
         Exchanged, Committed, Live
    <2>3. QED
      BY <2>1, <2>2 DEF Next, Act
  <1>3. QED
    BY <1>1, <1>2, Invariant, PTL DEF Spec, ImplementsLedger, Ledger!Spec

----------------------------------------------------------------------------
\* One call at a time

\* What a refresh found is still there when it writes, and what is answered
\* was written.
Unraced(h) ==
    /\ Granted(h) => session[call[h].session].token = call[h].token
    /\ call[h].pc = "answer" => call[h].fresh \in Committed

\* Every rotation replaced the token it was asked with, and no two the same.
ExchangedOnce ==
    /\ \A t \in Committed : claims[t].from # None => claims[t].from \in spent
    /\ \A t, u \in Committed :
         t # u /\ claims[t].from # None => claims[t].from # claims[u].from

Once == /\ \A h \in Handlers : Unraced(h)
        /\ held \subseteq Committed
        /\ ExchangedOnce

LEMMA InitOnce == Init => Once
  BY DEF Init, Once, Unraced, ExchangedOnce, Granted, Committed, Live, NoRow, Idle

\* Signing, answering and logging out replace no token.
LEMMA NothingCommitted ==
    ASSUME IInv, Once, NEW h \in Handlers, Act(h), ~CreateSession(h), ~UpdateSession(h)
    PROVE  /\ Committed' = Committed /\ ExchangedOnce'
           /\ \A s \in Sessions : session'[s].token = session[s].token
  <1>1. \A s \in Sessions : session'[s].token = session[s].token
    BY SessionStep
  <1>2. spent' = spent
    BY DEF Act, CallLogin, Authenticate, CallRefresh, FindSession, Sign, Reply, Logout, Fail
  <1>3. Committed' = Committed
    BY <1>1, <1>2 DEF Committed, Live
  <1>4. \A t \in Committed : claims'[t] = claims[t]
    BY CommittedSigned, Growth DEF Grows
  <1>5. ExchangedOnce'
    BY <1>2, <1>3, <1>4 DEF Once, ExchangedOnce
  <1>6. QED
    BY <1>1, <1>3, <1>5

\* A call that writes exchanges the token it found, which nobody has by then.
LEMMA ExchangeStep ==
    ASSUME IInv, Once, NEW h \in Handlers, CreateSession(h) \/ UpdateSession(h)
    PROVE  ExchangedOnce' /\ call[h].fresh \in Committed' /\ Committed \subseteq Committed'
  <1>1. /\ call[h].fresh \notin Committed /\ Committed' = Committed \cup {call[h].fresh}
        /\ claims' = claims
    BY CommitsFresh DEF CreateSession, UpdateSession
  <1>2. Known(h) /\ claims[call[h].fresh].from = call[h].token
    BY DEF IInv, Known, CreateSession, UpdateSession
  <1>3. CASE CreateSession(h)
    <2>1. claims[call[h].fresh].from = None /\ spent' = spent
      BY <1>2, <1>3 DEF Known, CreateSession
    <2>2. QED
      BY <1>1, <2>1 DEF Once, ExchangedOnce
  <1>4. CASE UpdateSession(h)
    <2>1. /\ call[h].op = "refresh" /\ call[h].pc = "update" /\ Granted(h)
          /\ call[h].session \in Sessions /\ call[h].token \in Tokens
      BY <1>2, <1>4 DEF Known, UpdateSession, Granted
    <2>2. session[call[h].session].token = call[h].token
      BY <2>1 DEF Once, Unraced
    <2>3. call[h].token # None /\ call[h].token \notin spent
      BY <2>1, <2>2, NoneAssumption DEF IInv, TokenInv
    <2>4. spent' = spent \cup {call[h].token}
      BY <1>4, <2>2 DEF UpdateSession
    <2>5. \A t \in Committed : claims[t].from # call[h].token
      BY <2>3 DEF Once, ExchangedOnce
    <2>6. QED
      BY <1>1, <1>2, <2>4, <2>5 DEF Once, ExchangedOnce
  <1>5. QED
    BY <1>1, <1>3, <1>4

LEMMA OnceStep ==
    ASSUME \A g, h \in Handlers : g = h
    PROVE  IInv /\ Once /\ [Next]_vars => Once'
  <1> SUFFICES ASSUME IInv, Once, [Next]_vars PROVE Once'
    OBVIOUS
  <1>1. ASSUME NEW h \in Handlers, Act(h) PROVE Once'
    <2>1. \A g \in Handlers : g = h
      OBVIOUS
    <2>2. /\ TypeOK /\ Unraced(h) /\ held \subseteq Committed /\ call[h] \in Call
          /\ Committed \subseteq Committed'
      BY <1>1, ExchangeStep, NothingCommitted DEF IInv, TypeOK, Once
    <2>3. CASE call' = [call EXCEPT ![h] = Idle]
      <3>1. call'[h].op = "none" /\ call'[h].pc = "idle"
        BY <2>2, <2>3 DEF TypeOK, Idle
      <3>2. ~CreateSession(h) /\ ~UpdateSession(h)
        <4>1. Goto(h, "answer") => call'[h].pc = "answer"
          BY <2>2 DEF Goto, TypeOK, Call
        <4>2. QED
          BY <3>1, <4>1 DEF CreateSession, UpdateSession
      <3>3. held' \subseteq Committed /\ ExchangedOnce' /\ Committed' = Committed
        <4>1. Reply(h) => held' = held \cup {call[h].fresh} /\ call[h].pc = "answer"
          BY DEF Reply, Answered
        <4>2. ~Reply(h) => held' = held
          BY <1>1 DEF Act, CallLogin, Authenticate, CreateSession, CallRefresh, FindSession,
             Sign, UpdateSession, Logout, Fail
        <4>3. QED
          BY <1>1, <2>2, <3>2, <4>1, <4>2, NothingCommitted DEF Unraced
      <3>4. Unraced(h)'
        BY <3>1 DEF Unraced, Granted
      <3>5. QED
        BY <2>1, <3>3, <3>4 DEF Once
    <2>4. CASE CreateSession(h) \/ UpdateSession(h)
      <3>1. Goto(h, "answer") /\ held' = held
        BY <2>4 DEF CreateSession, UpdateSession
      <3>2. call'[h].pc = "answer" /\ call'[h].fresh = call[h].fresh
        BY <2>2, <3>1 DEF Goto, TypeOK, Call
      <3>3. Unraced(h)'
        BY <2>4, <3>2, ExchangeStep DEF Unraced, Granted
      <3>4. QED
        BY <2>1, <2>2, <2>4, <3>1, <3>3, ExchangeStep DEF Once
    <2>5. CASE ~CreateSession(h) /\ ~UpdateSession(h) /\ ~Reply(h)
      <3>1. /\ Committed' = Committed /\ ExchangedOnce' /\ held' = held
            /\ \A s \in Sessions : session'[s].token = session[s].token
        BY <1>1, <2>5, NothingCommitted DEF Act, CallLogin, Authenticate, CallRefresh,
           FindSession, Sign, Logout, Fail
      <3>2. Unraced(h)'
        <4>1. CASE CallLogin(h) \/ CallRefresh(h)
          <5>1. call'[h].pc \in {"credentials", "find"}
            BY <2>2, <4>1 DEF CallLogin, CallRefresh, TypeOK, Idle
          <5>2. QED
            BY <5>1 DEF Unraced, Granted
        <4>2. CASE Authenticate(h) /\ ~Answer(h)
          <5>1. call'[h].pc = "sign" /\ call'[h].op = call[h].op /\ call[h].op = "login"
            BY <2>2, <4>2 DEF Authenticate, TypeOK, Call, IInv, Known
          <5>2. QED
            BY <5>1 DEF Unraced, Granted
        <4>3. CASE FindSession(h) /\ ~Answer(h)
          <5>1. PICK s \in Sessions :
                  /\ Usable(s, call[h].token)
                  /\ call' = [call EXCEPT ![h].pc = "sign", ![h].session = s]
            BY <4>3 DEF FindSession
          <5>2. /\ call'[h].pc = "sign" /\ call'[h].session = s
                /\ call'[h].token = call[h].token
            BY <2>2, <5>1 DEF TypeOK, Call
          <5>3. session'[s].token = call[h].token
            BY <3>1, <5>1 DEF Usable
          <5>4. QED
            BY <5>2, <5>3 DEF Unraced
        <4>4. CASE Sign(h)
          <5>1. PICK t \in Tokens :
                  call' = [call EXCEPT ![h].fresh = t,
                             ![h].pc = IF call[h].op = "login" THEN "create" ELSE "update"]
            BY <4>4 DEF Sign
          <5>2. /\ call'[h].pc = IF call[h].op = "login" THEN "create" ELSE "update"
                /\ call'[h].op = call[h].op /\ call'[h].session = call[h].session
                /\ call'[h].token = call[h].token
            BY <2>2, <5>1 DEF TypeOK, Call
          <5>3. call[h].pc = "sign" /\ (Granted(h)' => call[h].session \in Sessions)
            BY <4>4, <5>2 DEF Sign, Granted, IInv, Known
          <5>4. QED
            BY <2>2, <3>1, <5>2, <5>3 DEF Unraced, Granted
        <4>5. CASE Logout(h)
          <5>1. call' = call /\ call[h].pc = "idle"
            BY <4>5 DEF Logout
          <5>2. QED
            BY <5>1 DEF Unraced, Granted
        <4>6. CASE Answer(h)
          <5>1. call'[h].op = "none" /\ call'[h].pc = "idle"
            BY <2>2, <4>6 DEF Answer, TypeOK, Idle
          <5>2. QED
            BY <5>1 DEF Unraced, Granted
        <4>7. QED
          BY <1>1, <2>5, <4>1, <4>2, <4>3, <4>4, <4>5, <4>6 DEF Act, Fail
      <3>3. QED
        BY <2>1, <2>2, <3>1, <3>2 DEF Once
    <2>6. QED
      BY <1>1, <2>3, <2>4, <2>5 DEF Reply, Answer
  <1>2. CASE Tick \/ Seed \/ UNCHANGED vars
    <2>1. UNCHANGED <<session, claims, call, held, spent>>
      BY <1>2 DEF Tick, Seed, vars
    <2>2. QED
      BY <2>1 DEF Once, Unraced, ExchangedOnce, Granted, Committed, Live
  <1>3. QED
    BY <1>1, <1>2 DEF Next, Act

\* Served one call at a time a refresh token buys one pair of tokens, whatever
\* calls arrive, fail and are repeated: only two refreshes in flight at once
\* can both exchange it.
THEOREM SerialSingleUse ==
    ASSUME \A g, h \in Handlers : g = h
    PROVE  Spec => []SingleUse
  <1>1. Once => SingleUse
    BY DEF Once, ExchangedOnce, SingleUse
  <1>2. IInv /\ Once /\ [Next]_vars => Once'
    BY OnceStep
  <1>3. QED
    BY <1>1, <1>2, InitOnce, Invariant, PTL DEF Spec
=============================================================================
