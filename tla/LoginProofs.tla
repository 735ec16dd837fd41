----------------------------- MODULE LoginProofs -----------------------------
(***************************************************************************)
(* Proofs about Login, for any number of associates, requests, days,       *)
(* faults and midnights; and then about logins that are served within one  *)
(* day (MaxLag = 0), and about what holds as long as no call fails.        *)
(***************************************************************************)
EXTENDS Login, TLAPS

-----------------------------------------------------------------------------
(* The scoring rule.                                                       *)

\* A login on any day of a streak is worth between 10 and 60 points.
LEMMA LoginPointsRange ==
  \A n \in Nat : LoginPoints(n) \in Nat /\ LoginPoints(n) >= 10 /\ LoginPoints(n) <= 60
BY DEF LoginPoints, LoginBase, StreakBonusPerDay, StreakBonusCap

\* A login day and a login event are well typed; the points of the day are
\* those of the rollup so far and of the login.
LEMMA LoginDayType ==
  ASSUME NEW doc \in Daily, NEW s \in Nat
  PROVE  /\ LoginDay(doc, s) \in Daily
         /\ LoginDay(doc, s).loggedIn = TRUE
         /\ LoginDay(doc, s).streakDay = s
         /\ LoginDay(doc, s).loginPoints = doc.loginPoints + LoginPoints(s)
<1>1. LoginPoints(s) \in Nat  BY LoginPointsRange
<1>2. doc.loginPoints + LoginPoints(s) \in Nat /\ doc.points + LoginPoints(s) \in Int
  BY <1>1 DEF Daily
<1> HIDE DEF LoginPoints
<1>3. QED  BY <1>2 DEF LoginDay, Daily

LEMMA LoginEventType ==
  ASSUME NEW b \in BDA, NEW d \in Day, NEW s \in Nat
  PROVE  LoginEvent(b, d, s) \in Event
<1>1. LoginPoints(s) \in Int  BY LoginPointsRange
<1>2. QED  BY <1>1 DEF LoginEvent, Event, Stamp

-----------------------------------------------------------------------------
(* Type correctness.                                                       *)

LEMMA InitTypeOK == Init => TypeOK
<1> SUFFICES ASSUME Init PROVE TypeOK  OBVIOUS
<1>1. PICK h \in [BDA -> SeedStreak \cup {0}] : SeededWith(h)  BY DEF Init, StoresInit
<1>2. \A b \in BDA : h[b] \in Nat
  <2>1. \A n \in SeedStreak \cup {0} : n \in Nat
    BY StoresAssumption DEF StoresAssumption
  <2>2. \A b \in BDA : h[b] \in SeedStreak \cup {0}  OBVIOUS
  <2>3. QED  BY <2>1, <2>2
<1>3. 0 \in Day /\ 1 \in Day
  BY StoresAssumption DEF StoresAssumption, Day
<1>4. EmptyDay \in Daily  BY DEF EmptyDay, Daily
<1>5. users \in [Account -> User]
  BY <1>1, <1>2, <1>3 DEF SeededWith, Account, User
<1>6. daily \in [BDA \X Day -> Daily]
  <2>1. \A k \in BDA \X Day : LoginDay(EmptyDay, h[k[1]]) \in Daily
    BY <1>2, <1>4, LoginDayType
  <2>2. QED  BY <1>1, <1>4, <2>1 DEF SeededWith
<1>7. events \in SUBSET Event
  BY <1>1, <1>2, <1>3, LoginEventType DEF SeededWith
<1>8. StoresTypeOK
  BY <1>3, <1>5, <1>6, <1>7, StoresAssumption
  DEF Init, StoresInit, StoresTypeOK, StoresAssumption
<1>9. pc \in [LoginReq -> {"idle"} \cup Serving \cup Answered]
  BY DEF Init, LoginsIdle
<1>10. loc \in [LoginReq -> Local]
  BY <1>3 DEF Init, LoginsIdle, Local, User, Reward, Nil
<1>11. QED
  BY <1>8, <1>9, <1>10 DEF Init, LoginsIdle, TypeOK, Serving

\* A step of request r moves only r, to a typed label with typed locals, and
\* counts at most one fault.
LEMMA ServeMoves ==
  ASSUME TypeOK, NEW r \in LoginReq, Serve(r)
  PROVE  /\ faults' \in 0 .. MaxFaults
         /\ pc'  \in [LoginReq -> {"idle"} \cup Serving \cup Answered]
         /\ loc' \in [LoginReq -> Local]
         /\ \A q \in LoginReq \ {r} : pc'[q] = pc[q] /\ loc'[q] = loc[q]
         /\ loc'[r].account = loc[r].account
         /\ pc'[r] \in Serving \ {"verify", "session"} => loc'[r].account \in BDA
<1> USE DEF Goto, Fails, Serving, Answered
<1>1. /\ loc[r] \in Local /\ loc[r].account \in Account /\ loc[r].user \in User
      /\ users[loc[r].account] \in User
      /\ loc[r].today \in Day /\ today \in Day /\ loc[r].streak \in Nat
  BY DEF TypeOK, StoresTypeOK, Local
<1>2. Answers \/ Errs => faults' \in 0 .. MaxFaults
  BY StoresAssumption DEF StoresAssumption, TypeOK, StoresTypeOK, Answers, Errs
<1>3. /\ pc \in [LoginReq -> {"idle"} \cup Serving \cup Answered]
      /\ loc \in [LoginReq -> Local]
      /\ faults \in 0 .. MaxFaults
      /\ pc[r] \in Serving \ {"verify", "session"} => loc[r].account \in BDA
  BY DEF TypeOK, StoresTypeOK
<1>4. \A u \in User, n \in Nat :
        NotNew(u) \in Reward /\ [kind |-> "new", streak |-> n] \in Reward
  BY DEF NotNew, Reward, User
<1>5. CASE FindUser(r)
  <2> DEFINE x == [loc[r] EXCEPT !.user = users[loc[r].account], !.began = today]
  <2>1. x \in Local /\ x.account = loc[r].account
    BY <1>1 DEF Local
  <2>2. loc' = [loc EXCEPT ![r] = x] \/ UNCHANGED loc
    BY <1>5 DEF FindUser
  <2> HIDE DEF x
  <2>3. /\ loc' \in [LoginReq -> Local] /\ loc'[r].account = loc[r].account
        /\ \A q \in LoginReq \ {r} : loc'[q] = loc[q]
    BY <1>3, <2>1, <2>2
  <2>4. QED  BY <1>1, <1>2, <1>3, <1>5, <2>3 DEF FindUser, storeVars
<1>6. CASE Verify(r)
  <2> DEFINE x == [loc[r] EXCEPT !.today = today]
  <2>1. x \in Local /\ x.account = loc[r].account
    BY <1>1 DEF Local
  <2>2. loc' = [loc EXCEPT ![r] = x] \/ UNCHANGED loc
    BY <1>6 DEF Verify
  <2> HIDE DEF x
  <2>3. /\ loc' \in [LoginReq -> Local] /\ loc'[r].account = loc[r].account
        /\ \A q \in LoginReq \ {r} : loc'[q] = loc[q]
    BY <1>3, <2>1, <2>2
  <2>4. QED  BY <1>1, <1>2, <1>3, <1>6, <2>3 DEF Verify, storeVars
<1>7. CASE ReadYesterday(r)
  <2> DEFINE x == [loc[r] EXCEPT !.yesterday = today - 1, !.reward = NotNew(loc[r].user)]
             y == [loc[r] EXCEPT !.yesterday = today - 1]
  <2>1. today - 1 \in Day \cup {Never}
    BY <1>1, StoresAssumption DEF StoresAssumption, Day, Never
  <2>2. /\ x \in Local /\ x.account = loc[r].account
        /\ y \in Local /\ y.account = loc[r].account
    BY <1>1, <1>4, <2>1 DEF Local
  <2>3. loc' = [loc EXCEPT ![r] = x] \/ loc' = [loc EXCEPT ![r] = y]
    BY <1>7 DEF ReadYesterday
  <2> HIDE DEF x, y
  <2>4. /\ loc' \in [LoginReq -> Local] /\ loc'[r].account = loc[r].account
        /\ \A q \in LoginReq \ {r} : loc'[q] = loc[q]
    BY <1>3, <2>2, <2>3
  <2>5. QED  BY <1>3, <1>7, <2>4 DEF ReadYesterday, storeVars
<1>8. CASE AcquireLoginLock(r)
  <2> DEFINE x == [loc[r] EXCEPT !.streak = NewStreak(r)]
  <2>1. NewStreak(r) \in Nat
    BY <1>1 DEF NewStreak, User
  <2>2. x \in Local /\ x.account = loc[r].account
    BY <1>1, <2>1 DEF Local
  <2>3. loc' = [loc EXCEPT ![r] = x] \/ UNCHANGED loc
    BY <1>8 DEF AcquireLoginLock
  <2> HIDE DEF x
  <2>4. /\ loc' \in [LoginReq -> Local] /\ loc'[r].account = loc[r].account
        /\ \A q \in LoginReq \ {r} : loc'[q] = loc[q]
    BY <1>3, <2>2, <2>3
  <2>5. QED  BY <1>1, <1>2, <1>3, <1>8, <2>4 DEF AcquireLoginLock, storeVars
<1>9. CASE RereadUser(r)
  <2> DEFINE x == [loc[r] EXCEPT !.user = users[loc[r].account],
                              !.reward = NotNew(users[loc[r].account])]
  <2>1. x \in Local /\ x.account = loc[r].account
    BY <1>1, <1>4 DEF Local
  <2>2. loc' = [loc EXCEPT ![r] = x] \/ UNCHANGED loc
    BY <1>9 DEF RereadUser
  <2> HIDE DEF x
  <2>3. /\ loc' \in [LoginReq -> Local] /\ loc'[r].account = loc[r].account
        /\ \A q \in LoginReq \ {r} : loc'[q] = loc[q]
    BY <1>3, <2>1, <2>2
  <2>4. QED  BY <1>1, <1>2, <1>3, <1>9, <2>3 DEF RereadUser, storeVars
<1>10. CASE InsertLoginEvent(r)
  BY <1>2, <1>3, <1>10 DEF InsertLoginEvent
<1>11. CASE ReleaseLoginLock(r)
  BY <1>2, <1>3, <1>11 DEF ReleaseLoginLock
<1>12. CASE UpsertLoginDay(r)
  BY <1>2, <1>3, <1>12 DEF UpsertLoginDay
<1>13. CASE SaveStreak(r)
  <2> DEFINE x == [loc[r] EXCEPT !.user = users'[loc[r].account]]
  <2>1. users'[loc[r].account] \in User
    <3>1. SetStreak(r) \/ UNCHANGED users  BY <1>13 DEF SaveStreak
    <3>2. NewBest(r) \in Nat  BY <1>1 DEF NewBest, User
    <3>3. QED
      BY <1>1, <3>1, <3>2 DEF SetStreak, UpdateUserStreak, User, TypeOK, StoresTypeOK
  <2>2. x \in Local /\ x.account = loc[r].account
    BY <1>1, <2>1 DEF Local
  <2>3. loc' = [loc EXCEPT ![r] = x] \/ UNCHANGED loc
    BY <1>13 DEF SaveStreak
  <2> HIDE DEF x
  <2>4. /\ loc' \in [LoginReq -> Local] /\ loc'[r].account = loc[r].account
        /\ \A q \in LoginReq \ {r} : loc'[q] = loc[q]
    BY <1>3, <2>2, <2>3
  <2>5. QED  BY <1>1, <1>2, <1>3, <1>13, <2>4 DEF SaveStreak, storeVars
<1>14. CASE InvalidateCache(r)
  <2> DEFINE x == [loc[r] EXCEPT !.reward = [kind |-> "new", streak |-> loc[r].streak]]
  <2>1. x \in Local /\ x.account = loc[r].account
    BY <1>1, <1>4 DEF Local
  <2>2. loc' = [loc EXCEPT ![r] = x]
    BY <1>14 DEF InvalidateCache
  <2> HIDE DEF x
  <2>3. /\ loc' \in [LoginReq -> Local] /\ loc'[r].account = loc[r].account
        /\ \A q \in LoginReq \ {r} : loc'[q] = loc[q]
    BY <1>3, <2>1, <2>2
  <2>4. QED  BY <1>1, <1>2, <1>3, <1>14, <2>3 DEF InvalidateCache, storeVars
<1>15. CASE SaveSession(r)
  BY <1>2, <1>3, <1>15 DEF SaveSession
<1>16. QED
  BY <1>5, <1>6, <1>7, <1>8, <1>9, <1>10, <1>11, <1>12, <1>13, <1>14, <1>15 DEF Serve

\* The collections and the Redis keys stay well typed.
LEMMA ServeStores ==
  ASSUME TypeOK, NEW r \in LoginReq, Serve(r)
  PROVE  /\ users' \in [Account -> User] /\ daily' \in [BDA \X Day -> Daily]
         /\ events' \in SUBSET Event /\ ver' \in Nat /\ today' = today
         /\ locks' \in SUBSET (BDA \X Day) /\ sessions' \in SUBSET LoginReq
<1>1. /\ users \in [Account -> User] /\ daily \in [BDA \X Day -> Daily]
      /\ events \in SUBSET Event /\ ver \in Nat
      /\ locks \in SUBSET (BDA \X Day) /\ sessions \in SUBSET LoginReq
      /\ loc[r].account \in Account /\ loc[r].user \in User
      /\ loc[r].today \in Day /\ loc[r].streak \in Nat
  BY DEF TypeOK, StoresTypeOK, Local
<1>2. pc[r] \in Serving \ {"verify", "session"} =>
        loc[r].account \in BDA /\ LockKey(r) \in BDA \X Day
  BY <1>1 DEF TypeOK, LockKey
<1>3. CASE FindUser(r)         BY <1>1, <1>3 DEF FindUser, redisVars
<1>4. CASE Verify(r)           BY <1>1, <1>4 DEF Verify, storeVars, redisVars
<1>5. CASE ReadYesterday(r)    BY <1>1, <1>5 DEF ReadYesterday, storeVars, redisVars
<1>6. CASE AcquireLoginLock(r) BY <1>1, <1>2, <1>6 DEF AcquireLoginLock, Serving
<1>7. CASE RereadUser(r)       BY <1>1, <1>7 DEF RereadUser, redisVars
<1>8. CASE InsertLoginEvent(r)
  <2>1. EventOf(r) \in Event
    BY <1>1, <1>2, <1>8, LoginEventType DEF InsertLoginEvent, EventOf, Serving
  <2>2. QED  BY <1>1, <1>8, <2>1 DEF InsertLoginEvent, InsertEvent, redisVars
<1>9. CASE ReleaseLoginLock(r) BY <1>1, <1>9 DEF ReleaseLoginLock
<1>10. CASE UpsertLoginDay(r)
  <2>1. LoginDay(daily[LockKey(r)], loc[r].streak) \in Daily
    BY <1>1, <1>2, <1>10, LoginDayType DEF UpsertLoginDay, Serving
  <2>2. QED
    BY <1>1, <1>10, <2>1 DEF UpsertLoginDay, CreditRollup, UpsertDaily, redisVars
<1>11. CASE SaveStreak(r)
  <2>1. NewBest(r) \in Nat  BY <1>1 DEF NewBest, User
  <2>2. SetStreak(r) => users' \in [Account -> User]
    BY <1>1, <2>1 DEF SetStreak, UpdateUserStreak, User
  <2>3. QED  BY <1>1, <1>11, <2>2 DEF SaveStreak, redisVars
<1>12. CASE InvalidateCache(r)
  BY <1>1, <1>12 DEF InvalidateCache, Invalidate, redisVars
<1>13. CASE SaveSession(r)     BY <1>1, <1>13 DEF SaveSession
<1>14. QED
  BY <1>3, <1>4, <1>5, <1>6, <1>7, <1>8, <1>9, <1>10, <1>11, <1>12, <1>13 DEF Serve

LEMMA NextTypeOK == TypeOK /\ [Next]_vars => TypeOK'
<1> SUFFICES ASSUME TypeOK, [Next]_vars PROVE TypeOK'  OBVIOUS
<1>1. ASSUME NEW r \in LoginReq, Serve(r) PROVE TypeOK'
  <2>1. \A q \in LoginReq :
          pc'[q] \in Serving \ {"verify", "session"} => loc'[q].account \in BDA
    BY <1>1, ServeMoves DEF TypeOK
  <2>2. QED
    BY <1>1, <2>1, ServeMoves, ServeStores DEF TypeOK, StoresTypeOK
<1>2. ASSUME NEW r \in LoginReq, Die(r) PROVE TypeOK'
  <2>1. faults' \in 0 .. MaxFaults
    BY <1>2, StoresAssumption
    DEF Die, Fails, Errs, StoresAssumption, TypeOK, StoresTypeOK
  <2>2. QED
    BY <1>2, <2>1
    DEF Die, Fails, Goto, Serving, Answered, redisVars, TypeOK, StoresTypeOK
<1>3. ASSUME NEW k \in BDA \X Day, ExpireLock(k) PROVE TypeOK'
  BY <1>3 DEF ExpireLock, storeVars, TypeOK, StoresTypeOK
<1>4. CASE Midnight
  <2>1. today' \in Day
    BY <1>4, StoresAssumption DEF Midnight, Day, StoresAssumption, TypeOK, StoresTypeOK
  <2>2. QED
    BY <1>4, <2>1 DEF Midnight, loginVars, TypeOK, StoresTypeOK
<1>5. CASE UNCHANGED vars
  BY <1>5 DEF vars, storeVars, loginVars, TypeOK, StoresTypeOK
<1>6. QED  BY <1>1, <1>2, <1>3, <1>4, <1>5 DEF Next

\* Whatever fails and whenever midnight falls, every document, key and local
\* variable of the login path has its type; past the role check a request is an
\* associate's.
THEOREM TypeCorrect == Spec => []TypeOK
BY InitTypeOK, NextTypeOK, PTL DEF Spec

-----------------------------------------------------------------------------
(* The inductive invariant.                                                *)

\* A rollup of a well-typed state that is a login day has login points.
LEMMA CreditedDay ==
  ASSUME TypeOK, RollupOK, NEW k \in BDA \X Day
  PROVE  daily[k].loggedIn <=> daily[k].loginPoints # 0
<1>1. daily[k].streakDay \in Nat
  BY DEF TypeOK, StoresTypeOK, Daily
<1>2. LoginPoints(daily[k].streakDay) # 0
  BY <1>1, LoginPointsRange
<1>3. QED  BY <1>2 DEF RollupOK

LEMMA InitLoginInv == Init => LoginInv
<1> SUFFICES ASSUME Init PROVE LoginInv  OBVIOUS
<1>1. PICK h \in [BDA -> SeedStreak \cup {0}] : SeededWith(h)
  BY DEF Init, StoresInit
<1>2. TypeOK  BY InitTypeOK
<1>3. \A b \in BDA : h[b] \in Nat
  <2>1. \A n \in SeedStreak \cup {0} : n \in Nat
    BY StoresAssumption DEF StoresAssumption
  <2>2. \A b \in BDA : h[b] \in SeedStreak \cup {0}  OBVIOUS
  <2>3. QED  BY <2>1, <2>2
<1>4. LedgerOK
  BY <1>1, <1>3 DEF SeededWith, LedgerOK, Logins, LoginEvent
<1>5. \A b \in BDA, d \in Day :
        daily[<<b, d>>] = IF d = 0 /\ h[b] > 0 THEN LoginDay(EmptyDay, h[b]) ELSE EmptyDay
  BY <1>1 DEF SeededWith
<1>6. EmptyDay \in Daily /\ EmptyDay.loginPoints = 0 /\ EmptyDay.loggedIn = FALSE
  BY DEF EmptyDay, Daily
<1>7. \A b \in BDA :
        /\ LoginDay(EmptyDay, h[b]).loggedIn = TRUE
        /\ LoginDay(EmptyDay, h[b]).streakDay = h[b]
        /\ LoginDay(EmptyDay, h[b]).loginPoints = LoginPoints(h[b])
  <2> TAKE b \in BDA
  <2>1. h[b] \in Nat /\ LoginPoints(h[b]) \in Nat  BY <1>3, LoginPointsRange
  <2>2. /\ LoginDay(EmptyDay, h[b]).loggedIn = TRUE
        /\ LoginDay(EmptyDay, h[b]).streakDay = h[b]
        /\ LoginDay(EmptyDay, h[b]).loginPoints = EmptyDay.loginPoints + LoginPoints(h[b])
    BY <1>6, <2>1, LoginDayType
  <2>3. EmptyDay.loginPoints + LoginPoints(h[b]) = LoginPoints(h[b])
    BY <1>6, <2>1
  <2>4. QED  BY <2>2, <2>3
<1>8. RollupOK
  <2> SUFFICES ASSUME NEW b \in BDA, NEW d \in Day
               PROVE  \/ daily[<<b, d>>].loginPoints = 0 /\ ~daily[<<b, d>>].loggedIn
                      \/ /\ daily[<<b, d>>].loggedIn
                         /\ LoginEvent(b, d, daily[<<b, d>>].streakDay) \in events
                         /\ daily[<<b, d>>].loginPoints
                              = LoginPoints(daily[<<b, d>>].streakDay)
    BY DEF RollupOK
  <2>1. CASE d = 0 /\ h[b] > 0
    <3>1. LoginEvent(b, 0, h[b]) \in events
      BY <1>1, <2>1 DEF SeededWith
    <3>2. QED  BY <1>5, <1>7, <2>1, <3>1
  <2>2. CASE ~(d = 0 /\ h[b] > 0)
    BY <1>5, <1>6, <2>2
  <2>3. QED  BY <2>1, <2>2
<1>9. StreakBacked
  <2> SUFFICES ASSUME NEW b \in BDA, users[b].last # Never
               PROVE  /\ daily[<<b, users[b].last>>].loggedIn
                      /\ daily[<<b, users[b].last>>].streakDay = users[b].current
    BY DEF StreakBacked
  <2>1. h[b] > 0 /\ users[b].last = 0 /\ users[b].current = h[b]
    BY <1>1, <1>3 DEF SeededWith, Account
  <2>2. 0 \in Day  BY StoresAssumption DEF StoresAssumption, Day
  <2>3. daily[<<b, 0>>] = LoginDay(EmptyDay, h[b])
    BY <1>5, <2>1, <2>2
  <2>4. QED  BY <1>7, <2>1, <2>3
<1>10. \A r \in LoginReq :
         /\ pc[r] = "idle" /\ loc[r].reward = Nil
         /\ ~Claimed(r) /\ loc[r].reward.kind = "none"
  BY DEF Init, LoginsIdle, Claimed, Nil
<1>11. QED
  BY <1>2, <1>4, <1>8, <1>9, <1>10 DEF LoginInv, RequestOK, OneClaim

\* What the invariant says of the ledger, the rollups and the user documents
\* is disturbed only by a step that writes one of them.
LEMMA StoreInvFrame ==
  ASSUME LedgerOK, RollupOK, StreakBacked, UNCHANGED <<users, daily, events>>
  PROVE  LedgerOK' /\ RollupOK' /\ StreakBacked'
BY DEF LedgerOK, Logins, RollupOK, StreakBacked

\* A request that does not move keeps its part of the invariant when events are
\* only added and its day's rollup stays, and so does one that gives up.
LEMMA RequestFrame ==
  ASSUME NEW q \in LoginReq, RequestOK(q),
         loc'[q] = loc[q], pc'[q] = pc[q], events \subseteq events',
         Claimed(q) => daily'[LockKey(q)] = daily[LockKey(q)]
  PROVE  RequestOK(q)' /\ (Claimed(q)' <=> Claimed(q)) /\ LockKey(q)' = LockKey(q)
<1>1. LockKey(q)' = LockKey(q) /\ EventOf(q)' = EventOf(q) /\ (Claimed(q)' <=> Claimed(q))
  BY DEF LockKey, EventOf, Claimed
<1>2. QED  BY <1>1 DEF RequestOK, Claimed

\* A step of request r keeps the invariant once r does: the others keep theirs,
\* and r's claim, if it has one, is nobody else's.
LEMMA StepOfRequest ==
  ASSUME LoginInv, NEW r \in LoginReq, TypeOK', LedgerOK', RollupOK', StreakBacked',
         \A q \in LoginReq \ {r} : pc'[q] = pc[q] /\ loc'[q] = loc[q],
         events \subseteq events',
         \A q \in LoginReq \ {r} : Claimed(q) => daily'[LockKey(q)] = daily[LockKey(q)],
         RequestOK(r)',
         Claimed(r)' => \A q \in LoginReq \ {r} : Claimed(q) => LockKey(q) # LockKey(r)'
  PROVE  LoginInv'
<1>1. \A q \in LoginReq \ {r} :
        RequestOK(q)' /\ (Claimed(q)' <=> Claimed(q)) /\ LockKey(q)' = LockKey(q)
  BY RequestFrame DEF LoginInv
<1>2. OneClaim'
  BY <1>1 DEF LoginInv, OneClaim
<1>3. QED  BY <1>1, <1>2 DEF LoginInv

\* A step of request r that writes none of the collections and claims nothing.
LEMMA QuietStep ==
  ASSUME LoginInv, NEW r \in LoginReq, TypeOK', UNCHANGED <<users, daily, events>>,
         \A q \in LoginReq \ {r} : pc'[q] = pc[q] /\ loc'[q] = loc[q],
         RequestOK(r)',
         Claimed(r)' => Claimed(r) /\ LockKey(r)' = LockKey(r)
  PROVE  LoginInv'
<1>1. LedgerOK' /\ RollupOK' /\ StreakBacked'
  BY StoreInvFrame DEF LoginInv
<1>2. Claimed(r)' => \A q \in LoginReq \ {r} : Claimed(q) => LockKey(q) # LockKey(r)'
  BY DEF LoginInv, OneClaim
<1>3. QED  BY <1>1, <1>2, StepOfRequest

\* A request that has not been told of an award claims nothing once it leaves
\* the steps of the award.
LEMMA Unclaimed ==
  ASSUME NEW r \in LoginReq, loc'[r].reward.kind # "new",
         pc'[r] \notin {"insert", "rollup", "streak", "bump"},
         loc'[r].reward.kind # "none" => pc'[r] \in {"session"} \cup Answered
  PROVE  ~Claimed(r)' /\ RequestOK(r)'
BY DEF Claimed, RequestOK

\* The steps up to the lock, and those of a request the lock turned away.
LEMMA InvBeforeAward ==
  ASSUME LoginInv, TypeOK', NEW r \in LoginReq,
         FindUser(r) \/ Verify(r) \/ ReadYesterday(r) \/ AcquireLoginLock(r) \/ RereadUser(r)
  PROVE  LoginInv'
<1>1. /\ TypeOK /\ Serve(r) /\ RequestOK(r)
      /\ loc[r] \in Local /\ loc' \in [LoginReq -> Local]
      /\ pc \in [LoginReq -> {"idle"} \cup Serving \cup Answered]
  BY DEF LoginInv, Serve, TypeOK
<1>2. \A q \in LoginReq \ {r} : pc'[q] = pc[q] /\ loc'[q] = loc[q]
  BY <1>1, ServeMoves
<1>3. UNCHANGED <<users, daily, events>>
  BY DEF FindUser, Verify, ReadYesterday, AcquireLoginLock, RereadUser, storeVars
<1>4. loc[r].reward.kind = "none"
  BY <1>1 DEF RequestOK, Answered, FindUser, Verify, ReadYesterday, AcquireLoginLock, RereadUser
<1>5. CASE FindUser(r)
  <2>1. loc'[r].reward = loc[r].reward
    <3> DEFINE x == [loc[r] EXCEPT !.user = users[loc[r].account], !.began = today]
    <3>1. x.reward = loc[r].reward  BY <1>1 DEF Local
    <3>2. loc' = [loc EXCEPT ![r] = x] \/ UNCHANGED loc  BY <1>5 DEF FindUser
    <3> HIDE DEF x
    <3>3. QED  BY <1>1, <3>1, <3>2 DEF TypeOK
  <2>2. pc'[r] \in {"verify", "denied", "failed"}
    BY <1>1, <1>5 DEF FindUser, Fails, Goto
  <2>3. QED  BY <1>2, <1>3, <1>4, <2>1, <2>2, Unclaimed, QuietStep
<1>6. CASE Verify(r)
  <2>1. loc'[r].reward = loc[r].reward
    BY <1>1, <1>6 DEF Verify, TypeOK, Local
  <2>2. pc'[r] \in {"denied", "session", "clock"}
    BY <1>1, <1>6 DEF Verify, Goto
  <2>3. QED  BY <1>2, <1>3, <1>4, <2>1, <2>2, Unclaimed, QuietStep
<1>7. CASE ReadYesterday(r)
  <2>1. \/ loc'[r].reward = NotNew(loc[r].user) /\ pc'[r] = "session"
        \/ loc'[r].reward = loc[r].reward /\ pc'[r] = "lock"
    <3> DEFINE x == [loc[r] EXCEPT !.yesterday = today - 1, !.reward = NotNew(loc[r].user)]
               y == [loc[r] EXCEPT !.yesterday = today - 1]
    <3>1. x.reward = NotNew(loc[r].user) /\ y.reward = loc[r].reward
      BY <1>1 DEF Local
    <3>2. \/ loc' = [loc EXCEPT ![r] = x] /\ Goto(r, "session")
          \/ loc' = [loc EXCEPT ![r] = y] /\ Goto(r, "lock")
      BY <1>7 DEF ReadYesterday
    <3> HIDE DEF x, y
    <3>3. QED  BY <1>1, <3>1, <3>2 DEF TypeOK, Goto
  <2>2. loc'[r].reward.kind # "new"
    BY <1>4, <2>1 DEF NotNew
  <2>3. QED  BY <1>2, <1>3, <1>4, <2>1, <2>2, Unclaimed, QuietStep
<1>8. CASE AcquireLoginLock(r)
  <2>1. CASE pc'[r] = "insert"
    <3>1. loc' = [loc EXCEPT ![r].streak = NewStreak(r)]
      BY <1>1, <1>8, <2>1 DEF AcquireLoginLock, Goto, Fails
    <3>2. NewStreak(r) \in Nat /\ NewStreak(r) >= 1
      BY <1>1 DEF NewStreak, Local, User
    <3>3. loc'[r].streak >= 1 /\ loc'[r].reward = loc[r].reward
      BY <1>1, <3>1, <3>2 DEF TypeOK, Local
    <3>4. RequestOK(r)' /\ ~Claimed(r)'
      BY <1>4, <2>1, <3>3 DEF RequestOK, Claimed
    <3>5. QED  BY <1>2, <1>3, <3>4, QuietStep
  <2>2. CASE pc'[r] # "insert"
    <3>1. pc'[r] \in {"reread", "failed"} /\ UNCHANGED loc
      BY <1>1, <1>8, <2>2 DEF AcquireLoginLock, Goto, Fails
    <3>2. QED  BY <1>2, <1>3, <1>4, <3>1, Unclaimed, QuietStep
  <2>3. QED  BY <2>1, <2>2
<1>9. CASE RereadUser(r)
  <2>1. \/ loc'[r].reward = NotNew(users[loc[r].account]) /\ pc'[r] = "session"
        \/ loc'[r].reward = loc[r].reward /\ pc'[r] = "failed"
    <3> DEFINE x == [loc[r] EXCEPT !.user = users[loc[r].account],
                                   !.reward = NotNew(users[loc[r].account])]
    <3>1. x.reward = NotNew(users[loc[r].account])
      BY <1>1 DEF Local
    <3>2. \/ loc' = [loc EXCEPT ![r] = x] /\ Goto(r, "session")
          \/ UNCHANGED loc /\ Goto(r, "failed")
      BY <1>9 DEF RereadUser, Fails
    <3> HIDE DEF x
    <3>3. QED  BY <1>1, <3>1, <3>2 DEF TypeOK, Goto
  <2>2. loc'[r].reward.kind # "new"
    BY <1>4, <2>1 DEF NotNew
  <2>3. pc'[r] \in {"session"} \cup Answered
    BY <2>1 DEF Answered
  <2>4. QED  BY <1>2, <1>3, <1>4, <2>1, <2>2, <2>3, Unclaimed, QuietStep
<1>10. QED  BY <1>5, <1>6, <1>7, <1>8, <1>9

\* The insert: the unique _id makes r's claim the only one of its day, on a
\* rollup that was not credited.
LEMMA InvInsert ==
  ASSUME LoginInv, TypeOK', NEW r \in LoginReq, InsertLoginEvent(r)
  PROVE  LoginInv'
<1>1. /\ TypeOK /\ Serve(r) /\ RequestOK(r) /\ LedgerOK /\ RollupOK /\ StreakBacked
      /\ pc[r] = "insert" /\ loc' = loc /\ UNCHANGED <<users, daily>>
      /\ pc \in [LoginReq -> {"idle"} \cup Serving \cup Answered]
  BY DEF LoginInv, Serve, TypeOK, InsertLoginEvent
<1>2. \A q \in LoginReq \ {r} : pc'[q] = pc[q] /\ loc'[q] = loc[q]
  BY <1>1, ServeMoves
<1>3. /\ loc[r].account \in BDA /\ LockKey(r) \in BDA \X Day
      /\ loc[r].streak >= 1 /\ loc[r].streak \in Nat
      /\ loc[r].reward.kind = "none"
  BY <1>1 DEF TypeOK, Serving, Answered, Local, RequestOK, LockKey
<1>4. pc'[r] \in {"rollup", "release"}
  BY <1>1 DEF InsertLoginEvent, Goto
<1> DEFINE e == EventOf(r)
<1>5. /\ e.type = "LOGIN" /\ e.stamp = "none" /\ e.bda = loc[r].account
      /\ e.date = loc[r].today /\ e.streak = loc[r].streak
      /\ e.points = LoginPoints(e.streak)
  BY DEF EventOf, LoginEvent
<1>6. ASSUME InsertEvent(e) PROVE LedgerOK'
  <2>1. \A f \in Logins : <<f.bda, f.date>> # <<e.bda, e.date>>
    BY <1>1, <1>5, <1>6 DEF InsertEvent, EventTaken, LedgerOK, Logins
  <2>2. Logins' = Logins \cup {e}
    BY <1>5, <1>6 DEF InsertEvent, Logins
  <2> HIDE DEF e
  <2>3. QED  BY <1>1, <1>3, <1>5, <2>1, <2>2 DEF LedgerOK
<1>7. (InsertEvent(e) /\ events' = events \cup {e}) \/ UNCHANGED events
  BY DEF InsertLoginEvent, InsertEvent
<1>8. LedgerOK'
  BY <1>1, <1>6, <1>7 DEF LedgerOK, Logins
<1>9. RollupOK' /\ StreakBacked'
  BY <1>1, <1>7 DEF RollupOK, StreakBacked
<1>10. CASE pc'[r] = "release"
  <2>1. ~Claimed(r)' /\ RequestOK(r)'
    BY <1>1, <1>3, <1>10, Unclaimed
  <2>2. QED  BY <1>1, <1>2, <1>7, <1>8, <1>9, <2>1, StepOfRequest
<1>11. CASE pc'[r] = "rollup"
  <2>1. InsertEvent(e)
    BY <1>1, <1>11 DEF InsertLoginEvent, Goto
  <2>2. \A f \in Logins : <<f.bda, f.date>> # LockKey(r)
    BY <1>1, <1>5, <2>1 DEF InsertEvent, EventTaken, LedgerOK, Logins, LockKey
  <2>3. daily[LockKey(r)].loginPoints = 0
    <3>1. \A s \in Nat : LoginEvent(loc[r].account, loc[r].today, s) \notin events
      BY <2>2 DEF Logins, LoginEvent, LockKey
    <3>2. daily[LockKey(r)].streakDay \in Nat
      BY <1>1, <1>3 DEF TypeOK, StoresTypeOK, Daily
    <3>3. LoginEvent(LockKey(r)[1], LockKey(r)[2], daily[LockKey(r)].streakDay) \notin events
      BY <3>1, <3>2 DEF LockKey
    <3>4. QED  BY <1>1, <1>3, <3>3 DEF RollupOK
  <2>4. LockKey(r)' = LockKey(r) /\ EventOf(r)' = EventOf(r)
    BY <1>1 DEF LockKey, EventOf
  <2>5. RequestOK(r)'
    BY <1>1, <1>3, <1>11, <2>1, <2>3, <2>4 DEF RequestOK, InsertEvent, Claimed
  <2>6. \A q \in LoginReq \ {r} : Claimed(q) => LockKey(q) # LockKey(r)
    <3>1. \A q \in LoginReq : Claimed(q) => EventOf(q) \in Logins
      BY DEF LoginInv, RequestOK, EventOf, LoginEvent, Logins
    <3>2. \A q \in LoginReq : <<EventOf(q).bda, EventOf(q).date>> = LockKey(q)
      BY DEF EventOf, LoginEvent, LockKey
    <3>3. QED  BY <2>2, <3>1, <3>2
  <2>7. QED  BY <1>1, <1>2, <1>7, <1>8, <1>9, <2>4, <2>5, <2>6, StepOfRequest
<1>12. QED  BY <1>4, <1>10, <1>11

\* The credit: the rollup was at zero, so nobody else is past this step.
LEMMA InvUpsert ==
  ASSUME LoginInv, TypeOK', NEW r \in LoginReq, UpsertLoginDay(r)
  PROVE  LoginInv'
<1>1. /\ TypeOK /\ Serve(r) /\ RequestOK(r) /\ LedgerOK /\ RollupOK /\ StreakBacked
      /\ pc[r] = "rollup" /\ loc' = loc /\ UNCHANGED <<users, events>>
      /\ pc \in [LoginReq -> {"idle"} \cup Serving \cup Answered]
      /\ daily \in [BDA \X Day -> Daily] /\ users \in [Account -> User]
  BY DEF LoginInv, Serve, TypeOK, StoresTypeOK, UpsertLoginDay
<1>2. \A q \in LoginReq \ {r} : pc'[q] = pc[q] /\ loc'[q] = loc[q]
  BY <1>1, ServeMoves
<1>3. /\ loc[r].account \in BDA /\ LockKey(r) \in BDA \X Day
      /\ LockKey(r) = <<loc[r].account, loc[r].today>>
      /\ loc[r].streak \in Nat /\ loc[r].reward.kind = "none"
      /\ Claimed(r) /\ EventOf(r) \in events
      /\ daily[LockKey(r)].loginPoints = 0
  BY <1>1 DEF TypeOK, Serving, Answered, Local, RequestOK, LockKey, Claimed
<1>4. pc'[r] \in {"streak", "failed"}
  BY <1>1 DEF UpsertLoginDay, Goto, Fails
<1> DEFINE doc == LoginDay(daily[LockKey(r)], loc[r].streak)
<1>5. \/ UNCHANGED daily /\ pc'[r] = "failed"
      \/ daily' = [daily EXCEPT ![LockKey(r)] = doc]
  BY <1>1 DEF UpsertLoginDay, CreditRollup, UpsertDaily, LockKey, Goto, Fails
<1>6. /\ doc.loggedIn = TRUE /\ doc.streakDay = loc[r].streak
      /\ doc.loginPoints = LoginPoints(loc[r].streak)
  <2>1. daily[LockKey(r)] \in Daily /\ LoginPoints(loc[r].streak) \in Nat
    BY <1>1, <1>3, LoginPointsRange
  <2>2. /\ doc.loggedIn = TRUE /\ doc.streakDay = loc[r].streak
        /\ doc.loginPoints = daily[LockKey(r)].loginPoints + LoginPoints(loc[r].streak)
    BY <1>3, <2>1, LoginDayType
  <2>3. daily[LockKey(r)].loginPoints + LoginPoints(loc[r].streak) = LoginPoints(loc[r].streak)
    BY <1>3, <2>1
  <2> HIDE DEF doc
  <2>4. QED  BY <2>2, <2>3
<1> HIDE DEF doc
<1>7. \A k \in BDA \X Day : k # LockKey(r) => daily'[k] = daily[k]
  BY <1>1, <1>5
<1>8. /\ daily'[LockKey(r)] = doc \/ UNCHANGED daily
      /\ pc'[r] = "streak" => daily'[LockKey(r)] = doc
  BY <1>1, <1>3, <1>5
<1>9. ~daily[LockKey(r)].loggedIn
  BY <1>1, <1>3, CreditedDay
<1>10. LedgerOK'
  BY <1>1 DEF LedgerOK, Logins
<1>11. RollupOK'
  <2>1. \A k \in BDA \X Day : daily'[k] = daily[k] \/ (k = LockKey(r) /\ daily'[k] = doc)
    BY <1>7, <1>8
  <2>2. LoginEvent(LockKey(r)[1], LockKey(r)[2], loc[r].streak) \in events
    BY <1>3 DEF EventOf
  <2>3. QED  BY <1>1, <1>6, <2>1, <2>2 DEF RollupOK
<1>12. StreakBacked'
  <2> SUFFICES ASSUME NEW b \in BDA, users[b].last # Never
               PROVE  daily'[<<b, users[b].last>>] = daily[<<b, users[b].last>>]
    BY <1>1 DEF StreakBacked
  <2>1. <<b, users[b].last>> \in BDA \X Day /\ daily[<<b, users[b].last>>].loggedIn
    BY <1>1 DEF StreakBacked, Account, User
  <2>2. QED  BY <1>7, <1>9, <2>1
<1>13. \A q \in LoginReq \ {r} : Claimed(q) => LockKey(q) # LockKey(r)
  BY <1>3 DEF LoginInv, OneClaim
<1>14. \A q \in LoginReq \ {r} : Claimed(q) => daily'[LockKey(q)] = daily[LockKey(q)]
  <2>1. \A q \in LoginReq : Claimed(q) => LockKey(q) \in BDA \X Day
    BY <1>1 DEF LoginInv, RequestOK, LockKey, TypeOK, Local
  <2>2. QED  BY <1>7, <1>13, <2>1
<1>15. LockKey(r)' = LockKey(r) /\ EventOf(r)' = EventOf(r)
  BY <1>1 DEF LockKey, EventOf
<1>16. RequestOK(r)'
  <2>1. CASE pc'[r] = "failed"
    BY <1>1, <1>3, <2>1, Unclaimed DEF Answered
  <2>2. CASE pc'[r] = "streak"
    BY <1>1, <1>3, <1>6, <1>8, <1>15, <2>2 DEF RequestOK, Claimed
  <2>3. QED  BY <1>4, <2>1, <2>2
<1>17. QED
  BY <1>1, <1>2, <1>10, <1>11, <1>12, <1>13, <1>14, <1>15, <1>16, StepOfRequest

\* The user document is saved with the streak and date of a credited rollup.
LEMMA InvSaveStreak ==
  ASSUME LoginInv, TypeOK', NEW r \in LoginReq, SaveStreak(r)
  PROVE  LoginInv'
<1>1. /\ TypeOK /\ Serve(r) /\ RequestOK(r) /\ LedgerOK /\ RollupOK /\ StreakBacked
      /\ pc[r] = "streak" /\ UNCHANGED <<daily, events>>
      /\ pc \in [LoginReq -> {"idle"} \cup Serving \cup Answered]
      /\ loc[r] \in Local /\ loc \in [LoginReq -> Local] /\ users \in [Account -> User]
  BY DEF LoginInv, Serve, TypeOK, StoresTypeOK, SaveStreak
<1>2. \A q \in LoginReq \ {r} : pc'[q] = pc[q] /\ loc'[q] = loc[q]
  BY <1>1, ServeMoves
<1>3. /\ loc[r].account \in BDA /\ loc[r].reward.kind = "none"
      /\ Claimed(r) /\ EventOf(r) \in events
      /\ daily[LockKey(r)].loggedIn /\ daily[LockKey(r)].streakDay = loc[r].streak
      /\ LockKey(r) = <<loc[r].account, loc[r].today>>
  BY <1>1 DEF TypeOK, Serving, Answered, RequestOK, LockKey, Claimed
<1>4. /\ loc'[r].account = loc[r].account /\ loc'[r].today = loc[r].today
      /\ loc'[r].streak = loc[r].streak /\ loc'[r].reward = loc[r].reward
  <2> DEFINE x == [loc[r] EXCEPT !.user = users'[loc[r].account]]
  <2>1. /\ x.account = loc[r].account /\ x.today = loc[r].today
        /\ x.streak = loc[r].streak /\ x.reward = loc[r].reward
    BY <1>1 DEF Local
  <2>2. loc' = [loc EXCEPT ![r] = x] \/ UNCHANGED loc
    BY DEF SaveStreak
  <2> HIDE DEF x
  <2>3. QED  BY <1>1, <2>1, <2>2
<1>5. pc'[r] \in {"bump", "failed"}
  BY <1>1 DEF SaveStreak, Goto, Fails
<1>6. LedgerOK' /\ RollupOK'
  BY <1>1 DEF LedgerOK, Logins, RollupOK
<1>7. StreakBacked'
  <2>1. UNCHANGED users \/ users' = [users EXCEPT ![loc[r].account] =
          [current |-> loc[r].streak, best |-> NewBest(r), last |-> loc[r].today]]
    BY DEF SaveStreak, SetStreak, UpdateUserStreak
  <2> SUFFICES ASSUME NEW b \in BDA, users'[b].last # Never
               PROVE  /\ daily[<<b, users'[b].last>>].loggedIn
                      /\ daily[<<b, users'[b].last>>].streakDay = users'[b].current
    BY <1>1 DEF StreakBacked
  <2>2. CASE users'[b] = users[b]
    BY <1>1, <2>2 DEF StreakBacked
  <2>3. CASE users'[b] # users[b]
    <3>1. b = loc[r].account /\ b \in Account
      BY <1>1, <2>1, <2>3 DEF Account
    <3>2. users'[b].last = loc[r].today /\ users'[b].current = loc[r].streak
      BY <1>1, <2>1, <2>3, <3>1
    <3>3. QED  BY <1>3, <3>1, <3>2
  <2>4. QED  BY <2>2, <2>3
<1>8. LockKey(r)' = LockKey(r) /\ EventOf(r)' = EventOf(r)
  BY <1>4 DEF LockKey, EventOf
<1>9. RequestOK(r)'
  BY <1>1, <1>3, <1>4, <1>5, <1>8 DEF RequestOK, Claimed, Answered
<1>10. \A q \in LoginReq \ {r} : Claimed(q) => LockKey(q) # LockKey(r)
  BY <1>3 DEF LoginInv, OneClaim
<1>11. QED
  BY <1>1, <1>2, <1>6, <1>7, <1>8, <1>9, <1>10, StepOfRequest

\* The reward is told by the request that holds the claim.
LEMMA InvInvalidate ==
  ASSUME LoginInv, TypeOK', NEW r \in LoginReq, InvalidateCache(r)
  PROVE  LoginInv'
<1>1. /\ TypeOK /\ Serve(r) /\ RequestOK(r)
      /\ pc[r] = "bump" /\ UNCHANGED <<users, daily, events>>
      /\ pc \in [LoginReq -> {"idle"} \cup Serving \cup Answered]
      /\ loc[r] \in Local /\ loc \in [LoginReq -> Local]
      /\ pc' = [pc EXCEPT ![r] = "session"]
  BY DEF LoginInv, Serve, TypeOK, InvalidateCache, Goto
<1>2. \A q \in LoginReq \ {r} : pc'[q] = pc[q] /\ loc'[q] = loc[q]
  BY <1>1, ServeMoves
<1>3. /\ loc'[r].account = loc[r].account /\ loc'[r].today = loc[r].today
      /\ loc'[r].streak = loc[r].streak
      /\ loc'[r].reward = [kind |-> "new", streak |-> loc[r].streak]
  BY <1>1 DEF InvalidateCache, Local
<1>4. LockKey(r)' = LockKey(r) /\ EventOf(r)' = EventOf(r)
  BY <1>3 DEF LockKey, EventOf
<1>5. Claimed(r) /\ pc'[r] = "session"
  BY <1>1 DEF Claimed
<1>6. RequestOK(r)'
  BY <1>1, <1>3, <1>4, <1>5 DEF RequestOK, Claimed
<1>7. QED  BY <1>1, <1>2, <1>4, <1>5, <1>6, QuietStep

\* A request that only moves on to an answer, and one that dies.
LEMMA InvAnswer ==
  ASSUME LoginInv, TypeOK', NEW r \in LoginReq,
         ReleaseLoginLock(r) \/ SaveSession(r) \/ Die(r)
  PROVE  LoginInv'
<1>1. /\ TypeOK /\ RequestOK(r) /\ UNCHANGED <<users, daily, events, loc>>
      /\ pc \in [LoginReq -> {"idle"} \cup Serving \cup Answered]
      /\ \A q \in LoginReq \ {r} : pc'[q] = pc[q] /\ loc'[q] = loc[q]
      /\ pc'[r] \in {"ok", "failed"}
  BY DEF LoginInv, TypeOK, ReleaseLoginLock, SaveSession, Die, Fails, Goto
<1>2. LockKey(r)' = LockKey(r) /\ EventOf(r)' = EventOf(r)
  BY <1>1 DEF LockKey, EventOf
<1>3. Claimed(r)' => Claimed(r) /\ pc[r] # "rollup"
  BY <1>1 DEF Claimed, RequestOK, Answered
<1>4. RequestOK(r)'
  BY <1>1, <1>2, <1>3 DEF RequestOK, Claimed, Answered
<1>5. QED  BY <1>1, <1>2, <1>3, <1>4, QuietStep

LEMMA NextLoginInv == LoginInv /\ [Next]_vars => LoginInv'
<1> SUFFICES ASSUME LoginInv, [Next]_vars PROVE LoginInv'  OBVIOUS
<1>1. TypeOK'
  BY NextTypeOK DEF LoginInv
<1>2. ASSUME NEW r \in LoginReq, Serve(r) \/ Die(r) PROVE LoginInv'
  BY <1>1, <1>2, InvBeforeAward, InvInsert, InvUpsert, InvSaveStreak, InvInvalidate,
     InvAnswer DEF Serve
<1>3. ASSUME UNCHANGED <<users, daily, events, pc, loc>> PROVE LoginInv'
  <2>1. LedgerOK' /\ RollupOK' /\ StreakBacked'
    BY <1>3, StoreInvFrame DEF LoginInv
  <2>2. \A q \in LoginReq :
          RequestOK(q)' /\ (Claimed(q)' <=> Claimed(q)) /\ LockKey(q)' = LockKey(q)
    BY <1>3, RequestFrame DEF LoginInv
  <2>3. QED  BY <1>1, <2>1, <2>2 DEF LoginInv, OneClaim
<1>4. QED
  BY <1>2, <1>3 DEF Next, ExpireLock, Midnight, storeVars, loginVars, vars

\* The invariant from which the promises of recordLogin follow.
THEOREM LoginInvariant == Spec => []LoginInv
BY InitLoginInv, NextLoginInv, PTL DEF Spec

-----------------------------------------------------------------------------
(* What recordLogin promises.                                              *)

\* A day's login points are those of the one ledger event that posts them:
\* recordLogin never credits a day twice, nor without an event.
THEOREM BonusIsBacked == Spec => []CreditedOnce
<1>1. LoginInv => CreditedOnce
  <2> SUFFICES ASSUME LoginInv, NEW b \in BDA, NEW d \in Day,
                      daily[<<b, d>>].loginPoints # 0
               PROVE  \E e \in Logins :
                        /\ <<e.bda, e.date>> = <<b, d>>
                        /\ e.points = daily[<<b, d>>].loginPoints
                        /\ e.streak = daily[<<b, d>>].streakDay
    BY DEF CreditedOnce
  <2> DEFINE e == LoginEvent(b, d, daily[<<b, d>>].streakDay)
  <2>1. e \in events /\ daily[<<b, d>>].loginPoints = LoginPoints(daily[<<b, d>>].streakDay)
    BY DEF LoginInv, RollupOK
  <2>2. e \in Logins
    BY <2>1 DEF LoginEvent, Logins
  <2>3. QED  BY <2>1, <2>2 DEF LoginEvent
<1>2. QED  BY <1>1, LoginInvariant, PTL

\* The user document never runs ahead of the rollups.
THEOREM StreakIsBacked == Spec => []StreakBacked
<1>1. LoginInv => StreakBacked  BY DEF LoginInv
<1>2. QED  BY <1>1, LoginInvariant, PTL

\* At most one login of an associate and a day is answered isNew, with the
\* streak and the points that were credited.
THEOREM NewRewardIsCredited == Spec => []NewRewardIsTheCredit
<1>1. LoginInv => NewRewardIsTheCredit
  <2> SUFFICES ASSUME LoginInv, NEW r \in LoginReq, loc[r].reward.kind = "new"
               PROVE  /\ daily[LockKey(r)].loginPoints = LoginPoints(loc[r].reward.streak)
                      /\ daily[LockKey(r)].streakDay = loc[r].reward.streak
                      /\ \A s \in LoginReq :
                           loc[s].reward.kind = "new" /\ LockKey(s) = LockKey(r) => s = r
    BY DEF NewRewardIsTheCredit
  <2>1. /\ Claimed(r) /\ pc[r] # "rollup" /\ loc[r].account \in BDA
        /\ daily[LockKey(r)].loggedIn
        /\ daily[LockKey(r)].streakDay = loc[r].reward.streak
    BY DEF LoginInv, RequestOK, Claimed, Answered
  <2>2. LockKey(r) \in BDA \X Day
    BY <2>1 DEF LockKey, LoginInv, TypeOK, Local
  <2>3. daily[LockKey(r)].loginPoints = LoginPoints(loc[r].reward.streak)
    BY <2>1, <2>2 DEF LoginInv, RollupOK
  <2>4. QED  BY <2>1, <2>3 DEF LoginInv, OneClaim, Claimed
<1>2. QED  BY <1>1, LoginInvariant, PTL

-----------------------------------------------------------------------------
(* Login implements LoginBonus.                                            *)

\* The rules LoginBonus takes its amounts from are those of Login, and every
\* day of a streak is worth what one of the first eleven is.
LEMMA BonusAmount ==
  \A n \in Nat : n >= 1 => LoginPoints(n) \in Bonus!Amount
<1> TAKE n \in Nat
<1>1. \A m : Bonus!LoginPoints(m) = LoginPoints(m)
  BY DEF Bonus!LoginPoints, Bonus!LoginBase, Bonus!StreakBonusPerDay, Bonus!StreakBonusCap,
         LoginPoints, LoginBase, StreakBonusPerDay, StreakBonusCap
<1>2. n > 11 => LoginPoints(n) = LoginPoints(11)
  BY DEF LoginPoints, LoginBase, StreakBonusPerDay, StreakBonusCap
<1>3. QED  BY <1>1, <1>2 DEF Bonus!Amount

Posted   == {[bda |-> e.bda, date |-> e.date, points |-> e.points] : e \in Logins}
Credited == [k \in BDA \X Day |-> daily[k].loginPoints]

\* What is posted is a posting, at most one for each key.
LEMMA PostedOnce ==
  ASSUME TypeOK, LedgerOK
  PROVE  /\ Posted \in SUBSET Bonus!Posting
         /\ \A p, q \in Posted : Bonus!Key(p) = Bonus!Key(q) => p = q
<1>1. \A e \in Logins : /\ e.bda \in BDA /\ e.date \in Day
                        /\ e.points \in Bonus!Amount
  BY BonusAmount DEF TypeOK, StoresTypeOK, LedgerOK, Logins, Event
<1>2. QED  BY <1>1 DEF Posted, LedgerOK, Bonus!Posting, Bonus!Key

\* A credited rollup has its posting.
LEMMA CreditIsPosted ==
  ASSUME LoginInv, NEW k \in BDA \X Day, daily[k].loginPoints # 0
  PROVE  \E p \in Posted : Bonus!Key(p) = k /\ p.points = daily[k].loginPoints
<1> DEFINE e == LoginEvent(k[1], k[2], daily[k].streakDay)
<1>1. e \in Logins /\ e.points = daily[k].loginPoints
  BY DEF LoginInv, RollupOK, LoginEvent, Logins
<1>2. [bda |-> e.bda, date |-> e.date, points |-> e.points] \in Posted
  BY <1>1 DEF Posted
<1>3. QED  BY <1>1, <1>2 DEF Bonus!Key, LoginEvent

LEMMA InitIsBonusInit == Init => Bonus!BonusInit
<1> SUFFICES ASSUME Init PROVE Bonus!BonusInit  OBVIOUS
<1>1. LoginInv /\ TypeOK /\ LedgerOK /\ RollupOK
  BY InitLoginInv DEF LoginInv
<1>2. \A k \in BDA \X Day : daily[k].loginPoints \in Bonus!Amount \cup {0}
  <2> TAKE k \in BDA \X Day
  <2>1. CASE daily[k].loginPoints # 0
    <3>1. PICK p \in Posted : p.points = daily[k].loginPoints
      BY <1>1, <2>1, CreditIsPosted
    <3>2. QED  BY <1>1, <3>1, PostedOnce DEF Bonus!Posting
  <2>2. QED  BY <2>1
<1>3. QED
  BY <1>1, <1>2, PostedOnce, CreditIsPosted DEF Bonus!BonusInit, Posted

LEMMA StepIsBonusStep ==
  LoginInv /\ [Next]_vars => [Bonus!BonusNext]_<<Posted, Credited>>
<1> SUFFICES ASSUME LoginInv, [Next]_vars
             PROVE  Bonus!BonusNext \/ UNCHANGED <<Posted, Credited>>
  OBVIOUS
<1>1. ASSUME UNCHANGED <<daily, events>> PROVE UNCHANGED <<Posted, Credited>>
  BY <1>1 DEF Posted, Credited, Logins
<1>2. ASSUME NEW r \in LoginReq, InsertLoginEvent(r), ~UNCHANGED events
      PROVE  Bonus!BonusNext
  <2> DEFINE e == EventOf(r)
             p == [bda |-> e.bda, date |-> e.date, points |-> e.points]
  <2>1. /\ InsertEvent(e) /\ UNCHANGED daily
        /\ e.type = "LOGIN" /\ e.stamp = "none"
    BY <1>2 DEF InsertLoginEvent, InsertEvent, EventOf, LoginEvent
  <2>2. p \in Bonus!Posting
    <3>1. /\ loc[r].account \in BDA /\ loc[r].today \in Day
          /\ loc[r].streak \in Nat /\ loc[r].streak >= 1
      BY <1>2 DEF LoginInv, TypeOK, Local, Serving, RequestOK, InsertLoginEvent
    <3>2. LoginPoints(loc[r].streak) \in Bonus!Amount
      BY <3>1, BonusAmount
    <3>3. QED  BY <3>1, <3>2 DEF EventOf, LoginEvent, Bonus!Posting
  <2>3. \A f \in Logins : <<f.bda, f.date>> # <<e.bda, e.date>>
    BY <2>1 DEF InsertEvent, EventTaken, LoginInv, LedgerOK, Logins
  <2>4. \A q \in Posted : Bonus!Key(q) # Bonus!Key(p)
    BY <2>3 DEF Posted, Bonus!Key
  <2>5. Logins' = Logins \cup {e}
    BY <2>1 DEF InsertEvent, Logins
  <2> HIDE DEF e
  <2>6. Posted' = Posted \cup {p}
    BY <2>5 DEF Posted
  <2>7. UNCHANGED Credited
    BY <2>1 DEF Credited
  <2> HIDE DEF p
  <2>8. QED
    BY <2>2, <2>4, <2>6, <2>7 DEF Bonus!BonusNext, Bonus!Post, Posted, Credited
<1>3. ASSUME NEW r \in LoginReq, UpsertLoginDay(r), ~UNCHANGED daily
      PROVE  Bonus!BonusNext
  <2> DEFINE e == EventOf(r)
             p == [bda |-> e.bda, date |-> e.date, points |-> e.points]
             doc == LoginDay(daily[LockKey(r)], loc[r].streak)
  <2>1. /\ CreditRollup(r) /\ UNCHANGED events /\ pc[r] = "rollup"
        /\ daily' = [daily EXCEPT ![LockKey(r)] = doc]
    BY <1>3 DEF UpsertLoginDay, CreditRollup, UpsertDaily, LockKey
  <2>2. /\ e \in Logins /\ daily[LockKey(r)].loginPoints = 0
        /\ LockKey(r) \in BDA \X Day /\ loc[r].streak \in Nat
        /\ daily[LockKey(r)] \in Daily /\ daily \in [BDA \X Day -> Daily]
    BY <2>1 DEF LoginInv, TypeOK, StoresTypeOK, Local, Serving, RequestOK, Claimed,
                EventOf, LoginEvent, Logins, LockKey
  <2>3. doc.loginPoints = LoginPoints(loc[r].streak)
    <3>1. doc.loginPoints = daily[LockKey(r)].loginPoints + LoginPoints(loc[r].streak)
      BY <2>2, LoginDayType
    <3>2. LoginPoints(loc[r].streak) \in Nat  BY <2>2, LoginPointsRange
    <3> HIDE DEF doc
    <3>3. QED  BY <2>2, <3>1, <3>2
  <2>4. p \in Posted /\ p \in Bonus!Posting
    BY <2>2, PostedOnce DEF Posted, LoginInv
  <2>5. Bonus!Key(p) = LockKey(r) /\ p.points = LoginPoints(loc[r].streak)
    BY DEF Bonus!Key, EventOf, LoginEvent, LockKey
  <2> HIDE DEF p, doc
  <2>6. /\ Credited[Bonus!Key(p)] = 0
        /\ Credited' = [Credited EXCEPT ![Bonus!Key(p)] = p.points]
    BY <2>1, <2>2, <2>3, <2>5 DEF Credited
  <2>7. UNCHANGED Posted
    BY <2>1 DEF Posted, Logins
  <2>8. QED
    BY <2>4, <2>6, <2>7 DEF Bonus!BonusNext, Bonus!Credit, Posted, Credited
<1>4. ASSUME NEW r \in LoginReq, Serve(r)
      PROVE  Bonus!BonusNext \/ UNCHANGED <<Posted, Credited>>
  <2>1. CASE UNCHANGED <<daily, events>>  BY <1>1, <2>1
  <2>2. CASE InsertLoginEvent(r) \/ UpsertLoginDay(r)
    <3>1. InsertLoginEvent(r) => UNCHANGED daily  BY DEF InsertLoginEvent
    <3>2. UpsertLoginDay(r) => UNCHANGED events  BY DEF UpsertLoginDay
    <3>3. QED  BY <1>1, <1>2, <1>3, <1>4, <2>2, <3>1, <3>2
  <2>3. QED
    BY <1>4, <2>1, <2>2
    DEF Serve, FindUser, Verify, ReadYesterday, AcquireLoginLock, RereadUser,
        ReleaseLoginLock, SaveStreak, InvalidateCache, SaveSession, storeVars
<1>5. QED
  BY <1>1, <1>4 DEF Next, Die, ExpireLock, Midnight, vars, storeVars, loginVars

\* Login, with its failures, deaths, expiries and midnights, behaves as the
\* promised bonus: posted once, credited once after it, never taken back.
THEOREM LoginImplementsBonus == Spec => ImplementsBonus
<1>1. UNCHANGED <<Posted, Credited>> <=> UNCHANGED Bonus!bonusVars
  BY DEF Posted, Credited, Bonus!bonusVars
<1>2. LoginInv /\ [Next]_vars => [Bonus!BonusNext]_(Bonus!bonusVars)
  BY <1>1, StepIsBonusStep
<1>3. QED
  BY <1>2, InitIsBonusInit, LoginInvariant, PTL DEF Spec, ImplementsBonus, Bonus!BonusSpec


-----------------------------------------------------------------------------
(* The lock of a day with the stores up.                                   *)

\* The lock of today stands for points credited, or for a request at work.
LockStands ==
  \A k \in locks : k[2] = today =>
    \/ daily[k].loginPoints # 0
    \/ \E r \in LoginReq : Holder(r) /\ LockKey(r) = k

\* Nobody is ahead of the clock.
NotAhead ==
  /\ \A k \in locks : k[2] <= today
  /\ \A r \in LoginReq : loc[r].today <= today

LockInv == LoginInv /\ NotAhead /\ (faults = 0 => LockStands)

-----------------------------------------------------------------------------
(* Requests served within one day.                                         *)

\* The labels at which a request has read today's date and still uses it.
Dated == {"clock", "lock", "reread", "insert", "release", "rollup", "streak", "bump"}

\* The user document of a request is as it is in the store, or a login of today
\* has been saved since; once the event is posted, it is as it is in the store.
UserFresh(r) ==
  /\ pc[r] \in {"verify", "clock", "lock", "insert"} /\ loc[r].account \in BDA =>
       loc[r].user = users[loc[r].account] \/ users[loc[r].account].last = today
  /\ pc[r] \in {"rollup", "streak"} => loc[r].user = users[loc[r].account]

DayOK(r) ==
  /\ pc[r] \in Serving => loc[r].began = today
  /\ pc[r] \in Dated => loc[r].today = today
  /\ pc[r] = "lock" => loc[r].yesterday = today - 1
  /\ Holder(r) => LockKey(r) \in locks
  /\ UserFresh(r)

OneDay ==
  /\ MaxLag = 0 /\ today >= 1
  /\ \A e \in Logins : e.date <= today
  /\ \A r \in LoginReq : DayOK(r)
  /\ LockExclusive

-----------------------------------------------------------------------------
(* ... with the stores up.                                                 *)

\* A login of today is under its lock.
LedgerLocked == \A e \in Logins : e.date = today => <<e.bda, e.date>> \in locks

\* A login is in the user document, or its request is about to write it there.
LedgerSaved ==
  \A e \in Logins :
    \/ e.date <= users[e.bda].last
    \/ \E r \in LoginReq : pc[r] \in {"rollup", "streak"} /\ EventOf(r) = e

\* A request that is about to post its event is the first, at the right streak.
FirstToPost(r) ==
  /\ pc[r] \notin {"release", "failed"}
  /\ pc[r] = "insert" =>
       /\ \A e \in Logins : <<e.bda, e.date>> # LockKey(r)
       /\ loc[r].streak = StreakIn(Logins, loc[r].account, today - 1) + 1

QuietDay ==
  /\ LedgerLocked /\ LedgerSaved /\ StreakIsRun
  /\ \A r \in LoginReq : FirstToPost(r)

DayInv == LoginInv /\ OneDay /\ (faults = 0 => QuietDay)

-----------------------------------------------------------------------------
(* What a step of a request does to its own variables.                     *)

\* Which label follows which.
Path(r) ==
  /\ pc[r] = "idle" => pc'[r] \in {"verify", "denied", "failed"}
  /\ pc[r] = "verify" => pc'[r] \in {"denied", "session", "clock"}
  /\ pc[r] = "clock" => pc'[r] \in {"session", "lock"}
  /\ pc[r] = "lock" => pc'[r] \in {"insert", "reread", "failed"}
  /\ pc[r] = "reread" => pc'[r] \in {"session", "failed"}
  /\ pc[r] = "insert" => pc'[r] \in {"rollup", "release"}
  /\ pc[r] = "release" => pc'[r] = "failed"
  /\ pc[r] = "rollup" => pc'[r] \in {"streak", "failed"}
  /\ pc[r] = "streak" => pc'[r] \in {"bump", "failed"}
  /\ pc[r] = "bump" => pc'[r] = "session"
  /\ pc[r] = "session" => pc'[r] \in {"ok", "failed"}
  /\ pc[r] \in {"idle"} \cup Serving

LEMMA ServePath ==
  ASSUME TypeOK, NEW r \in LoginReq, Serve(r)
  PROVE  Path(r)
<1>1. pc \in [LoginReq -> {"idle"} \cup Serving \cup Answered]
  BY DEF TypeOK
<1>2. QED
  BY <1>1
  DEF Serve, FindUser, Verify, ReadYesterday, AcquireLoginLock, RereadUser, InsertLoginEvent,
      ReleaseLoginLock, UpsertLoginDay, SaveStreak, InvalidateCache, SaveSession, Fails, Goto,
      Serving, Path

\* What each step puts in the locals, and which of them it leaves alone.
LEMMA ServeLocals ==
  ASSUME TypeOK, NEW r \in LoginReq, Serve(r)
  PROVE  /\ loc'[r].today = loc[r].today \/ pc[r] = "verify"
         /\ loc'[r].today \in {loc[r].today, today}
         /\ loc'[r].began = loc[r].began \/ pc[r] = "idle"
         /\ loc'[r].user = loc[r].user \/ pc[r] \in {"idle", "reread", "streak"}
         /\ loc'[r].streak = loc[r].streak \/ pc[r] = "lock"
         /\ pc'[r] = "verify" =>
              loc'[r].began = today /\ loc'[r].user = users[loc[r].account]
         /\ pc'[r] = "clock" => loc'[r].today = today
         /\ pc'[r] = "lock" => loc'[r].yesterday = today - 1
         /\ pc'[r] = "insert" => loc'[r].streak = NewStreak(r)
<1>1. /\ loc \in [LoginReq -> Local] /\ loc[r] \in Local
      /\ pc \in [LoginReq -> {"idle"} \cup Serving \cup Answered]
  BY DEF TypeOK
<1>0. Path(r)
  BY ServePath
<1>2. CASE FindUser(r)
  <2> DEFINE x == [loc[r] EXCEPT !.user = users[loc[r].account], !.began = today]
  <2>1. /\ x.user = users[loc[r].account] /\ x.began = today
        /\ x.today = loc[r].today /\ x.streak = loc[r].streak
    BY <1>1 DEF Local
  <2>2. \/ loc' = [loc EXCEPT ![r] = x]
        \/ UNCHANGED loc /\ (Goto(r, "denied") \/ Goto(r, "failed"))
    BY <1>2 DEF FindUser, Fails
  <2> HIDE DEF x
  <2>3. pc[r] = "idle"
    BY <1>2 DEF FindUser
  <2>4. QED  BY <1>0, <1>1, <2>1, <2>2, <2>3 DEF Path, Goto
<1>3. CASE Verify(r)
  <2> DEFINE x == [loc[r] EXCEPT !.today = today]
  <2>1. /\ x.today = today /\ x.began = loc[r].began
        /\ x.user = loc[r].user /\ x.streak = loc[r].streak
    BY <1>1 DEF Local
  <2>2. \/ loc' = [loc EXCEPT ![r] = x]
        \/ UNCHANGED loc /\ (Goto(r, "denied") \/ Goto(r, "session"))
    BY <1>3 DEF Verify, Fails
  <2> HIDE DEF x
  <2>3. pc[r] = "verify"
    BY <1>3 DEF Verify
  <2>4. QED  BY <1>0, <1>1, <2>1, <2>2, <2>3 DEF Path, Goto
<1>4. CASE ReadYesterday(r)
  <2> DEFINE x == [loc[r] EXCEPT !.yesterday = today - 1, !.reward = NotNew(loc[r].user)]
             y == [loc[r] EXCEPT !.yesterday = today - 1]
  <2>1. /\ x.today = loc[r].today /\ x.began = loc[r].began
        /\ x.user = loc[r].user /\ x.streak = loc[r].streak /\ x.yesterday = today - 1
        /\ y.today = loc[r].today /\ y.began = loc[r].began
        /\ y.user = loc[r].user /\ y.streak = loc[r].streak /\ y.yesterday = today - 1
    BY <1>1 DEF Local
  <2>2. loc' = [loc EXCEPT ![r] = x] \/ loc' = [loc EXCEPT ![r] = y]
    BY <1>4 DEF ReadYesterday
  <2> HIDE DEF x, y
  <2>3. pc[r] = "clock"
    BY <1>4 DEF ReadYesterday
  <2>4. QED  BY <1>0, <1>1, <2>1, <2>2, <2>3 DEF Path, Goto
<1>5. CASE AcquireLoginLock(r)
  <2> DEFINE x == [loc[r] EXCEPT !.streak = NewStreak(r)]
  <2>1. /\ x.today = loc[r].today /\ x.began = loc[r].began
        /\ x.user = loc[r].user /\ x.streak = NewStreak(r)
    BY <1>1 DEF Local
  <2>2. \/ loc' = [loc EXCEPT ![r] = x]
        \/ UNCHANGED loc /\ (Goto(r, "reread") \/ Goto(r, "failed"))
    BY <1>5 DEF AcquireLoginLock, Fails
  <2> HIDE DEF x
  <2>3. pc[r] = "lock"
    BY <1>5 DEF AcquireLoginLock
  <2>4. QED  BY <1>0, <1>1, <2>1, <2>2, <2>3 DEF Path, Goto
<1>6. CASE RereadUser(r)
  <2> DEFINE x == [loc[r] EXCEPT !.user = users[loc[r].account],
                                 !.reward = NotNew(users[loc[r].account])]
  <2>1. /\ x.today = loc[r].today /\ x.began = loc[r].began
        /\ x.streak = loc[r].streak
    BY <1>1 DEF Local
  <2>2. loc' = [loc EXCEPT ![r] = x] \/ UNCHANGED loc
    BY <1>6 DEF RereadUser
  <2> HIDE DEF x
  <2>3. pc[r] = "reread"
    BY <1>6 DEF RereadUser
  <2>4. QED  BY <1>0, <1>1, <2>1, <2>2, <2>3 DEF Path, Goto
<1>7. CASE SaveStreak(r)
  <2> DEFINE x == [loc[r] EXCEPT !.user = users'[loc[r].account]]
  <2>1. /\ x.today = loc[r].today /\ x.began = loc[r].began
        /\ x.streak = loc[r].streak
    BY <1>1 DEF Local
  <2>2. loc' = [loc EXCEPT ![r] = x] \/ UNCHANGED loc
    BY <1>7 DEF SaveStreak
  <2> HIDE DEF x
  <2>3. pc[r] = "streak"
    BY <1>7 DEF SaveStreak
  <2>4. QED  BY <1>0, <1>1, <2>1, <2>2, <2>3 DEF Path, Goto
<1>8. CASE InvalidateCache(r)
  <2> DEFINE x == [loc[r] EXCEPT !.reward = [kind |-> "new", streak |-> loc[r].streak]]
  <2>1. /\ x.today = loc[r].today /\ x.began = loc[r].began
        /\ x.user = loc[r].user /\ x.streak = loc[r].streak
    BY <1>1 DEF Local
  <2>2. loc' = [loc EXCEPT ![r] = x]
    BY <1>8 DEF InvalidateCache
  <2> HIDE DEF x
  <2>3. pc[r] = "bump"
    BY <1>8 DEF InvalidateCache
  <2>4. QED  BY <1>0, <1>1, <2>1, <2>2, <2>3 DEF Path, Goto
<1>9. CASE InsertLoginEvent(r) \/ ReleaseLoginLock(r) \/ UpsertLoginDay(r) \/ SaveSession(r)
  BY <1>1, <1>9, <1>0 DEF Path, InsertLoginEvent, ReleaseLoginLock, UpsertLoginDay, SaveSession
<1>10. QED
  BY <1>2, <1>3, <1>4, <1>5, <1>6, <1>7, <1>8, <1>9 DEF Serve

\* What a step of a request does to the locks, and which steps need a fault.
LEMMA ServeLocks ==
  ASSUME TypeOK, NEW r \in LoginReq, Serve(r)
  PROVE  /\ locks' \subseteq locks \cup {LockKey(r)}
         /\ locks' \subseteq locks \/ pc[r] = "lock"
         /\ locks \ {LockKey(r)} \subseteq locks'
         /\ locks \subseteq locks' \/ pc[r] = "release"
         /\ pc'[r] = "insert" => LockKey(r) \notin locks /\ LockKey(r) \in locks'
         /\ faults' = 0 =>
              /\ faults = 0
              /\ pc'[r] = "failed" => pc[r] = "release" /\ LockKey(r) \notin locks'
              /\ pc'[r] # "insert" => locks' \subseteq locks
              /\ pc[r] = "insert" /\ EventTaken(EventOf(r)) <=> pc'[r] = "release"
<1>1. /\ pc \in [LoginReq -> {"idle"} \cup Serving \cup Answered]
      /\ faults \in Nat /\ Path(r)
  BY ServePath, StoresAssumption DEF TypeOK, StoresTypeOK, StoresAssumption
<1>2. Errs => faults' # 0
  BY <1>1 DEF Errs
<1>3. CASE AcquireLoginLock(r)
  BY <1>1, <1>2, <1>3 DEF AcquireLoginLock, Goto, Fails, Answers
<1>4. CASE ReleaseLoginLock(r)
  BY <1>1, <1>2, <1>4 DEF ReleaseLoginLock, Goto, Answers
<1>5. CASE InsertLoginEvent(r)
  BY <1>1, <1>2, <1>5 DEF InsertLoginEvent, InsertEvent, Goto, Answers, redisVars
<1>6. CASE \/ FindUser(r) \/ Verify(r) \/ ReadYesterday(r) \/ RereadUser(r)
           \/ UpsertLoginDay(r) \/ SaveStreak(r) \/ InvalidateCache(r) \/ SaveSession(r)
  <2>1. UNCHANGED locks /\ pc[r] \notin {"lock", "release", "insert"}
    BY <1>6 DEF FindUser, Verify, ReadYesterday, RereadUser, UpsertLoginDay, SaveStreak,
                InvalidateCache, SaveSession, redisVars
  <2>2. \/ Answers
        \/ Errs
    BY <1>6 DEF FindUser, Verify, ReadYesterday, RereadUser, UpsertLoginDay, SaveStreak,
                InvalidateCache, SaveSession, Fails, Answers, storeVars
  <2>3. pc'[r] = "failed" => Errs
    BY <1>1, <1>6
    DEF FindUser, Verify, ReadYesterday, RereadUser, UpsertLoginDay, SaveStreak,
        InvalidateCache, SaveSession, Fails, Goto
  <2>4. QED  BY <1>1, <1>2, <2>1, <2>2, <2>3 DEF Path, Answers, Serving
<1>7. QED  BY <1>3, <1>4, <1>5, <1>6 DEF Serve

-----------------------------------------------------------------------------
(* With the stores up, a lock is followed by its award.                    *)

LEMMA InitLockInv == Init => LockInv
<1> SUFFICES ASSUME Init PROVE LockInv  OBVIOUS
<1>1. LoginInv /\ locks = {} /\ today = 1
  BY InitLoginInv DEF Init, StoresInit, LoginsIdle
<1>2. \A r \in LoginReq : loc[r].today = 0
  BY DEF Init, LoginsIdle
<1>3. QED  BY <1>1, <1>2 DEF LockInv, NotAhead, LockStands

\* A step of a request leaves no lock of today without its award or its holder.
LEMMA ServeLockStands ==
  ASSUME LockInv, NEW r \in LoginReq, Serve(r), faults' = 0
  PROVE  LockStands'
<1>1. /\ LoginInv /\ TypeOK /\ RequestOK(r) /\ RollupOK /\ faults = 0 /\ LockStands
      /\ pc \in [LoginReq -> {"idle"} \cup Serving \cup Answered]
      /\ loc[r].account \in Account /\ loc[r].today \in Day
      /\ today' = today
  BY ServeLocks, ServeStores DEF LockInv, LoginInv, TypeOK, Local
<1>2. Path(r)  BY <1>1, ServePath
<1>3. \A q \in LoginReq \ {r} : pc'[q] = pc[q] /\ loc'[q] = loc[q]
  BY <1>1, ServeMoves
<1>4. \A q \in LoginReq \ {r} : Holder(q)' = Holder(q) /\ LockKey(q)' = LockKey(q)
  BY <1>3 DEF Holder, LockKey
<1>5. \A k \in BDA \X Day : daily[k].loginPoints # 0 => daily'[k].loginPoints # 0
  <2>1. CASE UNCHANGED daily  BY <2>1
  <2>2. CASE UpsertLoginDay(r)
    <3>1. /\ daily \in [BDA \X Day -> Daily] /\ daily[LockKey(r)].loginPoints = 0
          /\ \A k \in BDA \X Day : k # LockKey(r) => daily'[k] = daily[k]
      BY <1>1, <2>2
      DEF UpsertLoginDay, CreditRollup, UpsertDaily, LockKey, RequestOK, TypeOK, StoresTypeOK
    <3>2. QED  BY <3>1
  <2>3. QED
    BY <2>1, <2>2
    DEF Serve, FindUser, Verify, ReadYesterday, AcquireLoginLock, RereadUser,
        InsertLoginEvent, ReleaseLoginLock, SaveStreak, InvalidateCache, SaveSession, storeVars
<1>6. Holder(r) => \/ Holder(r)' /\ LockKey(r)' = LockKey(r)
                   \/ LockKey(r) \notin locks'
                   \/ daily[LockKey(r)].loginPoints # 0
  <2>1. Holder(r) => LockKey(r)' = LockKey(r) /\ LockKey(r) \in BDA \X Day
    BY <1>1, ServeLocals, ServeMoves DEF LockKey, Holder, TypeOK, Serving
  <2>2. pc[r] \in {"insert", "rollup"} => Holder(r)'
    BY <1>1, <1>2, ServeLocks DEF Path, Holder
  <2>3. pc[r] = "release" => LockKey(r) \notin locks'
    BY <1>1, <1>2, ServeLocks DEF Path
  <2>4. pc[r] = "streak" => daily[LockKey(r)].loginPoints # 0
    BY <1>1, <2>1, CreditedDay DEF RequestOK, Claimed, Holder
  <2>5. QED  BY <2>1, <2>2, <2>3, <2>4 DEF Holder
<1>7. \A k \in locks' : k \in locks \/ (Holder(r)' /\ LockKey(r)' = k)
  <2>1. pc'[r] = "insert" => Holder(r)' /\ LockKey(r)' = LockKey(r)
    BY <1>1, <1>2, ServeLocals, ServeMoves DEF Holder, LockKey, Path, Serving
  <2>2. QED  BY <1>1, <2>1, ServeLocks
<1>8. locks \in SUBSET (BDA \X Day)  BY <1>1 DEF TypeOK
<1>9. SUFFICES ASSUME NEW k \in locks', k[2] = today, k \in locks
               PROVE  \/ daily'[k].loginPoints # 0
                      \/ \E q \in LoginReq : Holder(q)' /\ LockKey(q)' = k
  BY <1>1, <1>7 DEF LockStands
<1>10. QED
  BY <1>1, <1>4, <1>5, <1>6, <1>8, <1>9 DEF LockStands

LEMMA NextLockInv == LockInv /\ [Next]_vars => LockInv'
<1> SUFFICES ASSUME LockInv, [Next]_vars PROVE LockInv'  OBVIOUS
<1>1. LoginInv' /\ LoginInv /\ TypeOK /\ NotAhead /\ today \in Nat
  BY NextLoginInv DEF LockInv, LoginInv, TypeOK, StoresTypeOK, Day
<1>2. ASSUME NEW r \in LoginReq, Serve(r) PROVE LockInv'
  <2>1. /\ today' = today /\ locks' \subseteq locks \cup {LockKey(r)}
        /\ LockKey(r)[2] <= today /\ loc'[r].today <= today
        /\ \A q \in LoginReq \ {r} : loc'[q] = loc[q]
    <3>1. loc[r].today <= today /\ loc'[r].today \in {loc[r].today, today}
      BY <1>1, <1>2, ServeLocals DEF NotAhead
    <3>2. LockKey(r)[2] <= today /\ loc'[r].today <= today
      BY <1>1, <3>1 DEF LockKey
    <3>3. QED  BY <1>1, <1>2, <3>2, ServeLocks, ServeMoves, ServeStores
  <2>2. NotAhead'
    BY <1>1, <2>1 DEF NotAhead
  <2>3. QED  BY <1>1, <1>2, <2>2, ServeLockStands DEF LockInv
<1>3. ASSUME NEW r \in LoginReq, Die(r) PROVE LockInv'
  BY <1>1, <1>3
  DEF Die, Fails, Errs, Goto, redisVars, LockInv, NotAhead, TypeOK, StoresTypeOK
<1>4. ASSUME NEW k \in BDA \X Day, ExpireLock(k) PROVE LockInv'
  <2>1. UNCHANGED <<daily, today, faults, pc, loc>> /\ locks' \subseteq locks
    BY <1>4 DEF ExpireLock, storeVars
  <2>2. QED
    BY <1>1, <2>1 DEF LockInv, NotAhead, LockStands, Holder, LockKey
<1>5. CASE Midnight
  <2>1. /\ UNCHANGED <<locks, loc>> /\ today' = today + 1
        /\ \A k \in locks : k[2] \in Nat
        /\ \A r \in LoginReq : loc[r].today \in Nat
    BY <1>1, <1>5 DEF Midnight, loginVars, TypeOK, Local, Day
  <2>2. NotAhead' /\ \A k \in locks' : k[2] # today'
    BY <1>1, <2>1 DEF NotAhead
  <2>3. QED  BY <1>1, <2>2 DEF LockInv, LockStands
<1>6. CASE UNCHANGED vars
  BY <1>1, <1>6
  DEF vars, storeVars, loginVars, LockInv, NotAhead, LockStands, Holder, LockKey
<1>7. QED  BY <1>2, <1>3, <1>4, <1>5, <1>6 DEF Next

\* With the stores up, once the day's lock is taken and nobody is at work under
\* it, the login points of the day are in the rollup, whenever midnight falls.
THEOREM AwardsFollowLocks == Spec => []AwardedUnlessFault
<1>1. LockInv => AwardedUnlessFault
  BY DEF LockInv, LockStands, AwardedUnlessFault, AwardedOnce
<1>2. QED  BY <1>1, InitLockInv, NextLockInv, PTL DEF Spec

-----------------------------------------------------------------------------
(* Requests served within one day, whatever fails.                         *)

\* The day a user document shows as its last login has its event in the ledger.
LEMMA LastIsPosted ==
  ASSUME LoginInv, NEW b \in BDA, users[b].last # Never
  PROVE  LoginEvent(b, users[b].last, users[b].current) \in Logins
<1>1. users[b].last \in Day
  BY DEF LoginInv, TypeOK, StoresTypeOK, User, Account
<1>2. <<b, users[b].last>> \in BDA \X Day
  BY <1>1
<1>3. LoginEvent(b, users[b].last, users[b].current) \in events
  BY <1>2 DEF LoginInv, StreakBacked, RollupOK
<1>4. QED  BY <1>3 DEF Logins, LoginEvent

\* ... and so it is not later than today.
LEMMA LastIsNotAhead ==
  ASSUME LoginInv, OneDay, NEW b \in BDA
  PROVE  users[b].last <= today
<1>1. CASE users[b].last = Never
  BY <1>1 DEF OneDay, Never, LoginInv, TypeOK, StoresTypeOK, Day
<1>2. CASE users[b].last # Never
  BY <1>2, LastIsPosted DEF OneDay, LoginEvent
<1>3. QED  BY <1>1, <1>2

\* A request that does not move stays in order while it keeps its lock and its
\* user document is not written, or is written by a login of today.
LEMMA DayFrame ==
  ASSUME NEW q \in LoginReq, DayOK(q), pc'[q] = pc[q], loc'[q] = loc[q], today' = today,
         Holder(q) => LockKey(q) \in locks',
         loc[q].account \in BDA =>
           \/ users'[loc[q].account] = users[loc[q].account]
           \/ users'[loc[q].account].last = today /\ pc[q] \notin {"rollup", "streak"},
         pc[q] \in {"rollup", "streak"} => loc[q].account \in BDA
  PROVE  DayOK(q)' /\ Holder(q)' = Holder(q) /\ LockKey(q)' = LockKey(q)
<1>1. Holder(q)' = Holder(q) /\ LockKey(q)' = LockKey(q)
  BY DEF Holder, LockKey
<1>2. UserFresh(q)'
  BY DEF DayOK, UserFresh
<1>3. QED  BY <1>1, <1>2 DEF DayOK

\* What SaveStreak does to the users.
LEMMA SavedUser ==
  ASSUME TypeOK, NEW r \in LoginReq, SaveStreak(r)
  PROVE  /\ \A b \in BDA : b # loc[r].account => users'[b] = users[b]
         /\ \/ UNCHANGED users /\ Errs
            \/ users'[loc[r].account] = [current |-> loc[r].streak, best |-> NewBest(r),
                                         last |-> loc[r].today]
<1>1. users \in [Account -> User] /\ loc[r].account \in Account
  BY DEF TypeOK, StoresTypeOK, Local
<1>2. (UNCHANGED users /\ Errs) \/ SetStreak(r)
  BY DEF SaveStreak, Fails
<1>3. QED  BY <1>1, <1>2 DEF SetStreak, UpdateUserStreak, Account

\* Only SaveStreak writes users, and only the insert writes the ledger.
LEMMA ServeWrites ==
  ASSUME NEW r \in LoginReq, Serve(r)
  PROVE  /\ UNCHANGED users \/ SaveStreak(r)
         /\ \/ UNCHANGED events
            \/ pc[r] = "insert" /\ InsertEvent(EventOf(r))
BY DEF Serve, FindUser, Verify, ReadYesterday, AcquireLoginLock, RereadUser,
       InsertLoginEvent, ReleaseLoginLock, UpsertLoginDay, SaveStreak,
       InvalidateCache, SaveSession, storeVars

\* The login events of after a step are those of before and the one it posts.
LEMMA LoginsGrow ==
  ASSUME NEW r \in LoginReq, Serve(r)
  PROVE  \/ Logins' = Logins
         \/ pc[r] = "insert" /\ InsertEvent(EventOf(r)) /\ Logins' = Logins \cup {EventOf(r)}
<1>1. EventOf(r).type = "LOGIN"  BY DEF EventOf, LoginEvent
<1>2. CASE UNCHANGED events  BY <1>2 DEF Logins
<1>3. CASE pc[r] = "insert" /\ InsertEvent(EventOf(r))
  BY <1>1, <1>3 DEF Logins, InsertEvent
<1>4. QED  BY <1>2, <1>3, ServeWrites

\* The request that moves stays in order.
LEMMA ServeDayOK ==
  ASSUME LoginInv, OneDay, NEW r \in LoginReq, Serve(r)
  PROVE  DayOK(r)'
<1>1. /\ TypeOK /\ DayOK(r) /\ today' = today
      /\ pc[r] \in {"idle"} \cup Serving /\ Path(r)
      /\ loc'[r].account = loc[r].account
  BY ServePath, ServeStores, ServeMoves DEF LoginInv, OneDay, Path
<1>2. pc'[r] \in Serving => loc'[r].began = today
  BY <1>1, ServeLocals DEF Path, DayOK, Serving
<1>3. pc'[r] \in Dated => loc'[r].today = today
  BY <1>1, ServeLocals DEF Path, DayOK, Dated, Serving
<1>4. Holder(r)' => LockKey(r)' \in locks'
  <2>1. CASE pc'[r] = "insert"
    <3>1. LockKey(r)' = LockKey(r)
      BY <1>1, <2>1, ServeLocals DEF LockKey, Path, Serving
    <3>2. QED  BY <1>1, <2>1, <3>1, ServeLocks
  <2>2. CASE pc'[r] \in {"release", "rollup", "streak"}
    <3>1. pc[r] \in {"insert", "rollup"}
      BY <1>1, <2>2 DEF Path, Serving
    <3>2. LockKey(r)' = LockKey(r) /\ LockKey(r) \in locks
      BY <1>1, <3>1, ServeLocals DEF LockKey, DayOK, Holder
    <3>3. QED  BY <1>1, <3>1, <3>2, ServeLocks
  <2>3. QED  BY <2>1, <2>2 DEF Holder
<1>5. UserFresh(r)'
  <2>1. ASSUME pc'[r] \in {"verify", "clock", "lock", "insert"}, loc'[r].account \in BDA
        PROVE  \/ loc'[r].user = users'[loc[r].account]
               \/ users'[loc[r].account].last = today
    <3>1. pc[r] \in {"idle", "verify", "clock", "lock"}
      BY <1>1, <2>1 DEF Path, Serving
    <3>2. UNCHANGED users
      BY <3>1, ServeWrites DEF SaveStreak
    <3>3. CASE pc[r] = "idle"
      BY <1>1, <2>1, <3>2, <3>3, ServeLocals DEF Path
    <3>4. CASE pc[r] # "idle"
      BY <1>1, <2>1, <3>1, <3>2, <3>4, ServeLocals DEF DayOK, UserFresh
    <3>5. QED  BY <3>3, <3>4
  <2>2. ASSUME pc'[r] = "rollup"
        PROVE  loc'[r].user = users'[loc[r].account]
    <3>1. pc[r] = "insert" /\ loc'[r].user = loc[r].user
      BY <1>1, <2>2, ServeLocals DEF Path, Serving
    <3>2. InsertLoginEvent(r) /\ UNCHANGED users
      BY <3>1 DEF Serve, FindUser, Verify, ReadYesterday, AcquireLoginLock, RereadUser,
         InsertLoginEvent, ReleaseLoginLock, UpsertLoginDay, SaveStreak, InvalidateCache,
         SaveSession
    <3>3. ~EventTaken(EventOf(r))
      BY <1>1, <2>2, <3>2 DEF InsertLoginEvent, InsertEvent, Goto, TypeOK
    <3>4. loc[r].account \in BDA /\ loc[r].today = today /\ today # Never
      BY <1>1, <3>1
      DEF TypeOK, StoresTypeOK, Serving, DayOK, Dated, OneDay, Never, Day
    <3>5. users[loc[r].account].last # today
      BY <3>3, <3>4, LastIsPosted DEF EventTaken, EventOf, LoginEvent, Logins
    <3>6. QED  BY <1>1, <3>1, <3>2, <3>4, <3>5 DEF DayOK, UserFresh
  <2>3. ASSUME pc'[r] = "streak"
        PROVE  loc'[r].user = users'[loc[r].account]
    <3>1. pc[r] = "rollup" /\ loc'[r].user = loc[r].user
      BY <1>1, <2>3, ServeLocals DEF Path, Serving
    <3>2. UNCHANGED users  BY <3>1, ServeWrites DEF SaveStreak
    <3>3. QED  BY <1>1, <3>1, <3>2 DEF DayOK, UserFresh
  <2>4. QED  BY <1>1, <2>1, <2>2, <2>3 DEF UserFresh
<1>6. QED
  BY <1>1, <1>2, <1>3, <1>4, <1>5, ServeLocals DEF DayOK

LEMMA ServeOneDay ==
  ASSUME LoginInv, OneDay, NEW r \in LoginReq, Serve(r)
  PROVE  OneDay'
<1>1. /\ TypeOK /\ today' = today /\ today \in Nat /\ DayOK(r)
      /\ \A q \in LoginReq \ {r} : pc'[q] = pc[q] /\ loc'[q] = loc[q]
      /\ \A q \in LoginReq : RequestOK(q) /\ DayOK(q)
  BY ServeStores, ServeMoves DEF LoginInv, OneDay, TypeOK, StoresTypeOK, Day
<1>2. DayOK(r)'  BY ServeDayOK
<1>3. ASSUME NEW q \in LoginReq \ {r}
      PROVE  DayOK(q)' /\ Holder(q)' = Holder(q) /\ LockKey(q)' = LockKey(q)
  <2>1. Holder(q) => LockKey(q) \in locks'
    <3>1. Holder(q) => LockKey(q) \in locks
      BY <1>1 DEF DayOK
    <3>2. pc[r] = "release" /\ Holder(q) => LockKey(q) # LockKey(r)
      BY DEF OneDay, LockExclusive, Holder
    <3>3. QED  BY <1>1, <3>1, <3>2, ServeLocks
  <2>2. loc[q].account \in BDA =>
           \/ users'[loc[q].account] = users[loc[q].account]
           \/ users'[loc[q].account].last = today /\ pc[q] \notin {"rollup", "streak"}
    <3>1. CASE UNCHANGED users  BY <3>1
    <3>2. CASE SaveStreak(r)
      <4>1. pc[r] = "streak" /\ loc[r].today = today
        BY <1>1, <3>2 DEF SaveStreak, DayOK, Dated
      <4>2. pc[q] \in {"rollup", "streak"} => loc[q].account # loc[r].account
        <5>1. pc[q] \in {"rollup", "streak"} => LockKey(q) # LockKey(r)
          BY <4>1 DEF LoginInv, OneClaim, Claimed
        <5>2. pc[q] \in {"rollup", "streak"} => loc[q].today = today
          BY <1>1 DEF DayOK, Dated
        <5>3. QED  BY <4>1, <5>1, <5>2 DEF LockKey
      <4>3. CASE loc[q].account # loc[r].account
        BY <1>1, <3>2, <4>3, SavedUser
      <4>4. CASE loc[q].account = loc[r].account
        <5>1. UNCHANGED users \/ users'[loc[r].account].last = today
          <6>1. \/ UNCHANGED users
                \/ users'[loc[r].account] = [current |-> loc[r].streak, best |-> NewBest(r),
                                             last |-> loc[r].today]
            BY <1>1, <3>2, SavedUser
          <6>2. QED  BY <4>1, <6>1
        <5>2. QED  BY <4>2, <4>4, <5>1
      <4>5. QED  BY <4>3, <4>4
    <3>3. QED  BY <3>1, <3>2, ServeWrites
  <2>3. pc[q] \in {"rollup", "streak"} => loc[q].account \in BDA
    BY <1>1 DEF TypeOK, Serving
  <2>4. QED  BY <1>1, <2>1, <2>2, <2>3, DayFrame
<1>4. LockExclusive'
  <2>1. Holder(r)' => \/ Holder(r) /\ LockKey(r)' = LockKey(r)
                      \/ LockKey(r)' \notin locks
    <3>1. Path(r) /\ pc[r] \in {"idle"} \cup Serving
      BY <1>1, ServePath DEF Path
    <3>2. Holder(r)' => LockKey(r)' = LockKey(r)
      BY <1>1, <3>1, ServeLocals, ServeMoves DEF Holder, LockKey, Path, Serving
    <3>3. Holder(r)' => Holder(r) \/ pc'[r] = "insert"
      BY <3>1 DEF Holder, Path, Serving
    <3>4. QED  BY <1>1, <3>2, <3>3, ServeLocks
  <2>2. \A q \in LoginReq : Holder(q) => LockKey(q) \in locks
    BY <1>1 DEF DayOK
  <2>3. \A q \in LoginReq \ {r} : Holder(q)' /\ Holder(r)' => LockKey(q)' # LockKey(r)'
    BY <1>3, <2>1, <2>2 DEF OneDay, LockExclusive
  <2>4. QED  BY <1>3, <2>3 DEF OneDay, LockExclusive
<1>5. \A e \in Logins' : e.date <= today'
  <2>1. pc[r] = "insert" => EventOf(r).date <= today
    BY <1>1 DEF DayOK, Dated, EventOf, LoginEvent
  <2>2. QED  BY <1>1, <2>1, LoginsGrow DEF OneDay
<1>6. QED  BY <1>1, <1>2, <1>3, <1>4, <1>5 DEF OneDay

-----------------------------------------------------------------------------
(* ... and with the stores up.                                             *)

\* What a ledger without duplicates says of a streak.
LEMMA StreakOfEvent ==
  ASSUME LedgerOK, NEW e \in Logins
  PROVE  StreakIn(Logins, e.bda, e.date) = e.streak
<1> DEFINE there == {f \in Logins : f.bda = e.bda /\ f.date = e.date}
<1>1. there = {e}  BY DEF LedgerOK
<1>2. (CHOOSE f \in there : TRUE) = e  BY <1>1
<1>3. QED  BY <1>1, <1>2 DEF StreakIn

LEMMA NoStreak ==
  ASSUME NEW b, NEW d, \A e \in Logins : <<e.bda, e.date>> # <<b, d>>
  PROVE  StreakIn(Logins, b, d) = 0
<1>1. {f \in Logins : f.bda = b /\ f.date = d} = {}  OBVIOUS
<1>2. QED  BY <1>1 DEF StreakIn

\* A step on one day leaves the streaks of the days before it.
LEMMA EarlierStreaks ==
  ASSUME LoginInv, OneDay, NEW r \in LoginReq, Serve(r)
  PROVE  \A b, d : d # today => StreakIn(Logins', b, d) = StreakIn(Logins, b, d)
<1>1. pc[r] = "insert" => EventOf(r).date = today
  BY DEF OneDay, DayOK, Dated, EventOf, LoginEvent
<1>2. ASSUME NEW b, NEW d, d # today
      PROVE  StreakIn(Logins', b, d) = StreakIn(Logins, b, d)
  <2> DEFINE before == {e \in Logins : e.bda = b /\ e.date = d}
             after  == {e \in Logins' : e.bda = b /\ e.date = d}
  <2>1. after = before
    BY <1>1, <1>2, LoginsGrow
  <2>2. /\ StreakIn(Logins, b, d) = IF before = {} THEN 0
                                  ELSE (CHOOSE e \in before : TRUE).streak
        /\ StreakIn(Logins', b, d) = IF after = {} THEN 0
                                   ELSE (CHOOSE e \in after : TRUE).streak
    BY DEF StreakIn
  <2> HIDE DEF before, after
  <2>3. QED  BY <2>1, <2>2
<1>3. QED  BY <1>2

\* The lock makes its holder the first of the day, from a user document as it is:
\* so the streak it works out is the one of the ledger.
LEMMA FirstAtLock ==
  ASSUME LoginInv, OneDay, LedgerLocked, LedgerSaved, NEW r \in LoginReq, pc[r] = "lock",
         LockKey(r) \notin locks
  PROVE  /\ \A e \in Logins : <<e.bda, e.date>> # LockKey(r)
         /\ NewStreak(r) = StreakIn(Logins, loc[r].account, today - 1) + 1
<1> DEFINE b == loc[r].account
<1>1. /\ TypeOK /\ b \in BDA /\ loc[r].today = today /\ loc[r].yesterday = today - 1
      /\ today \in Nat /\ today >= 1 /\ LedgerOK /\ DayOK(r)
  BY DEF LoginInv, OneDay, DayOK, Dated, TypeOK, StoresTypeOK, Serving, Day
<1>2. /\ users[b].last \in Day \cup {Never} /\ users[b].current \in Nat
      /\ Logins \subseteq Event
  BY <1>1 DEF TypeOK, StoresTypeOK, Account, User, Logins
<1>3. \A e \in Logins : <<e.bda, e.date>> # <<b, today>>
  BY <1>1 DEF LedgerLocked, LockKey
<1>4. users[b].last # today
  <2>1. LoginEvent(b, today, users[b].current) \notin Logins
    BY <1>3 DEF LoginEvent
  <2>2. today # Never
    BY <1>1 DEF Never
  <2>3. QED  BY <1>1, <2>1, <2>2, LastIsPosted
<1>5. loc[r].user = users[b]
  BY <1>1, <1>4 DEF OneDay, DayOK, UserFresh
<1>6. CASE users[b].last = today - 1
  <2>1. LoginEvent(b, today - 1, users[b].current) \in Logins
    BY <1>1, <1>6, LastIsPosted DEF Never
  <2>2. StreakIn(Logins, b, today - 1) = users[b].current
    BY <1>1, <2>1, StreakOfEvent DEF LoginEvent
  <2>3. QED  BY <1>1, <1>3, <1>5, <1>6, <2>2 DEF NewStreak, LockKey
<1>7. CASE users[b].last # today - 1
  <2>1. ASSUME NEW e \in Logins, e.bda = b, e.date = today - 1 PROVE FALSE
    <3>1. e.date <= users[b].last
      <4>1. \A q \in LoginReq : pc[q] \in {"rollup", "streak"} => EventOf(q).date = today
        BY DEF OneDay, DayOK, Dated, EventOf, LoginEvent
      <4>2. QED  BY <1>1, <2>1, <4>1 DEF LedgerSaved
    <3>2. users[b].last <= today
      BY <1>1, LastIsNotAhead
    <3>3. QED  BY <1>1, <1>4, <1>7, <1>2, <2>1, <3>1, <3>2 DEF Day, Never
  <2>2. StreakIn(Logins, b, today - 1) = 0
    BY <2>1, NoStreak
  <2>3. QED  BY <1>1, <1>3, <1>5, <1>7, <2>2 DEF NewStreak, LockKey
<1>8. QED  BY <1>6, <1>7

\* With the stores up, every request that posts is the first to, and no step fails.
LEMMA ServeFirst ==
  ASSUME LoginInv, OneDay, QuietDay, NEW r \in LoginReq, Serve(r), faults' = 0
  PROVE  \A q \in LoginReq : FirstToPost(q)'
<1>1. /\ TypeOK /\ today' = today /\ today \in Nat /\ DayOK(r)
      /\ pc[r] \in {"idle"} \cup Serving /\ Path(r)
      /\ loc'[r].account = loc[r].account
      /\ \A q \in LoginReq \ {r} : pc'[q] = pc[q] /\ loc'[q] = loc[q]
      /\ \A q \in LoginReq : FirstToPost(q)
  BY ServePath, ServeStores, ServeMoves
  DEF LoginInv, OneDay, QuietDay, TypeOK, StoresTypeOK, Day, Path
<1>2. \A b : StreakIn(Logins', b, today - 1) = StreakIn(Logins, b, today - 1)
  BY <1>1, EarlierStreaks
<1>3. <<EventOf(r).bda, EventOf(r).date>> = LockKey(r)
  BY DEF EventOf, LoginEvent, LockKey
<1>4. ASSUME NEW q \in LoginReq \ {r} PROVE FirstToPost(q)'
  <2>1. LockKey(q)' = LockKey(q)  BY <1>1 DEF LockKey
  <2>2. pc[r] = "insert" /\ pc[q] = "insert" => LockKey(q) # LockKey(r)
    BY DEF OneDay, LockExclusive, Holder
  <2>3. pc[q] = "insert" => \A e \in Logins' : <<e.bda, e.date>> # LockKey(q)
    BY <1>1, <1>3, <2>2, LoginsGrow DEF FirstToPost
  <2>4. QED  BY <1>1, <1>2, <2>1, <2>3 DEF FirstToPost
<1>5. pc'[r] \notin {"release", "failed"}
  <2>1. pc'[r] # "failed"
    BY <1>1, ServeLocks DEF FirstToPost
  <2>2. pc'[r] = "release" => pc[r] = "insert" /\ EventTaken(EventOf(r))
    BY <1>1, ServeLocks
  <2>3. EventTaken(EventOf(r)) => \E e \in Logins : <<e.bda, e.date>> = LockKey(r)
    BY <1>3 DEF EventTaken, EventOf, LoginEvent, Logins
  <2>4. QED  BY <1>1, <2>1, <2>2, <2>3 DEF FirstToPost
<1>6. ASSUME pc'[r] = "insert"
      PROVE  /\ \A e \in Logins' : <<e.bda, e.date>> # LockKey(r)'
             /\ loc'[r].streak = StreakIn(Logins', loc[r].account, today - 1) + 1
  <2>1. pc[r] = "lock" /\ LockKey(r) \notin locks /\ LockKey(r)' = LockKey(r)
    BY <1>1, <1>6, ServeLocks, ServeLocals DEF Path, LockKey, Serving
  <2>2. Logins' = Logins /\ loc'[r].streak = NewStreak(r)
    BY <1>1, <1>6, <2>1, LoginsGrow, ServeLocals
  <2>3. QED  BY <1>1, <1>2, <2>1, <2>2, FirstAtLock DEF QuietDay
<1>7. FirstToPost(r)'
  BY <1>1, <1>5, <1>6 DEF FirstToPost
<1>8. QED  BY <1>4, <1>7

\* ... and what is in the ledger is under its lock, on its way to the user document
\* or there, and at the streak of the day before plus one.
LEMMA ServeLedger ==
  ASSUME LoginInv, OneDay, QuietDay, NEW r \in LoginReq, Serve(r), faults' = 0
  PROVE  LedgerLocked' /\ LedgerSaved' /\ StreakIsRun'
<1>1. /\ TypeOK /\ today' = today /\ today \in Nat /\ DayOK(r) /\ faults = 0
      /\ Path(r) /\ FirstToPost(r) /\ loc'[r].account = loc[r].account
      /\ \A q \in LoginReq \ {r} : pc'[q] = pc[q] /\ loc'[q] = loc[q]
  BY ServePath, ServeStores, ServeMoves, ServeLocks
  DEF LoginInv, OneDay, QuietDay, TypeOK, StoresTypeOK, Day
<1>2. /\ <<EventOf(r).bda, EventOf(r).date>> = LockKey(r)
      /\ EventOf(r).bda = loc[r].account /\ EventOf(r).date = loc[r].today
      /\ EventOf(r).streak = loc[r].streak
  BY DEF EventOf, LoginEvent, LockKey
<1>3. Holder(r) => loc[r].today = today /\ LockKey(r) \in locks /\ loc[r].account \in BDA
  BY <1>1 DEF DayOK, Dated, Holder, TypeOK, Serving
<1>4. pc'[r] \notin {"release", "failed"}
  BY <1>1, ServeFirst DEF FirstToPost
<1>5. LedgerLocked'
  <2>1. locks \subseteq locks'
    BY <1>1, ServeLocks DEF FirstToPost
  <2>2. pc[r] = "insert" => LockKey(r) \in locks
    BY <1>3 DEF Holder
  <2>3. QED
    BY <1>1, <1>2, <2>1, <2>2, LoginsGrow DEF QuietDay, LedgerLocked
<1>6. \A b \in BDA : users[b].last <= users'[b].last
  <2> SUFFICES ASSUME NEW b \in BDA PROVE users[b].last <= users'[b].last  OBVIOUS
  <2>1. users[b].last \in Int /\ users[b].last <= today
    BY <1>1, LastIsNotAhead DEF TypeOK, StoresTypeOK, User, Account, Day, Never
  <2>2. CASE users'[b] = users[b]
    BY <2>1, <2>2
  <2>3. CASE users'[b] # users[b]
    <3>1. SaveStreak(r) /\ pc[r] = "streak"
      BY <2>3, ServeWrites DEF SaveStreak
    <3>2. users'[b] = [current |-> loc[r].streak, best |-> NewBest(r), last |-> loc[r].today]
      BY <1>1, <2>3, <3>1, SavedUser
    <3>3. QED  BY <1>3, <2>1, <3>1, <3>2 DEF Holder
  <2>4. QED  BY <2>2, <2>3
<1>7. LedgerSaved'
  <2> SUFFICES ASSUME NEW e \in Logins'
               PROVE  \/ e.date <= users'[e.bda].last
                      \/ \E q \in LoginReq : pc'[q] \in {"rollup", "streak"} /\ EventOf(q)' = e
    BY DEF LedgerSaved
  <2>1. CASE pc[r] = "insert" /\ e = EventOf(r)
    <3>1. pc'[r] = "rollup"
      BY <1>1, <1>4, <2>1 DEF Path
    <3>2. EventOf(r)' = EventOf(r)
      BY <1>1, <2>1, ServeLocals DEF EventOf
    <3>3. QED  BY <2>1, <3>1, <3>2
  <2>2. CASE e \in Logins /\ e.date <= users[e.bda].last
    <3>1. e.bda \in BDA /\ e.date \in Int
      BY <1>1, <2>2 DEF Logins, TypeOK, StoresTypeOK, Event, Day
    <3>2. users[e.bda].last \in Int /\ users'[e.bda].last \in Int
      <4>1. users \in [Account -> User] /\ users' \in [Account -> User]
        BY <1>1, ServeStores DEF TypeOK, StoresTypeOK
      <4>2. QED  BY <3>1, <4>1 DEF Account, User, Day, Never
    <3>3. QED  BY <1>6, <2>2, <3>1, <3>2
  <2>3. ASSUME NEW q \in LoginReq, pc[q] \in {"rollup", "streak"}, EventOf(q) = e
        PROVE  \/ e.date <= users'[e.bda].last
               \/ pc'[q] \in {"rollup", "streak"} /\ EventOf(q)' = e
    <3>1. CASE q # r
      BY <1>1, <2>3, <3>1 DEF EventOf
    <3>2. CASE q = r /\ pc[r] = "rollup"
      BY <1>1, <1>4, <2>3, <3>2, ServeLocals DEF EventOf, Path
    <3>3. CASE q = r /\ pc[r] = "streak"
      <4>1. pc'[r] = "bump"
        BY <1>1, <1>4, <3>3 DEF Path
      <4>2. SaveStreak(r)
        BY <3>3 DEF Serve, FindUser, Verify, ReadYesterday, AcquireLoginLock, RereadUser,
           InsertLoginEvent, ReleaseLoginLock, UpsertLoginDay, SaveStreak, InvalidateCache,
           SaveSession
      <4>3. ~Errs
        BY <1>1 DEF Errs
      <4>4. SetStreak(r)
        BY <4>2, <4>3 DEF SaveStreak, Fails
      <4>5. users'[loc[r].account].last = loc[r].today
        BY <1>1, <1>3, <3>3, <4>4
        DEF SetStreak, UpdateUserStreak, TypeOK, StoresTypeOK, Account, Holder
      <4>6. loc[r].today <= users'[loc[r].account].last
        BY <1>1, <1>3, <3>3, <4>5 DEF Holder
      <4>7. QED  BY <1>2, <2>3, <3>3, <4>6
    <3>4. QED  BY <2>3, <3>1, <3>2, <3>3
  <2>4. QED  BY <2>1, <2>2, <2>3, LoginsGrow DEF QuietDay, LedgerSaved
<1>8. StreakIsRun'
  <2> SUFFICES ASSUME NEW e \in Logins', e.date > 0
               PROVE  e.streak = StreakIn(Logins', e.bda, e.date - 1) + 1
    BY DEF StreakIsRun, StreakOn
  <2>1. e.date \in Nat /\ e.date <= today
    BY <1>1, ServeStores, ServeOneDay DEF OneDay, Logins, Event, Day
  <2>2. e.date - 1 # today
    BY <1>1, <2>1
  <2>3. StreakIn(Logins', e.bda, e.date - 1) = StreakIn(Logins, e.bda, e.date - 1)
    BY <2>2, EarlierStreaks
  <2>4. CASE e \in Logins
    BY <1>1, <2>3, <2>4 DEF QuietDay, StreakIsRun, StreakOn
  <2>5. CASE pc[r] = "insert" /\ e = EventOf(r)
    BY <1>1, <1>2, <1>3, <2>3, <2>5 DEF FirstToPost, Holder
  <2>6. QED  BY <2>4, <2>5, LoginsGrow
<1>9. QED  BY <1>5, <1>7, <1>8

-----------------------------------------------------------------------------
(* The invariant of a day.                                                 *)

LEMMA InitDayInv == MaxLag = 0 /\ Init => DayInv
<1> SUFFICES ASSUME MaxLag = 0, Init PROVE DayInv  OBVIOUS
<1>1. PICK h \in [BDA -> SeedStreak \cup {0}] : SeededWith(h)
  BY DEF Init, StoresInit
<1>2. LoginInv /\ today = 1 /\ \A r \in LoginReq : pc[r] = "idle"
  BY InitLoginInv DEF Init, StoresInit, LoginsIdle
<1>3. \A e \in Logins : e.date = 0 /\ e.bda \in BDA /\ h[e.bda] > 0
  BY <1>1 DEF SeededWith, Logins, LoginEvent
<1>4. \A e \in Logins : users[e.bda].last = 0
  BY <1>1, <1>3 DEF SeededWith, Account
<1>5. OneDay
  BY <1>2, <1>3 DEF OneDay, DayOK, UserFresh, Serving, Dated, Holder, LockExclusive
<1>6. QuietDay
  BY <1>2, <1>3, <1>4 DEF QuietDay, LedgerLocked, LedgerSaved, StreakIsRun, FirstToPost
<1>7. QED  BY <1>2, <1>5, <1>6 DEF DayInv

LEMMA NextDayInv == DayInv /\ [Next]_vars => DayInv'
<1> SUFFICES ASSUME DayInv, [Next]_vars PROVE DayInv'  OBVIOUS
<1>1. /\ LoginInv /\ LoginInv' /\ OneDay /\ TypeOK /\ today \in Nat /\ faults \in Nat
  BY NextLoginInv, StoresAssumption
  DEF DayInv, LoginInv, TypeOK, StoresTypeOK, Day, StoresAssumption
<1>2. ASSUME NEW r \in LoginReq, Serve(r) PROVE DayInv'
  <2>1. OneDay'  BY <1>1, <1>2, ServeOneDay
  <2>2. faults' = 0 => QuietDay'
    BY <1>1, <1>2, ServeLocks, ServeFirst, ServeLedger DEF DayInv, QuietDay
  <2>3. QED  BY <1>1, <2>1, <2>2 DEF DayInv
<1>3. ASSUME NEW r \in LoginReq, Die(r) PROVE DayInv'
  <2>1. /\ UNCHANGED <<users, events, today, locks, loc>> /\ faults' # 0
        /\ pc'[r] = "failed" /\ \A q \in LoginReq \ {r} : pc'[q] = pc[q]
    BY <1>1, <1>3 DEF Die, Fails, Errs, Goto, redisVars, TypeOK
  <2>2. \A q \in LoginReq : DayOK(q)'
    <3>1. DayOK(r)'
      BY <2>1 DEF DayOK, UserFresh, Serving, Dated, Holder
    <3>2. \A q \in LoginReq \ {r} : DayOK(q)'
      BY <1>1, <2>1 DEF OneDay, DayOK, UserFresh, Holder, LockKey
    <3>3. QED  BY <3>1, <3>2
  <2>3. LockExclusive' /\ Logins' = Logins
    BY <1>1, <2>1 DEF OneDay, LockExclusive, Holder, LockKey, Logins
  <2>4. QED  BY <1>1, <2>1, <2>2, <2>3 DEF DayInv, OneDay
<1>4. ASSUME NEW k \in BDA \X Day, ExpireLock(k) PROVE DayInv'
  <2>1. /\ UNCHANGED <<users, events, today, faults, pc, loc>>
        /\ locks' = locks \ {k} /\ k[2] < today
    BY <1>4 DEF ExpireLock, storeVars
  <2>2. \A q \in LoginReq : Holder(q) => LockKey(q)[2] = today
    BY <1>1 DEF OneDay, DayOK, Dated, Holder, LockKey
  <2>3. OneDay'
    BY <1>1, <2>1, <2>2
    DEF OneDay, DayOK, UserFresh, Holder, LockKey, LockExclusive, Logins
  <2>4. QuietDay => QuietDay'
    <3>1. Logins' = Logins  BY <2>1 DEF Logins
    <3>2. LedgerLocked => LedgerLocked'
      BY <1>1, <2>1, <3>1 DEF LedgerLocked
    <3>3. QED
      BY <2>1, <3>1, <3>2
      DEF QuietDay, LedgerSaved, EventOf, StreakIsRun, StreakOn, FirstToPost, LockKey
  <2>5. QED  BY <1>1, <2>1, <2>3, <2>4 DEF DayInv
<1>5. CASE Midnight
  <2>1. /\ UNCHANGED <<users, events, faults, locks, pc, loc>> /\ today' = today + 1
        /\ \A r \in LoginReq : pc[r] \in Serving => today < loc[r].began + MaxLag
    BY <1>5 DEF Midnight, loginVars
  <2>2. \A r \in LoginReq : pc[r] \notin Serving
    BY <1>1, <2>1 DEF OneDay, DayOK
  <2>3. Logins' = Logins /\ \A e \in Logins : e.date \in Nat
    BY <1>1, <2>1 DEF Logins, TypeOK, StoresTypeOK, Event, Day
  <2>4. OneDay'
    BY <1>1, <2>1, <2>2, <2>3
    DEF OneDay, DayOK, UserFresh, Serving, Dated, Holder, LockExclusive
  <2>5. QuietDay => QuietDay'
    <3>1. LedgerLocked'
      BY <1>1, <2>1, <2>3 DEF OneDay, LedgerLocked
    <3>2. QED
      BY <2>1, <2>2, <2>3, <3>1
      DEF QuietDay, LedgerSaved, EventOf, StreakIsRun, StreakOn, FirstToPost, Serving
  <2>6. QED  BY <1>1, <2>1, <2>4, <2>5 DEF DayInv
<1>6. CASE UNCHANGED vars
  BY <1>1, <1>6
  DEF vars, storeVars, loginVars, DayInv, OneDay, DayOK, UserFresh, Holder, LockKey,
      LockExclusive, Logins, QuietDay, LedgerLocked, LedgerSaved, EventOf, StreakIsRun,
      StreakOn, FirstToPost
<1>7. QED  BY <1>2, <1>3, <1>4, <1>5, <1>6 DEF Next

\* The invariant of requests that are served within a day.
THEOREM DayInvariant == MaxLag = 0 /\ Spec => []DayInv
BY InitDayInv, NextDayInv, PTL DEF Spec

-----------------------------------------------------------------------------
(* What can be relied on within a day.                                     *)

\* Served within a day, the lock of recordLogin has one holder at a time, although
\* a failed request releases it and an answer of Redis may be lost.
THEOREM LockHasOneHolder == MaxLag = 0 /\ Spec => []LockExclusive
<1>1. DayInv => LockExclusive  BY DEF DayInv, OneDay
<1>2. QED  BY <1>1, DayInvariant, PTL

\* With the stores up, concurrent logins never make one another fail.
THEOREM LoginsDoNotFail == MaxLag = 0 /\ Spec => []NoSpuriousFailure
<1>1. DayInv => NoSpuriousFailure
  BY DEF DayInv, QuietDay, FirstToPost, NoSpuriousFailure
<1>2. QED  BY <1>1, DayInvariant, PTL

\* With the stores up, every login's streak is that of the day before plus one.
THEOREM StreaksAreRuns == MaxLag = 0 /\ Spec => []StreakIsRun
<1>1. DayInv => StreakIsRun  BY DEF DayInv, QuietDay, StreakIsRun
<1>2. QED  BY <1>1, DayInvariant, PTL

\* ... and the reads show it: a user document is behind the ledger only while a
\* login is between its event and the document.
THEOREM StreaksAreShown == MaxLag = 0 /\ Spec => []StreakShown
<1>1. DayInv => StreakShown
  <2> SUFFICES ASSUME DayInv, faults = 0, NEW b \in BDA,
                      ~\E r \in LoginReq : pc[r] \in {"rollup", "streak"} /\ loc[r].account = b
               PROVE  CurrentStreak(users[b]) = IF StreakOn(b, today) # 0 THEN StreakOn(b, today)
                                                              ELSE StreakOn(b, today - 1)
    BY DEF StreakShown
  <2> DEFINE last == users[b].last
  <2>1. /\ LoginInv /\ OneDay /\ LedgerOK /\ QuietDay /\ today \in Nat /\ today >= 1
        /\ last \in Int /\ last <= today /\ users[b].current \in Nat
    BY LastIsNotAhead
    DEF DayInv, OneDay, LoginInv, TypeOK, StoresTypeOK, Day, Account, User, Never
  <2>2. \A e \in Logins : e.bda = b => e.date <= last
    <3>1. \A r \in LoginReq : EventOf(r).bda = loc[r].account
      BY DEF EventOf, LoginEvent
    <3>2. QED  BY <2>1, <3>1 DEF QuietDay, LedgerSaved
  <2>3. last # Never =>
          /\ StreakIn(Logins, b, last) = users[b].current
          /\ users[b].current >= 1
    <3>1. last # Never => LoginEvent(b, last, users[b].current) \in Logins
      BY <2>1, LastIsPosted
    <3>2. QED  BY <2>1, <3>1, StreakOfEvent DEF LedgerOK, LoginEvent
  <2>4. \A d \in Int : last < d => StreakIn(Logins, b, d) = 0
    <3> SUFFICES ASSUME NEW d \in Int, last < d PROVE StreakIn(Logins, b, d) = 0
      OBVIOUS
    <3>1. \A e \in Logins : <<e.bda, e.date>> # <<b, d>>
      BY <2>1, <2>2
    <3>2. QED  BY <3>1, NoStreak
  <2>5. CASE last = today
    BY <2>1, <2>3, <2>5 DEF StreakOn, CurrentStreak, Never
  <2>6. CASE last = today - 1
    BY <2>1, <2>3, <2>4, <2>6 DEF StreakOn, CurrentStreak, Never
  <2>7. CASE last < today - 1
    BY <2>1, <2>4, <2>7 DEF StreakOn, CurrentStreak
  <2>8. QED  BY <2>1, <2>5, <2>6, <2>7
<1>2. QED  BY <1>1, DayInvariant, PTL

-----------------------------------------------------------------------------
(* The documents that requests hold while they are served.                 *)

\* The labels at which a request holds the document FindUser read, to save over it.
Held == {"verify", "clock", "lock", "insert", "rollup", "streak"}

HasLogin(b, d) == \E e \in Logins : e.bda = b /\ e.date = d

\* A held document is of a day that was posted before the request began, and is the
\* store's as long as that shows the same last login.
HeldOK(r) ==
  pc[r] \in Held /\ loc[r].account \in BDA =>
    /\ loc[r].user.last # Never => HasLogin(loc[r].account, loc[r].user.last)
    /\ loc[r].user.last <= loc[r].began /\ loc[r].began <= today
    /\ pc[r] # "verify" => loc[r].began <= loc[r].today
    /\ users[loc[r].account].last = loc[r].user.last =>
         users[loc[r].account] = loc[r].user

\* Nobody has seen the day of a request that has posted it and not saved it yet.
Unsaved(r) ==
  pc[r] \in {"rollup", "streak"} =>
    /\ users[loc[r].account].last # loc[r].today
    /\ \A q \in LoginReq : pc[q] \in Held /\ loc[q].account = loc[r].account =>
         loc[q].user.last # loc[r].today

LedgerPast == \A e \in Logins : e.date <= today

HeldInv ==
  /\ LockInv /\ LedgerPast
  /\ \A r \in LoginReq : HeldOK(r) /\ Unsaved(r)

LEMMA InitHeldInv == Init => HeldInv
<1> SUFFICES ASSUME Init PROVE HeldInv  OBVIOUS
<1>1. LockInv  BY InitLockInv
<1>2. \A r \in LoginReq : pc[r] = "idle"
  BY DEF Init, LoginsIdle
<1>3. LedgerPast
  <2>1. PICK h \in [BDA -> SeedStreak \cup {0}] : SeededWith(h)
    BY DEF Init, StoresInit
  <2>2. today = 1  BY DEF Init, StoresInit
  <2>3. \A e \in events : e.date = 0
    BY <2>1 DEF SeededWith, LoginEvent
  <2>4. QED  BY <2>2, <2>3 DEF LedgerPast, Logins
<1>4. QED  BY <1>1, <1>2, <1>3 DEF HeldInv, HeldOK, Unsaved, Held

\* What stands still: the documents held while nothing is saved.
LEMMA HeldFrame ==
  ASSUME HeldInv, LockInv', UNCHANGED <<users, events, loc>>, today' \in {today, today + 1},
         \A r \in LoginReq : pc'[r] = pc[r] \/ pc'[r] = "failed"
  PROVE  HeldInv'
<1>1. today \in Nat /\ \A r \in LoginReq : loc[r] \in Local
  BY DEF HeldInv, LockInv, LoginInv, TypeOK, StoresTypeOK, Day
<1>2. Logins' = Logins  BY DEF Logins
<1>3. LedgerPast'
  <2>1. \A e \in Logins : e.date \in Nat
    BY DEF HeldInv, LockInv, LoginInv, TypeOK, StoresTypeOK, Logins, Event, Day
  <2>2. QED  BY <1>1, <1>2, <2>1 DEF HeldInv, LedgerPast
<1>4. ASSUME NEW r \in LoginReq PROVE HeldOK(r)'
  <2>1. HeldOK(r) /\ loc[r].began \in Nat /\ (pc'[r] \in Held => pc'[r] = pc[r])
    BY <1>1 DEF HeldInv, Held, Local, Day
  <2>2. QED  BY <1>1, <1>2, <2>1 DEF HeldOK, HasLogin
<1>5. ASSUME NEW r \in LoginReq PROVE Unsaved(r)'
  <2>1. Unsaved(r) /\ \A q \in LoginReq : pc'[q] \in Held => pc'[q] = pc[q]
    BY DEF HeldInv, Held
  <2>2. QED  BY <2>1 DEF Unsaved
<1>6. QED  BY <1>3, <1>4, <1>5 DEF HeldInv

LEMMA ServeHeld ==
  ASSUME HeldInv, LockInv', NEW r \in LoginReq, Serve(r)
  PROVE  HeldInv'
<1>1. /\ LoginInv /\ LoginInv' /\ TypeOK /\ NotAhead /\ LedgerPast /\ Path(r)
      /\ today' = today /\ today \in Nat /\ Never \notin Day
      /\ \A q \in LoginReq \ {r} : pc'[q] = pc[q] /\ loc'[q] = loc[q]
      /\ loc'[r].account = loc[r].account
      /\ \A q \in LoginReq : loc[q] \in Local /\ loc'[q] \in Local
  BY ServePath, ServeMoves, ServeStores
  DEF HeldInv, LockInv, LoginInv, TypeOK, StoresTypeOK, Day, Never
<1>2. /\ Logins \subseteq Logins' /\ LedgerPast'
      /\ Logins' # Logins => pc[r] = "insert"
  <2>1. EventOf(r).date <= today
    BY <1>1 DEF EventOf, LoginEvent, NotAhead
  <2>2. QED  BY <1>1, <2>1, LoginsGrow DEF LedgerPast
<1>3. ASSUME NEW b \in BDA
      PROVE  \/ users'[b] = users[b]
             \/ pc[r] = "streak" /\ b = loc[r].account /\ users'[b].last = loc[r].today
  <2>1. CASE UNCHANGED users  BY <2>1
  <2>2. CASE SaveStreak(r)
    <3>1. pc[r] = "streak"  BY <2>2 DEF SaveStreak
    <3>2. TypeOK  BY <1>1
    <3>3. CASE b # loc[r].account  BY <2>2, <3>2, <3>3, SavedUser
    <3>4. CASE b = loc[r].account
      <4>1. \/ UNCHANGED users
            \/ users'[b] = [current |-> loc[r].streak, best |-> NewBest(r),
                           last |-> loc[r].today]
        BY <2>2, <3>2, <3>4, SavedUser
      <4>2. QED  BY <3>1, <3>4, <4>1
    <3>5. QED  BY <3>3, <3>4
  <2>3. QED  BY <2>1, <2>2, ServeWrites
<1>4. ASSUME NEW b \in BDA
      PROVE  /\ users[b].last <= today
             /\ users[b].last # Never => HasLogin(b, users[b].last)
             /\ users[b].last \in Day \cup {Never}
  <2>1. users[b].last \in Day \cup {Never}
    BY <1>1 DEF TypeOK, StoresTypeOK, User, Account
  <2>2. users[b].last # Never => HasLogin(b, users[b].last)
    BY <1>1, LastIsPosted DEF HasLogin, LoginEvent
  <2>3. QED  BY <1>1, <2>1, <2>2 DEF LedgerPast, HasLogin, Never
<1>5. pc[r] \in Held \ {"verify"} => loc[r].account \in BDA
  BY <1>1 DEF TypeOK, Held, Serving
<1>6. ASSUME NEW q \in LoginReq PROVE HeldOK(q)'
  <2> SUFFICES ASSUME pc'[q] \in Held, loc'[q].account \in BDA
               PROVE  /\ loc'[q].user.last # Never =>
                           \E e \in Logins : e.bda = loc'[q].account /\ e.date = loc'[q].user.last
                      /\ loc'[q].user.last <= loc'[q].began /\ loc'[q].began <= today
                      /\ pc'[q] # "verify" => loc'[q].began <= loc'[q].today
                      /\ users'[loc'[q].account].last = loc'[q].user.last =>
                           users'[loc'[q].account] = loc'[q].user
    BY <1>1, <1>2 DEF HeldOK, HasLogin
  <2>1. CASE q # r
    <3>1. HeldOK(q) /\ pc'[q] = pc[q] /\ loc'[q] = loc[q]
      BY <1>1, <2>1 DEF HeldInv
    <3>2. CASE users'[loc[q].account] = users[loc[q].account]
      BY <3>1, <3>2 DEF HeldOK, HasLogin
    <3>3. CASE pc[r] = "streak" /\ loc[q].account = loc[r].account
               /\ users'[loc[q].account].last = loc[r].today
      <4>1. loc[q].user.last # loc[r].today
        BY <3>1, <3>3 DEF HeldInv, Unsaved
      <4>2. QED  BY <3>1, <3>3, <4>1 DEF HeldOK, HasLogin
    <3>4. QED  BY <1>3, <3>1, <3>2, <3>3
  <2>2. CASE q = r /\ pc[r] = "idle"
    <3>1. pc'[r] = "verify" /\ loc'[r].began = today /\ loc'[r].user = users[loc[r].account]
      BY <1>1, <2>2, ServeLocals DEF Path, Held
    <3>2. users'[loc[r].account] = users[loc[r].account]
      BY <1>1, <1>3, <2>2
    <3>3. QED  BY <1>1, <1>4, <2>2, <3>1, <3>2 DEF HasLogin
  <2>3. CASE q = r /\ pc[r] # "idle"
    <3>1. pc[r] \in Held /\ pc[r] # "streak"
      BY <1>1, <2>3 DEF Path, Held, Serving
    <3>2. /\ loc'[r].user = loc[r].user /\ loc'[r].began = loc[r].began
          /\ pc[r] = "verify" => loc'[r].today = today
          /\ pc[r] # "verify" => loc'[r].today = loc[r].today
      BY <1>1, <2>3, <3>1, ServeLocals DEF Path, Held
    <3>3. HeldOK(r) /\ users'[loc[r].account] = users[loc[r].account]
      BY <1>1, <1>3, <2>3, <3>1 DEF HeldInv
    <3>4. QED  BY <1>1, <2>3, <3>1, <3>2, <3>3 DEF HeldOK, HasLogin
  <2>4. QED  BY <2>1, <2>2, <2>3
<1>7. ASSUME NEW q \in LoginReq, pc[q] \in Held, loc[q].account = loc[r].account,
             pc[r] = "insert", pc'[r] = "rollup"
      PROVE  loc[q].user.last # loc[r].today
  <2>1. InsertLoginEvent(r)
    BY <1>7 DEF Serve, FindUser, Verify, ReadYesterday, AcquireLoginLock, RereadUser,
       InsertLoginEvent, ReleaseLoginLock, UpsertLoginDay, SaveStreak, InvalidateCache,
       SaveSession
  <2>2. ~EventTaken(EventOf(r))
    BY <1>1, <1>7, <2>1 DEF InsertLoginEvent, InsertEvent, Goto, TypeOK
  <2>3. ~HasLogin(loc[r].account, loc[r].today)
    BY <1>1, <2>2 DEF EventTaken, EventOf, LoginEvent, HasLogin, LoginInv, LedgerOK, Logins
  <2>4. HeldOK(q) /\ loc[q].account \in BDA /\ loc[r].today # Never
    BY <1>1, <1>5, <1>7 DEF HeldInv, Held, Local
  <2>5. QED  BY <1>7, <2>3, <2>4 DEF HeldOK
<1>8. pc[r] = "insert" /\ pc'[r] = "rollup" => users[loc[r].account].last # loc[r].today
  <2> SUFFICES ASSUME pc[r] = "insert", pc'[r] = "rollup"
               PROVE  users[loc[r].account].last # loc[r].today
    OBVIOUS
  <2>1. InsertLoginEvent(r)
    BY DEF Serve, FindUser, Verify, ReadYesterday, AcquireLoginLock, RereadUser,
       InsertLoginEvent, ReleaseLoginLock, UpsertLoginDay, SaveStreak, InvalidateCache,
       SaveSession
  <2>2. ~EventTaken(EventOf(r))
    BY <1>1, <2>1 DEF InsertLoginEvent, InsertEvent, Goto, TypeOK
  <2>3. ~HasLogin(loc[r].account, loc[r].today)
    BY <1>1, <2>2 DEF EventTaken, EventOf, LoginEvent, HasLogin, LoginInv, LedgerOK, Logins
  <2>4. loc[r].account \in BDA /\ loc[r].today # Never
    BY <1>1, <1>5 DEF Held, Local
  <2>5. QED  BY <1>4, <2>3, <2>4
\* Who holds a document after the step held one before, the same, or reads it now.
<1>9. ASSUME NEW q \in LoginReq, pc'[q] \in Held, loc'[q].account \in BDA
      PROVE  \/ pc[q] \in Held /\ loc'[q].user = loc[q].user /\ loc'[q].account = loc[q].account
             \/ /\ q = r /\ pc[r] = "idle" /\ loc'[q].user = users[loc[q].account]
                /\ loc'[q].account = loc[q].account
  <2>1. CASE q # r  BY <1>1, <1>9, <2>1
  <2>2. CASE q = r /\ pc[r] = "idle"
    BY <1>1, <1>9, <2>2, ServeLocals DEF Path, Held
  <2>3. CASE q = r /\ pc[r] # "idle"
    BY <1>1, <1>9, <2>3, ServeLocals DEF Path, Held, Serving
  <2>4. QED  BY <2>1, <2>2, <2>3
<1>10. ASSUME NEW s \in LoginReq PROVE Unsaved(s)'
  <2> SUFFICES ASSUME pc'[s] \in {"rollup", "streak"}
               PROVE  /\ users'[loc'[s].account].last # loc'[s].today
                      /\ \A q \in LoginReq : pc'[q] \in Held /\ loc'[q].account = loc'[s].account
                           => loc'[q].user.last # loc'[s].today
    BY DEF Unsaved
  <2>1. loc'[s].account = loc[s].account /\ loc'[s].today = loc[s].today
        /\ pc[s] \in {"insert", "rollup", "streak"} /\ loc[s].account \in BDA
    <3>1. CASE s # r
      BY <1>1, <3>1 DEF TypeOK, Serving
    <3>2. CASE s = r
      BY <1>1, <1>5, <3>2, ServeLocals DEF Path, Serving, Held
    <3>3. QED  BY <3>1, <3>2
  <2>2. /\ users[loc[s].account].last # loc[s].today
        /\ \A q \in LoginReq : pc[q] \in Held /\ loc[q].account = loc[s].account =>
             loc[q].user.last # loc[s].today
    <3>1. CASE pc[s] = "insert"
      <4>1. s = r /\ pc'[r] = "rollup"
        BY <1>1, <3>1 DEF Path
      <4>2. QED  BY <1>7, <1>8, <3>1, <4>1
    <3>2. CASE pc[s] # "insert"
      BY <2>1, <3>2 DEF HeldInv, Unsaved
    <3>3. QED  BY <3>1, <3>2
  <2>3. users'[loc[s].account].last # loc[s].today
    <3>1. CASE users'[loc[s].account] = users[loc[s].account]  BY <2>2, <3>1
    <3>2. CASE pc[r] = "streak" /\ loc[s].account = loc[r].account
               /\ users'[loc[s].account].last = loc[r].today
      <4>1. s # r /\ Claimed(r) /\ Claimed(s)
        BY <1>1, <2>1, <3>2 DEF Path, Claimed
      <4>2. LockKey(s) # LockKey(r)
        BY <1>1, <4>1 DEF LoginInv, OneClaim
      <4>3. QED  BY <3>2, <4>2 DEF LockKey
    <3>3. QED  BY <1>3, <2>1, <3>1, <3>2
  <2>4. ASSUME NEW q \in LoginReq, pc'[q] \in Held, loc'[q].account = loc'[s].account
        PROVE  loc'[q].user.last # loc'[s].today
    BY <1>9, <2>1, <2>2, <2>4
  <2>5. QED  BY <2>1, <2>3, <2>4
<1>11. QED  BY <1>2, <1>6, <1>10 DEF HeldInv

LEMMA NextHeldInv == HeldInv /\ [Next]_vars => HeldInv'
<1> SUFFICES ASSUME HeldInv, [Next]_vars PROVE HeldInv'  OBVIOUS
<1>1. LockInv' /\ today \in Nat /\ pc \in [LoginReq -> {"idle"} \cup Serving \cup Answered]
  BY NextLockInv DEF HeldInv, LockInv, LoginInv, TypeOK, StoresTypeOK, Day
<1>2. ASSUME NEW r \in LoginReq, Serve(r) PROVE HeldInv'
  BY <1>1, <1>2, ServeHeld
<1>3. ASSUME NEW r \in LoginReq, Die(r) PROVE HeldInv'
  <2>1. /\ UNCHANGED <<users, events, loc, today>>
        /\ \A q \in LoginReq : pc'[q] = pc[q] \/ pc'[q] = "failed"
    BY <1>1, <1>3 DEF Die, Fails, Goto
  <2>2. QED  BY <1>1, <2>1, HeldFrame
<1>4. CASE (\E k \in BDA \X Day : ExpireLock(k)) \/ Midnight \/ UNCHANGED vars
  <2>1. UNCHANGED <<users, events, loc, pc>> /\ today' \in {today, today + 1}
    BY <1>4 DEF ExpireLock, Midnight, vars, storeVars, loginVars
  <2>2. QED  BY <1>1, <2>1, HeldFrame
<1>5. QED  BY <1>2, <1>3, <1>4 DEF Next

\* Whatever fails and whenever midnight falls, a login takes the last login date or the
\* best streak of an associate back only over the login of another day that it did not
\* see, and one of the two was served past midnight.
THEOREM StreaksGoBackOnlyPastMidnight == Spec => GoesBackOnlyPastMidnight
<1> DEFINE Stale(b) ==
      users'[b].last < users[b].last \/ users'[b].best < users[b].best =>
        \E r \in LoginReq :
          /\ pc[r] = "streak" /\ loc[r].account = b
          /\ users[b].last \notin {loc[r].user.last, loc[r].today}
          /\ loc[r].began < today \/ users[b].last < loc[r].began
<1>1. ASSUME HeldInv, NEW r \in LoginReq, SaveStreak(r), NEW b \in BDA PROVE Stale(b)
  <2>1. /\ LoginInv /\ TypeOK /\ NotAhead /\ LedgerPast /\ HeldOK(r) /\ Unsaved(r)
        /\ pc[r] = "streak" /\ loc[r] \in Local /\ loc[r].account \in BDA
        /\ loc[r].user \in User /\ users[b] \in User
    BY <1>1 DEF HeldInv, LockInv, LoginInv, TypeOK, StoresTypeOK, SaveStreak, Serving, Local,
                Account
  <2>2. users[b].last <= today /\ users[b].last \in Int /\ today \in Int
        /\ users[b].best \in Nat
    <3>1. users[b].last # Never => users[b].last <= today
      BY <2>1, LastIsPosted DEF LedgerPast, LoginEvent
    <3>2. QED  BY <2>1, <3>1 DEF User, Day, Never, TypeOK, StoresTypeOK
  <2>3. CASE b # loc[r].account
    <3>1. users'[b] = users[b]
      BY <1>1, <2>1, <2>3, SavedUser
    <3>2. QED  BY <2>2, <3>1
  <2>4. CASE b = loc[r].account
    <3>1. CASE UNCHANGED users  BY <2>2, <3>1
    <3>2. CASE users'[b] = [current |-> loc[r].streak, best |-> NewBest(r),
                            last |-> loc[r].today]
      <4>1. /\ users[b].last # loc[r].today /\ loc[r].today <= today /\ loc[r].today \in Int
            /\ loc[r].began \in Int /\ loc[r].user.last <= loc[r].began
            /\ loc[r].began <= loc[r].today /\ loc[r].streak \in Nat
            /\ users[b].last = loc[r].user.last => users[b] = loc[r].user
        BY <2>1, <2>4 DEF HeldOK, Held, Unsaved, NotAhead, Local, Day
      <4>2. CASE users[b].last = loc[r].user.last
        <5>1. NewBest(r) >= users[b].best /\ NewBest(r) \in Nat
          BY <2>2, <4>1, <4>2 DEF NewBest
        <5>2. users'[b].last = loc[r].today /\ users'[b].best = NewBest(r)
          BY <2>4, <3>2
        <5>3. loc[r].user.last <= loc[r].today
          BY <2>2, <4>1, <4>2
        <5>4. QED  BY <2>2, <4>1, <4>2, <5>1, <5>2, <5>3
      <4>3. CASE users[b].last # loc[r].user.last
        <5>1. loc[r].began < today \/ users[b].last < loc[r].began
          BY <2>2, <4>1
        <5>2. QED  BY <2>1, <2>4, <4>1, <4>3, <5>1
      <4>4. QED  BY <4>2, <4>3
    <3>3. QED  BY <1>1, <2>1, <2>4, <3>1, <3>2, SavedUser
  <2>5. QED  BY <2>3, <2>4
<1>2. ASSUME HeldInv, [Next]_vars PROVE [\A b \in BDA : Stale(b)]_users
  <2>1. CASE UNCHANGED users  BY <2>1
  <2>2. CASE \E r \in LoginReq : SaveStreak(r)  BY <1>1, <1>2, <2>2
  <2>3. QED
    BY <1>2, <2>1, <2>2, ServeWrites
    DEF Next, Die, ExpireLock, Midnight, vars, storeVars, loginVars
<1>3. QED  BY <1>2, InitHeldInv, NextHeldInv, PTL DEF Spec, GoesBackOnlyPastMidnight

==============================================================================
