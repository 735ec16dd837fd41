-------------------------------- MODULE Login --------------------------------
(***************************************************************************)
(* POST /api/auth/login: Service.Login and Service.recordLogin, run by any *)
(* number of concurrent requests against MongoDB and Redis.                *)
(*                                                                         *)
(* A request stops at every store call and at every reading of the clock,  *)
(* so the steps of other requests, midnight, a failed call and the death   *)
(* of the handler may fall between any two of them.                        *)
(***************************************************************************)
EXTENDS Stores

CONSTANTS
  LoginReq,   \* the login requests of a behaviour
  MaxLag      \* bound: midnights that may pass while one request is served

ASSUME LoginAssumption == MaxLag \in Nat

VARIABLES
  locks,      \* Redis keys login:<bda>:<date>
  sessions,   \* requests whose token is in Redis
  pc,         \* where each request is
  loc         \* the local variables of each request

redisVars == <<locks, sessions>>
loginVars == <<locks, sessions, pc, loc>>
vars      == <<storeVars, loginVars>>

Serving  == {"verify", "clock", "lock", "reread", "insert", "release",
             "rollup", "streak", "bump", "session"}
Answered == {"ok", "denied", "failed"}      \* "failed": 500, or no answer

\* kind "none" is the nil reward of a manager or of an unanswered request.
Reward == [kind : {"none", "repeat", "new"}, streak : Nat]
Nil    == [kind |-> "none", streak |-> 0]

Local == [account : Account, began : Day, user : User, today : Day,
          yesterday : Day \cup {Never}, streak : Nat, reward : Reward]

TypeOK ==
  /\ StoresTypeOK
  /\ locks    \in SUBSET (BDA \X Day)
  /\ sessions \in SUBSET LoginReq
  /\ pc       \in [LoginReq -> {"idle"} \cup Serving \cup Answered]
  /\ loc      \in [LoginReq -> Local]
  /\ \A r \in LoginReq :
       pc[r] \in Serving \ {"verify", "session"} => loc[r].account \in BDA

-----------------------------------------------------------------------------
(* Local computations.                                                     *)

LockKey(r) == <<loc[r].account, loc[r].today>>

\* A slip: yesterday's login is not asked for.
NewStreakAlwaysOn(r) == loc[r].user.current + 1

\* The streak this login reaches, from the user document the request holds.
NewStreak(r) ==
  IF loc[r].user.last = loc[r].yesterday THEN loc[r].user.current + 1 ELSE 1

\* A slip: the best streak is overwritten.
NewBestIsLatest(r) == loc[r].streak

NewBest(r) ==
  IF loc[r].streak > loc[r].user.best THEN loc[r].streak ELSE loc[r].user.best

EventOf(r) == LoginEvent(loc[r].account, loc[r].today, loc[r].streak)

Goto(r, label) == pc' = [pc EXCEPT ![r] = label]

Fails(r) == Goto(r, "failed") /\ Errs

-----------------------------------------------------------------------------
(* Login, before the reward.                                               *)

FindUser(r) ==
  /\ pc[r] = "idle"
  /\ \/ /\ loc' = [loc EXCEPT ![r] = [@ EXCEPT !.user = users[loc[r].account], !.began = today]]
        /\ Goto(r, "verify") /\ Answers
     \/ Goto(r, "denied") /\ Answers /\ UNCHANGED loc       \* no such email
     \/ Fails(r) /\ UNCHANGED loc
  /\ UNCHANGED <<users, daily, events, ver, today, redisVars>>

\* bcrypt and the role check; an associate goes on to read today's date.
Verify(r) ==
  /\ pc[r] = "verify"
  /\ \/ Goto(r, "denied") /\ UNCHANGED loc
     \/ loc[r].account \in BDM /\ Goto(r, "session") /\ UNCHANGED loc
     \/ /\ loc[r].account \in BDA
        /\ loc' = [loc EXCEPT ![r].today = today]
        /\ Goto(r, "clock")
  /\ UNCHANGED <<storeVars, redisVars>>

-----------------------------------------------------------------------------
(* recordLogin.                                                            *)

\* A slip: the streak is told as if it were awarded.
NotNewSaysNew(u) == [kind |-> "new", streak |-> u.current]

NotNew(u) == [kind |-> "repeat", streak |-> u.current]

\* The clock is read a second time for yesterday's date.
ReadYesterday(r) ==
  /\ pc[r] = "clock"
  /\ IF loc[r].user.last = loc[r].today
     THEN /\ loc' = [loc EXCEPT ![r] = [@ EXCEPT !.yesterday = today - 1,
                                                  !.reward = NotNew(loc[r].user)]]
          /\ Goto(r, "session")
     ELSE loc' = [loc EXCEPT ![r].yesterday = today - 1] /\ Goto(r, "lock")
  /\ UNCHANGED <<storeVars, redisVars>>

\* A slip: SET in place of SETNX.
AcquireAnyLock(r) ==
  /\ pc[r] = "lock"
  /\ locks' = locks \cup {LockKey(r)}
  /\ loc' = [loc EXCEPT ![r].streak = NewStreak(r)]
  /\ Goto(r, "insert")
  /\ UNCHANGED <<storeVars, sessions>>

\* SETNX; an error may hide that the key was set.
AcquireLoginLock(r) ==
  /\ pc[r] = "lock"
  /\ \/ /\ LockKey(r) \notin locks
        /\ locks' = locks \cup {LockKey(r)}
        /\ loc' = [loc EXCEPT ![r].streak = NewStreak(r)]
        /\ Goto(r, "insert") /\ Answers
     \/ /\ LockKey(r) \in locks
        /\ Goto(r, "reread") /\ Answers /\ UNCHANGED <<locks, loc>>
     \/ Fails(r) /\ locks' \in {locks, locks \cup {LockKey(r)}} /\ UNCHANGED loc
  /\ UNCHANGED <<users, daily, events, ver, today, sessions>>

RereadUser(r) ==
  /\ pc[r] = "reread"
  /\ \/ /\ LET fresh == users[loc[r].account]
           IN  loc' = [loc EXCEPT ![r] = [@ EXCEPT !.user = fresh, !.reward = NotNew(fresh)]]
        /\ Goto(r, "session") /\ Answers
     \/ Fails(r) /\ UNCHANGED loc
  /\ UNCHANGED <<users, daily, events, ver, today, redisVars>>

\* Every error of the insert leads to the release, a duplicate _id included.
InsertLoginEvent(r) ==
  /\ pc[r] = "insert"
  /\ \/ InsertEvent(EventOf(r)) /\ Goto(r, "rollup") /\ Answers
     \/ EventTaken(EventOf(r)) /\ Goto(r, "release") /\ Answers /\ UNCHANGED events
     \/ Goto(r, "release") /\ Errs /\ (InsertEvent(EventOf(r)) \/ UNCHANGED events)
  /\ UNCHANGED <<users, daily, ver, today, redisVars, loc>>

\* The error of the release itself is dropped.
ReleaseLoginLock(r) ==
  /\ pc[r] = "release"
  /\ Goto(r, "failed")
  /\ \/ locks' = locks \ {LockKey(r)} /\ Answers
     \/ Errs /\ locks' \in {locks, locks \ {LockKey(r)}}
  /\ UNCHANGED <<users, daily, events, ver, today, sessions, loc>>

\* A slip: the $inc names the login points of the day so far as well.
CreditTwice(r) ==
  UpsertDaily(loc[r].account, loc[r].today,
              LoginDay(LoginDay(daily[LockKey(r)], loc[r].streak), loc[r].streak))

CreditRollup(r) ==
  UpsertDaily(loc[r].account, loc[r].today, LoginDay(daily[LockKey(r)], loc[r].streak))

\* A slip: the error of UpsertDaily is dropped like that of Invalidate.
UpsertDayUnchecked(r) ==
  /\ pc[r] = "rollup"
  /\ Goto(r, "streak")
  /\ \/ CreditRollup(r) /\ Answers
     \/ Errs /\ (CreditRollup(r) \/ UNCHANGED daily)
  /\ UNCHANGED <<users, events, ver, today, redisVars, loc>>

UpsertLoginDay(r) ==
  /\ pc[r] = "rollup"
  /\ \/ CreditRollup(r) /\ Goto(r, "streak") /\ Answers
     \/ Fails(r) /\ (CreditRollup(r) \/ UNCHANGED daily)
  /\ UNCHANGED <<users, events, ver, today, redisVars, loc>>

SetStreak(r) ==
  UpdateUserStreak(loc[r].account, loc[r].streak, NewBest(r), loc[r].today)

SaveStreak(r) ==
  /\ pc[r] = "streak"
  /\ \/ /\ SetStreak(r)
        /\ loc' = [loc EXCEPT ![r].user = users'[loc[r].account]]
        /\ Goto(r, "bump") /\ Answers
     \/ Fails(r) /\ (SetStreak(r) \/ UNCHANGED users) /\ UNCHANGED loc
  /\ UNCHANGED <<daily, events, ver, today, redisVars>>

\* The error of the invalidation is dropped; the reward is returned.
InvalidateCache(r) ==
  /\ pc[r] = "bump"
  /\ Goto(r, "session")
  /\ loc' = [loc EXCEPT ![r].reward = [kind |-> "new", streak |-> loc[r].streak]]
  /\ \/ Invalidate /\ Answers
     \/ Errs /\ (Invalidate \/ UNCHANGED ver)
  /\ UNCHANGED <<users, daily, events, today, redisVars>>

-----------------------------------------------------------------------------
(* Login, after the reward.                                                *)

SaveSession(r) ==
  /\ pc[r] = "session"
  /\ \/ sessions' = sessions \cup {r} /\ Goto(r, "ok") /\ Answers
     \/ Fails(r) /\ sessions' \in {sessions, sessions \cup {r}}
  /\ UNCHANGED <<users, daily, events, ver, today, locks, loc>>

-----------------------------------------------------------------------------
(* What the reads show of a user document (the overview, the boards).      *)

\* A slip: the streak of a user who has not logged in today is not shown.
CurrentStreakToday(u) == IF u.last = today THEN u.current ELSE 0

CurrentStreak(u) == IF u.last \in {today, today - 1} THEN u.current ELSE 0

-----------------------------------------------------------------------------
(* The environment.                                                        *)

\* The handler dies: the process is killed, or shut down past its timeout.
Die(r) ==
  /\ pc[r] \in Serving
  /\ Fails(r)
  /\ UNCHANGED <<users, daily, events, ver, today, redisVars, loc>>

\* A lock set on its day lives 36 hours: at least until noon of the next day.
ExpireLock(k) ==
  /\ k \in locks /\ k[2] < today
  /\ locks' = locks \ {k}
  /\ UNCHANGED <<storeVars, sessions, pc, loc>>

Midnight ==
  /\ today < MaxDay
  /\ \A r \in LoginReq : pc[r] \in Serving => today < loc[r].began + MaxLag
  /\ today' = today + 1
  /\ UNCHANGED <<users, daily, events, ver, faults, loginVars>>

-----------------------------------------------------------------------------

LoginsIdle ==
  /\ locks = {} /\ sessions = {}
  /\ pc = [r \in LoginReq |-> "idle"]
  /\ \E f \in [LoginReq -> Account] :
       loc = [r \in LoginReq |->
                [account |-> f[r], began |-> 0,
                 user |-> [current |-> 0, best |-> 0, last |-> Never],
                 today |-> 0, yesterday |-> Never, streak |-> 0, reward |-> Nil]]

Init == StoresInit /\ LoginsIdle

\* The steps of one request.
Serve(r) ==
  \/ FindUser(r) \/ Verify(r) \/ ReadYesterday(r) \/ AcquireLoginLock(r)
  \/ RereadUser(r) \/ InsertLoginEvent(r) \/ ReleaseLoginLock(r)
  \/ UpsertLoginDay(r) \/ SaveStreak(r) \/ InvalidateCache(r) \/ SaveSession(r)

Next ==
  \/ \E r \in LoginReq : Serve(r) \/ Die(r)
  \/ \E k \in BDA \X Day : ExpireLock(k)
  \/ Midnight

Spec == Init /\ [][Next]_vars

-----------------------------------------------------------------------------
(* Properties that hold whatever fails and whenever midnight falls.        *)

Holder(r) == pc[r] \in {"insert", "release", "rollup", "streak"}

\* r posted the day's login event and is the one to be told it is new.
Claimed(r) == pc[r] \in {"rollup", "streak", "bump"} \/ loc[r].reward.kind = "new"

Logins == {e \in events : e.type = "LOGIN"}

\* The login points of a rollup are those of the one ledger event that posts
\* them: recordLogin never credits a day twice, nor without an event.
CreditedOnce ==
  \A k \in BDA \X Day : daily[k].loginPoints # 0 =>
    \E e \in Logins :
      /\ <<e.bda, e.date>> = k
      /\ e.points = daily[k].loginPoints /\ e.streak = daily[k].streakDay

\* A user document never runs ahead of the rollups: its last login date is a
\* day credited as a login at the streak the document shows.
StreakBacked ==
  \A b \in BDA : users[b].last # Never =>
    /\ daily[<<b, users[b].last>>].loggedIn
    /\ daily[<<b, users[b].last>>].streakDay = users[b].current

\* Of the logins of one associate on one day, at most one is told isNew, and
\* the streak it is told is the one that was credited.
NewRewardIsTheCredit ==
  \A r \in LoginReq : loc[r].reward.kind = "new" =>
    /\ daily[LockKey(r)].loginPoints = LoginPoints(loc[r].reward.streak)
    /\ daily[LockKey(r)].streakDay = loc[r].reward.streak
    /\ \A s \in LoginReq :
         loc[s].reward.kind = "new" /\ LockKey(s) = LockKey(r) => s = r

\* Every step is a step of the promised bonus, or leaves it alone.
Bonus == INSTANCE LoginBonus WITH
  posted   <- {[bda |-> e.bda, date |-> e.date, points |-> e.points] : e \in Logins},
  credited <- [k \in BDA \X Day |-> daily[k].loginPoints]

ImplementsBonus == Bonus!BonusSpec

\* A login takes an associate's last login date or best streak back only past midnight:
\* it saves over the login of another day, which it did not see when it read the user,
\* and one of the two was still served after the day it began on.
GoesBackOnlyPastMidnight ==
  [][\A b \in BDA :
       users'[b].last < users[b].last \/ users'[b].best < users[b].best =>
         \E r \in LoginReq :
           /\ pc[r] = "streak" /\ loc[r].account = b
           /\ users[b].last \notin {loc[r].user.last, loc[r].today}
           /\ loc[r].began < today \/ users[b].last < loc[r].began]_users

-----------------------------------------------------------------------------
(* The inductive invariant behind them.                                    *)

LedgerOK ==
  /\ \A e \in Logins : e.stamp = "none" /\ e.streak >= 1
                       /\ e.points = LoginPoints(e.streak)
  /\ \A e, f \in Logins : <<e.bda, e.date>> = <<f.bda, f.date>> => e = f

RollupOK ==
  \A k \in BDA \X Day :
    \/ daily[k].loginPoints = 0 /\ ~daily[k].loggedIn
    \/ /\ daily[k].loggedIn
       /\ LoginEvent(k[1], k[2], daily[k].streakDay) \in events
       /\ daily[k].loginPoints = LoginPoints(daily[k].streakDay)

RequestOK(r) ==
  /\ loc[r].reward.kind # "none" => pc[r] \in {"session"} \cup Answered
  /\ pc[r] = "insert" => loc[r].streak >= 1
  /\ Claimed(r) => loc[r].account \in BDA /\ EventOf(r) \in events
  /\ pc[r] = "rollup" => daily[LockKey(r)].loginPoints = 0
  /\ Claimed(r) /\ pc[r] # "rollup" =>
       daily[LockKey(r)].loggedIn /\ daily[LockKey(r)].streakDay = loc[r].streak
  /\ loc[r].reward.kind = "new" => loc[r].reward.streak = loc[r].streak

OneClaim ==
  \A r, s \in LoginReq :
    Claimed(r) /\ Claimed(s) /\ LockKey(r) = LockKey(s) => r = s

LoginInv ==
  /\ TypeOK /\ LedgerOK /\ RollupOK /\ StreakBacked
  /\ \A r \in LoginReq : RequestOK(r)
  /\ OneClaim

-----------------------------------------------------------------------------
(* Properties of requests that do not straddle midnight (MaxLag = 0).      *)

\* The lock of a day is with one request at a time.
LockExclusive ==
  \A r, s \in LoginReq :
    Holder(r) /\ Holder(s) /\ LockKey(r) = LockKey(s) => r = s

\* The streak of the one login of b on day d in a ledger, 0 if there is none.
StreakIn(ledger, b, d) ==
  LET there == {e \in ledger : e.bda = b /\ e.date = d}
  IN  IF there = {} THEN 0 ELSE (CHOOSE e \in there : TRUE).streak

StreakOn(b, d) == StreakIn(Logins, b, d)

\* "A streak stays alive through the end of the following day": with the stores
\* up, a login's streak is one more than that of the day before's login, else 1.
StreakIsRun == faults = 0 =>
  \A e \in Logins : e.date > 0 => e.streak = StreakOn(e.bda, e.date - 1) + 1

\* ... and what the reads show is that of the ledger, today's login or else that of
\* the day before, but while a login is between its event and the user document.
StreakShown == faults = 0 =>
  \A b \in BDA :
    \/ \E r \in LoginReq : pc[r] \in {"rollup", "streak"} /\ loc[r].account = b
    \/ CurrentStreak(users[b]) = IF StreakOn(b, today) # 0 THEN StreakOn(b, today)
                                                   ELSE StreakOn(b, today - 1)

\* Concurrent logins never make one another fail: with the stores up, every
\* request is answered or denied for its credentials.
NoSpuriousFailure == faults = 0 => \A r \in LoginReq : pc[r] # "failed"

\* "recordLogin awards today's login points exactly once per BDA per day":
\* once the day's lock is taken and nobody is at work under it, the points
\* are in the rollup.
AwardedOnce ==
  \A k \in locks : (k[2] = today /\ \A r \in LoginReq : Holder(r) => LockKey(r) # k) =>
    daily[k].loginPoints # 0

\* ... which is so with the stores up.
AwardedUnlessFault == faults = 0 => AwardedOnce

-----------------------------------------------------------------------------
(* Liveness: a handler that is not killed goes on to its next step, since  *)
(* every store call returns or fails; nothing else is fair.                *)

FairSpec == Spec /\ \A r \in LoginReq : WF_vars(pc[r] \in Serving /\ Serve(r))

\* With the stores up, taking the day's lock leads to the day's points, so a
\* request turned away by the lock told the truth in the end.
LockLeadsToCredit ==
  \A k \in BDA \X Day : k \in locks ~> (daily[k].loginPoints # 0 \/ faults > 0)

==============================================================================
