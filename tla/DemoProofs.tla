------------------------------ MODULE DemoProofs ------------------------------
(***************************************************************************)
(* Proofs about Demo, for any number of resets, logins, registrations,     *)
(* faults and starts.                                                      *)
(***************************************************************************)
EXTENDS Demo, FiniteSetTheorems, TLAPS

-----------------------------------------------------------------------------
(* The inductive invariant.                                                *)

\* Where a reset that dropped the users has not built their index again.
Open == {"dropDaily", "dropEvents", "index", "failed"}

\* The index admits one account of the email; a process that serves has it, but for a
\* reset that took it away, and two accounts are there only with such a reset.
EmailsGuarded ==
  /\ indexed => Cardinality(Registered) <= 1
  /\ boot \notin {"down", "index"} => indexed \/ \E s \in Reset : pc[s] \in Open
  /\ ~(Cardinality(Registered) <= 1) => \E s \in Reset : pc[s] \in Open

\* What a reset has seeded so far is there, unless another one began.
SeededSoFar ==
  \A r \in Reset : (\A s \in Reset \ {r} : pc[s] = "idle") =>
    /\ pc[r] \in {"seedDaily", "seedEvents", "ok"} => SeedUsers \subseteq users
    /\ pc[r] \in {"seedEvents", "ok"} => SeedDaily \subseteq daily
    /\ pc[r] = "ok" => SeedEvents \subseteq events

Wiping == {"dropDaily", "dropEvents", "index", "flush"}

\* A lock taken since the last reset has its award, or a request that gets there or gives
\* it back.
LockBacked ==
  (faults = 0 /\ locked /\ Cardinality(Registered) <= 1
    /\ \A r \in Reset : pc[r] \notin Wiping) =>
    \/ "login" \in events /\ "credit" \in daily
    \/ \E r \in Award : \/ pc[r] \in {"insert", "release"}
                        \/ pc[r] = "rollup" /\ "login" \in events

\* A start that broke off by itself leaves users behind, so the next one seeds nothing.
LuckReturns ==
  /\ boot = "seedUsers" => users = {}
  /\ boot \in {"seedDaily", "seedEvents"} => users # {}
  /\ luckless # 0 => users # {} /\ boot \in {"down", "index", "count"}
  /\ luckless = 2 => ~(Cardinality(Registered) <= 1)

DemoInv ==
  /\ TypeOK /\ IsFiniteSet(Registered)
  /\ EmailsGuarded /\ SeededSoFar /\ LockBacked /\ LuckReturns

-----------------------------------------------------------------------------
(* What the calls do.                                                      *)

\* A fault is counted, or there is none.
LEMMA Faulty ==
  ASSUME TypeOK, Answers \/ Errs
  PROVE  /\ faults' \in 0 .. MaxFaults /\ (faults' = 0 => faults = 0)
         /\ Errs => faults' # 0 /\ faults' # faults
BY DemoAssumption DEF DemoAssumption, TypeOK, Answers, Errs

\* Seeding takes no document away; a batch that went well is there.
LEMMA SeedingUsers ==
  ASSUME TypeOK, NEW ok \in BOOLEAN, InsertUsers(ok)
  PROVE  /\ users \subseteq users' /\ users' \subseteq users \cup SeedUsers
         /\ ok => SeedUsers \subseteq users'
         /\ Registered' = Registered
         /\ ~ok /\ faults' = faults => users # {}
         /\ UNCHANGED <<indexed, saved, daily, events>>
         /\ faults' \in 0 .. MaxFaults /\ (faults' = 0 => faults = 0)
<1>1. users \subseteq users' /\ users' \subseteq users \cup SeedUsers
  BY DEF InsertUsers, SeedUsers
<1>2. Registered' = Registered
  BY <1>1, DemoAssumption DEF DemoAssumption, Registered
<1>3. (Answers \/ Errs) /\ (~ok /\ faults' = faults => users # {})
  BY Faulty DEF InsertUsers, SeedUsers
<1>4. QED  BY <1>1, <1>2, <1>3, Faulty DEF InsertUsers

LEMMA SeedingDaily ==
  ASSUME TypeOK, NEW ok \in BOOLEAN, InsertDaily(ok)
  PROVE  /\ daily \subseteq daily' /\ daily' \subseteq daily \cup SeedDaily
         /\ ok => SeedDaily \subseteq daily'
         /\ UNCHANGED <<users, indexed, saved, events>>
         /\ faults' \in 0 .. MaxFaults /\ (faults' = 0 => faults = 0)
BY Faulty DEF InsertDaily

LEMMA SeedingEvents ==
  ASSUME TypeOK, NEW ok \in BOOLEAN, InsertEvents(ok)
  PROVE  /\ events \subseteq events' /\ events' \subseteq events \cup SeedEvents
         /\ ok => SeedEvents \subseteq events'
         /\ UNCHANGED <<users, indexed, saved, daily>>
         /\ faults' \in 0 .. MaxFaults /\ (faults' = 0 => faults = 0)
BY Faulty DEF InsertEvents

\* The index is never lost by building it, and there after it was built; without a fault
\* only two accounts of one email prevent it.
LEMMA Indexing ==
  ASSUME TypeOK, NEW ok \in BOOLEAN, EnsureIndexes(ok)
  PROVE  /\ indexed' \in BOOLEAN /\ (indexed => indexed') /\ (ok => indexed')
         /\ indexed' => indexed \/ Cardinality(Registered) <= 1
         /\ ~ok /\ faults' = faults => ~(Cardinality(Registered) <= 1)
         /\ UNCHANGED <<users, saved, daily, events>>
         /\ faults' \in 0 .. MaxFaults /\ (faults' = 0 => faults = 0)
<1>1. CASE indexed
  BY <1>1, Faulty DEF EnsureIndexes, TypeOK
<1>2. CASE ~indexed
  <2>1. CASE Cardinality(Registered) <= 1
    BY <1>2, <2>1, Faulty DEF EnsureIndexes, TypeOK
  <2>2. CASE ~(Cardinality(Registered) <= 1)
    BY <1>2, <2>2, Faulty DEF EnsureIndexes, TypeOK
  <2>3. QED  BY <2>1, <2>2
<1>3. QED  BY <1>1, <1>2 DEF TypeOK

-----------------------------------------------------------------------------
(* The steps, by what they leave alone.                                    *)

\* The steps of main and a crash.
BootStep == Start \/ OpenStore \/ CountUsers \/ BootSeeds \/ Crash

LEMMA InitDemoInv == Init => DemoInv
<1> SUFFICES ASSUME Init PROVE DemoInv  OBVIOUS
<1>1. TypeOK
  <2>1. faults \in 0 .. MaxFaults /\ luckless \in 0 .. 2
    BY DemoAssumption DEF Init, DemoAssumption
  <2>2. indexed \in BOOLEAN /\ saved \in BOOLEAN /\ locked \in BOOLEAN /\ (saved => "bda" \in users)
    BY DEF Init
  <2>3. pc \in [Request -> {"idle"}]
    BY DEF Init
  <2>4. QED  BY <2>1, <2>2, <2>3 DEF Init, TypeOK
<1>2. Registered = {}  BY DEF Init, Registered
<1>3. IsFiniteSet(Registered) /\ Cardinality(Registered) = 0
  BY <1>2, FS_EmptySet
<1>4. EmailsGuarded /\ LuckReturns /\ LockBacked /\ SeededSoFar
  BY <1>3 DEF Init, EmailsGuarded, LuckReturns, LockBacked, SeededSoFar, Request
<1>5. QED  BY <1>1, <1>3, <1>4 DEF DemoInv

LEMMA BootTypes ==
  ASSUME TypeOK, BootStep
  PROVE  /\ TypeOK'
         /\ users \subseteq users' /\ daily \subseteq daily' /\ events \subseteq events'
         /\ locked' = locked /\ Registered' = Registered
         /\ (indexed => indexed') /\ (indexed' => indexed \/ Cardinality(Registered) <= 1)
         /\ boot' \notin {"down", "index"} => indexed' \/ boot \notin {"down", "index"}
         /\ faults' = 0 => faults = 0 /\ pc' = pc
         /\ \A r \in Request : \/ pc'[r] = pc[r]
                               \/ pc'[r] = "failed" /\ pc[r] \in ResetStep \cup AwardStep
<1> USE DEF mongoVars
<1>1. \A label : label \in {"count", "seedDaily", "seedEvents", "up"} =>
        \A ok \in BOOLEAN : BootDone(label, ok) =>
          /\ boot' \in {label, "down"} /\ (boot' = label => ok) /\ luckless' \in 0 .. 2
  BY DEF BootDone, TypeOK
<1>2. CASE Start
  BY <1>2 DEF Start, TypeOK, Registered
<1>3. CASE OpenStore
  <2>1. PICK ok \in BOOLEAN : EnsureIndexes(ok) /\ BootDone("count", ok)
    BY <1>3 DEF OpenStore
  <2>2. boot' \in {"count", "down"} /\ (boot' = "count" => ok) /\ luckless' \in 0 .. 2
    BY <1>1, <2>1
  <2>3. UNCHANGED <<locked, pc>>  BY <1>3 DEF OpenStore
  <2>4. QED  BY <2>1, <2>2, <2>3, Indexing DEF TypeOK, Registered
<1>4. CASE CountUsers
  BY <1>4, Faulty DEF CountUsers, TypeOK, Registered
<1>5. CASE BootSeeds
  <2>1. boot \in {"seedUsers", "seedDaily", "seedEvents"} /\ UNCHANGED <<locked, pc>>
        /\ luckless' \in 0 .. 2 /\ boot' \in {"seedDaily", "seedEvents", "up", "down"}
    BY <1>1, <1>5 DEF BootSeeds
  <2>2. PICK ok \in BOOLEAN : InsertUsers(ok) \/ InsertDaily(ok) \/ InsertEvents(ok)
    BY <1>5 DEF BootSeeds
  <2>3. CASE InsertUsers(ok)
    BY <2>1, <2>3, SeedingUsers DEF TypeOK
  <2>4. CASE InsertDaily(ok)
    BY <2>1, <2>4, SeedingDaily DEF TypeOK, Registered
  <2>5. CASE InsertEvents(ok)
    BY <2>1, <2>5, SeedingEvents DEF TypeOK, Registered
  <2>6. QED  BY <2>2, <2>3, <2>4, <2>5
<1>6. CASE Crash
  <2>1. faults' \in 0 .. MaxFaults /\ faults' # 0
    BY <1>6, Faulty DEF Crash
  <2>2. /\ pc' = [r \in Request |->
                   IF pc[r] \in ResetStep \cup AwardStep THEN "failed" ELSE pc[r]]
        /\ boot' = "down" /\ luckless' = 0
        /\ UNCHANGED <<users, indexed, saved, daily, events, locked>>
    BY <1>6 DEF Crash
  <2>3. pc' \in [Request -> {"idle", "ok", "told", "denied", "refused", "failed"}
                             \cup ResetStep \cup AwardStep]
    BY <2>2 DEF TypeOK
  <2>4. QED  BY <2>1, <2>2, <2>3 DEF TypeOK, Registered
<1>7. QED  BY <1>2, <1>3, <1>4, <1>5, <1>6 DEF BootStep

\* The steps of a login.
AwardActs(r) == LogIn(r) \/ ClaimDay(r) \/ AwardDay(r)

LEMMA AwardMoves ==
  ASSUME TypeOK, NEW r \in Award, AwardActs(r)
  PROVE  /\ TypeOK'
         /\ UNCHANGED <<users, indexed, boot, luckless, faults, Registered>>
         /\ daily \subseteq daily' /\ events \subseteq events' /\ boot = "up"
         /\ \A q \in Request \ {r} : pc'[q] = pc[q]
<1> USE DEF At, Goto, Request, ResetStep, AwardStep, Holder, mongoVars
<1>1. pc \in [Request -> {"idle", "ok", "told", "denied", "refused", "failed"}
                          \cup ResetStep \cup AwardStep]
  BY DEF TypeOK
<1>2. CASE LogIn(r)
  BY <1>1, <1>2 DEF LogIn, TypeOK, Registered
<1>3. CASE ClaimDay(r)
  <2>1. locked' \in BOOLEAN  BY <1>3 DEF ClaimDay, TypeOK
  <2>2. PICK label \in {"reread", "insert", "told", "failed"} : pc' = [pc EXCEPT ![r] = label]
    BY <1>3 DEF ClaimDay
  <2>3. boot = "up" /\ UNCHANGED <<users, indexed, saved, daily, events, boot, luckless, faults>>
    BY <1>3 DEF ClaimDay
  <2>4. QED  BY <1>1, <2>1, <2>2, <2>3 DEF TypeOK, Registered
<1>4. CASE AwardDay(r)
  <2>1. /\ saved' \in BOOLEAN /\ (saved' => "bda" \in users)
    <3>1. saved' = saved \/ saved' = ("bda" \in users)
      BY <1>4 DEF AwardDay, UpdateUserStreak
    <3>2. CASE saved' = saved  BY <3>2 DEF TypeOK
    <3>3. CASE saved' = ("bda" \in users)
      <4>1. saved' \in BOOLEAN  BY <3>3
      <4>2. saved' => "bda" \in users  BY <3>3, Zenon
      <4>3. QED  BY <4>1, <4>2
    <3>4. QED  BY <3>1, <3>2, <3>3
  <2>2. /\ daily' \subseteq daily \cup {"today", "credit"}
        /\ events' \subseteq events \cup {"login"}
        /\ daily \subseteq daily' /\ events \subseteq events'
    BY <1>4 DEF AwardDay
  <2>3. PICK label \in {"release", "rollup", "streak", "told"} : pc' = [pc EXCEPT ![r] = label]
    BY <1>4 DEF AwardDay
  <2>4. boot = "up" /\ UNCHANGED <<users, indexed, locked, boot, luckless, faults>>
    BY <1>4 DEF AwardDay
  <2>5. QED  BY <1>1, <2>1, <2>2, <2>3, <2>4 DEF TypeOK, SeedDaily, Registered
<1>5. QED  BY <1>2, <1>3, <1>4 DEF AwardActs

\* A registration adds its account or nothing.
LEMMA RegisterMoves ==
  ASSUME TypeOK, NEW r \in Register, CreateBDA(r)
  PROVE  /\ TypeOK'
         /\ UNCHANGED <<indexed, saved, daily, events, locked, boot, luckless>> /\ boot = "up"
         /\ users' = users \cup {r} \/ users' = users
         /\ Registered' = Registered \/ (Registered' = Registered \cup {r}
                                         /\ ~(indexed /\ Registered # {}))
         /\ \A q \in Request \ {r} : pc'[q] = pc[q]
         /\ faults' = 0 => faults = 0
<1> USE DEF At, Goto, Request, ResetStep, AwardStep, Holder
<1>1. pc \in [Request -> {"idle", "ok", "told", "denied", "refused", "failed"}
                          \cup ResetStep \cup AwardStep]
  BY DEF TypeOK
<1>2. PICK label \in {"ok", "refused", "failed"} : pc' = [pc EXCEPT ![r] = label]
  BY DEF CreateBDA
<1>3. /\ UNCHANGED <<indexed, saved, daily, events, locked, boot, luckless>> /\ boot = "up"
      /\ users' = users \/ (users' = users \cup {r} /\ ~(indexed /\ Registered # {}))
  BY DEF CreateBDA
<1>4. faults' \in 0 .. MaxFaults /\ (faults' = 0 => faults = 0)
  BY Faulty DEF CreateBDA
<1>5. Registered' = Registered \/ (Registered' = Registered \cup {r}
                                    /\ ~(indexed /\ Registered # {}))
  BY <1>3 DEF Registered
<1>6. QED  BY <1>1, <1>2, <1>3, <1>4, <1>5 DEF TypeOK

\* The steps of a reset.
ResetActs(r) == Ask(r) \/ Wipe(r) \/ Flush(r) \/ Reseed(r)

LEMMA ResetMoves ==
  ASSUME TypeOK, NEW r \in Reset, ResetActs(r)
  PROVE  /\ TypeOK' /\ boot = "up" /\ UNCHANGED <<boot, luckless>>
         /\ faults' = 0 => faults = 0
         /\ \A q \in Request \ {r} : pc'[q] = pc[q]
         /\ pc[r] \in {"idle"} \cup ResetStep /\ pc'[r] \in ResetStep \cup {"ok", "failed"}
         /\ pc'[r] = "dropUsers" =>
              pc[r] = "idle" /\ UNCHANGED <<users, indexed, daily, events, locked, Registered>>
         /\ Registered' = Registered \/ (Registered' = {} /\ pc[r] = "dropUsers")
         /\ users  \subseteq users'  \/ pc[r] = "dropUsers"
         /\ daily  \subseteq daily'  \/ pc[r] = "dropDaily"
         /\ events \subseteq events' \/ pc[r] = "dropEvents"
         /\ locked' => locked
         /\ pc'[r] = "seedDaily" => SeedUsers \subseteq users'
         /\ pc'[r] = "seedEvents" => pc[r] = "seedDaily" /\ SeedDaily \subseteq daily'
         /\ pc'[r] = "ok" => pc[r] = "seedEvents" /\ SeedEvents \subseteq events'
         /\ pc[r] \in {"dropUsers", "dropDaily", "dropEvents"} /\ faults' = 0 => pc'[r] \in Wiping
         /\ pc[r] \in Wiping /\ pc'[r] \notin Wiping /\ faults' = 0 /\ locked' =>
              ~(Cardinality(Registered) <= 1) /\ Registered' = Registered
         /\ indexed' => Registered' = Registered /\ (indexed \/ Cardinality(Registered) <= 1)
         /\ indexed /\ ~indexed' => pc'[r] \in Open
         /\ pc[r] \in Open => pc'[r] \in Open \/ indexed'
<1> USE DEF At, Goto, Request, ResetStep, Wiping, Open, mongoVars
<1>1. pc \in [Request -> {"idle", "ok", "told", "denied", "refused", "failed"}
                          \cup ResetStep \cup AwardStep]
  BY DEF TypeOK
<1>2. \A label \in {"idle", "ok", "told", "denied", "refused", "failed"} \cup ResetStep :
        pc' = [pc EXCEPT ![r] = label] =>
          /\ pc'[r] = label /\ \A q \in Request \ {r} : pc'[q] = pc[q]
          /\ pc' \in [Request -> {"idle", "ok", "told", "denied", "refused", "failed"}
                                  \cup ResetStep \cup AwardStep]
  BY <1>1
<1>3. CASE Ask(r)
  <2>1. pc' = [pc EXCEPT ![r] = "dropUsers"]  BY <1>3 DEF Ask
  <2>2. QED  BY <1>2, <1>3, <2>1 DEF Ask, TypeOK, Registered
<1>4. CASE Wipe(r)
  <2>1. boot = "up" /\ UNCHANGED <<locked, boot, luckless>>  BY <1>4 DEF Wipe, Rebuild
  <2>2. CASE pc[r] = "dropUsers"
    <3>1. /\ UNCHANGED <<daily, events>>
          /\ Drops(r, "dropDaily", users' = {} /\ indexed' = FALSE /\ saved' = FALSE,
                                   UNCHANGED <<users, indexed, saved>>)
      BY <1>4, <2>2 DEF Wipe, Rebuild
    <3>2. /\ Answers \/ Errs
          /\ \/ users' = {} /\ indexed' = FALSE /\ saved' = FALSE
             \/ UNCHANGED <<users, indexed, saved>>
          /\ \/ pc' = [pc EXCEPT ![r] = "dropDaily"]
             \/ pc' = [pc EXCEPT ![r] = "failed"] /\ Errs
      BY <3>1 DEF Drops
    <3>3. Registered' = {} \/ Registered' = Registered  BY <3>2 DEF Registered
    <3>4. faults' \in 0 .. MaxFaults /\ (faults' = 0 => faults = 0) /\ (Errs => faults' # 0)
      BY <3>2, Faulty
    <3>5. users' \subseteq users /\ indexed' \in BOOLEAN /\ saved' \in BOOLEAN
          /\ (saved' => "bda" \in users')
      <4>1. CASE users' = {} /\ indexed' = FALSE /\ saved' = FALSE  BY <4>1
      <4>2. CASE UNCHANGED <<users, indexed, saved>>  BY <4>2 DEF TypeOK
      <4>3. QED  BY <3>2, <4>1, <4>2
    <3>6. TypeOK'
      BY <1>2, <2>1, <3>1, <3>2, <3>4, <3>5 DEF TypeOK
    <3>7. pc'[r] \in {"dropDaily", "failed"} /\ \A q \in Request \ {r} : pc'[q] = pc[q]
      BY <1>2, <3>2
    <3>8. indexed' => Registered' = Registered /\ indexed
      BY <3>2 DEF Registered, TypeOK
    <3>9. QED  BY <1>2, <2>1, <2>2, <3>1, <3>2, <3>3, <3>4, <3>6, <3>7, <3>8
  <2>3. CASE pc[r] \in {"dropDaily", "dropEvents"}
    <3>1. /\ UNCHANGED <<users, indexed, saved, Registered>> /\ (Answers \/ Errs)
          /\ \/ pc[r] = "dropDaily" /\ daily' \in {{}, daily} /\ events' = events
             \/ pc[r] = "dropEvents" /\ events' \in {{}, events} /\ daily' = daily
          /\ \/ pc' = [pc EXCEPT ![r] = "dropEvents"]
             \/ pc' = [pc EXCEPT ![r] = "index"]
             \/ pc' = [pc EXCEPT ![r] = "failed"] /\ Errs
      BY <1>4, <2>3 DEF Wipe, Rebuild, Drops, Registered
    <3>2. faults' \in 0 .. MaxFaults /\ (faults' = 0 => faults = 0) /\ (Errs => faults' # 0)
      BY <3>1, Faulty
    <3>3. TypeOK'
      BY <1>2, <2>1, <3>1, <3>2 DEF TypeOK
    <3>4. QED  BY <1>2, <2>1, <2>3, <3>1, <3>2, <3>3
  <2>4. CASE pc[r] = "index"
    <3>1. PICK ok \in BOOLEAN :
            EnsureIndexes(ok) /\ pc' = [pc EXCEPT ![r] = IF ok THEN "flush" ELSE "failed"]
      BY <1>4, <2>4 DEF Wipe, Rebuild
    <3>2. ~ok /\ faults' = 0 => ~(Cardinality(Registered) <= 1)
      BY <3>1, Indexing, Faulty DEF TypeOK, EnsureIndexes
    <3>3. QED  BY <1>2, <2>1, <2>4, <3>1, <3>2, Indexing DEF TypeOK, Registered
  <2>5. QED  BY <1>4, <2>2, <2>3, <2>4 DEF Wipe, Rebuild
<1>5. CASE Flush(r)
  <2>1. /\ UNCHANGED <<users, indexed, saved, daily, events, boot, luckless, Registered>>
        /\ pc[r] = "flush" /\ boot = "up" /\ (Answers \/ Errs)
        /\ \/ locked' = FALSE /\ pc' = [pc EXCEPT ![r] = "seedUsers"]
           \/ /\ locked' = FALSE \/ locked' = locked
              /\ pc' = [pc EXCEPT ![r] = "failed"] /\ Errs
    BY <1>5 DEF Flush, Drops, Registered
  <2>2. faults' \in 0 .. MaxFaults /\ (faults' = 0 => faults = 0) /\ (Errs => faults' # 0)
    BY <2>1, Faulty
  <2>3. TypeOK'
    BY <1>2, <2>1, <2>2 DEF TypeOK
  <2>4. CASE pc' = [pc EXCEPT ![r] = "seedUsers"]  BY <1>2, <2>1, <2>2, <2>3, <2>4
  <2>5. CASE pc' = [pc EXCEPT ![r] = "failed"]     BY <1>2, <2>1, <2>2, <2>3, <2>5
  <2>6. QED  BY <2>1, <2>4, <2>5
<1>6. CASE Reseed(r)
  <2>1. boot = "up" /\ UNCHANGED <<locked, boot, luckless>>  BY <1>6 DEF Reseed
  <2>2. CASE pc[r] = "seedUsers"
    <3>1. PICK ok \in BOOLEAN :
            InsertUsers(ok) /\ pc' = [pc EXCEPT ![r] = IF ok THEN "seedDaily" ELSE "failed"]
      BY <1>6, <2>2 DEF Reseed
    <3>2. QED  BY <1>2, <2>1, <2>2, <3>1, SeedingUsers DEF TypeOK
  <2>3. CASE pc[r] = "seedDaily"
    <3>1. PICK ok \in BOOLEAN :
            InsertDaily(ok) /\ pc' = [pc EXCEPT ![r] = IF ok THEN "seedEvents" ELSE "failed"]
      BY <1>6, <2>3 DEF Reseed
    <3>2. QED  BY <1>2, <2>1, <2>3, <3>1, SeedingDaily DEF TypeOK, Registered
  <2>4. CASE pc[r] = "seedEvents"
    <3>1. PICK ok \in BOOLEAN :
            InsertEvents(ok) /\ pc' = [pc EXCEPT ![r] = IF ok THEN "ok" ELSE "failed"]
      BY <1>6, <2>4 DEF Reseed
    <3>2. QED  BY <1>2, <2>1, <2>4, <3>1, SeedingEvents DEF TypeOK, Registered
  <2>5. QED  BY <1>6, <2>2, <2>3, <2>4 DEF Reseed
<1>7. QED  BY <1>3, <1>4, <1>5, <1>6 DEF ResetActs

-----------------------------------------------------------------------------
(* The invariant is preserved, part by part.                               *)

LEMMA StepRegistered ==
  ASSUME TypeOK, IsFiniteSet(Registered), Next
  PROVE  /\ TypeOK' /\ IsFiniteSet(Registered')
         /\ \/ BootStep
            \/ \E r \in Award : AwardActs(r)
            \/ \E r \in Reset : ResetActs(r)
            \/ \E r \in Register : CreateBDA(r)
<1>1. \/ BootStep
      \/ \E r \in Award : AwardActs(r)
      \/ \E r \in Reset : ResetActs(r)
      \/ \E r \in Register : CreateBDA(r)
  BY DEF Next, BootStep, AwardActs, ResetActs
<1>2. CASE BootStep  BY <1>1, <1>2, BootTypes
<1>3. CASE \E r \in Award : AwardActs(r)  BY <1>1, <1>3, AwardMoves
<1>4. CASE \E r \in Reset : ResetActs(r)
  BY <1>1, <1>4, ResetMoves, FS_EmptySet
<1>5. CASE \E r \in Register : CreateBDA(r)
  BY <1>1, <1>5, RegisterMoves, FS_AddElement
<1>6. QED  BY <1>1, <1>2, <1>3, <1>4, <1>5

LEMMA StepGuarded == DemoInv /\ Next => EmailsGuarded'
<1> SUFFICES ASSUME DemoInv, Next
             PROVE  /\ indexed' => Cardinality(Registered') <= 1
                    /\ boot' \notin {"down", "index"} =>
                         indexed' \/ \E s \in Reset : pc'[s] \in Open
                    /\ ~(Cardinality(Registered') <= 1) => \E s \in Reset : pc'[s] \in Open
  BY DEF EmailsGuarded, Registered
<1>1. TypeOK /\ EmailsGuarded  BY DEF DemoInv
<1>2. CASE BootStep
  <2>1. \A s \in Reset : pc[s] \in Open => pc'[s] \in Open
    BY <1>1, <1>2, BootTypes DEF Request, Open
  <2>2. QED  BY <1>1, <1>2, <2>1, BootTypes DEF EmailsGuarded
<1>3. CASE \E r \in Award : AwardActs(r)
  <2>1. PICK r \in Award : AwardActs(r)  BY <1>3
  <2>2. \A s \in Reset : pc'[s] = pc[s]
    BY <1>1, <2>1, AwardMoves, DemoAssumption DEF DemoAssumption, Request
  <2>3. QED  BY <1>1, <2>1, <2>2, AwardMoves DEF EmailsGuarded
<1>4. CASE \E r \in Reset : ResetActs(r)
  <2>1. PICK r \in Reset : ResetActs(r)  BY <1>4
  <2>2. /\ boot = "up" /\ (Registered' = Registered \/ Registered' = {})
        /\ indexed' => Registered' = Registered /\ (indexed \/ Cardinality(Registered) <= 1)
        /\ indexed /\ ~indexed' => pc'[r] \in Open
        /\ pc[r] \in Open => pc'[r] \in Open \/ indexed'
        /\ \A s \in Reset \ {r} : pc'[s] = pc[s]
    BY <1>1, <2>1, ResetMoves DEF Request
  <2>3. indexed' \/ \E s \in Reset : pc'[s] \in Open
    <3>1. CASE indexed  BY <2>2, <3>1
    <3>2. CASE ~indexed
      <4>1. PICK s \in Reset : pc[s] \in Open  BY <1>1, <2>2, <3>2 DEF EmailsGuarded
      <4>2. QED  BY <2>2, <4>1
    <3>3. QED  BY <3>1, <3>2
  <2>4. indexed' => Cardinality(Registered') <= 1
    BY <1>1, <2>2 DEF EmailsGuarded
  <2>5. QED  BY <2>3, <2>4
<1>5. CASE \E r \in Register : CreateBDA(r)
  <2>1. PICK r \in Register : CreateBDA(r)  BY <1>5
  <2>2. \A s \in Reset : pc'[s] = pc[s]
    BY <1>1, <2>1, RegisterMoves, DemoAssumption DEF DemoAssumption, Request
  <2>3. /\ indexed' = indexed /\ boot' = boot /\ boot = "up"
        /\ Registered' = Registered \/ (Registered' = Registered \cup {r}
                                          /\ ~(indexed /\ Registered # {}))
    BY <1>1, <2>1, RegisterMoves
  <2>4. indexed => Cardinality(Registered') <= 1
    <3>1. CASE Registered' = Registered  BY <1>1, <3>1 DEF EmailsGuarded
    <3>2. CASE indexed /\ Registered' # Registered
      <4>1. Registered' = {r}  BY <2>3, <3>2
      <4>2. QED  BY <4>1, FS_Singleton
    <3>3. QED  BY <3>1, <3>2
  <2>5. indexed \/ \E s \in Reset : pc'[s] \in Open
    BY <1>1, <2>2, <2>3 DEF EmailsGuarded
  <2>6. QED  BY <2>2, <2>3, <2>4, <2>5
<1>6. QED  BY <1>1, <1>2, <1>3, <1>4, <1>5, StepRegistered DEF DemoInv

LEMMA StepSeeded == DemoInv /\ Next => SeededSoFar'
<1> SUFFICES ASSUME DemoInv, Next,
                    NEW r \in Reset, \A s \in Reset \ {r} : pc'[s] = "idle"
             PROVE  /\ pc'[r] \in {"seedDaily", "seedEvents", "ok"} => SeedUsers \subseteq users'
                    /\ pc'[r] \in {"seedEvents", "ok"} => SeedDaily \subseteq daily'
                    /\ pc'[r] = "ok" => SeedEvents \subseteq events'
  BY DEF SeededSoFar
<1>1. TypeOK /\ SeededSoFar  BY DEF DemoInv
<1>2. ASSUME \A s \in Reset \ {r} : pc[s] = "idle", pc'[r] = pc[r] \/ pc'[r] = "failed",
             users \subseteq users', daily \subseteq daily', events \subseteq events'
      PROVE  /\ pc'[r] \in {"seedDaily", "seedEvents", "ok"} => SeedUsers \subseteq users'
             /\ pc'[r] \in {"seedEvents", "ok"} => SeedDaily \subseteq daily'
             /\ pc'[r] = "ok" => SeedEvents \subseteq events'
  BY <1>1, <1>2 DEF SeededSoFar
<1>3. CASE BootStep
  <2>1. \A s \in Reset \ {r} : pc[s] = "idle"
    BY <1>1, <1>3, BootTypes DEF Request
  <2>2. pc'[r] = pc[r] \/ pc'[r] = "failed"
    BY <1>1, <1>3, BootTypes DEF Request
  <2>3. QED  BY <1>1, <1>2, <1>3, <2>1, <2>2, BootTypes
<1>4. CASE \E a \in Award : AwardActs(a)
  <2>1. PICK a \in Award : AwardActs(a)  BY <1>4
  <2>2. \A s \in Reset : pc'[s] = pc[s]
    BY <1>1, <2>1, AwardMoves, DemoAssumption DEF DemoAssumption, Request
  <2>3. QED  BY <1>1, <1>2, <2>1, <2>2, AwardMoves
<1>5. CASE \E a \in Register : CreateBDA(a)
  <2>1. PICK a \in Register : CreateBDA(a)  BY <1>5
  <2>2. \A s \in Reset : pc'[s] = pc[s]
    BY <1>1, <2>1, RegisterMoves, DemoAssumption DEF DemoAssumption, Request
  <2>3. users \subseteq users' /\ UNCHANGED <<daily, events>>
    BY <1>1, <2>1, RegisterMoves
  <2>4. QED  BY <1>2, <2>2, <2>3
<1>6. CASE \E s \in Reset : ResetActs(s)
  <2>1. PICK s \in Reset : ResetActs(s)  BY <1>6
  <2>2. s = r  BY <1>1, <2>1, ResetMoves DEF ResetStep
  <2>3. \A q \in Reset \ {r} : pc[q] = "idle"
    BY <1>1, <2>1, <2>2, ResetMoves DEF Request
  <2>4. /\ pc[r] \in {"seedDaily", "seedEvents"} => SeedUsers \subseteq users
        /\ pc[r] = "seedEvents" => SeedDaily \subseteq daily
    BY <1>1, <2>3 DEF SeededSoFar
  <2>5. QED  BY <1>1, <2>1, <2>2, <2>4, ResetMoves
<1>7. QED  BY <1>1, <1>3, <1>4, <1>5, <1>6, StepRegistered DEF DemoInv

LEMMA StepLocked == DemoInv /\ Next => LockBacked'
<1> DEFINE Gets(r) == \/ pc[r] \in {"insert", "release"}
                      \/ pc[r] = "rollup" /\ "login" \in events
           Awarded == "login" \in events /\ "credit" \in daily
<1> SUFFICES ASSUME DemoInv, Next, faults' = 0, locked', Cardinality(Registered') <= 1,
                    \A r \in Reset : pc'[r] \notin Wiping
             PROVE  Awarded' \/ \E r \in Award : Gets(r)'
  BY DEF LockBacked
<1>1. TypeOK /\ LockBacked /\ IsFiniteSet(Registered) /\ Cardinality(Registered) \in Nat
  BY FS_CardinalityType DEF DemoInv
<1>2. (faults = 0 /\ locked /\ Cardinality(Registered) <= 1 /\ \A r \in Reset : pc[r] \notin Wiping)
        => Awarded \/ \E r \in Award : Gets(r)
  BY <1>1 DEF LockBacked
<1>3. ASSUME \A r \in Award : pc'[r] = pc[r], daily \subseteq daily', events \subseteq events',
             faults = 0, locked, Cardinality(Registered) <= 1, \A r \in Reset : pc[r] \notin Wiping
      PROVE  Awarded' \/ \E r \in Award : Gets(r)'
  BY <1>2, <1>3
<1>4. CASE BootStep
  <2>1. pc' = pc /\ faults = 0  BY <1>1, <1>4, BootTypes
  <2>2. QED  BY <1>1, <1>3, <1>4, <2>1, BootTypes
<1>5. CASE \E r \in Register : CreateBDA(r)
  <2>1. PICK r \in Register : CreateBDA(r)  BY <1>5
  <2>2. \A s \in Reset \cup Award : pc'[s] = pc[s]
    BY <1>1, <2>1, RegisterMoves, DemoAssumption DEF DemoAssumption, Request
  <2>3. Cardinality(Registered) <= 1
    <3>1. CASE Registered' = Registered  BY <3>1
    <3>2. CASE Registered' = Registered \cup {r}
      <4>1. Cardinality(Registered \cup {r})
              = IF r \in Registered THEN Cardinality(Registered) ELSE Cardinality(Registered) + 1
        BY <1>1, FS_AddElement
      <4>2. QED  BY <1>1, <3>2, <4>1
    <3>3. QED  BY <1>1, <2>1, <3>1, <3>2, RegisterMoves
  <2>4. faults = 0 /\ locked /\ UNCHANGED <<daily, events>>
    BY <1>1, <2>1, RegisterMoves
  <2>5. QED  BY <1>3, <2>2, <2>3, <2>4
<1>6. CASE \E r \in Reset : ResetActs(r)
  <2>1. PICK r \in Reset : ResetActs(r)  BY <1>6
  <2>2. \A a \in Award : pc'[a] = pc[a]
    BY <1>1, <2>1, ResetMoves, DemoAssumption DEF DemoAssumption, Request
  <2>3. pc[r] \notin Wiping \cup {"dropUsers"}
    BY <1>1, <2>1, ResetMoves DEF Wiping
  <2>4. \A s \in Reset : pc[s] \notin Wiping
    BY <1>1, <2>1, <2>3, ResetMoves DEF Request
  <2>5. /\ daily \subseteq daily' /\ events \subseteq events' /\ faults = 0 /\ locked
        /\ Registered' = Registered
    BY <1>1, <2>1, <2>3, ResetMoves DEF Wiping
  <2>6. QED  BY <1>3, <2>2, <2>4, <2>5
<1>7. CASE \E r \in Award : AwardActs(r)
  <2>1. PICK r \in Award : AwardActs(r)  BY <1>7
  <2>2. /\ \A s \in Reset : pc'[s] = pc[s]
        /\ \A a \in Award \ {r} : pc'[a] = pc[a]
    BY <1>1, <2>1, AwardMoves, DemoAssumption DEF DemoAssumption, Request
  <2>3. /\ daily \subseteq daily' /\ events \subseteq events' /\ faults = 0
        /\ Registered' = Registered
    BY <1>1, <2>1, AwardMoves
  <2>4. locked => Awarded \/ \E a \in Award : Gets(a)
    BY <1>2, <2>2, <2>3
  <2>5. Awarded => Awarded'  BY <2>3
  <2>6. \A a \in Award \ {r} : Gets(a) => Gets(a)'  BY <2>2, <2>3
  <2>7. r \in Request /\ pc \in [Request -> {"idle", "ok", "told", "denied", "refused", "failed"}
                                               \cup ResetStep \cup AwardStep]
    BY <1>1 DEF TypeOK, Request
  <2>8. CASE LogIn(r)
    <3>1. pc[r] = "idle" /\ locked  BY <2>8 DEF LogIn, At
    <3>2. QED  BY <2>4, <2>5, <2>6, <3>1
  <2>9. CASE ClaimDay(r)
    <3>1. CASE pc[r] = "lock"
      BY <2>4, <2>5, <2>6, <2>7, <2>9, <3>1 DEF ClaimDay, At, Goto
    <3>2. CASE pc[r] = "reread"
      BY <2>4, <2>5, <2>6, <2>7, <2>9, <3>2 DEF ClaimDay, At, Goto
    <3>3. pc[r] # "release"
      BY <2>9 DEF ClaimDay, At
    <3>4. QED  BY <2>9, <3>1, <3>2, <3>3 DEF ClaimDay, At
  <2>10. CASE AwardDay(r)
    <3>1. locked  BY <2>10 DEF AwardDay
    <3>2. CASE pc[r] = "insert"
      BY <2>7, <2>10, <3>2 DEF AwardDay, At, Goto
    <3>3. CASE pc[r] = "rollup"
      <4>1. "credit" \in daily' /\ events' = events  BY <2>10, <3>3 DEF AwardDay, At
      <4>2. QED  BY <2>4, <2>5, <2>6, <3>1, <3>3, <4>1
    <3>4. CASE pc[r] = "streak"
      BY <2>4, <2>5, <2>6, <3>1, <3>4
    <3>5. QED  BY <2>10, <3>2, <3>3, <3>4 DEF AwardDay, At
  <2>11. QED  BY <2>1, <2>8, <2>9, <2>10 DEF AwardActs
<1>8. QED  BY <1>1, <1>4, <1>5, <1>6, <1>7, StepRegistered

LEMMA StepLucky == DemoInv /\ Next => LuckReturns'
<1> SUFFICES ASSUME DemoInv, Next PROVE LuckReturns'  OBVIOUS
<1>1. TypeOK /\ LuckReturns  BY DEF DemoInv
<1> USE DEF LuckReturns
<1>2. CASE \E r \in Award : AwardActs(r)
  BY <1>1, <1>2, AwardMoves
<1>3. CASE \E r \in Reset : ResetActs(r)
  BY <1>1, <1>3, ResetMoves
<1>4. CASE \E r \in Register : CreateBDA(r)
  BY <1>1, <1>4, RegisterMoves
<1>5. CASE BootStep
  <2> USE DEF mongoVars
  <2>1. CASE Start
    BY <1>1, <2>1 DEF Start, Registered
  <2>2. CASE OpenStore
    <3>1. PICK ok \in BOOLEAN : EnsureIndexes(ok) /\ BootDone("count", ok)
      BY <2>2 DEF OpenStore
    <3>2. /\ UNCHANGED <<users, Registered>>
          /\ (~ok /\ faults' = faults => ~(Cardinality(Registered) <= 1))
      BY <1>1, <3>1, Indexing DEF Registered
    <3>3. users = {} => Registered = {} /\ Cardinality(Registered) <= 1
      BY FS_EmptySet DEF Registered
    <3>4. CASE ok
      <4>1. luckless' = luckless /\ boot' = "count"  BY <3>1, <3>4 DEF BootDone
      <4>2. QED  BY <1>1, <2>2, <3>2, <4>1 DEF OpenStore
    <3>5. CASE ~ok
      <4>1. boot' = "down" /\ (luckless' = 0 \/ faults' = faults)
        BY <3>1, <3>5 DEF BootDone
      <4>2. QED  BY <1>1, <3>2, <3>3, <3>5, <4>1
    <3>6. QED  BY <3>4, <3>5
  <2>3. CASE CountUsers
    BY <1>1, <2>3 DEF CountUsers, Registered
  <2>4. CASE BootSeeds
    <3>1. PICK ok \in BOOLEAN :
            \/ boot = "seedUsers"  /\ InsertUsers(ok)  /\ BootDone("seedDaily", ok)
            \/ boot = "seedDaily"  /\ InsertDaily(ok)  /\ BootDone("seedEvents", ok)
            \/ boot = "seedEvents" /\ InsertEvents(ok) /\ BootDone("up", ok)
      BY <2>4 DEF BootSeeds
    <3>2. luckless = 0  BY <1>1, <3>1 DEF TypeOK
    <3>3. CASE boot = "seedUsers"
      <4>1. InsertUsers(ok) /\ BootDone("seedDaily", ok)  BY <3>1, <3>3
      <4>2. /\ ok => users' # {}
            /\ ~ok /\ faults' = faults => users' # {}
        BY <1>1, <4>1, SeedingUsers DEF SeedUsers
      <4>3. /\ boot' \in {"seedDaily", "down"} /\ (boot' = "seedDaily" <=> ok)
            /\ luckless' \in {0, 1} /\ (luckless' = 1 => ~ok /\ faults' = faults)
        BY <3>2, <4>1 DEF BootDone
      <4>4. QED  BY <4>2, <4>3
    <3>4. CASE boot \in {"seedDaily", "seedEvents"}
      <4>1. users' = users /\ users # {}
        BY <1>1, <3>1, <3>4, SeedingDaily, SeedingEvents
      <4>2. /\ boot' \in {"seedEvents", "up", "down"}
            /\ luckless' \in {0, 1} /\ (luckless' = 1 => boot' = "down")
        BY <3>1, <3>2, <3>4 DEF BootDone
      <4>3. QED  BY <4>1, <4>2
    <3>5. QED  BY <3>1, <3>3, <3>4
  <2>5. CASE Crash
    BY <1>1, <2>5 DEF Crash
  <2>6. QED  BY <1>5, <2>1, <2>2, <2>3, <2>4, <2>5 DEF BootStep
<1>6. QED  BY <1>1, <1>2, <1>3, <1>4, <1>5, StepRegistered DEF DemoInv

LEMMA NextDemoInv == DemoInv /\ [Next]_vars => DemoInv'
<1> SUFFICES ASSUME DemoInv, [Next]_vars PROVE DemoInv'  OBVIOUS
<1>1. CASE Next
  <2>1. TypeOK' /\ IsFiniteSet(Registered')
    BY <1>1, StepRegistered DEF DemoInv
  <2>2. QED
    BY <1>1, <2>1, StepGuarded, StepSeeded, StepLocked, StepLucky DEF DemoInv
<1>2. CASE UNCHANGED vars
  BY <1>2
  DEF vars, mongoVars, DemoInv, TypeOK, Registered, EmailsGuarded, SeededSoFar, LockBacked,
      LuckReturns
<1>3. QED  BY <1>1, <1>2

\* The inductive invariant of starts, resets, logins and registrations.
THEOREM DemoInvariant == Spec => []DemoInv
BY InitDemoInv, NextDemoInv, PTL DEF Spec

-----------------------------------------------------------------------------
(* What follows.                                                           *)

\* However starts and resets break off, the collections and requests keep their types.
THEOREM DemoTypes == Spec => []TypeOK
<1>1. DemoInv => TypeOK  BY DEF DemoInv
<1>2. QED  BY <1>1, DemoInvariant, PTL

\* A reset that answered 200, alone of its kind, left the whole history, whatever broken
\* starts had left and whatever was written meanwhile.
THEOREM ResetLeavesHistory == Spec => []ResetReseeds
<1>1. DemoInv => ResetReseeds
  BY DEF DemoInv, SeededSoFar, ResetReseeds, History
<1>2. QED  BY <1>1, DemoInvariant, PTL

\* Without faults no lock outlives its award, however resets and logins overlap.
THEOREM LocksMeanAwards == Spec => []LockMeansAward
<1>1. DemoInv => LockMeansAward
  BY DEF DemoInv, LockBacked, LockMeansAward, Wiping, ResetStep, Holder
<1>2. QED  BY <1>1, DemoInvariant, PTL

\* Two accounts share an email only while a reset has taken the index away and not built
\* it again; with the index there are none, and crashes, starts and resets keep it so.
THEOREM EmailsStayUnique == Spec => []EmailsAreUnique
<1>1. DemoInv => EmailsAreUnique
  BY DEF DemoInv, EmailsGuarded, EmailsAreUnique, Open
<1>2. QED  BY <1>1, DemoInvariant, PTL

\* No remains of a broken start or reset stop two starts in a row.
THEOREM StartsRecover == Spec => []OneLucklessStart
<1>1. DemoInv => OneLucklessStart
  BY DEF DemoInv, TypeOK, LuckReturns, OneLucklessStart
<1>2. QED  BY <1>1, DemoInvariant, PTL

===============================================================================
