-------------------------------- MODULE Demo --------------------------------
(***************************************************************************)
(* Start-up, seeding and the demo reset: cmd/server, internal/seed and     *)
(* Service.ResetDemo, with one associate's logins of the day and           *)
(* registrations of new associates under one email running while a reset   *)
(* does.                                                                   *)
(*                                                                         *)
(* The reset drops three collections, builds their indexes, flushes Redis  *)
(* and seeds the collections, one call after the other; a start builds the *)
(* indexes too, and seeds if it finds no users.  A collection is the set   *)
(* of documents it holds, two stand for a batch.  The process may be       *)
(* killed anywhere.                                                        *)
(***************************************************************************)
EXTENDS Integers, FiniteSets

CONSTANTS
  Reset,       \* POST /api/demo/reset requests
  Award,       \* the associate's login requests of the day
  Register,    \* POST /api/bda requests, and the accounts they add: all of one email
  MaxFaults    \* bound: calls that fail and processes that are killed

Request   == Reset \cup Award \cup Register
SeedUsers == {"bdm", "bda"}

ASSUME DemoAssumption ==
  /\ Reset \cap Award = {} /\ (Reset \cup Award) \cap Register = {}
  /\ SeedUsers \cap Register = {}
  /\ MaxFaults \in Nat

VARIABLES
  users,    \* users collection
  indexed,  \* it has its unique index on email
  saved,    \* the associate's document shows the login of today
  daily,    \* daily_activity: "past", "today" and the "credit" of today's login
  events,   \* events: the seeded "history" and today's "login"
  locked,   \* Redis key login:<associate>:<today>
  boot,     \* where the process is: "down", a step of main, or "up"
  luckless, \* starts in a row that failed although no call of theirs did, up to 2
  pc,       \* where each request is
  faults    \* calls failed and processes killed so far

mongoVars == <<users, indexed, saved, daily, events>>
vars      == <<mongoVars, locked, boot, luckless, pc, faults>>

SeedDaily  == {"past", "today"}
SeedEvents == {"history"}

ResetStep == {"dropUsers", "dropDaily", "dropEvents", "index", "flush",
              "seedUsers", "seedDaily", "seedEvents"}
Holder    == {"insert", "release", "rollup", "streak"}
AwardStep == {"lock", "reread"} \cup Holder

TypeOK ==
  /\ users  \in SUBSET (SeedUsers \cup Register) /\ indexed \in BOOLEAN /\ saved \in BOOLEAN
  /\ saved => "bda" \in users
  /\ daily  \in SUBSET (SeedDaily \cup {"credit"})
  /\ events \in SUBSET (SeedEvents \cup {"login"})
  /\ locked \in BOOLEAN
  /\ boot   \in {"down", "index", "count", "seedUsers", "seedDaily", "seedEvents", "up"}
  /\ luckless \in 0 .. 2
  /\ pc \in [Request -> {"idle", "ok", "told", "denied", "refused", "failed"}
                           \cup ResetStep \cup AwardStep]
  /\ faults \in 0 .. MaxFaults

Answers == UNCHANGED faults
Errs    == faults < MaxFaults /\ faults' = faults + 1

At(r, label)   == boot = "up" /\ pc[r] = label
Goto(r, label) == pc' = [pc EXCEPT ![r] = label]

-----------------------------------------------------------------------------
(* seed.Run: three batches, of which ok tells how each ended.              *)

\* Ordered: the batch stops at the first document that is there already.
InsertUsers(ok) ==
  /\ LET fresh == users \cap SeedUsers = {} IN
     \/ ok /\ fresh /\ users' = users \cup SeedUsers /\ Answers
     \/ ~ok /\ ~fresh /\ UNCHANGED users /\ Answers
     \/ ~ok /\ Errs /\ users' \in {users \cup part : part \in
                                   IF fresh THEN {{}, {"bdm"}, SeedUsers} ELSE {{}}}
  /\ UNCHANGED <<indexed, saved, daily, events>>

\* Unordered: whatever is not there yet is inserted, and a duplicate is an error.
InsertDaily(ok) ==
  /\ \/ /\ ok = (daily \cap SeedDaily = {})
        /\ daily' = daily \cup SeedDaily /\ Answers
     \/ /\ ~ok /\ Errs
        /\ \E part \in SUBSET SeedDaily : daily' = daily \cup part
  /\ UNCHANGED <<users, indexed, saved, events>>

InsertEvents(ok) ==
  /\ \/ /\ ok = (events \cap SeedEvents = {})
        /\ events' = events \cup SeedEvents /\ Answers
     \/ /\ ~ok /\ Errs
        /\ \E part \in SUBSET SeedEvents : events' = events \cup part
  /\ UNCHANGED <<users, indexed, saved, daily>>

\* ensureIndexes: the index on email cannot be built over two accounts with one email.
Registered == users \cap Register

EnsureIndexes(ok) ==
  /\ \/ /\ ok = (indexed \/ Cardinality(Registered) <= 1)
        /\ indexed' = ok /\ Answers
     \/ /\ ~ok /\ Errs
        /\ indexed' \in {indexed, indexed \/ Cardinality(Registered) <= 1}
  /\ UNCHANGED <<users, saved, daily, events>>

-----------------------------------------------------------------------------
(* main.                                                                   *)

Start ==
  /\ boot = "down" /\ boot' = "index"
  /\ UNCHANGED <<mongoVars, locked, luckless, pc, faults>>

\* The next step of the start, or exit code 1.
BootDone(label, ok) ==
  /\ boot' = IF ok THEN label ELSE "down"
  /\ luckless' = CASE ok /\ label # "up" -> luckless
                   [] ~ok /\ faults' = faults -> IF luckless < 2 THEN luckless + 1 ELSE 2
                   [] OTHER -> 0

\* store.New.
OpenStore ==
  /\ boot = "index"
  /\ \E ok \in BOOLEAN : EnsureIndexes(ok) /\ BootDone("count", ok)
  /\ UNCHANGED <<locked, pc>>

\* A slip: a start seeds whatever collection is short of its documents.
CountRollups ==
  /\ boot = "count"
  /\ \/ /\ boot' = IF SeedDaily \subseteq daily THEN "up" ELSE "seedUsers"
        /\ luckless' = IF boot' = "up" THEN 0 ELSE luckless
        /\ Answers
     \/ boot' = "down" /\ luckless' = 0 /\ Errs
  /\ UNCHANGED <<mongoVars, locked, pc>>

CountUsers ==
  /\ boot = "count"
  /\ \/ /\ boot' = IF users = {} THEN "seedUsers" ELSE "up"
        /\ luckless' = IF boot' = "up" THEN 0 ELSE luckless
        /\ Answers
     \/ boot' = "down" /\ luckless' = 0 /\ Errs
  /\ UNCHANGED <<mongoVars, locked, pc>>

BootSeeds ==
  /\ \E ok \in BOOLEAN :
       \/ boot = "seedUsers"  /\ InsertUsers(ok)  /\ BootDone("seedDaily", ok)
       \/ boot = "seedDaily"  /\ InsertDaily(ok)  /\ BootDone("seedEvents", ok)
       \/ boot = "seedEvents" /\ InsertEvents(ok) /\ BootDone("up", ok)
  /\ UNCHANGED <<locked, pc>>

\* The process is killed, and every request it serves with it.
Crash ==
  /\ boot # "down" /\ boot' = "down" /\ luckless' = 0 /\ Errs
  /\ pc' = [r \in Request |->
              IF pc[r] \in ResetStep \cup AwardStep THEN "failed" ELSE pc[r]]
  /\ UNCHANGED <<mongoVars, locked>>

-----------------------------------------------------------------------------
(* ResetDemo.                                                              *)

Ask(r) ==
  /\ At(r, "idle") /\ Goto(r, "dropUsers")
  /\ UNCHANGED <<mongoVars, locked, boot, luckless, faults>>

\* The call after which r goes on to label, unless it failed, applied or not.
Drops(r, label, applied, kept) ==
  \/ applied /\ Goto(r, label) /\ Answers
  \/ (applied \/ kept) /\ Goto(r, "failed") /\ Errs

\* A slip: the indexes are left to the next start.
RebuildLater(r) == At(r, "index") /\ Goto(r, "flush") /\ UNCHANGED <<mongoVars, faults>>

Rebuild(r) ==
  /\ At(r, "index")
  /\ \E ok \in BOOLEAN : EnsureIndexes(ok) /\ Goto(r, IF ok THEN "flush" ELSE "failed")

Wipe(r) ==
  /\ \/ /\ At(r, "dropUsers")
        /\ Drops(r, "dropDaily", users' = {} /\ indexed' = FALSE /\ saved' = FALSE,
                                UNCHANGED <<users, indexed, saved>>)
        /\ UNCHANGED <<daily, events>>
     \/ /\ At(r, "dropDaily")
        /\ Drops(r, "dropEvents", daily' = {}, UNCHANGED daily)
        /\ UNCHANGED <<users, indexed, saved, events>>
     \/ /\ At(r, "dropEvents")
        /\ Drops(r, "index", events' = {}, UNCHANGED events)
        /\ UNCHANGED <<users, indexed, saved, daily>>
     \/ Rebuild(r)
  /\ UNCHANGED <<locked, boot, luckless>>

\* A slip: only the keys of the read cache are deleted.
FlushCacheOnly(r) ==
  /\ At(r, "flush") /\ Goto(r, "seedUsers")
  /\ UNCHANGED <<mongoVars, locked, boot, luckless, faults>>

Flush(r) ==
  /\ At(r, "flush")
  /\ Drops(r, "seedUsers", locked' = FALSE, UNCHANGED locked)
  /\ UNCHANGED <<mongoVars, boot, luckless>>

\* A slip: what goes wrong is logged, and the seeding goes on.
ReseedUnchecked(r) ==
  /\ \E ok \in BOOLEAN :
       \/ At(r, "seedUsers")  /\ InsertUsers(ok)  /\ Goto(r, "seedDaily")
       \/ At(r, "seedDaily")  /\ InsertDaily(ok)  /\ Goto(r, "seedEvents")
       \/ At(r, "seedEvents") /\ InsertEvents(ok) /\ Goto(r, "ok")
  /\ UNCHANGED <<locked, boot, luckless>>

Reseed(r) ==
  /\ \E ok \in BOOLEAN :
       \/ At(r, "seedUsers")  /\ InsertUsers(ok)  /\ Goto(r, IF ok THEN "seedDaily" ELSE "failed")
       \/ At(r, "seedDaily")  /\ InsertDaily(ok)  /\ Goto(r, IF ok THEN "seedEvents" ELSE "failed")
       \/ At(r, "seedEvents") /\ InsertEvents(ok) /\ Goto(r, IF ok THEN "ok" ELSE "failed")
  /\ UNCHANGED <<locked, boot, luckless>>

-----------------------------------------------------------------------------
(* Login and recordLogin of the associate, on one day and without faults   *)
(* of their own: module Login has those.                                   *)

LogIn(r) ==
  /\ At(r, "idle")
  /\ Goto(r, IF "bda" \notin users THEN "denied" ELSE IF saved THEN "told" ELSE "lock")
  /\ UNCHANGED <<mongoVars, locked, boot, luckless, faults>>

ClaimDay(r) ==
  /\ \/ At(r, "lock") /\ Goto(r, IF locked THEN "reread" ELSE "insert") /\ locked' = TRUE
     \/ At(r, "reread") /\ Goto(r, IF "bda" \in users THEN "told" ELSE "failed")
                        /\ UNCHANGED locked
     \/ At(r, "release") /\ Goto(r, "failed") /\ locked' = FALSE
  /\ UNCHANGED <<mongoVars, boot, luckless, faults>>

\* A slip: the update is an upsert, like that of the rollups.
UpsertStreak == saved' = TRUE

\* UpdateByID finds nobody to update when the users are dropped, and says nothing.
UpdateUserStreak == saved' = ("bda" \in users)

AwardDay(r) ==
  /\ \/ /\ At(r, "insert")
        /\ Goto(r, IF "login" \in events THEN "release" ELSE "rollup")
        /\ events' = events \cup {"login"}
        /\ UNCHANGED <<users, indexed, saved, daily>>
     \/ /\ At(r, "rollup") /\ Goto(r, "streak")
        /\ daily' = daily \cup {"today", "credit"}
        /\ UNCHANGED <<users, indexed, saved, events>>
     \/ /\ At(r, "streak") /\ Goto(r, "told")
        /\ UpdateUserStreak
        /\ UNCHANGED <<users, indexed, daily, events>>
  /\ UNCHANGED <<locked, boot, luckless, faults>>

-----------------------------------------------------------------------------
(* CreateBDA.                                                              *)

\* InsertUser: the index rejects a second account with the email.
CreateBDA(r) ==
  /\ At(r, "idle")
  /\ LET taken == indexed /\ Registered # {} IN
     \/ ~taken /\ users' = users \cup {r} /\ Goto(r, "ok") /\ Answers
     \/ taken /\ UNCHANGED users /\ Goto(r, "refused") /\ Answers
     \/ users' \in {users, IF taken THEN users ELSE users \cup {r}} /\ Goto(r, "failed") /\ Errs
  /\ UNCHANGED <<indexed, saved, daily, events, locked, boot, luckless>>

-----------------------------------------------------------------------------

\* First start: empty stores.
Init ==
  /\ users = {} /\ indexed = FALSE /\ saved = FALSE /\ daily = {} /\ events = {} /\ locked = FALSE
  /\ boot = "down" /\ luckless = 0 /\ faults = 0
  /\ pc = [r \in Request |-> "idle"]

Next ==
  \/ Start \/ OpenStore \/ CountUsers \/ BootSeeds \/ Crash
  \/ \E r \in Reset : Ask(r) \/ Wipe(r) \/ Flush(r) \/ Reseed(r)
  \/ \E r \in Award : LogIn(r) \/ ClaimDay(r) \/ AwardDay(r)
  \/ \E r \in Register : CreateBDA(r)

Spec == Init /\ [][Next]_vars

-----------------------------------------------------------------------------
(* Properties.                                                             *)

History == SeedUsers \subseteq users /\ SeedDaily \subseteq daily /\ SeedEvents \subseteq events

\* "wipe + reseed": a reset that answered 200 left the whole demo history, whatever
\* was left by broken starts and written by logins before and during it, unless
\* another reset began.
ResetReseeds ==
  \A r \in Reset : pc[r] = "ok" /\ (\A s \in Reset \ {r} : pc[s] = "idle") => History

\* No award is lost to a reset: with the stores up and no reset running, a day's
\* lock that nobody works under has its event and its points.  (A reset that finds two
\* accounts of one email fails between dropping the awards and flushing the locks.)
LockMeansAward ==
  faults = 0 /\ locked /\ Cardinality(Registered) <= 1
    /\ (\A r \in Award : pc[r] \notin Holder) /\ (\A r \in Reset : pc[r] \notin ResetStep)
  => "login" \in events /\ "credit" \in daily

\* "rejecting a duplicate email": two accounts have one email only while a reset that
\* dropped the collection has not built its index again, or broke off before it did.  Once
\* the index stands there are no such two, whatever crashes and resets came before.
EmailsAreUnique ==
  \/ Cardinality(Registered) <= 1
  \/ ~indexed /\ \E s \in Reset : pc[s] \in {"dropDaily", "dropEvents", "index", "failed"}

\* What a crash leaves behind spoils one start at most, and nobody has to clean up: the
\* next one finds users and serves.  Only two accounts of one email stop every start.
OneLucklessStart == Cardinality(Registered) <= 1 => luckless <= 1

=============================================================================
