------------------------------- MODULE Stores -------------------------------
(***************************************************************************)
(* What the request handlers of internal/service share: the MongoDB        *)
(* collections of internal/store, the Redis counter that versions the read *)
(* cache, the calendar, and how a call to one of the stores can go wrong.  *)
(*                                                                         *)
(* Every store call is one atomic step, as MongoDB (one document) and      *)
(* Redis (one command) make it.  A date key is the number of the day; an   *)
(* event's _id is the fields it is formatted from.                         *)
(***************************************************************************)
EXTENDS Rules

CONSTANTS
  BDA,         \* user ids with role "BDA"
  BDM,         \* user ids with role "BDM"
  LeadReq,     \* requests that may stamp a lead event with their own instant
  SeedStreak,  \* streaks the seeded associates may have reached on day 0
  MaxDay,      \* bound: the last day of the calendar
  MaxFaults    \* bound: how many calls fail and handlers die

ASSUME StoresAssumption ==
  /\ BDA \cap BDM = {}
  /\ SeedStreak \subseteq Nat \ {0}
  /\ MaxDay \in Nat \ {0}
  /\ MaxFaults \in Nat

VARIABLES
  users,   \* users collection: the streak fields of every account
  daily,   \* daily_activity collection: one rollup per BDA and day
  events,  \* events collection: the points ledger
  ver,     \* Redis cache:ver
  today,   \* the calendar day of the server's clock
  faults   \* calls failed and handlers died so far

storeVars == <<users, daily, events, ver, today, faults>>

Account == BDA \cup BDM
Day     == 0 .. MaxDay
Never   == -1                      \* lastLoginDate "": no login yet

User  == [current : Nat, best : Nat, last : Day \cup {Never}]
Daily == [loggedIn : BOOLEAN, streakDay : Nat, calls : Nat, callMinutes : Nat,
          leadsWon : Nat, leadsDropped : Nat, points : Int,
          loginPoints : Nat, leadPoints : Nat, penaltyPoints : Int]

\* The instant in an event's _id: a login has none, a seeded lead has its number among
\* those of its day and outcome instead, a lead for an earlier day is stamped noon, a
\* lead for today the nanosecond its own request read.
SeedStamp == {"seed1", "seed2", "seed3", "seed4", "seed5"}
Stamp     == {"none", "noon"} \cup SeedStamp \cup LeadReq
Event == [bda : BDA, date : Day, type : {"LOGIN", "LEAD_WON", "LEAD_DROPPED"},
          stamp : Stamp, points : Int, streak : Nat]

StoresTypeOK ==
  /\ users  \in [Account -> User]
  /\ daily  \in [BDA \X Day -> Daily]
  /\ events \in SUBSET Event
  /\ ver    \in Nat
  /\ today  \in Day
  /\ faults \in 0 .. MaxFaults

-----------------------------------------------------------------------------
(* The store operations: their effect when they are applied.               *)

EventTaken(e) ==
  \E f \in events : f.bda = e.bda /\ f.date = e.date
                    /\ f.type = e.type /\ f.stamp = e.stamp

\* A slip: no unique index on _id.
InsertAnyEvent(e) == events' = events \cup {e}

\* InsertOne: the unique index on _id rejects a second event with e's id.
InsertEvent(e) == ~EventTaken(e) /\ events' = events \cup {e}

\* UpdateByID with upsert: $inc and $set on the rollup in one atomic update.
UpsertDaily(b, d, doc) == daily' = [daily EXCEPT ![<<b, d>>] = doc]

UpdateUserStreak(a, current, best, last) ==
  users' = [users EXCEPT ![a] = [current |-> current, best |-> best, last |-> last]]

Invalidate == ver' = ver + 1

-----------------------------------------------------------------------------
(* How a call ends: as its effect says, or with an error, of which there   *)
(* are at most MaxFaults.                                                  *)

Answers == UNCHANGED faults
Errs    == faults < MaxFaults /\ faults' = faults + 1

-----------------------------------------------------------------------------
(* Initial contents: an associate is new (CreateBDA) or seeded with a      *)
(* login on day 0 at some streak, and the model starts on day 1.           *)

EmptyDay == [loggedIn |-> FALSE, streakDay |-> 0, calls |-> 0, callMinutes |-> 0,
             leadsWon |-> 0, leadsDropped |-> 0, points |-> 0,
             loginPoints |-> 0, leadPoints |-> 0, penaltyPoints |-> 0]

\* A slip: the day is marked but loginPoints and points are not incremented.
MarkedDay(doc, s) == [doc EXCEPT !.loggedIn = TRUE, !.streakDay = s]

LoginDay(doc, s) ==
  [doc EXCEPT !.loggedIn = TRUE, !.streakDay = s,
              !.loginPoints = @ + LoginPoints(s), !.points = @ + LoginPoints(s)]

LoginEvent(b, d, s) ==
  [bda |-> b, date |-> d, type |-> "LOGIN", stamp |-> "none",
   points |-> LoginPoints(s), streak |-> s]

SeededWith(h) ==
  /\ users  = [a \in Account |->
                 IF a \in BDA /\ h[a] > 0
                 THEN [current |-> h[a], best |-> h[a], last |-> 0]
                 ELSE [current |-> 0, best |-> 0, last |-> Never]]
  /\ daily  = [k \in BDA \X Day |->
                 IF k[2] = 0 /\ h[k[1]] > 0 THEN LoginDay(EmptyDay, h[k[1]])
                                            ELSE EmptyDay]
  /\ events = {LoginEvent(b, 0, h[b]) : b \in {c \in BDA : h[c] > 0}}

StoresInit ==
  /\ \E h \in [BDA -> SeedStreak \cup {0}] : SeededWith(h)
  /\ ver = 0
  /\ today = 1
  /\ faults = 0

=============================================================================
