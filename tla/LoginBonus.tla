------------------------------ MODULE LoginBonus ------------------------------
(***************************************************************************)
(* What recordLogin promises, whatever fails and however requests overlap: *)
(* an associate's login bonus for a day is posted to the ledger at most    *)
(* once, is credited to the day's rollup only after it was posted, and is  *)
(* credited at most once, for the posted amount.  Neither is ever taken    *)
(* back.                                                                   *)
(***************************************************************************)
EXTENDS Rules

CONSTANTS BDA, Day

VARIABLES
  posted,    \* ledger entries: a set of [bda, date, points]
  credited   \* login points in the rollup of each BDA and day

bonusVars == <<posted, credited>>

\* The amounts LoginPoints can award: day 11 of a streak reaches the cap.
Amount  == {LoginPoints(n) : n \in 1 .. 11}
Posting == [bda : BDA, date : Day, points : Amount]

Key(p) == <<p.bda, p.date>>

BonusInit ==
  /\ posted \in SUBSET Posting
  /\ \A p, q \in posted : Key(p) = Key(q) => p = q
  /\ credited \in [BDA \X Day -> Amount \cup {0}]
  /\ \A k \in BDA \X Day :
       credited[k] # 0 => \E p \in posted : Key(p) = k /\ p.points = credited[k]

Post(p) ==
  /\ \A q \in posted : Key(q) # Key(p)
  /\ posted' = posted \cup {p}
  /\ UNCHANGED credited

Credit(p) ==
  /\ p \in posted /\ credited[Key(p)] = 0
  /\ credited' = [credited EXCEPT ![Key(p)] = p.points]
  /\ UNCHANGED posted

BonusNext == \E p \in Posting : Post(p) \/ Credit(p)

BonusSpec == BonusInit /\ [][BonusNext]_bonusVars

==============================================================================
