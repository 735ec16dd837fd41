------------------------------ MODULE Sessions ------------------------------
(***************************************************************************)
(* The bearer sessions of internal/cache: login saves one, requireAuth     *)
(* looks it up and then slides its expiry, logout deletes it, and the demo *)
(* reset flushes them all.                                                 *)
(*                                                                         *)
(* Looking up and sliding are two Redis commands, and so are the check of  *)
(* a logout request and its deletion: the commands of other requests, the  *)
(* end of the TTL and a failed call may fall between any two.              *)
(***************************************************************************)
EXTENDS Integers

CONSTANTS
  Token,      \* the tokens NewToken may draw, each at most once
  Req,        \* the authenticated requests
  TTL,        \* the lifetime of an unused session, in ticks of the clock
  MaxTime,    \* bound: the last tick
  MaxFaults   \* bound: Redis calls that fail

ASSUME SessionsAssumption == TTL \in Nat \ {0} /\ MaxTime \in Nat /\ MaxFaults \in Nat

VARIABLES
  issued,     \* tokens that a client holds
  ends,       \* Redis session:<token>: when its TTL is over, 0 without a key
  now,        \* the clock of Redis
  pc,         \* where each request is
  req,        \* its token and whether it is a logout
  faults      \* calls failed so far

vars == <<issued, ends, now, pc, req, faults>>

Serving == {"slide", "handle", "delete"}

TypeOK ==
  /\ issued \in SUBSET Token
  /\ ends   \in [Token -> 0 .. MaxTime + TTL]
  /\ now    \in 0 .. MaxTime
  /\ pc     \in [Req -> {"idle"} \cup Serving \cup {"ok", "left", "denied", "failed"}]
  /\ req    \in [Req -> [token : Token, logout : BOOLEAN]]
  /\ faults \in 0 .. MaxFaults

Exists(t) == now < ends[t]

Answers == UNCHANGED faults
Errs    == faults < MaxFaults /\ faults' = faults + 1

Goto(r, label) == pc' = [pc EXCEPT ![r] = label]

-----------------------------------------------------------------------------

\* Login draws a token and saves the session; on an error the client never
\* hears of the token, saved or not.
SaveSession(t) ==
  /\ t \notin issued /\ ends[t] = 0
  /\ \/ issued' = issued \cup {t} /\ ends' = [ends EXCEPT ![t] = now + TTL] /\ Answers
     \/ Errs /\ ends' = [ends EXCEPT ![t] = now + TTL] /\ UNCHANGED issued
  /\ UNCHANGED <<now, pc, req>>

\* requireAuth and GetSession, first command: 401 on a miss, 503 on an error.
GetSession(r, t) ==
  /\ pc[r] = "idle" /\ t \in issued
  /\ \E out \in BOOLEAN : req' = [req EXCEPT ![r] = [token |-> t, logout |-> out]]
  /\ \/ Goto(r, IF Exists(t) THEN "slide" ELSE "denied") /\ Answers
     \/ Goto(r, "failed") /\ Errs
  /\ UNCHANGED <<issued, ends, now>>

Admit(r) == Goto(r, IF req[r].logout THEN "delete" ELSE "handle")

\* A slip: the session is saved again with a full TTL.
SlideBySaving(r) ==
  /\ pc[r] = "slide"
  /\ ends' = [ends EXCEPT ![req[r].token] = now + TTL]
  /\ Admit(r)
  /\ UNCHANGED <<issued, now, req, faults>>

\* A slip: the TTL is added to what is left of it.
SlideByAdding(r) ==
  /\ pc[r] = "slide"
  /\ ends' = [ends EXCEPT ![req[r].token] = IF Exists(req[r].token) THEN @ + TTL ELSE @]
  /\ Admit(r)
  /\ UNCHANGED <<issued, now, req, faults>>

\* EXPIRE: nothing without a key; its error is dropped.
SlideExpiry(r) ==
  /\ pc[r] = "slide"
  /\ Admit(r)
  /\ LET slid == IF Exists(req[r].token)
                 THEN [ends EXCEPT ![req[r].token] = now + TTL] ELSE ends
     IN  \/ ends' = slid /\ Answers
         \/ Errs /\ ends' \in {slid, ends}
  /\ UNCHANGED <<issued, now, req>>

Handle(r) ==
  /\ pc[r] = "handle"
  /\ Goto(r, "ok")
  /\ UNCHANGED <<issued, ends, now, req, faults>>

\* A slip: what is deleted is the token, not the key named after it.
DeleteNothing(r) ==
  /\ pc[r] = "delete"
  /\ Goto(r, "left")
  /\ UNCHANGED <<issued, ends, now, req, faults>>

\* logout: 204 whether or not the session could be deleted.
DeleteSession(r) ==
  /\ pc[r] = "delete"
  /\ Goto(r, "left")
  /\ LET gone == [ends EXCEPT ![req[r].token] = 0]
     IN  \/ ends' = gone /\ Answers
         \/ Errs /\ ends' \in {gone, ends}
  /\ UNCHANGED <<issued, now, req>>

\* ResetDemo.
FlushAll ==
  /\ issued # {}
  /\ ends' = [t \in Token |-> 0]
  /\ UNCHANGED <<issued, now, pc, req, faults>>

Tick == now < MaxTime /\ now' = now + 1 /\ UNCHANGED <<issued, ends, pc, req, faults>>

-----------------------------------------------------------------------------

Init ==
  /\ issued = {} /\ now = 0 /\ faults = 0
  /\ ends = [t \in Token |-> 0]
  /\ pc = [r \in Req |-> "idle"]
  /\ \E t \in Token : req = [r \in Req |-> [token |-> t, logout |-> FALSE]]

Next ==
  \/ \E t \in Token : SaveSession(t)
  \/ \E r \in Req : \/ \E t \in Token : GetSession(r, t)
                     \/ SlideExpiry(r) \/ Handle(r) \/ DeleteSession(r)
  \/ FlushAll \/ Tick

Spec == Init /\ [][Next]_vars

-----------------------------------------------------------------------------
(* Properties.                                                             *)

\* A session that ran out, was revoked or was flushed never comes back, although
\* a request that found it alive goes on to slide its expiry.
GoneStaysGone ==
  [][\A t \in issued : ~Exists(t) => ~(now' < ends'[t])]_vars

\* However many requests slide it at once, a session is never further from its
\* end than the lifetime it was given.
LifeIsBounded == \A t \in Token : ends[t] <= now + TTL

\* "revoke token": a client that was told 204 has no session left.
LogoutEnds == \A r \in Req : pc[r] = "left" => ~Exists(req[r].token)

\* ... which is so with the stores up, whatever other requests of the client are
\* being served.
LogoutEndsUnlessFault == faults = 0 => LogoutEnds

=============================================================================
