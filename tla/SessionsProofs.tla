--------------------------- MODULE SessionsProofs ---------------------------
(***************************************************************************)
(* Theorems about Sessions, for any tokens, requests, lifetime and bounds. *)
(***************************************************************************)
EXTENDS Sessions, TLAPS

\* A request past its lookup carries a token a client holds, and with no fault so
\* far the key of a logged out session is gone for good.
SessionInv ==
  /\ TypeOK /\ LifeIsBounded
  /\ \A r \in Req : pc[r] # "idle" => req[r].token \in issued
  /\ faults = 0 => \A r \in Req : pc[r] = "left" => ends[req[r].token] = 0

LEMMA InitOK == Init => SessionInv
BY SessionsAssumption DEF Init, SessionInv, TypeOK, LifeIsBounded, Serving

LEMMA StepOK == SessionInv /\ [Next]_vars => SessionInv'
<1> SUFFICES ASSUME SessionInv, [Next]_vars PROVE SessionInv'
  OBVIOUS
<1> USE SessionsAssumption DEF SessionInv, TypeOK, LifeIsBounded, Serving, Answers, Errs
<1>1. CASE UNCHANGED vars
  BY <1>1 DEF vars
<1>2. ASSUME NEW t \in Token, SaveSession(t) PROVE SessionInv'
  BY <1>2 DEF SaveSession
<1>3. ASSUME NEW r \in Req, NEW t \in Token, GetSession(r, t) PROVE SessionInv'
  <2>1. PICK out \in BOOLEAN : req' = [req EXCEPT ![r] = [token |-> t, logout |-> out]]
    BY <1>3 DEF GetSession
  <2>2. PICK label \in {"slide", "denied", "failed"} : pc' = [pc EXCEPT ![r] = label]
    BY <1>3 DEF GetSession, Goto
  <2>3. /\ pc[r] = "idle" /\ t \in issued
        /\ issued' = issued /\ ends' = ends /\ now' = now
        /\ faults' \in 0 .. MaxFaults /\ (faults' = 0 => faults = 0)
    BY <1>3 DEF GetSession
  <2> QED
    BY <2>1, <2>2, <2>3
<1>4. ASSUME NEW r \in Req, SlideExpiry(r) PROVE SessionInv'
  <2>1. PICK label \in {"delete", "handle"} : pc' = [pc EXCEPT ![r] = label]
    BY <1>4 DEF SlideExpiry, Admit, Goto
  <2>2. \/ ends' = ends
        \/ Exists(req[r].token) /\ ends' = [ends EXCEPT ![req[r].token] = now + TTL]
    BY <1>4 DEF SlideExpiry
  <2>3. /\ pc[r] = "slide" /\ issued' = issued /\ now' = now /\ req' = req
        /\ faults' \in 0 .. MaxFaults /\ (faults' = 0 => faults = 0)
    BY <1>4 DEF SlideExpiry
  <2>4. ends' \in [Token -> 0 .. MaxTime + TTL] /\ \A u \in Token : ends'[u] <= now + TTL
    BY <2>2
  <2>5. \A u \in Token : ends[u] = 0 => ends'[u] = 0
    BY <2>2 DEF Exists
  <2> QED
    BY <2>1, <2>3, <2>4, <2>5
<1>5. ASSUME NEW r \in Req, Handle(r) PROVE SessionInv'
  BY <1>5 DEF Handle, Goto
<1>6. ASSUME NEW r \in Req, DeleteSession(r) PROVE SessionInv'
  <2>1. /\ pc[r] = "delete" /\ pc' = [pc EXCEPT ![r] = "left"]
        /\ issued' = issued /\ now' = now /\ req' = req
        /\ faults' \in 0 .. MaxFaults /\ (faults' = 0 => faults = 0)
    BY <1>6 DEF DeleteSession, Goto
  <2>2. ends' = ends \/ ends' = [ends EXCEPT ![req[r].token] = 0]
    BY <1>6 DEF DeleteSession
  <2>3. faults' = 0 => ends' = [ends EXCEPT ![req[r].token] = 0]
    BY <1>6 DEF DeleteSession
  <2> QED
    BY <2>1, <2>2, <2>3
<1>7. CASE FlushAll
  BY <1>7 DEF FlushAll
<1>8. CASE Tick
  BY <1>8 DEF Tick
<1> QED
  BY <1>1, <1>2, <1>3, <1>4, <1>5, <1>6, <1>7, <1>8 DEF Next

\* The inductive invariant of the sessions.
THEOREM SessionInvariant == Spec => []SessionInv
<1> QED
  BY InitOK, StepOK, PTL DEF Spec

\* Tokens, keys, requests and the clock keep their types.
THEOREM SessionTypes == Spec => []TypeOK
<1>1. SessionInv => TypeOK
  BY DEF SessionInv
<1> QED
  BY <1>1, SessionInvariant, PTL

\* No session is further from its end than its lifetime, however many requests
\* slide it.
THEOREM SessionLifeIsBounded == Spec => []LifeIsBounded
<1>1. SessionInv => LifeIsBounded
  BY DEF SessionInv
<1> QED
  BY <1>1, SessionInvariant, PTL

\* With the stores up, a client told 204 by logout has no session left.
THEOREM LogoutEndsSession == Spec => []LogoutEndsUnlessFault
<1>1. SessionInv => LogoutEndsUnlessFault
  BY DEF SessionInv, LogoutEndsUnlessFault, LogoutEnds, Exists, TypeOK
<1> QED
  BY <1>1, SessionInvariant, PTL

\* A session that ended never comes back: sliding the expiry of a key that is gone
\* does nothing, and a token is issued once.
THEOREM EndedSessionsStayEnded == Spec => GoneStaysGone
<1>1. SessionInv /\ [Next]_vars => [\A t \in issued : ~Exists(t) => ~(now' < ends'[t])]_vars
  <2> SUFFICES ASSUME SessionInv, Next, NEW t \in issued, ~Exists(t)
               PROVE  ~(now' < ends'[t])
    OBVIOUS
  <2> USE SessionsAssumption DEF SessionInv, TypeOK, Exists
  <2>1. ASSUME NEW u \in Token, SaveSession(u) PROVE ~(now' < ends'[t])
    BY <2>1 DEF SaveSession
  <2>2. ASSUME NEW r \in Req, NEW u \in Token, GetSession(r, u) PROVE ~(now' < ends'[t])
    BY <2>2 DEF GetSession
  <2>3. ASSUME NEW r \in Req, SlideExpiry(r) PROVE ~(now' < ends'[t])
    <3>1. \/ ends' = ends
          \/ Exists(req[r].token) /\ ends' = [ends EXCEPT ![req[r].token] = now + TTL]
      BY <2>3 DEF SlideExpiry
    <3> QED
      BY <2>3, <3>1 DEF SlideExpiry
  <2>4. ASSUME NEW r \in Req, Handle(r) PROVE ~(now' < ends'[t])
    BY <2>4 DEF Handle
  <2>5. ASSUME NEW r \in Req, DeleteSession(r) PROVE ~(now' < ends'[t])
    <3>1. ends' = ends \/ ends' = [ends EXCEPT ![req[r].token] = 0]
      BY <2>5 DEF DeleteSession
    <3> QED
      BY <2>5, <3>1 DEF DeleteSession
  <2>6. CASE FlushAll
    BY <2>6 DEF FlushAll
  <2>7. CASE Tick
    BY <2>7 DEF Tick
  <2> QED
    BY <2>1, <2>2, <2>3, <2>4, <2>5, <2>6, <2>7 DEF Next
<1> QED
  BY <1>1, SessionInvariant, PTL DEF Spec, GoneStaysGone

=============================================================================
