------------------------------ MODULE ReadCache ------------------------------
(***************************************************************************)
(* The versioned read cache of internal/cache as the cached reads (the     *)
(* leaderboard, both overviews, the notice board) and the writing handlers *)
(* use it.                                                                 *)
(*                                                                         *)
(* A read asks Redis for the version and then for the key of that version; *)
(* on a miss it queries MongoDB, asks for the version once more and stores *)
(* under what it is told then.  A write changes MongoDB and then bumps the *)
(* version.  The demo reset flushes Redis, the version with it, between    *)
(* its drop of the collections and its seeding, which bumps nothing.  Nor  *)
(* does midnight, after which the same name stands for other days.  What   *)
(* MongoDB holds is the number of changes so far, midnights among them; a  *)
(* response is as old as the first of its queries.  Names do not share     *)
(* keys, so one name is modelled.                                          *)
(***************************************************************************)
EXTENDS Integers, FiniteSets

CONSTANTS
  Reader,      \* clients that read, each as often as it likes
  Writer,      \* write requests
  Reset,       \* demo resets
  MaxDay,      \* bound: the last day
  MaxFaults    \* bound: calls to Redis and MongoDB that fail

ASSUME ReadCacheAssumption == MaxDay \in Nat /\ MaxFaults \in Nat

VARIABLES
  data,     \* changes so far of what a read would be answered with
  today,    \* the day the ranges of a read end with
  ver,      \* Redis cache:ver
  bumps,    \* bumps of the version so far, those before a flush included
  flushes,  \* flushes of Redis so far
  cache,    \* Redis cache:v<ver>:<name>, at most one entry for each version
  read,     \* the read each client is in
  write,    \* the write requests
  reset,    \* where each demo reset is
  faults    \* calls failed so far

dataVars  == <<data, today, reset>>
redisVars == <<ver, bumps, flushes, cache>>
vars      == <<dataVars, redisVars, read, write, faults>>

\* asked, stored: the bumps there had been when the fill asked for the version first
\* and when it stored; era: the flushes there had been when it was told its key.
Entry == [ver : Nat, seen : Nat, asked : Nat, stored : Nat, era : Nat]

Read  == [pc : {"idle", "lookup", "query", "key", "store"},
          got : Nat, key : Nat, seen : Nat, asked : Nat, era : Nat]

\* n: which change it was; at: which bump announced it, 0 when there is none.
Write == [pc : {"idle", "bump", "done"}, n : Nat, at : Nat]

TypeOK ==
  /\ data \in Nat /\ today \in 0 .. MaxDay
  /\ ver \in Nat /\ bumps \in Nat /\ flushes \in Nat
  /\ cache \in SUBSET Entry
  /\ read \in [Reader -> Read]
  /\ write \in [Writer -> Write]
  /\ reset \in [Reset -> {"idle", "flush", "seed", "done"}]
  /\ faults \in 0 .. MaxFaults

Answers == UNCHANGED faults
Errs    == faults < MaxFaults /\ faults' = faults + 1

-----------------------------------------------------------------------------
(* Reads.                                                                  *)

\* version: the counter, or "0" when Redis does not answer.
Version(v) == (v = ver /\ Answers) \/ (v = 0 /\ Errs)

\* GetJSON, first command.
ReadVersion(r) ==
  /\ read[r].pc = "idle"
  /\ \E v \in {0, ver} :
       /\ Version(v)
       /\ read' = [read EXCEPT ![r] = [@ EXCEPT !.pc = "lookup", !.got = v, !.asked = bumps]]
  /\ UNCHANGED <<dataVars, redisVars, write>>

NoRead == [pc |-> "idle", got |-> 0, key |-> 0, seen |-> 0, asked |-> 0, era |-> 0]

\* What a client is told: the client is done, and may read again.
Answer(r, n) ==
  read' = [read EXCEPT ![r] = [NoRead EXCEPT !.seen = n]]

\* GetJSON, second command; an error counts as a miss.
Lookup(r) ==
  /\ read[r].pc = "lookup"
  /\ LET hits == {e \in cache : e.ver = read[r].got} IN
     \/ \E e \in hits : Answer(r, e.seen) /\ Answers
     \/ read' = [read EXCEPT ![r].pc = "query"] /\ (IF hits = {} THEN Answers ELSE Errs)
  /\ UNCHANGED <<dataVars, redisVars, write>>

\* The queries; an error is the answer.
Query(r) ==
  /\ read[r].pc = "query"
  /\ \/ read' = [read EXCEPT ![r] = [@ EXCEPT !.pc = "key", !.seen = data]] /\ Answers
     \/ Answer(r, 0) /\ Errs
  /\ UNCHANGED <<dataVars, redisVars, write>>

\* SetJSON, first command: the version is asked for again.
Key(r) ==
  /\ read[r].pc = "key"
  /\ \E v \in {0, ver} :
       /\ Version(v)
       /\ read' = [read EXCEPT ![r] = [@ EXCEPT !.pc = "store", !.key = v, !.era = flushes]]
  /\ UNCHANGED <<dataVars, redisVars, write>>

Filled(r) == [ver |-> read[r].key, seen |-> read[r].seen, asked |-> read[r].asked,
              stored |-> bumps, era |-> read[r].era]

\* SetJSON, second command; its error is dropped.
Store(r) ==
  /\ read[r].pc = "store"
  /\ Answer(r, read[r].seen)
  /\ \/ cache' = {e \in cache : e.ver # read[r].key} \cup {Filled(r)} /\ Answers
     \/ Errs /\ UNCHANGED cache
  /\ UNCHANGED <<dataVars, ver, bumps, flushes, write>>

-----------------------------------------------------------------------------
(* Writes.                                                                 *)

\* The handler's writes to MongoDB; it may break off before the bump, as
\* RecordLead and recordLogin do when a later write fails.
ApplyWrite(w) ==
  /\ write[w].pc = "idle"
  /\ data' = data + 1
  /\ \/ write' = [write EXCEPT ![w] = [@ EXCEPT !.pc = "bump", !.n = data']] /\ Answers
     \/ write' = [write EXCEPT ![w] = [@ EXCEPT !.pc = "done", !.n = data']] /\ Errs
  /\ UNCHANGED <<redisVars, today, read, reset>>

Announce(w) ==
  /\ bumps' = bumps + 1
  /\ write' = [write EXCEPT ![w] = [@ EXCEPT !.pc = "done", !.at = bumps']]

\* A slip: SET cache:ver 1 in place of INCR.
BumpToOne(w) ==
  /\ write[w].pc = "bump"
  /\ ver' = 1 /\ Announce(w)
  /\ UNCHANGED <<dataVars, flushes, cache, read, faults>>

\* Invalidate; its error is dropped, and may hide that it was applied.
Bump(w) ==
  /\ write[w].pc = "bump"
  /\ \/ ver' = ver + 1 /\ Announce(w) /\ (Answers \/ Errs)
     \/ Errs /\ UNCHANGED <<ver, bumps>> /\ write' = [write EXCEPT ![w].pc = "done"]
  /\ UNCHANGED <<dataVars, flushes, cache, read>>

-----------------------------------------------------------------------------
(* The demo reset: Reset of the store, FlushAll, seed.Run.  It ends at a   *)
(* call that fails, applied or not; batches that end halfway are in Demo.  *)

ChangeData(s, next) ==
  /\ \/ data' = data + 1 /\ reset' = [reset EXCEPT ![s] = next] /\ Answers
     \/ data' \in {data, data + 1} /\ reset' = [reset EXCEPT ![s] = "done"] /\ Errs
  /\ UNCHANGED <<redisVars, today, read, write>>

DropData(s) == reset[s] = "idle" /\ ChangeData(s, "flush")
SeedData(s) == reset[s] = "seed" /\ ChangeData(s, "done")

ForgetAll == ver' = 0 /\ cache' = {} /\ flushes' = flushes + 1

\* FLUSHDB deletes cache:ver too, so the version starts again from "0".
FlushAll(s) ==
  /\ reset[s] = "flush"
  /\ \/ ForgetAll /\ reset' = [reset EXCEPT ![s] = "seed"] /\ Answers
     \/ /\ reset' = [reset EXCEPT ![s] = "done"] /\ Errs
        /\ ForgetAll \/ UNCHANGED <<ver, cache, flushes>>
  /\ UNCHANGED <<data, today, bumps, read, write>>

-----------------------------------------------------------------------------

\* A slip: a TTL of zero, which Redis takes for none.
NeverExpire(e) == e \in cache /\ UNCHANGED vars

\* The TTL of a key runs out.
Expire(e) ==
  /\ e \in cache
  /\ cache' = cache \ {e}
  /\ UNCHANGED <<dataVars, ver, bumps, flushes, read, write, faults>>

\* "board:today" and the other names now stand for ranges that end a day later.
Midnight ==
  /\ today < MaxDay
  /\ today' = today + 1 /\ data' = data + 1
  /\ UNCHANGED <<redisVars, read, write, reset, faults>>

-----------------------------------------------------------------------------

Init ==
  /\ data = 0 /\ today = 0 /\ ver = 0 /\ bumps = 0 /\ flushes = 0 /\ cache = {} /\ faults = 0
  /\ read  = [r \in Reader |-> NoRead]
  /\ write = [w \in Writer |-> [pc |-> "idle", n |-> 0, at |-> 0]]
  /\ reset = [s \in Reset |-> "idle"]

\* The steps of a read once it has begun.
Serve(r) == Lookup(r) \/ Query(r) \/ Key(r) \/ Store(r)

Next ==
  \/ \E r \in Reader : ReadVersion(r) \/ Serve(r)
  \/ \E w \in Writer : ApplyWrite(w) \/ Bump(w)
  \/ \E s \in Reset : DropData(s) \/ FlushAll(s) \/ SeedData(s)
  \/ \E e \in cache : Expire(e)
  \/ Midnight

Spec == Init /\ [][Next]_vars

\* A handler that has begun goes on, since every call returns, and Redis removes
\* a key when its TTL is over.  Nobody needs to read or to write.
FairSpec ==
  /\ Spec
  /\ \A r \in Reader : WF_vars(Serve(r))
  /\ \A v \in 0 .. Cardinality(Writer) :
       WF_vars(\E e \in cache : e.ver = v /\ Expire(e))

-----------------------------------------------------------------------------
(* Properties.                                                             *)

\* "Any write bumps the version, which orphans every existing key": what is cached
\* misses an announced write only if the announcement came after its fill had begun,
\* and is served under the current version only if it came before the fill stored.  (An
\* answer that a reset overtook may be stored under a version that comes again.)
Announced(w) == write[w].at # 0

MissesOnlyOverlapping ==
  \A e \in cache, w \in Writer : Announced(w) /\ write[w].n > e.seen =>
    /\ e.asked < write[w].at
    /\ e.ver = ver /\ e.era = flushes => write[w].at <= e.stored

\* The inductive invariant behind it.
WritesOK ==
  \A w \in Writer : /\ write[w].at <= bumps /\ write[w].n <= data
                    /\ write[w].pc # "done" => ~Announced(w)

\* A fill has seen every write announced before it began.
Saw(asked, seen) == \A w \in Writer : Announced(w) /\ write[w].at <= asked => write[w].n <= seen

\* A key told since the last flush is not ahead of the version.
ReadsOK ==
  \A r \in Reader :
    /\ read[r].asked <= bumps /\ read[r].era <= flushes
    /\ read[r].pc \in {"key", "store"} => Saw(read[r].asked, read[r].seen)
    /\ read[r].pc = "store" /\ read[r].era = flushes => read[r].key <= ver

\* ... and one that is the version still was stored after the last bump.
EntriesOK ==
  \A e \in cache :
    /\ e.asked <= e.stored /\ e.stored <= bumps /\ e.era <= flushes
    /\ Saw(e.asked, e.seen)
    /\ e.era = flushes => e.ver <= ver /\ (e.ver = ver => e.stored = bumps)

CacheInv == TypeOK /\ WritesOK /\ ReadsOK /\ EntriesOK

\* ... which is not so of a write announced while the fill is under way.
CurrentKeyIsFresh ==
  \A e \in cache, w \in Writer : e.ver = ver /\ Announced(w) => write[w].n <= e.seen

\* However many bumps are lost, stale fills stored and resets and midnights go
\* unannounced, once all that is over there comes a time from which every read is answered with the data.
Answered(r) == read[r].pc \in {"lookup", "store"} /\ read'[r].pc = "idle"

AnswersBecomeFresh ==
  <>[][\A r \in Reader : Answered(r) => read'[r].seen = data]_vars

=============================================================================
