--------------------------- MODULE ReadCacheProofs ---------------------------
(***************************************************************************)
(* Proofs about ReadCache, for any number of clients, writes, demo resets  *)
(* and faults.                                                             *)
(***************************************************************************)
EXTENDS ReadCache, TLAPS

LEMMA InitCacheInv == Init => CacheInv
BY ReadCacheAssumption
DEF Init, CacheInv, TypeOK, WritesOK, ReadsOK, EntriesOK, Entry, Read, Write, NoRead,
    Announced, ReadCacheAssumption

\* Each call is counted as a fault at most once.
LEMMA FaultsType == TypeOK /\ (Answers \/ Errs) => faults' \in 0 .. MaxFaults
BY ReadCacheAssumption DEF TypeOK, Answers, Errs, ReadCacheAssumption

\* The invariant, taken apart.
LEMMA Parts ==
  ASSUME CacheInv
  PROVE  /\ TypeOK /\ WritesOK /\ ReadsOK /\ EntriesOK
         /\ data \in Nat /\ ver \in Nat /\ bumps \in Nat /\ flushes \in Nat
         /\ cache \in SUBSET Entry
         /\ read \in [Reader -> Read] /\ write \in [Writer -> Write]
         /\ reset \in [Reset -> {"idle", "flush", "seed", "done"}]
BY DEF CacheInv, TypeOK

\* A step of a client leaves the data, the writes and the version alone, so it is
\* enough that the client, and what it stores, have seen what they must.
LEMMA ReadStep ==
  ASSUME CacheInv, NEW r \in Reader, ReadVersion(r) \/ Serve(r)
  PROVE  CacheInv'
<1>1. /\ TypeOK /\ WritesOK /\ ReadsOK /\ EntriesOK
      /\ data \in Nat /\ ver \in Nat /\ bumps \in Nat /\ flushes \in Nat
      /\ cache \in SUBSET Entry
      /\ read \in [Reader -> Read] /\ write \in [Writer -> Write] /\ read[r] \in Read
  BY Parts
<1>2. UNCHANGED <<data, today, reset, ver, bumps, flushes, write>>
  BY DEF ReadVersion, Serve, Lookup, Query, Key, Store, dataVars, redisVars
<1>3. faults' \in 0 .. MaxFaults
  BY <1>1, FaultsType DEF ReadVersion, Version, Serve, Lookup, Query, Key, Store
<1>4. WritesOK' /\ \A a, n : Saw(a, n)' = Saw(a, n)
  BY <1>1, <1>2 DEF WritesOK, Saw, Announced
<1>5. /\ read[r].asked \in Nat /\ read[r].asked <= bumps
      /\ read[r].era \in Nat /\ read[r].era <= flushes
  BY <1>1 DEF Read, ReadsOK
<1>6. ASSUME NEW x \in Read, read' = [read EXCEPT ![r] = x], UNCHANGED cache,
             x.asked <= bumps, x.era <= flushes,
             x.pc \in {"key", "store"} => Saw(x.asked, x.seen),
             x.pc = "store" /\ x.era = flushes => x.key <= ver
      PROVE  CacheInv'
  <2>1. TypeOK'
    BY <1>1, <1>2, <1>3, <1>6 DEF TypeOK
  <2>2. ReadsOK'
    BY <1>1, <1>2, <1>4, <1>6 DEF ReadsOK
  <2>3. EntriesOK'
    BY <1>1, <1>2, <1>4, <1>6 DEF EntriesOK
  <2>4. QED  BY <1>4, <2>1, <2>2, <2>3 DEF CacheInv
<1>7. ASSUME NEW n \in Nat, Answer(r, n), UNCHANGED cache
      PROVE  CacheInv'
  <2> DEFINE x == [NoRead EXCEPT !.seen = n]
  <2>1. x \in Read /\ x.pc = "idle" /\ x.asked = 0 /\ x.era = 0
    BY <1>7 DEF Read, NoRead
  <2>2. read' = [read EXCEPT ![r] = x]
    BY <1>7 DEF Answer
  <2> HIDE DEF x
  <2>3. x.asked <= bumps /\ x.era <= flushes /\ x.pc \notin {"key", "store"}
    BY <1>1, <2>1
  <2>4. QED  BY <1>6, <1>7, <2>1, <2>2, <2>3
<1>8. CASE ReadVersion(r)
  <2>1. PICK v \in {0, ver} :
          /\ Version(v)
          /\ read' = [read EXCEPT ![r] =
                        [read[r] EXCEPT !.pc = "lookup", !.got = v, !.asked = bumps]]
    BY <1>8 DEF ReadVersion
  <2> DEFINE x == [read[r] EXCEPT !.pc = "lookup", !.got = v, !.asked = bumps]
  <2>2. x \in Read /\ x.pc = "lookup" /\ x.asked = bumps /\ x.era = read[r].era
    <3>1. v \in Nat  BY <1>1
    <3>2. QED  BY <1>1, <3>1 DEF Read
  <2>3. bumps <= bumps /\ UNCHANGED cache
    BY <1>1, <1>8 DEF ReadVersion, redisVars
  <2>4. read' = [read EXCEPT ![r] = x]  BY <2>1
  <2> HIDE DEF x
  <2>5. QED  BY <1>5, <1>6, <2>2, <2>3, <2>4
<1>9. CASE Lookup(r)
  <2>1. UNCHANGED cache
    BY <1>9 DEF Lookup, redisVars
  <2>2. CASE \E e \in cache : Answer(r, e.seen)
    <3>1. PICK e \in cache : Answer(r, e.seen)  BY <2>2
    <3>2. e.seen \in Nat  BY <1>1 DEF Entry
    <3>3. QED  BY <1>7, <2>1, <3>1, <3>2
  <2>3. CASE read' = [read EXCEPT ![r].pc = "query"]
    <3> DEFINE x == [read[r] EXCEPT !.pc = "query"]
    <3>1. x \in Read /\ x.pc = "query" /\ x.asked = read[r].asked /\ x.era = read[r].era
      BY <1>1 DEF Read
    <3>2. read' = [read EXCEPT ![r] = x]  BY <2>3
    <3> HIDE DEF x
    <3>3. QED  BY <1>5, <1>6, <2>1, <3>1, <3>2
  <2>4. QED  BY <1>9, <2>2, <2>3 DEF Lookup
<1>10. CASE Query(r)
  <2>1. UNCHANGED cache
    BY <1>10 DEF Query, redisVars
  <2>2. CASE Answer(r, 0)
    BY <1>7, <2>1, <2>2
  <2>3. CASE read' = [read EXCEPT ![r] = [read[r] EXCEPT !.pc = "key", !.seen = data]]
    <3> DEFINE x == [read[r] EXCEPT !.pc = "key", !.seen = data]
    <3>1. /\ x \in Read /\ x.pc = "key" /\ x.seen = data
          /\ x.asked = read[r].asked /\ x.era = read[r].era
      BY <1>1 DEF Read
    <3>2. Saw(x.asked, x.seen)
      BY <1>1, <3>1 DEF Saw, WritesOK
    <3>3. read' = [read EXCEPT ![r] = x]  BY <2>3
    <3> HIDE DEF x
    <3>4. QED  BY <1>5, <1>6, <2>1, <3>1, <3>2, <3>3
  <2>4. QED  BY <1>10, <2>2, <2>3 DEF Query
<1>11. CASE Key(r)
  <2>1. PICK v \in {0, ver} :
          /\ Version(v)
          /\ read' = [read EXCEPT ![r] =
                        [read[r] EXCEPT !.pc = "store", !.key = v, !.era = flushes]]
    BY <1>11 DEF Key
  <2> DEFINE x == [read[r] EXCEPT !.pc = "store", !.key = v, !.era = flushes]
  <2>2. v \in Nat /\ v <= ver  BY <1>1
  <2>3. /\ x \in Read /\ x.asked = read[r].asked /\ x.seen = read[r].seen
        /\ x.key = v /\ x.era = flushes
    BY <1>1, <2>2 DEF Read
  <2>4. Saw(read[r].asked, read[r].seen) /\ UNCHANGED cache
    BY <1>1, <1>11 DEF Key, ReadsOK, redisVars
  <2>5. read' = [read EXCEPT ![r] = x]  BY <2>1
  <2> HIDE DEF x
  <2>6. /\ x.asked <= bumps /\ x.era <= flushes
        /\ Saw(x.asked, x.seen) /\ x.key <= ver
    BY <1>1, <1>5, <2>2, <2>3, <2>4
  <2>7. QED  BY <1>6, <2>3, <2>4, <2>5, <2>6
<1>12. CASE Store(r)
  <2>1. read[r].pc = "store" /\ read[r].seen \in Nat /\ Answer(r, read[r].seen)
    BY <1>1, <1>12 DEF Store, Read
  <2>2. CASE UNCHANGED cache
    BY <1>7, <2>1, <2>2
  <2>3. CASE cache' = {e \in cache : e.ver # read[r].key} \cup {Filled(r)}
    <3> DEFINE x == [NoRead EXCEPT !.seen = read[r].seen]
               f == Filled(r)
    <3>1. x \in Read /\ x.pc = "idle" /\ x.asked = 0 /\ x.era = 0
      BY <2>1 DEF Read, NoRead
    <3>2. read' = [read EXCEPT ![r] = x]
      BY <2>1 DEF Answer
    <3>3. /\ f \in Entry /\ f.asked = read[r].asked /\ f.seen = read[r].seen
          /\ f.stored = bumps /\ f.era = read[r].era /\ f.ver = read[r].key
      BY <1>1 DEF Filled, Entry, Read
    <3>4. Saw(f.asked, f.seen) /\ (f.era = flushes => f.ver <= ver)
      BY <1>1, <2>1, <3>3 DEF ReadsOK
    <3>5. f.asked <= f.stored /\ f.stored <= bumps /\ f.era <= flushes
      BY <1>1, <1>5, <3>3
    <3>6. cache' \subseteq cache \cup {f}
      BY <2>3
    <3> HIDE DEF x, f
    <3>7. TypeOK'
      BY <1>1, <1>2, <1>3, <3>1, <3>2, <3>3, <3>6 DEF TypeOK
    <3>8. ReadsOK'
      BY <1>1, <1>2, <1>4, <3>1, <3>2 DEF ReadsOK
    <3>9. EntriesOK'
      BY <1>1, <1>2, <1>4, <3>3, <3>4, <3>5, <3>6 DEF EntriesOK
    <3>10. QED  BY <1>4, <3>7, <3>8, <3>9 DEF CacheInv
  <2>4. QED  BY <1>12, <2>2, <2>3 DEF Store
<1>13. QED  BY <1>8, <1>9, <1>10, <1>11, <1>12 DEF Serve

\* A write is numbered above every response so far, and announced by a bump after
\* every one a fill or an entry has counted; a bump leaves no entry under the version.
LEMMA WriteStep ==
  ASSUME CacheInv, NEW w \in Writer, ApplyWrite(w) \/ Bump(w)
  PROVE  CacheInv'
<1>1. /\ TypeOK /\ WritesOK /\ ReadsOK /\ EntriesOK
      /\ data \in Nat /\ ver \in Nat /\ bumps \in Nat /\ flushes \in Nat
      /\ cache \in SUBSET Entry
      /\ read \in [Reader -> Read] /\ write \in [Writer -> Write] /\ write[w] \in Write
  BY Parts
<1>2. UNCHANGED <<today, cache, flushes, read, reset>> /\ faults' \in 0 .. MaxFaults
  BY <1>1, FaultsType DEF ApplyWrite, Bump, redisVars, dataVars
<1>3. ASSUME NEW x \in Write, write' = [write EXCEPT ![w] = x],
             data' \in Nat, data <= data', x.n <= data',
             \/ UNCHANGED <<ver, bumps>> /\ x.at = 0
             \/ ver' = ver + 1 /\ bumps' = bumps + 1 /\ x.at = bumps + 1 /\ x.pc = "done"
      PROVE  CacheInv'
  <2>1. ver' \in Nat /\ bumps' \in Nat /\ ver <= ver' /\ bumps <= bumps'
    BY <1>1, <1>3
  <2>2. TypeOK'
    BY <1>1, <1>2, <1>3, <2>1 DEF TypeOK
  <2>3. \A u \in Writer : write'[u] = x \/ write'[u] = write[u]
    BY <1>1, <1>3
  <2>4. x.at \in Nat /\ x.at <= bumps' /\ (x.pc # "done" => x.at = 0)
    BY <1>1, <1>3, <2>1 DEF Write
  <2>5. \A u \in Writer : /\ write[u].at \in Nat /\ write[u].n \in Nat
                          /\ write[u].at <= bumps /\ write[u].n <= data
                          /\ write[u].pc # "done" => write[u].at = 0
    BY <1>1 DEF WritesOK, Write, Announced
  <2>6. WritesOK'
    <3>1. \A u \in Writer : /\ write[u].at <= bumps' /\ write[u].n <= data'
                            /\ write[u].pc # "done" => write[u].at = 0
      BY <1>1, <1>3, <2>1, <2>5
    <3>2. QED  BY <1>3, <2>3, <2>4, <3>1 DEF WritesOK, Announced
  <2>7. ASSUME NEW a \in Nat, a <= bumps, NEW n \in Nat, Saw(a, n)
        PROVE  Saw(a, n)'
    <3> SUFFICES ASSUME NEW u \in Writer, write'[u].at # 0, write'[u].at <= a
                 PROVE  write'[u].n <= n
      BY DEF Saw, Announced
    <3>1. write'[u] = write[u]
      BY <1>1, <1>3, <2>3, <2>4, <2>7
    <3>2. QED  BY <2>7, <3>1 DEF Saw, Announced
  <2>8. ReadsOK'
    <3>1. ASSUME NEW r \in Reader
          PROVE  /\ read[r].asked \in Nat /\ read[r].seen \in Nat /\ read[r].key \in Nat
                 /\ read[r].asked <= bumps /\ read[r].asked <= bumps'
      BY <1>1, <2>1 DEF Read, ReadsOK
    <3>2. \A r \in Reader : read[r].pc = "store" /\ read[r].era = flushes => read[r].key <= ver'
      BY <1>1, <2>1, <3>1 DEF ReadsOK
    <3>3. \A r \in Reader : read[r].pc \in {"key", "store"} => Saw(read[r].asked, read[r].seen)'
      BY <1>1, <1>2, <2>7, <3>1 DEF ReadsOK
    <3>4. QED  BY <1>1, <1>2, <3>1, <3>2, <3>3 DEF ReadsOK
  <2>9. EntriesOK'
    <3>1. ASSUME NEW e \in cache
          PROVE  /\ e.ver \in Nat /\ e.asked \in Nat /\ e.seen \in Nat /\ e.stored \in Nat
                 /\ e.asked <= e.stored /\ e.stored <= bumps /\ e.era <= flushes
                 /\ Saw(e.asked, e.seen)
                 /\ e.era = flushes => e.ver <= ver /\ (e.ver = ver => e.stored = bumps)
      BY <1>1 DEF Entry, EntriesOK
    <3>2. ASSUME NEW e \in cache
          PROVE  e.asked <= bumps /\ e.stored <= bumps' /\ Saw(e.asked, e.seen)'
      BY <1>1, <2>1, <2>7, <3>1
    <3>3. ASSUME NEW e \in cache, e.era = flushes
          PROVE  e.ver <= ver' /\ (e.ver = ver' => e.stored = bumps')
      BY <1>1, <1>3, <3>1, <3>3
    <3>4. QED  BY <1>2, <3>1, <3>2, <3>3 DEF EntriesOK
  <2>10. QED  BY <2>2, <2>6, <2>8, <2>9 DEF CacheInv
<1>4. /\ write[w].at \in Nat /\ write[w].n \in Nat /\ write[w].n <= data
      /\ write[w].pc # "done" => write[w].at = 0
  BY <1>1 DEF Write, WritesOK, Announced
<1>5. CASE ApplyWrite(w)
  <2>1. PICK s \in {"bump", "done"} :
          write' = [write EXCEPT ![w] = [write[w] EXCEPT !.pc = s, !.n = data']]
    BY <1>5 DEF ApplyWrite
  <2> DEFINE x == [write[w] EXCEPT !.pc = s, !.n = data']
  <2>2. data' = data + 1 /\ UNCHANGED <<ver, bumps>> /\ write[w].at = 0
    BY <1>4, <1>5 DEF ApplyWrite, redisVars
  <2>3. data' \in Nat /\ data <= data'
    BY <1>1, <2>2
  <2>4. x \in Write /\ x.at = 0 /\ x.n = data'
    BY <1>1, <2>2, <2>3 DEF Write
  <2>5. write' = [write EXCEPT ![w] = x]  BY <2>1
  <2> HIDE DEF x
  <2>6. x.n <= data'  BY <2>3, <2>4
  <2>7. QED  BY <1>3, <2>2, <2>3, <2>4, <2>5, <2>6
<1>6. CASE Bump(w)
  <2>1. UNCHANGED data /\ data <= data /\ write[w].at = 0
    BY <1>1, <1>4, <1>6 DEF Bump, dataVars
  <2>2. CASE ver' = ver + 1 /\ Announce(w)
    <3> DEFINE x == [write[w] EXCEPT !.pc = "done", !.at = bumps']
    <3>1. bumps' = bumps + 1 /\ write' = [write EXCEPT ![w] = x]
      BY <2>2 DEF Announce
    <3>2. x \in Write /\ x.at = bumps + 1 /\ x.n = write[w].n /\ x.pc = "done"
      <4>1. bumps' \in Nat  BY <1>1, <3>1
      <4>2. QED  BY <1>1, <3>1, <4>1 DEF Write
    <3> HIDE DEF x
    <3>3. QED  BY <1>1, <1>3, <1>4, <2>1, <2>2, <3>1, <3>2
  <2>3. CASE UNCHANGED <<ver, bumps>> /\ write' = [write EXCEPT ![w].pc = "done"]
    <3> DEFINE x == [write[w] EXCEPT !.pc = "done"]
    <3>1. write' = [write EXCEPT ![w] = x]
      BY <2>3
    <3>2. x \in Write /\ x.at = 0 /\ x.n = write[w].n
      BY <1>1, <2>1 DEF Write
    <3> HIDE DEF x
    <3>3. QED  BY <1>1, <1>3, <1>4, <2>1, <2>3, <3>1, <3>2
  <2>4. QED  BY <1>6, <2>2, <2>3 DEF Bump
<1>7. QED  BY <1>5, <1>6

\* A reset only adds changes, or forgets every entry and leaves every key told before
\* behind in an era that is over.
LEMMA ResetStep ==
  ASSUME CacheInv, NEW s \in Reset, DropData(s) \/ FlushAll(s) \/ SeedData(s)
  PROVE  CacheInv'
<1>1. /\ TypeOK /\ WritesOK /\ ReadsOK /\ EntriesOK
      /\ data \in Nat /\ ver \in Nat /\ bumps \in Nat /\ flushes \in Nat
      /\ cache \in SUBSET Entry
      /\ read \in [Reader -> Read] /\ write \in [Writer -> Write]
      /\ reset \in [Reset -> {"idle", "flush", "seed", "done"}]
  BY Parts
<1>2. UNCHANGED <<today, bumps, read, write>> /\ faults' \in 0 .. MaxFaults
  BY <1>1, FaultsType DEF DropData, SeedData, ChangeData, FlushAll, redisVars
<1>3. reset' \in [Reset -> {"idle", "flush", "seed", "done"}]
  BY <1>1 DEF DropData, SeedData, ChangeData, FlushAll
<1>4. data' \in {data, data + 1}
  BY DEF DropData, SeedData, ChangeData, FlushAll
<1>5. ForgetAll \/ UNCHANGED <<ver, cache, flushes>>
  BY DEF DropData, SeedData, ChangeData, FlushAll, redisVars
<1>6. data' \in Nat /\ data <= data' /\ ver' \in Nat /\ flushes' \in Nat /\ flushes <= flushes'
  BY <1>1, <1>4, <1>5 DEF ForgetAll
<1>7. TypeOK'
  BY <1>1, <1>2, <1>3, <1>5, <1>6 DEF TypeOK, ForgetAll
<1>8. WritesOK'
  <2>1. \A w \in Writer : write[w].n \in Nat /\ write[w].n <= data'
    BY <1>1, <1>6 DEF WritesOK, Write
  <2>2. QED  BY <1>1, <1>2, <2>1 DEF WritesOK, Announced
<1>9. \A a, n : Saw(a, n)' = Saw(a, n)
  BY <1>2 DEF Saw, Announced
<1>10. ReadsOK'
  <2>1. \A r \in Reader : read[r].era \in Nat /\ read[r].era <= flushes
    BY <1>1 DEF Read, ReadsOK
  <2>2. CASE ForgetAll
    <3>1. \A r \in Reader : read[r].era <= flushes' /\ read[r].era # flushes'
      BY <1>1, <2>1, <2>2 DEF ForgetAll
    <3>2. QED  BY <1>1, <1>2, <1>9, <3>1 DEF ReadsOK
  <2>3. CASE UNCHANGED <<ver, cache, flushes>>
    BY <1>1, <1>2, <1>9, <2>3 DEF ReadsOK
  <2>4. QED  BY <1>5, <2>2, <2>3
<1>11. EntriesOK'
  <2>1. CASE ForgetAll
    BY <2>1 DEF ForgetAll, EntriesOK
  <2>2. CASE UNCHANGED <<ver, cache, flushes>>
    BY <1>1, <1>2, <1>9, <2>2 DEF EntriesOK
  <2>3. QED  BY <1>5, <2>1, <2>2
<1>12. QED  BY <1>7, <1>8, <1>10, <1>11 DEF CacheInv

LEMMA NextCacheInv == CacheInv /\ [Next]_vars => CacheInv'
<1> SUFFICES ASSUME CacheInv, [Next]_vars PROVE CacheInv'  OBVIOUS
<1>1. ASSUME UNCHANGED <<data, today, reset, ver, bumps, flushes, read, write, faults>>,
             cache' \subseteq cache
      PROVE  CacheInv'
  <2>1. \A a, n : Saw(a, n)' = Saw(a, n)
    BY <1>1 DEF Saw, Announced
  <2>2. TypeOK' /\ WritesOK'
    BY <1>1 DEF CacheInv, TypeOK, WritesOK, Announced
  <2>3. ReadsOK'
    BY <1>1, <2>1 DEF CacheInv, ReadsOK
  <2>4. EntriesOK'
    BY <1>1, <2>1 DEF CacheInv, EntriesOK
  <2>5. QED  BY <2>2, <2>3, <2>4 DEF CacheInv
<1>2. ASSUME NEW e \in cache, Expire(e) PROVE CacheInv'
  BY <1>1, <1>2 DEF Expire, dataVars
<1>3. CASE UNCHANGED vars
  BY <1>1, <1>3 DEF vars, dataVars, redisVars
<1>4. ASSUME Midnight PROVE CacheInv'
  <2>1. UNCHANGED <<reset, ver, bumps, flushes, cache, read, write, faults>>
    BY <1>4 DEF Midnight, redisVars
  <2>2. data \in Nat /\ data' = data + 1 /\ today' \in 0 .. MaxDay
    BY <1>4, ReadCacheAssumption DEF Midnight, CacheInv, TypeOK, ReadCacheAssumption
  <2>3. TypeOK'
    BY <2>1, <2>2 DEF CacheInv, TypeOK
  <2>4. WritesOK'
    <3>1. \A w \in Writer : write[w].n \in Nat /\ write[w].n <= data
      BY DEF CacheInv, TypeOK, WritesOK, Write
    <3>2. QED  BY <2>1, <2>2, <3>1 DEF CacheInv, WritesOK, Announced
  <2>5. \A a, n : Saw(a, n)' = Saw(a, n)
    BY <2>1 DEF Saw, Announced
  <2>6. ReadsOK' /\ EntriesOK'
    BY <2>1, <2>5 DEF CacheInv, ReadsOK, EntriesOK
  <2>7. QED  BY <2>3, <2>4, <2>6 DEF CacheInv
<1>5. QED  BY <1>2, <1>3, <1>4, ReadStep, WriteStep, ResetStep DEF Next

\* The inductive invariant of reads, writes, resets and cached entries, whatever call
\* is lost: what a fill and an entry have seen, and which versions can still serve them.
THEOREM CacheInvariant == Spec => []CacheInv
<1> QED  BY InitCacheInv, NextCacheInv, PTL DEF Spec

\* An entry misses an announced write only if the announcement came after the fill
\* had begun and, when it is served still, before the fill stored it.
THEOREM MissesOverlap == Spec => []MissesOnlyOverlapping
<1>1. CacheInv => MissesOnlyOverlapping
  <2> SUFFICES ASSUME CacheInv, NEW e \in cache, NEW w \in Writer,
                      Announced(w), write[w].n > e.seen
               PROVE  /\ e.asked < write[w].at
                      /\ e.ver = ver /\ e.era = flushes => write[w].at <= e.stored
    BY DEF MissesOnlyOverlapping
  <2>1. /\ e.asked \in Nat /\ e.seen \in Nat /\ e.stored \in Nat
        /\ write[w].at \in Nat /\ write[w].n \in Nat
    BY Parts DEF Entry, Write
  <2>2. e.asked < write[w].at
    BY <2>1, Parts DEF EntriesOK, Saw
  <2>3. e.ver = ver /\ e.era = flushes => write[w].at <= e.stored
    BY Parts DEF EntriesOK, WritesOK
  <2>4. QED  BY <2>2, <2>3
<1>2. QED  BY <1>1, CacheInvariant, PTL

=============================================================================
