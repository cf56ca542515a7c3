--------------------------- MODULE GuestIoProofs ---------------------------
(***************************************************************************)
(* Proofs about what demu does in the guest's memory.                      *)
(*                                                                         *)
(* Mapcache and GuestIo: for every size of the cache, every set of pages   *)
(* and every set of requests that Xen may make, the cache's mappings are   *)
(* those of the pages it claims and are all accounted for, a page is found *)
(* unless an entry outlived its mapping, each byte of a request is moved   *)
(* once between the places it names, and the pages that it wrote are those *)
(* it marked dirty.  The lemmas about Mapcache come first.                 *)
(* They know of an entry only whether it claims a page, and the victim of  *)
(* a fault and the entry that answers only as some entries of the page's   *)
(* bucket.                                                                 *)
(*                                                                         *)
(* GuestMaps: for every region, every list of pages and every hypercall    *)
(* that fails, what was granted is in the guest and what was given back is *)
(* gone.  Pins are counted in lists: the lemmas on counting come before    *)
(* the steps.                                                              *)
(***************************************************************************)
EXTENDS GuestIo, GuestMaps, TLAPS, FiniteSetTheorems, SequenceTheorems,
        WellFoundedInduction

Cells == [pfn : Pages \cup {0}, ptr : Ptrs \cup {NoPtr}, epoch : Nat]

-----------------------------------------------------------------------------
(* The cache.                                                              *)

LEMMA MinOfNats ==
    ASSUME NEW S \in SUBSET Nat, S # {}
    PROVE  \E m \in S : \A n \in S : m <= n
<1>1. PICK m \in S : \A n \in S : ~(<<n, m>> \in OpToRel(<, Nat))
  BY NatLessThanWellFounded, WFMin, Zenon
<1>2. \A n \in S : ~(n < m)
  BY <1>1, Zenon DEF OpToRel
<1> QED
  BY <1>2

LEMMA EntriesFinite ==
    /\ IsFiniteSet(Entries)
    /\ \A S \in SUBSET Entries : IsFiniteSet(S) /\ Cardinality(S) \in Nat
<1>1. IsFiniteSet(0 .. Buckets - 1) /\ IsFiniteSet(1 .. Ways)
  BY MapcacheAssumption, FS_Interval
<1>2. IsFiniteSet(Entries)
  BY <1>1, FS_Product DEF Entries
<1> QED
  BY <1>2, FS_Subset, FS_CardinalityType

\* Every page has a bucket, which is not empty.
LEMMA BucketHasEntries ==
    ASSUME NEW p \in Nat
    PROVE  Bucket(p) \subseteq Entries /\ Bucket(p) # {}
<1>1. p % Buckets \in 0 .. Buckets - 1 /\ 1 \in 1 .. Ways
  BY MapcacheAssumption
<1>2. <<p % Buckets, 1>> \in Bucket(p)
  BY <1>1 DEF Bucket, Entries
<1> QED
  BY <1>2 DEF Bucket

\* The entry that a fault empties is one of the page's bucket: there is an
\* oldest epoch, and a first entry that has it.
LEMMA VictimInBucket ==
    ASSUME NEW c \in [Entries -> Cells], NEW p \in Nat
    PROVE  Victim(c, p) \in Bucket(p)
<1> DEFINE E == {c[f].epoch : f \in Bucket(p)}
<1>1. E \in SUBSET Nat /\ E # {}
  BY BucketHasEntries DEF Cells
<1>2. PICK m \in E : \A n \in E : m <= n
  BY <1>1, MinOfNats
<1> DEFINE W == {e[2] : e \in {f \in Bucket(p) : c[f].epoch = m}}
<1>3. W \in SUBSET Nat /\ W # {}
  BY <1>2, MapcacheAssumption DEF Bucket, Entries
<1>4. PICK w \in W : \A x \in W : w <= x
  <2> HIDE DEF W
  <2> QED BY <1>3, MinOfNats
<1>5. PICK e \in Bucket(p) : c[e].epoch = m /\ e[2] = w
  BY <1>4
<1>6. ASSUME NEW f \in Bucket(p)
      PROVE  c[e].epoch < c[f].epoch \/ (c[e].epoch = c[f].epoch /\ e[2] <= f[2])
  <2>1. m <= c[f].epoch /\ m \in Nat /\ c[f].epoch \in Nat
    BY <1>1, <1>2
  <2>2. c[f].epoch = m => w <= f[2]
    BY <1>4
  <2> QED
    BY <1>5, <2>1, <2>2
<1> QED
  BY <1>5, <1>6, Zenon DEF Victim

\* The entry that answers is one that claims the page.
LEMMA LastIsClaim ==
    ASSUME NEW c \in [Entries -> Cells], NEW p \in Nat, Claims(c, p) # {}
    PROVE  (CHOOSE g \in Claims(c, p) : \A f \in Claims(c, p) : f[2] <= g[2]) \in Claims(c, p)
<1> DEFINE W == {Ways - e[2] : e \in Claims(c, p)}
<1>1. Claims(c, p) \subseteq Entries
  BY DEF Claims, Bucket
<1>2. W \in SUBSET Nat /\ W # {}
  BY <1>1, MapcacheAssumption DEF Entries
<1>3. PICK w \in W : \A x \in W : w <= x
  <2> HIDE DEF W
  <2> QED BY <1>2, MinOfNats
<1>4. PICK e \in Claims(c, p) : w = Ways - e[2]
  BY <1>3
<1>5. ASSUME NEW f \in Claims(c, p)
      PROVE  f[2] <= e[2]
  <2>1. w <= Ways - f[2]
    BY <1>3
  <2>2. e[2] \in 1 .. Ways /\ f[2] \in 1 .. Ways
    BY <1>1 DEF Entries
  <2> QED
    BY <1>4, <2>1, <2>2, MapcacheAssumption
<1> QED
  BY <1>4, <1>5, Zenon

\* What a page is found with is the mapping of an entry that claims it.
LEMMA FoundInClaims ==
    ASSUME NEW c \in [Entries -> Cells], NEW p \in Nat, Claims(c, p) # {}
    PROVE  \E e \in Claims(c, p) : Found(c, p) = c[e].ptr
BY LastIsClaim DEF Found

\* Being used leaves an entry its page and its mapping.
LEMMA TouchKeeps ==
    ASSUME NEW c \in [Entries -> Cells], NEW p \in Nat, NEW n \in Nat
    PROVE  /\ Touch(c, n, p) \in [Entries -> Cells]
           /\ Touched(c, n, p) \in Nat
           /\ \A e \in Entries : /\ Touch(c, n, p)[e].pfn = c[e].pfn
                                 /\ Touch(c, n, p)[e].ptr = c[e].ptr
<1>1. \A S \in SUBSET Claims(c, p) : Cardinality(S) \in Nat
  BY EntriesFinite DEF Claims, Bucket
<1>2. Touched(c, n, p) \in Nat
  BY <1>1 DEF Touched
<1>3. \A e \in Entries : n + Cardinality({f \in Claims(c, p) : f[2] < e[2]}) \in Nat
  BY <1>1
<1>4. ASSUME NEW e \in Entries
      PROVE  /\ Touch(c, n, p)[e] \in Cells
             /\ Touch(c, n, p)[e].pfn = c[e].pfn
             /\ Touch(c, n, p)[e].ptr = c[e].ptr
  <2> DEFINE k == n + Cardinality({f \in Claims(c, p) : f[2] < e[2]})
  <2>1. k \in Nat /\ c[e] \in Cells
    BY <1>3
  <2>2. Touch(c, n, p)[e] = IF e \in Claims(c, p) THEN [c[e] EXCEPT !.epoch = k] ELSE c[e]
    BY DEF Touch
  <2> HIDE DEF k
  <2> QED
    BY <2>1, <2>2 DEF Cells
<1>5. Touch(c, n, p) = [e \in Entries |-> Touch(c, n, p)[e]]
  BY DEF Touch
<1> QED
  BY <1>2, <1>4, <1>5

\* Two caches with the same pages and mappings find the same.
Alike(c, d) == \A e \in Entries : c[e].pfn = d[e].pfn /\ c[e].ptr = d[e].ptr

LEMMA AlikeFinds ==
    ASSUME NEW c \in [Entries -> Cells], NEW d \in [Entries -> Cells], Alike(c, d), NEW q \in Nat
    PROVE  /\ Claims(c, q) = Claims(d, q)
           /\ Found(c, q) = Found(d, q)
           /\ Held(c) = Held(d)
<1>1. Claims(c, q) = Claims(d, q) /\ Held(c) = Held(d)
  BY DEF Alike, Claims, Bucket, Held
<1>2. CASE Claims(d, q) = {}
  BY <1>1, <1>2 DEF Found
<1>3. CASE Claims(d, q) # {}
  <2> DEFINE L == CHOOSE g \in Claims(d, q) : \A f \in Claims(d, q) : f[2] <= g[2]
  <2>1. Found(d, q) = d[L].ptr /\ Found(c, q) = c[L].ptr
    BY <1>1, <1>3 DEF Found
  <2>2. L \in Claims(d, q)
    BY <1>3, LastIsClaim, Zenon
  <2> HIDE DEF L
  <2>3. Found(c, q) = Found(d, q)
    BY <2>1, <2>2 DEF Alike, Claims, Bucket
  <2> QED
    BY <1>1, <2>3
<1> QED
  BY <1>2, <1>3

\* What a fault leaves: one entry of the bucket changes.
LEMMA FaultIs ==
    ASSUME CacheTypeOK, NEW c \in [Entries -> Cells], NEW p \in Nat, NEW ok \in BOOLEAN,
           CanMap(p, ok)
    PROVE  /\ Victim(c, p) \in Bucket(p) /\ Bucket(p) \subseteq Entries
           /\ Fault(c, p, ok) \in [Entries -> Cells]
           /\ \A e \in Entries \ {Victim(c, p)} : Fault(c, p, ok)[e] = c[e]
           /\ Fault(c, p, ok)[Victim(c, p)].ptr =
                  IF ok THEN [page |-> p, frame |-> frame[p]] ELSE NoPtr
           /\ Fault(c, p, ok)[Victim(c, p)].pfn = IF ok THEN p ELSE c[Victim(c, p)].pfn
<1> DEFINE v == Victim(c, p)
           m == IF ok THEN [page |-> p, frame |-> frame[p]] ELSE NoPtr
           n == IF ok THEN p ELSE c[v].pfn
<1>1. v \in Bucket(p) /\ Bucket(p) \subseteq Entries /\ v \in Entries
  BY VictimInBucket, BucketHasEntries
<1>2. m \in Ptrs \cup {NoPtr}
  BY DEF CanMap, CacheTypeOK, Ptrs
<1>3. n \in Pages \cup {0}
  BY <1>1, MapcacheAssumption DEF CanMap, Cells
<1>4. Fault(c, p, ok) = [c EXCEPT ![v].ptr = m, ![v].pfn = IF ok THEN p ELSE @]
  BY DEF Fault
<1> HIDE DEF v, m
<1>5. Fault(c, p, ok) = [c EXCEPT ![v] = [c[v] EXCEPT !.ptr = m, !.pfn = n]]
  BY <1>1, <1>4 DEF Cells
<1> HIDE DEF n
<1>6. [c[v] EXCEPT !.ptr = m, !.pfn = n] \in Cells
  BY <1>1, <1>2, <1>3 DEF Cells
<1>7. c[v] \in Cells
  BY <1>1
<1>8. /\ [c[v] EXCEPT !.ptr = m, !.pfn = n].ptr = m
      /\ [c[v] EXCEPT !.ptr = m, !.pfn = n].pfn = n
  BY <1>7 DEF Cells
<1>9. /\ Fault(c, p, ok) \in [Entries -> Cells]
      /\ \A e \in Entries \ {v} : Fault(c, p, ok)[e] = c[e]
      /\ Fault(c, p, ok)[v].ptr = m /\ Fault(c, p, ok)[v].pfn = n
  BY <1>1, <1>5, <1>6, <1>8
<1> QED
  BY <1>1, <1>9 DEF v, m, n

-----------------------------------------------------------------------------
(* What a lookup does to the cache, in terms of pages and mappings.        *)

\* The page was found: only epochs change.
Unmoved ==
    /\ Alike(cache', cache) /\ windows' = windows /\ dropped' = dropped

\* Entry v of the page's bucket lost its mapping, and got that of page p if it
\* could be had.
Moved(v, p, ok) ==
    /\ \A e \in Entries \ {v} : cache'[e].pfn = cache[e].pfn /\ cache'[e].ptr = cache[e].ptr
    /\ cache'[v].ptr = IF ok THEN [page |-> p, frame |-> frame[p]] ELSE NoPtr
    /\ cache'[v].pfn = IF ok THEN p ELSE cache[v].pfn
    /\ windows' = windows - UndoneBy(cache[v]) + (IF ok THEN 1 ELSE 0)
    /\ dropped' = IF ~ok /\ cache[v].ptr # NoPtr THEN dropped \cup {cache[v].pfn} ELSE dropped

LEMMA LookupIs ==
    ASSUME CacheTypeOK, NEW p \in Nat, NEW ok \in BOOLEAN, Lookup(p, ok)
    PROVE  /\ cache' \in [Entries -> Cells] /\ epoch' \in Nat
           /\ UNCHANGED <<frame, stale>>
           /\ ok => p \in GuestPages
           /\ Hit(p) => Unmoved
           /\ ~Hit(p) => \E v \in Bucket(p) : Moved(v, p, ok)
<1> DEFINE c == Looked(p)
           n == Touched(cache, epoch, p)
           d == Faulted(p, ok)
           v == Victim(c, p)
<1>1. CanMap(p, ok) /\ cache \in [Entries -> Cells] /\ epoch \in Nat
  BY DEF Lookup, CacheTypeOK, Cells
<1>2. /\ c \in [Entries -> Cells] /\ n \in Nat /\ Alike(c, cache)
  BY <1>1, TouchKeeps DEF Looked, Alike
<1> HIDE DEF c, n
<1>3. /\ v \in Bucket(p) /\ v \in Entries /\ d \in [Entries -> Cells]
      /\ \A e \in Entries \ {v} : d[e] = c[e]
      /\ d[v].ptr = IF ok THEN [page |-> p, frame |-> frame[p]] ELSE NoPtr
      /\ d[v].pfn = IF ok THEN p ELSE c[v].pfn
  BY <1>1, <1>2, FaultIs DEF Faulted, c
<1> HIDE DEF v, d
<1>4. /\ Touch(d, n, p) \in [Entries -> Cells] /\ Touched(d, n, p) \in Nat
      /\ Alike(Touch(d, n, p), d)
  BY <1>2, <1>3, TouchKeeps DEF Alike
<1>5. /\ cache' = IF Hit(p) THEN c ELSE Touch(d, n, p)
      /\ epoch' = IF Hit(p) THEN n ELSE Touched(d, n, p)
      /\ windows' = IF Hit(p) THEN windows
                    ELSE windows - UndoneBy(c[v]) + (IF ok THEN 1 ELSE 0)
      /\ dropped' = IF ~Hit(p) /\ ~ok /\ c[v].ptr # NoPtr THEN dropped \cup {c[v].pfn}
                    ELSE dropped
      /\ UNCHANGED <<frame, stale>>
  BY DEF Lookup, c, n, d, v
<1>6. c[v].ptr = cache[v].ptr /\ c[v].pfn = cache[v].pfn
  BY <1>2, <1>3 DEF Alike
<1>7. cache' \in [Entries -> Cells] /\ epoch' \in Nat
  BY <1>2, <1>4, <1>5
<1>8. CASE Hit(p)
  BY <1>1, <1>2, <1>5, <1>7, <1>8 DEF Unmoved, CanMap
<1>9. CASE ~Hit(p)
  <2>1. \A e \in Entries \ {v} : cache'[e].pfn = cache[e].pfn /\ cache'[e].ptr = cache[e].ptr
    BY <1>2, <1>3, <1>4, <1>5, <1>9 DEF Alike
  <2>2. /\ cache'[v].ptr = IF ok THEN [page |-> p, frame |-> frame[p]] ELSE NoPtr
        /\ cache'[v].pfn = IF ok THEN p ELSE cache[v].pfn
    BY <1>3, <1>4, <1>5, <1>6, <1>9 DEF Alike
  <2>3. /\ windows' = windows - UndoneBy(cache[v]) + (IF ok THEN 1 ELSE 0)
        /\ dropped' = IF ~ok /\ cache[v].ptr # NoPtr THEN dropped \cup {cache[v].pfn} ELSE dropped
    BY <1>5, <1>6, <1>9 DEF UndoneBy
  <2>4. Moved(v, p, ok)
    BY <2>1, <2>2, <2>3 DEF Moved
  <2> QED
    BY <1>1, <1>3, <1>5, <1>7, <1>9, <2>4 DEF CanMap
<1> QED
  BY <1>8, <1>9

-----------------------------------------------------------------------------
(* The invariant of the cache.                                             *)

\* Only an entry that outlived its mapping claims a page it does not map, or a
\* page that another entry claims too.
OneClaim ==
    \A p \in Pages \ dropped : \A e \in Claims(cache, p) :
        e \in Held(cache) /\ Claims(cache, p) = {e}

CacheInv == CacheTypeOK /\ MappingsAreCurrent /\ 0 \in dropped /\ OneClaim

LEMMA CacheInitInv == CacheInit => CacheInv
<1> SUFFICES ASSUME CacheInit PROVE CacheInv
  OBVIOUS
<1>1. [pfn |-> 0, ptr |-> NoPtr, epoch |-> 0] \in Cells
  BY DEF Cells
<1>2. CacheTypeOK
  BY <1>1, MapcacheAssumption DEF CacheInit, CacheTypeOK, Cells
<1>3. Held(cache) = {} /\ \A e \in Entries : cache[e].pfn = 0
  BY DEF CacheInit, Held
<1>4. MappingsAreCurrent
  BY <1>3, FS_EmptySet DEF CacheInit, MappingsAreCurrent
<1>5. 0 \in dropped /\ OneClaim
  BY <1>3 DEF CacheInit, OneClaim, Claims, Bucket
<1> QED
  BY <1>2, <1>4, <1>5 DEF CacheInv

\* A page that was not found is claimed by no entry, or by one that outlived
\* its mapping.
LEMMA HitIfClaimed ==
    ASSUME CacheInv, NEW p \in Pages \ dropped, ~Hit(p)
    PROVE  Claims(cache, p) = {}
<1> SUFFICES ASSUME Claims(cache, p) # {} PROVE FALSE
  OBVIOUS
<1>1. cache \in [Entries -> Cells] /\ p \in Nat
  BY MapcacheAssumption DEF CacheInv, CacheTypeOK, Cells
<1>2. PICK e \in Claims(cache, p) : Found(cache, p) = cache[e].ptr
  BY <1>1, FoundInClaims
<1>3. e \in Held(cache)
  BY <1>2 DEF CacheInv, OneClaim
<1> QED
  BY <1>2, <1>3 DEF Hit, Held

LEMMA LookupKeeps ==
    ASSUME CacheInv, NEW p \in Nat, NEW ok \in BOOLEAN, Lookup(p, ok)
    PROVE  CacheInv'
<1> USE DEF CacheInv
<1>1. /\ cache \in [Entries -> Cells] /\ cache' \in [Entries -> Cells]
      /\ epoch' \in Nat /\ UNCHANGED <<frame, stale>> /\ (ok => p \in GuestPages)
  BY LookupIs DEF CacheTypeOK, Cells
<1>2. CASE Hit(p)
  <2>1. Alike(cache', cache) /\ windows' = windows /\ dropped' = dropped
    BY <1>2, LookupIs DEF Unmoved
  <2>2. Held(cache') = Held(cache) /\ \A q \in Nat : Claims(cache', q) = Claims(cache, q)
    BY <1>1, <2>1, AlikeFinds
  <2>3. CacheTypeOK'
    BY <1>1, <2>1 DEF CacheTypeOK, Cells
  <2>4. MappingsAreCurrent'
    BY <1>1, <2>1, <2>2 DEF MappingsAreCurrent, Alike, Held
  <2>5. OneClaim'
    BY <2>1, <2>2, MapcacheAssumption DEF OneClaim
  <2> QED
    BY <2>1, <2>3, <2>4, <2>5
<1>3. CASE ~Hit(p)
  <2>1. PICK v \in Bucket(p) : Moved(v, p, ok)
    BY <1>3, LookupIs
  <2>2. v \in Entries /\ Bucket(p) \subseteq Entries
    BY BucketHasEntries
  <2>3. Held(cache') = IF ok THEN Held(cache) \cup {v} ELSE Held(cache) \ {v}
    <3>1. \A e \in Entries \ {v} : e \in Held(cache') <=> e \in Held(cache)
      BY <2>1 DEF Moved, Held
    <3>2. v \in Held(cache') <=> ok
      <4>1. ok => [page |-> p, frame |-> frame[p]] # NoPtr
        BY DEF NoPtr
      <4> QED
        BY <2>1, <2>2, <4>1 DEF Moved, Held
    <3> QED
      BY <2>2, <3>1, <3>2 DEF Held
  <2>4. windows' = Cardinality(Held(cache')) /\ windows' \in Nat
    <3>1. IsFiniteSet(Held(cache)) /\ IsFiniteSet(Held(cache'))
      BY EntriesFinite DEF Held
    <3>2. Cardinality(Held(cache)) \in Nat /\ Cardinality(Held(cache')) \in Nat
      BY <3>1, FS_CardinalityType
    <3>3. windows = Cardinality(Held(cache))
      BY DEF MappingsAreCurrent
    <3>4. UndoneBy(cache[v]) = IF v \in Held(cache) THEN 1 ELSE 0
      BY <2>2 DEF UndoneBy, Held
    <3>5. Cardinality(Held(cache')) =
            Cardinality(Held(cache)) - UndoneBy(cache[v]) + (IF ok THEN 1 ELSE 0)
      BY <2>3, <3>1, <3>2, <3>4, FS_AddElement, FS_RemoveElement
    <3> QED
      BY <2>1, <3>2, <3>3, <3>5 DEF Moved
  <2>5. CacheTypeOK'
    <3>1. cache[v].pfn \in Pages \cup {0}
      BY <1>1, <2>2 DEF Cells
    <3>2. dropped' \subseteq Pages \cup {0}
      BY <2>1, <3>1 DEF Moved, CacheTypeOK
    <3> QED
      BY <1>1, <2>4, <3>2 DEF CacheTypeOK, Cells
  <2>6. MappingsAreCurrent'
    <3>1. ASSUME NEW e \in Held(cache')
          PROVE  /\ cache'[e].ptr.page = cache'[e].pfn
                 /\ cache'[e].ptr.page \notin stale' => cache'[e].ptr.frame = frame'[cache'[e].pfn]
      <4>1. CASE e = v
        BY <1>1, <2>1, <2>2, <2>3, <4>1 DEF Moved, Held
      <4>2. CASE e # v
        <5>1. e \in Held(cache) /\ e \in Entries
          BY <2>3, <4>2 DEF Held
        <5>2. cache'[e].pfn = cache[e].pfn /\ cache'[e].ptr = cache[e].ptr
          BY <2>1, <4>2, <5>1 DEF Moved
        <5> QED
          BY <1>1, <5>1, <5>2 DEF MappingsAreCurrent
      <4> QED
        BY <4>1, <4>2
    <3> QED
      BY <2>4, <3>1 DEF MappingsAreCurrent
  <2>7. dropped \subseteq dropped'
    BY <2>1 DEF Moved
  <2>8. ASSUME NEW q \in Pages \ dropped', NEW e \in Claims(cache', q)
        PROVE  e \in Held(cache') /\ Claims(cache', q) = {e}
    <3>1. q \in Pages \ dropped /\ e \in Entries
      BY <2>7 DEF Claims, Bucket
    <3>2. \A f \in Entries \ {v} : f \in Claims(cache', q) <=> f \in Claims(cache, q)
      BY <2>1 DEF Moved, Claims, Bucket
    <3>3. CASE ok /\ q = p
      <4>1. Claims(cache, q) = {}
        BY <1>3, <3>1, <3>3, HitIfClaimed
      <4>2. Claims(cache', q) \subseteq {v}
        BY <3>2, <4>1 DEF Claims, Bucket
      <4> QED
        BY <2>3, <3>3, <4>2
    <3>4. CASE ok /\ q # p
      <4>1. v \notin Claims(cache', q)
        BY <2>1, <3>4 DEF Moved, Claims
      <4>2. e \in Claims(cache, q) /\ e # v
        BY <3>1, <3>2, <4>1
      <4>3. e \in Held(cache) /\ Claims(cache, q) = {e}
        BY <3>1, <4>2 DEF OneClaim
      <4>4. Claims(cache', q) \subseteq {e}
        BY <3>2, <4>1, <4>3 DEF Claims, Bucket
      <4> QED
        BY <2>3, <3>4, <4>3, <4>4
    <3>5. CASE ~ok
      <4>1. v \in Claims(cache', q) <=> v \in Claims(cache, q)
        BY <2>1, <3>5 DEF Moved, Claims
      <4>2. Claims(cache', q) = Claims(cache, q)
        BY <3>2, <4>1 DEF Claims, Bucket
      <4>3. e \in Held(cache) /\ Claims(cache, q) = {e}
        BY <3>1, <4>2 DEF OneClaim
      <4>4. e # v
        \* Its page would be among those dropped.
        <5>1. CASE e = v
          <6>1. cache[v].pfn = q /\ cache[v].ptr # NoPtr
            BY <4>3, <5>1 DEF Claims, Held
          <6> QED
            BY <2>1, <3>5, <6>1 DEF Moved
        <5> QED
          BY <5>1
      <4> QED
        BY <2>3, <3>5, <4>2, <4>3, <4>4
    <3> QED
      BY <3>3, <3>4, <3>5
  <2>9. OneClaim'
    BY <2>8 DEF OneClaim
  <2> QED
    BY <2>5, <2>6, <2>7, <2>9
<1> QED
  BY <1>2, <1>3

LEMMA InvalidateKeeps ==
    ASSUME CacheInv, Invalidate
    PROVE  CacheInv'
<1> USE DEF CacheInv
<1>1. /\ cache \in [Entries -> Cells]
      /\ cache' = [e \in Entries |-> [cache[e] EXCEPT !.ptr = NoPtr]]
  BY DEF CacheTypeOK, Cells, Invalidate, Unmapped
<1>2. \A e \in Entries : cache'[e].ptr = NoPtr /\ cache'[e].pfn = cache[e].pfn
  BY <1>1 DEF Cells
<1>3. cache' \in [Entries -> Cells]
  BY <1>1 DEF Cells
<1>4. Held(cache') = {}
  BY <1>2 DEF Held
<1>5. windows' = 0
  <2>1. Cardinality(Held(cache)) \in Nat
    BY EntriesFinite DEF Held
  <2> QED
    BY <2>1 DEF MappingsAreCurrent, Invalidate
<1>6. dropped' = dropped \cup {cache[e].pfn : e \in Held(cache)}
  BY DEF Invalidate
<1>7. CacheTypeOK'
  <2>1. dropped' \subseteq Pages \cup {0}
    BY <1>1, <1>6 DEF CacheTypeOK, Cells, Held
  <2> QED
    BY <1>3, <1>5, <2>1 DEF CacheTypeOK, Cells, Invalidate
<1>8. MappingsAreCurrent'
  BY <1>4, <1>5, FS_EmptySet DEF MappingsAreCurrent
<1>9. ASSUME NEW q \in Pages \ dropped', NEW e \in Claims(cache', q)
      PROVE  FALSE
  <2>1. e \in Entries /\ e \in Claims(cache, q) /\ cache[e].pfn = q
    BY <1>2 DEF Claims, Bucket
  <2>2. e \in Held(cache)
    BY <1>6, <2>1 DEF OneClaim
  <2> QED
    BY <1>6, <2>1, <2>2
<1> QED
  BY <1>6, <1>7, <1>8, <1>9 DEF OneClaim

LEMMA ReplaceKeeps ==
    ASSUME CacheInv, NEW p \in GuestPages, Replace(p)
    PROVE  CacheInv'
<1> USE DEF CacheInv
<1>1. UNCHANGED <<cache, epoch, windows, dropped>>
  BY DEF Replace
<1>2. frame' = [frame EXCEPT ![p] = @ + 1] /\ stale' = stale \cup {p} /\ frame[p] < MaxFrame
  BY DEF Replace
<1>3. CacheTypeOK'
  BY <1>1, <1>2, MapcacheAssumption DEF CacheTypeOK
<1>4. MappingsAreCurrent'
  BY <1>1, <1>2 DEF MappingsAreCurrent, CacheTypeOK, Held
<1>5. OneClaim'
  BY <1>1 DEF OneClaim, Claims, Bucket, Held
<1> QED
  BY <1>1, <1>3, <1>4, <1>5

\* What the invariant says of a lookup that is about to be made.
LEMMA CacheInvFinds == CacheInv => MappingsAreCurrent /\ FoundUnlessDropped
<1> SUFFICES ASSUME CacheInv, NEW p \in Pages \ dropped
             PROVE  /\ \A e \in Claims(cache, p) : e \in Held(cache) /\ Claims(cache, p) = {e}
                    /\ p \in GuestPages => Answer(p, TRUE).page = p
  BY DEF CacheInv, FoundUnlessDropped
<1>1. \A e \in Claims(cache, p) : e \in Held(cache) /\ Claims(cache, p) = {e}
  BY DEF CacheInv, OneClaim
<1>2. cache \in [Entries -> Cells] /\ p \in Nat /\ epoch \in Nat
  BY MapcacheAssumption DEF CacheInv, CacheTypeOK, Cells
<1>3. ASSUME p \in GuestPages, Hit(p)
      PROVE  Answer(p, TRUE).page = p
  <2>1. Claims(cache, p) # {}
    BY <1>3 DEF Hit, Found
  <2>2. PICK e \in Claims(cache, p) : Found(cache, p) = cache[e].ptr
    BY <1>2, <2>1, FoundInClaims
  <2>3. cache[e].ptr.page = cache[e].pfn /\ cache[e].pfn = p
    BY <1>1, <2>2 DEF CacheInv, MappingsAreCurrent, Claims
  <2> QED
    BY <1>3, <2>2, <2>3 DEF Answer
<1>4. ASSUME p \in GuestPages, ~Hit(p)
      PROVE  Answer(p, TRUE).page = p
  <2> DEFINE c == Looked(p)
             v == Victim(c, p)
             d == Faulted(p, TRUE)
  <2>1. c \in [Entries -> Cells] /\ Alike(c, cache)
    BY <1>2, TouchKeeps DEF Looked, Alike
  <2>2. Claims(c, p) = {}
    BY <1>2, <1>4, <2>1, AlikeFinds, HitIfClaimed
  <2> HIDE DEF c
  <2>3. CanMap(p, TRUE) /\ CacheTypeOK
    BY <1>4 DEF CanMap, CacheInv
  <2>4. /\ v \in Bucket(p) /\ d \in [Entries -> Cells]
        /\ \A e \in Entries \ {v} : d[e] = c[e]
        /\ d[v].ptr = [page |-> p, frame |-> frame[p]] /\ d[v].pfn = p
    <3>1. PICK ok \in BOOLEAN : ok = TRUE
      OBVIOUS
    <3>2. CanMap(p, ok)
      BY <2>3, <3>1
    <3>3. /\ v \in Bucket(p) /\ Fault(c, p, ok) \in [Entries -> Cells]
          /\ \A e \in Entries \ {v} : Fault(c, p, ok)[e] = c[e]
          /\ Fault(c, p, ok)[v].ptr = IF ok THEN [page |-> p, frame |-> frame[p]] ELSE NoPtr
          /\ Fault(c, p, ok)[v].pfn = IF ok THEN p ELSE c[v].pfn
      BY <1>2, <2>1, <2>3, <3>2, FaultIs
    <3>4. d = Fault(c, p, ok)
      BY <3>1 DEF Faulted, c
    <3> QED
      BY <3>1, <3>3, <3>4
  <2> HIDE DEF v, d
  <2>5. Claims(d, p) = {v}
    BY <2>2, <2>4 DEF Claims, Bucket
  <2>6. Found(d, p) = d[v].ptr
    BY <1>2, <2>4, <2>5, FoundInClaims
  <2>7. Found(d, p).page = p
    BY <2>4, <2>6
  <2> QED
    BY <1>4, <2>7 DEF Answer, d
<1> QED
  BY <1>1, <1>3, <1>4

-----------------------------------------------------------------------------
(* The accesses of an item.                                                *)

LEMMA OffsetType ==
    ASSUME NEW r \in Request, NEW i \in Nat
    PROVE  Offset(r, i) \in Nat /\ Step(r) \in Nat
<1>1. \A z \in Nat : z % SizeMod \in Nat /\ (SizeMod - z) % SizeMod \in Nat
  BY GuestIoAssumption
<1>2. r.size \in Nat
  BY DEF Request
<1>3. \A k \in Nat : k * r.size \in Nat
  BY <1>2
<1>4. \A k \in Nat : Offset(r, k) \in Nat
  BY <1>1, <1>3, Zenon DEF Offset
<1> QED
  BY <1>4 DEF Step

\* A place within what is left of a page is in the page.
LEMMA SamePage ==
    ASSUME NEW x \in Nat, NEW s \in Nat, (x % PageSize) + s < PageSize
    PROVE  (x + s) \div PageSize = x \div PageSize
<1> DEFINE q == x \div PageSize
           r == x % PageSize
           d == (x + s) \div PageSize
           m == (x + s) % PageSize
<1>1. PageSize \in Nat \ {0}
  BY GuestIoAssumption
<1>2. q \in Nat /\ r \in Nat /\ x = PageSize * q + r /\ r < PageSize
  BY <1>1
<1>3. d \in Nat /\ m \in Nat /\ x + s = PageSize * d + m /\ m < PageSize
  BY <1>1
<1>4. r + s < PageSize
  OBVIOUS
<1> HIDE DEF q, r, d, m
<1>5. PageSize * d + m = PageSize * q + (r + s)
  BY <1>1, <1>2, <1>3
<1>6. ~(d < q)
  <2>1. SUFFICES ASSUME d < q PROVE FALSE
    OBVIOUS
  <2>2. PageSize * (d + 1) <= PageSize * q
    BY <1>1, <1>2, <1>3, <2>1
  <2> QED
    BY <1>1, <1>2, <1>3, <1>5, <2>2
<1>7. ~(q < d)
  <2>1. SUFFICES ASSUME q < d PROVE FALSE
    OBVIOUS
  <2>2. PageSize * (q + 1) <= PageSize * d
    BY <1>1, <1>2, <1>3, <2>1
  <2> QED
    BY <1>1, <1>2, <1>3, <1>4, <1>5, <2>2
<1>8. d = q
  BY <1>2, <1>3, <1>6, <1>7
<1> QED
  BY <1>8 DEF d, q

\* An item of a size that a space knows is split into whole accesses.
LEMMA WidestDivides ==
    ASSUME NEW r \in Request, r.size \in Sizes
    PROVE  /\ Widest(r) \in Sizes
           /\ r.size \div Widest(r) \in Nat \ {0}
           /\ \A j \in 1 .. r.size \div Widest(r) :
                /\ (j - 1) * Widest(r) \in Nat
                /\ (j - 1) * Widest(r) < r.size
<1>1. Widest(r) \in Sizes /\ Widest(r) <= r.size
  BY DEF Widest, Sizes
<1>2. \A w \in Sizes : w <= r.size =>
         /\ r.size \div w \in Nat \ {0}
         /\ \A j \in 1 .. r.size \div w : (j - 1) * w \in Nat /\ (j - 1) * w < r.size
  BY DEF Sizes
<1> QED
  BY <1>1, <1>2

\* Numbers that differ by a multiple of m leave the same rest.
LEMMA Congruent ==
    ASSUME NEW m \in Nat \ {0}, NEW a \in Int, NEW b \in Int, NEW q \in Int, a = b + q * m
    PROVE  a % m = b % m
<1> DEFINE qa == a \div m
           ra == a % m
           qb == b \div m
           rb == b % m
<1>1. qa \in Int /\ ra \in 0 .. m - 1 /\ a = m * qa + ra
  OBVIOUS
<1>2. qb \in Int /\ rb \in 0 .. m - 1 /\ b = m * qb + rb
  OBVIOUS
<1> HIDE DEF qa, ra, qb, rb
<1> DEFINE d == (qa - qb) - q
<1>3. d \in Int /\ m * d = rb - ra
  BY <1>1, <1>2
<1> HIDE DEF d
<1>4. ~(d >= 1)
  <2>1. SUFFICES ASSUME d >= 1 PROVE FALSE
    OBVIOUS
  <2>2. m * d >= m
    BY <1>3, <2>1
  <2> QED
    BY <1>1, <1>2, <1>3, <2>2
<1>5. ~(d <= -1)
  <2>1. SUFFICES ASSUME d <= -1 PROVE FALSE
    OBVIOUS
  <2>2. m * d <= -m
    BY <1>3, <2>1
  <2> QED
    BY <1>1, <1>2, <1>3, <2>2
<1>6. d = 0
  BY <1>3, <1>4, <1>5
<1>7. ra = rb
  BY <1>1, <1>2, <1>3, <1>6
<1> QED
  BY <1>7 DEF ra, rb

\* The offset of an item is that of its place, in the lower 32 bits.
LEMMA OffsetIs ==
    ASSUME NEW r \in Request, NEW i \in Nat
    PROVE  /\ \E q \in Int : Offset(r, i) = Sign(r) * i * r.size + q * SizeMod
           /\ ~r.df /\ i * r.size < SizeMod => Offset(r, i) = i * r.size
<1> DEFINE z == i * r.size
<1>1. z \in Nat /\ r.size \in Nat /\ SizeMod \in Nat \ {0} /\ r.df \in BOOLEAN
  BY GuestIoAssumption DEF Request
<1>2. /\ Sign(r) * i * r.size = IF r.df THEN -z ELSE z
      /\ Offset(r, i) = IF r.df THEN (SizeMod - z) % SizeMod ELSE z % SizeMod
  BY <1>1 DEF Sign, Offset
<1> HIDE DEF z
<1>3. \A y \in Int : \E q \in Int : y % SizeMod = y + q * SizeMod
  <2> SUFFICES ASSUME NEW y \in Int PROVE \E q \in Int : y % SizeMod = y + q * SizeMod
    OBVIOUS
  <2>1. y \div SizeMod \in Int /\ y = SizeMod * (y \div SizeMod) + (y % SizeMod)
    BY <1>1
  <2>2. y % SizeMod \in Int
    BY <1>1
  <2>3. y % SizeMod = y + (-(y \div SizeMod)) * SizeMod
    BY <1>1, <2>1, <2>2
  <2> QED
    BY <2>1, <2>3
<1>4. CASE r.df
  <2>1. PICK q \in Int : (SizeMod - z) % SizeMod = (SizeMod - z) + q * SizeMod
    <3>1. SizeMod - z \in Int
      BY <1>1
    <3> QED
      BY <1>3, <3>1, Zenon
  <2>2. q + 1 \in Int /\ (SizeMod - z) + q * SizeMod = -z + (q + 1) * SizeMod
    BY <1>1, <2>1
  <2>3. Offset(r, i) = Sign(r) * i * r.size + (q + 1) * SizeMod
    BY <1>2, <1>4, <2>1, <2>2
  <2> QED
    BY <1>4, <2>2, <2>3
<1>5. CASE ~r.df
  <2>1. PICK q \in Int : z % SizeMod = z + q * SizeMod
    <3>1. z \in Int
      BY <1>1
    <3> QED
      BY <1>3, <3>1, Zenon
  <2>2. z < SizeMod => z % SizeMod = z
    BY <1>1
  <2> QED
    BY <1>2, <1>5, <2>1, <2>2 DEF z
<1> QED
  BY <1>4, <1>5

\* The address moves on by an item at a time, in the lower 32 bits.
LEMMA StepIs ==
    ASSUME NEW r \in Request, NEW n \in Nat
    PROVE  /\ \E q \in Int :
                n * Step(r) = (IF r.type = "copy" THEN Sign(r) * n * r.size ELSE 0) + q * SizeMod
           /\ ~r.df /\ n * r.size < SizeMod =>
                n * Step(r) = IF r.type = "copy" THEN n * r.size ELSE 0
<1>1. r.size \in Nat /\ SizeMod \in Nat \ {0} /\ Sign(r) \in {1, -1}
  BY GuestIoAssumption DEF Request, Sign
<1>2. CASE r.type # "copy"
  <2>1. n * Step(r) = 0 + 0 * SizeMod
    BY <1>1, <1>2 DEF Step
  <2> QED
    BY <1>1, <1>2, <2>1
<1>3. CASE r.type = "copy"
  <2>1. /\ Step(r) = Offset(r, 1)
        /\ \E q \in Int : Offset(r, 1) = Sign(r) * 1 * r.size + q * SizeMod
        /\ ~r.df /\ 1 * r.size < SizeMod => Offset(r, 1) = 1 * r.size
    <3>1. Step(r) = Offset(r, 1) /\ 1 \in Nat
      BY <1>3 DEF Step
    <3> QED
      BY <3>1, OffsetIs, Zenon
  <2>2. PICK q \in Int : Step(r) = Sign(r) * r.size + q * SizeMod
    <3>1. Sign(r) * 1 * r.size = Sign(r) * r.size
      BY <1>1
    <3> QED
      BY <2>1, <3>1, Zenon
  <2>3. n * q \in Int /\ n * Step(r) = Sign(r) * n * r.size + (n * q) * SizeMod
    BY <1>1, <2>2
  <2>4. ~r.df /\ n * r.size < SizeMod => n * Step(r) = n * r.size
    <3>1. CASE n = 0
      <4>1. Step(r) \in Nat
        BY OffsetType
      <4> QED
        BY <1>1, <3>1, <4>1
    <3>2. CASE n # 0
      <4>1. r.size <= n * r.size
        BY <1>1, <3>2
      <4>2. n * r.size < SizeMod => r.size < SizeMod
        BY <1>1, <4>1
      <4> QED
        BY <1>1, <2>1, <4>2
    <3> QED
      BY <3>1, <3>2
  <2> QED
    BY <1>3, <2>3, <2>4
<1> QED
  BY <1>2, <1>3

Places == {"memory", "field", "lost"}

LEMMA AccessesAre ==
    ASSUME NEW r \in Request, NEW a \in Nat, NEW side \in Places, NEW x \in Nat
    PROVE  /\ Accesses(r, a, side, x) \in Seq(Access)
           /\ r.size \in Sizes => Range(Accesses(r, a, side, x)) # {}
           /\ \A b \in Range(Accesses(r, a, side, x)) :
                b.side = side /\ (side # "lost" => b.at \in x .. x + r.size - 1)
<1>1. CASE r.size \notin Sizes
  BY <1>1 DEF Accesses, Range
<1>2. CASE r.size \in Sizes
  <2> DEFINE n == r.size \div Widest(r)
             shift(j) == (j - 1) * Widest(r)
             acc(j) == [dev |-> a + shift(j), width |-> Widest(r), side |-> side,
                        at |-> IF side = "lost" THEN 0 ELSE x + shift(j)]
  <2>1. /\ Widest(r) \in Sizes /\ n \in Nat \ {0}
        /\ \A j \in 1 .. n : shift(j) \in Nat /\ shift(j) < r.size
    BY <1>2, WidestDivides
  <2>2. Accesses(r, a, side, x) = [j \in 1 .. n |-> acc(j)]
    BY <1>2 DEF Accesses
  <2>3. \A j \in 1 .. n : acc(j) \in Access
    BY <2>1 DEF Access, Places
  <2>4. Accesses(r, a, side, x) \in Seq(Access)
    <3> HIDE DEF n, acc
    <3> QED BY <2>1, <2>2, <2>3
  <2>5. Range(Accesses(r, a, side, x)) = {acc(j) : j \in 1 .. n}
    BY <2>2 DEF Range
  <2>6. \A j \in 1 .. n :
           /\ acc(j).side = side
           /\ side # "lost" => acc(j).at \in x .. x + r.size - 1
    BY <2>1 DEF Request
  <2>7. 1 \in 1 .. n
    BY <2>1
  <2> HIDE DEF n, acc
  <2> QED
    BY <2>4, <2>5, <2>6, <2>7
<1> QED
  BY <1>1, <1>2

-----------------------------------------------------------------------------
(* The invariant of requests.                                              *)

\* The pages of guest memory the accesses in s met.
PagesOf(s) == {a.at \div PageSize : a \in {b \in Range(s) : b.side = "memory"}}

\* While a request is handled, and not only when it is: what it wrote so far is
\* marked.
Marked ==
    req # NoReq => dirty = IF req.dir = "read" THEN PagesOf(moved) ELSE {}

\* The accesses of an item, and where the data of item n is.
Cut(r) == r.size \div Widest(r)
DataOf(r, n) == IF r.ptr THEN r.data + Offset(r, n) ELSE 0

\* The accesses so far are those of the items so far, one item after the other.
Placed ==
    req # NoReq =>
        /\ item <= req.count
        /\ addr = req.addr + item * Step(req)
        /\ item > 0 => Callable(req)
        /\ req.ops # {} /\ req.size \in Sizes =>
            /\ Len(moved) = item * Cut(req)
            /\ \A n \in 0 .. item - 1, j \in 1 .. Cut(req) :
                 LET a == moved[n * Cut(req) + j]
                     shift == (j - 1) * Widest(req)
                 IN /\ a.width = Widest(req)
                    /\ a.dev = req.addr + n * Step(req) + shift
                    /\ a.side # "lost" => a.at = DataOf(req, n) + shift

\* What kills demu is a function that the space lacks.
KilledInv == dead => req # NoReq /\ ~Callable(req)

IInv == TypeOK /\ CacheInv /\ Marked /\ Placed /\ KilledInv

LEMMA PagesOfConcat ==
    ASSUME NEW s \in Seq(Access), NEW t \in Seq(Access)
    PROVE  PagesOf(s \o t) = PagesOf(s) \cup PagesOf(t)
<1>1. Range(s \o t) = Range(s) \cup Range(t)
  BY RangeConcatenation
<1> QED
  BY <1>1 DEF PagesOf

LEMMA PagesOfNone == PagesOf(<<>>) = {}
<1>1. Range(<<>>) = {}
  BY DEF Range
<1> QED
  BY <1>1 DEF PagesOf

\* What is known of the request that is handled.
LEMMA RequestIs ==
    ASSUME TypeOK, req # NoReq
    PROVE  /\ req \in Reqs /\ req \in Request /\ req.dir \in {"read", "write"}
           /\ req.data \in Nat /\ req.count \in Nat /\ req.size \in Nat
<1>1. req \in Reqs /\ req \in Request
  BY GuestIoAssumption DEF TypeOK
<1> QED
  BY <1>1 DEF Request

LEMMA InitInv == Init => IInv
<1> SUFFICES ASSUME Init PROVE IInv
  OBVIOUS
<1>1. CacheInv
  BY CacheInitInv DEF Init
<1>2. TypeOK
  <2>1. dead \in BOOLEAN /\ dirty \subseteq Pages
    BY DEF Init
  <2>2. req \in {NoReq} /\ item \in Nat /\ addr \in Nat /\ moved \in Seq(Access)
    BY DEF Init
  <2> QED
    BY <1>1, <2>1, <2>2 DEF TypeOK, CacheInv
<1> QED
  BY <1>1, <1>2 DEF Init, IInv, Marked, Placed, KilledInv

LEMMA StartStep ==
    ASSUME IInv, NEW r \in Reqs, Start(r)
    PROVE  TypeOK' /\ CacheInv' /\ Marked' /\ Placed'
<1> USE DEF IInv
<1>1. CacheInv'
  BY DEF Start, cacheVars, CacheInv, CacheTypeOK, MappingsAreCurrent, OneClaim, Held, Claims, Bucket
<1>2. r.addr \in Nat
  BY GuestIoAssumption DEF Request
<1>3. TypeOK'
  BY <1>1, <1>2 DEF Start, TypeOK, CacheInv
<1>4. Marked'
  BY PagesOfNone DEF Start, Marked
<1>5. Placed'
  <2>1. r \in Request /\ r.count \in Nat
    BY GuestIoAssumption DEF Request
  <2>2. /\ req' = r /\ item' = 0 /\ addr' = r.addr /\ moved' = <<>>
    BY DEF Start
  <2>3. Step(r) \in Nat /\ 0 * Step(r) = 0 /\ r.addr + 0 = r.addr
    BY <1>2, <2>1, OffsetType
  <2>4. r.size \in Sizes => Cut(r) \in Nat
    BY <2>1, WidestDivides DEF Cut
  <2>5. r.size \in Sizes => 0 = 0 * Cut(r)
    BY <2>4
  <2> QED
    BY <2>1, <2>2, <2>3, <2>5 DEF Placed
<1> QED
  BY <1>1, <1>3, <1>4, <1>5

LEMMA FinishStep ==
    ASSUME IInv, Finish
    PROVE  TypeOK' /\ CacheInv' /\ Marked' /\ Placed'
<1> USE DEF IInv
<1>1. CacheInv'
  BY DEF Finish, cacheVars, CacheInv, CacheTypeOK, MappingsAreCurrent, OneClaim, Held, Claims, Bucket
<1>2. TypeOK'
  BY <1>1 DEF Finish, TypeOK, CacheInv
<1>3. Marked'
  BY DEF Finish, Marked
<1>4. Placed'
  BY DEF Finish, Placed
<1> QED
  BY <1>1, <1>2, <1>3, <1>4

LEMMA CacheOnlyStep ==
    ASSUME IInv, CacheInv', UNCHANGED ioVars
    PROVE  TypeOK' /\ CacheInv' /\ Marked' /\ Placed'
<1> USE DEF IInv
<1>1. TypeOK'
  BY DEF ioVars, TypeOK, CacheInv
<1>2. Marked'
  BY DEF ioVars, Marked, PagesOf
<1>3. Placed'
  BY DEF ioVars, Placed
<1> QED
  BY <1>1, <1>2, <1>3

\* What an item does to the request.
LEMMA AdvanceTypes ==
    ASSUME TypeOK, req # NoReq, Advance
    PROVE  item' \in Nat /\ addr' \in Nat /\ req' \in Reqs
<1>1. Step(req) \in Nat
  BY RequestIs, OffsetType
<1> QED
  BY <1>1, RequestIs DEF Advance, TypeOK

\* One access of an item, by its number.
LEMMA AccessIs ==
    ASSUME NEW r \in Request, r.size \in Sizes, NEW a \in Nat, NEW side \in Places, NEW x \in Nat
    PROVE  /\ Cut(r) \in Nat \ {0} /\ Cut(r) * Widest(r) = r.size
           /\ Len(Accesses(r, a, side, x)) = Cut(r)
           /\ \A j \in 1 .. Cut(r) :
                /\ Accesses(r, a, side, x)[j].width = Widest(r)
                /\ Accesses(r, a, side, x)[j].dev = a + (j - 1) * Widest(r)
                /\ Accesses(r, a, side, x)[j].side = side
                /\ side # "lost" => Accesses(r, a, side, x)[j].at = x + (j - 1) * Widest(r)
<1>1. Widest(r) \in Sizes /\ Cut(r) \in Nat \ {0}
  BY WidestDivides DEF Cut
<1>2. Cut(r) * Widest(r) = r.size
  <2>1. Widest(r) <= r.size
    BY DEF Widest, Sizes
  <2>2. \A s \in Sizes, w \in Sizes : w <= s => (s \div w) * w = s
    BY DEF Sizes
  <2> QED
    BY <1>1, <2>1, <2>2 DEF Cut
<1> DEFINE acc(j) == [dev |-> a + (j - 1) * Widest(r), width |-> Widest(r), side |-> side,
                      at |-> IF side = "lost" THEN 0 ELSE x + (j - 1) * Widest(r)]
<1>3. Accesses(r, a, side, x) = [j \in 1 .. Cut(r) |-> acc(j)]
  BY DEF Accesses, Cut
<1>4. \A j \in 1 .. Cut(r) : Accesses(r, a, side, x)[j] = acc(j)
  BY <1>3
<1>5. Len(Accesses(r, a, side, x)) = Cut(r)
  <2> HIDE DEF acc
  <2> QED
    BY <1>1, <1>3
<1> QED
  BY <1>1, <1>2, <1>4, <1>5

\* An item adds its accesses behind those of the items before it.
LEMMA PlacedStep ==
    ASSUME TypeOK, Placed, More, Advance, NEW side \in Places, NEW x \in Nat,
           moved' = moved \o Accesses(req, addr, side, x),
           side # "lost" => x = DataOf(req, item)
    PROVE  Placed'
<1>1. /\ req # NoReq /\ req' = req /\ item < req.count /\ item \in Nat /\ addr \in Nat
      /\ item' = item + 1 /\ addr' = addr + Step(req)
      /\ req \in Request /\ req.count \in Nat /\ req.addr \in Nat /\ req.ops # {}
  BY RequestIs DEF More, Advance, TypeOK, Request
<1>2. Step(req) \in Nat
  BY <1>1, OffsetType
<1>3. addr = req.addr + item * Step(req)
  BY <1>1 DEF Placed
<1>4. addr' = req.addr + item' * Step(req) /\ item' <= req.count
  <2>1. item' * Step(req) = item * Step(req) + Step(req)
    BY <1>1, <1>2
  <2>2. item * Step(req) \in Nat
    BY <1>1, <1>2
  <2> QED
    BY ONLY <1>1, <1>2, <1>3, <2>1, <2>2
<1>6. Callable(req)'
  BY <1>1 DEF Advance, Callable, Widest
<1>5. ASSUME req.size \in Sizes
      PROVE  /\ Len(moved') = item' * Cut(req)
             /\ \A n \in 0 .. item' - 1, j \in 1 .. Cut(req) :
                  LET a == moved'[n * Cut(req) + j]
                      shift == (j - 1) * Widest(req)
                  IN /\ a.width = Widest(req)
                     /\ a.dev = req.addr + n * Step(req) + shift
                     /\ a.side # "lost" => a.at = DataOf(req, n) + shift
  <2> DEFINE c == Cut(req)
             acc == Accesses(req, addr, side, x)
             Good(a, n, j) ==
                 /\ a.width = Widest(req)
                 /\ a.dev = req.addr + n * Step(req) + (j - 1) * Widest(req)
                 /\ a.side # "lost" => a.at = DataOf(req, n) + (j - 1) * Widest(req)
  <2>1. /\ c \in Nat \ {0} /\ Len(acc) = c /\ acc \in Seq(Access)
        /\ \A j \in 1 .. c :
             /\ acc[j].width = Widest(req)
             /\ acc[j].dev = addr + (j - 1) * Widest(req)
             /\ acc[j].side = side
             /\ side # "lost" => acc[j].at = x + (j - 1) * Widest(req)
    <3>4. req \in Request /\ req.size \in Sizes /\ addr \in Nat /\ side \in Places /\ x \in Nat
      BY <1>1, <1>5
    <3>1. acc \in Seq(Access)
      BY <1>1, AccessesAre, Zenon
    <3>2. c \in Nat \ {0} /\ Len(acc) = c
      BY ONLY <3>4, AccessIs, Zenon
    <3>3. \A j \in 1 .. c :
             /\ acc[j].width = Widest(req)
             /\ acc[j].dev = addr + (j - 1) * Widest(req)
             /\ acc[j].side = side
             /\ side # "lost" => acc[j].at = x + (j - 1) * Widest(req)
      BY ONLY <3>4, AccessIs
    <3> QED
      BY <3>1, <3>2, <3>3, Zenon
  <2>2. moved \in Seq(Access) /\ Len(moved) = item * c
    BY <1>1, <1>5 DEF Placed, TypeOK
  <2>3. \A n \in 0 .. item - 1, j \in 1 .. c : Good(moved[n * c + j], n, j)
    BY <1>1, <1>5 DEF Placed
  <2>4. \A j \in 1 .. c : Good(acc[j], item, j)
    <3>1. \A j \in 1 .. c : acc[j].dev = req.addr + item * Step(req) + (j - 1) * Widest(req)
      BY <1>3, <2>1, Zenon
    <3>2. ASSUME NEW j \in 1 .. c PROVE Good(acc[j], item, j)
      <4>1. acc[j].width = Widest(req) /\ acc[j].side = side
        BY <2>1
      <4>2. side # "lost" => acc[j].at = DataOf(req, item) + (j - 1) * Widest(req)
        BY <2>1
      <4> QED
        BY <3>1, <4>1, <4>2, Zenon
    <3> QED
      BY <3>2, Zenon
  <2> HIDE DEF acc, c, Good
  <2>5. /\ Len(moved') = Len(moved) + Len(acc)
        /\ \A i \in 1 .. Len(moved) : moved'[i] = moved[i]
        /\ \A j \in 1 .. Len(acc) : moved'[Len(moved) + j] = acc[j]
    <3>1. moved' = moved \o acc
      BY DEF acc
    <3>2. acc \in Seq(Access) /\ moved \in Seq(Access)
      BY <2>1, <2>2
    <3> QED
      BY ONLY <3>1, <3>2
  <2>6. Len(moved') = item' * c
    BY <1>1, <2>1, <2>2, <2>5
  <2>7. ASSUME NEW n \in 0 .. item' - 1, NEW j \in 1 .. c
        PROVE  Good(moved'[n * c + j], n, j)
    <3>1. CASE n = item
      <4>1. n * c + j = Len(moved) + j /\ j \in 1 .. Len(acc)
        BY <2>1, <2>2, <3>1
      <4>2. moved'[n * c + j] = acc[j]
        BY <2>5, <4>1, Zenon
      <4>3. Good(acc[j], n, j)
        BY <2>4, <3>1, Zenon
      <4> QED
        BY <4>2, <4>3, Zenon
    <3>2. CASE n # item
      <4>1. n \in 0 .. item - 1 /\ n \in Nat /\ n + 1 <= item
        BY <1>1, <3>2
      <4>2. (n + 1) * c <= item * c /\ n * c \in Nat
        <5>1. c \in Nat /\ item \in Nat
          BY <1>1, <2>1
        <5>2. n \in Nat /\ n + 1 <= item
          BY <4>1
        <5>3. \A u, v \in Nat : u <= v => u * c <= v * c
          BY ONLY <5>1
        <5>4. n + 1 \in Nat /\ n * c \in Nat
          BY ONLY <5>1, <5>2
        <5> QED
          BY ONLY <5>1, <5>2, <5>3, <5>4
      <4>3. n * c + j \in 1 .. Len(moved)
        <5>1. j \in 1 .. c /\ c \in Nat /\ item \in Nat /\ Len(moved) = item * c
          BY <1>1, <2>1, <2>2
        <5>2. (n + 1) * c = n * c + c
          BY ONLY <4>1, <5>1
        <5>3. item * c \in Nat
          BY ONLY <5>1
        <5> QED
          BY ONLY <4>2, <5>1, <5>2, <5>3
      <4>4. moved'[n * c + j] = moved[n * c + j]
        BY ONLY <2>5, <4>3
      <4>5. Good(moved[n * c + j], n, j)
        BY <2>3, <4>1, Zenon
      <4> QED
        BY <4>4, <4>5, Zenon
    <3> QED
      BY <3>1, <3>2
  <2> QED
    BY <2>6, <2>7 DEF c, Good
<1> QED
  BY <1>1, <1>4, <1>5, <1>6 DEF Placed

LEMMA FieldStep ==
    ASSUME IInv, ItemField
    PROVE  TypeOK' /\ CacheInv' /\ Marked' /\ Placed'
<1> USE DEF IInv
<1> DEFINE acc == Accesses(req, addr, "field", 0)
<1>1. req # NoReq /\ Advance /\ moved' = moved \o acc
  BY DEF ItemField, More
<1>2. CacheInv'
  BY DEF ItemField, cacheVars, CacheInv, CacheTypeOK, MappingsAreCurrent, OneClaim, Held, Claims, Bucket
<1>3. req \in Request /\ addr \in Nat /\ moved \in Seq(Access)
  BY <1>1, RequestIs DEF TypeOK
<1>4. acc \in Seq(Access) /\ \A b \in Range(acc) : b.side = "field"
  BY <1>3, AccessesAre DEF Places
<1> HIDE DEF acc
<1>5. moved' \in Seq(Access)
  BY <1>1, <1>3, <1>4, ConcatProperties
<1>6. TypeOK'
  <2>1. dead' \in BOOLEAN
    BY <1>1 DEF Advance, TypeOK
  <2>2. dirty' \subseteq Pages
    BY DEF ItemField, TypeOK
  <2> QED
    BY <1>1, <1>2, <1>5, <2>1, <2>2, AdvanceTypes DEF TypeOK, CacheInv
<1>7. PagesOf(moved') = PagesOf(moved)
  <2>1. PagesOf(acc) = {}
    BY <1>4 DEF PagesOf
  <2>2. PagesOf(moved \o acc) = PagesOf(moved) \cup PagesOf(acc)
    BY <1>3, <1>4, PagesOfConcat
  <2> QED
    BY <1>1, <2>1, <2>2
<1>8. Marked'
  BY <1>1, <1>7 DEF Marked, ItemField, Advance
<1>9. Placed'
  <2>1. More /\ "field" \in Places /\ 0 = DataOf(req, item)
    BY DEF ItemField, Places, DataOf
  <2>2. moved' = moved \o Accesses(req, addr, "field", 0)
    BY <1>1 DEF acc
  <2> QED
    BY <1>1, <2>1, <2>2, PlacedStep
<1> QED
  BY <1>2, <1>6, <1>8, <1>9

\* Only a page of the guest is found.
LEMMA FoundIsMapped ==
    ASSUME CacheInv, NEW p \in Nat, NEW ok \in BOOLEAN, CanMap(p, ok), Answer(p, ok) # NoPtr
    PROVE  p \in GuestPages
<1> USE DEF CacheInv
<1>1. cache \in [Entries -> Cells] /\ epoch \in Nat
  BY DEF CacheTypeOK, Cells
<1>2. CASE ok
  BY <1>2 DEF CanMap
<1>3. CASE Hit(p)
  <2>1. PICK e \in Claims(cache, p) : Found(cache, p) = cache[e].ptr
    BY <1>1, <1>3, FoundInClaims DEF Hit, Found
  <2>2. e \in Entries /\ cache[e].ptr # NoPtr /\ cache[e].pfn = p
    BY <1>3, <2>1 DEF Hit, Claims, Bucket
  <2>3. cache[e].ptr \in Ptrs /\ cache[e].ptr.page = p
    BY <1>1, <2>2 DEF MappingsAreCurrent, Held, Cells
  <2> QED
    BY <2>3 DEF Ptrs
<1>4. CASE ~ok /\ ~Hit(p)
  \* The fault left the page no mapping it did not have.
  <2> DEFINE c == Looked(p)
             v == Victim(c, p)
             d == Faulted(p, ok)
  <2>1. c \in [Entries -> Cells] /\ Alike(c, cache)
    BY <1>1, TouchKeeps DEF Looked, Alike
  <2> HIDE DEF c
  <2>2. /\ v \in Bucket(p) /\ Bucket(p) \subseteq Entries /\ d \in [Entries -> Cells]
        /\ \A e \in Entries \ {v} : d[e] = c[e]
        /\ d[v].ptr = IF ok THEN [page |-> p, frame |-> frame[p]] ELSE NoPtr
        /\ d[v].pfn = IF ok THEN p ELSE c[v].pfn
    BY <2>1, FaultIs DEF Faulted, c
  <2> HIDE DEF v, d
  <2>3. Found(d, p) # NoPtr
    BY <1>4 DEF Answer, d
  <2>4. PICK e \in Claims(d, p) : Found(d, p) = d[e].ptr
    BY <2>2, <2>3, FoundInClaims DEF Found
  <2>5. e \in Entries /\ d[e].pfn = p /\ d[e].ptr # NoPtr
    BY <2>3, <2>4 DEF Claims, Bucket
  <2>6. e # v
    BY <1>4, <2>2, <2>5
  <2>7. cache[e].pfn = p /\ cache[e].ptr # NoPtr
    BY <2>1, <2>2, <2>5, <2>6 DEF Alike
  <2>8. cache[e].ptr \in Ptrs /\ cache[e].ptr.page = p
    BY <1>1, <2>5, <2>7 DEF MappingsAreCurrent, Held, Cells
  <2> QED
    BY <2>8 DEF Ptrs
<1> QED
  BY <1>2, <1>3, <1>4

LEMMA MemoryStep ==
    ASSUME IInv, NEW ok \in BOOLEAN, ItemMemory(ok)
    PROVE  TypeOK' /\ CacheInv' /\ Marked' /\ Placed'
<1> USE DEF IInv
<1> DEFINE x == req.data + Offset(req, item)
           p == x \div PageSize
           got == Answer(p, ok) # NoPtr
           side == IF got THEN "memory" ELSE "lost"
           acc == Accesses(req, addr, side, x)
<1>1. /\ req # NoReq /\ req.ptr /\ item < req.count /\ Lookup(p, ok) /\ Advance
      /\ moved' = moved \o acc
      /\ dirty' = IF req.dir = "read" /\ got THEN dirty \cup {p} ELSE dirty
  BY DEF ItemMemory, More
<1>2. /\ req \in Request /\ req \in Reqs /\ addr \in Nat /\ moved \in Seq(Access) /\ item \in Nat
      /\ req.size \in Nat /\ req.data \in Nat /\ req.count \in Nat
  BY <1>1, RequestIs DEF TypeOK
<1>3. x \in Nat /\ p \in Nat
  <2>1. Offset(req, item) \in Nat
    BY <1>2, OffsetType
  <2>2. x \in Nat
    BY <1>2, <2>1
  <2> HIDE DEF x
  <2> QED
    BY <2>2, GuestIoAssumption
<1>4. req.size \in Sizes /\ (x % PageSize) + req.size <= PageSize
  BY <1>1, <1>2, ItemAssumption
<1>15. More /\ x = DataOf(req, item)
  BY <1>1 DEF ItemMemory, DataOf
<1> HIDE DEF x
<1>5. side \in Places
  BY DEF Places
<1>6. /\ acc \in Seq(Access)
      /\ \A b \in Range(acc) : b.side = side /\ (side # "lost" => b.at \in x .. x + req.size - 1)
      /\ Range(acc) # {}
  <2> HIDE DEF side, got, p
  <2> QED
    BY <1>2, <1>3, <1>4, <1>5, AccessesAre
<1> HIDE DEF p
<1>7. CacheInv'
  BY <1>1, <1>3, LookupKeeps
<1>8. got => p \in Pages
  <2>1. CanMap(p, ok)
    BY <1>1 DEF Lookup
  <2> QED
    BY <1>3, <2>1, FoundIsMapped, MapcacheAssumption
<1> HIDE DEF got
<1>9. PagesOf(acc) = IF got THEN {p} ELSE {}
  <2>1. CASE ~got
    BY <1>6, <2>1 DEF PagesOf
  <2>2. CASE got
    <3>1. ASSUME NEW b \in Range(acc)
          PROVE  b.side = "memory" /\ b.at \div PageSize = p
      <4>1. b.side = "memory"
        BY <1>6, <2>2
      <4>2. PICK s \in Nat : s < req.size /\ b.at = x + s
        <5>1. b.at \in x .. x + req.size - 1
          BY <1>6, <2>2
        <5>2. b.at - x \in Nat /\ b.at - x < req.size /\ b.at = x + (b.at - x)
          BY <1>2, <1>3, <5>1
        <5> QED
          BY <5>2
      <4>3. x % PageSize \in Nat /\ PageSize \in Nat
        BY <1>3, GuestIoAssumption
      <4>4. (x % PageSize) + s < PageSize
        BY <1>2, <1>4, <4>2, <4>3
      <4>5. (x + s) \div PageSize = x \div PageSize
        BY <1>3, <4>4, SamePage
      <4> QED
        BY <4>1, <4>2, <4>5 DEF p
    <3> HIDE DEF acc
    <3> QED
      BY <1>6, <2>2, <3>1 DEF PagesOf
  <2> QED
    BY <2>1, <2>2
<1> HIDE DEF acc, side
<1>10. moved' \in Seq(Access)
  BY <1>1, <1>2, <1>6, ConcatProperties
<1>11. dirty' \subseteq Pages
  BY <1>1, <1>8 DEF TypeOK
<1>12. TypeOK'
  <2>1. dead' \in BOOLEAN
    BY <1>1 DEF Advance, TypeOK
  <2> QED
    BY <1>1, <1>7, <1>10, <1>11, <2>1, AdvanceTypes DEF TypeOK, CacheInv
<1>13. PagesOf(moved') = PagesOf(moved) \cup PagesOf(acc)
  BY <1>1, <1>2, <1>6, PagesOfConcat
<1>14. Marked'
  BY <1>1, <1>9, <1>13 DEF Marked, Advance
<1>16. Placed'
  <2>1. moved' = moved \o Accesses(req, addr, side, x)
    BY <1>1 DEF acc
  <2> QED
    BY <1>1, <1>3, <1>5, <1>15, <2>1, PlacedStep
<1> QED
  BY <1>7, <1>12, <1>14, <1>16

-----------------------------------------------------------------------------
(* A request that is handled.                                              *)

\* A space has the function that it is called with if it has a narrow one.
LEMMA WidestIsThere ==
    ASSUME NEW r \in Request, r.size \in Sizes
    PROVE  Callable(r) <=> \E w \in r.ops : w <= r.size
<1>1. r.ops \subseteq {1, 2, 4} /\ r.size \in {1, 2, 4, 8}
  BY DEF Request, Sizes
<1> QED
  BY <1>1 DEF Widest, Callable, Sizes

\* Byte k of item n, of s bytes in c accesses of w bytes.
InItsAccess(n, k, s, w, c) ==
    /\ (n * s + k) \div w + 1 = n * c + (k \div w + 1)
    /\ (n * s + k) % w = k % w
    /\ k \div w + 1 \in 1 .. c
    /\ ((k \div w + 1) - 1) * w + (k % w) = k

\* The items are whole numbers of accesses, each of which has its bytes.
LEMMA ByteOfItem ==
    ASSUME NEW s \in Sizes, NEW w \in {1, 2, 4}, NEW c \in Nat, c * w = s,
           NEW n \in Nat, NEW k \in 0 .. s - 1
    PROVE  InItsAccess(n, k, s, w, c)
<1> USE DEF InItsAccess
<1>1. CASE w = 1
  <2>1. s = c
    BY <1>1
  <2>2. n * c + k \in Nat /\ k \in Nat
    BY <2>1 DEF Sizes
  <2> QED
    BY <1>1, <2>1, <2>2 DEF Sizes
<1>2. CASE w = 2
  <2>1. c \in {1, 2, 4} /\ s = 2 * c
    BY <1>2 DEF Sizes
  <2> QED
    BY <1>2, <2>1
<1>3. CASE w = 4
  <2>1. c \in {1, 2} /\ s = 4 * c
    BY <1>3 DEF Sizes
  <2> QED
    BY <1>3, <2>1
<1> QED
  BY <1>1, <1>2, <1>3

\* Each byte of each item is in the access that takes its place.
LEMMA ByteIs ==
    ASSUME TypeOK, Placed, Handled, req.ops # {}, req.size \in Sizes,
           NEW n \in 0 .. req.count - 1, NEW k \in 0 .. req.size - 1
    PROVE  LET b == Byte(n * req.size + k, Widest(req))
           IN /\ b.dev = req.addr + n * Step(req) + k
              /\ b.side # "lost" => b.at = DataOf(req, n) + k
<1> DEFINE w == Widest(req)
           c == Cut(req)
           x == n * req.size + k
           j == k \div w + 1
           a == moved[n * c + j]
<1>1. /\ req # NoReq /\ req \in Request /\ req.count \in Nat /\ req.addr \in Nat /\ req.data \in Nat
      /\ item \in Nat /\ item = req.count
  <2>1. /\ req # NoReq /\ req \in Request /\ req.count \in Nat /\ req.addr \in Nat /\ req.data \in Nat
        /\ item \in Nat
    BY RequestIs DEF Handled, TypeOK, Request
  <2>2. item <= req.count /\ ~(item < req.count)
    BY <2>1 DEF Placed, Handled, More
  <2> QED
    BY <2>1, <2>2
<1>2. n \in Nat /\ n \in 0 .. item - 1
  BY <1>1
<1>3. w \in {1, 2, 4} /\ c \in Nat /\ c * w = req.size
  <2>1. w \in {1, 2, 4}
    BY DEF Widest
  <2>2. "lost" \in Places /\ 0 \in Nat
    BY DEF Places
  <2>3. c \in Nat /\ c * w = req.size
    BY <1>1, <2>2, AccessIs
  <2> QED
    BY <2>1, <2>3
<1>4. /\ x \div w + 1 = n * c + j /\ x % w = k % w /\ j \in 1 .. c
      /\ (j - 1) * w + (k % w) = k
  <2> HIDE DEF w, c
  <2>1. k \in 0 .. req.size - 1 /\ req.size \in Sizes /\ n \in Nat
    BY <1>2
  <2>2. InItsAccess(n, k, req.size, w, c)
    BY ONLY <1>3, <2>1, ByteOfItem, Zenon
  <2> QED
    BY ONLY <2>2 DEF InItsAccess
<1>5. /\ a.dev = req.addr + n * Step(req) + (j - 1) * w
      /\ a.side # "lost" => a.at = DataOf(req, n) + (j - 1) * w
  <2> HIDE DEF j
  <2> QED
    BY <1>1, <1>2, <1>4 DEF Placed
<1>6. k % w \in Nat /\ (j - 1) * w \in Nat
  <2>1. k \in Nat
    OBVIOUS
  <2>2. k % w \in Nat /\ k \div w \in Nat
    BY <1>3, <2>1
  <2>3. ((k \div w + 1) - 1) * w \in Nat
    BY <1>3, <2>2
  <2> QED
    BY <2>2, <2>3
<1>7. n * Step(req) \in Nat /\ DataOf(req, n) \in Nat
  <2>1. Step(req) \in Nat /\ Offset(req, n) \in Nat
    BY <1>1, <1>2, OffsetType
  <2> QED
    BY <1>1, <1>2, <2>1 DEF DataOf
<1> DEFINE b == Byte(x, w)
<1>8. /\ b.side = a.side /\ b.dev = a.dev + (k % w)
      /\ b.side # "lost" => b.at = a.at + (k % w)
  <2> HIDE DEF a, w, c, x, j
  <2>1. moved[x \div w + 1] = a /\ x % w = k % w
    BY <1>4 DEF a
  <2> QED
    BY <2>1 DEF Byte
<1> HIDE DEF a, w, c, j, b, x
<1>9. b.dev = req.addr + n * Step(req) + k
  BY <1>1, <1>4, <1>5, <1>6, <1>7, <1>8
<1>10. b.side # "lost" => b.at = DataOf(req, n) + k
  BY <1>4, <1>5, <1>6, <1>7, <1>8
<1> QED
  BY <1>9, <1>10 DEF b, w, x

\* Those places are the ones the request names.
LEMMA NamedPlaces ==
    ASSUME NEW r \in Request, NEW n \in 0 .. r.count - 1, NEW k \in 0 .. r.size - 1
    PROVE  /\ (r.addr + n * Step(r) + k) % SizeMod = DevOf(r, n, k) % SizeMod
           /\ (DataOf(r, n) + k) % SizeMod = AtOf(r, n, k) % SizeMod
           /\ ~r.df /\ r.count * r.size <= SizeMod =>
                /\ r.addr + n * Step(r) + k = DevOf(r, n, k)
                /\ DataOf(r, n) + k = AtOf(r, n, k)
<1>1. /\ r.size \in Nat \ {0} /\ r.count \in Nat /\ r.addr \in Nat /\ r.data \in Nat
      /\ n \in Nat /\ n + 1 <= r.count /\ k \in Nat /\ r.ptr \in BOOLEAN /\ r.df \in BOOLEAN
      /\ SizeMod \in Nat \ {0} /\ Sign(r) \in {1, -1} /\ (~r.df => Sign(r) = 1)
  <2>1. r.size \in Nat /\ r.count \in Nat
    BY DEF Request
  <2>2. r.size # 0
    BY <2>1
  <2> QED
    BY <2>1, <2>2, GuestIoAssumption DEF Request, Sign
<1>2. Step(r) \in Nat /\ Offset(r, n) \in Nat /\ n * Step(r) \in Nat
  <2>1. Step(r) \in Nat /\ Offset(r, n) \in Nat
    BY <1>1, OffsetType
  <2> QED
    BY <1>1, <2>1
<1>3. n * r.size < r.count * r.size
  <2>1. (n + 1) * r.size <= r.count * r.size
    BY <1>1
  <2>2. (n + 1) * r.size = n * r.size + r.size /\ n * r.size \in Nat /\ r.count * r.size \in Nat
    BY <1>1
  <2> QED
    BY <1>1, <2>1, <2>2
<1>4. Sign(r) * n * r.size \in Int /\ (~r.df => Sign(r) * n * r.size = n * r.size)
  BY <1>1
<1> DEFINE away == IF r.type = "copy" THEN Sign(r) * n * r.size ELSE 0
<1>5. away \in Int /\ DevOf(r, n, k) = r.addr + away + k
  BY <1>4 DEF DevOf
<1>6. /\ \E q \in Int : n * Step(r) = away + q * SizeMod
      /\ ~r.df /\ n * r.size < SizeMod => n * Step(r) = away
  BY <1>1, <1>4, StepIs
<1> HIDE DEF away
<1>7. (r.addr + n * Step(r) + k) % SizeMod = DevOf(r, n, k) % SizeMod
  <2>1. PICK q \in Int : n * Step(r) = away + q * SizeMod
    BY <1>6
  <2> DEFINE l == r.addr + n * Step(r) + k
             m == r.addr + away + k
  <2>2. l \in Int /\ m \in Int /\ l = m + q * SizeMod
    BY <1>1, <1>2, <1>5, <2>1
  <2> HIDE DEF l, m
  <2>3. l % SizeMod = m % SizeMod
    BY <1>1, <2>2, Congruent
  <2> QED
    BY <1>5, <2>3 DEF l, m
<1>8. (DataOf(r, n) + k) % SizeMod = AtOf(r, n, k) % SizeMod
  <2>1. CASE ~r.ptr
    BY <2>1 DEF DataOf, AtOf
  <2>2. CASE r.ptr
    <3>1. PICK q \in Int : Offset(r, n) = Sign(r) * n * r.size + q * SizeMod
      BY <1>1, OffsetIs
    <3> DEFINE l == r.data + Offset(r, n) + k
               m == r.data + Sign(r) * n * r.size + k
    <3>2. l \in Int /\ m \in Int /\ l = m + q * SizeMod
      BY <1>1, <1>2, <1>4, <3>1
    <3> HIDE DEF l, m
    <3>3. l % SizeMod = m % SizeMod
      BY <1>1, <3>2, Congruent
    <3> QED
      BY <2>2, <3>3 DEF l, m, DataOf, AtOf
  <2> QED
    BY <2>1, <2>2
<1>9. ASSUME ~r.df, r.count * r.size <= SizeMod
      PROVE  /\ r.addr + n * Step(r) + k = DevOf(r, n, k)
             /\ DataOf(r, n) + k = AtOf(r, n, k)
  <2>1. n * r.size < SizeMod
    <3>1. n * r.size \in Nat /\ r.count * r.size \in Nat
      BY <1>1
    <3> QED
      BY <1>1, <1>3, <1>9, <3>1
  <2>2. r.addr + n * Step(r) + k = DevOf(r, n, k)
    BY <1>5, <1>6, <1>9, <2>1
  <2>3. Offset(r, n) = n * r.size
    BY <1>1, <1>9, <2>1, OffsetIs
  <2>4. DataOf(r, n) + k = AtOf(r, n, k)
    BY <1>4, <1>9, <2>3 DEF DataOf, AtOf
  <2> QED
    BY <2>2, <2>4
<1> QED
  BY <1>7, <1>8, <1>9

LEMMA PlacedOnce == TypeOK /\ Placed /\ KilledInv => EveryByteOnce
<1>0. ASSUME TypeOK, KilledInv, dead PROVE \A w \in req.ops : w > req.size
  <2>1. req \in Request /\ ~Callable(req)
    BY <1>0, RequestIs DEF KilledInv
  <2>2. req.size \in Sizes
    BY <2>1 DEF Callable
  <2>3. ~\E w \in req.ops : w <= req.size
    BY <2>1, <2>2, WidestIsThere
  <2>4. req.ops \subseteq Nat /\ req.size \in Nat
    BY <2>1 DEF Request
  <2> QED
    BY <2>3, <2>4
<1> SUFFICES ASSUME TypeOK, Placed, Handled, req.ops # {}, req.size \in Sizes
             PROVE  \E w \in req.ops :
                      /\ Len(moved) * w = req.count * req.size
                      /\ \A i \in DOMAIN moved : moved[i].width = w
                      /\ \A n \in 0 .. req.count - 1, k \in 0 .. req.size - 1 :
                           LET b == Byte(n * req.size + k, w)
                               exact == ~req.df /\ req.count * req.size <= SizeMod
                           IN /\ b.dev % SizeMod = DevOf(req, n, k) % SizeMod
                              /\ b.side # "lost" => b.at % SizeMod = AtOf(req, n, k) % SizeMod
                              /\ exact => b.dev = DevOf(req, n, k)
                              /\ exact /\ b.side # "lost" => b.at = AtOf(req, n, k)
  BY <1>0 DEF EveryByteOnce
<1> DEFINE w == Widest(req)
           c == Cut(req)
<1>1. /\ req # NoReq /\ req \in Request /\ req.count \in Nat /\ item \in Nat
      /\ moved \in Seq(Access) /\ item = req.count
  <2>1. req # NoReq /\ req \in Request /\ req.count \in Nat /\ item \in Nat /\ moved \in Seq(Access)
    BY RequestIs DEF Handled, TypeOK
  <2>2. item <= req.count /\ ~(item < req.count)
    BY <2>1 DEF Placed, Handled, More
  <2> QED
    BY <2>1, <2>2
<1>2. item > 0 => w \in req.ops
  BY <1>1 DEF Placed, Callable
<1>3. c \in Nat \ {0} /\ c * w = req.size /\ w \in Nat
  <2>1. "lost" \in Places /\ 0 \in Nat
    BY DEF Places
  <2>2. c \in Nat \ {0} /\ c * w = req.size
    BY <1>1, <2>1, AccessIs
  <2> QED
    BY <2>2 DEF Widest
<1>4. Len(moved) = item * c
  BY <1>1 DEF Placed
<1>5. \A n \in 0 .. item - 1, j \in 1 .. c : moved[n * c + j].width = w
  BY <1>1 DEF Placed
<1> HIDE DEF w, c
<1>6. Len(moved) * w = req.count * req.size
  BY <1>1, <1>3, <1>4
<1>7. ASSUME NEW i \in DOMAIN moved PROVE moved[i].width = w
  <2> DEFINE n == (i - 1) \div c
             m == (i - 1) % c
  <2>1. i \in Nat /\ i >= 1 /\ i <= item * c
    BY <1>1, <1>4
  <2>2. n \in Nat /\ m \in 0 .. c - 1 /\ i - 1 = c * n + m
    BY <1>3, <2>1
  <2> HIDE DEF n, m
  <2>3. n < item
    <3>1. SUFFICES ASSUME item <= n PROVE FALSE
      BY <1>1, <2>2
    <3>2. item * c <= n * c /\ n * c = c * n /\ item * c \in Nat /\ c * n \in Nat
      BY <1>1, <1>3, <2>2, <3>1
    <3> QED
      BY <1>3, <2>1, <2>2, <3>2
  <2>4. n \in 0 .. item - 1 /\ m + 1 \in 1 .. c
    BY <1>1, <1>3, <2>2, <2>3
  <2>5. i = n * c + (m + 1)
    <3>1. n * c = c * n /\ n * c \in Nat
      BY <1>3, <2>2
    <3> QED
      BY <1>3, <2>1, <2>2, <3>1
  <2> QED
    BY <1>5, <2>4, <2>5
<1>8. ASSUME NEW n \in 0 .. req.count - 1, NEW k \in 0 .. req.size - 1
      PROVE  LET b == Byte(n * req.size + k, w)
                 exact == ~req.df /\ req.count * req.size <= SizeMod
             IN /\ b.dev % SizeMod = DevOf(req, n, k) % SizeMod
                /\ b.side # "lost" => b.at % SizeMod = AtOf(req, n, k) % SizeMod
                /\ exact => b.dev = DevOf(req, n, k)
                /\ exact /\ b.side # "lost" => b.at = AtOf(req, n, k)
  <2> DEFINE b == Byte(n * req.size + k, w)
  <2>1. b.dev = req.addr + n * Step(req) + k /\ (b.side # "lost" => b.at = DataOf(req, n) + k)
    BY ByteIs DEF w
  <2>2. /\ (req.addr + n * Step(req) + k) % SizeMod = DevOf(req, n, k) % SizeMod
        /\ (DataOf(req, n) + k) % SizeMod = AtOf(req, n, k) % SizeMod
        /\ ~req.df /\ req.count * req.size <= SizeMod =>
             /\ req.addr + n * Step(req) + k = DevOf(req, n, k)
             /\ DataOf(req, n) + k = AtOf(req, n, k)
    BY <1>1, NamedPlaces
  <2> HIDE DEF b
  <2>3. /\ b.dev % SizeMod = DevOf(req, n, k) % SizeMod
        /\ b.side # "lost" => b.at % SizeMod = AtOf(req, n, k) % SizeMod
        /\ (~req.df /\ req.count * req.size <= SizeMod) => b.dev = DevOf(req, n, k)
        /\ (~req.df /\ req.count * req.size <= SizeMod) /\ b.side # "lost" => b.at = AtOf(req, n, k)
    BY <2>1, <2>2, Zenon
  <2> QED
    BY <2>3, Zenon DEF b
<1>9. CASE item > 0
  BY <1>2, <1>6, <1>7, <1>8, <1>9, Zenon
<1>10. CASE item = 0
  <2>1. PICK v \in req.ops : TRUE
    OBVIOUS
  <2>2. v \in Nat
    BY <1>1, <2>1 DEF Request
  <2>3. Len(moved) = 0 /\ req.count = 0 /\ req.size \in Nat
    BY <1>1, <1>3, <1>4, <1>10 DEF Request
  <2>4. Len(moved) * v = req.count * req.size
    BY <2>2, <2>3
  <2>5. DOMAIN moved = {} /\ 0 .. req.count - 1 = {}
    BY <1>1, <2>3
  <2> QED
    BY <2>1, <2>4, <2>5, Zenon
<1> QED
  BY <1>1, <1>9, <1>10

LEMMA NextInv == IInv /\ [Next]_vars => IInv'
<1> SUFFICES ASSUME IInv, [Next]_vars PROVE IInv'
  OBVIOUS
<1> DEFINE Goal == TypeOK' /\ CacheInv' /\ Marked' /\ Placed'
<1>0. ~dead /\ dead' = dead /\ Goal => IInv'
  BY DEF IInv, KilledInv
<1>1. ASSUME ~dead, NEW r \in Reqs, Start(r) PROVE IInv'
  BY <1>0, <1>1, StartStep DEF Start
<1>2. ASSUME ~dead, StartInvalidate PROVE IInv'
  BY <1>0, <1>2, InvalidateKeeps, CacheOnlyStep DEF StartInvalidate, ioVars, IInv
<1>3. ASSUME ~dead, ItemField PROVE IInv'
  BY <1>0, <1>3, FieldStep DEF ItemField, Advance
<1>4. ASSUME ~dead, NEW ok \in BOOLEAN, ItemMemory(ok) PROVE IInv'
  BY <1>0, <1>4, MemoryStep DEF ItemMemory, Advance
<1>5. ASSUME ~dead, Finish PROVE IInv'
  BY <1>0, <1>5, FinishStep DEF Finish
<1>6. ASSUME ~dead, GuestReplaces PROVE IInv'
  BY <1>0, <1>6, ReplaceKeeps, CacheOnlyStep DEF GuestReplaces, ioVars, IInv
<1>8. CASE Killed
  <2>1. CacheInv'
    BY <1>8 DEF Killed, cacheVars, IInv, CacheInv, CacheTypeOK, MappingsAreCurrent, OneClaim, Held,
                Claims, Bucket
  <2>2. TypeOK'
    BY <1>8, <2>1 DEF Killed, TypeOK, IInv, CacheInv
  <2>3. Marked' /\ Placed'
    BY <1>8 DEF Killed, IInv, Marked, PagesOf, Placed, Callable, Widest
  <2>4. KilledInv'
    BY <1>8 DEF Killed, KilledInv, More, Callable, Widest
  <2> QED
    BY <2>1, <2>2, <2>3, <2>4 DEF IInv
<1>7. CASE UNCHANGED vars
  <2>1. CacheInv'
    BY <1>7 DEF vars, cacheVars, IInv, CacheInv, CacheTypeOK, MappingsAreCurrent, OneClaim, Held,
                Claims, Bucket
  <2>2. KilledInv'
    BY <1>7 DEF vars, ioVars, IInv, KilledInv, Callable, Widest
  <2> QED
    BY <1>7, <2>1, <2>2, CacheOnlyStep DEF vars, IInv
<1> QED
  BY <1>1, <1>2, <1>3, <1>4, <1>5, <1>6, <1>7, <1>8 DEF Next

LEMMA Invariant == Spec => []IInv
<1> QED
  BY InitInv, NextInv, PTL DEF Spec

-----------------------------------------------------------------------------
\* Every variable keeps its type (mapcache.c, demu_handle_io).
THEOREM TypeCorrect == Spec => []TypeOK
<1>1. IInv => TypeOK
  BY DEF IInv
<1> QED
  BY <1>1, Invariant, PTL

\* However often the guest replaces its pages and whatever Xen can map, a
\* mapping in the cache is of the page its entry claims and of the frame that
\* page has, unless an invalidation is on its way; and the mappings made and
\* not undone are those in the cache (__mapcache_fault, mapcache_invalidate).
THEOREM MappingsAreCurrentCorrect == Spec => []MappingsAreCurrent
<1>1. IInv => MappingsAreCurrent
  BY DEF IInv, CacheInv
<1> QED
  BY <1>1, Invariant, PTL

\* A page of the guest that lost no mapping without its entry losing the page
\* is found whenever Xen can map it, in one entry (__mapcache_lookup,
\* __mapcache_fault).
THEOREM FoundUnlessDroppedCorrect == Spec => []FoundUnlessDropped
<1>1. IInv => FoundUnlessDropped
  BY CacheInvFinds DEF IInv
<1> QED
  BY <1>1, Invariant, PTL

\* However long a request is, whichever functions its space has and wherever
\* its data is, each byte of each item was moved once and in order between the
\* places that the request names (demu_handle_io, demu_io_read, demu_io_write).
THEOREM EveryByteOnceCorrect == Spec => []EveryByteOnce
<1>1. IInv => EveryByteOnce
  BY PlacedOnce DEF IInv
<1> QED
  BY <1>1, Invariant, PTL

\* A request that is handled marked the pages of guest memory that it wrote, and
\* no others, in whatever accesses its items were split
\* (__copy_to_guest_memory).
THEOREM WrittenIsMarkedCorrect == Spec => []WrittenIsMarked
<1>1. IInv => WrittenIsMarked
  BY DEF IInv, Marked, WrittenIsMarked, Handled, PagesOf
<1> QED
  BY <1>1, Invariant, PTL

-----------------------------------------------------------------------------
(* Counting the pages of a list.                                           *)

LEMMA CountType ==
    ASSUME NEW s \in Seq(Int), NEW p
    PROVE  /\ IsFiniteSet({i \in DOMAIN s : s[i] = p}) /\ Count(s, p) \in Nat
<1>1. DOMAIN s = 1 .. Len(s) /\ Len(s) \in Nat
  OBVIOUS
<1>2. IsFiniteSet(DOMAIN s)
  BY <1>1, FS_Interval
<1>3. IsFiniteSet({i \in DOMAIN s : s[i] = p})
  BY <1>2, FS_Subset
<1> QED
  BY <1>3, FS_CardinalityType DEF Count

LEMMA CountNone ==
    ASSUME NEW p
    PROVE  Count(<<>>, p) = 0
<1>1. {i \in DOMAIN <<>> : <<>>[i] = p} = {}
  OBVIOUS
<1> QED
  BY <1>1, FS_EmptySet DEF Count

LEMMA CountConcat ==
    ASSUME NEW s \in Seq(Int), NEW t \in Seq(Int), NEW p
    PROVE  Count(s \o t, p) = Count(s, p) + Count(t, p)
<1> DEFINE n == Len(s)
           S == {i \in DOMAIN s : s[i] = p}
           T == {i \in DOMAIN t : t[i] = p}
           M == {i + n : i \in T}
           f == [i \in T |-> i + n]
<1>1. n \in Nat /\ DOMAIN s = 1 .. n /\ Len(t) \in Nat /\ DOMAIN t = 1 .. Len(t)
  OBVIOUS
<1>2. IsFiniteSet(S) /\ IsFiniteSet(T)
  BY CountType
<1>3. f \in Bijection(T, M)
  <2>1. \A i \in T : i \in Int
    BY <1>1
  <2>2. f \in Surjection(T, M)
    BY DEF Surjection
  <2>3. f \in Injection(T, M)
    BY <2>1, <1>1 DEF Injection, IsInjective
  <2> QED
    BY <2>2, <2>3 DEF Bijection
<1>4. IsFiniteSet(M) /\ Cardinality(M) = Cardinality(T)
  BY <1>2, <1>3, FS_Bijection DEF ExistsBijection
<1>5. S \cap M = {}
  BY <1>1
<1>6. {i \in DOMAIN (s \o t) : (s \o t)[i] = p} = S \cup M
  <2>1. DOMAIN (s \o t) = 1 .. n + Len(t)
    OBVIOUS
  <2>2. ASSUME NEW i \in 1 .. n + Len(t)
        PROVE  (s \o t)[i] = p <=> i \in S \cup M
    <3>1. CASE i <= n
      BY <3>1, <1>1
    <3>2. CASE i > n
      <4>1. (s \o t)[i] = t[i - n] /\ i - n \in DOMAIN t /\ i \notin S
        BY <3>2, <1>1
      <4>2. i \in M <=> i - n \in T
        <5>1. ASSUME i \in M PROVE i - n \in T
          <6>1. PICK j \in T : i = j + n
            BY <5>1
          <6>2. j = i - n
            BY <6>1, <1>1
          <6> QED
            BY <6>1, <6>2
        <5>2. ASSUME i - n \in T PROVE i \in M
          <6>1. i = (i - n) + n
            BY <1>1
          <6> QED
            BY <6>1, <5>2
        <5> QED
          BY <5>1, <5>2
      <4> QED
        BY <4>1, <4>2
    <3> QED
      BY <3>1, <3>2, <1>1
  <2>3. \A i \in S \cup M : i \in 1 .. n + Len(t)
    BY <1>1
  <2> QED
    BY <2>1, <2>2, <2>3
<1>7. Cardinality(S \cup M) = Cardinality(S) + Cardinality(M)
  <2>1. Cardinality(S \cap M) = 0
    BY <1>5, FS_EmptySet
  <2>2. Cardinality(S \cup M) = Cardinality(S) + Cardinality(M) - Cardinality(S \cap M)
    BY <1>2, <1>4, FS_Union
  <2>3. Cardinality(S) \in Nat /\ Cardinality(M) \in Nat
    BY <1>2, <1>4, FS_CardinalityType
  <2> QED
    BY <2>1, <2>2, <2>3
<1> QED
  BY <1>4, <1>6, <1>7 DEF Count

\* A list is its head and its tail.
LEMMA CountSplit ==
    ASSUME NEW s \in Seq(Int), NEW n \in DOMAIN s, NEW p
    PROVE  Count(s, p) = Count(SubSeq(s, 1, n), p) + Count(SubSeq(s, n + 1, Len(s)), p)
<1> DEFINE a == SubSeq(s, 1, n)
           b == SubSeq(s, n + 1, Len(s))
<1>1. n \in 1 .. Len(s) /\ Len(s) \in Nat
  OBVIOUS
<1>2. a \in Seq(Int) /\ b \in Seq(Int) /\ Len(a) = n /\ Len(b) = Len(s) - n
  <2>1. \A i \in 1 .. Len(s) : s[i] \in Int
    BY ElementOfSeq
  <2>2. /\ \A i \in 1 .. n : i \in 1 .. Len(s)
        /\ \A i \in n + 1 .. Len(s) : i \in 1 .. Len(s)
    BY ONLY <1>1
  <2>3. a \in Seq(Int) /\ Len(a) = n
    BY <1>1, <2>1, <2>2, SubSeqProperties
  <2>4. b \in Seq(Int) /\ Len(b) = Len(s) - n
    BY <1>1, <2>1, <2>2, SubSeqProperties
  <2> QED
    BY <2>3, <2>4
<1>3. s = a \o b
  <2>1. 1 \in 1 .. Len(s) + 1 /\ n \in 1 - 1 .. Len(s) /\ Len(s) \in n .. Len(s)
    BY <1>1
  <2>2. a \o b = SubSeq(s, 1, Len(s))
    BY <2>1, ConcatAdjacentSubSeq
  <2> QED
    BY <2>2, SubSeqFull
<1> HIDE DEF a, b
<1>4. Count(a \o b, p) = Count(a, p) + Count(b, p)
  BY <1>2, CountConcat
<1> QED
  BY <1>3, <1>4 DEF a, b

-----------------------------------------------------------------------------
(* The inductive invariant of the regions.                                 *)

\* The range that a record is of.
RangeOf(rec) == [first |-> rec.first, num |-> rec.num]

\* While no two ranges in use overlap without being the same, they are apart,
\* and each is counted by one record.
RangesApart ==
    \A a, b \in InUse : a # b => Span(a) \cap Span(b) = {}
UsersRecorded ==
    \A r \in InUse : \E i \in DOMAIN records : RangeOf(records[i]) = r
RecordsUsed ==
    \A i \in DOMAIN records :
        RangeOf(records[i]) \in InUse /\ records[i].count = users[RangeOf(records[i])]
RecordsApart ==
    \A i, j \in DOMAIN records : i # j => RangeOf(records[i]) # RangeOf(records[j])

\* The pages of each are in the guest, in a row that was asked for; other pages
\* were left there.
RangeMapped(r) ==
    /\ Span(r) \subseteq RegionPages
    /\ \E f \in wanted[r] : \A h \in Span(r) : p2m[h] = f + h - r.first
OthersStuck ==
    \A h \in RegionPages : p2m[h] # None => h \in Granted \cup stuck.pages

\* Unless it was put at a second place, a device page is at one place; then the
\* permission that goes with a mapping is of no other one.
FramesOnce ==
    \A g, h \in RegionPages : p2m[g] # None /\ p2m[g] = p2m[h] => g = h
PagesPermitted == \A h \in RegionPages : p2m[h] # None => p2m[h] \in perm
PermissionsStuck == perm \subseteq stuck.frames \cup {p2m[h] : h \in Granted}

RegionInv ==
    ~mixed =>
        /\ RangesApart /\ UsersRecorded /\ RecordsUsed /\ RecordsApart
        /\ (\A r \in InUse : RangeMapped(r)) /\ OthersStuck
        /\ aliased \/ FramesOnce
        /\ aliased \/ astray \/ PagesPermitted
        /\ astray \/ PermissionsStuck

(* The inductive invariant of the pinned pages.                            *)

\* Page p of a list is what was asked for, and below the highest page.
Answered(s, n) ==
    \A i \in 1 .. n : s[i] = Bfn(list[i]) /\ list[i] < top

PinsCounted ==
    \A p \in Gpfns : refs[p] = Count(held, p) + Count(out, p) + leaked[p]
PinInv ==
    /\ PinsCounted /\ known <= top
    /\ pc = "idle" => out = <<>> /\ Len(held) = Len(list) /\ Answered(held, Len(list))
    /\ pc = "pin" => held = <<>> /\ Len(out) = li /\ li <= Len(list) /\ Answered(out, li)
    /\ pc = "unpin" => held = <<>> /\ list = <<>>

MapsInv == MapsTypeOK /\ RegionInv /\ PinInv

RegionTypeOK ==
    /\ half \in {"regions", "pins"}
    /\ space \in {"none", "io", "mmio"} /\ base \in Bases \cup {None}
    /\ records \in Seq(Records) /\ p2m \in [RegionPages -> Frames \cup {None}]
    /\ perm \subseteq Frames /\ users \in [Ranges -> Nat] /\ wanted \in [Ranges -> SUBSET Frames]
    /\ {mixed, aliased, astray} \subseteq BOOLEAN
    /\ stuck \in [pages : SUBSET RegionPages, frames : SUBSET Frames]

PinTypeOK ==
    /\ pc \in {"idle", "pin", "unpin"} /\ list \in Requests \cup {<<>>}
    /\ li \in Nat /\ limit \in 1 .. Limit
    /\ out \in Seq(Gpfns \cup {None}) /\ held \in Seq(Gpfns \cup {None})
    /\ refs \in [Gpfns -> Nat] /\ leaked \in [Gpfns -> Nat]
    /\ known \in Gpfns /\ top \in Gpfns

LEMMA MapsTypes == MapsTypeOK <=> RegionTypeOK /\ PinTypeOK
BY DEF MapsTypeOK, RegionTypeOK, PinTypeOK

LEMMA PinsAlone ==
    UNCHANGED pinVars /\ PinTypeOK /\ PinInv => PinTypeOK' /\ PinInv'
<1> SUFFICES ASSUME UNCHANGED pinVars, PinTypeOK, PinInv
             PROVE  PinTypeOK' /\ PinInv'
  OBVIOUS
<1>1. /\ pc' = pc /\ list' = list /\ li' = li /\ limit' = limit /\ out' = out /\ held' = held
      /\ refs' = refs /\ known' = known /\ top' = top /\ leaked' = leaked
  BY DEF pinVars
<1> QED
  BY <1>1 DEF PinTypeOK, PinInv, PinsCounted, Answered, Bfn

\* The invariant says nothing of where the region is or what kind it is.
LEMMA RegionAlone ==
    ASSUME half' = half, space' \in {"none", "io", "mmio"}, base' \in Bases \cup {None},
           UNCHANGED <<records, p2m, perm, users, wanted, mixed, aliased, astray, stuck>>,
           RegionTypeOK, RegionInv
    PROVE  RegionTypeOK' /\ RegionInv'
<1>1. /\ records' = records /\ p2m' = p2m /\ perm' = perm /\ users' = users /\ wanted' = wanted
      /\ mixed' = mixed /\ aliased' = aliased /\ astray' = astray /\ stuck' = stuck
  OBVIOUS
<1>2. InUse' = InUse /\ Granted' = Granted /\ \A r : RangeMapped(r)' = RangeMapped(r)
  BY <1>1 DEF InUse, Granted, RangeMapped
<1>3. RegionTypeOK'
  BY <1>1 DEF RegionTypeOK
<1>4. RegionInv'
  BY <1>1, <1>2 DEF RegionInv, RangesApart, UsersRecorded, RecordsUsed, RecordsApart,
    RangeMapped, OthersStuck, FramesOnce, PagesPermitted, PermissionsStuck
<1> QED
  BY <1>3, <1>4

-----------------------------------------------------------------------------
(* Ranges of pages and the records of them.                                *)

LEMMA PlacesAre ==
    /\ RegionPages \subseteq Nat /\ None \notin RegionPages /\ None \notin Frames
    /\ Length \in Nat /\ Frames = 0 .. DevicePages - 1 /\ DevicePages \in Nat
<1>1. {Length, DevicePages} \subseteq Nat \ {0} /\ Bases \subseteq Nat
  BY GuestMapsAssumption
<1>2. \A b \in Bases : b .. b + Length - 1 \subseteq Nat
  BY <1>1
<1> QED
  BY <1>1, <1>2 DEF RegionPages, Frames, None

\* A range has its first page, and natural numbers.
LEMMA RangeTypes ==
    ASSUME NEW r \in Ranges
    PROVE  /\ r.first \in RegionPages /\ r.first \in Nat /\ r.num \in Nat \ {0}
           /\ r.num \in 1 .. Length /\ r.first \in Span(r)
           /\ \A h \in Span(r) : h \in Nat /\ r.first <= h /\ h < r.first + r.num
<1>1. r.first \in RegionPages /\ r.num \in 1 .. Length
  BY DEF Ranges
<1>2. r.first \in Nat
  BY <1>1, PlacesAre
<1>3. r.num \in Nat \ {0}
  BY <1>1, PlacesAre
<1> QED
  BY <1>1, <1>2, <1>3 DEF Span

LEMMA UserTypes ==
    ASSUME RegionTypeOK, NEW r \in Ranges
    PROVE  /\ users[r] \in Nat /\ wanted[r] \subseteq Frames
           /\ r \in InUse <=> users[r] > 0
BY DEF RegionTypeOK, InUse

LEMMA RecordTypes ==
    ASSUME RegionTypeOK, NEW i \in DOMAIN records
    PROVE  /\ records[i] \in Records /\ RangeOf(records[i]) \in Ranges
           /\ records[i].count \in Nat \ {0}
           /\ Span(records[i]) = Span(RangeOf(records[i]))
<1>1. records[i] \in Records
  BY DEF RegionTypeOK
<1> QED
  BY <1>1 DEF Records, RangeOf, Ranges, Span

LEMMA LocatedIs ==
    ASSUME RegionTypeOK, NEW h, Having(h) # {}
    PROVE  Located(h) \in DOMAIN records /\ h \in Span(records[Located(h)])
<1>1. Having(h) \in SUBSET Nat
  BY DEF RegionTypeOK, Having
<1>2. PICK m \in Having(h) : \A n \in Having(h) : m <= n
  BY <1>1, MinOfNats
<1>3. Located(h) \in Having(h)
  BY <1>2 DEF Located
<1> QED
  BY <1>3 DEF Having

\* The record found for a range is of the range, unless ranges in use overlap.
LEMMA LocatedIsOf ==
    ASSUME RegionTypeOK, RegionInv, ~mixed, NEW r \in Ranges, Having(r.first) # {},
           \A o \in InUse : o # r => Span(o) \cap Span(r) = {}
    PROVE  LET i == Located(r.first)
           IN  /\ i \in DOMAIN records /\ RangeOf(records[i]) = r
               /\ r \in InUse /\ records[i].count = users[r]
<1> DEFINE i == Located(r.first)
           q == RangeOf(records[i])
<1>1. i \in DOMAIN records /\ r.first \in Span(records[i])
  BY LocatedIs
<1>2. r.first \in Span(q)
  BY <1>1, RecordTypes
<1>3. q \in InUse /\ records[i].count = users[q]
  BY <1>1 DEF RegionInv, RecordsUsed
<1>4. r.first \in Span(r)
  BY RangeTypes
<1>5. q = r
  BY <1>2, <1>3, <1>4
<1> QED
  BY <1>1, <1>3, <1>5

LEMMA FunctionIsSeq ==
    ASSUME NEW n \in Nat, NEW S, NEW f \in [1 .. n -> S]
    PROVE  f \in Seq(S)
OBVIOUS

LEMMA WithoutIs ==
    ASSUME RegionTypeOK, NEW i \in DOMAIN records
    PROVE  LET s == Without(records, i)
           IN  /\ s \in Seq(Records) /\ Len(s) = Len(records) - 1
               /\ DOMAIN s = 1 .. Len(records) - 1
               /\ \A j \in DOMAIN s : s[j] = IF j < i THEN records[j] ELSE records[j + 1]
<1> DEFINE a == SubSeq(records, 1, i - 1)
           b == SubSeq(records, i + 1, Len(records))
<1>1. records \in Seq(Records) /\ i \in 1 .. Len(records) /\ Len(records) \in Nat
  BY DEF RegionTypeOK
<1>2. /\ a \in Seq(Records) /\ Len(a) = i - 1
      /\ \A j \in 1 .. i - 1 : a[j] = records[j]
  BY <1>1
<1>3. /\ b \in Seq(Records) /\ Len(b) = Len(records) - i
      /\ \A j \in 1 .. Len(records) - i : b[j] = records[j + i]
  BY <1>1
<1>4. Without(records, i) = a \o b
  BY DEF Without
<1> HIDE DEF a, b
<1>5. /\ a \o b \in Seq(Records) /\ Len(a \o b) = Len(a) + Len(b)
      /\ \A j \in 1 .. Len(a) + Len(b) : (a \o b)[j] = IF j <= Len(a) THEN a[j] ELSE b[j - Len(a)]
  BY ONLY <1>2, <1>3, ConcatProperties
<1>6. \A j \in 1 .. Len(records) - 1 : (a \o b)[j] = IF j < i THEN records[j] ELSE records[j + 1]
  <2> SUFFICES ASSUME NEW j \in 1 .. Len(records) - 1
               PROVE  (a \o b)[j] = IF j < i THEN records[j] ELSE records[j + 1]
    OBVIOUS
  <2>1. CASE j < i
    <3>1. (a \o b)[j] = a[j]
      BY <2>1, <1>1, <1>2, <1>3, <1>5
    <3> QED
      BY <2>1, <3>1, <1>1, <1>2
  <2>2. CASE ~(j < i)
    <3>0. j \in 1 .. Len(a) + Len(b) /\ ~(j <= Len(a)) /\ Len(a) = i - 1
      BY <2>2, <1>1, <1>2, <1>3
    <3>1. (a \o b)[j] = b[j - (i - 1)]
      BY ONLY <3>0, <1>5
    <3>2. j - (i - 1) \in 1 .. Len(records) - i /\ j - (i - 1) + i = j + 1
      BY <2>2, <1>1
    <3> QED
      BY <2>2, <3>1, <3>2, <1>3
  <2> QED
    BY <2>1, <2>2
<1>7. Len(a \o b) = Len(records) - 1 /\ Len(records) - 1 \in Nat
  BY <1>1, <1>2, <1>3, <1>5
<1>8. DOMAIN (a \o b) = 1 .. Len(records) - 1
  BY <1>5, <1>7
<1> QED
  BY <1>4, <1>5, <1>6, <1>7, <1>8

\* A record put first.
LEMMA PrependedIs ==
    ASSUME RegionTypeOK, NEW rec \in Records
    PROVE  LET s == <<rec>> \o records
           IN  /\ s \in Seq(Records) /\ DOMAIN s = 1 .. Len(records) + 1 /\ s[1] = rec
               /\ \A i \in DOMAIN s : i # 1 => i - 1 \in DOMAIN records /\ s[i] = records[i - 1]
               /\ \A i \in DOMAIN records : i + 1 \in DOMAIN s /\ s[i + 1] = records[i]
<1> DEFINE s == <<rec>> \o records
<1>1. /\ records \in Seq(Records) /\ DOMAIN records = 1 .. Len(records) /\ Len(records) \in Nat
      /\ <<rec>> \in Seq(Records) /\ Len(<<rec>>) = 1
  BY DEF RegionTypeOK
<1>2. s \in Seq(Records) /\ Len(s) = Len(records) + 1
  BY ONLY <1>1
<1>3. DOMAIN s = 1 .. Len(records) + 1
  BY ONLY <1>2
<1>4. s[1] = rec
  BY ONLY <1>1
<1>5. \A i \in DOMAIN records : i + 1 \in DOMAIN s /\ s[i + 1] = records[i]
  BY ONLY <1>1, <1>3
<1>6. \A i \in DOMAIN s : i # 1 => i - 1 \in DOMAIN records /\ (i - 1) + 1 = i
  BY ONLY <1>1, <1>3
<1> QED
  BY <1>2, <1>3, <1>4, <1>5, <1>6


-----------------------------------------------------------------------------
(* The steps of the regions.                                               *)

LEMMA MapsInitInv == MapsInit => MapsInv
<1> SUFFICES ASSUME MapsInit
             PROVE  MapsInv
  OBVIOUS
<1>2. RegionTypeOK
  <2>1. p2m \in [RegionPages -> Frames \cup {None}] /\ records \in Seq(Records)
    BY DEF MapsInit
  <2>2. stuck \in [pages : SUBSET RegionPages, frames : SUBSET Frames]
    BY DEF MapsInit
  <2>3. users \in [Ranges -> Nat] /\ wanted \in [Ranges -> SUBSET Frames]
    BY DEF MapsInit
  <2>4. {mixed, aliased, astray} \subseteq BOOLEAN
    BY DEF MapsInit
  <2> QED
    BY <2>1, <2>2, <2>3, <2>4 DEF MapsInit, RegionTypeOK
<1>3. MaxTop \in Nat \ {0} /\ Limit \in Nat \ {0}
  BY GuestMapsAssumption
<1>4. PinTypeOK
  BY <1>3 DEF MapsInit, PinTypeOK, Gpfns
<1>5. RegionInv
  <2>1. DOMAIN records = {} /\ Granted = {} /\ InUse = {}
    BY DEF MapsInit, Granted, InUse
  <2>2. \A h \in RegionPages : p2m[h] = None
    BY DEF MapsInit
  <2>3. RangesApart /\ UsersRecorded /\ RecordsUsed /\ RecordsApart
    BY <2>1 DEF RangesApart, UsersRecorded, RecordsUsed, RecordsApart
  <2>4. OthersStuck /\ FramesOnce /\ PagesPermitted /\ PermissionsStuck
    BY <2>2 DEF OthersStuck, FramesOnce, PagesPermitted, PermissionsStuck, MapsInit
  <2> QED
    BY <2>1, <2>3, <2>4 DEF RegionInv
<1>6. PinInv
  <2>1. \A p \in Gpfns : refs[p] = 0 /\ leaked[p] = 0 /\ Count(held, p) = 0 /\ Count(out, p) = 0
    BY CountNone DEF MapsInit
  <2> QED
    BY <2>1 DEF PinInv, PinsCounted, Answered, MapsInit
<1> QED
  BY <1>2, <1>4, <1>5, <1>6, MapsTypes DEF MapsInv

\* The pages of a row.
LEMMA RowIs ==
    ASSUME NEW r \in Ranges, NEW f \in Frames, f + r.num <= DevicePages
    PROVE  /\ f .. f + r.num - 1 \subseteq Frames /\ f \in Nat
           /\ \A h \in Span(r) : f + h - r.first \in f .. f + r.num - 1
           /\ \A x \in f .. f + r.num - 1 : \E h \in Span(r) : x = f + h - r.first
           /\ \A g, h \in Span(r) : f + g - r.first = f + h - r.first => g = h
<1>1. /\ r.first \in Nat /\ r.num \in Nat \ {0}
      /\ \A h \in Span(r) : h \in Nat /\ r.first <= h /\ h < r.first + r.num
      /\ f \in Nat /\ DevicePages \in Nat /\ Frames = 0 .. DevicePages - 1
  BY RangeTypes, PlacesAre
<1>2. ASSUME NEW x \in f .. f + r.num - 1
      PROVE  \E h \in Span(r) : x = f + h - r.first
  <2> DEFINE h == x - f + r.first
  <2>1. x \in Nat /\ f <= x /\ x < f + r.num /\ r.num \in Nat
    BY <1>1
  <2>2. h \in r.first .. r.first + r.num - 1 /\ x = f + h - r.first
    BY <1>1, <2>1
  <2> QED
    BY <2>2 DEF Span
<1>3. f .. f + r.num - 1 \subseteq Frames
  BY <1>1
<1>4. \A h \in Span(r) : f + h - r.first \in f .. f + r.num - 1
  BY <1>1
<1>5. \A g, h \in Span(r) : f + g - r.first = f + h - r.first => g = h
  BY <1>1
<1> QED
  BY <1>1, <1>2, <1>3, <1>4, <1>5

\* A second user of a mapping: unless ranges in use overlap now, the record
\* found is of the range.
LEMMA SharedStep ==
    ASSUME NEW r \in Ranges, NEW f \in Frames, Having(r.first) # {},
           MapShared(r), UNCHANGED <<p2m, perm, stuck, aliased>>,
           users' = [users EXCEPT ![r] = @ + 1], wanted' = [wanted EXCEPT ![r] = @ \cup {f}],
           mixed' = (mixed \/ \E o \in InUse : o # r /\ Span(o) \cap Span(r) # {}),
           UNCHANGED <<half, space, base, astray>>,
           RegionTypeOK, RegionInv
    PROVE  RegionTypeOK' /\ RegionInv'
<1> DEFINE k == Located(r.first)
<1>0. k \in DOMAIN records
  BY LocatedIs
<1>1. records' = [records EXCEPT ![k].count = @ + 1]
  BY DEF MapShared
<1>2. /\ DOMAIN records' = DOMAIN records
      /\ \A i \in DOMAIN records :
            /\ RangeOf(records'[i]) = RangeOf(records[i])
            /\ records'[i].count = IF i = k THEN records[i].count + 1 ELSE records[i].count
            /\ records'[i] \in Records
  <2>1. \A i \in DOMAIN records : records[i] \in Records
    BY RecordTypes
  <2> HIDE DEF k
  <2>2. /\ DOMAIN records' = DOMAIN records
        /\ \A i \in DOMAIN records :
             records'[i] = IF i = k THEN [records[i] EXCEPT !.count = @ + 1] ELSE records[i]
    BY <1>0, <1>1 DEF RegionTypeOK
  <2> QED
    BY <2>1, <2>2 DEF RangeOf, Records
<1>3. records' \in Seq(Records)
  <2>1. DOMAIN records = 1 .. Len(records) /\ Len(records) \in Nat
    BY DEF RegionTypeOK
  <2>2. records' \in [1 .. Len(records) -> Records]
    BY <1>1, <1>2, <2>1
  <2> QED
    BY <2>1, <2>2, FunctionIsSeq
<1>4. /\ users' \in [Ranges -> Nat] /\ wanted' \in [Ranges -> SUBSET Frames]
      /\ users'[r] = users[r] + 1 /\ wanted'[r] = wanted[r] \cup {f}
      /\ \A q \in Ranges : q # r => users'[q] = users[q] /\ wanted'[q] = wanted[q]
  BY DEF RegionTypeOK
<1>5. RegionTypeOK'
  BY <1>3, <1>4 DEF RegionTypeOK
<1>6. RegionInv'
  <2> SUFFICES ASSUME ~mixed'
               PROVE  RegionInv'
    BY DEF RegionInv
  <2>1. ~mixed /\ \A o \in InUse : o # r => Span(o) \cap Span(r) = {}
    OBVIOUS
  <2>2. RangeOf(records[k]) = r /\ r \in InUse /\ records[k].count = users[r]
    BY <2>1, LocatedIsOf
  <2> HIDE DEF k
  <2>3. InUse' = InUse
    BY <1>4, <2>2, UserTypes DEF InUse
  <2>4. Granted' = Granted
    BY <2>3 DEF Granted
  <2>5. RangesApart' /\ UsersRecorded' /\ RecordsApart'
    BY <1>2, <2>1, <2>3 DEF RegionInv, RangesApart, UsersRecorded, RecordsApart
  <2>6. RecordsUsed'
    <3> SUFFICES ASSUME NEW i \in DOMAIN records
                 PROVE  /\ RangeOf(records[i]) \in InUse
                        /\ records'[i].count = users'[RangeOf(records[i])]
      BY <1>2, <2>3 DEF RecordsUsed
    <3>1. /\ RangeOf(records[i]) \in InUse /\ RangeOf(records[i]) \in Ranges
          /\ records[i].count = users[RangeOf(records[i])]
      BY <2>1, RecordTypes DEF RegionInv, RecordsUsed
    <3>2. CASE i = k
      BY <1>2, <1>4, <2>2, <3>1, <3>2
    <3>3. CASE i # k
      <4>1. RangeOf(records[i]) # r
        BY <1>0, <2>1, <2>2, <3>3 DEF RegionInv, RecordsApart, k
      <4> QED
        BY <1>2, <1>4, <3>1, <3>3, <4>1
    <3> QED
      BY <3>2, <3>3
  <2>7. \A q \in InUse : RangeMapped(q)'
    <3> SUFFICES ASSUME NEW q \in InUse
                 PROVE  RangeMapped(q)'
      OBVIOUS
    <3>1. RangeMapped(q) /\ q \in Ranges
      BY <2>1 DEF RegionInv, InUse
    <3>2. wanted[q] \subseteq wanted'[q]
      BY <1>4, <3>1
    <3> QED
      BY <3>1, <3>2 DEF RangeMapped
  <2>8. OthersStuck' /\ (aliased \/ FramesOnce)' /\ (aliased \/ astray \/ PagesPermitted)'
        /\ (astray \/ PermissionsStuck)'
    BY <2>1, <2>4 DEF RegionInv, OthersStuck, FramesOnce, PagesPermitted, PermissionsStuck
  <2> QED
    BY <2>3, <2>5, <2>6, <2>7, <2>8 DEF RegionInv
<1> QED
  BY <1>5, <1>6

\* A mapping that a hypercall refused: only a permission may be left.
LEMMA RefusedStep ==
    ASSUME NEW r \in Ranges, NEW f \in Frames, f + r.num <= DevicePages,
           NEW p \in BOOLEAN, NEW m \in BOOLEAN, ~(p /\ m), Added(r, f, p, m),
           UNCHANGED <<half, space, base, records, users, wanted, astray>>,
           aliased' \in BOOLEAN, aliased => aliased', mixed' \in BOOLEAN, mixed => mixed',
           RegionTypeOK, RegionInv
    PROVE  RegionTypeOK' /\ RegionInv'
<1> DEFINE F == f .. f + r.num - 1
<1>1. /\ perm' = IF p THEN perm \cup F ELSE perm
      /\ p2m' = p2m /\ F \subseteq Frames
      /\ stuck' = IF p THEN [stuck EXCEPT !.frames = @ \cup F] ELSE stuck
  BY RowIs DEF Added
<1> HIDE DEF F
<1>2. /\ stuck'.pages = stuck.pages /\ stuck.frames \subseteq stuck'.frames
      /\ perm \subseteq perm' /\ perm' \subseteq perm \cup stuck'.frames
      /\ stuck' \in [pages : SUBSET RegionPages, frames : SUBSET Frames]
  BY <1>1 DEF RegionTypeOK
<1>3. RegionTypeOK'
  BY <1>1, <1>2 DEF RegionTypeOK
<1>4. InUse' = InUse /\ Granted' = Granted /\ \A q : RangeMapped(q)' = RangeMapped(q)
  BY <1>1 DEF InUse, Granted, RangeMapped
<1>5. RegionInv'
  <2>1. RangesApart' = RangesApart /\ UsersRecorded' = UsersRecorded
        /\ RecordsUsed' = RecordsUsed /\ RecordsApart' = RecordsApart
    BY <1>4 DEF RangesApart, UsersRecorded, RecordsUsed, RecordsApart
  <2>2. OthersStuck' = OthersStuck /\ FramesOnce' = FramesOnce
    BY <1>1, <1>2, <1>4 DEF OthersStuck, FramesOnce
  <2>3. (PagesPermitted => PagesPermitted') /\ (PermissionsStuck => PermissionsStuck')
    BY <1>1, <1>2, <1>4 DEF PagesPermitted, PermissionsStuck
  <2> QED
    BY <1>4, <2>1, <2>2, <2>3 DEF RegionInv
<1> QED
  BY <1>3, <1>5

\* A new mapping: no record has its first page, so its range is apart from
\* every range in use, unless ranges overlap now.
LEMMA NewStep ==
    ASSUME NEW r \in Ranges, NEW f \in Frames, f + r.num <= DevicePages,
           Span(r) \subseteq RegionPages,
           Having(r.first) = {}, Added(r, f, TRUE, TRUE),
           records' = <<[first |-> r.first, num |-> r.num, count |-> 1]>> \o records,
           aliased' = (aliased \/ \E h \in RegionPages \ Span(r) : p2m[h] \in f .. f + r.num - 1),
           users' = [users EXCEPT ![r] = @ + 1], wanted' = [wanted EXCEPT ![r] = @ \cup {f}],
           mixed' = (mixed \/ \E o \in InUse : o # r /\ Span(o) \cap Span(r) # {}),
           UNCHANGED <<half, space, base, astray>>,
           RegionTypeOK, RegionInv
    PROVE  RegionTypeOK' /\ RegionInv'
<1> DEFINE F == f .. f + r.num - 1
           new == [first |-> r.first, num |-> r.num, count |-> 1]
<1>1. /\ perm' = perm \cup F /\ stuck' = stuck
      /\ p2m' = [h \in RegionPages |-> IF h \in Span(r) THEN f + h - r.first ELSE p2m[h]]
  BY DEF Added
<1>2. /\ F \subseteq Frames
      /\ \A h \in Span(r) : f + h - r.first \in F
      /\ \A x \in F : \E h \in Span(r) : x = f + h - r.first
      /\ \A g, h \in Span(r) : f + g - r.first = f + h - r.first => g = h
  BY RowIs
<1>3. new \in Records /\ RangeOf(new) = r /\ new.count = 1
  <2>1. r.first \in RegionPages /\ r.num \in 1 .. Length /\ r = [first |-> r.first, num |-> r.num]
    BY DEF Ranges
  <2> QED
    BY <2>1 DEF Records, RangeOf
<1>4. records' = <<new>> \o records
  OBVIOUS
<1> HIDE DEF new, F
<1>5. /\ records' \in Seq(Records) /\ DOMAIN records' = 1 .. Len(records) + 1 /\ records'[1] = new
      /\ \A i \in DOMAIN records' : i # 1 => i - 1 \in DOMAIN records /\ records'[i] = records[i - 1]
      /\ \A i \in DOMAIN records : i + 1 \in DOMAIN records' /\ records'[i + 1] = records[i]
      /\ Len(records) \in Nat
  BY <1>3, <1>4, PrependedIs DEF RegionTypeOK
<1>6. /\ users' \in [Ranges -> Nat] /\ wanted' \in [Ranges -> SUBSET Frames]
      /\ users'[r] = users[r] + 1 /\ wanted'[r] = wanted[r] \cup {f}
      /\ \A q \in Ranges : q # r => users'[q] = users[q] /\ wanted'[q] = wanted[q]
  BY DEF RegionTypeOK
<1>7. /\ p2m' \in [RegionPages -> Frames \cup {None}]
      /\ \A h \in Span(r) : h \in RegionPages /\ p2m'[h] = f + h - r.first /\ p2m'[h] \in F
      /\ \A h \in RegionPages : h \notin Span(r) => p2m'[h] = p2m[h]
  BY <1>1, <1>2 DEF RegionTypeOK
<1>8. RegionTypeOK'
  <2>1. {mixed', aliased', astray'} \subseteq BOOLEAN
    BY DEF RegionTypeOK
  <2>2. perm' \subseteq Frames
    BY <1>1, <1>2 DEF RegionTypeOK
  <2> QED
    BY <1>1, <1>5, <1>6, <1>7, <2>1, <2>2 DEF RegionTypeOK
<1>9. RegionInv'
  <2> SUFFICES ASSUME ~mixed'
               PROVE  RegionInv'
    BY DEF RegionInv
  <2>1. ~mixed /\ \A o \in InUse : o # r => Span(o) \cap Span(r) = {}
    OBVIOUS
  <2>2. r \notin InUse
    <3> SUFFICES ASSUME r \in InUse
                 PROVE  FALSE
      OBVIOUS
    <3>1. PICK i \in DOMAIN records : RangeOf(records[i]) = r
      BY <2>1 DEF RegionInv, UsersRecorded
    <3>2. r.first \in Span(records[i])
      BY <3>1, RangeTypes, RecordTypes
    <3> QED
      BY <3>2 DEF Having
  <2>3. users[r] = 0 /\ users'[r] = 1
    BY <1>6, <2>2, UserTypes
  <2>4. InUse' = InUse \cup {r}
    BY <1>6, <2>3, UserTypes DEF InUse
  <2>5. Granted' = Granted \cup Span(r)
    BY <2>4 DEF Granted
  <2>6. \A q \in InUse : q \in Ranges /\ q # r /\ Span(q) \cap Span(r) = {} /\ RangeMapped(q)
    BY <2>1, <2>2 DEF InUse, RegionInv
  <2>7. RangesApart'
    BY <2>1, <2>4, <2>6 DEF RangesApart, RegionInv
  <2>8. UsersRecorded'
    <3> SUFFICES ASSUME NEW q \in InUse \cup {r}
                 PROVE  \E i \in DOMAIN records' : RangeOf(records'[i]) = q
      BY <2>4 DEF UsersRecorded
    <3>1. CASE q = r
      <4>1. 1 \in DOMAIN records'
        BY <1>5
      <4> QED
        BY <1>3, <1>5, <3>1, <4>1
    <3>2. CASE q # r
      <4>1. PICK i \in DOMAIN records : RangeOf(records[i]) = q
        BY <2>1, <3>2 DEF RegionInv, UsersRecorded
      <4> QED
        BY <1>5, <4>1
    <3> QED
      BY <3>1, <3>2
  <2>9. \A i \in DOMAIN records : RangeOf(records[i]) \in InUse /\ RangeOf(records[i]) # r
                                  /\ records[i].count = users'[RangeOf(records[i])]
    BY <1>6, <2>1, <2>6 DEF RegionInv, RecordsUsed
  <2>10. RecordsUsed'
    <3> SUFFICES ASSUME NEW i \in DOMAIN records'
                 PROVE  /\ RangeOf(records'[i]) \in InUse \cup {r}
                        /\ records'[i].count = users'[RangeOf(records'[i])]
      BY <2>4 DEF RecordsUsed
    <3>1. CASE i = 1
      BY <1>3, <1>5, <2>3, <3>1
    <3>2. CASE i # 1
      BY <1>5, <2>9, <3>2
    <3> QED
      BY <3>1, <3>2
  <2>11. RecordsApart'
    <3> SUFFICES ASSUME NEW i \in DOMAIN records', NEW j \in DOMAIN records', i # j
                 PROVE  RangeOf(records'[i]) # RangeOf(records'[j])
      BY DEF RecordsApart
    <3>1. CASE i = 1
      BY <1>3, <1>5, <2>9, <3>1
    <3>2. CASE j = 1
      BY <1>3, <1>5, <2>9, <3>2
    <3>3. CASE i # 1 /\ j # 1
      <4>1. i - 1 \in DOMAIN records /\ j - 1 \in DOMAIN records /\ i - 1 # j - 1
        BY <1>5, <3>3
      <4> QED
        BY <1>5, <2>1, <3>3, <4>1 DEF RegionInv, RecordsApart
    <3> QED
      BY <3>1, <3>2, <3>3
  <2>12. \A q \in InUse \cup {r} : RangeMapped(q)'
    <3> SUFFICES ASSUME NEW q \in InUse \cup {r}
                 PROVE  RangeMapped(q)'
      OBVIOUS
    <3>1. CASE q = r
      <4>1. f \in wanted'[r]
        BY <1>6
      <4> QED
        BY <1>7, <3>1, <4>1 DEF RangeMapped
    <3>2. CASE q # r
      <4>1. RangeMapped(q) /\ Span(q) \cap Span(r) = {} /\ wanted'[q] = wanted[q]
        BY <1>6, <2>6, <3>2
      <4> QED
        BY <1>7, <4>1 DEF RangeMapped
    <3> QED
      BY <3>1, <3>2
  <2>13. OthersStuck'
    BY <1>1, <1>7, <2>1, <2>5 DEF OthersStuck, RegionInv
  <2>14. ~aliased' => ~aliased /\ \A h \in RegionPages : h \notin Span(r) => p2m[h] \notin F
    BY DEF F
  <2>15. aliased' \/ FramesOnce'
    <3> SUFFICES ASSUME ~aliased', NEW g \in RegionPages, NEW h \in RegionPages,
                        p2m'[g] # None, p2m'[g] = p2m'[h]
                 PROVE  g = h
      BY DEF FramesOnce
    <3>1. CASE g \in Span(r) /\ h \in Span(r)
      BY <1>2, <1>7, <3>1
    <3>2. CASE g \in Span(r) <=> h \notin Span(r)
      BY <1>7, <2>14, <3>2
    <3>3. CASE g \notin Span(r) /\ h \notin Span(r)
      BY <1>7, <2>1, <2>14, <3>3 DEF RegionInv, FramesOnce
    <3> QED
      BY <3>1, <3>2, <3>3
  <2>16. aliased' \/ astray' \/ PagesPermitted'
    BY <1>1, <1>7, <2>1, <2>14 DEF RegionInv, PagesPermitted
  <2>17. astray' \/ PermissionsStuck'
    <3> SUFFICES ASSUME ~astray, NEW x \in perm \cup F, x \notin stuck.frames
                 PROVE  \E h \in Granted \cup Span(r) : x = p2m'[h]
      BY <1>1, <2>5 DEF PermissionsStuck
    <3>1. CASE x \in F
      BY <1>2, <1>7, <3>1
    <3>2. CASE x \notin F
      <4>1. PICK h \in Granted : x = p2m[h]
        BY <2>1, <3>2 DEF RegionInv, PermissionsStuck
      <4>2. h \notin Span(r) /\ h \in RegionPages
        BY <2>6 DEF Granted, RangeMapped
      <4> QED
        BY <1>7, <4>1, <4>2
    <3> QED
      BY <3>1, <3>2
  <2> QED
    BY <2>4, <2>7, <2>8, <2>10, <2>11, <2>12, <2>13, <2>15, <2>16, <2>17 DEF RegionInv
<1> QED
  BY <1>8, <1>9

\* A mapping that another user has keeps its pages.
LEMMA CountedStep ==
    ASSUME NEW r \in InUse, Having(r.first) # {}, records[Located(r.first)].count > 1,
           records' = [records EXCEPT ![Located(r.first)].count = @ - 1],
           UNCHANGED <<p2m, perm, stuck, astray>>,
           users' = [users EXCEPT ![r] = @ - 1],
           wanted' = IF users[r] = 1 THEN [wanted EXCEPT ![r] = {}] ELSE wanted,
           UNCHANGED <<half, space, base, mixed, aliased>>, RegionTypeOK, RegionInv
    PROVE  RegionTypeOK' /\ RegionInv'
<1> DEFINE k == Located(r.first)
<1>0. k \in DOMAIN records /\ r \in Ranges /\ users[r] \in Nat /\ users[r] > 0
  BY LocatedIs DEF InUse, RegionTypeOK
<1>1. records' = [records EXCEPT ![k].count = @ - 1]
  OBVIOUS
<1>2. /\ DOMAIN records' = DOMAIN records
      /\ \A i \in DOMAIN records :
            /\ RangeOf(records'[i]) = RangeOf(records[i])
            /\ records'[i].count = IF i = k THEN records[i].count - 1 ELSE records[i].count
            /\ records'[i] \in Records
  <2>1. \A i \in DOMAIN records : records[i] \in Records
    BY RecordTypes
  <2>0. records[k].count > 1 /\ \A i \in DOMAIN records : records[i].count \in Nat \ {0}
    BY RecordTypes
  <2>3. records[k].count - 1 \in Nat \ {0}
    BY <1>0, <2>0
  <2> HIDE DEF k
  <2>2. /\ DOMAIN records' = DOMAIN records
        /\ \A i \in DOMAIN records :
             records'[i] = IF i = k THEN [records[i] EXCEPT !.count = @ - 1] ELSE records[i]
    BY <1>0, <1>1 DEF RegionTypeOK
  <2> QED
    BY <2>1, <2>2, <2>3 DEF RangeOf, Records
<1>3. records' \in Seq(Records)
  <2>1. DOMAIN records = 1 .. Len(records) /\ Len(records) \in Nat
    BY DEF RegionTypeOK
  <2>2. records' \in [1 .. Len(records) -> Records]
    BY <1>1, <1>2, <2>1
  <2> QED
    BY <2>1, <2>2, FunctionIsSeq
<1>4. /\ users' \in [Ranges -> Nat] /\ wanted' \in [Ranges -> SUBSET Frames]
      /\ users'[r] = users[r] - 1
      /\ \A q \in Ranges : q # r => users'[q] = users[q] /\ wanted'[q] = wanted[q]
      /\ users[r] > 1 => wanted'[r] = wanted[r]
  BY <1>0 DEF RegionTypeOK
<1>5. RegionTypeOK'
  BY <1>3, <1>4 DEF RegionTypeOK
<1>6. RegionInv'
  <2> SUFFICES ASSUME ~mixed
               PROVE  RegionInv'
    BY DEF RegionInv
  <2>1. \A o \in InUse : o # r => Span(o) \cap Span(r) = {}
    BY DEF RegionInv, RangesApart
  <2>2. RangeOf(records[k]) = r /\ records[k].count = users[r] /\ users[r] > 1
    BY <1>0, <2>1, LocatedIsOf
  <2> HIDE DEF k
  <2>3. InUse' = InUse
    BY <1>4, <2>2, UserTypes DEF InUse
  <2>4. Granted' = Granted
    BY <2>3 DEF Granted
  <2>5. RangesApart' /\ UsersRecorded' /\ RecordsApart'
    BY <1>2, <2>3 DEF RegionInv, RangesApart, UsersRecorded, RecordsApart
  <2>6. RecordsUsed'
    <3> SUFFICES ASSUME NEW i \in DOMAIN records
                 PROVE  /\ RangeOf(records[i]) \in InUse
                        /\ records'[i].count = users'[RangeOf(records[i])]
      BY <1>2, <2>3 DEF RecordsUsed
    <3>1. /\ RangeOf(records[i]) \in InUse /\ RangeOf(records[i]) \in Ranges
          /\ records[i].count = users[RangeOf(records[i])]
      BY RecordTypes DEF RegionInv, RecordsUsed
    <3>2. CASE i = k
      BY <1>2, <1>4, <2>2, <3>1, <3>2
    <3>3. CASE i # k
      <4>1. RangeOf(records[i]) # r
        BY <1>0, <2>2, <3>3 DEF RegionInv, RecordsApart, k
      <4> QED
        BY <1>2, <1>4, <3>1, <3>3, <4>1
    <3> QED
      BY <3>2, <3>3
  <2>7. \A q \in InUse : RangeMapped(q)'
    <3> SUFFICES ASSUME NEW q \in InUse
                 PROVE  RangeMapped(q)'
      OBVIOUS
    <3>1. RangeMapped(q) /\ q \in Ranges /\ wanted'[q] = wanted[q]
      BY <1>4, <2>2 DEF RegionInv, InUse
    <3> QED
      BY <3>1 DEF RangeMapped
  <2>8. OthersStuck' /\ (aliased \/ FramesOnce)' /\ (aliased \/ astray \/ PagesPermitted)'
        /\ (astray \/ PermissionsStuck)'
    BY <2>4 DEF RegionInv, OthersStuck, FramesOnce, PagesPermitted, PermissionsStuck
  <2> QED
    BY <2>3, <2>5, <2>6, <2>7, <2>8 DEF RegionInv
<1> QED
  BY <1>5, <1>6

\* The last user of a mapping: the record goes, and so do the pages unless a
\* hypercall fails.
LEMMA LastStep ==
    ASSUME NEW r \in InUse, NEW f \in Frames, f + r.num <= DevicePages,
           NEW p \in BOOLEAN, NEW m \in BOOLEAN,
           Having(r.first) # {}, ~(records[Located(r.first)].count > 1),
           records' = Without(records, Located(r.first)), Removed(r, f, p, m),
           astray' = (astray \/ \E h \in Span(r) : p2m[h] # f + h - r.first),
           users' = [users EXCEPT ![r] = @ - 1],
           wanted' = IF users[r] = 1 THEN [wanted EXCEPT ![r] = {}] ELSE wanted,
           UNCHANGED <<half, space, base, mixed, aliased>>, ~mixed, RegionTypeOK, RegionInv
    PROVE  RegionTypeOK' /\ RegionInv'
<1> DEFINE k == Located(r.first)
           F == f .. f + r.num - 1
           there == {p2m[h] : h \in Span(r)} \ {None}
<1>0. k \in DOMAIN records /\ r \in Ranges /\ users[r] \in Nat /\ users[r] > 0
  BY LocatedIs DEF InUse, RegionTypeOK
<1>1. /\ p2m' = IF m THEN [h \in RegionPages |-> IF h \in Span(r) THEN None ELSE p2m[h]] ELSE p2m
      /\ perm' = IF m /\ p THEN perm \ F ELSE perm
      /\ ~m => stuck' = [pages |-> stuck.pages \cup Span(r), frames |-> stuck.frames \cup there]
      /\ m /\ ~p => stuck' = [stuck EXCEPT !.frames = @ \cup F]
      /\ m /\ p => stuck' = stuck
  BY DEF Removed
<1>2. /\ F \subseteq Frames
      /\ \A h \in Span(r) : f + h - r.first \in F
      /\ \A x \in F : \E h \in Span(r) : x = f + h - r.first
  BY <1>0, RowIs
<1>3. records' = Without(records, k) /\ ~(records[k].count > 1)
  OBVIOUS
<1> HIDE DEF F
<1>4. /\ records' \in Seq(Records) /\ DOMAIN records' = 1 .. Len(records) - 1
      /\ DOMAIN records = 1 .. Len(records) /\ Len(records) \in Nat
      /\ \A j \in DOMAIN records' : records'[j] = IF j < k THEN records[j] ELSE records[j + 1]
  BY <1>0, <1>3, WithoutIs DEF RegionTypeOK
<1> HIDE DEF k
\* Place i of the list that is left, and the place of record j in it.
<1> DEFINE Was(j) == IF j < k THEN j ELSE j + 1
           Is(i) == IF i < k THEN i ELSE i - 1
<1>5. /\ \A j \in DOMAIN records' : /\ Was(j) \in DOMAIN records /\ Was(j) # k
                                    /\ records'[j] = records[Was(j)]
      /\ \A i \in DOMAIN records : i # k => Is(i) \in DOMAIN records' /\ Was(Is(i)) = i
      /\ \A i, j \in DOMAIN records' : i # j => Was(i) # Was(j)
  BY <1>0, <1>4
<1> HIDE DEF Was, Is
<1>6. /\ users' \in [Ranges -> Nat] /\ wanted' \in [Ranges -> SUBSET Frames]
      /\ users'[r] = users[r] - 1
      /\ \A q \in Ranges : q # r => users'[q] = users[q] /\ wanted'[q] = wanted[q]
  BY <1>0 DEF RegionTypeOK
<1>7. /\ p2m' \in [RegionPages -> Frames \cup {None}]
      /\ \A h \in RegionPages : h \notin Span(r) => p2m'[h] = p2m[h]
      /\ \A h \in RegionPages : p2m'[h] # None => p2m'[h] = p2m[h] /\ (m => h \notin Span(r))
  BY <1>1 DEF RegionTypeOK
<1>8. RangeMapped(r)
  BY DEF RegionInv
<1>9. RegionInv'
  <2>1. \A o \in InUse : o # r => Span(o) \cap Span(r) = {}
    BY DEF RegionInv, RangesApart
  <2>2. RangeOf(records[k]) = r /\ records[k].count = users[r] /\ users[r] = 1 /\ users'[r] = 0
    <3>1. RangeOf(records[k]) = r /\ records[k].count = users[r]
      BY <1>0, <2>1, LocatedIsOf DEF k
    <3> QED
      BY <1>0, <1>3, <1>6, <3>1
  <2>3. InUse' = InUse \ {r}
    BY <1>6, <2>2, UserTypes DEF InUse
  <2>4. Granted \subseteq Granted' \cup Span(r) /\ Granted' \subseteq Granted
        /\ Granted' \cap Span(r) = {} /\ Granted \subseteq RegionPages
    <3>1. Granted \subseteq RegionPages
      BY DEF Granted, RegionInv, RangeMapped
    <3> QED
      BY <2>1, <2>3, <3>1 DEF Granted
  <2>5. RangesApart'
    BY <2>3 DEF RangesApart, RegionInv
  <2>6. UsersRecorded'
    <3> SUFFICES ASSUME NEW q \in InUse, q # r
                 PROVE  \E j \in DOMAIN records' : RangeOf(records'[j]) = q
      BY <2>3 DEF UsersRecorded
    <3>1. PICK i \in DOMAIN records : RangeOf(records[i]) = q
      BY DEF RegionInv, UsersRecorded
    <3>2. i # k
      BY <2>2, <3>1
    <3>3. Is(i) \in DOMAIN records' /\ records'[Is(i)] = records[i]
      BY <1>5, <3>2
    <3> QED
      BY <3>1, <3>3
  <2>7. RecordsUsed'
    <3> SUFFICES ASSUME NEW j \in DOMAIN records'
                 PROVE  /\ RangeOf(records'[j]) \in InUse \ {r}
                        /\ records'[j].count = users'[RangeOf(records'[j])]
      BY <2>3 DEF RecordsUsed
    <3>1. /\ Was(j) \in DOMAIN records /\ records'[j] = records[Was(j)]
          /\ RangeOf(records[Was(j)]) # r
      BY <1>0, <1>5, <2>2 DEF RegionInv, RecordsApart
    <3>2. /\ RangeOf(records[Was(j)]) \in InUse /\ RangeOf(records[Was(j)]) \in Ranges
          /\ records[Was(j)].count = users[RangeOf(records[Was(j)])]
      BY <3>1, RecordTypes DEF RegionInv, RecordsUsed
    <3> QED
      BY <1>6, <3>1, <3>2
  <2>8. RecordsApart'
    BY <1>5 DEF RegionInv, RecordsApart
  <2>9. \A q \in InUse \ {r} : RangeMapped(q)'
    <3> SUFFICES ASSUME NEW q \in InUse, q # r
                 PROVE  RangeMapped(q)'
      OBVIOUS
    <3>1. RangeMapped(q) /\ q \in Ranges /\ wanted'[q] = wanted[q] /\ Span(q) \cap Span(r) = {}
      BY <1>6, <2>1 DEF RegionInv, InUse
    <3> QED
      BY <1>7, <3>1 DEF RangeMapped
  <2>10. OthersStuck'
    <3> SUFFICES ASSUME NEW h \in RegionPages, p2m'[h] # None
                 PROVE  h \in Granted' \cup stuck'.pages
      BY DEF OthersStuck
    <3>1. p2m[h] # None /\ (m => h \notin Span(r))
      BY <1>7
    <3>2. h \in Granted \cup stuck.pages
      BY <3>1 DEF RegionInv, OthersStuck
    <3>3. stuck.pages \subseteq stuck'.pages /\ (~m => Span(r) \subseteq stuck'.pages)
      BY <1>1 DEF RegionTypeOK
    <3> QED
      BY <2>4, <3>1, <3>2, <3>3
  <2>11. aliased' \/ FramesOnce'
    BY <1>7 DEF RegionInv, FramesOnce
  <2>12. ~astray' => ~astray /\ \A h \in Span(r) : p2m[h] = f + h - r.first
    OBVIOUS
  <2>13. aliased' \/ astray' \/ PagesPermitted'
    <3> SUFFICES ASSUME ~aliased, ~astray', NEW h \in RegionPages, p2m'[h] # None
                 PROVE  p2m'[h] \in perm'
      BY DEF PagesPermitted
    <3>1. p2m[h] # None /\ p2m'[h] = p2m[h] /\ p2m[h] \in perm /\ (m => h \notin Span(r))
      BY <1>7, <2>12 DEF RegionInv, PagesPermitted
    <3>2. CASE m /\ p
      <4>1. p2m[h] \notin F
        <5> SUFFICES ASSUME p2m[h] \in F
                     PROVE  FALSE
          OBVIOUS
        <5>1. PICK g \in Span(r) : p2m[h] = f + g - r.first
          BY <1>2
        <5>2. g \in RegionPages /\ p2m[g] = p2m[h]
          BY <1>8, <2>12, <5>1 DEF RangeMapped
        <5>3. g = h
          BY <3>1, <5>2 DEF RegionInv, FramesOnce
        <5> QED
          BY <3>1, <3>2, <5>3
      <4> QED
        BY <1>1, <3>1, <3>2, <4>1
    <3>3. CASE ~(m /\ p)
      BY <1>1, <3>1, <3>3
    <3> QED
      BY <3>2, <3>3
  <2>14. astray' \/ PermissionsStuck'
    <3> SUFFICES ASSUME ~astray', NEW x \in perm', x \notin stuck'.frames
                 PROVE  \E h \in Granted' : x = p2m'[h]
      BY DEF PermissionsStuck
    <3>1. x \in perm /\ x \notin stuck.frames /\ x \in Frames
      BY <1>1 DEF RegionTypeOK
    <3>2. PICK h \in Granted : x = p2m[h]
      BY <2>12, <3>1 DEF RegionInv, PermissionsStuck
    <3>3. h \notin Span(r)
      <4> SUFFICES ASSUME h \in Span(r)
                   PROVE  FALSE
        OBVIOUS
      <4>1. x \in F /\ x \in there
        BY <1>2, <2>12, <3>1, <3>2, PlacesAre
      <4>2. CASE ~m
        BY <1>1, <4>1, <4>2
      <4>3. CASE m /\ ~p
        BY <1>1, <4>1, <4>3 DEF RegionTypeOK
      <4>4. CASE m /\ p
        BY <1>1, <4>1, <4>4
      <4> QED
        BY <4>2, <4>3, <4>4
    <3> QED
      BY <1>7, <2>4, <3>2, <3>3
  <2> QED
    BY <2>3, <2>5, <2>6, <2>7, <2>8, <2>9, <2>10, <2>11, <2>13, <2>14 DEF RegionInv
<1>10. RegionTypeOK'
  <2>1. {mixed', aliased', astray'} \subseteq BOOLEAN
    BY DEF RegionTypeOK
  <2>2. perm' \subseteq Frames
    BY <1>1 DEF RegionTypeOK
  <2>3. stuck' \in [pages : SUBSET RegionPages, frames : SUBSET Frames]
    <3>1. Span(r) \subseteq RegionPages
      BY <1>8 DEF RangeMapped
    <3>2. there \subseteq Frames
      BY <3>1 DEF RegionTypeOK
    <3>3. stuck \in [pages : SUBSET RegionPages, frames : SUBSET Frames]
      BY DEF RegionTypeOK
    <3> HIDE DEF there
    <3>4. CASE ~m
      BY <1>1, <3>1, <3>2, <3>3, <3>4
    <3>5. CASE m
      BY <1>1, <1>2, <3>3, <3>5
    <3> QED
      BY <3>4, <3>5
  <2> QED
    BY <1>4, <1>6, <1>7, <2>1, <2>2, <2>3 DEF RegionTypeOK
<1> QED
  BY <1>9, <1>10

LEMMA RegionStep ==
    RegionNext /\ RegionTypeOK /\ RegionInv => RegionTypeOK' /\ RegionInv'
<1> SUFFICES ASSUME RegionNext, RegionTypeOK, RegionInv
             PROVE  RegionTypeOK' /\ RegionInv'
  OBVIOUS
<1>1. ASSUME NEW sp \in {"io", "mmio"}, Create(sp)
      PROVE  RegionTypeOK' /\ RegionInv'
  BY <1>1, RegionAlone DEF Create, RegionTypeOK
<1>2. ASSUME NEW b \in Bases \cup {None}, NEW ok \in BOOLEAN, Relocate(b, ok)
      PROVE  RegionTypeOK' /\ RegionInv'
  BY <1>2, RegionAlone DEF Relocate, RegionTypeOK
<1>3. ASSUME NEW r \in Ranges, NEW f \in Frames,
             NEW p \in BOOLEAN, NEW m \in BOOLEAN, Map(r, f, p, m)
      PROVE  RegionTypeOK' /\ RegionInv'
  <2>1. /\ base # None /\ r.first >= base /\ r.first + r.num <= base + Length
        /\ f + r.num <= DevicePages
        /\ mixed' = (mixed \/ \E o \in InUse : o # r /\ Span(o) \cap Span(r) # {})
        /\ UNCHANGED <<half, space, base, astray>>
        /\ users' = IF p /\ m THEN [users EXCEPT ![r] = @ + 1] ELSE users
        /\ wanted' = IF p /\ m THEN [wanted EXCEPT ![r] = @ \cup {f}] ELSE wanted
    BY <1>3 DEF Map
  <2>2. Span(r) \subseteq RegionPages
    <3>1. base \in Bases /\ base \in Nat /\ r.first \in Nat /\ r.num \in Nat /\ Length \in Nat
      BY <2>1, RangeTypes, GuestMapsAssumption DEF RegionTypeOK
    <3>2. Span(r) \subseteq base .. base + Length - 1
      BY <2>1, <3>1 DEF Span
    <3> QED
      BY <3>1, <3>2 DEF RegionPages
  <2>3. CASE Having(r.first) # {}
    <3>1. p /\ m /\ MapShared(r) /\ UNCHANGED <<p2m, perm, stuck, aliased>>
      BY <1>3, <2>3 DEF Map
    <3> QED
      BY <2>1, <2>3, <3>1, SharedStep
  <2>4. CASE Having(r.first) = {}
    <3>1. /\ MapNew(r, f, p, m)
          /\ aliased' = (aliased \/ \E h \in RegionPages \ Span(r) : p2m[h] \in f .. f + r.num - 1)
      BY <1>3, <2>4 DEF Map
    <3>2. /\ Added(r, f, p, m)
          /\ records' = IF p /\ m
                        THEN <<[first |-> r.first, num |-> r.num, count |-> 1]>> \o records
                        ELSE records
      BY <3>1 DEF MapNew
    <3>3. CASE p /\ m
      <4>1. Added(r, f, TRUE, TRUE)
        BY <3>2, <3>3 DEF Added
      <4> QED
        BY <2>1, <2>2, <2>4, <3>1, <3>2, <3>3, <4>1, NewStep
    <3>4. CASE ~(p /\ m)
      <4>1. aliased \in BOOLEAN /\ mixed \in BOOLEAN
        BY DEF RegionTypeOK
      <4> QED
        BY <2>1, <3>1, <3>2, <3>4, <4>1, RefusedStep
    <3> QED
      BY <3>3, <3>4
  <2> QED
    BY <2>3, <2>4
<1>4. ASSUME NEW r \in Ranges, NEW f \in Frames,
             NEW p \in BOOLEAN, NEW m \in BOOLEAN, Unmap(r, f, p, m)
      PROVE  RegionTypeOK' /\ RegionInv'
  <2>1. /\ r \in InUse /\ f + r.num <= DevicePages /\ Having(r.first) # {}
        /\ users' = [users EXCEPT ![r] = @ - 1]
        /\ wanted' = IF users[r] = 1 THEN [wanted EXCEPT ![r] = {}] ELSE wanted
        /\ UNCHANGED <<half, space, base, mixed, aliased>> /\ ~mixed
    BY <1>4 DEF Unmap, MayGoOn
  <2>2. CASE records[Located(r.first)].count > 1
    <3>1. /\ records' = [records EXCEPT ![Located(r.first)].count = @ - 1]
          /\ UNCHANGED <<p2m, perm, stuck, astray>>
      BY <1>4, <2>2 DEF Unmap
    <3> QED
      BY <2>1, <2>2, <3>1, CountedStep
  <2>3. CASE ~(records[Located(r.first)].count > 1)
    <3>1. /\ records' = Without(records, Located(r.first)) /\ Removed(r, f, p, m)
          /\ astray' = (astray \/ \E h \in Span(r) : p2m[h] # f + h - r.first)
      BY <1>4, <2>3 DEF Unmap
    <3> QED
      BY <2>1, <2>3, <3>1, LastStep
  <2> QED
    BY <2>2, <2>3
<1> QED
  BY <1>1, <1>2, <1>3, <1>4 DEF RegionNext

-----------------------------------------------------------------------------
(* The steps of the pinned pages.                                          *)

LEMMA PinTypes ==
    ASSUME PinTypeOK
    PROVE  /\ list \in Seq(Gpfns) /\ out \in Seq(Int) /\ held \in Seq(Int)
           /\ Gpfns \subseteq Nat /\ top \in Nat /\ known \in Nat /\ li \in Nat /\ limit \in Nat \ {0}
           /\ Limit \in Nat \ {0} /\ MaxTop \in Nat
           /\ \A q \in Gpfns : refs[q] \in Nat /\ leaked[q] \in Nat
           /\ \A q \in Gpfns : Bfn(q) \in Gpfns \cup {None} /\ Bfn(q) \in Int
<1>1. /\ Limit \in Nat \ {0} /\ MaxTop \in Nat /\ Requests \subseteq Seq(Gpfns)
  BY GuestMapsAssumption DEF Gpfns
<1>2. list \in Seq(Gpfns)
  <2>1. <<>> \in Seq(Gpfns)
    OBVIOUS
  <2> QED
    BY <1>1, <2>1 DEF PinTypeOK
<1>3. Gpfns \subseteq Nat /\ None \in Int
  BY <1>1 DEF Gpfns, None
<1>4. Gpfns \cup {None} \subseteq Int
  BY <1>3
<1>5. \A s \in Seq(Gpfns \cup {None}) : s \in Seq(Int)
  BY <1>4
<1>6. out \in Seq(Int) /\ held \in Seq(Int)
  BY <1>5 DEF PinTypeOK
<1>7. limit \in Nat \ {0}
  BY <1>1 DEF PinTypeOK
<1>8. top \in Nat /\ known \in Nat /\ li \in Nat
  BY <1>3 DEF PinTypeOK
<1>9. \A q \in Gpfns : Bfn(q) \in Gpfns \cup {None} /\ Bfn(q) \in Int
  BY <1>4 DEF Bfn
<1> QED
  BY <1>1, <1>2, <1>3, <1>6, <1>7, <1>8, <1>9 DEF PinTypeOK

LEMMA GrowStep == Grow /\ PinTypeOK /\ PinInv => PinTypeOK' /\ PinInv'
<1> SUFFICES ASSUME Grow, PinTypeOK, PinInv
             PROVE  PinTypeOK' /\ PinInv'
  OBVIOUS
<1>1. /\ pc' = pc /\ list' = list /\ li' = li /\ limit' = limit /\ out' = out /\ held' = held
      /\ refs' = refs /\ known' = known /\ top' = top + 1 /\ leaked' = leaked /\ top < MaxTop
  BY DEF Grow
<1>2. top' \in Gpfns /\ top \in Nat /\ known \in Nat
  BY <1>1, PinTypes DEF Gpfns
<1>3. PinTypeOK'
  BY <1>1, <1>2 DEF PinTypeOK
<1>4. \A i \in 1 .. Len(list) : list[i] < top => Bfn(list[i])' = Bfn(list[i]) /\ list[i] < top'
  <2> SUFFICES ASSUME NEW i \in 1 .. Len(list), list[i] < top
               PROVE  Bfn(list[i])' = Bfn(list[i]) /\ list[i] < top'
    OBVIOUS
  <2>1. list[i] \in Nat
    BY PinTypes
  <2> QED
    BY <1>1, <1>2, <2>1 DEF Bfn
<1>5. PinsCounted' /\ known' <= top'
  BY <1>1, <1>2 DEF PinInv, PinsCounted
<1>6. Len(list) \in Nat /\ li \in Nat
  BY PinTypes
<1>7. ASSUME pc = "idle"
      PROVE  \A i \in 1 .. Len(list) : held[i] = Bfn(list[i])' /\ list[i] < top'
  BY <1>4, <1>7 DEF PinInv, Answered
<1>8. ASSUME pc = "pin"
      PROVE  \A i \in 1 .. li : out[i] = Bfn(list[i])' /\ list[i] < top'
  BY <1>4, <1>6, <1>8 DEF PinInv, Answered
<1>9. pc = "idle" => Answered(held, Len(list))'
  BY <1>1, <1>7 DEF Answered
<1>10. pc = "pin" => Answered(out, li)'
  BY <1>1, <1>8 DEF Answered
<1> QED
  BY <1>1, <1>3, <1>5, <1>9, <1>10 DEF PinInv

LEMMA PinBegins == ASSUME NEW l \in Requests, Pin(l), PinTypeOK, PinInv PROVE PinTypeOK' /\ PinInv'
<1>1. /\ pc = "idle" /\ held = <<>> /\ pc' = "pin" /\ list' = l /\ li' = 0 /\ limit' = Limit
      /\ out' = <<>> /\ held' = held /\ refs' = refs /\ known' = known /\ top' = top
      /\ leaked' = leaked
  BY DEF Pin
<1>2. l \in Seq(Gpfns) /\ Len(l) \in Nat /\ Limit \in Nat \ {0}
  BY GuestMapsAssumption DEF Gpfns
<1>3. PinTypeOK'
  BY <1>1, <1>2 DEF PinTypeOK
<1>4. PinsCounted'
  BY <1>1 DEF PinInv, PinsCounted
<1> QED
  BY <1>1, <1>2, <1>3, <1>4 DEF PinInv, Answered

\* A call that fails loses the pins of what it had translated.
LEMMA FailsKeeps ==
    ASSUME NEW s \in Seq(Gpfns \cup {None}), Fails(s), pc = "pin", refs' = Plus(refs, s),
           known' \in Gpfns, known' <= top, UNCHANGED <<held, top>>, PinTypeOK, PinInv
    PROVE  PinTypeOK' /\ PinInv'
<1>1. /\ pc' = "idle" /\ out' = <<>> /\ list' = <<>> /\ li' = 0 /\ limit' = Limit
      /\ held' = held /\ top' = top /\ held = <<>>
      /\ leaked' = [p \in Gpfns |-> leaked[p] + Count(out \o s, p)]
      /\ refs' = [p \in Gpfns |-> refs[p] + Count(s, p)]
  BY DEF Fails, Plus, PinInv
<1>2. s \in Seq(Int) /\ out \in Seq(Int) /\ out \o s \in Seq(Int)
  <2>1. \A x \in Gpfns \cup {None} : x \in Int
    BY PinTypes DEF None
  <2>2. s \in Seq(Int)
    BY <2>1
  <2> QED
    BY <2>2, PinTypes
<1>3. \A p \in Gpfns : /\ Count(out \o s, p) = Count(out, p) + Count(s, p)
                      /\ Count(out, p) \in Nat /\ Count(s, p) \in Nat
                      /\ refs[p] \in Nat /\ leaked[p] \in Nat
                      /\ refs[p] = Count(held, p) + Count(out, p) + leaked[p]
                      /\ Count(held, p) = 0 /\ Count(held', p) = 0 /\ Count(out', p) = 0
  <2> SUFFICES ASSUME NEW p \in Gpfns
               PROVE  /\ Count(out \o s, p) = Count(out, p) + Count(s, p)
                      /\ Count(out, p) \in Nat /\ Count(s, p) \in Nat
                      /\ refs[p] \in Nat /\ leaked[p] \in Nat
                      /\ refs[p] = Count(held, p) + Count(out, p) + leaked[p]
                      /\ Count(held, p) = 0 /\ Count(held', p) = 0 /\ Count(out', p) = 0
    OBVIOUS
  <2>1. Count(out \o s, p) = Count(out, p) + Count(s, p)
    BY <1>2, CountConcat
  <2>2. Count(out, p) \in Nat /\ Count(s, p) \in Nat
    BY <1>2, CountType
  <2>3. Count(held, p) = 0 /\ Count(held', p) = 0 /\ Count(out', p) = 0
    BY <1>1, CountNone
  <2>4. refs[p] \in Nat /\ leaked[p] \in Nat
    BY PinTypes
  <2>5. refs[p] = Count(held, p) + Count(out, p) + leaked[p]
    BY DEF PinInv, PinsCounted
  <2> QED
    BY <2>1, <2>2, <2>3, <2>4, <2>5
<1>4. refs' \in [Gpfns -> Nat] /\ leaked' \in [Gpfns -> Nat]
  BY ONLY <1>1, <1>3
<1>5. PinTypeOK'
  <2>1. Limit \in 1 .. Limit /\ held' \in Seq(Gpfns \cup {None}) /\ top' \in Gpfns
    <3>1. Limit \in 1 .. Limit
      BY PinTypes
    <3> QED
      BY <1>1, <3>1 DEF PinTypeOK
  <2>2. out' \in Seq(Gpfns \cup {None}) /\ list' \in Requests \cup {<<>>} /\ li' \in Nat
    BY <1>1
  <2> QED
    BY <1>1, <1>4, <2>1, <2>2 DEF PinTypeOK
<1>6. PinsCounted'
  <2> SUFFICES ASSUME NEW p \in Gpfns
               PROVE  refs'[p] = Count(held', p) + Count(out', p) + leaked'[p]
    BY DEF PinsCounted, Count
  <2>1. refs'[p] = refs[p] + Count(s, p) /\ leaked'[p] = leaked[p] + Count(out \o s, p)
    BY <1>1
  <2> QED
    BY <1>3, <2>1
<1> QED
  BY <1>1, <1>5, <1>6 DEF PinInv, Answered

LEMMA BatchFailsStep == BatchFails /\ PinTypeOK /\ PinInv => PinTypeOK' /\ PinInv'
<1> SUFFICES ASSUME BatchFails, PinTypeOK, PinInv
             PROVE  PinTypeOK' /\ PinInv'
  OBVIOUS
<1>1. pc = "pin" /\ held' = held /\ top' = top
  BY DEF BatchFails
<1>2. CASE BatchRetries
  <2>1. /\ pc' = pc /\ list' = list /\ li' = li /\ limit' = 1 /\ out' = out /\ refs' = refs
        /\ leaked' = leaked /\ known' = known
    BY <1>2 DEF BatchRetries
  <2>2. 1 \in 1 .. Limit
    BY PinTypes
  <2>3. PinTypeOK'
    BY <1>1, <2>1, <2>2 DEF PinTypeOK
  <2> QED
    BY <1>1, <2>1, <2>3 DEF PinInv, PinsCounted, Answered, Bfn
<1>3. CASE Fails(<<>>) /\ UNCHANGED <<refs, known>>
  <2>1. \A p \in Gpfns : Count(<<>>, p) = 0 /\ refs[p] \in Nat
    BY CountNone, PinTypes
  <2>2. refs' = Plus(refs, <<>>)
    <3>1. refs' = refs /\ refs = [p \in Gpfns |-> refs[p]]
      BY <1>3 DEF PinTypeOK
    <3>2. \A p \in Gpfns : refs[p] + Count(<<>>, p) = refs[p]
      BY <2>1
    <3> QED
      BY <3>1, <3>2 DEF Plus
  <2>3. known' \in Gpfns /\ known' <= top
    BY <1>3 DEF PinTypeOK, PinInv
  <2>4. <<>> \in Seq(Gpfns \cup {None})
    OBVIOUS
  <2> QED
    BY <1>1, <1>3, <2>2, <2>3, <2>4, FailsKeeps
<1> QED
  BY <1>2, <1>3 DEF BatchFails

LEMMA BatchIs ==
    ASSUME PinTypeOK, li < Len(list)
    PROVE  /\ Batch \in Seq(Gpfns) /\ Len(Batch) \in Nat /\ li + Len(Batch) <= Len(list)
           /\ DOMAIN Batch = 1 .. Len(Batch)
           /\ \A i \in DOMAIN Batch : Batch[i] = list[li + i] /\ Batch[i] \in Gpfns
<1> DEFINE e == Lesser(li + limit, Len(list))
<1>1. list \in Seq(Gpfns) /\ Len(list) \in Nat /\ li \in Nat /\ limit \in Nat \ {0}
  BY PinTypes
<1>2. e \in Nat /\ li + 1 <= e /\ e <= Len(list)
  BY <1>1 DEF Lesser
<1>3. Batch = SubSeq(list, li + 1, e)
  BY DEF Batch
<1> HIDE DEF e
<1>4. \A i \in li + 1 .. e : list[i] \in Gpfns
  BY <1>1, <1>2
<1>5. /\ SubSeq(list, li + 1, e) \in Seq(Gpfns)
      /\ Len(SubSeq(list, li + 1, e)) = IF li + 1 <= e THEN e - (li + 1) + 1 ELSE 0
      /\ \A i \in 1 .. e - (li + 1) + 1 : SubSeq(list, li + 1, e)[i] = list[li + 1 + i - 1]
  <2>1. li + 1 \in Int /\ e \in Int
    BY <1>1, <1>2
  <2> QED
    BY <1>4, <2>1, SubSeqProperties
<1>6. Len(Batch) = e - li
  BY <1>1, <1>2, <1>3, <1>5
<1>7. \A i \in 1 .. e - li : Batch[i] = list[li + i] /\ Batch[i] \in Gpfns
  <2> SUFFICES ASSUME NEW i \in 1 .. e - li
               PROVE  Batch[i] = list[li + i] /\ Batch[i] \in Gpfns
    OBVIOUS
  <2>1. li + 1 + i - 1 = li + i /\ i \in 1 .. e - (li + 1) + 1 /\ li + i \in li + 1 .. e
    BY <1>1, <1>2
  <2> QED
    BY <2>1, <1>3, <1>4, <1>5
<1> QED
  BY <1>1, <1>2, <1>3, <1>5, <1>6, <1>7

\* The pages of a batch are added below the highest page, or the call fails.
LEMMA PinBatchStep ==
    ASSUME NEW asked \in BOOLEAN, PinBatch(asked), PinTypeOK, PinInv
    PROVE  PinTypeOK' /\ PinInv'
<1> DEFINE bfns == [i \in DOMAIN Batch |-> Bfn(Batch[i])]
           above == {i \in DOMAIN Batch : Batch[i] > known - 1}
           limitNow == IF above # {} /\ asked /\ top > known THEN top ELSE known
<1>1. pc = "pin" /\ li < Len(list)
  BY DEF PinBatch
<1>2. /\ Batch \in Seq(Gpfns) /\ Len(Batch) \in Nat /\ li + Len(Batch) <= Len(list)
      /\ DOMAIN Batch = 1 .. Len(Batch)
      /\ \A i \in DOMAIN Batch : Batch[i] = list[li + i] /\ Batch[i] \in Gpfns
  BY <1>1, BatchIs
<1>3. bfns \in Seq(Gpfns \cup {None}) /\ Len(bfns) = Len(Batch)
  <2>1. bfns \in [1 .. Len(Batch) -> Gpfns \cup {None}]
    BY <1>2, PinTypes
  <2>2. bfns \in Seq(Gpfns \cup {None})
    BY ONLY <2>1, <1>2, FunctionIsSeq
  <2>3. DOMAIN bfns = 1 .. Len(Batch)
    BY <1>2
  <2> QED
    BY <2>2, <2>3, <1>2
<1>4. /\ refs' = Plus(refs, bfns) /\ known' = limitNow
      /\ UNCHANGED <<held, top>>
  BY DEF PinBatch
<1>5. known' \in Gpfns /\ known' <= top
  <2>1. known \in Gpfns /\ top \in Gpfns /\ known <= top /\ top \in Nat
    BY PinTypes DEF PinInv, PinTypeOK
  <2>2. known' = top \/ known' = known
    BY <1>4
  <2> QED
    BY <2>1, <2>2
<1>6. CASE Fails(bfns)
  <2> HIDE DEF bfns
  <2> QED
    BY <1>1, <1>3, <1>4, <1>5, <1>6, FailsKeeps
<1>7. CASE /\ ~\E i \in above : Batch[i] > limitNow - 1
           /\ out' = out \o bfns /\ li' = li + Len(Batch) /\ UNCHANGED <<pc, list, limit, leaked>>
  <2>1. /\ pc' = "pin" /\ list' = list /\ limit' = limit /\ leaked' = leaked /\ top' = top
        /\ held = <<>> /\ held' = <<>> /\ Len(out) = li /\ li <= Len(list)
    BY <1>1, <1>4, <1>7 DEF PinInv
  <2>2. known \in Nat /\ top \in Nat /\ known <= top /\ Gpfns \subseteq Nat /\ li \in Nat
    BY PinTypes DEF PinInv
  <2>3. \A i \in DOMAIN Batch : list[li + i] < top
    <3> SUFFICES ASSUME NEW i \in DOMAIN Batch
                 PROVE  Batch[i] < top
      BY <1>2
    <3>1. Batch[i] \in Nat
      BY <1>2, <2>2
    <3>2. limitNow \in Nat /\ limitNow <= top
      BY <2>2
    <3>3. CASE i \in above
      <4>1. ~(Batch[i] > limitNow - 1)
        BY <1>7, <3>3
      <4> HIDE DEF limitNow
      <4> QED
        BY <3>1, <3>2, <4>1, <2>2
    <3>4. CASE i \notin above
      BY <3>1, <3>4, <2>2
    <3> QED
      BY <3>3, <3>4
  <2>4. \A i \in DOMAIN Batch : bfns[i] = Bfn(list[li + i])
    BY <1>2
  <2>5. out \in Seq(Gpfns \cup {None}) /\ out' = out \o bfns /\ li' = li + Len(Batch)
    BY <1>7 DEF PinTypeOK
  <2>6. refs' = [p \in Gpfns |-> refs[p] + Count(bfns, p)]
    BY <1>4 DEF Plus
  <2> HIDE DEF bfns, above, limitNow
  <2>7. /\ out' \in Seq(Gpfns \cup {None}) /\ Len(out') = li'
        /\ \A i \in 1 .. li' : out'[i] = IF i <= li THEN out[i] ELSE bfns[i - li]
    <3>1. /\ out \o bfns \in Seq(Gpfns \cup {None}) /\ Len(out \o bfns) = Len(out) + Len(bfns)
          /\ \A i \in 1 .. Len(out) + Len(bfns) :
                (out \o bfns)[i] = IF i <= Len(out) THEN out[i] ELSE bfns[i - Len(out)]
      BY <1>3, <2>5, ConcatProperties
    <3> QED
      BY <3>1, <1>3, <2>1, <2>5
  <2>8. \A i \in 1 .. li' : out'[i] = Bfn(list[i]) /\ list[i] < top
    <3> SUFFICES ASSUME NEW i \in 1 .. li'
                 PROVE  out'[i] = Bfn(list[i]) /\ list[i] < top
      OBVIOUS
    <3>1. CASE i <= li
      <4>1. i \in 1 .. li
        BY <3>1, <2>2
      <4> QED
        BY <4>1, <3>1, <2>7, <1>1 DEF PinInv, Answered
    <3>2. CASE i > li
      <4>1. i - li \in DOMAIN Batch /\ li + (i - li) = i
        BY <3>2, <1>2, <2>2, <2>5
      <4>2. out'[i] = bfns[i - li]
        BY <3>2, <2>2, <2>7
      <4> QED
        BY <4>1, <4>2, <2>3, <2>4
    <3> QED
      BY <3>1, <3>2, <2>2
  <2>9. bfns \in Seq(Int) /\ out \in Seq(Int)
    <3>1. \A x \in Gpfns \cup {None} : x \in Int
      BY <2>2 DEF None
    <3>2. bfns \in Seq(Int)
      BY <1>3, <3>1
    <3> QED
      BY <3>2, PinTypes
  <2>10. \A p \in Gpfns : /\ Count(out', p) = Count(out, p) + Count(bfns, p)
                          /\ Count(out, p) \in Nat /\ Count(bfns, p) \in Nat
                          /\ Count(held, p) = 0 /\ Count(held', p) = 0
                          /\ refs[p] \in Nat /\ leaked[p] \in Nat
                          /\ refs[p] = Count(held, p) + Count(out, p) + leaked[p]
    <3> SUFFICES ASSUME NEW p \in Gpfns
                 PROVE  /\ Count(out', p) = Count(out, p) + Count(bfns, p)
                        /\ Count(out, p) \in Nat /\ Count(bfns, p) \in Nat
                        /\ Count(held, p) = 0 /\ Count(held', p) = 0
                        /\ refs[p] \in Nat /\ leaked[p] \in Nat
                        /\ refs[p] = Count(held, p) + Count(out, p) + leaked[p]
      OBVIOUS
    <3>1. Count(out', p) = Count(out, p) + Count(bfns, p)
      BY <2>5, <2>9, CountConcat
    <3>2. Count(out, p) \in Nat /\ Count(bfns, p) \in Nat
      BY <2>9, CountType
    <3>3. Count(held, p) = 0 /\ Count(held', p) = 0
      BY <2>1, CountNone
    <3>4. refs[p] \in Nat /\ leaked[p] \in Nat
      BY PinTypes
    <3>5. refs[p] = Count(held, p) + Count(out, p) + leaked[p]
      BY DEF PinInv, PinsCounted
    <3> QED
      BY <3>1, <3>2, <3>3, <3>4, <3>5
  <2>11. PinTypeOK'
    <3>1. refs' \in [Gpfns -> Nat]
      BY <2>6, <2>10
    <3>2. li' \in Nat
      BY <2>2, <2>5, <1>2
    <3>3. held' \in Seq(Gpfns \cup {None})
      BY <2>1
    <3> QED
      BY <2>1, <2>7, <1>5, <3>1, <3>2, <3>3 DEF PinTypeOK
  <2>12. PinsCounted'
    <3> SUFFICES ASSUME NEW p \in Gpfns
                 PROVE  refs'[p] = Count(held', p) + Count(out', p) + leaked'[p]
      BY DEF PinsCounted, Count
    <3>1. refs'[p] = refs[p] + Count(bfns, p) /\ leaked'[p] = leaked[p]
      BY <2>1, <2>6
    <3> QED
      BY <2>10, <3>1
  <2>13. Answered(out, li)'
    BY <2>1, <2>8 DEF Answered, Bfn
  <2>14. li' <= Len(list')
    BY <2>1, <2>5, <1>2
  <2> QED
    BY <2>1, <2>7, <2>11, <2>12, <2>13, <2>14, <1>4, <1>5 DEF PinInv
<1> QED
  BY <1>6, <1>7 DEF PinBatch

LEMMA PinEndStep == PinEnd /\ PinTypeOK /\ PinInv => PinTypeOK' /\ PinInv'
<1> SUFFICES ASSUME PinEnd, PinTypeOK, PinInv
             PROVE  PinTypeOK' /\ PinInv'
  OBVIOUS
<1>1. /\ pc = "pin" /\ li = Len(list) /\ pc' = "idle" /\ held' = out /\ out' = <<>>
      /\ li' = 0 /\ limit' = Limit /\ list' = list /\ refs' = refs /\ known' = known /\ top' = top
      /\ leaked' = leaked /\ held = <<>> /\ Len(out) = li
  BY DEF PinEnd, PinInv
<1>2. Limit \in 1 .. Limit
  BY PinTypes
<1>3. PinTypeOK'
  BY <1>1, <1>2 DEF PinTypeOK
<1>4. PinsCounted'
  <2> SUFFICES ASSUME NEW p \in Gpfns
               PROVE  refs'[p] = Count(held', p) + Count(out', p) + leaked'[p]
    BY DEF PinsCounted, Count
  <2>1. refs[p] = Count(held, p) + Count(out, p) + leaked[p]
    BY DEF PinInv, PinsCounted
  <2>2. Count(held, p) = 0 /\ Count(out', p) = 0 /\ Count(held', p) = Count(out, p)
    BY <1>1, CountNone
  <2>3. Count(out, p) \in Nat
    BY CountType, PinTypes
  <2> QED
    BY <2>1, <2>2, <2>3, <1>1
<1>5. Answered(held, Len(list))'
  BY <1>1 DEF PinInv, Answered, Bfn
<1> QED
  BY <1>1, <1>3, <1>4, <1>5 DEF PinInv

LEMMA UnpinStep == Unpin /\ PinTypeOK /\ PinInv => PinTypeOK' /\ PinInv'
<1> SUFFICES ASSUME Unpin, PinTypeOK, PinInv
             PROVE  PinTypeOK' /\ PinInv'
  OBVIOUS
<1>1. /\ pc = "idle" /\ pc' = "unpin" /\ held' = <<>> /\ out' = held /\ list' = <<>>
      /\ li' = li /\ limit' = limit /\ refs' = refs /\ known' = known /\ top' = top
      /\ leaked' = leaked /\ out = <<>>
  BY DEF Unpin, PinInv
<1>2. PinTypeOK'
  BY <1>1 DEF PinTypeOK
<1>3. PinsCounted'
  <2> SUFFICES ASSUME NEW p \in Gpfns
               PROVE  refs'[p] = Count(held', p) + Count(out', p) + leaked'[p]
    BY DEF PinsCounted, Count
  <2>1. refs[p] = Count(held, p) + Count(out, p) + leaked[p]
    BY DEF PinInv, PinsCounted
  <2>2. Count(out, p) = 0 /\ Count(held', p) = 0 /\ Count(out', p) = Count(held, p)
    BY <1>1, CountNone
  <2>3. Count(held, p) \in Nat
    BY CountType, PinTypes
  <2> QED
    BY <2>1, <2>2, <2>3, <1>1
<1> QED
  BY <1>1, <1>2, <1>3 DEF PinInv

LEMMA UnpinBatchStep ==
    ASSUME NEW n \in DOMAIN out, NEW ok \in BOOLEAN, UnpinBatch(n, ok), PinTypeOK, PinInv
    PROVE  PinTypeOK' /\ PinInv'
<1> DEFINE gone == SubSeq(out, 1, n)
<1>1. /\ pc = "unpin" /\ out' = SubSeq(out, n + 1, Len(out))
      /\ pc' = pc /\ list' = list /\ li' = li /\ limit' = limit /\ held' = held /\ known' = known
      /\ top' = top /\ held = <<>> /\ list = <<>>
      /\ IF ok THEN refs' = [p \in Gpfns |-> refs[p] - Count(gone, p)] /\ leaked' = leaked
         ELSE leaked' = [p \in Gpfns |-> leaked[p] + Count(gone, p)] /\ refs' = refs
  BY DEF UnpinBatch, PinInv, Plus
<1>2. /\ out' \in Seq(Gpfns \cup {None}) /\ out' \in Seq(Int) /\ gone \in Seq(Int)
  <2>1. out \in Seq(Gpfns \cup {None}) /\ n \in 1 .. Len(out) /\ Len(out) \in Nat
    BY DEF PinTypeOK
  <2>2. /\ \A i \in n + 1 .. Len(out) : out[i] \in Gpfns \cup {None}
        /\ \A i \in 1 .. n : out[i] \in Gpfns \cup {None}
    BY <2>1
  <2>3. out' \in Seq(Gpfns \cup {None}) /\ gone \in Seq(Gpfns \cup {None})
    BY <1>1, <2>1, <2>2, SubSeqProperties
  <2>4. \A x \in Gpfns \cup {None} : x \in Int
    BY PinTypes DEF None
  <2> HIDE DEF gone
  <2> QED
    BY <2>3, <2>4
<1>3. \A p \in Gpfns : /\ Count(out, p) = Count(gone, p) + Count(out', p)
                      /\ Count(gone, p) \in Nat /\ Count(out', p) \in Nat
                      /\ refs[p] \in Nat /\ leaked[p] \in Nat
                      /\ refs[p] = Count(out, p) + leaked[p] /\ Count(held', p) = 0
  <2> SUFFICES ASSUME NEW p \in Gpfns
               PROVE  /\ Count(out, p) = Count(gone, p) + Count(out', p)
                      /\ Count(gone, p) \in Nat /\ Count(out', p) \in Nat
                      /\ refs[p] \in Nat /\ leaked[p] \in Nat
                      /\ refs[p] = Count(out, p) + leaked[p] /\ Count(held', p) = 0
    OBVIOUS
  <2>1. Count(out, p) = Count(gone, p) + Count(out', p)
    BY <1>1, CountSplit, PinTypes
  <2>2. Count(gone, p) \in Nat /\ Count(out', p) \in Nat
    BY <1>2, CountType
  <2>3. refs[p] \in Nat /\ leaked[p] \in Nat
    BY PinTypes
  <2>4. Count(held, p) = 0 /\ Count(held', p) = 0
    BY <1>1, CountNone
  <2>5. refs[p] = Count(held, p) + Count(out, p) + leaked[p]
    BY DEF PinInv, PinsCounted
  <2> HIDE DEF gone
  <2> QED
    BY <2>1, <2>2, <2>3, <2>4, <2>5
<1> HIDE DEF gone
<1>4. /\ \A p \in Gpfns : refs'[p] = Count(held', p) + Count(out', p) + leaked'[p]
      /\ refs' \in [Gpfns -> Nat] /\ leaked' \in [Gpfns -> Nat]
  <2>1. CASE ok
    <3>1. /\ refs' = [p \in Gpfns |-> refs[p] - Count(gone, p)] /\ leaked' = leaked
          /\ leaked \in [Gpfns -> Nat]
      BY <1>1, <2>1 DEF PinTypeOK
    <3>2. \A p \in Gpfns : refs[p] - Count(gone, p) = Count(out', p) + leaked[p]
      BY <1>3
    <3> QED
      BY <3>1, <3>2, <1>3
  <2>2. CASE ~ok
    <3>1. /\ leaked' = [p \in Gpfns |-> leaked[p] + Count(gone, p)] /\ refs' = refs
          /\ refs \in [Gpfns -> Nat]
      BY <1>1, <2>2 DEF PinTypeOK
    <3> QED
      BY <3>1, <1>3
  <2> QED
    BY <2>1, <2>2
<1>5. PinTypeOK'
  BY <1>1, <1>2, <1>4 DEF PinTypeOK
<1>6. PinsCounted'
  BY <1>4 DEF PinsCounted, Count
<1> QED
  BY <1>1, <1>5, <1>6 DEF PinInv

LEMMA UnpinEndStep == UnpinEnd /\ PinTypeOK /\ PinInv => PinTypeOK' /\ PinInv'
<1> SUFFICES ASSUME UnpinEnd, PinTypeOK, PinInv
             PROVE  PinTypeOK' /\ PinInv'
  OBVIOUS
<1>1. /\ pc = "unpin" /\ pc' = "idle" /\ out = <<>>
      /\ li' = li /\ limit' = limit /\ refs' = refs /\ known' = known /\ top' = top /\ out' = out
      /\ list' = list /\ held' = held /\ leaked' = leaked /\ held = <<>> /\ list = <<>>
  BY DEF UnpinEnd, PinInv
<1>2. PinTypeOK'
  BY <1>1 DEF PinTypeOK
<1> QED
  BY <1>1, <1>2 DEF PinInv, PinsCounted, Answered

LEMMA PinStep == PinNext /\ PinTypeOK /\ PinInv => PinTypeOK' /\ PinInv'
<1> SUFFICES ASSUME PinNext, PinTypeOK, PinInv
             PROVE  PinTypeOK' /\ PinInv'
  OBVIOUS
<1> QED
  BY GrowStep, BatchFailsStep, PinEndStep, UnpinStep, UnpinEndStep, PinBegins, PinBatchStep,
    UnpinBatchStep DEF PinNext

-----------------------------------------------------------------------------
LEMMA OneHalf ==
    /\ RegionNext => UNCHANGED pinVars
    /\ PinNext => UNCHANGED <<half, regionVars>>
<1>1. RegionNext => UNCHANGED pinVars
  <2>1. \A sp : Create(sp) => UNCHANGED pinVars
    BY DEF Create
  <2>2. \A b, ok : Relocate(b, ok) => UNCHANGED pinVars
    BY DEF Relocate
  <2>3. \A r, f, p, m : Map(r, f, p, m) => UNCHANGED pinVars
    BY DEF Map
  <2>4. \A r, f, p, m : Unmap(r, f, p, m) => UNCHANGED pinVars
    BY DEF Unmap
  <2> QED
    BY <2>1, <2>2, <2>3, <2>4 DEF RegionNext
<1>2. PinNext => UNCHANGED <<half, regionVars>>
  BY DEF PinNext, Grow, BatchFails, PinEnd, Unpin, UnpinEnd, Pin, PinBatch, UnpinBatch
<1> QED
  BY <1>1, <1>2

LEMMA MapsNextInv == MapsInv /\ [MapsNext]_mapsVars => MapsInv'
<1> SUFFICES ASSUME MapsInv, [MapsNext]_mapsVars
             PROVE  MapsInv'
  OBVIOUS
<1>1. RegionTypeOK /\ RegionInv /\ PinTypeOK /\ PinInv
  BY MapsTypes DEF MapsInv
<1> SUFFICES RegionTypeOK' /\ RegionInv' /\ PinTypeOK' /\ PinInv'
  BY DEF MapsInv, MapsTypeOK, RegionTypeOK, PinTypeOK
<1>2. CASE RegionNext
  BY <1>1, <1>2, RegionStep, OneHalf, PinsAlone
<1>3. CASE PinNext
  <2>1. UNCHANGED <<half, regionVars>>
    BY <1>3, OneHalf
  <2> QED
    BY <1>1, <1>3, <2>1, PinStep, RegionAlone DEF regionVars, RegionTypeOK
<1>4. CASE UNCHANGED mapsVars
  <2>1. UNCHANGED pinVars /\ UNCHANGED <<half, regionVars>>
    BY <1>4 DEF mapsVars
  <2> QED
    BY <1>1, <2>1, RegionAlone, PinsAlone DEF regionVars, RegionTypeOK
<1> QED
  BY <1>2, <1>3, <1>4 DEF MapsNext

LEMMA MapsInvariant == MapsSpec => []MapsInv
BY MapsInitInv, MapsNextInv, PTL DEF MapsSpec

\* The types of the mappings and the pins: no page outside the region is ever
\* recorded or mapped, and no page's pins are counted below zero
\* (vmiop_map_guest_region, vmiop_unpin_guest_pages).
THEOREM MapsTypeCorrect == MapsSpec => []MapsTypeOK
<1>1. MapsInv => MapsTypeOK
  BY DEF MapsInv
<1> QED
  BY <1>1, MapsInvariant, PTL

\* While the ranges in use are the same or apart, each is in the guest, in a
\* row of device pages that one of its users asked for, also after the region
\* has moved; and the guest has a permission for what it has, unless a device
\* page was put at a second place or a mapping undone with another one
\* (vmiop_map_guest_region, vmiop_relocate_guest_region).
THEOREM GrantsAreMappedCorrect == MapsSpec => []GrantsAreMapped
<1>1. MapsInv => GrantsAreMapped
  BY DEF MapsInv, RegionInv, GrantsAreMapped, RangeMapped, PagesPermitted
<1> QED
  BY <1>1, MapsInvariant, PTL

\* Nothing is kept that was given back: the records count the users there are,
\* other pages were left by a hypercall that failed, and every pin is in the
\* plugin's list unless a call failed (vmiop_map_guest_region,
\* vmiop_pin_guest_pages, vmiop_unpin_guest_pages).
THEOREM NothingKeptCorrect == MapsSpec => []NothingKept
<1>1. ASSUME MapsInv
      PROVE  NothingKept
  <2>1. RegionInv /\ PinInv /\ PinTypeOK
    BY <1>1, MapsTypes DEF MapsInv
  <2>2. held # <<>> => held = [i \in DOMAIN list |-> Bfn(list[i])]
    <3> SUFFICES ASSUME held # <<>>
                 PROVE  held = [i \in DOMAIN list |-> Bfn(list[i])]
      OBVIOUS
    <3>1. Len(held) = Len(list) /\ Answered(held, Len(list))
      BY <2>1 DEF PinInv, PinTypeOK
    <3>2. DOMAIN held = 1 .. Len(list) /\ DOMAIN list = 1 .. Len(list)
      BY <2>1, <3>1, PinTypes
    <3>3. held = [i \in DOMAIN held |-> held[i]]
      BY <2>1, PinTypes
    <3> QED
      BY <3>1, <3>2, <3>3 DEF Answered
  <2>3. ASSUME ~mixed, NEW i \in DOMAIN records
        PROVE  \E r \in InUse : Span(r) = Span(records[i]) /\ records[i].count = users[r]
    <3>1. /\ RangeOf(records[i]) \in InUse /\ records[i].count = users[RangeOf(records[i])]
          /\ Span(RangeOf(records[i])) = Span(records[i])
      BY <1>1, <2>1, <2>3, RecordTypes, MapsTypes DEF MapsInv, RegionInv, RecordsUsed
    <3> QED
      BY <3>1
  <2> QED
    BY <2>1, <2>2, <2>3 DEF NothingKept, RegionInv, PinInv, PinsCounted, OthersStuck,
      PermissionsStuck
<1> QED
  BY <1>1, MapsInvariant, PTL

=============================================================================
