------------------------------ MODULE Mapcache ------------------------------
(***************************************************************************)
(* mapcache.c: the pages of guest memory that demu keeps mapped for the    *)
(* requests that name their data by its address.                           *)
(*                                                                         *)
(* A mapping is the page it is of and the frame that was behind the page   *)
(* when it was made: the guest may put another frame there later.  A call  *)
(* maps at most one page; whether Xen can is an argument of the operators. *)
(***************************************************************************)
EXTENDS Integers, FiniteSets

CONSTANTS
    Buckets,    \* MAPCACHE_BUCKET_COUNT
    Ways,       \* MAPCACHE_BUCKET_SIZE
    Pages,      \* page numbers demu may be asked for
    GuestPages, \* those of them the guest has
    MaxFrame,   \* bound: how often the guest replaces a page
    MaxEpoch    \* bound: the greatest epoch

ASSUME MapcacheAssumption ==
    /\ Buckets \in Nat \ {0} /\ Ways \in Nat \ {0}
    /\ Pages \subseteq Nat /\ GuestPages \subseteq Pages
    /\ MaxFrame \in Nat /\ MaxEpoch \in Nat

VARIABLES
    cache,      \* mapcache[], by bucket and way
    epoch,      \* mapcache_epoch
    windows,    \* mappings made and not undone
    frame,      \* the frame behind each page of the guest
    stale,      \* pages whose frame changed since the last invalidation
    \* History.
    dropped     \* pages that lost their mapping while their entry kept their number

cacheVars == <<cache, epoch, windows, frame, stale, dropped>>

NoPtr == [page |-> -1, frame |-> 0]
Ptrs == [page : GuestPages, frame : 0 .. MaxFrame]
Entries == (0 .. Buckets - 1) \X (1 .. Ways)

CacheTypeOK ==
    /\ cache \in [Entries -> [pfn : Pages \cup {0}, ptr : Ptrs \cup {NoPtr}, epoch : Nat]]
    /\ epoch \in Nat /\ windows \in Nat
    /\ frame \in [GuestPages -> 0 .. MaxFrame] /\ stale \subseteq GuestPages
    /\ dropped \subseteq Pages \cup {0}

\* The array is zero: every entry of the first bucket claims page 0.
CacheInit ==
    /\ cache = [e \in Entries |-> [pfn |-> 0, ptr |-> NoPtr, epoch |-> 0]]
    /\ epoch = 0 /\ windows = 0
    /\ frame = [p \in GuestPages |-> 0] /\ stale = {}
    /\ dropped = {0}

-----------------------------------------------------------------------------
Bucket(p) == {e \in Entries : e[1] = p % Buckets}

\* The entries that claim page p.
Claims(c, p) == {e \in Bucket(p) : c[e].pfn = p}

\* __mapcache_lookup: each entry that claims the page is used, in turn ...
Touch(c, n, p) ==
    [e \in Entries |->
        IF e \in Claims(c, p)
        THEN [c[e] EXCEPT !.epoch = n + Cardinality({f \in Claims(c, p) : f[2] < e[2]})]
        ELSE c[e]]
Touched(c, n, p) == n + Cardinality(Claims(c, p))

\* ... and the last one answers, with a mapping or without.
Found(c, p) ==
    IF Claims(c, p) = {} THEN NoPtr
    ELSE c[CHOOSE e \in Claims(c, p) : \A f \in Claims(c, p) : f[2] <= e[2]].ptr

\* __mapcache_fault: the first of the entries that were used longest ago.
Victim(c, p) ==
    CHOOSE e \in Bucket(p) : \A f \in Bucket(p) :
        c[e].epoch < c[f].epoch \/ (c[e].epoch = c[f].epoch /\ e[2] <= f[2])

\* Slip: the entry takes the number before the page is mapped.
FaultTakesPfn(c, p, ok) ==
    [c EXCEPT ![Victim(c, p)].ptr = IF ok THEN [page |-> p, frame |-> frame[p]] ELSE NoPtr,
              ![Victim(c, p)].pfn = p]

\* Its mapping goes; a page that cannot be mapped leaves the entry its number.
Fault(c, p, ok) ==
    [c EXCEPT ![Victim(c, p)].ptr = IF ok THEN [page |-> p, frame |-> frame[p]] ELSE NoPtr,
              ![Victim(c, p)].pfn = IF ok THEN p ELSE @]

\* mapcache_lookup: the first look, and the cache after the fault and the
\* second one.
Hit(p) == Found(cache, p) # NoPtr
Looked(p) == Touch(cache, epoch, p)
Faulted(p, ok) == Fault(Looked(p), p, ok)

\* The mapping the caller is given, or NoPtr.
Answer(p, ok) == IF Hit(p) THEN Found(cache, p) ELSE Found(Faulted(p, ok), p)

\* Mappings undone when entry v is given to another page.
UndoneBy(v) == IF v.ptr # NoPtr THEN 1 ELSE 0

CanMap(p, ok) == ok => p \in GuestPages

Lookup(p, ok) ==
    LET v == Looked(p)[Victim(Looked(p), p)]
        n == Touched(cache, epoch, p)
    IN /\ CanMap(p, ok)
       /\ cache' = IF Hit(p) THEN Looked(p) ELSE Touch(Faulted(p, ok), n, p)
       /\ epoch' = IF Hit(p) THEN n ELSE Touched(Faulted(p, ok), n, p)
       /\ epoch' <= MaxEpoch
       /\ windows' = IF Hit(p) THEN windows
                     ELSE windows - UndoneBy(v) + (IF ok THEN 1 ELSE 0)
       /\ dropped' = IF ~Hit(p) /\ ~ok /\ v.ptr # NoPtr THEN dropped \cup {v.pfn} ELSE dropped
       /\ UNCHANGED <<frame, stale>>

\* Slip: the last way of each bucket is left out.
UnmappedButLast(c) ==
    [e \in Entries |-> IF e[2] < Ways THEN [c[e] EXCEPT !.ptr = NoPtr] ELSE c[e]]

\* mapcache_invalidate
Unmapped(c) == [e \in Entries |-> [c[e] EXCEPT !.ptr = NoPtr]]

Held(c) == {e \in Entries : c[e].ptr # NoPtr}

Invalidate ==
    /\ cache' = Unmapped(cache)
    /\ windows' = windows - Cardinality(Held(cache))
    /\ dropped' = dropped \cup {cache[e].pfn : e \in Held(cache)}
    /\ stale' = {}
    /\ UNCHANGED <<epoch, frame>>

\* The guest puts another frame behind page p; Xen tells demu, in a request.
Replace(p) ==
    /\ frame[p] < MaxFrame
    /\ frame' = [frame EXCEPT ![p] = @ + 1] /\ stale' = stale \cup {p}
    /\ UNCHANGED <<cache, epoch, windows, dropped>>

-----------------------------------------------------------------------------
\* An entry maps the page it claims, in the frame the page has now unless an
\* invalidation is on its way: no request sees memory the guest has given up.
\* Nor does a mapping leak: each is in the cache until it is undone
\* (__mapcache_fault, mapcache_invalidate).
MappingsAreCurrent ==
    /\ \A e \in Held(cache) :
        /\ cache[e].ptr.page = cache[e].pfn
        /\ cache[e].ptr.page \notin stale => cache[e].ptr.frame = frame[cache[e].pfn]
    /\ windows = Cardinality(Held(cache))

\* A page of the guest is found whenever Xen can map it, unless an entry of it
\* outlived its mapping: only such an entry can hide the page's new mapping, or
\* have the page mapped twice (__mapcache_lookup, __mapcache_fault).
FoundUnlessDropped ==
    \A p \in Pages \ dropped :
        /\ \A e \in Claims(cache, p) : e \in Held(cache) /\ Claims(cache, p) = {e}
        /\ p \in GuestPages => Answer(p, TRUE).page = p

=============================================================================
