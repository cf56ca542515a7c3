----------------------------- MODULE GuestMaps -----------------------------
(***************************************************************************)
(* What a plugin maps and pins, from vmiop-env.c and demu.c: pages of the  *)
(* device mapped into a region of the guest's address space, with a count  *)
(* of their users, and pages of the guest pinned for the device.           *)
(*                                                                         *)
(* A range is what a call of vmiop_map_guest_region names, of the guest's  *)
(* pages; the device page that it is mapped to is an argument of its own.  *)
(* The two halves share no state, so a behaviour has calls of one of them  *)
(* only (half).                                                            *)
(***************************************************************************)
EXTENDS Integers, Sequences, FiniteSets

CONSTANTS
    Bases,      \* where the region may be
    Length,     \* pages in it
    DevicePages, \* pages of the device
    Requests,   \* lists of guest pages that are pinned
    Absent,     \* pages that the guest does not have
    Limit,      \* VMIOPE_TRANSLATE_PAGE_COUNT
    MaxUsers,   \* bound: users of a range at one time
    MaxRanges,  \* bound: ranges in use at one time
    MaxStuck,   \* bound: no hypercall fails with that many pages left by others
    MaxTop,     \* bound: highest page of the guest
    MaxLeaked   \* bound: no list is pinned with more pins of a page lost

ASSUME GuestMapsAssumption ==
    /\ Bases \subseteq Nat /\ {Length, DevicePages, Limit} \subseteq Nat \ {0}
    /\ {MaxUsers, MaxRanges, MaxStuck, MaxLeaked} \subseteq Nat /\ MaxTop \in Nat \ {0} /\ Absent \subseteq Nat
    /\ Requests \subseteq Seq(0 .. MaxTop)

VARIABLES
    half,       \* which calls the behaviour has
    \* The region and its mappings.
    space,      \* region->address_space
    base,       \* region->range_base
    records,    \* region->mapping_list
    p2m,        \* the device's page at each page of the guest, in Xen
    perm,       \* the device's pages the guest may have
    users,      \* how often the plugin was given a range and has not undone it
    wanted,      \* the first device page of each request for a range, while in use
    mixed,      \* two ranges in use overlapped without being the same
    aliased,    \* a device page was put at a second place
    astray,     \* a mapping was undone that is not of the device page named
    stuck,      \* guest pages and device pages left by a failed hypercall
    \* Pinned pages.
    pc,         \* where vmiop_pin_guest_pages or vmiop_unpin_guest_pages is
    list,       \* its argument; that of held afterwards
    li, limit,  \* its locals
    out,        \* hpfn_list
    held,       \* the plugin's list of pinned pages
    refs,       \* pins of each page, in Xen
    known,      \* vmiope_guest_pfn_count
    top,        \* the guest's highest page
    leaked      \* pins of each page that no list has

regionVars == <<space, base, records, p2m, perm, users, wanted, mixed, aliased, astray, stuck>>
pinVars == <<pc, list, li, limit, out, held, refs, known, top, leaked>>
mapsVars == <<half, regionVars, pinVars>>

None == -1      \* VMIOP_EMUL_ADDR_NONE, VMIOP_PAGE_NUMBER_NULL, no page
RegionPages == UNION {b .. b + Length - 1 : b \in Bases}
Frames == 0 .. DevicePages - 1
Ranges == [first : RegionPages, num : 1 .. Length]
Records == [first : RegionPages, num : 1 .. Length, count : Nat \ {0}]
Gpfns == 0 .. MaxTop

MapsTypeOK ==
    /\ half \in {"regions", "pins"}
    /\ space \in {"none", "io", "mmio"} /\ base \in Bases \cup {None}
    /\ records \in Seq(Records) /\ p2m \in [RegionPages -> Frames \cup {None}]
    /\ perm \subseteq Frames /\ users \in [Ranges -> Nat] /\ wanted \in [Ranges -> SUBSET Frames]
    /\ {mixed, aliased, astray} \subseteq BOOLEAN
    /\ stuck \in [pages : SUBSET RegionPages, frames : SUBSET Frames]
    /\ pc \in {"idle", "pin", "unpin"} /\ list \in Requests \cup {<<>>}
    /\ li \in Nat /\ limit \in 1 .. Limit
    /\ out \in Seq(Gpfns \cup {None}) /\ held \in Seq(Gpfns \cup {None})
    /\ refs \in [Gpfns -> Nat] /\ leaked \in [Gpfns -> Nat]
    /\ known \in Gpfns /\ top \in Gpfns

MapsInit ==
    /\ half \in {"regions", "pins"}
    /\ space = "none" /\ base = None /\ records = <<>>
    /\ p2m = [g \in RegionPages |-> None] /\ perm = {}
    /\ users = [r \in Ranges |-> 0] /\ wanted = [r \in Ranges |-> {}]
    /\ mixed = FALSE /\ aliased = FALSE /\ astray = FALSE
    /\ stuck = [pages |-> {}, frames |-> {}]
    /\ pc = "idle" /\ list = <<>> /\ li = 0 /\ limit = Limit /\ out = <<>> /\ held = <<>>
    /\ refs = [p \in Gpfns |-> 0] /\ leaked = refs
    /\ top = MaxTop - 1 /\ known = top

-----------------------------------------------------------------------------
\* The region and its mappings.
Span(r) == r.first .. r.first + r.num - 1
Without(s, i) == SubSeq(s, 1, i - 1) \o SubSeq(s, i + 1, Len(s))
InUse == {r \in Ranges : users[r] > 0}

\* vmiope_locate_region_mapping: the first record that has the page.
Having(g) == {i \in DOMAIN records : g \in Span(records[i])}
Located(g) == CHOOSE i \in Having(g) : \A j \in Having(g) : i <= j

Create(sp) ==
    /\ space = "none"
    /\ space' = sp
    /\ UNCHANGED <<half, base, records, p2m, perm, users, wanted, mixed, aliased, astray, stuck,
                   pinVars>>

\* vmiop_relocate_guest_region, for the mappings, which stay where they are;
\* the new range may be refused.
Relocate(b, ok) ==
    /\ space # "none" /\ b # base /\ (ok \/ b # None)
    /\ base' = IF ok THEN b ELSE base
    /\ UNCHANGED <<half, space, records, p2m, perm, users, wanted, mixed, aliased, astray, stuck,
                   pinVars>>

\* demu_set_guest_pages, to add the device pages from `from' at range r.
Added(r, from, permOk, mapOk) ==
    LET frames == from .. from + r.num - 1 IN
    /\ perm' = IF permOk THEN perm \cup frames ELSE perm
    /\ p2m' = IF permOk /\ mapOk
              THEN [h \in RegionPages |-> IF h \in Span(r) THEN from + h - r.first ELSE p2m[h]]
              ELSE p2m
    /\ stuck' = IF permOk /\ ~mapOk THEN [stuck EXCEPT !.frames = @ \cup frames] ELSE stuck

\* demu_set_guest_pages, to remove: Xen clears the guest's pages whatever is
\* there, and the permission is taken from the device pages that are named.
Removed(r, from, permOk, mapOk) ==
    LET frames == from .. from + r.num - 1
        there == {p2m[h] : h \in Span(r)} \ {None} IN
    /\ p2m' = IF mapOk THEN [h \in RegionPages |-> IF h \in Span(r) THEN None ELSE p2m[h]]
              ELSE p2m
    /\ perm' = IF mapOk /\ permOk THEN perm \ frames ELSE perm
    /\ stuck' = IF ~mapOk
                THEN [pages |-> stuck.pages \cup Span(r), frames |-> stuck.frames \cup there]
                ELSE IF ~permOk THEN [stuck EXCEPT !.frames = @ \cup frames] ELSE stuck

\* Bounds: calls are followed up to the first that mixes ranges, and failures
\* up to MaxStuck.
MayGoOn == ~mixed
MayFail == Cardinality(stuck.pages) + Cardinality(stuck.frames) < MaxStuck

\* Slip: a second user of a mapping is not counted.
MapSharedUncounted(r) == UNCHANGED records

\* A second user of a mapping is counted, whatever else it asked for: the
\* range may be longer and the device pages others.
MapShared(r) ==
    records' = [records EXCEPT ![Located(r.first)].count = @ + 1]

MapNew(r, from, permOk, mapOk) ==
    /\ Added(r, from, permOk, mapOk)
    /\ records' = IF permOk /\ mapOk
                  THEN <<[first |-> r.first, num |-> r.num, count |-> 1]>> \o records
                  ELSE records

\* vmiop_map_guest_region with access; the range must be in the region.
Map(r, from, permOk, mapOk) ==
    /\ space = "mmio" /\ base # None
    /\ r.first >= base /\ r.first + r.num <= base + Length /\ from + r.num <= DevicePages
    /\ MayGoOn /\ ((permOk /\ mapOk) \/ MayFail)
    /\ users[r] < MaxUsers /\ Cardinality(InUse \cup {r}) <= MaxRanges
    /\ IF Having(r.first) # {}
       THEN permOk /\ mapOk /\ MapShared(r) /\ UNCHANGED <<p2m, perm, stuck, aliased>>
       ELSE /\ MapNew(r, from, permOk, mapOk)
            /\ aliased' = (aliased \/ \E h \in RegionPages \ Span(r) :
                                          p2m[h] \in from .. from + r.num - 1)
    /\ users' = IF permOk /\ mapOk THEN [users EXCEPT ![r] = @ + 1] ELSE users
    /\ wanted' = IF permOk /\ mapOk THEN [wanted EXCEPT ![r] = @ \cup {from}] ELSE wanted
    /\ mixed' = (mixed \/ \E o \in InUse : o # r /\ Span(o) \cap Span(r) # {})
    /\ UNCHANGED <<half, space, base, astray, pinVars>>

\* vmiop_map_guest_region without access, for a range in use, with any device
\* page.  The region must be somewhere, but the range may be where it was
\* before.  When a hypercall fails the record is gone.
Unmap(r, from, permOk, mapOk) ==
    /\ r \in InUse /\ from + r.num <= DevicePages
    /\ MayGoOn /\ ((permOk /\ mapOk) \/ MayFail)
    /\ base # None /\ Having(r.first) # {}
    /\ LET i == Located(r.first) IN
       IF records[i].count > 1
       THEN /\ permOk /\ mapOk
            /\ records' = [records EXCEPT ![i].count = @ - 1]
            /\ UNCHANGED <<p2m, perm, stuck, astray>>
       ELSE /\ records' = Without(records, i) /\ Removed(r, from, permOk, mapOk)
            /\ astray' = (astray \/ \E h \in Span(r) : p2m[h] # from + h - r.first)
    /\ users' = [users EXCEPT ![r] = @ - 1]
    /\ wanted' = IF users[r] = 1 THEN [wanted EXCEPT ![r] = {}] ELSE wanted
    /\ UNCHANGED <<half, space, base, mixed, aliased, pinVars>>

RegionNext ==
    /\ half = "regions"
    /\ \/ \E sp \in {"io", "mmio"} : Create(sp)
       \/ \E b \in Bases \cup {None}, ok \in BOOLEAN : Relocate(b, ok)
       \/ \E r \in Ranges, f \in Frames, p, m \in BOOLEAN : Map(r, f, p, m)
       \/ \E r \in Ranges, f \in Frames, p, m \in BOOLEAN : Unmap(r, f, p, m)

-----------------------------------------------------------------------------
\* Pinned pages.
Lesser(a, b) == IF a < b THEN a ELSE b
Batch == SubSeq(list, li + 1, Lesser(li + limit, Len(list)))
Count(s, p) == Cardinality({i \in DOMAIN s : s[i] = p})

\* demu_translate_guest_pages: a page the guest has is pinned.
Bfn(p) == IF p \in Absent \/ p > top THEN None ELSE p

Plus(f, s) == [p \in Gpfns |-> f[p] + Count(s, p)]

\* The guest's memory grows.
Grow ==
    /\ top < MaxTop
    /\ top' = top + 1
    /\ UNCHANGED <<half, regionVars, pc, list, li, limit, out, held, refs, known, leaked>>

Pin(l) ==
    /\ pc = "idle" /\ held = <<>> /\ \A p \in Gpfns : leaked[p] <= MaxLeaked
    /\ pc' = "pin" /\ list' = l /\ li' = 0 /\ limit' = Limit /\ out' = <<>>
    /\ UNCHANGED <<half, regionVars, held, refs, known, top, leaked>>

\* The call fails: the plugin cannot know which of its pages are pinned.
Fails(unpinned) ==
    /\ pc' = "idle" /\ out' = <<>> /\ list' = <<>> /\ li' = 0 /\ limit' = Limit
    /\ leaked' = Plus(leaked, out \o unpinned)

\* Slip: the pages of the batch that failed are passed over.
BatchSkips ==
    /\ limit > 1
    /\ limit' = 1 /\ li' = Lesser(li + limit, Len(list))
    /\ UNCHANGED <<pc, list, out, refs, leaked, known>>

\* When a batch fails the pages are tried again, one at a time.
BatchRetries ==
    /\ limit > 1
    /\ limit' = 1
    /\ UNCHANGED <<pc, list, li, out, refs, leaked, known>>

BatchFails ==
    /\ pc = "pin" /\ li < Len(list)
    /\ \/ BatchRetries
       \/ limit = 1 /\ Fails(<<>>) /\ UNCHANGED <<refs, known>>
    /\ UNCHANGED <<half, regionVars, held, top>>

\* A batch is translated and its pages are compared with the highest page,
\* which is asked for again for a page that is not below it, and may not be
\* had.
PinBatch(asked) ==
    LET bfns == [i \in DOMAIN Batch |-> Bfn(Batch[i])]
        above == {i \in DOMAIN Batch : Batch[i] > known - 1}
        limitNow == IF above # {} /\ asked /\ top > known THEN top ELSE known
    IN /\ pc = "pin" /\ li < Len(list) /\ (asked \/ above # {})
       /\ refs' = Plus(refs, bfns)
       /\ known' = limitNow
       /\ IF (above # {} /\ ~asked) \/ \E i \in above : Batch[i] > limitNow - 1
          THEN Fails(bfns)
          ELSE /\ out' = out \o bfns /\ li' = li + Len(Batch)
               /\ UNCHANGED <<pc, list, limit, leaked>>
       /\ UNCHANGED <<half, regionVars, held, top>>

PinEnd ==
    /\ pc = "pin" /\ li = Len(list)
    /\ pc' = "idle" /\ held' = out /\ out' = <<>> /\ li' = 0 /\ limit' = Limit
    /\ UNCHANGED <<half, regionVars, list, refs, known, top, leaked>>

\* vmiop_unpin_guest_pages: the pages that were had go in batches, whose
\* release may fail; the list is emptied all the same.
Unpin ==
    /\ pc = "idle" /\ held # <<>>
    /\ pc' = "unpin" /\ out' = held /\ held' = <<>> /\ list' = <<>>
    /\ UNCHANGED <<half, regionVars, li, limit, refs, known, top, leaked>>

\* The list up to the page that fills a batch, or the rest of it.
Had(n) == Cardinality({i \in 1 .. n : out[i] # None})
Filled(n) == Had(n) <= Limit /\ (n = Len(out) \/ (Had(n) = Limit /\ out[n] # None))

UnpinBatch(n, ok) ==
    LET gone == SubSeq(out, 1, n)
    IN /\ pc = "unpin" /\ n \in DOMAIN out /\ Filled(n)
       /\ out' = SubSeq(out, n + 1, Len(out))
       /\ IF ok THEN refs' = [p \in Gpfns |-> refs[p] - Count(gone, p)] /\ UNCHANGED leaked
          ELSE leaked' = Plus(leaked, gone) /\ UNCHANGED refs
       /\ UNCHANGED <<half, regionVars, pc, list, li, limit, held, known, top>>

UnpinEnd ==
    /\ pc = "unpin" /\ out = <<>>
    /\ pc' = "idle"
    /\ UNCHANGED <<half, regionVars, list, li, limit, out, held, refs, known, top, leaked>>

PinNext ==
    /\ half = "pins"
    /\ \/ Grow \/ BatchFails \/ PinEnd \/ Unpin \/ UnpinEnd
       \/ \E l \in Requests : Pin(l)
       \/ \E asked \in BOOLEAN : PinBatch(asked)
       \/ \E n \in DOMAIN out, ok \in BOOLEAN : UnpinBatch(n, ok)

MapsNext == RegionNext \/ PinNext

MapsSpec == MapsInit /\ [][MapsNext]_mapsVars

-----------------------------------------------------------------------------
Granted == UNION {Span(r) : r \in InUse}

\* While the ranges in use are the same or apart, all pages of each are in the
\* guest, in a row of device pages that one of its users asked for, also after
\* the region has moved or some users are gone.  And the guest has the
\* permission for every page it has, unless a device page was put at a second
\* place or a mapping was undone with another device page than it had
\* (vmiop_map_guest_region, demu_set_guest_pages).
GrantsAreMapped ==
    ~mixed =>
        /\ \A r \in InUse : \E f \in wanted[r] : \A h \in Span(r) : p2m[h] = f + h - r.first
        /\ aliased \/ astray \/ \A h \in RegionPages : p2m[h] # None => p2m[h] \in perm

\* What was given back is gone: each record counts the users of one range, a
\* page of the guest that no user has was left by a hypercall that failed, so
\* was a permission for a device page unless a mapping was undone with another
\* device page than it had, and each pin of a page is in the plugin's list,
\* unless a call failed (vmiop_map_guest_region, vmiop_pin_guest_pages,
\* vmiop_unpin_guest_pages).
NothingKept ==
    /\ ~mixed =>
        /\ \A i \in DOMAIN records :
               \E r \in InUse : Span(r) = Span(records[i]) /\ records[i].count = users[r]
        /\ \A h \in RegionPages : p2m[h] # None => h \in Granted \cup stuck.pages
        /\ astray \/ perm \subseteq stuck.frames \cup {p2m[h] : h \in Granted}
    /\ \A p \in Gpfns : refs[p] = Count(held, p) + Count(out, p) + leaked[p]
    /\ held # <<>> => held = [i \in DOMAIN list |-> Bfn(list[i])]

\* vmiop-env.c:2647: "Any prior mapping of the guest pseudo-physical address
\* range is completely replaced."  A range that was mapped with success has
\* the device pages of that call (vmiop_map_guest_region only counts it when
\* it is mapped already).
MapReplaces ==
    [][\A r \in Ranges, f \in Frames :
          Map(r, f, TRUE, TRUE) => \A h \in Span(r) : p2m'[h] = f + h - r.first]_mapsVars

\* vmiop-env.c:2643: "the mapping is removed, and the physical_address is
\* effectively ignored."  Whatever device page is named, removing takes the
\* permission for those that were mapped there, and no other.
UnmapIgnoresAddress ==
    [][\A r \in Ranges, f \in Frames :
          Unmap(r, f, TRUE, TRUE) =>
              perm \ perm' \subseteq {p2m[h] : h \in Span(r)}]_mapsVars

\* vmiop-env.c:2539: "The region and all its mappings are hidden from the guest
\* address space if the range_base is VMIOP_EMUL_ADDR_NONE."  A region that is
\* nowhere has no page in the guest, but for pages whose removal failed
\* (vmiop_relocate_guest_region leaves the mappings).
HiddenHasNoMapping ==
    base = None => \A h \in RegionPages : p2m[h] # None => h \in stuck.pages

=============================================================================
