------------------------------ MODULE Regions ------------------------------
(***************************************************************************)
(* Where the guest's accesses go: the lists of spaces of demu.c, the       *)
(* addresses Xen routes to this ioreq server, and the regions of           *)
(* vmiop-env.c, which plugins move about while the guest runs.             *)
(*                                                                         *)
(* A relocation runs inside the monitor, so calls exclude each other and   *)
(* the main loop, but not enable_io, which walks the lists outside the     *)
(* monitor, nor a request whose handler has left the monitor for the       *)
(* plugin's callback.  A call is split where those two can see it.         *)
(***************************************************************************)
EXTENDS Integers, SequencesExt

CONSTANTS
    Regions,    \* the regions of vmiop_create_guest_region
    Kind,       \* the list each region's spaces go to
    Length,     \* range_length of each region
    Bases,      \* where the plugin asks for each region to be
    NoBase,     \* VMIOP_EMUL_ADDR_NONE
    PortTop,    \* the number of ports
    Builtin,    \* the spaces of the VGA and of the emulated PCI device
    Top         \* the greatest base

Addrs == 0 .. Top
Kinds == {"pci", "mmio", "io"}
\* The order enable_io takes the lists in.
Lists == <<"pci", "mmio", "io">>
Owners == Regions \cup {"vga", "device"}
Space == [start : Addrs, end : Nat, owner : Owners, init : BOOLEAN]

ASSUME RegionsAssumption ==
    /\ Regions \cap {"vga", "device"} = {}
    /\ NoBase \notin Nat /\ NoBase \notin Owners /\ PortTop \in Nat /\ Top \in Nat
    /\ Kind \in [Regions -> {"mmio", "io"}]
    /\ Length \in [Regions -> Nat \ {0}]
    /\ Bases \in [Regions -> SUBSET Addrs]
    /\ DOMAIN Builtin = Kinds /\ \A k \in Kinds : Builtin[k] \in Seq(Space)

\* They are registered as the regions' are, before any of them.
ASSUME BuiltinAssumption ==
    \A k \in Kinds :
        /\ \A i \in DOMAIN Builtin[k] :
               LET s == Builtin[k][i]
               IN s.start <= s.end /\ s.owner \notin Regions /\ ~s.init
        /\ \A i, j \in DOMAIN Builtin[k] : Builtin[k][i].start = Builtin[k][j].start => i = j

VARIABLES
    spaces,     \* demu_state.pci_config, .memory and .port; newest first
    server,     \* the addresses Xen routes here, per kind
    ioUp,       \* demu_state.io_up
    base,       \* range_base of each region
    call,       \* the relocation in progress
    mpc,        \* where the main thread is
    walk,       \* the space enable_io is at
    req,        \* the request of the guest's vcpu
    cur,        \* the space demu_handle_io was given
    dangling,   \* which of these two has been freed
    \* History.
    amiss       \* what has gone wrong so far

\* slipped  - a relocation failed after it had given the old range up;
\* crossed  - a space was given up with the io_init of one around it;
\* collided - a refused registration took back a space enable_io had mapped;
\* strayed  - enable_io used a space that had been freed.
Mishaps == {"slipped", "crossed", "collided", "strayed"}
Note(m, b) == amiss' = IF b THEN amiss \cup {m} ELSE amiss

callVars == <<spaces, server, base, call, dangling>>
mainVars == <<ioUp, mpc, walk, req, cur>>
vars == <<callVars, mainVars, amiss>>

NoCall == [region |-> NoBase, to |-> NoBase, end |-> 0, at |-> "idle"]
NoWalk == [kind |-> "io", start |-> NoBase, at |-> "over"]
NoReq == [kind |-> "io", addr |-> 0, left |-> 0, first |-> FALSE, owner |-> NoBase,
          moved |-> FALSE]
NoSpace == [kind |-> "io", start |-> NoBase, owner |-> NoBase]

TypeOK ==
    /\ DOMAIN spaces = Kinds /\ \A k \in Kinds : spaces[k] \in Seq(Space)
    /\ DOMAIN server = Kinds /\ \A k \in Kinds : server[k] \subseteq Nat
    /\ ioUp \in BOOLEAN
    /\ base \in [Regions -> Addrs \cup {NoBase}]
    /\ call \in [region : Regions \cup {NoBase}, to : Addrs \cup {NoBase}, end : Nat,
                 at : {"idle", "disable", "unmap", "insert", "test", "map", "flag", "undo"}]
    /\ mpc \in {"config", "enable", "select", "item", "callback", "failed", "aborted"}
    /\ walk \in [kind : Kinds, start : Addrs \cup {NoBase}, at : {"look", "flag", "over"}]
    /\ req \in [kind : Kinds, addr : Nat, left : 0 .. 2, first : BOOLEAN,
                owner : Owners \cup {NoBase}, moved : BOOLEAN]
    /\ cur \in [kind : Kinds, start : Addrs \cup {NoBase}, owner : Owners \cup {NoBase}]
    /\ dangling \subseteq {"walk", "cur"}
    /\ amiss \subseteq Mishaps

Init ==
    /\ spaces = Builtin /\ server = [k \in Kinds |-> {}] /\ ioUp = FALSE
    /\ base = [r \in Regions |-> NoBase] /\ call = NoCall
    /\ mpc = "config" /\ walk = NoWalk /\ req = NoReq /\ cur = NoSpace
    /\ dangling = {} /\ amiss = {}

-----------------------------------------------------------------------------
Covers(s, a) == s.start <= a /\ a <= s.end
Extent(s) == s.start .. s.end

\* The place in list k of the first space that holds a, or 0.
Find(k, a) == SelectInSeq(spaces[k], LAMBDA s : Covers(s, a))

\* The place of the first space that begins at a, or 0.
Exact(k, a) == SelectInSeq(spaces[k], LAMBDA s : s.start = a)

\* A thread may enter the monitor; in "config" and "callback" the main thread
\* itself may make the call.
MonitorFree == mpc \in {"config", "enable", "select", "callback"}

Go(at) == call' = [call EXCEPT !.at = at] /\ UNCHANGED base

\* The call returns; only a success moves the region's base.
Return(ok) ==
    /\ call' = NoCall
    /\ base' = IF ok THEN [base EXCEPT ![call.region] = call.to] ELSE base

\* The space at place i of list k is unlinked and freed.
Unlink(k, i) ==
    LET s == spaces[k][i]
        Held(p) == p.kind = k /\ p.start = s.start
    IN /\ spaces' = [spaces EXCEPT ![k] = RemoveAt(@, i)]
       /\ dangling' = dangling \cup {x \in {"walk", "cur"} :
                                       Held(IF x = "walk" THEN walk ELSE cur)}
       /\ req' = IF req.left > 0 /\ req.kind = k /\ Covers(s, req.addr)
                 THEN [req EXCEPT !.moved = TRUE] ELSE req

K == Kind[call.region]

\* A request to be where the region is already changes nothing.  But that is
\* tested under region_lock, before the monitor is entered: of two threads that
\* ask for one base the second finds the region there (to = base[r]), having
\* found it elsewhere, and moves it all the same.  Nothing is found at no base,
\* so that a region disabled twice stays as it is.
Relocate(r, to) ==
    /\ call = NoCall /\ MonitorFree /\ ~(base[r] = NoBase /\ to = NoBase)
    /\ call' = [region |-> r, to |-> to, end |-> 0,
                at |-> IF base[r] # NoBase THEN "disable" ELSE "insert"]
    /\ UNCHANGED <<spaces, server, base, dangling, mainVars, amiss>>

\* Slip: a disabled region keeps its base.
DisabledKeeps == IF call.to = NoBase THEN Return(FALSE) ELSE Go("insert")

\* The old range is out of the way.
Disabled == IF call.to = NoBase THEN Return(TRUE) ELSE Go("insert")

\* There is no space at the region's base.
DisableNothing ==
    /\ call.at = "disable" /\ Find(K, base[call.region]) = 0
    /\ Disabled
    /\ UNCHANGED <<spaces, server, dangling, mainVars, amiss>>

\* The space is looked for by an address it holds and removed by the address
\* it begins at.
Disable ==
    LET i == Find(K, base[call.region])
        j == Exact(K, base[call.region])
    IN /\ call.at = "disable" /\ i # 0 /\ j # 0
       /\ Unlink(K, j)
       /\ IF spaces[K][i].init
          THEN /\ call' = [call EXCEPT !.at = "unmap", !.end = spaces[K][j].end]
               /\ UNCHANGED base
          ELSE Disabled
       /\ Note("crossed", i # j)
       /\ UNCHANGED <<server, ioUp, mpc, walk, cur>>

\* assert(false) at the end of demu_deregister_space.
DisableAsserts ==
    /\ call.at = "disable"
    /\ Find(K, base[call.region]) # 0 /\ Exact(K, base[call.region]) = 0
    /\ mpc' = "aborted"
    /\ UNCHANGED <<callVars, ioUp, walk, req, cur, amiss>>

\* Slip: only the page at the base is unmapped.
UnmapOne ==
    /\ call.at = "unmap"
    /\ server' = [server EXCEPT ![K] = @ \ {base[call.region]}]
    /\ Disabled
    /\ UNCHANGED <<spaces, dangling, mainVars, amiss>>

\* Xen takes back the range.
Unmap ==
    /\ call.at = "unmap"
    /\ server' = [server EXCEPT ![K] = @ \ (base[call.region] .. call.end)]
    /\ Disabled
    /\ UNCHANGED <<spaces, dangling, mainVars, amiss>>

\* A range outside the ports, or with an end in a registered range, is refused.
Fits ==
    LET end == call.to + Length[call.region] - 1 IN
    /\ K = "io" => end < PortTop
    /\ Find(K, call.to) = 0 /\ Find(K, end) = 0

Insert ==
    /\ call.at = "insert"
    /\ IF Fits
       THEN /\ spaces' = [spaces EXCEPT ![K] =
                <<[start |-> call.to, end |-> call.to + Length[call.region] - 1,
                   owner |-> call.region, init |-> FALSE]>> \o @]
            /\ Go("test") /\ UNCHANGED amiss
       ELSE /\ Return(FALSE) /\ Note("slipped", base[call.region] # NoBase)
            /\ UNCHANGED spaces
    /\ UNCHANGED <<server, dangling, mainVars>>

\* Before enable_io there is no server to map the range to.
Test ==
    /\ call.at = "test"
    /\ IF ioUp THEN Go("map") ELSE Return(TRUE)
    /\ UNCHANGED <<spaces, server, dangling, mainVars, amiss>>

\* Xen maps no address twice.
CanMap(k, s) == server[k] \cap Extent(s) = {}
MapRange(k, s) == server' = [server EXCEPT ![k] = @ \cup Extent(s)]

Map ==
    LET s == spaces[K][Exact(K, call.to)] IN
    /\ call.at = "map"
    /\ \/ CanMap(K, s) /\ MapRange(K, s) /\ Go("flag")
       \/ Go("undo") /\ UNCHANGED server
    /\ UNCHANGED <<spaces, dangling, mainVars, amiss>>

\* It is the head of the list that is marked.
Flag ==
    /\ call.at = "flag"
    /\ spaces' = [spaces EXCEPT ![K][1].init = TRUE]
    /\ Return(TRUE)
    /\ UNCHANGED <<server, dangling, mainVars, amiss>>

\* For the history: enable_io has mapped the space.
EnableMapped(k, s) ==
    s.init \/ (walk.at = "flag" /\ walk.kind = k /\ walk.start = s.start)

\* Slip: the space Xen refused stays in the list.
UndoNot ==
    /\ call.at = "undo"
    /\ Return(FALSE) /\ Note("slipped", base[call.region] # NoBase)
    /\ UNCHANGED <<spaces, dangling, server, mainVars>>

Undo ==
    /\ call.at = "undo"
    /\ Unlink(K, Exact(K, call.to))
    /\ Return(FALSE)
    /\ amiss' = amiss
          \cup (IF base[call.region] # NoBase THEN {"slipped"} ELSE {})
          \cup (IF EnableMapped(K, spaces[K][Exact(K, call.to)]) THEN {"collided"} ELSE {})
    /\ UNCHANGED <<server, ioUp, mpc, walk, cur>>

CallStep == DisableNothing \/ Disable \/ DisableAsserts \/ Unmap \/ Insert \/ Test \/ Map
            \/ Flag \/ Undo

-----------------------------------------------------------------------------
\* enable_io, outside the monitor.

\* The first space of the lists from the i-th on.
FirstFrom(i) ==
    LET js == {j \in i .. Len(Lists) : spaces[Lists[j]] # <<>>}
        k == Lists[Min(js)]
    IN IF js = {} THEN NoWalk ELSE [kind |-> k, start |-> spaces[k][1].start, at |-> "look"]

\* The number of the list after list k.
ListAfter(k) == 1 + SelectInSeq(Lists, LAMBDA l : l = k)

\* The space after the one the walk is at.
After ==
    LET i == Exact(walk.kind, walk.start) IN
    IF i < Len(spaces[walk.kind])
    THEN [walk EXCEPT !.start = spaces[walk.kind][i + 1].start, !.at = "look"]
    ELSE FirstFrom(ListAfter(walk.kind))

WalkTo(w) ==
    /\ walk' = w
    /\ mpc' = IF w.at = "over" THEN "select" ELSE "enable"
    /\ dangling' = dangling \ {"walk"}

\* Slip: io_up is not set before the walk.
EnableStartLate ==
    /\ mpc = "config" /\ call = NoCall
    /\ WalkTo(FirstFrom(1))
    /\ UNCHANGED <<spaces, server, base, call, ioUp, req, cur, amiss>>

EnableStart ==
    /\ mpc = "config" /\ call = NoCall
    /\ ioUp' = TRUE
    /\ WalkTo(FirstFrom(1))
    /\ UNCHANGED <<spaces, server, base, call, req, cur, amiss>>

EnableLook ==
    LET s == spaces[walk.kind][Exact(walk.kind, walk.start)] IN
    /\ mpc = "enable" /\ walk.at = "look" /\ "walk" \notin dangling
    /\ \/ /\ s.init /\ WalkTo(After) /\ UNCHANGED server
       \/ /\ ~s.init /\ CanMap(walk.kind, s) /\ MapRange(walk.kind, s)
          /\ walk' = [walk EXCEPT !.at = "flag"]
          /\ UNCHANGED <<mpc, dangling>>
       \/ /\ ~s.init /\ mpc' = "failed"
          /\ UNCHANGED <<server, walk, dangling>>
    /\ UNCHANGED <<spaces, base, call, ioUp, req, cur, amiss>>

EnableFlag ==
    /\ mpc = "enable" /\ walk.at = "flag" /\ "walk" \notin dangling
    /\ spaces' = [spaces EXCEPT ![walk.kind][Exact(walk.kind, walk.start)].init = TRUE]
    /\ WalkTo(After)
    /\ UNCHANGED <<server, base, call, ioUp, req, cur, amiss>>

\* The space was freed by a relocation: the walk stops, or goes on with
\* whatever its next field holds.
EnableFreed ==
    /\ mpc = "enable" /\ "walk" \in dangling
    /\ Note("strayed", TRUE)
    /\ \/ mpc' = "failed" /\ UNCHANGED <<walk, dangling>>
       \/ \E i \in DOMAIN spaces[walk.kind] :
            WalkTo([walk EXCEPT !.start = spaces[walk.kind][i].start, !.at = "look"])
       \/ WalkTo(FirstFrom(ListAfter(walk.kind)))
    /\ UNCHANGED <<spaces, server, base, call, ioUp, req, cur>>

-----------------------------------------------------------------------------
\* A request of the guest, from the access to the answer.

Routed(k, a) == a \in server[k]

\* Xen sends the access here; n is the repeat count.  The owner is that of the
\* range Xen routes.
Access(k, a, n) ==
    LET is == {i \in DOMAIN spaces[k] : spaces[k][i].init /\ Covers(spaces[k][i], a)} IN
    /\ mpc \in {"select", "item", "callback"} /\ req = NoReq /\ Routed(k, a)
    /\ req' = [kind |-> k, addr |-> a, left |-> n, first |-> TRUE,
               owner |-> IF is = {} THEN NoBase ELSE spaces[k][Min(is)].owner,
               moved |-> is = {}]
    /\ UNCHANGED <<callVars, ioUp, mpc, walk, cur, amiss>>

\* demu_handle_io: with no space the access is answered as it came.
Dispatch ==
    LET i == Find(req.kind, req.addr)
        s == spaces[req.kind][i]
    IN /\ mpc = "select" /\ call = NoCall /\ req # NoReq
       /\ dangling' = dangling \ {"cur"}
       /\ IF i = 0
          THEN req' = NoReq /\ UNCHANGED <<mpc, cur>>
          ELSE /\ mpc' = "item"
               /\ cur' = [kind |-> req.kind, start |-> s.start, owner |-> s.owner]
               /\ UNCHANGED req
       /\ UNCHANGED <<spaces, server, base, call, ioUp, walk, amiss>>

\* One item is done, and with the last of them the request.
ItemDone ==
    /\ req' = IF req.left = 1 THEN NoReq
              ELSE [req EXCEPT !.left = @ - 1, !.first = FALSE]
    /\ mpc' = IF req.left = 1 THEN "select" ELSE "item"
    /\ cur' = IF req.left = 1 THEN NoSpace ELSE cur

\* The VGA's handlers stay in the monitor; the others leave it for the plugin,
\* so for a later item cur may be dangling.
Item ==
    /\ mpc = "item"
    /\ IF cur.owner = "vga" THEN ItemDone
       ELSE mpc' = "callback" /\ UNCHANGED <<req, cur>>
    /\ UNCHANGED <<callVars, ioUp, walk, amiss>>

CallbackReturns ==
    /\ mpc = "callback" /\ call = NoCall
    /\ ItemDone
    /\ UNCHANGED <<callVars, ioUp, walk, amiss>>

Next ==
    \/ \E r \in Regions : \E to \in Bases[r] \cup {NoBase} : Relocate(r, to)
    \/ mpc \notin {"failed", "aborted"} /\ CallStep
    \/ EnableStart \/ EnableLook \/ EnableFlag \/ EnableFreed
    \/ \E k \in Kinds : \E a \in server[k], n \in 1 .. 2 : Access(k, a, n)
    \/ Dispatch \/ Item \/ CallbackReturns

Spec == Init /\ [][Next]_vars

-----------------------------------------------------------------------------
Running == mpc \in {"select", "item", "callback"}
Quiet == Running /\ call = NoCall

\* enable_io was not led astray: the lists and Xen's ranges still match.
Orderly == amiss \cap {"crossed", "strayed"} = {}

\* Once enable_io has returned and no call is in progress, every registered
\* space is mapped and marked: none registered while it ran was passed over
\* by both (demu.c:1239-1262, 1381, 2364), unless it followed a freed one.
EverySpaceIsMapped ==
    Quiet /\ Orderly =>
        \A k \in Kinds : \A i \in DOMAIN spaces[k] :
            spaces[k][i].init /\ Extent(spaces[k][i]) \subseteq server[k]

\* Every address Xen routes here has a marked space, so that it can be given
\* up: unless a refused registration took back a space that enable_io had mapped, or
\* a relocation freed the one enable_io was at.
EveryRouteHasSpace ==
    Quiet /\ Orderly /\ "collided" \notin amiss =>
        \A k \in Kinds : \A a \in server[k] :
            \E i \in DOMAIN spaces[k] : spaces[k][i].init /\ Covers(spaces[k][i], a)

\* A request waiting to be handled will be given to the owner of its address
\* when the guest made the access, unless that range was given up since: it is
\* not dropped, and no later space, around the right one and refused by Xen,
\* hides it (demu.c:1215, 1243, 1396).
RequestReachesOwner ==
    mpc = "select" /\ call = NoCall /\ Orderly /\ req # NoReq /\ ~req.moved =>
        LET i == Find(req.kind, req.addr) IN
        i # 0 /\ spaces[req.kind][i].owner = req.owner

\* While no relocation has failed half way, a region has a space of its own at
\* its base, a disabled one has none (vmiop-env.c:2423, 2625), and the assertion
\* of demu_deregister_space cannot fail.
RegionHasItsSpace ==
    "slipped" \notin amiss =>
        /\ mpc # "aborted"
        /\ \A r \in Regions : r # call.region =>
            LET own == {i \in DOMAIN spaces[Kind[r]] : spaces[Kind[r]][i].owner = r} IN
            IF base[r] = NoBase THEN own = {}
            ELSE \E i \in own : own = {i} /\ spaces[Kind[r]][i].start = base[r]

\* assert(false) at demu.c:1290: whoever gives up a range finds its space.
DeregisterFindsSpace == mpc # "aborted"
=============================================================================
