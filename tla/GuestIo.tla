------------------------------ MODULE GuestIo ------------------------------
(***************************************************************************)
(* What demu does with one request of the guest: demu_handle_ioreq,        *)
(* demu_handle_io and the accesses of the space's functions it is split    *)
(* into, with the map cache for data that is in guest memory.              *)
(*                                                                         *)
(* The space is the one the lists gave (module Regions), or none.  Of the  *)
(* data only its way is kept: which byte of the device met which byte of   *)
(* memory, or of the request's data field.                                 *)
(***************************************************************************)
EXTENDS Mapcache, SequencesExt

CONSTANTS
    Reqs,       \* the requests the guest makes
    PageSize,   \* TARGET_PAGE_SIZE
    SizeMod     \* 2^32: ioreq->size is an unsigned 32-bit integer

VARIABLES
    req,        \* the ioreq_t being handled, or NoReq
    item,       \* i in demu_handle_io
    addr,       \* ioreq->addr, which the items of a copy advance
    moved,      \* the accesses made for the request: sequence of Access
    dirty,      \* pages marked dirty for it
    dead        \* demu was killed, calling a function that the space lacks

ioVars == <<req, item, addr, moved, dirty, dead>>
vars == <<cacheVars, ioVars>>

NoReq == [type |-> "none"]
Sizes == {1, 2, 4, 8}
Request ==
    [type : {"pio", "copy", "pci"}, dir : {"read", "write"}, ptr : BOOLEAN, df : BOOLEAN,
     count : Nat, size : Nat, addr : Nat, data : Nat,
     ops : SUBSET {1, 2, 4}]     \* the widths of the space's functions; {}: there is no space

ASSUME GuestIoAssumption ==
    /\ PageSize \in Nat \ {0} /\ SizeMod \in Nat \ {0}
    /\ Reqs \subseteq Request

\* One call of a space's function: the device's address, the width, and where
\* the first byte comes from or goes to: memory, the data field, or nowhere.
Access == [dev : Nat, width : Sizes, side : {"memory", "field", "lost"}, at : Nat]

TypeOK ==
    /\ CacheTypeOK
    /\ req \in Reqs \cup {NoReq} /\ item \in Nat /\ addr \in Nat
    /\ moved \in Seq(Access) /\ dirty \subseteq Pages /\ dead \in BOOLEAN

Init ==
    /\ CacheInit
    /\ req = NoReq /\ item = 0 /\ addr = 0 /\ moved = <<>> /\ dirty = {} /\ dead = FALSE

-----------------------------------------------------------------------------
\* Slip: a space without the 4-byte function is taken to have the 2-byte one.
WidestGuess(r) ==
    IF r.size = 1 THEN 1 ELSE IF r.size >= 4 /\ 4 \in r.ops THEN 4 ELSE 2

\* demu_io_read, demu_io_write: the widest function the space has, called as
\* often as the size asks for; any other size makes no access.
Widest(r) ==
    IF r.size = 1 THEN 1
    ELSE IF r.size >= 4 /\ 4 \in r.ops THEN 4
    ELSE IF 2 \in r.ops THEN 2
    ELSE 1

\* Nothing is asked of the space about its one-byte function, which that of
\* the VBE's ports does not have (device_vbe_port_ops).
Callable(r) == r.size \in Sizes => Widest(r) \in r.ops

\* The accesses of an item at device address a whose other side is at x.
Accesses(r, a, side, x) ==
    IF r.size \notin Sizes THEN <<>>
    ELSE [j \in 1 .. r.size \div Widest(r) |->
            LET shift == (j - 1) * Widest(r)
            IN [dev |-> a + shift, width |-> Widest(r), side |-> side,
                at |-> IF side = "lost" THEN 0 ELSE x + shift]]

\* sign * i * ioreq->size is computed in 32 bits, without a sign.
Offset(r, i) == IF r.df THEN (SizeMod - i * r.size) % SizeMod ELSE (i * r.size) % SizeMod

\* What Xen promises of a string instruction, for which alone the data is in
\* memory: its items have a size the guest can name, and none spans two pages
\* (__copy_to_guest_memory asserts it).
ASSUME ItemAssumption ==
    \A r \in Reqs : r.ptr =>
        /\ r.size \in Sizes
        /\ \A i \in 0 .. r.count - 1 :
            ((r.data + Offset(r, i)) % PageSize) + r.size <= PageSize

\* The address moves on for a memory access only.
Step(r) == IF r.type = "copy" THEN Offset(r, 1) ELSE 0

-----------------------------------------------------------------------------
Start(r) ==
    /\ req = NoReq
    /\ req' = r /\ item' = 0 /\ addr' = r.addr /\ moved' = <<>> /\ dirty' = {}
    /\ UNCHANGED <<cacheVars, dead>>

\* TIMEOFFSET and unknown types change nothing; INVALIDATE empties the cache.
StartInvalidate ==
    /\ req = NoReq /\ stale # {}
    /\ Invalidate
    /\ UNCHANGED ioVars

More == req # NoReq /\ req.ops # {} /\ item < req.count
Advance == Callable(req) /\ item' = item + 1 /\ addr' = addr + Step(req) /\ UNCHANGED <<req, dead>>

\* The data is in the request: a read overwrites it for each item.
ItemField ==
    /\ More /\ ~req.ptr
    /\ Advance
    /\ moved' = moved \o Accesses(req, addr, "field", 0)
    /\ UNCHANGED <<cacheVars, dirty>>

\* Slip: the page that is marked is the request's first.
ItemMemoryMarksFirst(ok) ==
    LET x == req.data + Offset(req, item)
        p == x \div PageSize
        got == Answer(p, ok) # NoPtr
    IN /\ More /\ req.ptr
       /\ Lookup(p, ok)
       /\ Advance
       /\ moved' = moved \o Accesses(req, addr, IF got THEN "memory" ELSE "lost", x)
       /\ dirty' = IF req.dir = "read" /\ got THEN dirty \cup {req.data \div PageSize} ELSE dirty

\* The data is in guest memory; if its page cannot be mapped a write stores
\* ones, a read is made and its value lost.
ItemMemory(ok) ==
    LET x == req.data + Offset(req, item)
        p == x \div PageSize
        got == Answer(p, ok) # NoPtr
    IN /\ More /\ req.ptr
       /\ Lookup(p, ok)
       /\ Advance
       /\ moved' = moved \o Accesses(req, addr, IF got THEN "memory" ELSE "lost", x)
       /\ dirty' = IF req.dir = "read" /\ got THEN dirty \cup {p} ELSE dirty

\* The first call of an item is through a null pointer.
Killed ==
    /\ More /\ ~Callable(req) /\ dead' = TRUE
    /\ UNCHANGED <<cacheVars, req, item, addr, moved, dirty>>

Finish ==
    /\ req # NoReq /\ ~More
    /\ req' = NoReq /\ item' = 0 /\ addr' = 0 /\ moved' = <<>> /\ dirty' = {}
    /\ UNCHANGED <<cacheVars, dead>>

\* Another vcpu may balloon while a request is handled.
GuestReplaces == \E p \in GuestPages : Replace(p) /\ UNCHANGED ioVars

Next ==
    /\ ~dead
    /\ \/ \E r \in Reqs : Start(r)
       \/ StartInvalidate
       \/ ItemField
       \/ \E ok \in BOOLEAN : ItemMemory(ok)
       \/ Killed
       \/ Finish
       \/ GuestReplaces

Spec == Init /\ [][Next]_vars

-----------------------------------------------------------------------------
Handled == req # NoReq /\ ~More

\* Byte x of those that were moved, one after the other, by accesses of w bytes.
Byte(x, w) ==
    LET a == moved[x \div w + 1]
    IN [dev |-> a.dev + (x % w), side |-> a.side,
        at |-> IF a.side = "lost" THEN 0 ELSE a.at + (x % w)]

\* Where byte k of item n belongs, whatever functions the space has.
Sign(r) == IF r.df THEN -1 ELSE 1
DevOf(r, n, k) == r.addr + (IF r.type = "copy" THEN Sign(r) * n * r.size ELSE 0) + k
AtOf(r, n, k) == IF r.ptr THEN r.data + Sign(r) * n * r.size + k ELSE k

\* demu is killed only by a request narrower than every function of the space
\* (device.c:1208, demu.c:1511, 1573).  A request that is handled has moved
\* each byte of each item once, in order, with one function that the space has:
\* the device's byte and the other side's are those the request names - in its
\* lower 32 bits, and exactly when it goes forwards over no more bytes than 32
\* bits count (demu_handle_io, DEMU_IO_READ, DEMU_IO_WRITE).
EveryByteOnce ==
    /\ dead => \A w \in req.ops : w > req.size
    /\ Handled /\ req.ops # {} /\ req.size \in Sizes =>
        \E w \in req.ops :
            /\ Len(moved) * w = req.count * req.size
            /\ \A i \in DOMAIN moved : moved[i].width = w
            /\ \A n \in 0 .. req.count - 1, k \in 0 .. req.size - 1 :
                 LET b == Byte(n * req.size + k, w)
                     exact == ~req.df /\ req.count * req.size <= SizeMod
                 IN /\ b.dev % SizeMod = DevOf(req, n, k) % SizeMod
                    /\ b.side # "lost" => b.at % SizeMod = AtOf(req, n, k) % SizeMod
                    /\ exact => b.dev = DevOf(req, n, k)
                    /\ exact /\ b.side # "lost" => b.at = AtOf(req, n, k)

\* The pages of guest memory that a request wrote are the pages it marked
\* dirty, so that a migration sends them again (__copy_to_guest_memory).
WrittenIsMarked ==
    Handled =>
        dirty = IF req.dir = "read"
                THEN {a.at \div PageSize : a \in {b \in Range(moved) : b.side = "memory"}}
                ELSE {}

=============================================================================
