------------------------------ MODULE Objects ------------------------------
(***************************************************************************)
(* What the environment hands out by number, from vmiop-env.c: windows on  *)
(* the guest's memory, locks and events, and the emulated PCI device; and  *)
(* what it reads from messages (Messages).                                 *)
(*                                                                         *)
(* Windows, locks and events live in tables of slots that are used again,  *)
(* and a slot's place is its handle.  Devices live in lists, and their     *)
(* handles are never used again.  The four share no state, so a behaviour  *)
(* has calls of one of them only (part).  A plugin shares what it is given *)
(* among its threads.                                                      *)
(***************************************************************************)
EXTENDS Messages

CONSTANTS
    Clients,    \* threads of plugins
    Block,      \* VMIOPE_OBJECT_TABLE_BLOCK
    MaxSlots,   \* bound: slots a table grows to
    MaxWindows, \* bound: windows mapped in a behaviour
    MaxRegs     \* bound: registrations of the device in a behaviour

ASSUME ObjectsAssumption ==
    /\ {Block, MaxSlots} \subseteq Nat \ {0} /\ {MaxWindows, MaxRegs} \subseteq Nat

VARIABLES
    part,
    \* A table of windows, or of locks and events.
    table,      \* its slots
    pc, at,     \* where each client is, and the slot it is about
    mutex,      \* the lock a sleeper gave up
    held,       \* what the plugin was given and did not give back
    windows,    \* windows mapped so far, and those mapped now
    mapped,
    lost,       \* slots in use that no one can name
    raced,      \* a mutex was freed under a thread on its way to take it
    \* The PCI device.
    emd,        \* the device objects
    devices,    \* emul_device_list
    free,       \* free_emul_device_list
    next,       \* next_handle
    space,      \* priv of demu_state.pci_config
    regs,       \* registrations so far
    access,     \* an access of the guest, in vmiope_config_read
    called      \* the callback it called, and its private object

tableVars == <<table, pc, at, mutex, held, windows, mapped, lost, raced>>
deviceVars == <<emd, devices, free, next, space, regs, access, called>>
vars == <<part, tableVars, deviceVars, messageVars>>

None == 0       \* NULL, VMIOP_HANDLE_NULL
Failed == -1    \* MAP_FAILED

ASSUME ClientsAssumption == None \notin Clients

Types == {"free", "window", "lock", "event", "spinlock"}
Slots == [type : Types, local : Failed .. MaxWindows, owner : Clients \cup {None}]
Things == [handle : 1 .. MaxSlots, type : Types, local : None .. MaxWindows]
          \cup [handle : 1 .. MaxRegs, type : {"device"}, local : 1 .. MaxRegs]

TypeOK ==
    /\ part \in {"windows", "locks", "device", "messages"}
    /\ table \in Seq(Slots) /\ Len(table) <= MaxSlots
    /\ pc \in [Clients -> {"idle", "range", "pages", "looked", "asleep", "woken"}]
    /\ at \in [Clients -> 0 .. MaxSlots] /\ mutex \in [Clients -> 0 .. MaxSlots]
    /\ held \subseteq Things /\ windows \in 0 .. MaxWindows
    /\ mapped \subseteq 1 .. windows /\ lost \subseteq 1 .. MaxSlots /\ raced \in BOOLEAN
    /\ emd \in Seq([reg : 1 .. MaxRegs, callback : 1 .. MaxRegs, handle : 1 .. MaxRegs])
    /\ devices \in Seq(DOMAIN emd) /\ free \in Seq(DOMAIN emd)
    /\ next = regs + 1 /\ space \in DOMAIN emd \cup {None} /\ regs \in 0 .. MaxRegs
    /\ access.obj \in DOMAIN emd \cup {None} /\ access.reg \in 0 .. MaxRegs
    /\ called \in (0 .. MaxRegs) \X (0 .. MaxRegs)
    /\ ec \in 1 .. Elements + 1 /\ {offset, length, uc} \subseteq 0 .. Word - 1

Blank == [type |-> "free", local |-> None, owner |-> None]

Init ==
    /\ part \in {"windows", "locks", "device", "messages"}
    /\ table = <<>> /\ held = {} /\ windows = 0 /\ mapped = {} /\ lost = {} /\ raced = FALSE
    /\ pc = [c \in Clients |-> "idle"] /\ at = [c \in Clients |-> 0] /\ mutex = at
    /\ emd = <<>> /\ devices = <<>> /\ free = <<>> /\ next = 1 /\ space = None /\ regs = 0
    /\ access = [obj |-> None, reg |-> None] /\ called = <<None, None>>
    /\ IF part = "messages" THEN MessageBegins ELSE NoMessage

-----------------------------------------------------------------------------
\* Tables.
IsFree(slot) == slot.type = "free"

FreeSlots == {h \in DOMAIN table : IsFree(table[h])}
First(S) == CHOOSE h \in S : \A i \in S : h <= i

\* vmiope_allocate_table_element: the first free slot, or the first of a new
\* block; calloc may fail.
Slot == IF FreeSlots # {} THEN First(FreeSlots) ELSE Len(table) + 1
CanAllocate == FreeSlots # {} \/ Len(table) + Block <= MaxSlots
Put(slot) ==
    LET grown == IF FreeSlots # {} THEN table ELSE table \o [i \in 1 .. Block |-> Blank]
    IN [grown EXCEPT ![Slot] = slot]

Owned(thing) == held' = held \cup {thing}
Dropped(thing) == held' = held \ {thing}

-----------------------------------------------------------------------------
\* Windows.

\* The slots of calls under way.
InWork == {at[c] : c \in {d \in Clients : pc[d] \in {"range", "pages"}}}

\* What vmiop_map_guest_memory stores in a slot under mapping_lock.
Claimed(pages) ==
    [Blank EXCEPT !.type = "window", !.local = IF pages THEN Failed ELSE None]

MapBegin(c, pages) ==
    /\ pc[c] = "idle" /\ CanAllocate /\ windows + Cardinality(InWork) < MaxWindows
    /\ table' = Put(Claimed(pages))
    /\ at' = [at EXCEPT ![c] = Slot]
    /\ pc' = [pc EXCEPT ![c] = IF pages THEN "pages" ELSE "range"]
    /\ UNCHANGED <<part, mutex, held, windows, mapped, lost, raced, deviceVars>>

\* No memory for the list of pages: the slot is forgotten.
MapNoMemory(c) ==
    /\ pc[c] = "pages"
    /\ pc' = [pc EXCEPT ![c] = "idle"] /\ lost' = lost \cup {at[c]}
    /\ UNCHANGED <<part, table, at, mutex, held, windows, mapped, raced, deviceVars>>

MapDone(c) ==
    LET w == windows + 1 IN
    /\ pc[c] \in {"pages", "range"}
    /\ pc' = [pc EXCEPT ![c] = "idle"]
    /\ windows' = w /\ mapped' = mapped \cup {w}
    /\ table' = [table EXCEPT ![at[c]].type = "window", ![at[c]].local = w]
    /\ Owned([handle |-> at[c], type |-> "window", local |-> w])
    /\ UNCHANGED <<part, at, mutex, lost, raced, deviceVars>>

\* The hypercall fails with a null address.  vmiop_map_guest_memory looks for
\* MAP_FAILED and returns success; vmiop_map_guest_memory_pages frees the slot.
MapFails(c) ==
    /\ pc[c] \in {"pages", "range"}
    /\ pc' = [pc EXCEPT ![c] = "idle"]
    /\ IF pc[c] = "range"
       THEN Owned([handle |-> at[c], type |-> "window", local |-> None]) /\ UNCHANGED table
       ELSE table' = [table EXCEPT ![at[c]].type = "free"] /\ UNCHANGED held
    /\ UNCHANGED <<part, at, mutex, windows, mapped, lost, raced, deviceVars>>

\* vmiop_unmap_guest_memory; a slot without an address is never freed.
Unmap(thing) ==
    LET h == thing.handle IN
    /\ thing.type = "window" /\ Dropped(thing)
    /\ IF IsFree(table[h]) THEN UNCHANGED <<table, mapped, lost>>
       ELSE IF table[h].local = None THEN lost' = lost \cup {h} /\ UNCHANGED <<table, mapped>>
       ELSE /\ mapped' = mapped \ {table[h].local}
            /\ table' = [table EXCEPT ![h].type = "free", ![h].local = None]
            /\ UNCHANGED lost
    /\ UNCHANGED <<part, pc, at, mutex, windows, raced, deviceVars>>

WindowNext ==
    /\ part = "windows"
    /\ \/ \E c \in Clients : MapNoMemory(c) \/ MapDone(c) \/ MapFails(c)
       \/ \E c \in Clients, b \in BOOLEAN : MapBegin(c, b)
       \/ \E thing \in held : Unmap(thing)

-----------------------------------------------------------------------------
\* Locks and events.

\* vmiop_lock_alloc, vmiop_thread_event_alloc and vmiop_cv_alloc; the object
\* may not be had, which leaves the slot free.
Alloc(type, ok) ==
    /\ CanAllocate /\ table' = Put([Blank EXCEPT !.type = IF ok THEN type ELSE "free"])
    /\ IF ok THEN Owned([handle |-> Slot, type |-> type, local |-> None]) ELSE UNCHANGED held
    /\ UNCHANGED <<part, pc, at, mutex, windows, mapped, lost, raced, deviceVars>>

\* vmiop_spinlock_alloc never stores the handle.
AllocSpin ==
    /\ CanAllocate /\ table' = Put([Blank EXCEPT !.type = "spinlock"])
    /\ lost' = lost \cup {Slot}
    /\ UNCHANGED <<part, pc, at, mutex, held, windows, mapped, raced, deviceVars>>

\* vmiop_lock finds the slot of a handle without any lock; so do
\* vmiop_thread_event_wait and _post, for the event's own mutex.
Look(c, thing) ==
    /\ pc[c] = "idle" /\ thing.type \in {"lock", "event"}
    /\ table[thing.handle].type = thing.type
    /\ pc' = [pc EXCEPT ![c] = "looked"] /\ mutex' = [mutex EXCEPT ![c] = thing.handle]
    /\ UNCHANGED <<part, table, at, held, windows, mapped, lost, raced, deviceVars>>

\* The mutex is taken at last, by a call to lock or a thread that has slept.
\* If it was freed meanwhile, the outcome is undefined.
Lock(c) ==
    /\ pc[c] \in {"looked", "woken"} /\ table[mutex[c]].owner = None
    /\ pc' = [pc EXCEPT ![c] = "idle"] /\ mutex' = [mutex EXCEPT ![c] = 0]
    /\ table' = [table EXCEPT ![mutex[c]].owner = c]
    /\ UNCHANGED <<part, at, held, windows, mapped, lost, raced, deviceVars>>

\* try_only, and what a mutex that was destroyed answers.
LockFails(c) ==
    /\ pc[c] \in {"looked", "woken"}
    /\ \/ pc[c] = "looked" /\ table[mutex[c]].type = "lock" /\ table[mutex[c]].owner # None
       \/ table[mutex[c]].type \notin {"lock", "event"}
    /\ pc' = [pc EXCEPT ![c] = "idle"] /\ mutex' = [mutex EXCEPT ![c] = 0]
    /\ UNCHANGED <<part, table, at, held, windows, mapped, lost, raced, deviceVars>>

Unlock(c, h) ==
    /\ pc[c] = "idle" /\ h \in DOMAIN table /\ table[h].owner = c
    /\ table' = [table EXCEPT ![h].owner = None]
    /\ UNCHANGED <<part, pc, at, mutex, held, windows, mapped, lost, raced, deviceVars>>

\* Slip: whether the mutex could be destroyed is not asked.
LockFreedAnyway(h) == table' = [table EXCEPT ![h].type = "free"] /\ UNCHANGED lost

\* vmiope_lock_free_nolock: a mutex that is locked is not destroyed, its slot
\* stays a lock, and the call succeeds all the same.
LockFreed(h) ==
    IF table[h].owner = None THEN table' = [table EXCEPT ![h].type = "free"] /\ UNCHANGED lost
    ELSE table' = [table EXCEPT ![h].type = "lock"] /\ lost' = lost \cup {h}

\* vmiop_lock_free; or vmiop_thread_event_free and vmiop_cv_free, which fail
\* while threads sleep.
Free(thing) ==
    /\ thing.type = "event" => \A c \in Clients : pc[c] = "asleep" => at[c] # thing.handle
    /\ Dropped(thing) /\ LockFreed(thing.handle)
    /\ raced' = (raced \/ \E c \in Clients : mutex[c] = thing.handle)
    /\ UNCHANGED <<part, pc, at, mutex, windows, mapped, deviceVars>>

\* vmiop_cv_wait, with a lock the thread has, and vmiop_thread_event_wait, with
\* the event's own mutex: the mutex is given up while the thread sleeps.
Sleep(c, lock, cv) ==
    /\ pc[c] = "idle" /\ cv.type = "event" /\ (lock.type = "lock" \/ lock = cv)
    /\ table[lock.handle].owner = c
    /\ pc' = [pc EXCEPT ![c] = "asleep"]
    /\ at' = [at EXCEPT ![c] = cv.handle] /\ mutex' = [mutex EXCEPT ![c] = lock.handle]
    /\ table' = [table EXCEPT ![lock.handle].owner = None]
    /\ UNCHANGED <<part, held, windows, mapped, lost, raced, deviceVars>>

\* vmiop_cv_signal, vmiop_cv_broadcast and vmiop_thread_event_post, or the time
\* of a sleeper is over; each has yet to take its mutex.
Wake(S) ==
    /\ S # {} /\ \E h \in DOMAIN table : \A c \in S : pc[c] = "asleep" /\ at[c] = h
    /\ pc' = [c \in Clients |-> IF c \in S THEN "woken" ELSE pc[c]]
    /\ at' = [c \in Clients |-> IF c \in S THEN 0 ELSE at[c]]
    /\ UNCHANGED <<part, table, mutex, held, windows, mapped, lost, raced, deviceVars>>

LockNext ==
    /\ part = "locks"
    /\ \/ \E ok \in BOOLEAN, type \in {"lock", "event"} : Alloc(type, ok)
       \/ AllocSpin
       \/ \E thing \in held : Free(thing)
       \/ \E c \in Clients, thing \in held : Look(c, thing)
       \/ \E c \in Clients : Lock(c) \/ LockFails(c)
       \/ \E c \in Clients, h \in 1 .. MaxSlots : Unlock(c, h)
       \/ \E c \in Clients, lock, cv \in held : Sleep(c, lock, cv)
       \/ \E S \in SUBSET Clients : Wake(S)

-----------------------------------------------------------------------------
\* The PCI device.
Reused == free # <<>>
Object == IF Reused THEN Head(free) ELSE Len(emd) + 1

\* The device is listed when its space is had.
Listed(ok) == devices' = IF ok THEN <<Object>> \o devices ELSE devices

\* vmiop_register_emul_device.  There is one configuration space; when it
\* cannot be had the call returns success and a null handle.
Register(ok) ==
    LET entry == [reg |-> regs + 1, callback |-> regs + 1, handle |-> next] IN
    /\ regs < MaxRegs /\ (space = None \/ ~ok)
    /\ regs' = regs + 1 /\ next' = next + 1
    /\ emd' = IF Reused THEN [emd EXCEPT ![Object] = entry] ELSE Append(emd, entry)
    /\ free' = IF ok THEN IF Reused THEN Tail(free) ELSE free
               ELSE IF Reused THEN free ELSE <<Object>> \o free
    /\ Listed(ok)
    /\ space' = IF ok THEN Object ELSE space
    /\ IF ok THEN Owned([handle |-> next, type |-> "device", local |-> regs'])
       ELSE UNCHANGED held
    /\ UNCHANGED <<part, table, pc, at, mutex, windows, mapped, lost, raced, access, called>>

\* vmiop_unregister_emul_device: vmiope_locate_emul_device, and the space goes.
\* The entry keeps what was registered.
Unregister(thing) ==
    \E i \in DOMAIN devices :
        /\ emd[devices[i]].handle = thing.handle
        /\ Dropped(thing) /\ space' = None
        /\ devices' = SubSeq(devices, 1, i - 1) \o SubSeq(devices, i + 1, Len(devices))
        /\ free' = <<devices[i]>> \o free
        /\ UNCHANGED <<part, table, pc, at, mutex, windows, mapped, lost, raced, emd, next, regs,
                       access, called>>

\* vmiope_config_read and vmiope_config_write: the object is that of the space;
\* its fields are read after the monitor was left.  The compiler chooses their
\* order; it makes no difference here.
AccessBegins ==
    /\ access.obj = None /\ space # None
    /\ access' = [obj |-> space, reg |-> None]
    /\ called' = <<None, None>>
    /\ UNCHANGED <<part, tableVars, emd, devices, free, next, space, regs>>

ReadsPrivate ==
    /\ access.obj # None /\ access.reg = None
    /\ access' = [access EXCEPT !.reg = emd[access.obj].reg]
    /\ UNCHANGED <<part, tableVars, emd, devices, free, next, space, regs, called>>

\* The callback; the registration may be gone by then.
CallsBack ==
    /\ access.reg # None
    /\ called' = <<access.reg, emd[access.obj].callback>>
    /\ access' = [access EXCEPT !.obj = None, !.reg = None]
    /\ UNCHANGED <<part, tableVars, emd, devices, free, next, space, regs>>

DeviceNext ==
    /\ part = "device"
    /\ \/ \E ok \in BOOLEAN : Register(ok)
       \/ \E thing \in held : Unregister(thing)
       \/ AccessBegins \/ ReadsPrivate \/ CallsBack

Next ==
    \/ (WindowNext \/ LockNext \/ DeviceNext) /\ UNCHANGED messageVars
    \/ MessageStep /\ UNCHANGED <<part, tableVars, deviceVars>>

Spec == Init /\ [][Next]_vars

-----------------------------------------------------------------------------
InUse == {h \in DOMAIN table : ~IsFree(table[h])}

\* A handle names what it was given for until it is given back: no two things
\* share one, and the slots in use are those of things held, of calls under way
\* and of calls that failed (vmiope_allocate_table_element); a lock that is
\* locked keeps its slot, unless a mutex was freed between a thread's look at
\* its handle and its taking (vmiope_lock_free_nolock, vmiop_lock); the device
\* that has a handle is the one that has the configuration space.
HandlesAreOwn ==
    /\ \A a, b \in held : a.handle = b.handle => a = b
    /\ part = "windows" =>
        /\ \A t \in held : table[t.handle].type = "window" /\ table[t.handle].local = t.local
        /\ mapped = {t.local : t \in held} \ {None}
    /\ part = "locks" =>
        /\ \A t \in held : table[t.handle].type = t.type
        /\ raced \/ \A h \in DOMAIN table : table[h].owner # None => ~IsFree(table[h])
    /\ part # "device" => InUse = {t.handle : t \in held} \cup InWork \cup lost
    /\ part = "device" =>
        /\ devices = (IF space = None THEN <<>> ELSE <<space>>)
        /\ {<<emd[d].handle, emd[d].reg>> : d \in {space} \ {None}} =
               {<<t.handle, t.local>> : t \in held}

\* vmiop-env.c:1272: the private object "will be passed to the callback routine
\* on any call": a callback that is called gets the private object it was
\* registered with (vmiope_config_read reads the entry after it has left the
\* monitor, when it may be registered anew).
PrivateIsPassed == called[1] = called[2]

=============================================================================
