# demu: models, model checks and proofs

`demu` is the device emulator of a virtual GPU on Xen.  One process serves one
guest.  It loads a vGPU plugin and hands it the guest's accesses, emulates the
VGA, shows the display, and saves and restores the device when the guest is
migrated.  This directory holds TLA+ models of its code, the TLC configurations
that check them, and proofs checked by TLAPS.  Line references are to `src/`;
`vmiop-env.c` is `drivers/vgpu/xen/vmioplugin-xs-6.5/environment/vmiop-env.c`.

* [The system](#the-system): components, state, operations, hard behaviours
* [The modules](#the-modules): what each models and how it follows the code
* [The runs](#the-runs): what TLC checks, bounds, fairness
* [The proofs](#the-proofs)
* [Disagreements](#disagreements-between-code-and-comments) met on the way
* [Plan](#plan), and [what is left out](#what-is-not-modelled)

How to run, in this directory:

    tlc -workers 2 -config Threads_safety.cfg MCThreads
    tlapm ThreadsProofs.tla

## The system

| Component | Source | State | Operations |
|---|---|---|---|
| Migration | `control.c`, `demu.c` 300-760 | `runstate`, `sem_stopped`, `progress_cli`, the state file (`statefile_fd`, `statefile_mode`), the one write in flight (`current_cb`) | the toolstack's commands (init, live, nonlive, pause, track, abort, restore, progress, get state, quit); the worker `migrate_loop`; `do_write`, `write_record`, `closestate`, cleanup |
| Environment: monitor, threads, events | `vmiop-env.c` 760-1000, 3200-4150 | the monitor mutex with `vmiope_monitor_held` and `vmiope_monitor_holder`, `vmiope_enter_lock`, table locks, event variables | enter, leave, conditional forms; thread alloc and start; event wait and post |
| Regions and spaces | `vmiop-env.c` 2390-2660, `demu.c` 1140-1420, 2360-2400 | lists of spaces per kind, regions' `range_base`, what Xen routes here | relocate, register, deregister, `enable_io`, find |
| I/O requests | `demu.c` 1640-1760, 2690-2800 | the shared page of each vcpu, the ring of buffered requests, event channels | the poll loop and `demu_handle_ioreq` |
| VGA | `device.c` | the registers, palette and latch, the VBE registers, two dirty flags | port, memory and VBE accesses; `dump_vga`, `read_vga` |
| Mappings in a region | `vmiop-env.c` 2336-2790, `demu.c` 1100-1140 | mappings and their reference counts, what Xen maps and permits | map, unmap, locate |
| Guest memory | `vmiop-env.c` 1565-1770, 2810-3010, `mapcache.c`, `demu.c` 1511-1760 | windows and pinned pages, a cache of mappings | map, pin, unpin, lookup, invalidate, move data of a request |
| Video memory | `demu.c` 1050-1080, 2610-2700 | where the frame buffer is, the dirty bitmap | move, mark, synchronise |
| Console | `demu.c` 1755-1960, `surface.c`, `vmiop-vga.c`, `vmiop-presentation.c` | the refresh timer, its counter, the socket, the surface | start, tick, stop, redraw, resize |
| Start and end | `demu.c` 151-170, 1966-2610, 3065-3200 | how far `demu_seq_t` has got, the run flags | initialise, resume, tear down, signals |
| Objects and plugins | `vmiop-env.c` | handles, tables, the PCI device, plugin connections, configuration | register, connect, deliver, allocate |

How they interact:

* **Threads.** The main thread runs a `select` loop: commands on the control
  socket, event channels, timer, console.  The plugin has threads of its own
  that call the environment at any time.  A migration starts one more.
* **The monitor** keeps plugin calls and the main loop apart, but is released
  in `select` and around every callback to a plugin.  It does not know the
  thread that migrates, which relies on the emp library's lock at its start
  and end only.
* **Shared state without a lock.** `runstate`, `progress_cli`, the state
  section and the VGA's dirty flags are written by the main thread and by the
  worker.  `vmiope_monitor_held` and `vmiope_monitor_holder` are read outside
  the mutex, on purpose.  `enable_io` walks the lists of spaces outside the
  monitor.
* **External.** Xen (routing of ranges, shared pages, event channels), the
  emp library of control connections, POSIX aio, and the vGPU plugin.  They
  are modelled from how the code uses them.

What is hard: an abort under a worker that may be anywhere; a semaphore that is
reinitialised after it may have been posted; one static control block for
asynchronous writes; unlocked tests; lists walked while their members are
freed; several words that must change together but are changed one after
another; requests that arrive while the page is being polled; a save beside
the accesses it saves.  `PROJECT.json` lists these hazards line by line with
the properties that would catch them.

What makes each component correct:

* *Migration*: one worker at most; a reported success is true; nothing is left
  behind at rest; whoever asked hears of the end once; a stopped migration ends.
* *Environment*: who works under the monitor owns it; calls give back what they
  took; nobody holds one lock while waiting for another; no lost wakeup.
* *Regions*: what is registered is mapped and the reverse; a request reaches the
  owner of the address it was made to; regions and spaces agree.
* *I/O requests*: every access takes effect once and is answered; none is
  forgotten between event and page; order per vcpu.
* *VGA*: what is not marked was saved; several-step accesses have a whole
  effect; memory reads back what was stored; the screen fits.
* *Guest memory*: a lookup returns the page asked for, as it is now; every byte
  of a request moves once, to where it belongs; what is written is marked; what
  is mapped or pinned is undone by the call that gives it back.
* *Console*: the client sees the guest's picture, the guest's memory is not drawn
  over, the counter of refreshes matches the timer.
* *Start and end*: teardown undoes what was done, once, users first, whatever
  interrupts it, and the process ends.
* *Objects*: a handle names what it was given for until it is given back.

## The modules

Each module has state variables named after the code's, one action per handler
or per step that another thread can see, and *history variables* (declared
last) that record what properties talk about and that no guard reads, but for a
bound.
Operators whose comment starts with "Slip:" are not part of the model.  Each
states a plausible mistake in the operator next to it, to show that the
property named in `PROJECT.json` detects it.

### Migration

`mig`, `paused`, `progress`, `initiator` are `runstate.mig`, `runstate.paused`,
`progress_cli`, `initiator_cli`; `mode`, `fd`, `migrateAbort` are the state file's
part of `demu_state`; `cb` is `current_cb`.  A command handler of `control.c`
runs in the main thread under the emp lock and is one action, but for pause and
abort, in which the worker can interleave (`MigratePause`/`PhaseStop`,
`MigrateAbort`/`AbortCleanup`).  The worker's place `pc` follows
`migrate_loop`: header, passes over the VGA and the device, the wait on
`sem_stopped`, footer, flush, cleanup, report.

* `do_write` reads the descriptor when it is entered (`wfd`), waits for the
  previous write and submits the next; wait and submission are one step.  The
  library writes to the file the write was submitted for.
* The file's contents are the state of a reader that accepts header, records,
  footer (`Accept`, from `demu_read_file` and `demu_read_record`), so that
  "the file is good" is a state and not a sequence.
* A write whose control block is overwritten goes on as `orphan` and, when it
  completes, settles the block it no longer belongs to.
* `stopPosted` is Boolean: the semaphore is consumed at most once after each
  `sem_init`.
* `closestate` closes and forgets the descriptor in one step.  In the code two
  threads may both be between the two; the second would close a number that
  some other part of the process has been given, which cannot be said without
  modelling the descriptors of the whole process.
* The two parts of the VGA's record are one, and marking and changing a
  register are one step; module Vga has them apart.
* The plugin is `devLeft`, the records it still has, and `quiesced`, the last
  stage it was notified of.
* Commands that are refused and change nothing are left out, as are `ignore`
  and the unsupported ones.

### Threads

A call of the environment is the sequence of its steps on the monitor and the
locks (`Body`), and its action is the head of what is left of it (`todo`).
Entering the monitor is split as the code is: read `held`, read `holder`, take
the mutex, write `holder`, write `held`.  Stores and loads are in program
order, which is how the file is compiled (at `-O1` neither pair is swapped).
The locks of the object tables are merged into one, which can only add
contention.  Two calls can return through an exit that forgets the monitor
(`deliver` to a missing plugin, `map` without memory); `leaked` records it.

### Regions

`spaces` are the three linked lists, newest first, since `demu_find_space` takes
the first that contains an address; `server` is what Xen routes here.  A
relocation holds the monitor, so it excludes other calls and the main loop's
handling of requests, but neither `enable_io` nor a request whose handler is in
the plugin's callback.  Its steps are split where those two can see it.  A
pointer to a space that has been freed is in `dangling`.  `amiss` records what
has gone wrong, since what follows an accident is not what the properties are
about; `Mishaps` names the four kinds.  Whether a region is where it is asked to
be is tested under `region_lock`, before the monitor is entered: the second of
two threads that ask for one base moves the region from there to there, which
`Relocate` admits.  Xen refuses ranges that
overlap one it has, and may fail for other reasons.

### IoReq and Accesses

`Accesses` is the promise to the guest: an access takes effect once, and a vcpu
that waits for an answer goes on after it.  `IoReq` has the pages, the events
and the poll loop: take a port, unmask it, poll its page, answer.  Xen and the
event channel driver are external; the driver masks a port it has queued, and
events on several ports arrive in any order, recorded in `overtaken`.  A
request is its vcpu and a number; an 8-byte write takes two slots.  Xen sends
synchronously what does not fit in the ring.  The module implements `Accesses`
with `waiting[v]` read as "the page of v is not empty".

### Vga

`r` is part 1 of the saved registers (those that steer an access), `pal` part
2.  Most handlers mark a part dirty and change it then, so an access is `Mark`
followed by the change; a load through the latch and a colour change first and mark
then, which is `MarkLate`, and `dump_vga` may come between; a read of a status
register changes the flip-flop and status register 1, both saved, without marking.
Enabling the VBE also takes over the address of the frame buffer (`addr`), which a
resume restores without telling the VGA.  `dump_vga` copies,
writes and clears the mark, in this order, in the migration's worker.  Of a
byte in video memory, and of a bit mask, one bit is kept, the same in each
plane, and the window of 64 KiB is 4 addresses; colours are bits, and the
palette has 2 entries, whose index wraps as the 8-bit index does.  The guest's
program is a set of `<<port, value>>`, in any order and as often as it likes;
`Values` says what may be written to each port, and `ProgramsAssumption` that
the guests of an instance keep to it.
One access at a time: the handlers keep the monitor.

### Mapcache and GuestIo

`cache` is the array of `mapcache.c`; an entry has page, epoch and pointer, and a
pointer is the frame it was mapped from.  `epoch` counts on as the code's does.
`frame` is Xen's, `stale` the pages whose replacement was not yet told, and
`dropped` the pages whose entries an invalidation emptied.  A bucket starts with
all its entries claiming page 0, as static storage does.  Where two entries
claim a page the last one answers, so after an invalidation a stale entry in the
last way hides its page: lookups of that page alone fail for ever.
`FoundUnlessDropped` says exactly when.

`GuestIo` is `demu_handle_io`, one action per item, over the cache: the widest
functions a space has split an item (`Widest`, `Accesses`), and data that is a
pointer is copied through the cache.  The code falls back on the one-byte function
without looking whether the space has one; the VBE's ports have the two-byte ones
alone, so an access of one byte to them calls a null pointer (`Killed`, `dead`).  `Offset` keeps the unsigned 32 bits of
`sign * i * size` (here `SizeMod`): backward requests put the items after the
first 2^32 too high, as forward ones do the items past the first 2^32 bytes.
`EveryByteOnce` says it byte by byte: demu is killed only by a request narrower than
every function of its space, and a request that was handled was moved in
accesses of one width, which its space has; byte `k` of item `n` (`Byte`) is where the request
puts it (`DevOf`, `AtOf`), in the lower 32 bits always and exactly when it goes
forwards over no more bytes than 32 bits count.
Xen is assumed to give no item of a pointer's request that spans two pages
(`ItemAssumption`), which `demu.c:1624` and 1643 assert.

### GuestMaps

Two halves that share no state; a behaviour takes one (`half`).  *Regions*:
`records` is `mapping_list`, `p2m` and `perm` what Xen maps and permits.  A call of
`vmiop_map_guest_region` names a range of the guest's pages and, independently of it, a
device page; `users` counts the calls for a range that were not undone, `wanted` has the device
pages they named.  A range whose first page is mapped is only counted
(`MapShared`), whatever else the call asks for.  `Added` and `Removed` are
`demu_set_guest_pages` with its two hypercalls, each of which may fail; removal takes
the permission for the device pages that the call names, not for those that were
mapped.  *Pins*:
`vmiop_pin_guest_pages` with its locals `li` and `limit`, one action per batch,
and one per batch of `vmiop_unpin_guest_pages`, which takes the slots of the list it
was given.
What the code does not promise is in history variables: `mixed` (two ranges in use
overlapped without being the same: the second only counts, or hides the
first from the unmapping), `aliased` (a device page was put at a second place, so that
its permission goes with the first that is unmapped), `astray` (a removal named another
device page than was mapped), `stuck` (left by a failed hypercall), `leaked` (pinned,
but in no list).  What three comments of the header and the source promise and the code does
not do, a replacement, a removal that ignores the address and mappings that are
hidden with their region, is in three configurations that end in a counterexample.

### Objects

Parts that share no state, one to a behaviour: windows on guest memory, locks
and events, the PCI device.  `table` is a table of slots with `VMIOPE_OBJECT_TABLE_BLOCK` at a
time; a handle is the slot's place.  `held` is what the plugin was given, `lost`
the slots in use that nobody can name.  A call that takes the table's lock is
one action up to the point where it lets go.  A thread finds the slot of a mutex with no
lock and takes the mutex afterwards (`Look`, `Lock`), and gives it up while it sleeps
(`Sleep`, `Wake`); a mutex that is freed in between is in `raced`, as what the
thread then takes is undefined.  `emd` are the device's entries,
`devices` and `free` the lists they are in; an access of the guest is three
steps, since the entry is read after the monitor was left, and `called` is the callback
it called and the private object it passed.

A fourth part is module **Messages**: the loops of `vmiope_buffer_pullup` and
`vmiope_buffer_apply`, a turn an action, over a buffer whose data lies in several
elements.  A byte is its element and its place in it, so that what was handed
out can be compared, byte by byte, with what was asked for: `Place` is where a
byte lies in the data, and byte `k` of unit `n` must lie at `PlaceOf(n, k)`.  `offset` and `length`
wrap at `Word`, as the code's 32 bits do.

### Lifecycle

`seq` is `demu_state.seq`, and `held` what exists.  The main thread's program
(`Code`) makes each stage's things and then counts it; a failed step jumps to the
teardown, which is a list of blocks (`Blocks`) with the stage each is guarded
by.  A signal may come before any step and runs the teardown on top of what was
going on; `gap` is what was made and not counted, `again` that a signal found a
teardown unfinished, `caught` that it found the monitor's mutex taken and its
holder not recorded.  The handler of SIGSEGV resets the signal to its default, so a
second one ends the process where it is (`Killed`).  Library calls are taken to be async-signal safe and
signals to go to the main thread; neither is true of every build.

The specification is `LifeSpec`, with `LifeInit`, `LifeNext` and `LifeTypeOK`, so that
it can be proved about beside Display.

Plugins are part of the program: the static one and a loaded one are entered
into `table`, initialised outside the monitor (`insert`, `init`), and kept or
taken out again (`KeepStep`), so a signal may find a plugin in the table that is
not initialised.  The loop of `vmiope_shutdown` (`Shut...`) finds each plugin
inside the monitor, taking it if it was not held (`inMon`), and calls its
shutdown outside.  `Users` says who uses what until it is gone: the loaded plugin may
call the VGA, the presentation plugin draws on the surface.  The teardown undoes both before
`vmiope_shutdown`; `UsersGoFirst` names these two and says that the exception ends
with `vmiope_shutdown`.  An error of `select` leaves the loop inside the monitor.  `ConfigStep` has three outcomes: refused, one plugin, none.

### Display

A line of the picture is a page, and drawing copies its content, so that what
the client sees can be compared with what the guest wrote.  `s` is
`surface_state`: its `offset` is `Host` beyond the guest's video memory, or the
start of a 32-bit picture inside it.  `log` and `map` are Xen's record and
`vram_dirty_map`; `at` and `addr` where each page of the frame buffer is and
where the code thinks it is.  A refresh is one action per line, between which
the guest may write; everything else waits for the monitor, but for the plugin's frames.
`Configure` is the presentation plugin, which sizes the same surface, by
`vmiop_dt_set_configuration` or `vmiop_dt_frame`; the latter then copies its pixels line by line
without the monitor (`TakeBuffer`, `CopyLine`) to wherever the surface was when it took the
buffer (`dest`).  `RefreshTooBig` is text of more characters than there is room for: the mode
is recorded and the full redraw is used up, but nothing is drawn.  `Enable` sets a
mode through the VBE, which clears the picture and marks nothing.  While `resuming` a
move of the frame buffer only notes the address (`MoveResuming`), which the start
maps in the end (`MapVram`).  `tick` stands for any number of bytes in the timer's pipe.

## The runs

All runs are exhaustive.  `CHECK_DEADLOCK FALSE` is set where the system really
stops (a guest that has made its accesses, `cmd_quit`, a process that died, a
migration that waits for a command); in Threads a deadlock would be an error
and is checked.

| Run | Instance | Shows |
|---|---|---|
| `migration_safety` | 2 possible workers, 2 clients, 2 descriptor numbers, 2 device records | `OneWorker`, `SuccessIsWritten`, `NonliveIsComplete`, `RestIsClean`, `CompletionToldOnce` under every order of commands, aborts, signals and failing writes |
| `migration_live` | 1, 1, 1, 1 | `StoppedMigrationEnds` under fairness |
| `abort_ends` | 1, 1, 1, 1 | a comment of the code that does not hold |
| `threads_safety` | the main thread and two of the plugin's, seven kinds of call between them | `MonitorIsOwned`, `NothingHeldOutside`, `NoHoldAndWait`, `CallRestoresMonitor`, `NobodySleepsOnSetEvent` |
| `regions_safety` | a small and a large memory region, a port region, the builtin spaces, 4 addresses | `EverySpaceIsMapped`, `EveryRouteHasSpace`, `RequestReachesOwner`, `RegionHasItsSpace` |
| `ioreq` | 2 vcpus, a ring of 3 slots, 2 accesses each | `Accounted`, `NothingForgotten`, `InOrder`, and that `IoReq` implements `Accesses`, liveness included |
| `vga` | nine guests, 2 stores, a frame buffer the VGA was not told of | `SavedIsCurrent`, `ColoursAreWhole`, `ReadBack`, `VirtualFits` |
| `guest_io` | one bucket of two ways, 3 pages of the guest, one replacement of each, requests of two items | `MappingsAreCurrent`, `FoundUnlessDropped`, `EveryByteOnce`, `WrittenIsMarked` |
| `guest_maps` | a region of 2 pages at 2 places, 2 device pages, 2 ranges in use with 2 users each; lists of up to 3 pages in batches of 2 | `GrantsAreMapped`, `NothingKept` |
| `objects` | 2 threads, tables of two blocks of two slots, 4 windows, 4 registrations; messages of up to 3 elements of up to 3 bytes | `HandlesAreOwn`, `DataIsWhole`, `LoopIsShort` |
| `lifecycle` | the program itself with two plugins: every failure, two signals | `UndoneOnce`, `UsersGoFirst`, `NothingLeft`, and `BegunEnds` under fairness |
| `display` | 2 lines of 3 pages, 2 refreshes, one write, frames of the plugin; and 2 changes of registers or surface, or a change and a move, or 3 datagrams | `PictureIsCurrent`, `OnlyDirectSpoils`, `AssertsOnlyAfterEmpty` |

Why the bounds are enough to see the interesting cases:

* *Migration*: a second worker thread exists so that `OneWorker` can fail; two
  descriptors so that one is reused while a write to it is outstanding and one
  can leak; two records so that one is in flight while the next is taken; two
  clients so that the one that is told is not the one that asked.
* *Threads*: three threads are the fewest with two asleep on an event and one to
  post it, and with a holder that changes twice under another's test.
* *Regions*: the large region is long enough to lie around the VGA's range,
  which a test of the two ends misses; the port region has a base past the
  last port.
* *IoReq*: three slots are filled by one wide and one narrow write, so a slot
  is reused and a write finds the ring full.
* *Vga*: each guest has the ports that interact, so all modes of the planes,
  locked and unlocked CRTC registers, both meanings of the colour's position
  and the virtual screen before and after enabling are met.  Numbers of the
  VBE are real numbers.  The bank and the addresses stay inside video memory.
* *GuestIo*: a third page for a bucket of two forces a replacement; two items are
  the fewest that differ by direction; sizes and functions include an item wider
  than the space's functions and one narrower, and one request (`Long`) has more bytes than the
  model's size counts.
* *GuestMaps*: two ranges with two users each are a mapping that is shared and one beside
  it; two device pages are enough to ask for another one; the region goes from one place to the other, which it overlaps, and back over mappings
  it left; a list is longer than a batch, and has a page twice, an absent one or one
  too high.
* *Objects*: an allocation falls into a freed slot and into a new block; two
  threads are a holder and a sleeper; an entry of the device is taken again.
* *Messages*: three elements, empty ones among them, so that data may begin behind
  an element, fill one, or lie across two or three; units of 1 to 5 bytes.
* *Lifecycle*: two signals, of which the teardowns nest, as each is blocked while
  its handler runs.  The handlers of SIGINT and SIGHUP do what SIGTERM's does; only
  the latest teardown is alive, so a third would find what the second does.
* *Display*: the registers start as after a reset, in any mode without VBE, and two
  changes reach each pair of modes; two lines so that one is drawn before a
  write and one after.  `MCBounds` keeps the three that have least to do
  with each other apart: two changes while the frame buffer stays (after the second the
  guest's write comes after the lines of a frame, not before or between them),
  a move (whole, half way, or while resuming) beside one change, and
  the console's timer alone, where two refreshes and three datagrams stop a console with a
  tick left in the pipe and start it again.  The exception `skipped` of `PictureIsCurrent` takes more
  refreshes than the runs have (text, a picture, text too big and text again, with a refresh
  of each: the last finds its characters as drawn): it was found with `MaxTurns = 3` and `Refreshes = 4`, where the property fails without it.

Fairness.  *Migration*: a worker that can run does (weak); it gets the emp lock
in the end (strong, as commands take and release it); handlers of the main
thread finish; a write in flight completes, that is, the peer drains its end
or closes it.  No fairness is assumed of commands, of faults or of the guest.
*IoReq*: the main loop goes on, Xen sends what it owes, the driver delivers,
and a vcpu that was notified looks at its page.  The bound on accesses hides
one thing: demu polls the ring until it is empty, so a guest that never stops
writing could keep the others waiting.  *Lifecycle*: a teardown that has begun
goes on; another thread leaves the monitor in the end; and since that mutex is
released again and again, the main thread gets it (strong).

Limits built into properties, each because the code really is like that:
`SuccessIsWritten` leaves out migrations that were aborted, and ones begun over
a write that an earlier one abandoned; `RestIsClean` what follows a refused
restore; `CompletionToldOnce` a command that changes `progress_cli` between the
two tests in `migrate_loop`; `NobodySleepsOnSetEvent` posts with
`wakeup_first`; `SavedIsCurrent` a part that changed while it was being
written, and the flip-flop with status register 1; `FoundUnlessDropped` pages whose entries were
invalidated; `EveryByteOnce` a request that no function of its space is narrow enough for, and the upper half of
addresses when going backwards or beyond 2^32 bytes; `HandlesAreOwn` a mutex freed under a thread
on its way to it; `DataIsWhole` and
`LoopIsShort` what follows the first unit that crosses from one element to another;
`GrantsAreMapped` and `NothingKept` the five cases of GuestMaps above;
`UndoneOnce` a second signal; `UsersGoFirst` the VGA and the surface until `vmiope_shutdown`
is past; `NothingLeft` the keys of a process that never came
up and a process that a second SIGSEGV kills; `BegunEnds` the window in `vmiope_enter_monitor`; `PictureIsCurrent` and
`OnlyDirectSpoils` the cases their comments name.

Configurations beside the runs: ten end in a counterexample, see
[below](#disagreements-between-code-and-comments).  The type invariants are proved, for every
value of the constants, so no run repeats them.

## The proofs

TLC checks an instance; TLAPS proves the following for every value of the
constants under the named assumptions of the modules.  No theorem is assumed.

Every inductive invariant below was first checked by TLC as an invariant of the
module's run.

| Module | Assumptions | Proved |
|---|---|---|
| `MigrationProofs` | `ConstAssumption`: finitely many descriptors, none of them `None`, at least one record | types, `OneWorker`, `RestIsClean`, `SuccessIsWritten`, `NonliveIsComplete`, `CompletionToldOnce` |
| `ThreadsProofs` | `ThreadAssumption`: `Main` is a thread, `None` is not, only `Main` selects | types, `MonitorIsOwned`, `NothingHeldOutside`, `NoHoldAndWait`, `CallRestoresMonitor`, `NobodySleepsOnSetEvent` |
| `RegionsProofs` | `RegionsAssumption`, `BuiltinAssumption`: what the builtin spaces are, that they are apart | types, `EverySpaceIsMapped`, `EveryRouteHasSpace`, `RequestReachesOwner`, `RegionHasItsSpace` |
| `IoReqProofs` | `IoReqAssumption`, `NoPortAssumption`: the ring's and `None`'s names are no vcpu's; slots for one wide request | types, `Accounted`, `NothingForgotten`, `InOrder`, and that every step is one of `Accesses` or a stutter |
| `GuestIoProofs` | those of Mapcache and GuestIo, with `ItemAssumption`; `GuestMapsAssumption`: what the region and the lists are made of | types, `MappingsAreCurrent`, `FoundUnlessDropped`, `EveryByteOnce`, `WrittenIsMarked`; of GuestMaps: types, `GrantsAreMapped`, `NothingKept` |
| `VgaProofs` | `VgaAssumption`, `ProgramsAssumption` | types, `SavedIsCurrent`, `ColoursAreWhole`, `ReadBack`, `VirtualFits` |
| `ObjectsProofs` | those of Objects and Messages, `ClientsAssumption`: `None` is no thread | types, `HandlesAreOwn`, `DataIsWhole`, `LoopIsShort` |
| `DisplayProofs` | `DisplayAssumption`: a picture that starts at a start lies in video memory; none for Lifecycle | types, `PictureIsCurrent`, `OnlyDirectSpoils`, `AssertsOnlyAfterEmpty`; of Lifecycle: types, `UndoneOnce`, `UsersGoFirst`, `NothingLeft` |

The arguments:

**Migration** is a chain, each invariant inductive relative to the ones before:

1. `TypeOK`.
2. `OwnerInv`: `OneWorker`, with the fact that a process which is ready to resume is still in the
   restore phase, since `GetState` sets `mig` too.
3. `FileInv`: the state file follows `mig`.  `RestIsClean` alone is not
   inductive: one must know what the section is in each phase, that only a
   running migration has an abort pending, and that a worker past cleanup has
   shut the file even if an abort comes after it.
4. `WriteInv`: at each place of the worker, what the reader makes of the file
   once the write in flight is done (`Reads`).  A success then has a footer
   because the flush waits for it.
5. `NonliveInv`: a migration that is not live was stopped and stays paused, and
   the worker leaves its loop over the device's records (`Drained`) only when none
   is left.
6. `ToldInv`: what the clients have been told at each place of the worker: nothing
   before the report, and between its two tests only the client that
   `progress_cli` names.

**Threads**:

* `PlaceInv`: what is left of a call is one of finitely many rests, and where
  its thread is fits the step at its head.
* `MonitorInv`: if `held` is set then `holder` owns the mutex; a thread that is
  not in the monitor never finds itself in `holder`, whatever it has read
  before.  This is why the unlocked test is safe.
* `PhaseInv`: the rest of a call tells whether its thread is in the monitor and
  whether it will be at the end.
* `LockInv`: a table or event lock is held exactly between its two steps.

**Regions**: `Find` takes the first space that holds an address, but the order of
a list does not enter the argument.  Xen maps no address twice, so the spaces that
are mapped are apart (`MappedInv`) and at most one holds the address; what is
routed here lies in one (`RouteInv`).  A space that is not mapped once there are
I/O servers lies ahead of `enable_io` in its walk over the lists, or is at the
head of its list with the relocation that put it there about to map it
(`WalkInv`).  Here the order matters: a new space is put where the walk has been.
These hold until a mishap leads `enable_io` astray (`Orderly`); `OwnInv`, that a
region which has a base has one space, there, until one "slipped".

**IoReq**: `EventInv` says that a vcpu's page is "ready" exactly when one event of
it is on its way: owed by Xen, pending, queued, or taken by the main loop.  It
follows that the branch of the code for a page that is not ready is never taken
for want of a request.  `RingInv` and `OrderInv` say that what is between the
pointers is whole requests in their vcpus' order, and `AnswerInv` that an answer
is there when its access was handled.  `RefinesAccesses` maps each step: handling
a request is the access taking effect, reading an answer is the vcpu going on, and
all else stutters.

**GuestIo**: `CacheInv` adds to `MappingsAreCurrent` that an entry which claims a
page maps it and is the page's only one, unless an entry of that page has outlived
its mapping (`OneClaim`); and that page 0, which all entries claim at first, is
such a page.  What entry a fault evicts does not matter beyond its bucket.
`Marked` says during a request what `WrittenIsMarked` says at its end, and `Placed`
what `EveryByteOnce` says: after `i` items there are the accesses of `i` items, all
of one width, and each is where arithmetic modulo `SizeMod` puts it.  No induction
over the data is needed, as each access is compared with its own place in the
request and not with the ones before.

**GuestMaps**, the regions: while no ranges have mixed, those in use are the same or apart
(`RangesApart`), each has one record, which counts its users (`UsersRecorded`,
`RecordsUsed`), and records are apart (`RecordsApart`), so that `Located` finds the one
that was made for a range, wherever the region has gone since.  `RangeMapped` and
`OthersStuck` say what Xen maps inside the ranges and outside, `FramesOnce` that no device
page is at two places unless one was put there (`aliased`), and `PagesPermitted` and
`PermissionsStuck` what that makes of the permissions.  The pins: `PinsCounted` gives for each page the number of pins that are
in the plugin's list, in the list under way and in none; `Answered` what of the list
under way is already filled in.

**Vga**: most lemmas say what an access leaves alone.  Beside the properties
themselves the invariant has `MarkInv` (an access between its two steps has
marked part 1, or part 1 was written under it; a part that is changed first and marked
then is covered by `late`, whatever `dump_vga` does between), `DacInv` (the cache of
the DAC holds the values written since the index was set) and `VbeInv` (the
screen is no larger than the code admits, so that the virtual screen made of it
when it is enabled fits).

**Objects**: a slot in use is that of something held, of a call under way or of a
call that failed, and no two of these are the same (`Apart`).  The device's free
list names an entry once and never the one in use.  A thread that is on its way to
a mutex or asleep has one that is held, unless one was freed under it (`LockInv`), so a
mutex that is locked keeps its slot.

**Messages**: as long as no unit has crossed from one element to another, `offset`
and `length` give the place of the next unit, every unit before has been handed out
whole, and the turns made are those of the elements passed and of the units handed
out, which bounds the loop (`InPlace`); or a pullup has found all of its data in one
element (`PulledUp`).  After the first crossing (`Crossed`) nothing is claimed of the
data, but a pullup still makes no more turns than there are elements (`PullupTurns`).

**Display**: for each line that is not current something remembers it: Xen's
record, the pages a move has left or lost (`Seen`) and, until the line is drawn,
the dirty map or the full update (`Ahead`).  A refresh that is not full finds the
picture where the last one left it, or resizes, which makes it full.  A line that a frame
of the plugin was copied over is in `over` until it is drawn again; `lost` has the pages
that were written and marked nowhere.

**Lifecycle**: the lemmas come first that write the program out as its 65
instructions (`CodeIs`) and the teardown as its 17 blocks (`BlocksAre`), and say what the
argument needs of them: the block of each thing is reached from the stage that is
counted next after the thing is made, or from an earlier one (`WhatIs`); what it takes to undo a thing is made
before that thing is counted and undone by a later block (`NeededIs`); and who
uses a thing has an earlier block, but for the plugins, which use the VGA and the surface
(`UsersAre`).  A change of the order of either list that
broke the properties would break one of these lemmas.  The invariant
then has three parts.  `MonitorIs`: the mutex is the main thread's wherever its program
says so.  `StartInv`, before a teardown: `seq` is the number of `demu_seq_next` passed
(`StageIs`), what is there is what was made before the main thread's instruction, and a plugin is
in the table without being initialised only between the two instructions concerned
(`PluginsAre`).  `EndInv`, from then on: a block whose thing was made is reached unless
the thing is in `gap` (`CountedIs`); what the teardown has passed is gone (`PassedIs`), the
plugins as far as the loop of `vmiope_shutdown` has come (`ToCome`); and in the first
teardown what is ahead is still there (`FirstIs`).  `UndoneOnce` needs `FirstIs` and so
holds for the first teardown only; `UsersGoFirst` and `NothingLeft` need `PassedIs`, which a
second teardown starts from nothing and makes true again.  The argument uses nothing
of `Signals` but its type, so it does not depend on how many signals nest.

Only model-checked:

* Every liveness property (`StoppedMigrationEnds`, `BegunEnds`) and the fairness
  part of `ImplementsAccesses`: liveness under fairness and `ENABLED` are out of the
  prover's reach.
* The counterexamples and the run `abort_ends`, which are about what does not hold.

Every safety invariant and every type invariant is proved.  Three were restated to be
provable, and say more for it: `EveryByteOnce`, `DataIsWhole` and `LoopIsShort` used
to compare folds over the data, whose value for every length needs an induction that the
installed provers cannot use; now they speak of each byte by its place.  Trying to prove
them and `GrantsAreMapped` also showed where the models had said too little or too much:
a forward request of more than 2^32 bytes wraps as well; and two ranges can mix that
begin at different pages, where the bases of a region overlap.

No module here has a recursive operator.

## Disagreements between code and comments

The first is a run that ends in a counterexample, with its details in
`PROJECT.json`.  The next ten are configurations of their own beside the runs,
each with one property that the code violates.

* `Migration_AbortEndsMigration.cfg`: `do_migrate_live` reinitialises the
  semaphore (`control.c:187`) and drops the post of an earlier pause; an abort
  posts nothing since the device is paused (`control.c:299`), and the worker waits
  for ever.  `control.c:298`: "thread could be waiting for pause".
* `GuestMaps_MapReplaces.cfg`: a range whose first page is mapped is only counted
  (`vmiop-env.c:2735`) and keeps its device pages, against `vmiop-env.c:2647`: "Any prior
  mapping of the guest pseudo-physical address range is completely replaced."
* `GuestMaps_UnmapIgnoresAddress.cfg`: a removal takes the permission for the device page
  the call names (`demu.c:1127`), against `vmiop-env.c:2643`: "the physical_address is
  effectively ignored".
* `GuestMaps_HiddenHasNoMapping.cfg`: a region that is disabled leaves its mappings in the
  guest (`vmiop-env.c:2583`), against `vmiop-env.c:2539`: "The region and all its mappings
  are hidden from the guest address space".
* `Objects_PrivateIsPassed.cfg`: an access that has left the monitor may call one
  registration with the private object of another (`vmiop-env.c:1079`), against
  `vmiop-env.c:1272`: it "will be passed to the callback routine on any call".
* `Migration_AbortedDeviceResumes.cfg`: an abort leaves it to the end of a running
  migration to notify the device (`control.c:310`: "vmiope_notify_device is called
  when done"), but nothing there does.
* `Migration_LastPassTakesVga.cfg`: the mark on the VGA's registers is cleared
  after the record was written (`device.c:252`), so what changed meanwhile counts
  as sent, and the last pass, which `control.c:134` makes because "vga may have
  changed", skips it.
* `Threads_MonitorLeftBeforeReturn.cfg`: two error exits (`vmiop-env.c:5716`, 1693)
  return inside the monitor, against `vmiop-env.c:769`.
* `Threads_StartedThreadIsKnown.cfg`: a new thread waits for a lock that its
  creator releases before it stores the handle (`vmiop-env.c:3427`), against
  `vmiop-env.c:3234`.
* `Regions_DeregisterFindsSpace.cfg`: a relocation gives up its old range before
  it has the new one (`vmiop-env.c:2592`); after a failure a later move may fail
  the assertion at `demu.c:1290`.
* `Objects_CopyIsWhole.cfg`: `vmiop-env.c:5731` and 5806 promise a copy where data is
  not contiguous.  `vmiope_buffer_pullup` then subtracts what it copied from an
  offset that should become 0 (`vmiop-env.c:5791`) and reads the next element at the
  wrong place or not at all; `vmiope_buffer_apply` copies each piece to the start of
  `tbuf` (`vmiop-env.c:5874`), and when the rest of the data is as long as the piece
  it has, copies nothing and turns for ever.  Both return success where the range
  is not in the buffer, against `vmiop-env.c:5745`.

Met while modelling, and stated in the properties of the modules as the case
they leave out, or abstracted:

* *Mappings*: the mappings of a region do not move with it either; a failed hypercall
  leaves a permission or a page without a record; a region that is disabled cannot be
  unmapped.
* *Pinning*: pages pinned before a page is refused stay pinned; the guest's
  highest page is refused, since it is compared with the highest page less one
  (`vmiop-env.c:2964`).
* *Windows*: `vmiop_map_guest_memory` compares with `MAP_FAILED` what is null on
  failure, and returns success with a null window whose slot is never free again
  (`vmiop-env.c:1613`); without memory `vmiop_map_guest_memory_pages` forgets its
  slot.
* *Locks*: `vmiop_spinlock_alloc` never stores the handle; freeing a lock that is
  locked succeeds, and the slot is lost; a freed event is a lock if its mutex
  was locked; `vmiop_cv_signal` and `vmiop_cv_broadcast` return an uninitialised
  value (`vmiop-env.c:4155`, 4177).
* *PCI device*: a registration that fails returns success with a null handle
  (`vmiop-env.c:1330`).
* *VGA*: reading a status register toggles status register 1, which is saved, and resets
  the flip-flop, with no mark (`device.c:563`).
* *I/O*: an access of one byte to the VBE's ports calls a null pointer (`device.c:1208`,
  `demu.c:1511`, 1573); a backward request with more than one item computes its addresses in
  unsigned 32 bits (`demu.c:1679`, 1699).
* *Start and end*: the key of the process id stays in xenstore when the start
  fails; a second signal in a teardown undoes things twice; a signal between
  taking the monitor and recording its holder makes `vmiope_shutdown` wait for
  itself; the VGA is shut down before the plugins that may call it; a plugin that is
  in the table and not initialised when a signal comes is shut down all the same;
  a `numPlugins` above the limit is logged as an error and returned as success,
  with no plugin loaded (`vmiop-env.c:6303`).
* *Display*: a 32-bit picture whose start alone moves is copied over the guest's
  memory at the old start; blanking a 32-bit picture erases the guest's frame
  buffer; an empty datagram starts the console with no refresh left, and the
  assertion at `demu.c:1883` fails; a move of the frame buffer that stops half way
  leaves pages that no record covers; text too big to draw uses up the redraw of a new
  mode (`surface.c:735`); the clearing of a new mode's picture and the frames of the plugin
  mark nothing.

## Plan

Built: Migration, Threads, Regions, IoReq with Accesses, Vga, Mapcache with
GuestIo, GuestMaps, Objects with Messages, Lifecycle, Display; proofs for all of
them.  What is worth adding, in this order:

1. Abstract specifications: what `demu_mapcache_lookup` returns is the page asked for or
   nothing, as a cache (a partial function from pages to frames that may forget) which
   Mapcache implements; an abstract set of live handles that Objects implements.
2. The composition of Display's dirty map with the migration's last pass, which
   reads the same record.
3. The links between plugins, so that a message reaches the plugin of its class.

## What is not modelled

* How a pixel or a character is drawn (`surface.c`, `template.h`), logging,
  arguments and the syntax of the configuration: computation over data, with no
  control that others see.
* The vGPU plugin, Xen and the emp library: not in the repository; external
  actions as far as the code depends on them.
* The links between plugins, made once at start and never changed, and their
  failure half way, after which demu ends; the count of a buffer's references,
  which the plugins of this repository never share; the presentation plugin's
  fixed replies.
* Use of spinlocks, whose handle nobody gets; the join of a thread.
* In Vga: values that are only read back, rotation, read mode 1, the tracking
  of fonts and dirty pages.  In IoReq: the wrap of the ring's 32-bit pointers.
* In Lifecycle: more than one loaded plugin, and what a library does when it is
  opened.
* In Objects, the table of regions: `vmiope_region_is_free` is false for every
  slot of it, so each region takes a block of its own and no slot is used again.
* The state section's close is one step (see Migration), and the parts of Objects
  and of GuestMaps are not combined with each other: they share no state.
* Faults of memory allocation, but for those whose exits do something that
  another call can see.
