----------------------------- MODULE Migration -----------------------------
(***************************************************************************)
(* The migration of a vGPU out of (and into) one demu process: the         *)
(* commands of src/control.c, the worker thread a live or non-live         *)
(* migration runs in, and the state file of src/demu.c the worker writes   *)
(* with one asynchronous write in flight.                                  *)
(*                                                                         *)
(* Three kinds of actor run concurrently.  The main thread dispatches the  *)
(* commands of the toolstack, one at a time and under the emp lock; it     *)
(* also serves the guest's I/O requests.  A worker runs migrate_loop       *)
(* without the lock.  The aio library completes the write in flight.       *)
(***************************************************************************)
EXTENDS Naturals, FiniteSets

CONSTANTS
    Workers,    \* threads the emp library starts for live and nonlive
    Clients,    \* connections of the toolstack
    Fds,        \* descriptor numbers a state file can have
    None,       \* -1: no descriptor, no client
    MaxChunks   \* bound: device records the plugin has left to hand over

ASSUME ConstAssumption ==
    /\ IsFiniteSet(Fds)
    /\ None \notin Fds \cup Clients
    /\ "unused" \notin Fds \cup {None}
    /\ MaxChunks \in Nat \ {0}

VARIABLES
    mig,          \* runstate.mig
    paused,       \* runstate.paused
    stopPosted,   \* sem_stopped > 0 (it is consumed at most once per sem_init)
    progress,     \* progress_cli
    initiator,    \* initiator_cli
    mode,         \* demu_state.statefile_mode
    fd,           \* demu_state.statefile_fd
    migrateAbort, \* demu_state.migrate_abort
    demuDirty,    \* demu_state_dirty
    vgaDirty,     \* vga_part1_dirty or vga_part2_dirty
    resuming,     \* demu_resuming
    main,         \* where the main thread is: "listen", "serve" or "dead"
    handler,      \* "none", or the command it has half done under the emp lock
    pc, rec, wfd, stopped, ok,  \* the workers: place and locals
    cb,           \* the static current_cb of do_write
    orphan,       \* a write whose aiocb was overwritten is still in flight
    open,         \* descriptors of state files the process holds
    stream,       \* what the reader of the state file makes of it so far
    quiesced,     \* the last migration stage the plugin was notified of is quiesce
    ioreq,        \* the ioreq server is enabled in Xen
    devLeft,      \* records the plugin has left to hand over
    \* History.
    vgaFresh,     \* the last VGA record taken holds the present registers
    aborted,      \* an abort came while the present migration was running
    clean,        \* no write of an earlier migration was in flight at its init
    refused,      \* a restore was refused and left its file behind
    moved,        \* progress_cli changed while completion was being reported
    told          \* completion events of the present migration, by client

runVars  == <<mig, paused, stopPosted, progress, initiator>>
fileVars == <<mode, fd, migrateAbort, open>>
mainVars == <<resuming, main, handler>>
locals   == <<pc, rec, wfd, stopped, ok>>
aioVars  == <<cb, orphan, stream>>
devVars  == <<quiesced, ioreq, devLeft, vgaDirty, vgaFresh, demuDirty>>
history  == <<aborted, clean, refused, moved, told>>
vars == <<runVars, fileVars, mainVars, locals, aioVars, devVars, history>>

-----------------------------------------------------------------------------
Modes == {"not_ready", "closed", "r_opened", "w_opened"}
MigStates == {"not_init", "init", "track", "live", "paused", "restore"}
Records == {"header", "demu", "vga", "vmiope", "footer", "flush"}
Places == {"idle", "start", "pass", "vga", "dump", "wait", "finish", "flush",
           "write", "cleanup", "report", "report2", "exit"}

\* current_cb; only a write in flight has a record and a file that matter.
Settled(f, st) == [fd |-> f, st |-> st, rec |-> "header", own |-> FALSE]
NoCb == Settled("unused", "done")
Cbs == [fd : Fds \cup {None, "unused"}, st : {"pending", "done", "failed"},
        rec : Records, own : BOOLEAN]

\* demu_read_header and process_record: a file the reader accepts opens with
\* the ident and ends with the close record.
Accept(s, r) ==
    CASE s = "new"  /\ r = "header"             -> "open"
      [] s = "open" /\ r = "footer"             -> "closed"
      [] s = "open" /\ r \notin {"header", "footer"} -> "open"
      [] OTHER                                  -> "bad"

RunType ==
    /\ mig \in MigStates /\ paused \in BOOLEAN /\ stopPosted \in BOOLEAN
    /\ progress \in Clients \cup {None} /\ initiator \in Clients \cup {None}
FileType ==
    /\ mode \in Modes /\ fd \in Fds \cup {None} /\ open \subseteq Fds
    /\ migrateAbort \in BOOLEAN
MainType ==
    /\ resuming \in {"not", "set", "ready"}
    /\ main \in {"listen", "serve", "dead"}
    /\ handler \in {"none", "pause", "abort"}
LocalType ==
    /\ pc \in [Workers -> Places] /\ rec \in [Workers -> Records]
    /\ wfd \in [Workers -> Fds \cup {None}]
    /\ stopped \in [Workers -> BOOLEAN] /\ ok \in [Workers -> BOOLEAN]
AioType ==
    /\ cb \in Cbs /\ orphan \in BOOLEAN
    /\ stream \in {"new", "open", "closed", "bad"}
DevType ==
    /\ quiesced \in BOOLEAN /\ ioreq \in BOOLEAN /\ devLeft \in 0..MaxChunks
    /\ vgaDirty \in BOOLEAN /\ vgaFresh \in BOOLEAN /\ demuDirty \in BOOLEAN
HistoryType ==
    /\ aborted \in BOOLEAN /\ clean \in BOOLEAN /\ refused \in BOOLEAN
    /\ moved \in BOOLEAN /\ told \in [Clients -> 0..2]

TypeOK == RunType /\ FileType /\ MainType /\ LocalType /\ AioType /\ DevType /\ HistoryType

Init ==
    /\ mig = "not_init" /\ paused = FALSE /\ stopPosted = FALSE
    /\ progress = None /\ initiator = None
    /\ mode = "not_ready" /\ fd = None /\ open = {} /\ migrateAbort = FALSE
    /\ \/ resuming = "not" /\ main = "serve" /\ ioreq = TRUE
       \/ resuming = "set" /\ main = "listen" /\ ioreq = FALSE
    /\ handler = "none"
    /\ pc = [w \in Workers |-> "idle"] /\ rec = [w \in Workers |-> "header"]
    /\ wfd = [w \in Workers |-> None] /\ stopped = [w \in Workers |-> FALSE]
    /\ ok = [w \in Workers |-> FALSE]
    /\ cb = NoCb /\ orphan = FALSE /\ stream = "new"
    /\ quiesced = FALSE /\ devLeft = MaxChunks
    /\ demuDirty = TRUE /\ vgaDirty = TRUE /\ vgaFresh = FALSE
    /\ aborted = FALSE /\ clean = TRUE /\ refused = FALSE /\ moved = FALSE
    /\ told = [c \in Clients |-> 0]

-----------------------------------------------------------------------------
(* The commands.  A refused command only sends an error reply: it changes  *)
(* nothing, unless it is an action below.                                  *)

\* The main thread is in its select loop, and nobody holds the emp lock.
Idle == main # "dead" /\ handler = "none"

Running == mig \in {"live", "paused"}

\* Slip: the section's mode is left behind.
CloseStateKeepsMode ==
    /\ open' = open \ {fd}
    /\ fd' = None
    /\ UNCHANGED mode
    /\ cb' = [cb EXCEPT !.own = FALSE]

\* closestate and the end of demu_migrate_cleanup.  A write in flight to the
\* file goes on, but no longer to the file of a migration.
CloseState ==
    /\ open' = open \ {fd}
    /\ fd' = None
    /\ mode' = "not_ready"
    /\ cb' = [cb EXCEPT !.own = FALSE]

\* do_migrate_init with a descriptor f that came with the command.  A file
\* that is still open from before makes demu_init_migrate refuse, and f stays
\* open.
MigrateInit(f) ==
    /\ Idle /\ f \notin open /\ mig = "not_init"
    /\ open' = open \cup {f}
    /\ IF mode # "not_ready"
       THEN UNCHANGED <<mig, mode, fd, demuDirty, vgaDirty, vgaFresh, aborted,
                        clean>>
       ELSE /\ mig' = "init" /\ mode' = "closed" /\ fd' = f
            /\ demuDirty' = TRUE /\ vgaDirty' = TRUE
            /\ vgaFresh' = FALSE /\ aborted' = FALSE
            /\ clean' = (cb.st # "pending" /\ ~orphan)
    /\ UNCHANGED <<paused, stopPosted, progress, initiator, migrateAbort, mainVars,
                   locals, aioVars, quiesced, ioreq, devLeft, refused, moved, told>>

\* The thread of an accepted live or nonlive command, at migrate_loop.
Spawn(w, isLive) ==
    /\ pc[w] = "idle"
    /\ pc' = [pc EXCEPT ![w] = "start"]
    /\ stopped' = [stopped EXCEPT ![w] = ~isLive]
    /\ ok' = [ok EXCEPT ![w] = FALSE]
    /\ UNCHANGED <<rec, wfd>>

\* Slip: a command is not refused as busy.
CheckMigNotBusy == mig # "not_init"

CheckMig == mig \in {"init", "track"}

MigrateLive(w, c) ==
    /\ Idle /\ CheckMig
    /\ stopPosted' = FALSE        \* sem_init
    /\ initiator' = c /\ mig' = "live"
    /\ Spawn(w, TRUE)
    /\ UNCHANGED <<paused, progress, fileVars, mainVars, aioVars, devVars, history>>

MigrateNonlive(w, c) ==
    /\ Idle /\ CheckMig /\ paused
    /\ initiator' = c /\ mig' = "paused"
    /\ Spawn(w, FALSE)
    /\ UNCHANGED <<paused, stopPosted, progress, fileVars, mainVars, aioVars,
                   devVars, history>>

\* do_migrate_pause posts the semaphore first ...
MigratePause ==
    /\ Idle /\ ~paused
    /\ paused' = TRUE /\ stopPosted' = TRUE
    /\ handler' = "pause"
    /\ UNCHANGED <<mig, progress, initiator, fileVars, resuming, main, locals,
                   aioVars, devVars, history>>

\* ... and then stops the device: demu_migrate_phase_stop, whose hypercall may
\* fail.
PhaseStop ==
    /\ handler = "pause" /\ handler' = "none"
    /\ ioreq' \in {FALSE, ioreq}
    /\ quiesced' = TRUE
    /\ UNCHANGED <<runVars, fileVars, resuming, main, locals, aioVars, devLeft,
                   vgaDirty, vgaFresh, demuDirty, history>>

CmdProgress(c) ==
    /\ Idle
    /\ progress' = c
    /\ moved' = (moved \/ \E w \in Workers : pc[w] = "report2")
    /\ UNCHANGED <<mig, paused, stopPosted, initiator, fileVars, mainVars, locals,
                   aioVars, devVars, aborted, clean, refused, told>>

TrackDirty ==
    /\ Idle /\ CheckMig
    /\ mig' = "track" /\ quiesced' = FALSE
    /\ UNCHANGED <<paused, stopPosted, progress, initiator, fileVars, mainVars,
                   locals, aioVars, ioreq, devLeft, vgaDirty, vgaFresh, demuDirty,
                   history>>

\* do_mig_abort: the flag, the notification and the post ...
MigrateAbort ==
    /\ Idle /\ handler' = "abort"
    /\ IF mig = "live"
       THEN /\ migrateAbort' = TRUE /\ quiesced' = FALSE
            /\ stopPosted' = (stopPosted \/ ~paused)
       ELSE UNCHANGED <<migrateAbort, quiesced, stopPosted>>
    /\ aborted' = (aborted \/ Running)
    /\ UNCHANGED <<mig, paused, progress, initiator, mode, fd, open, resuming, main,
                   locals, aioVars, ioreq, devLeft, vgaDirty, vgaFresh, demuDirty,
                   clean, refused, moved, told>>

\* ... then the state file is closed under the worker, and the pause is undone.
AbortCleanup ==
    /\ handler = "abort" /\ handler' = "none"
    /\ IF mig \in {"not_init", "init"}
       THEN UNCHANGED <<fileVars, cb>>
       ELSE CloseState /\ migrateAbort' = FALSE
    /\ paused' = FALSE
    /\ quiesced' = (quiesced /\ ~(mig = "not_init" /\ paused))
    /\ UNCHANGED <<mig, stopPosted, progress, initiator, resuming, main, locals,
                   orphan, stream, ioreq, devLeft, vgaDirty, vgaFresh, demuDirty,
                   history>>

\* do_cmd_restore; demu_trigger_resume refuses a process not started to resume.
CmdRestore(c) ==
    /\ Idle /\ CheckMig
    /\ initiator' = c
    /\ IF resuming = "set"
       THEN mig' = "restore" /\ resuming' = "ready" /\ UNCHANGED refused
       ELSE mig' = "not_init" /\ refused' = (mode = "closed") /\ UNCHANGED resuming
    /\ UNCHANGED <<paused, stopPosted, progress, fileVars, main, handler, locals,
                   aioVars, devVars, aborted, clean, moved, told>>

\* demu_get_state and the end of demu_initialize: reading may fail in any
\* record, and needs a descriptor.  A process that fails to resume exits.
GetState ==
    /\ main = "listen" /\ handler = "none" /\ resuming = "ready"
    /\ CloseState
    /\ mig' = "not_init" /\ resuming' = "not"
    /\ \/ /\ fd # None /\ mode = "closed"
          /\ main' = "serve" /\ ioreq' = TRUE /\ quiesced' = FALSE
          /\ demuDirty' = FALSE /\ vgaDirty' = TRUE
       \/ /\ main' = "dead"
          /\ UNCHANGED <<ioreq, quiesced, demuDirty, vgaDirty>>
    /\ UNCHANGED <<paused, stopPosted, progress, initiator, migrateAbort, handler,
                   locals, orphan, stream, devLeft, vgaFresh, history>>

\* do_cmd_quit: demu_shutdown exits the process.
CmdQuit ==
    /\ Idle /\ mig = "not_init"
    /\ main' = "dead"
    /\ UNCHANGED <<runVars, fileVars, resuming, handler, locals, aioVars, devVars,
                   history>>

-----------------------------------------------------------------------------
(* The worker: migrate_loop and what it calls.                             *)

\* Continue at p, or take the error path: everything leads to cleanup.
Goto(w, p) == pc' = [pc EXCEPT ![w] = p]

\* The locals of do_write are gone when it returns.
ReturnTo(w, p) ==
    /\ Goto(w, p)
    /\ rec' = [rec EXCEPT ![w] = "header"] /\ wfd' = [wfd EXCEPT ![w] = None]

Fail(w) == ReturnTo(w, "cleanup") /\ UNCHANGED <<stopped, ok>>

\* Enter do_write with record r: it reads the state descriptor once, first.
EnterWrite(w, r) ==
    /\ Goto(w, "write")
    /\ rec' = [rec EXCEPT ![w] = r] /\ wfd' = [wfd EXCEPT ![w] = fd]
    /\ UNCHANGED <<stopped, ok>>

\* demu_start_migrate up to write_header's do_write.
StartMigrate(w) ==
    /\ pc[w] = "start"
    /\ IF mode # "closed"
       THEN Fail(w) /\ UNCHANGED <<mode, migrateAbort>>
       ELSE /\ mode' = "w_opened"
            /\ \/ fd # None /\ EnterWrite(w, "header") /\ migrateAbort' = FALSE
               \/ Fail(w) /\ UNCHANGED migrateAbort          \* fstat, lseek
    /\ UNCHANGED <<runVars, fd, open, mainVars, aioVars, devVars, history>>

\* The head of the loop and demu_migrate up to demu_checksend_demustate.
Pass(w) ==
    /\ pc[w] = "pass"
    /\ IF mode # "w_opened" THEN Goto(w, "cleanup") /\ UNCHANGED <<rec, wfd>>
       ELSE IF demuDirty
       THEN /\ Goto(w, "write")
            /\ rec' = [rec EXCEPT ![w] = "demu"] /\ wfd' = [wfd EXCEPT ![w] = fd]
       ELSE Goto(w, "vga") /\ UNCHANGED <<rec, wfd>>
    /\ stopped' = [stopped EXCEPT ![w] = @ \/ stopPosted]
    /\ UNCHANGED <<ok, runVars, fileVars, mainVars, aioVars, devVars, history>>

\* dump_vga copies the registers here, and clears the flag after the write.
DumpVga(w) ==
    /\ pc[w] = "vga"
    /\ IF vgaDirty THEN EnterWrite(w, "vga") /\ vgaFresh' = TRUE
       ELSE /\ Goto(w, "dump")
            /\ UNCHANGED <<rec, wfd, stopped, ok, vgaFresh>>
    /\ UNCHANGED <<runVars, fileVars, mainVars, aioVars, quiesced, ioreq, devLeft,
                   vgaDirty, demuDirty, history>>

\* do_vmiop_dump: the plugin hands over a record, or says it has none left.
VmiopDump(w) ==
    /\ pc[w] = "dump"
    /\ IF migrateAbort THEN Fail(w) /\ UNCHANGED devLeft
       ELSE IF devLeft > 0
       THEN EnterWrite(w, "vmiope") /\ devLeft' = devLeft - 1
       ELSE /\ Goto(w, IF stopped[w] THEN "finish" ELSE "wait")
            /\ UNCHANGED <<rec, wfd, stopped, ok, devLeft>>
    /\ UNCHANGED <<runVars, fileVars, mainVars, aioVars, quiesced, ioreq, vgaDirty,
                   vgaFresh, demuDirty, history>>

\* A record cannot be allocated, or the plugin returns an error.
Fault(w) ==
    /\ pc[w] \in {"vga", "dump", "finish"}
    /\ Fail(w)
    /\ UNCHANGED <<runVars, fileVars, mainVars, aioVars, devVars, history>>

\* Slip: the worker forgets that it was stopped.
WaitStopForgets(w) ==
    /\ pc[w] = "wait" /\ stopPosted
    /\ stopPosted' = FALSE
    /\ Goto(w, "pass")
    /\ UNCHANGED <<rec, wfd, stopped, ok, mig, paused, progress, initiator, fileVars,
                   mainVars, aioVars, devVars, history>>

WaitStop(w) ==
    /\ pc[w] = "wait" /\ stopPosted
    /\ stopPosted' = FALSE
    /\ stopped' = [stopped EXCEPT ![w] = TRUE]
    /\ Goto(w, "pass")
    /\ UNCHANGED <<rec, wfd, ok, mig, paused, progress, initiator, fileVars, mainVars,
                   aioVars, devVars, history>>

FinishMigrate(w) ==
    /\ pc[w] = "finish"
    /\ IF mode # "w_opened" THEN Fail(w) /\ UNCHANGED mode
       ELSE EnterWrite(w, "footer") /\ mode' = "not_ready"
    /\ UNCHANGED <<runVars, fd, migrateAbort, open, mainVars, aioVars, devVars, history>>

Flush(w) ==
    /\ pc[w] = "flush" /\ EnterWrite(w, "flush")
    /\ UNCHANGED <<runVars, fileVars, mainVars, aioVars, devVars, history>>

\* Slip: one record of the plugin is taken for all.
ThenFinish(r) == CASE r = "header" -> "pass"
                   [] r = "demu"   -> "vga"
                   [] r = "vga"    -> "dump"
                   [] r = "vmiope" -> "finish"
                   [] r = "footer" -> "flush"
                   [] r = "flush"  -> "cleanup"

\* Where the worker goes on when do_write has accepted record r.
Then(r) == CASE r = "header" -> "pass"
             [] r = "demu"   -> "vga"
             [] r = "vga"    -> "dump"
             [] r = "vmiope" -> "pass"
             [] r = "footer" -> "flush"
             [] r = "flush"  -> "cleanup"

\* The dirty flags after do_write: dump_vga clears its flag even if it failed.
ClearDirty(w, accepted) ==
    /\ vgaDirty' = (vgaDirty /\ rec[w] # "vga")
    /\ demuDirty' = (demuDirty /\ ~(accepted /\ rec[w] = "demu"))

\* Slip: do_write does not wait for the write in flight.
PreviousDoneUnchecked(w) == cb.fd # wfd[w] \/ cb.st # "failed"

\* do_write first collects the previous write, if it was to the same number.
PreviousDone(w) == cb.fd # wfd[w] \/ cb.st = "done"

WriteAccepted(w) ==
    /\ pc[w] = "write" /\ PreviousDone(w)
    /\ rec[w] # "flush" => ~migrateAbort
    /\ IF rec[w] = "flush"
       THEN /\ cb' = IF cb.fd = wfd[w] THEN NoCb ELSE cb
            /\ UNCHANGED orphan
       ELSE /\ cb' = [fd |-> wfd[w], st |-> "pending", rec |-> rec[w],
                      own |-> wfd[w] = fd /\ fd # None]
            /\ orphan' = (orphan \/ cb.st = "pending")
    /\ ReturnTo(w, Then(rec[w]))
    /\ ok' = [ok EXCEPT ![w] = rec[w] = "flush"]
    /\ ClearDirty(w, TRUE)
    /\ UNCHANGED <<stopped, runVars, fileVars, mainVars, stream, quiesced, ioreq,
                   devLeft, vgaFresh, history>>

\* The previous write failed or was short, and stays in current_cb; the abort
\* flag is up; aio_write refuses.
WriteFailed(w) ==
    /\ pc[w] = "write"
    /\ \/ cb.fd = wfd[w] /\ cb.st = "failed" /\ UNCHANGED <<cb, orphan>>
       \/ /\ PreviousDone(w) /\ rec[w] # "flush" /\ migrateAbort
          /\ cb' = IF cb.fd = wfd[w] THEN NoCb ELSE cb
          /\ UNCHANGED orphan
       \/ /\ PreviousDone(w) /\ rec[w] # "flush" /\ ~migrateAbort
          /\ cb' = Settled(wfd[w], "failed")
          /\ orphan' = (orphan \/ cb.st = "pending")
    /\ Fail(w) /\ ClearDirty(w, FALSE)
    /\ UNCHANGED <<runVars, fileVars, mainVars, stream, quiesced, ioreq, devLeft,
                   vgaFresh, history>>

\* A signal ends sem_wait or aio_suspend: the console's SIGRTMIN may reach any
\* thread.  The write in flight is abandoned.
Interrupted(w) ==
    /\ \/ pc[w] = "wait" /\ UNCHANGED <<vgaDirty, demuDirty>>
       \/ /\ pc[w] = "write" /\ cb.fd = wfd[w] /\ cb.st = "pending"
          /\ ClearDirty(w, FALSE)
    /\ Fail(w)
    /\ UNCHANGED <<runVars, fileVars, mainVars, aioVars, quiesced, ioreq, devLeft,
                   vgaFresh, history>>

Cleanup(w) ==
    /\ pc[w] = "cleanup"
    /\ CloseState /\ migrateAbort' = FALSE
    /\ Goto(w, "report")
    /\ UNCHANGED <<rec, wfd, stopped, ok, runVars, mainVars, orphan, stream, devVars,
                   history>>

\* The completion event for client c (bound: two are counted).
Tell(c) == told' = [told EXCEPT ![c] = IF @ = 2 THEN 2 ELSE @ + 1]

Report(w) ==
    /\ pc[w] = "report" /\ Goto(w, "report2")
    /\ IF progress # None THEN Tell(progress) ELSE UNCHANGED told
    /\ UNCHANGED <<rec, wfd, stopped, ok, runVars, fileVars, mainVars, aioVars, devVars,
                   aborted, clean, refused, moved>>

\* Slip: the two clients are not compared.
Report2Always(w) ==
    /\ pc[w] = "report2" /\ Goto(w, "exit")
    /\ Tell(initiator)
    /\ UNCHANGED <<rec, wfd, stopped, ok, runVars, fileVars, mainVars, aioVars, devVars,
                   aborted, clean, refused, moved>>

Report2(w) ==
    /\ pc[w] = "report2" /\ Goto(w, "exit")
    /\ IF progress # initiator THEN Tell(initiator) ELSE UNCHANGED told
    /\ UNCHANGED <<rec, wfd, stopped, ok, runVars, fileVars, mainVars, aioVars, devVars,
                   aborted, clean, refused, moved>>

\* The tail of do_migrate_live and do_migrate_nonlive, under the emp lock.
ThreadExit(w) ==
    /\ pc[w] = "exit" /\ handler = "none"
    /\ mig' = "not_init" /\ paused' = FALSE
    /\ Goto(w, "idle")
    /\ stopped' = [stopped EXCEPT ![w] = FALSE] /\ ok' = [ok EXCEPT ![w] = FALSE]
    /\ stream' = "new" /\ clean' = TRUE /\ moved' = FALSE
    /\ told' = [c \in Clients |-> 0]
    /\ UNCHANGED <<rec, wfd, stopPosted, progress, initiator, fileVars, mainVars, cb,
                   orphan, devVars, aborted, refused>>

-----------------------------------------------------------------------------
(* The aio library, the guest and the device.                              *)

AioDone ==
    /\ cb.st = "pending"
    /\ \/ /\ cb.fd # None
          /\ cb' = Settled(cb.fd, "done")
          /\ stream' = IF cb.own THEN Accept(stream, cb.rec) ELSE stream
       \/ cb' = Settled(cb.fd, "failed") /\ UNCHANGED stream
    /\ UNCHANGED <<runVars, fileVars, mainVars, locals, orphan, devVars, history>>

\* A write whose aiocb was reused completes into the new one.
OrphanDone ==
    /\ orphan /\ orphan' = FALSE
    /\ IF cb.st = "pending"
       THEN \E st \in {"done", "failed"} : cb' = Settled(cb.fd, st)
       ELSE UNCHANGED cb
    /\ UNCHANGED <<runVars, fileVars, mainVars, locals, stream, devVars, history>>

\* The main thread serves a VGA access of the guest.
GuestVgaWrite ==
    /\ main = "serve" /\ handler = "none" /\ ioreq
    /\ vgaDirty' = TRUE /\ vgaFresh' = FALSE
    /\ UNCHANGED <<runVars, fileVars, mainVars, locals, aioVars, quiesced, ioreq, devLeft,
                   demuDirty, history>>

\* A device that is not quiesced goes on changing what it has to hand over.
DeviceRuns ==
    /\ main = "serve" /\ ~quiesced /\ devLeft < MaxChunks
    /\ devLeft' = devLeft + 1
    /\ UNCHANGED <<runVars, fileVars, mainVars, locals, aioVars, quiesced, ioreq, vgaDirty,
                   vgaFresh, demuDirty, history>>

Worker(w) ==
    \/ StartMigrate(w) \/ Pass(w) \/ DumpVga(w) \/ VmiopDump(w) \/ WaitStop(w)
    \/ FinishMigrate(w) \/ Flush(w) \/ WriteAccepted(w) \/ WriteFailed(w)
    \/ Cleanup(w) \/ Report(w) \/ Report2(w) \/ ThreadExit(w)

Next ==
    \/ \E f \in Fds : MigrateInit(f)
    \/ \E w \in Workers, c \in Clients : MigrateLive(w, c) \/ MigrateNonlive(w, c)
    \/ MigratePause \/ PhaseStop \/ TrackDirty \/ MigrateAbort \/ AbortCleanup
    \/ \E c \in Clients : CmdProgress(c) \/ CmdRestore(c)
    \/ GetState \/ CmdQuit
    \/ \E w \in Workers : Worker(w) \/ Fault(w) \/ Interrupted(w)
    \/ AioDone \/ OrphanDone \/ GuestVgaWrite \/ DeviceRuns

Spec == Init /\ [][Next]_vars

\* A thread that can run does, the main thread finishes a handler, commands
\* leave the emp lock free long enough for a waiting thread to get it, and a
\* write in flight completes: the peer reads, or its end closes.
Fairness ==
    /\ \A w \in Workers : WF_vars(Worker(w)) /\ SF_vars(ThreadExit(w))
    /\ WF_vars(PhaseStop) /\ WF_vars(AbortCleanup) /\ WF_vars(AioDone)

FairSpec == Spec /\ Fairness

-----------------------------------------------------------------------------
(* Properties.                                                             *)

\* At most one thread runs migrate_loop, and it does so exactly while
\* runstate.mig says a migration is under way: check_mig is all that keeps two
\* workers from sharing current_cb and the state file.
OneWorker ==
    /\ \A v, w \in Workers : pc[v] # "idle" /\ pc[w] # "idle" => v = w
    /\ Running <=> \E w \in Workers : pc[w] # "idle"

\* What a worker reports when it is past cleanup.
Succeeded(w) == pc[w] \in {"report", "report2", "exit"} /\ ok[w]

\* A success that is reported is true: the file holds a header, then whole
\* records, then the footer, and no write is outstanding.  Left out are a
\* migration aborted while it ran (the abort may close the file between the
\* footer and the flush) and one begun over a write an earlier one abandoned.
SuccessIsWritten ==
    \A w \in Workers : Succeeded(w) /\ ~aborted /\ clean => stream = "closed"

\* A non-live migration that reports success took everything the plugin had
\* to hand over, if the device was still stopped.
NonliveIsComplete ==
    \A w \in Workers :
        Succeeded(w) /\ mig = "paused" /\ ~aborted /\ quiesced => devLeft = 0

\* Between migrations nothing is left of the last one, whatever way it ended
\* and whatever the abort did under it: the next init is accepted.  Only a
\* refused restore leaves the file open.
RestIsClean ==
    mig = "not_init" /\ ~refused =>
        mode = "not_ready" /\ fd = None /\ open = {} /\ ~migrateAbort

\* The client that started a migration hears of its end once, and nobody twice,
\* unless progress_cli changed between the two tests of migrate_loop.
CompletionToldOnce ==
    \A w \in Workers : pc[w] = "exit" /\ ~moved =>
        told[initiator] = 1 /\ \A c \in Clients : told[c] < 2

\* Once the device has been told to stop, or the semaphore was posted, the
\* migration ends.
StoppedMigrationEnds ==
    (mig = "live" /\ stopPosted) \/ (mig = "paused" /\ quiesced)
        ~> mig = "not_init"

\* control.c:298, "thread could be waiting for pause": an aborted live
\* migration comes to its end.
AbortEndsMigration == aborted /\ mig = "live" ~> mig = "not_init"

\* control.c:308, "If migrating, vmiope_notify_device is called when done": a
\* device whose migration was aborted is not left stopped.
AbortedDeviceResumes ==
    aborted /\ mig = "not_init" => ~quiesced

\* control.c:134, "vga may have changed, before stopped, so should try one last
\* time": with I/O stopped, a success means the last VGA record taken holds the
\* registers as they are.
LastPassTakesVga ==
    \A w \in Workers : Succeeded(w) /\ ~aborted /\ ~ioreq => vgaFresh
=============================================================================
