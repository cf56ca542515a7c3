-------------------------- MODULE MigrationProofs --------------------------
(***************************************************************************)
(* Proofs about Migration, for any number of threads, clients and          *)
(* descriptors.  Six invariants, each inductive relative to the ones       *)
(* before it: the types; that the worker owns runstate.mig; that the state *)
(* file follows runstate.mig; that the file holds what the worker's place  *)
(* says; that a migration which is not live drains the device; and that    *)
(* who asked is told of the end once.                                      *)
(***************************************************************************)
EXTENDS Migration, TLAPS

PastCleanup(w) == pc[w] \in {"report", "report2", "exit"}

\* OneWorker, and what keeps GetState from ending a migration.
OwnerInv ==
    /\ OneWorker
    /\ resuming = "ready" => mig = "restore"

\* The section is closed with a file, or not ready without one.
Shut == mode = "not_ready" /\ fd = None
Armed == mode = "closed" /\ fd # None

FileInv ==
    /\ refused => mig = "not_init" /\ mode = "closed"
    /\ ~refused => open = {fd} \ {None}
    /\ mig = "not_init" /\ ~refused => Shut
    /\ mig \in {"init", "track", "restore"} => Shut \/ Armed
    /\ migrateAbort => Running
    /\ \A w \in Workers : PastCleanup(w) =>
        Shut /\ (migrateAbort => handler = "abort")

\* The present file will read as s once the write in flight is done, or the
\* next do_write fails.
Reads(s) ==
    \/ cb.st = "pending" /\ cb.own /\ cb.fd = fd /\ Accept(stream, cb.rec) = s
    \/ cb.st = "done" /\ stream = s
    \/ cb.st = "failed" /\ cb.fd = fd

Opened(w) ==
    \/ pc[w] \in {"pass", "vga", "dump", "wait", "finish"}
    \/ pc[w] = "write" /\ rec[w] \in {"demu", "vga", "vmiope", "footer"}
Closing(w) == pc[w] = "flush" \/ (pc[w] = "write" /\ rec[w] = "flush")
Starting(w) == pc[w] = "start" \/ (pc[w] = "write" /\ rec[w] = "header")

WriteInv ==
    /\ handler = "abort" /\ Running => aborted
    /\ ~Running => stream = "new" /\ ~cb.own
    /\ \A w \in Workers :
        /\ ok[w] => pc[w] = "cleanup" \/ PastCleanup(w)
        /\ PastCleanup(w) => ~cb.own
        /\ ok[w] /\ ~aborted /\ clean => stream = "closed" /\ cb.st # "pending"
    /\ mig \in {"init", "track", "restore"} /\ clean => cb.st # "pending" /\ ~orphan
    /\ ~aborted /\ clean => \A w \in Workers :
        /\ Starting(w) => stream = "new" /\ cb.st # "pending" /\ ~orphan
        /\ Opened(w) => Reads("open")
        /\ Closing(w) => Reads("closed")
        /\ pc[w] = "write" => wfd[w] = fd
        /\ Opened(w) \/ Closing(w) \/ pc[w] = "write" => fd # None /\ ~orphan

-----------------------------------------------------------------------------
LEMMA SettledType ==
    ASSUME NEW f \in Fds \cup {None, "unused"},
           NEW st \in {"pending", "done", "failed"}
    PROVE  Settled(f, st) \in Cbs
  BY DEF Settled, Cbs, Records

LEMMA TypeStep == TypeOK /\ [Next]_vars => TypeOK'
  <1> SUFFICES ASSUME TypeOK, [Next]_vars PROVE TypeOK'
    OBVIOUS
  <1> USE ConstAssumption
  <1>1. ASSUME NEW f \in Fds, MigrateInit(f) PROVE TypeOK'
    <2>1. RunType'
      BY <1>1 DEF TypeOK, RunType, MigrateInit, MigStates, runVars
    <2>2. FileType'
      BY <1>1 DEF TypeOK, FileType, MigrateInit, Modes, fileVars
    <2>3. DevType'
      BY <1>1 DEF TypeOK, DevType, MigrateInit, devVars
    <2>4. HistoryType'
      BY <1>1 DEF TypeOK, HistoryType, MigrateInit, history
    <2>5. MainType' /\ LocalType' /\ AioType'
      BY <1>1 DEF TypeOK, MigrateInit, MainType, mainVars, LocalType, locals,
         AioType, aioVars
    <2>6. QED
      BY <2>1, <2>2, <2>3, <2>4, <2>5 DEF TypeOK
  <1>2. ASSUME NEW w \in Workers, NEW c \in Clients, MigrateLive(w, c) PROVE TypeOK'
    <2>1. RunType'
      BY <1>2 DEF TypeOK, RunType, MigrateLive, MigStates, runVars, Spawn
    <2>2. LocalType'
      BY <1>2 DEF TypeOK, LocalType, MigrateLive, Places, Records, locals, Spawn
    <2>3. FileType' /\ MainType' /\ AioType' /\ DevType' /\ HistoryType'
      BY <1>2 DEF TypeOK, MigrateLive, FileType, fileVars, MainType, mainVars,
         AioType, aioVars, DevType, devVars, HistoryType, history
    <2>4. QED
      BY <2>1, <2>2, <2>3 DEF TypeOK
  <1>3. ASSUME NEW w \in Workers, NEW c \in Clients, MigrateNonlive(w, c) PROVE TypeOK'
    <2>1. RunType'
      BY <1>3 DEF TypeOK, RunType, MigrateNonlive, MigStates, runVars, Spawn
    <2>2. LocalType'
      BY <1>3 DEF TypeOK, LocalType, MigrateNonlive, Places, Records, locals,
         Spawn
    <2>3. FileType' /\ MainType' /\ AioType' /\ DevType' /\ HistoryType'
      BY <1>3 DEF TypeOK, MigrateNonlive, FileType, fileVars, MainType,
         mainVars, AioType, aioVars, DevType, devVars, HistoryType, history
    <2>4. QED
      BY <2>1, <2>2, <2>3 DEF TypeOK
  <1>4. CASE MigratePause
    <2>1. RunType'
      BY <1>4 DEF TypeOK, RunType, MigratePause, MigStates, runVars
    <2>2. MainType'
      BY <1>4 DEF TypeOK, MainType, MigratePause, mainVars
    <2>3. FileType' /\ LocalType' /\ AioType' /\ DevType' /\ HistoryType'
      BY <1>4 DEF TypeOK, MigratePause, FileType, fileVars, LocalType, locals,
         AioType, aioVars, DevType, devVars, HistoryType, history
    <2>4. QED
      BY <2>1, <2>2, <2>3 DEF TypeOK
  <1>5. CASE PhaseStop
    <2>1. MainType'
      BY <1>5 DEF TypeOK, MainType, PhaseStop, mainVars
    <2>2. DevType'
      BY <1>5 DEF TypeOK, DevType, PhaseStop, devVars
    <2>3. RunType' /\ FileType' /\ LocalType' /\ AioType' /\ HistoryType'
      BY <1>5 DEF TypeOK, PhaseStop, RunType, runVars, FileType, fileVars,
         LocalType, locals, AioType, aioVars, HistoryType, history
    <2>4. QED
      BY <2>1, <2>2, <2>3 DEF TypeOK
  <1>6. CASE TrackDirty
    <2>1. RunType'
      BY <1>6 DEF TypeOK, RunType, TrackDirty, MigStates, runVars
    <2>2. DevType'
      BY <1>6 DEF TypeOK, DevType, TrackDirty, devVars
    <2>3. FileType' /\ MainType' /\ LocalType' /\ AioType' /\ HistoryType'
      BY <1>6 DEF TypeOK, TrackDirty, FileType, fileVars, MainType, mainVars,
         LocalType, locals, AioType, aioVars, HistoryType, history
    <2>4. QED
      BY <2>1, <2>2, <2>3 DEF TypeOK
  <1>7. CASE MigrateAbort
    <2>1. RunType'
      BY <1>7 DEF TypeOK, RunType, MigrateAbort, MigStates, runVars
    <2>2. FileType'
      BY <1>7 DEF TypeOK, FileType, MigrateAbort, Modes, fileVars
    <2>3. MainType'
      BY <1>7 DEF TypeOK, MainType, MigrateAbort, mainVars
    <2>4. DevType'
      BY <1>7 DEF TypeOK, DevType, MigrateAbort, devVars
    <2>5. HistoryType'
      BY <1>7 DEF TypeOK, HistoryType, MigrateAbort, history
    <2>6. LocalType' /\ AioType'
      BY <1>7 DEF TypeOK, MigrateAbort, LocalType, locals, AioType, aioVars
    <2>7. QED
      BY <2>1, <2>2, <2>3, <2>4, <2>5, <2>6 DEF TypeOK
  <1>8. CASE AbortCleanup
    <2>1. RunType'
      BY <1>8 DEF TypeOK, RunType, AbortCleanup, MigStates, runVars, CloseState
    <2>2. FileType'
      BY <1>8 DEF TypeOK, FileType, AbortCleanup, Modes, fileVars, CloseState
    <2>3. MainType'
      BY <1>8 DEF TypeOK, MainType, AbortCleanup, mainVars, CloseState
    <2>4. AioType'
      BY <1>8 DEF TypeOK, AioType, AbortCleanup, Cbs, Records, aioVars,
         CloseState
    <2>5. DevType'
      BY <1>8 DEF TypeOK, DevType, AbortCleanup, devVars, CloseState
    <2>6. LocalType' /\ HistoryType'
      BY <1>8 DEF TypeOK, AbortCleanup, LocalType, locals, HistoryType, history
    <2>7. QED
      BY <2>1, <2>2, <2>3, <2>4, <2>5, <2>6 DEF TypeOK
  <1>9. ASSUME NEW c \in Clients, CmdProgress(c) PROVE TypeOK'
    <2>1. RunType'
      BY <1>9 DEF TypeOK, RunType, CmdProgress, MigStates, runVars
    <2>2. HistoryType'
      BY <1>9 DEF TypeOK, HistoryType, CmdProgress, history
    <2>3. FileType' /\ MainType' /\ LocalType' /\ AioType' /\ DevType'
      BY <1>9 DEF TypeOK, CmdProgress, FileType, fileVars, MainType, mainVars,
         LocalType, locals, AioType, aioVars, DevType, devVars
    <2>4. QED
      BY <2>1, <2>2, <2>3 DEF TypeOK
  <1>10. ASSUME NEW c \in Clients, CmdRestore(c) PROVE TypeOK'
    <2>1. RunType'
      BY <1>10 DEF TypeOK, RunType, CmdRestore, MigStates, runVars
    <2>2. MainType'
      BY <1>10 DEF TypeOK, MainType, CmdRestore, mainVars
    <2>3. HistoryType'
      BY <1>10 DEF TypeOK, HistoryType, CmdRestore, history
    <2>4. FileType' /\ LocalType' /\ AioType' /\ DevType'
      BY <1>10 DEF TypeOK, CmdRestore, FileType, fileVars, LocalType, locals,
         AioType, aioVars, DevType, devVars
    <2>5. QED
      BY <2>1, <2>2, <2>3, <2>4 DEF TypeOK
  <1>11. CASE GetState
    <2>1. RunType'
      BY <1>11 DEF TypeOK, RunType, GetState, MigStates, runVars, CloseState
    <2>2. FileType'
      BY <1>11 DEF TypeOK, FileType, GetState, Modes, fileVars, CloseState
    <2>3. MainType'
      BY <1>11 DEF TypeOK, MainType, GetState, mainVars, CloseState
    <2>4. AioType'
      BY <1>11 DEF TypeOK, AioType, GetState, Cbs, Records, aioVars, CloseState
    <2>5. DevType'
      BY <1>11 DEF TypeOK, DevType, GetState, devVars, CloseState
    <2>6. LocalType' /\ HistoryType'
      BY <1>11 DEF TypeOK, GetState, LocalType, locals, HistoryType, history
    <2>7. QED
      BY <2>1, <2>2, <2>3, <2>4, <2>5, <2>6 DEF TypeOK
  <1>12. CASE CmdQuit
    <2>1. MainType'
      BY <1>12 DEF TypeOK, MainType, CmdQuit, mainVars
    <2>2. RunType' /\ FileType' /\ LocalType' /\ AioType' /\ DevType' /\
       HistoryType'
      BY <1>12 DEF TypeOK, CmdQuit, RunType, runVars, FileType, fileVars,
         LocalType, locals, AioType, aioVars, DevType, devVars, HistoryType,
         history
    <2>3. QED
      BY <2>1, <2>2 DEF TypeOK
  <1>13. ASSUME NEW w \in Workers, StartMigrate(w) PROVE TypeOK'
    <2>1. FileType'
      BY <1>13 DEF TypeOK, FileType, StartMigrate, Modes, fileVars, EnterWrite,
         Fail, ReturnTo, Goto
    <2>2. LocalType'
      BY <1>13 DEF TypeOK, LocalType, StartMigrate, Places, Records, locals,
         EnterWrite, Fail, ReturnTo, Goto, FileType
    <2>3. RunType' /\ MainType' /\ AioType' /\ DevType' /\ HistoryType'
      BY <1>13 DEF TypeOK, StartMigrate, RunType, runVars, MainType, mainVars,
         AioType, aioVars, DevType, devVars, HistoryType, history
    <2>4. QED
      BY <2>1, <2>2, <2>3 DEF TypeOK
  <1>14. ASSUME NEW w \in Workers, Pass(w) PROVE TypeOK'
    <2>1. LocalType'
      BY <1>14 DEF TypeOK, LocalType, Pass, Places, Records, locals, Goto,
         FileType, RunType
    <2>2. RunType' /\ FileType' /\ MainType' /\ AioType' /\ DevType' /\
       HistoryType'
      BY <1>14 DEF TypeOK, Pass, RunType, runVars, FileType, fileVars, MainType,
         mainVars, AioType, aioVars, DevType, devVars, HistoryType, history
    <2>3. QED
      BY <2>1, <2>2 DEF TypeOK
  <1>15. ASSUME NEW w \in Workers, DumpVga(w) PROVE TypeOK'
    <2>1. LocalType'
      BY <1>15 DEF TypeOK, LocalType, DumpVga, Places, Records, locals,
         EnterWrite, Goto, FileType
    <2>2. DevType'
      BY <1>15 DEF TypeOK, DevType, DumpVga, devVars, EnterWrite, Goto
    <2>3. RunType' /\ FileType' /\ MainType' /\ AioType' /\ HistoryType'
      BY <1>15 DEF TypeOK, DumpVga, RunType, runVars, FileType, fileVars,
         MainType, mainVars, AioType, aioVars, HistoryType, history
    <2>4. QED
      BY <2>1, <2>2, <2>3 DEF TypeOK
  <1>16. ASSUME NEW w \in Workers, VmiopDump(w) PROVE TypeOK'
    <2>1. LocalType'
      BY <1>16 DEF TypeOK, LocalType, VmiopDump, Places, Records, locals,
         EnterWrite, Fail, ReturnTo, Goto, FileType
    <2>2. DevType'
      BY <1>16 DEF TypeOK, DevType, VmiopDump, devVars, EnterWrite, Fail,
         ReturnTo, Goto
    <2>3. RunType' /\ FileType' /\ MainType' /\ AioType' /\ HistoryType'
      BY <1>16 DEF TypeOK, VmiopDump, RunType, runVars, FileType, fileVars,
         MainType, mainVars, AioType, aioVars, HistoryType, history
    <2>4. QED
      BY <2>1, <2>2, <2>3 DEF TypeOK
  <1>17. ASSUME NEW w \in Workers, WaitStop(w) PROVE TypeOK'
    <2>1. RunType'
      BY <1>17 DEF TypeOK, RunType, WaitStop, MigStates, runVars, Goto
    <2>2. LocalType'
      BY <1>17 DEF TypeOK, LocalType, WaitStop, Places, Records, locals, Goto
    <2>3. FileType' /\ MainType' /\ AioType' /\ DevType' /\ HistoryType'
      BY <1>17 DEF TypeOK, WaitStop, FileType, fileVars, MainType, mainVars,
         AioType, aioVars, DevType, devVars, HistoryType, history
    <2>4. QED
      BY <2>1, <2>2, <2>3 DEF TypeOK
  <1>18. ASSUME NEW w \in Workers, FinishMigrate(w) PROVE TypeOK'
    <2>1. FileType'
      BY <1>18 DEF TypeOK, FileType, FinishMigrate, Modes, fileVars, EnterWrite,
         Fail, ReturnTo, Goto
    <2>2. LocalType'
      BY <1>18 DEF TypeOK, LocalType, FinishMigrate, Places, Records, locals,
         EnterWrite, Fail, ReturnTo, Goto, FileType
    <2>3. RunType' /\ MainType' /\ AioType' /\ DevType' /\ HistoryType'
      BY <1>18 DEF TypeOK, FinishMigrate, RunType, runVars, MainType, mainVars,
         AioType, aioVars, DevType, devVars, HistoryType, history
    <2>4. QED
      BY <2>1, <2>2, <2>3 DEF TypeOK
  <1>19. ASSUME NEW w \in Workers, Flush(w) PROVE TypeOK'
    <2>1. LocalType'
      BY <1>19 DEF TypeOK, LocalType, Flush, Places, Records, locals,
         EnterWrite, Goto, FileType
    <2>2. RunType' /\ FileType' /\ MainType' /\ AioType' /\ DevType' /\
       HistoryType'
      BY <1>19 DEF TypeOK, Flush, RunType, runVars, FileType, fileVars,
         MainType, mainVars, AioType, aioVars, DevType, devVars, HistoryType,
         history
    <2>3. QED
      BY <2>1, <2>2 DEF TypeOK
  <1>20. ASSUME NEW w \in Workers, WriteAccepted(w) PROVE TypeOK'
    <2>1. LocalType'
      BY <1>20 DEF TypeOK, LocalType, WriteAccepted, Places, Records, locals,
         ReturnTo, Then, ClearDirty, Goto, NoCb, Settled
    <2>2. AioType'
      <3>1. NoCb \in Cbs
        BY SettledType DEF NoCb
      <3>2. [fd |-> wfd[w], st |-> "pending", rec |-> rec[w],
             own |-> wfd[w] = fd /\ fd # None] \in Cbs
        BY <1>20 DEF TypeOK, LocalType, Cbs
      <3>3. cb' \in Cbs
        BY <1>20, <3>1, <3>2 DEF TypeOK, AioType, WriteAccepted
      <3>4. orphan' \in BOOLEAN
        BY <1>20, Zenon DEF TypeOK, AioType, WriteAccepted
      <3>5. QED
        BY <1>20, <3>3, <3>4 DEF TypeOK, AioType, WriteAccepted
    <2>3. DevType'
      BY <1>20 DEF TypeOK, DevType, WriteAccepted, devVars, ReturnTo, Then,
         ClearDirty, Goto, NoCb, Settled
    <2>4. RunType' /\ FileType' /\ MainType' /\ HistoryType'
      BY <1>20 DEF TypeOK, WriteAccepted, RunType, runVars, FileType, fileVars,
         MainType, mainVars, HistoryType, history
    <2>5. QED
      BY <2>1, <2>2, <2>3, <2>4 DEF TypeOK
  <1>21. ASSUME NEW w \in Workers, WriteFailed(w) PROVE TypeOK'
    <2>1. LocalType'
      BY <1>21 DEF TypeOK, LocalType, WriteFailed, Places, Records, locals,
         Fail, ReturnTo, ClearDirty, Goto, NoCb, Settled
    <2>2. AioType'
      <3>1. NoCb \in Cbs /\ Settled(wfd[w], "failed") \in Cbs
        BY SettledType DEF NoCb, TypeOK, LocalType
      <3>2. cb' \in Cbs
        BY <1>21, <3>1 DEF TypeOK, AioType, WriteFailed
      <3>3. orphan' \in BOOLEAN
        BY <1>21, Zenon DEF TypeOK, AioType, WriteFailed
      <3>4. QED
        BY <1>21, <3>2, <3>3 DEF TypeOK, AioType, WriteFailed
    <2>3. DevType'
      BY <1>21 DEF TypeOK, DevType, WriteFailed, devVars, Fail, ReturnTo,
         ClearDirty, Goto, NoCb, Settled
    <2>4. RunType' /\ FileType' /\ MainType' /\ HistoryType'
      BY <1>21 DEF TypeOK, WriteFailed, RunType, runVars, FileType, fileVars,
         MainType, mainVars, HistoryType, history
    <2>5. QED
      BY <2>1, <2>2, <2>3, <2>4 DEF TypeOK
  <1>22. ASSUME NEW w \in Workers, Cleanup(w) PROVE TypeOK'
    <2>1. FileType'
      BY <1>22 DEF TypeOK, FileType, Cleanup, Modes, fileVars, CloseState, Goto
    <2>2. LocalType'
      BY <1>22 DEF TypeOK, LocalType, Cleanup, Places, Records, locals,
         CloseState, Goto
    <2>3. AioType'
      BY <1>22 DEF TypeOK, AioType, Cleanup, Cbs, Records, aioVars, CloseState,
         Goto
    <2>4. RunType' /\ MainType' /\ DevType' /\ HistoryType'
      BY <1>22 DEF TypeOK, Cleanup, RunType, runVars, MainType, mainVars,
         DevType, devVars, HistoryType, history
    <2>5. QED
      BY <2>1, <2>2, <2>3, <2>4 DEF TypeOK
  <1>23. ASSUME NEW w \in Workers, Report(w) PROVE TypeOK'
    <2>1. LocalType'
      BY <1>23 DEF TypeOK, LocalType, Report, Places, Records, locals, Tell,
         Goto
    <2>2. HistoryType'
      BY <1>23 DEF TypeOK, HistoryType, Report, history, Tell, Goto
    <2>3. RunType' /\ FileType' /\ MainType' /\ AioType' /\ DevType'
      BY <1>23 DEF TypeOK, Report, RunType, runVars, FileType, fileVars,
         MainType, mainVars, AioType, aioVars, DevType, devVars
    <2>4. QED
      BY <2>1, <2>2, <2>3 DEF TypeOK
  <1>24. ASSUME NEW w \in Workers, Report2(w) PROVE TypeOK'
    <2>1. LocalType'
      BY <1>24 DEF TypeOK, LocalType, Report2, Places, Records, locals, Tell,
         Goto
    <2>2. HistoryType'
      BY <1>24 DEF TypeOK, HistoryType, Report2, history, Tell, Goto
    <2>3. RunType' /\ FileType' /\ MainType' /\ AioType' /\ DevType'
      BY <1>24 DEF TypeOK, Report2, RunType, runVars, FileType, fileVars,
         MainType, mainVars, AioType, aioVars, DevType, devVars
    <2>4. QED
      BY <2>1, <2>2, <2>3 DEF TypeOK
  <1>25. ASSUME NEW w \in Workers, ThreadExit(w) PROVE TypeOK'
    <2>1. RunType'
      BY <1>25 DEF TypeOK, RunType, ThreadExit, MigStates, runVars, Goto
    <2>2. LocalType'
      BY <1>25 DEF TypeOK, LocalType, ThreadExit, Places, Records, locals, Goto
    <2>3. AioType'
      BY <1>25 DEF TypeOK, AioType, ThreadExit, Cbs, Records, aioVars, Goto
    <2>4. HistoryType'
      <3>1. told' \in [Clients -> 0..2]
        BY <1>25 DEF ThreadExit
      <3>2. QED
        BY <1>25, <3>1 DEF TypeOK, HistoryType, ThreadExit
    <2>5. FileType' /\ MainType' /\ DevType'
      BY <1>25 DEF TypeOK, ThreadExit, FileType, fileVars, MainType, mainVars,
         DevType, devVars
    <2>6. QED
      BY <2>1, <2>2, <2>3, <2>4, <2>5 DEF TypeOK
  <1>26. ASSUME NEW w \in Workers, Fault(w) PROVE TypeOK'
    <2>1. LocalType'
      BY <1>26 DEF TypeOK, LocalType, Fault, Places, Records, locals, Fail,
         ReturnTo, Goto
    <2>2. RunType' /\ FileType' /\ MainType' /\ AioType' /\ DevType' /\
       HistoryType'
      BY <1>26 DEF TypeOK, Fault, RunType, runVars, FileType, fileVars,
         MainType, mainVars, AioType, aioVars, DevType, devVars, HistoryType,
         history
    <2>3. QED
      BY <2>1, <2>2 DEF TypeOK
  <1>27. ASSUME NEW w \in Workers, Interrupted(w) PROVE TypeOK'
    <2>1. LocalType'
      BY <1>27 DEF TypeOK, LocalType, Interrupted, Places, Records, locals,
         Fail, ReturnTo, ClearDirty, Goto
    <2>2. DevType'
      BY <1>27 DEF TypeOK, DevType, Interrupted, devVars, Fail, ReturnTo,
         ClearDirty, Goto
    <2>3. RunType' /\ FileType' /\ MainType' /\ AioType' /\ HistoryType'
      BY <1>27 DEF TypeOK, Interrupted, RunType, runVars, FileType, fileVars,
         MainType, mainVars, AioType, aioVars, HistoryType, history
    <2>4. QED
      BY <2>1, <2>2, <2>3 DEF TypeOK
  <1>28. CASE AioDone
    <2>1. AioType'
      <3>1. Settled(cb.fd, "done") \in Cbs /\ Settled(cb.fd, "failed") \in Cbs
        BY SettledType DEF TypeOK, AioType, Cbs
      <3>2. stream' \in {"new", "open", "closed", "bad"}
        BY <1>28 DEF TypeOK, AioType, AioDone, Accept
      <3>3. QED
        BY <1>28, <3>1, <3>2 DEF TypeOK, AioType, AioDone
    <2>2. RunType' /\ FileType' /\ MainType' /\ LocalType' /\ DevType' /\
       HistoryType'
      BY <1>28 DEF TypeOK, AioDone, RunType, runVars, FileType, fileVars,
         MainType, mainVars, LocalType, locals, DevType, devVars, HistoryType,
         history
    <2>3. QED
      BY <2>1, <2>2 DEF TypeOK
  <1>29. CASE OrphanDone
    <2>1. AioType'
      <3>1. \A st \in {"done", "failed"} : Settled(cb.fd, st) \in Cbs
        BY SettledType DEF TypeOK, AioType, Cbs
      <3>2. QED
        BY <1>29, <3>1 DEF TypeOK, AioType, OrphanDone
    <2>2. RunType' /\ FileType' /\ MainType' /\ LocalType' /\ DevType' /\
       HistoryType'
      BY <1>29 DEF TypeOK, OrphanDone, RunType, runVars, FileType, fileVars,
         MainType, mainVars, LocalType, locals, DevType, devVars, HistoryType,
         history
    <2>3. QED
      BY <2>1, <2>2 DEF TypeOK
  <1>30. CASE GuestVgaWrite
    <2>1. DevType'
      BY <1>30 DEF TypeOK, DevType, GuestVgaWrite, devVars
    <2>2. RunType' /\ FileType' /\ MainType' /\ LocalType' /\ AioType' /\
       HistoryType'
      BY <1>30 DEF TypeOK, GuestVgaWrite, RunType, runVars, FileType, fileVars,
         MainType, mainVars, LocalType, locals, AioType, aioVars, HistoryType,
         history
    <2>3. QED
      BY <2>1, <2>2 DEF TypeOK
  <1>31. CASE DeviceRuns
    <2>1. DevType'
      BY <1>31 DEF TypeOK, DevType, DeviceRuns, devVars
    <2>2. RunType' /\ FileType' /\ MainType' /\ LocalType' /\ AioType' /\
       HistoryType'
      BY <1>31 DEF TypeOK, DeviceRuns, RunType, runVars, FileType, fileVars,
         MainType, mainVars, LocalType, locals, AioType, aioVars, HistoryType,
         history
    <2>3. QED
      BY <2>1, <2>2 DEF TypeOK
  <1>32. CASE UNCHANGED vars
    BY <1>32 DEF vars, TypeOK, RunType, runVars, FileType, fileVars, MainType,
       mainVars, LocalType, locals, AioType, aioVars, DevType, devVars,
       HistoryType, history
  <1>33. QED
    BY <1>1, <1>2, <1>3, <1>4, <1>5, <1>6, <1>7, <1>8, <1>9, <1>10, <1>11,
       <1>12, <1>13, <1>14, <1>15, <1>16, <1>17, <1>18, <1>19, <1>20, <1>21,
       <1>22, <1>23, <1>24, <1>25, <1>26, <1>27, <1>28, <1>29, <1>30, <1>31,
       <1>32 DEF Next, Worker

\* Every variable keeps its type.
THEOREM TypeCorrect == Spec => []TypeOK
  <1>1. Init => TypeOK
    <2> SUFFICES ASSUME Init PROVE TypeOK
      OBVIOUS
    <2> USE ConstAssumption DEF Init
    <2>1. RunType /\ FileType /\ MainType
      BY DEF RunType, FileType, MainType, MigStates, Modes
    <2>2. LocalType
      BY DEF LocalType, Places, Records
    <2>3. AioType
      BY SettledType DEF AioType, NoCb
    <2>4. DevType /\ HistoryType
      <3>1. devLeft \in 0..MaxChunks
        BY DEF ConstAssumption
      <3>2. DevType
        BY <3>1, Zenon DEF DevType
      <3>3. told \in [Clients -> 0..2]
        OBVIOUS
      <3>4. HistoryType
        BY <3>3, Zenon DEF HistoryType
      <3>5. QED
        BY <3>2, <3>4
    <2>5. QED
      BY <2>1, <2>2, <2>3, <2>4 DEF TypeOK
  <1>2. QED
    BY <1>1, TypeStep, PTL DEF Spec

-----------------------------------------------------------------------------
\* A step that starts and ends no worker, and leaves runstate.mig on its side.
LEMMA OwnerKept ==
    ASSUME TypeOK, OwnerInv, Running' <=> Running,
           resuming' = "ready" => mig' = "restore",
           \A w \in Workers : (pc[w] = "idle") <=> (pc'[w] = "idle")
    PROVE  OwnerInv'
  BY DEF OwnerInv, OneWorker

LEMMA OwnerStep == TypeOK /\ OwnerInv /\ [Next]_vars => OwnerInv'
  <1> SUFFICES ASSUME TypeOK, OwnerInv, [Next]_vars PROVE OwnerInv'
    OBVIOUS
  <1>0. pc \in [Workers -> Places] /\ (resuming = "ready" => mig = "restore")
    BY DEF TypeOK, LocalType, OwnerInv
  <1>1. ASSUME NEW f \in Fds, MigrateInit(f) PROVE OwnerInv'
    BY <1>0, <1>1, OwnerKept DEF MigrateInit, Running, mainVars, locals
  <1>2. ASSUME NEW w \in Workers, NEW c \in Clients, MigrateLive(w, c) PROVE OwnerInv'
    <2>1. ~Running /\ Running' /\ mig # "restore" /\ resuming' = resuming
      BY <1>2 DEF MigrateLive, CheckMig, Running, mainVars
    <2>2. \A v \in Workers : pc[v] = "idle"
      BY <2>1 DEF OwnerInv, OneWorker
    <2>3. \A v \in Workers : pc'[v] # "idle" <=> v = w
      BY <1>0, <1>2, <2>2 DEF MigrateLive, Spawn
    <2>4. QED
      BY <1>0, <2>1, <2>3 DEF OwnerInv, OneWorker
  <1>3. ASSUME NEW w \in Workers, NEW c \in Clients, MigrateNonlive(w, c) PROVE OwnerInv'
    <2>1. ~Running /\ Running' /\ mig # "restore" /\ resuming' = resuming
      BY <1>3 DEF MigrateNonlive, CheckMig, Running, mainVars
    <2>2. \A v \in Workers : pc[v] = "idle"
      BY <2>1 DEF OwnerInv, OneWorker
    <2>3. \A v \in Workers : pc'[v] # "idle" <=> v = w
      BY <1>0, <1>3, <2>2 DEF MigrateNonlive, Spawn
    <2>4. QED
      BY <1>0, <2>1, <2>3 DEF OwnerInv, OneWorker
  <1>4. CASE MigratePause
    BY <1>0, <1>4, OwnerKept DEF MigratePause, Running, locals
  <1>5. CASE PhaseStop
    BY <1>0, <1>5, OwnerKept DEF PhaseStop, Running, runVars, locals
  <1>6. CASE TrackDirty
    BY <1>0, <1>6, OwnerKept DEF TrackDirty, CheckMig, Running, mainVars, locals
  <1>7. CASE MigrateAbort
    BY <1>0, <1>7, OwnerKept DEF MigrateAbort, Running, locals
  <1>8. CASE AbortCleanup
    BY <1>0, <1>8, OwnerKept DEF AbortCleanup, CloseState, Running, locals
  <1>9. ASSUME NEW c \in Clients, CmdProgress(c) PROVE OwnerInv'
    BY <1>0, <1>9, OwnerKept DEF CmdProgress, Running, mainVars, locals
  <1>10. ASSUME NEW c \in Clients, CmdRestore(c) PROVE OwnerInv'
    BY <1>0, <1>10, OwnerKept DEF CmdRestore, CheckMig, Running, locals
  <1>11. CASE GetState
    BY <1>0, <1>11, OwnerKept DEF GetState, CloseState, Running, locals
  <1>12. CASE CmdQuit
    BY <1>0, <1>12, OwnerKept DEF CmdQuit, Running, runVars, locals
  <1>13. ASSUME NEW w \in Workers, StartMigrate(w) PROVE OwnerInv'
    BY <1>0, <1>13, OwnerKept DEF StartMigrate, EnterWrite, Fail, ReturnTo,
       Goto, Running, runVars, mainVars
  <1>14. ASSUME NEW w \in Workers, Pass(w) PROVE OwnerInv'
    BY <1>0, <1>14, OwnerKept DEF Pass, Goto, Running, runVars, mainVars
  <1>15. ASSUME NEW w \in Workers, DumpVga(w) PROVE OwnerInv'
    BY <1>0, <1>15, OwnerKept DEF DumpVga, EnterWrite, Goto, Running, runVars,
       mainVars
  <1>16. ASSUME NEW w \in Workers, VmiopDump(w) PROVE OwnerInv'
    BY <1>0, <1>16, OwnerKept DEF VmiopDump, EnterWrite, Fail, ReturnTo, Goto,
       Running, runVars, mainVars
  <1>17. ASSUME NEW w \in Workers, WaitStop(w) PROVE OwnerInv'
    BY <1>0, <1>17, OwnerKept DEF WaitStop, Goto, Running, mainVars
  <1>18. ASSUME NEW w \in Workers, FinishMigrate(w) PROVE OwnerInv'
    BY <1>0, <1>18, OwnerKept DEF FinishMigrate, EnterWrite, Fail, ReturnTo,
       Goto, Running, runVars, mainVars
  <1>19. ASSUME NEW w \in Workers, Flush(w) PROVE OwnerInv'
    BY <1>0, <1>19, OwnerKept DEF Flush, EnterWrite, Goto, Running, runVars,
       mainVars
  <1>20. ASSUME NEW w \in Workers, WriteAccepted(w) PROVE OwnerInv'
    <2>1. Then(rec[w]) # "idle"
      BY DEF Then, TypeOK, LocalType, Records
    <2>2. QED
      BY <1>0, <1>20, <2>1, OwnerKept DEF WriteAccepted, ReturnTo, Goto, Running,
         runVars, mainVars
  <1>21. ASSUME NEW w \in Workers, WriteFailed(w) PROVE OwnerInv'
    BY <1>0, <1>21, OwnerKept DEF WriteFailed, Fail, ReturnTo, ClearDirty, Goto,
       NoCb, Settled, Running, runVars, mainVars
  <1>22. ASSUME NEW w \in Workers, Cleanup(w) PROVE OwnerInv'
    BY <1>0, <1>22, OwnerKept DEF Cleanup, CloseState, Goto, Running, runVars,
       mainVars
  <1>23. ASSUME NEW w \in Workers, Report(w) PROVE OwnerInv'
    BY <1>0, <1>23, OwnerKept DEF Report, Tell, Goto, Running, runVars, mainVars
  <1>24. ASSUME NEW w \in Workers, Report2(w) PROVE OwnerInv'
    BY <1>0, <1>24, OwnerKept DEF Report2, Tell, Goto, Running, runVars,
       mainVars
  <1>25. ASSUME NEW w \in Workers, ThreadExit(w) PROVE OwnerInv'
    <2>1. Running /\ ~Running' /\ resuming' = resuming /\ mig # "restore"
      BY <1>25 DEF ThreadExit, OwnerInv, OneWorker, Running, mainVars
    <2>2. \A v \in Workers : pc'[v] = "idle"
      BY <1>0, <1>25 DEF ThreadExit, Goto, OwnerInv, OneWorker
    <2>3. QED
      BY <1>0, <2>1, <2>2 DEF OwnerInv, OneWorker
  <1>26. ASSUME NEW w \in Workers, Fault(w) PROVE OwnerInv'
    BY <1>0, <1>26, OwnerKept DEF Fault, Fail, ReturnTo, Goto, Running, runVars,
       mainVars
  <1>27. ASSUME NEW w \in Workers, Interrupted(w) PROVE OwnerInv'
    BY <1>0, <1>27, OwnerKept DEF Interrupted, Fail, ReturnTo, ClearDirty, Goto,
       Running, runVars, mainVars
  <1>28. CASE AioDone
    BY <1>0, <1>28, OwnerKept DEF AioDone, Settled, Accept, Running, runVars,
       mainVars, locals
  <1>29. CASE OrphanDone
    BY <1>0, <1>29, OwnerKept DEF OrphanDone, Settled, Running, runVars,
       mainVars, locals
  <1>30. CASE GuestVgaWrite
    BY <1>0, <1>30, OwnerKept DEF GuestVgaWrite, Running, runVars, mainVars,
       locals
  <1>31. CASE DeviceRuns
    BY <1>0, <1>31, OwnerKept DEF DeviceRuns, Running, runVars, mainVars, locals
  <1>32. CASE UNCHANGED vars
    BY <1>0, <1>32, OwnerKept DEF vars, Running, runVars, mainVars, locals
  <1>33. QED
    BY <1>1, <1>2, <1>3, <1>4, <1>5, <1>6, <1>7, <1>8, <1>9, <1>10, <1>11,
       <1>12, <1>13, <1>14, <1>15, <1>16, <1>17, <1>18, <1>19, <1>20, <1>21,
       <1>22, <1>23, <1>24, <1>25, <1>26, <1>27, <1>28, <1>29, <1>30, <1>31,
       <1>32 DEF Next, Worker

LEMMA OwnerCorrect == Spec => []OwnerInv
  <1>1. Init => OwnerInv
    BY DEF Init, OwnerInv, OneWorker, Running
  <1>2. QED
    BY <1>1, TypeCorrect, OwnerStep, PTL DEF Spec

\* One worker, and exactly while runstate.mig says so: check_mig and the emp
\* lock are enough for it.
THEOREM OneWorkerCorrect == Spec => []OneWorker
  <1>1. OwnerInv => OneWorker
    BY DEF OwnerInv
  <1>2. QED
    BY <1>1, OwnerCorrect, PTL

-----------------------------------------------------------------------------
\* A step that touches neither the file nor runstate.mig, and takes no worker
\* past cleanup.
LEMMA FileKept ==
    ASSUME FileInv, UNCHANGED <<refused, mig, mode, open, fd, migrateAbort, handler>>,
           \A w \in Workers : PastCleanup(w)' => PastCleanup(w)
    PROVE  FileInv'
  BY DEF FileInv, Shut, Armed, Running

LEMMA FileStep == TypeOK /\ OwnerInv /\ FileInv /\ [Next]_vars => FileInv'
  <1> SUFFICES ASSUME TypeOK, OwnerInv, FileInv, [Next]_vars PROVE FileInv'
    OBVIOUS
  <1>0. /\ pc \in [Workers -> Places] /\ fd \in Fds \cup {None} /\ OneWorker
        /\ mode \in Modes /\ (resuming = "ready" => mig = "restore")
    BY DEF TypeOK, LocalType, FileType, OwnerInv
  <1>1. ASSUME NEW f \in Fds, MigrateInit(f) PROVE FileInv'
    BY <1>0, <1>1, ConstAssumption DEF FileInv, PastCleanup, Shut, Armed,
       Running, OneWorker, MigrateInit, ConstAssumption, Idle, mainVars, locals
  <1>2. ASSUME NEW w \in Workers, NEW c \in Clients, MigrateLive(w, c) PROVE FileInv'
    BY <1>0, <1>2, ConstAssumption DEF FileInv, PastCleanup, Shut, Armed,
       Running, OneWorker, MigrateLive, Spawn, CheckMig, ConstAssumption, Idle,
       fileVars, mainVars, history
  <1>3. ASSUME NEW w \in Workers, NEW c \in Clients, MigrateNonlive(w, c) PROVE FileInv'
    BY <1>0, <1>3, ConstAssumption DEF FileInv, PastCleanup, Shut, Armed,
       Running, OneWorker, MigrateNonlive, Spawn, CheckMig, ConstAssumption,
       Idle, fileVars, mainVars, history
  <1>4. CASE MigratePause
    BY <1>0, <1>4, ConstAssumption DEF FileInv, PastCleanup, Shut, Armed,
       Running, OneWorker, MigratePause, ConstAssumption, Idle, fileVars,
       locals, history
  <1>5. CASE PhaseStop
    BY <1>0, <1>5, ConstAssumption DEF FileInv, PastCleanup, Shut, Armed,
       Running, OneWorker, PhaseStop, ConstAssumption, runVars, fileVars,
       locals, history
  <1>6. CASE TrackDirty
    BY <1>0, <1>6, ConstAssumption DEF FileInv, PastCleanup, Shut, Armed,
       Running, OneWorker, TrackDirty, CheckMig, ConstAssumption, Idle,
       fileVars, mainVars, locals, history
  <1>7. CASE MigrateAbort
    BY <1>0, <1>7, ConstAssumption DEF FileInv, PastCleanup, Shut, Armed,
       Running, OneWorker, MigrateAbort, ConstAssumption, Idle, locals
  <1>8. CASE AbortCleanup
    BY <1>0, <1>8, ConstAssumption DEF FileInv, PastCleanup, Shut, Armed,
       Running, OneWorker, AbortCleanup, CloseState, ConstAssumption, fileVars,
       locals, history
  <1>9. ASSUME NEW c \in Clients, CmdProgress(c) PROVE FileInv'
    BY <1>0, <1>9, FileKept DEF PastCleanup, CmdProgress, fileVars, mainVars,
       locals
  <1>10. ASSUME NEW c \in Clients, CmdRestore(c) PROVE FileInv'
    BY <1>0, <1>10, ConstAssumption DEF FileInv, PastCleanup, Shut, Armed,
       Running, OneWorker, CmdRestore, CheckMig, ConstAssumption, Idle,
       fileVars, locals
  <1>11. CASE GetState
    BY <1>0, <1>11, ConstAssumption DEF FileInv, PastCleanup, Shut, Armed,
       Running, OneWorker, GetState, CloseState, ConstAssumption, locals,
       history
  <1>12. CASE CmdQuit
    BY <1>0, <1>12, FileKept DEF PastCleanup, CmdQuit, runVars, fileVars,
       locals, history
  <1>13. ASSUME NEW w \in Workers, StartMigrate(w) PROVE FileInv'
    BY <1>0, <1>13, ConstAssumption DEF FileInv, PastCleanup, Shut, Armed,
       Running, OneWorker, StartMigrate, EnterWrite, Fail, ReturnTo, Goto,
       ConstAssumption, runVars, mainVars, history
  <1>14. ASSUME NEW w \in Workers, Pass(w) PROVE FileInv'
    BY <1>0, <1>14, FileKept DEF PastCleanup, Pass, Goto, runVars, fileVars,
       mainVars, history
  <1>15. ASSUME NEW w \in Workers, DumpVga(w) PROVE FileInv'
    BY <1>0, <1>15, FileKept DEF PastCleanup, DumpVga, EnterWrite, Goto,
       runVars, fileVars, mainVars, history
  <1>16. ASSUME NEW w \in Workers, VmiopDump(w) PROVE FileInv'
    BY <1>0, <1>16, FileKept DEF PastCleanup, VmiopDump, EnterWrite, Fail,
       ReturnTo, Goto, runVars, fileVars, mainVars, history
  <1>17. ASSUME NEW w \in Workers, WaitStop(w) PROVE FileInv'
    BY <1>0, <1>17, FileKept DEF PastCleanup, WaitStop, Goto, fileVars,
       mainVars, history
  <1>18. ASSUME NEW w \in Workers, FinishMigrate(w) PROVE FileInv'
    BY <1>0, <1>18, ConstAssumption DEF FileInv, PastCleanup, Shut, Armed,
       Running, OneWorker, FinishMigrate, EnterWrite, Fail, ReturnTo, Goto,
       ConstAssumption, runVars, mainVars, history
  <1>19. ASSUME NEW w \in Workers, Flush(w) PROVE FileInv'
    BY <1>0, <1>19, FileKept DEF PastCleanup, Flush, EnterWrite, Goto, runVars,
       fileVars, mainVars, history
  <1>20. ASSUME NEW w \in Workers, WriteAccepted(w) PROVE FileInv'
    <2>1. ~PastCleanup(w)'
      BY <1>0, <1>20 DEF WriteAccepted, ReturnTo, Goto, Then, PastCleanup, TypeOK,
         LocalType, Records
    <2>2. QED
      BY <1>0, <1>20, <2>1, FileKept DEF WriteAccepted, ReturnTo, Goto, PastCleanup,
         runVars, fileVars, mainVars, history
  <1>21. ASSUME NEW w \in Workers, WriteFailed(w) PROVE FileInv'
    BY <1>0, <1>21, FileKept DEF PastCleanup, WriteFailed, Fail, ReturnTo,
       ClearDirty, Goto, NoCb, Settled, runVars, fileVars, mainVars, history
  <1>22. ASSUME NEW w \in Workers, Cleanup(w) PROVE FileInv'
    BY <1>0, <1>22, ConstAssumption DEF FileInv, PastCleanup, Shut, Armed,
       Running, OneWorker, Cleanup, CloseState, Goto, ConstAssumption, runVars,
       mainVars, history
  <1>23. ASSUME NEW w \in Workers, Report(w) PROVE FileInv'
    BY <1>0, <1>23, FileKept DEF PastCleanup, Report, Tell, Goto, runVars,
       fileVars, mainVars
  <1>24. ASSUME NEW w \in Workers, Report2(w) PROVE FileInv'
    BY <1>0, <1>24, FileKept DEF PastCleanup, Report2, Tell, Goto, runVars,
       fileVars, mainVars
  <1>25. ASSUME NEW w \in Workers, ThreadExit(w) PROVE FileInv'
    BY <1>0, <1>25, ConstAssumption DEF FileInv, PastCleanup, Shut, Armed,
       Running, OneWorker, ThreadExit, Goto, ConstAssumption, fileVars, mainVars
  <1>26. ASSUME NEW w \in Workers, Fault(w) PROVE FileInv'
    BY <1>0, <1>26, FileKept DEF PastCleanup, Fault, Fail, ReturnTo, Goto,
       runVars, fileVars, mainVars, history
  <1>27. ASSUME NEW w \in Workers, Interrupted(w) PROVE FileInv'
    BY <1>0, <1>27, FileKept DEF PastCleanup, Interrupted, Fail, ReturnTo,
       ClearDirty, Goto, runVars, fileVars, mainVars, history
  <1>28. CASE AioDone
    BY <1>0, <1>28, FileKept DEF PastCleanup, AioDone, Settled, Accept, runVars,
       fileVars, mainVars, locals, history
  <1>29. CASE OrphanDone
    BY <1>0, <1>29, FileKept DEF PastCleanup, OrphanDone, Settled, runVars,
       fileVars, mainVars, locals, history
  <1>30. CASE GuestVgaWrite
    BY <1>0, <1>30, FileKept DEF PastCleanup, GuestVgaWrite, runVars, fileVars,
       mainVars, locals, history
  <1>31. CASE DeviceRuns
    BY <1>0, <1>31, FileKept DEF PastCleanup, DeviceRuns, runVars, fileVars,
       mainVars, locals, history
  <1>32. CASE UNCHANGED vars
    BY <1>32, FileKept DEF vars, PastCleanup, runVars, fileVars, mainVars,
       locals, history
  <1>33. QED
    BY <1>1, <1>2, <1>3, <1>4, <1>5, <1>6, <1>7, <1>8, <1>9, <1>10, <1>11,
       <1>12, <1>13, <1>14, <1>15, <1>16, <1>17, <1>18, <1>19, <1>20, <1>21,
       <1>22, <1>23, <1>24, <1>25, <1>26, <1>27, <1>28, <1>29, <1>30, <1>31,
       <1>32 DEF Next, Worker

LEMMA FileCorrect == Spec => []FileInv
  <1>1. Init => FileInv
    BY DEF Init, FileInv, Shut, Armed, Running, PastCleanup
  <1>2. QED
    BY <1>1, TypeCorrect, OwnerCorrect, FileStep, PTL DEF Spec

\* Whatever an abort does under a worker, the next init finds the section
\* closed and no descriptor open.
THEOREM RestIsCleanCorrect == Spec => []RestIsClean
  <1>1. FileInv => RestIsClean
    BY DEF FileInv, RestIsClean, Shut, Running
  <1>2. QED
    BY <1>1, FileCorrect, PTL

-----------------------------------------------------------------------------
\* A step that touches neither the file's contents nor a worker's place.
LEMMA WriteKept ==
    ASSUME WriteInv, UNCHANGED <<pc, rec, wfd, ok, aioVars, fd, mig, aborted, clean>>,
           handler' = "abort" => handler = "abort"
    PROVE  WriteInv'
  BY DEF WriteInv, Running, aioVars, PastCleanup, Starting, Opened, Closing, Reads, Accept

LEMMA WriteStep == TypeOK /\ OwnerInv /\ FileInv /\ WriteInv /\ [Next]_vars => WriteInv'
  <1> SUFFICES ASSUME TypeOK, OwnerInv, FileInv, WriteInv, [Next]_vars PROVE WriteInv'
    OBVIOUS
  <1>0. /\ LocalType /\ AioType /\ fd \in Fds \cup {None} /\ OneWorker
        /\ (resuming = "ready" => mig = "restore")
    BY DEF TypeOK, FileType, OwnerInv
  <1>1. ASSUME NEW f \in Fds, MigrateInit(f) PROVE WriteInv'
    BY <1>0, <1>1, ConstAssumption DEF ConstAssumption, WriteInv, PastCleanup,
       Starting, Opened, Closing, Reads, Accept, LocalType, AioType, Cbs,
       OneWorker, Running, MigrateInit, Idle, mainVars, locals, aioVars
  <1>2. ASSUME NEW w \in Workers, NEW c \in Clients, MigrateLive(w, c) PROVE WriteInv'
    BY <1>0, <1>2, ConstAssumption DEF ConstAssumption, WriteInv, PastCleanup,
       Starting, Opened, Closing, Reads, Accept, LocalType, AioType, Cbs,
       OneWorker, Running, MigrateLive, Spawn, Idle, CheckMig, fileVars,
       mainVars, aioVars, history
  <1>3. ASSUME NEW w \in Workers, NEW c \in Clients, MigrateNonlive(w, c) PROVE WriteInv'
    BY <1>0, <1>3, ConstAssumption DEF ConstAssumption, WriteInv, PastCleanup,
       Starting, Opened, Closing, Reads, Accept, LocalType, AioType, Cbs,
       OneWorker, Running, MigrateNonlive, Spawn, Idle, CheckMig, fileVars,
       mainVars, aioVars, history
  <1>4. CASE MigratePause
    BY <1>4, WriteKept DEF MigratePause, Idle, fileVars, locals, aioVars,
       history
  <1>5. CASE PhaseStop
    BY <1>5, WriteKept DEF PhaseStop, runVars, fileVars, locals, aioVars,
       history
  <1>6. CASE TrackDirty
    BY <1>0, <1>6, ConstAssumption DEF ConstAssumption, WriteInv, PastCleanup,
       Starting, Opened, Closing, Reads, Accept, LocalType, AioType, Cbs,
       OneWorker, Running, TrackDirty, Idle, CheckMig, fileVars, mainVars,
       locals, aioVars, history
  <1>7. CASE MigrateAbort
    BY <1>0, <1>7, ConstAssumption DEF ConstAssumption, WriteInv, PastCleanup,
       Starting, Opened, Closing, Reads, Accept, LocalType, AioType, Cbs,
       OneWorker, Running, MigrateAbort, Idle, locals, aioVars
  <1>8. CASE AbortCleanup
    BY <1>0, <1>8, ConstAssumption DEF ConstAssumption, WriteInv, PastCleanup,
       Starting, Opened, Closing, Reads, Accept, LocalType, AioType, Cbs,
       OneWorker, Running, AbortCleanup, CloseState, fileVars, locals, history
  <1>9. ASSUME NEW c \in Clients, CmdProgress(c) PROVE WriteInv'
    BY <1>9, WriteKept DEF CmdProgress, Idle, fileVars, mainVars, locals,
       aioVars
  <1>10. ASSUME NEW c \in Clients, CmdRestore(c) PROVE WriteInv'
    BY <1>0, <1>10, ConstAssumption DEF ConstAssumption, WriteInv, PastCleanup,
       Starting, Opened, Closing, Reads, Accept, LocalType, AioType, Cbs,
       OneWorker, Running, CmdRestore, Idle, CheckMig, fileVars, locals, aioVars
  <1>11. CASE GetState
    BY <1>0, <1>11, ConstAssumption DEF ConstAssumption, WriteInv, PastCleanup,
       Starting, Opened, Closing, Reads, Accept, LocalType, AioType, Cbs,
       OneWorker, Running, GetState, CloseState, locals, history
  <1>12. CASE CmdQuit
    BY <1>12, WriteKept DEF CmdQuit, Idle, runVars, fileVars, locals, aioVars,
       history
  <1>13. ASSUME NEW w \in Workers, StartMigrate(w) PROVE WriteInv'
    BY <1>0, <1>13, ConstAssumption DEF ConstAssumption, WriteInv, PastCleanup,
       Starting, Opened, Closing, Reads, Accept, LocalType, AioType, Cbs,
       OneWorker, Running, StartMigrate, EnterWrite, Fail, ReturnTo, Goto,
       runVars, mainVars, aioVars, history
  <1>14. ASSUME NEW w \in Workers, Pass(w) PROVE WriteInv'
    BY <1>0, <1>14, ConstAssumption DEF ConstAssumption, WriteInv, PastCleanup,
       Starting, Opened, Closing, Reads, Accept, LocalType, AioType, Cbs,
       OneWorker, Running, Pass, Goto, runVars, fileVars, mainVars, aioVars,
       history
  <1>15. ASSUME NEW w \in Workers, DumpVga(w) PROVE WriteInv'
    BY <1>0, <1>15, ConstAssumption DEF ConstAssumption, WriteInv, PastCleanup,
       Starting, Opened, Closing, Reads, Accept, LocalType, AioType, Cbs,
       OneWorker, Running, DumpVga, EnterWrite, Goto, runVars, fileVars,
       mainVars, aioVars, history
  <1>16. ASSUME NEW w \in Workers, VmiopDump(w) PROVE WriteInv'
    BY <1>0, <1>16, ConstAssumption DEF ConstAssumption, WriteInv, PastCleanup,
       Starting, Opened, Closing, Reads, Accept, LocalType, AioType, Cbs,
       OneWorker, Running, VmiopDump, EnterWrite, Fail, ReturnTo, Goto, runVars,
       fileVars, mainVars, aioVars, history
  <1>17. ASSUME NEW w \in Workers, WaitStop(w) PROVE WriteInv'
    BY <1>0, <1>17, ConstAssumption DEF ConstAssumption, WriteInv, PastCleanup,
       Starting, Opened, Closing, Reads, Accept, LocalType, AioType, Cbs,
       OneWorker, Running, WaitStop, Goto, fileVars, mainVars, aioVars, history
  <1>18. ASSUME NEW w \in Workers, FinishMigrate(w) PROVE WriteInv'
    BY <1>0, <1>18, ConstAssumption DEF ConstAssumption, WriteInv, PastCleanup,
       Starting, Opened, Closing, Reads, Accept, LocalType, AioType, Cbs,
       OneWorker, Running, FinishMigrate, EnterWrite, Fail, ReturnTo, Goto,
       runVars, mainVars, aioVars, history
  <1>19. ASSUME NEW w \in Workers, Flush(w) PROVE WriteInv'
    BY <1>0, <1>19, ConstAssumption DEF ConstAssumption, WriteInv, PastCleanup,
       Starting, Opened, Closing, Reads, Accept, LocalType, AioType, Cbs,
       OneWorker, Running, Flush, EnterWrite, Goto, runVars, fileVars, mainVars,
       aioVars, history
  <1>20. ASSUME NEW w \in Workers, WriteAccepted(w) PROVE WriteInv'
    <2>1. /\ Running /\ UNCHANGED <<mig, fd, aborted, clean, handler, stream>>
          /\ \A v \in Workers : v # w => /\ pc[v] = "idle" /\ pc'[v] = "idle"
                                      /\ ~ok[v] /\ ~ok'[v]
          /\ pc[w] = "write" /\ pc'[w] = Then(rec[w]) /\ ok'[w] = (rec[w] = "flush")
      BY <1>0, <1>20 DEF WriteAccepted, ReturnTo, Goto, OneWorker, LocalType, Running,
         runVars, fileVars, mainVars, history, WriteInv, PastCleanup
    <2>2. CASE rec[w] = "flush"
      <3>1. pc'[w] = "cleanup" /\ (cb' = cb \/ cb' = NoCb) /\ orphan' = orphan
        BY <2>1, <2>2, <1>20 DEF WriteAccepted, Then
      <3>2. ~aborted /\ clean => stream = "closed" /\ cb.st # "pending"
        BY <2>1, <2>2, <1>20 DEF WriteInv, Closing, Reads, WriteAccepted, PreviousDone
      <3>3. QED
        BY <2>1, <3>1, <3>2 DEF WriteInv, PastCleanup, Starting, Opened, Closing, Running,
           NoCb, Settled
    <2>3. CASE rec[w] # "flush"
      <3>1. /\ cb' = [fd |-> wfd[w], st |-> "pending", rec |-> rec[w],
                     own |-> wfd[w] = fd /\ fd # None]
            /\ orphan' = (orphan \/ cb.st = "pending")
        BY <2>3, <1>20 DEF WriteAccepted
      <3>2. ~ok'[w] /\ ~PastCleanup(w)' /\ ~Starting(w)' /\ pc'[w] # "write"
        BY <2>1, <2>3, <1>0 DEF Then, PastCleanup, Starting, LocalType, Records
      <3>3. ASSUME ~aborted, clean
            PROVE  /\ cb'.own /\ cb'.fd = fd /\ fd # None /\ ~orphan'
                   /\ Opened(w)' => Accept(stream, rec[w]) = "open"
                   /\ Closing(w)' => Accept(stream, rec[w]) = "closed"
        <4>1. CASE rec[w] = "header"
          BY <2>1, <3>1, <3>3, <4>1, <1>0 DEF WriteInv, Starting, Opened, Closing, Then,
             Accept, AioType
        <4>2. CASE rec[w] # "header"
          <5>1. cb.st = "done" /\ stream = "open"
            BY <2>1, <2>3, <3>3, <4>2, <1>0, <1>20 DEF WriteInv, Opened, Reads, LocalType,
               Records, WriteAccepted, PreviousDone
          <5>2. wfd[w] = fd /\ fd # None /\ ~orphan
            BY <2>1, <3>3 DEF WriteInv
          <5>3. QED
            BY <2>1, <2>3, <3>1, <4>2, <5>1, <5>2, <1>0 DEF Opened, Closing, Then, Accept,
               LocalType, Records
        <4>3. QED
          BY <4>1, <4>2
      <3>4. QED
        BY <2>1, <3>1, <3>2, <3>3 DEF WriteInv, PastCleanup, Starting, Opened, Closing,
           Reads, Running
    <2>4. QED
      BY <2>2, <2>3
  <1>21. ASSUME NEW w \in Workers, WriteFailed(w) PROVE WriteInv'
    BY <1>0, <1>21, ConstAssumption DEF ConstAssumption, WriteInv, PastCleanup,
       Starting, Opened, Closing, Reads, Accept, LocalType, AioType, Cbs,
       OneWorker, Running, WriteFailed, Fail, ReturnTo, ClearDirty, Goto, NoCb,
       Settled, PreviousDone, runVars, fileVars, mainVars, history
  <1>22. ASSUME NEW w \in Workers, Cleanup(w) PROVE WriteInv'
    BY <1>0, <1>22, ConstAssumption DEF ConstAssumption, WriteInv, PastCleanup,
       Starting, Opened, Closing, Reads, Accept, LocalType, AioType, Cbs,
       OneWorker, Running, Cleanup, CloseState, Goto, runVars, mainVars, history
  <1>23. ASSUME NEW w \in Workers, Report(w) PROVE WriteInv'
    BY <1>0, <1>23, ConstAssumption DEF ConstAssumption, WriteInv, PastCleanup,
       Starting, Opened, Closing, Reads, Accept, LocalType, AioType, Cbs,
       OneWorker, Running, Report, Tell, Goto, runVars, fileVars, mainVars,
       aioVars
  <1>24. ASSUME NEW w \in Workers, Report2(w) PROVE WriteInv'
    BY <1>0, <1>24, ConstAssumption DEF ConstAssumption, WriteInv, PastCleanup,
       Starting, Opened, Closing, Reads, Accept, LocalType, AioType, Cbs,
       OneWorker, Running, Report2, Tell, Goto, runVars, fileVars, mainVars,
       aioVars
  <1>25. ASSUME NEW w \in Workers, ThreadExit(w) PROVE WriteInv'
    BY <1>0, <1>25, ConstAssumption DEF ConstAssumption, WriteInv, PastCleanup,
       Starting, Opened, Closing, Reads, Accept, LocalType, AioType, Cbs,
       OneWorker, Running, ThreadExit, Goto, fileVars, mainVars
  <1>26. ASSUME NEW w \in Workers, Fault(w) PROVE WriteInv'
    BY <1>0, <1>26, ConstAssumption DEF ConstAssumption, WriteInv, PastCleanup,
       Starting, Opened, Closing, Reads, Accept, LocalType, AioType, Cbs,
       OneWorker, Running, Fault, Fail, ReturnTo, Goto, runVars, fileVars,
       mainVars, aioVars, history
  <1>27. ASSUME NEW w \in Workers, Interrupted(w) PROVE WriteInv'
    BY <1>0, <1>27, ConstAssumption DEF ConstAssumption, WriteInv, PastCleanup,
       Starting, Opened, Closing, Reads, Accept, LocalType, AioType, Cbs,
       OneWorker, Running, Interrupted, Fail, ReturnTo, ClearDirty, Goto,
       runVars, fileVars, mainVars, aioVars, history
  <1>28. CASE AioDone
    BY <1>0, <1>28, ConstAssumption DEF ConstAssumption, WriteInv, PastCleanup,
       Starting, Opened, Closing, Reads, Accept, LocalType, AioType, Cbs,
       OneWorker, Running, AioDone, Settled, runVars, fileVars, mainVars,
       locals, history
  <1>29. CASE OrphanDone
    BY <1>0, <1>29, ConstAssumption DEF ConstAssumption, WriteInv, PastCleanup,
       Starting, Opened, Closing, Reads, Accept, LocalType, AioType, Cbs,
       OneWorker, Running, OrphanDone, Settled, runVars, fileVars, mainVars,
       locals, history
  <1>30. CASE GuestVgaWrite
    BY <1>30, WriteKept DEF GuestVgaWrite, runVars, fileVars, mainVars, locals,
       aioVars, history
  <1>31. CASE DeviceRuns
    BY <1>31, WriteKept DEF DeviceRuns, runVars, fileVars, mainVars, locals,
       aioVars, history
  <1>32. CASE UNCHANGED vars
    BY <1>32, WriteKept DEF vars, runVars, fileVars, mainVars, locals, history
  <1>33. QED
    BY <1>1, <1>2, <1>3, <1>4, <1>5, <1>6, <1>7, <1>8, <1>9, <1>10, <1>11,
       <1>12, <1>13, <1>14, <1>15, <1>16, <1>17, <1>18, <1>19, <1>20, <1>21,
       <1>22, <1>23, <1>24, <1>25, <1>26, <1>27, <1>28, <1>29, <1>30, <1>31,
       <1>32 DEF Next, Worker

LEMMA WriteCorrect == Spec => []WriteInv
  <1>1. Init => WriteInv
    BY DEF Init, WriteInv, Running, PastCleanup, Starting, Opened, Closing, NoCb, Settled
  <1>2. QED
    BY <1>1, TypeCorrect, OwnerCorrect, FileCorrect, WriteStep, PTL DEF Spec

\* A reported success is true of the file, for any number of records, aborts of
\* other migrations and reused descriptors.
THEOREM SuccessIsWrittenCorrect == Spec => []SuccessIsWritten
  <1>1. WriteInv => SuccessIsWritten
    BY DEF WriteInv, SuccessIsWritten, Succeeded
  <1>2. QED
    BY <1>1, WriteCorrect, PTL

-----------------------------------------------------------------------------
\* The plugin had nothing left when the worker last asked, and was not let run
\* since: pausing and aborting need what a non-live migration excludes.
Drained(w) ==
    \/ pc[w] \in {"finish", "flush"} \/ ok[w]
    \/ pc[w] = "write" /\ rec[w] \in {"footer", "flush"}

NonliveInv ==
    \A w \in Workers : pc[w] # "idle" /\ mig = "paused" =>
        /\ stopped[w]
        /\ ~aborted => paused /\ handler # "pause"
        /\ ~aborted /\ quiesced /\ Drained(w) => devLeft = 0

LEMMA NonliveStep ==
    TypeOK /\ OwnerInv /\ FileInv /\ WriteInv /\ NonliveInv /\ [Next]_vars => NonliveInv'
  <1> SUFFICES ASSUME TypeOK, OwnerInv, FileInv, WriteInv, NonliveInv, [Next]_vars
               PROVE  NonliveInv'
    OBVIOUS
  <1>0. /\ LocalType /\ OneWorker
        /\ resuming = "ready" => mig = "restore"
        /\ handler = "abort" /\ Running => aborted
        /\ \A w \in Workers : ok[w] => pc[w] = "cleanup" \/ PastCleanup(w)
    BY DEF TypeOK, OwnerInv, WriteInv
  <1> USE DEF runVars, fileVars, mainVars, locals, aioVars, devVars, history
  <1>1. ASSUME mig' # "paused"
        PROVE  NonliveInv'
    BY <1>1 DEF NonliveInv
  <1>2. ASSUME UNCHANGED <<mig, paused, aborted, quiesced, devLeft, locals>>,
               handler' = "pause" => handler = "pause"
        PROVE  NonliveInv'
    BY <1>2 DEF NonliveInv, Drained
  <1>3. ASSUME NEW w \in Workers,
               UNCHANGED <<mig, paused, aborted, quiesced, handler>>, devLeft' = devLeft,
               pc[w] # "idle", \A v \in Workers : v # w => pc'[v] = pc[v],
               mig = "paused" /\ stopped[w] => stopped'[w],
               mig = "paused" /\ stopped[w] /\ Drained(w)' => Drained(w)
        PROVE  NonliveInv'
    BY <1>0, <1>3 DEF NonliveInv, OneWorker
  <1>4. CASE \E f \in Fds : MigrateInit(f)
    BY <1>1, <1>2, <1>4 DEF MigrateInit, Idle
  <1>5. ASSUME NEW w \in Workers, NEW c \in Clients, MigrateNonlive(w, c)
        PROVE  NonliveInv'
    <2>1. \A v \in Workers : pc[v] = "idle"
      BY <1>0, <1>5 DEF MigrateNonlive, CheckMig, OneWorker, Running
    <2>2. /\ pc' = [pc EXCEPT ![w] = "start"] /\ stopped' = [stopped EXCEPT ![w] = TRUE]
          /\ ok' = [ok EXCEPT ![w] = FALSE] /\ paused' /\ handler' = "none"
      BY <1>5 DEF MigrateNonlive, Spawn, Idle
    <2>3. \A v \in Workers : pc'[v] # "idle" => v = w
      BY <1>0, <2>1, <2>2 DEF LocalType
    <2>4. pc'[w] = "start" /\ stopped'[w] /\ ~ok'[w]
      BY <1>0, <2>2 DEF LocalType
    <2>5. QED
      BY <2>2, <2>3, <2>4 DEF NonliveInv, Drained
  <1>6. ASSUME NEW w \in Workers, NEW c \in Clients, MigrateLive(w, c)
        PROVE  NonliveInv'
    BY <1>1, <1>6 DEF MigrateLive
  <1>7. CASE MigratePause
    BY <1>7 DEF MigratePause, NonliveInv, Drained
  <1>8. CASE PhaseStop
    BY <1>8 DEF PhaseStop, NonliveInv, Drained
  <1>9. CASE TrackDirty
    BY <1>1, <1>9 DEF TrackDirty
  <1>10. CASE MigrateAbort
    BY <1>10 DEF MigrateAbort, NonliveInv, Running
  <1>11. CASE AbortCleanup
    BY <1>0, <1>11 DEF AbortCleanup, NonliveInv, Drained, Running
  <1>12. ASSUME NEW c \in Clients, CmdProgress(c)
         PROVE  NonliveInv'
    BY <1>2, <1>12 DEF CmdProgress
  <1>13. ASSUME NEW c \in Clients, CmdRestore(c)
         PROVE  NonliveInv'
    BY <1>1, <1>13 DEF CmdRestore
  <1>14. CASE GetState
    BY <1>1, <1>14 DEF GetState
  <1>15. CASE CmdQuit
    BY <1>2, <1>15 DEF CmdQuit
  <1>16. ASSUME NEW w \in Workers, StartMigrate(w)
         PROVE  NonliveInv'
    BY <1>0, <1>3, <1>16 DEF StartMigrate, EnterWrite, Fail, ReturnTo, Goto, LocalType,
       PastCleanup, Drained
  <1>17. ASSUME NEW w \in Workers, Pass(w)
         PROVE  NonliveInv'
    BY <1>0, <1>3, <1>17 DEF Pass, Goto, LocalType, PastCleanup, Drained
  <1>18. ASSUME NEW w \in Workers, DumpVga(w)
         PROVE  NonliveInv'
    BY <1>0, <1>3, <1>18 DEF DumpVga, EnterWrite, Goto, LocalType, PastCleanup, Drained
  <1>19. ASSUME NEW w \in Workers, VmiopDump(w)
         PROVE  NonliveInv'
    <2>1. CASE devLeft' = devLeft /\ ~Drained(w)'
      BY <1>0, <1>3, <1>19, <2>1 DEF VmiopDump, EnterWrite, Fail, ReturnTo, Goto, LocalType
    <2>2. CASE devLeft = 0 /\ devLeft' = 0
      BY <1>0, <1>19, <2>2 DEF VmiopDump, EnterWrite, Fail, ReturnTo, Goto, LocalType,
         NonliveInv, OneWorker
    <2>3. CASE EnterWrite(w, "vmiope")
      <3>1. ~Drained(w)' /\ stopped' = stopped /\ pc[w] # "idle"
        BY <1>0, <1>19, <2>3 DEF VmiopDump, EnterWrite, Goto, LocalType, PastCleanup, Drained
      <3>2. \A v \in Workers : v # w => pc'[v] = "idle"
        BY <1>0, <1>19, <2>3 DEF VmiopDump, EnterWrite, Goto, LocalType, OneWorker
      <3>3. QED
        BY <1>19, <3>1, <3>2 DEF VmiopDump, NonliveInv
    <2>4. QED
      BY <1>0, <1>19, <2>1, <2>2, <2>3 DEF VmiopDump, Fail, ReturnTo, Goto, LocalType,
         PastCleanup, Drained, TypeOK, DevType
  <1>20. ASSUME NEW w \in Workers, WaitStop(w)
         PROVE  NonliveInv'
    BY <1>0, <1>3, <1>20 DEF WaitStop, Goto, LocalType, PastCleanup, Drained
  <1>21. ASSUME NEW w \in Workers, FinishMigrate(w)
         PROVE  NonliveInv'
    BY <1>0, <1>3, <1>21 DEF FinishMigrate, EnterWrite, Fail, ReturnTo, Goto, LocalType,
       PastCleanup, Drained
  <1>22. ASSUME NEW w \in Workers, Flush(w)
         PROVE  NonliveInv'
    BY <1>0, <1>3, <1>22 DEF Flush, EnterWrite, Goto, LocalType, PastCleanup, Drained
  <1>23. ASSUME NEW w \in Workers, WriteAccepted(w)
         PROVE  NonliveInv'
    <2>1. /\ pc[w] = "write" /\ pc' = [pc EXCEPT ![w] = Then(rec[w])]
          /\ ok' = [ok EXCEPT ![w] = rec[w] = "flush"]
          /\ UNCHANGED <<stopped, mig, paused, aborted, quiesced, handler, devLeft>>
      BY <1>23 DEF WriteAccepted, ReturnTo, Goto
    <2>2. pc'[w] = Then(rec[w]) /\ ok'[w] = (rec[w] = "flush") /\ rec[w] \in Records
      BY <1>0, <2>1 DEF LocalType
    <2>3. Drained(w)' => rec[w] \in {"footer", "flush"}
      BY <2>2 DEF Drained, Then, Records
    <2>4. QED
      BY <1>0, <1>3, <2>1, <2>3 DEF Drained, LocalType
  <1>24. ASSUME NEW w \in Workers, WriteFailed(w)
         PROVE  NonliveInv'
    BY <1>0, <1>3, <1>24 DEF WriteFailed, Fail, ReturnTo, Goto, LocalType, PastCleanup, Drained
  <1>25. ASSUME NEW w \in Workers, Cleanup(w)
         PROVE  NonliveInv'
    BY <1>0, <1>3, <1>25 DEF Cleanup, Goto, LocalType, Drained
  <1>26. ASSUME NEW w \in Workers, Report(w)
         PROVE  NonliveInv'
    BY <1>0, <1>3, <1>26 DEF Report, Goto, LocalType, Drained
  <1>27. ASSUME NEW w \in Workers, Report2(w)
         PROVE  NonliveInv'
    BY <1>0, <1>3, <1>27 DEF Report2, Goto, LocalType, Drained
  <1>28. ASSUME NEW w \in Workers, ThreadExit(w)
         PROVE  NonliveInv'
    BY <1>1, <1>28 DEF ThreadExit
  <1>29. ASSUME NEW w \in Workers, Fault(w)
         PROVE  NonliveInv'
    BY <1>0, <1>3, <1>29 DEF Fault, Fail, ReturnTo, Goto, LocalType, PastCleanup, Drained
  <1>30. ASSUME NEW w \in Workers, Interrupted(w)
         PROVE  NonliveInv'
    BY <1>0, <1>3, <1>30 DEF Interrupted, Fail, ReturnTo, Goto, LocalType, PastCleanup, Drained
  <1>31. CASE AioDone \/ OrphanDone \/ GuestVgaWrite \/ UNCHANGED vars
    BY <1>2, <1>31 DEF AioDone, OrphanDone, GuestVgaWrite, vars
  <1>32. CASE DeviceRuns
    BY <1>32 DEF DeviceRuns, NonliveInv
  <1>33. QED
    BY <1>4, <1>5, <1>6, <1>7, <1>8, <1>9, <1>10, <1>11, <1>12, <1>13, <1>14, <1>15, <1>16,
       <1>17, <1>18, <1>19, <1>20, <1>21, <1>22, <1>23, <1>24, <1>25, <1>26, <1>27, <1>28,
       <1>29, <1>30, <1>31, <1>32 DEF Next, Worker

\* A non-live migration that reports success with the device still stopped took
\* all the plugin had, however many records that was.
THEOREM NonliveIsCompleteCorrect == Spec => []NonliveIsComplete
  <1>1. Init => NonliveInv
    BY DEF Init, NonliveInv
  <1>2. NonliveInv => NonliveIsComplete
    BY DEF NonliveInv, NonliveIsComplete, Succeeded, Drained
  <1>3. QED
    BY <1>1, <1>2, TypeCorrect, OwnerCorrect, FileCorrect, WriteCorrect, NonliveStep, PTL DEF Spec

-----------------------------------------------------------------------------
\* What the clients have been told, by the worker's place.
ToldInv ==
    /\ (\A w \in Workers : pc[w] = "idle") => \A c \in Clients : told[c] = 0
    /\ \A w \in Workers : pc[w] # "idle" =>
        /\ initiator \in Clients
        /\ pc[w] \notin {"report2", "exit"} => \A c \in Clients : told[c] = 0
        /\ pc[w] = "report2" /\ ~moved =>
             \A c \in Clients : told[c] = IF c = progress THEN 1 ELSE 0
        /\ pc[w] = "exit" /\ ~moved =>
             told[initiator] = 1 /\ \A c \in Clients : told[c] < 2

LEMMA ToldStep == TypeOK /\ OwnerInv /\ ToldInv /\ [Next]_vars => ToldInv'
  <1> SUFFICES ASSUME TypeOK, OwnerInv, ToldInv, [Next]_vars
               PROVE  ToldInv'
    OBVIOUS
  <1>0. /\ LocalType /\ OneWorker /\ told \in [Clients -> 0..2]
        /\ progress \in Clients \cup {None} /\ None \notin Clients
    BY ConstAssumption DEF TypeOK, OwnerInv, HistoryType, RunType
  <1> USE DEF runVars, fileVars, mainVars, locals, aioVars, devVars, history
  <1>1. ASSUME UNCHANGED <<pc, told, initiator, progress, moved>>
        PROVE  ToldInv'
    BY <1>1 DEF ToldInv
  <1>2. ASSUME NEW w \in Workers, UNCHANGED <<told, initiator>>,
               pc[w] \notin {"idle", "report2", "exit"},
               pc'[w] \notin {"idle", "report2", "exit"},
               \A v \in Workers : v # w => pc'[v] = pc[v]
        PROVE  ToldInv'
    BY <1>0, <1>2 DEF ToldInv, OneWorker
  <1>3. ASSUME NEW w \in Workers, NEW c \in Clients, MigrateLive(w, c) \/ MigrateNonlive(w, c)
        PROVE  ToldInv'
    <2>1. \A v \in Workers : pc[v] = "idle"
      BY <1>0, <1>3 DEF MigrateLive, MigrateNonlive, CheckMig, OneWorker, Running
    <2>2. pc' = [pc EXCEPT ![w] = "start"] /\ initiator' = c /\ told' = told
      BY <1>3 DEF MigrateLive, MigrateNonlive, Spawn
    <2>3. pc'[w] = "start" /\ \A v \in Workers : pc'[v] # "idle" => v = w
      BY <1>0, <2>1, <2>2 DEF LocalType
    <2>4. QED
      BY <2>1, <2>2, <2>3 DEF ToldInv
  <1>4. ASSUME NEW c \in Clients, CmdProgress(c)
        PROVE  ToldInv'
    BY <1>0, <1>4 DEF CmdProgress, ToldInv
  <1>5. ASSUME NEW c \in Clients, CmdRestore(c)
        PROVE  ToldInv'
    <2>1. \A v \in Workers : pc[v] = "idle"
      BY <1>0, <1>5 DEF CmdRestore, CheckMig, OneWorker, Running
    <2>2. pc' = pc /\ told' = told
      BY <1>5 DEF CmdRestore
    <2>3. QED
      BY <2>1, <2>2 DEF ToldInv
  <1>6. ASSUME NEW w \in Workers,
               StartMigrate(w) \/ Pass(w) \/ DumpVga(w) \/ VmiopDump(w)
        PROVE  ToldInv'
    BY <1>0, <1>2, <1>6 DEF StartMigrate, Pass, DumpVga, VmiopDump, EnterWrite, Fail, ReturnTo,
       Goto, LocalType
  <1>7. ASSUME NEW w \in Workers,
               WaitStop(w) \/ FinishMigrate(w) \/ Flush(w) \/ Fault(w) \/ Interrupted(w)
        PROVE  ToldInv'
    BY <1>0, <1>2, <1>7 DEF WaitStop, FinishMigrate, Flush, Fault, Interrupted, EnterWrite, Fail,
       ReturnTo, Goto, LocalType
  <1>8. ASSUME NEW w \in Workers, WriteAccepted(w)
        PROVE  ToldInv'
    <2>1. Then(rec[w]) \notin {"idle", "report2", "exit"}
      BY <1>0 DEF Then, LocalType, Records
    <2>2. QED
      BY <1>0, <1>2, <1>8, <2>1 DEF WriteAccepted, ReturnTo, Goto, LocalType
  <1>9. ASSUME NEW w \in Workers, WriteFailed(w) \/ Cleanup(w)
        PROVE  ToldInv'
    BY <1>0, <1>2, <1>9 DEF WriteFailed, Cleanup, Fail, ReturnTo, Goto, LocalType
  <1>10. ASSUME NEW w \in Workers, Report(w)
         PROVE  ToldInv'
    <2>1. /\ pc[w] = "report" /\ pc'[w] = "report2" /\ UNCHANGED <<initiator, progress, moved>>
          /\ \A v \in Workers : v # w => pc[v] = "idle" /\ pc'[v] = "idle"
      BY <1>0, <1>10 DEF Report, Goto, LocalType, OneWorker
    <2>2. \A c \in Clients : told[c] = 0
      BY <2>1 DEF ToldInv
    <2>3. \A c \in Clients : told'[c] = IF c = progress THEN 1 ELSE 0
      BY <1>0, <1>10, <2>2 DEF Report, Tell
    <2>4. QED
      BY <2>1, <2>3 DEF ToldInv
  <1>11. ASSUME NEW w \in Workers, Report2(w)
         PROVE  ToldInv'
    <2>1. /\ pc[w] = "report2" /\ pc'[w] = "exit" /\ UNCHANGED <<initiator, progress, moved>>
          /\ \A v \in Workers : v # w => pc[v] = "idle" /\ pc'[v] = "idle"
      BY <1>0, <1>11 DEF Report2, Goto, LocalType, OneWorker
    <2>2. initiator \in Clients
      BY <2>1 DEF ToldInv
    <2>3. ~moved => \A c \in Clients : told[c] = IF c = progress THEN 1 ELSE 0
      BY <2>1 DEF ToldInv
    <2>4. ~moved => \A c \in Clients : told'[c] = IF c \in {progress, initiator} THEN 1 ELSE 0
      BY <1>0, <1>11, <2>2, <2>3 DEF Report2, Tell
    <2>5. QED
      BY <2>1, <2>2, <2>4 DEF ToldInv
  <1>12. ASSUME NEW w \in Workers, ThreadExit(w)
         PROVE  ToldInv'
    <2>1. \A v \in Workers : pc'[v] = "idle"
      BY <1>0, <1>12 DEF ThreadExit, Goto, LocalType, OneWorker
    <2>2. \A c \in Clients : told'[c] = 0
      BY <1>12 DEF ThreadExit
    <2>3. QED
      BY <2>1, <2>2 DEF ToldInv
  <1>13. CASE MigratePause \/ PhaseStop \/ TrackDirty \/ MigrateAbort \/ AbortCleanup \/ GetState
    BY <1>1, <1>13 DEF MigratePause, PhaseStop, TrackDirty, MigrateAbort, AbortCleanup, GetState
  <1>14. CASE CmdQuit \/ AioDone \/ OrphanDone \/ GuestVgaWrite \/ DeviceRuns \/ UNCHANGED vars
    BY <1>1, <1>14 DEF CmdQuit, AioDone, OrphanDone, GuestVgaWrite, DeviceRuns, vars
  <1>15. ASSUME NEW f \in Fds, MigrateInit(f)
         PROVE  ToldInv'
    BY <1>1, <1>15 DEF MigrateInit
  <1>16. QED
    BY <1>3, <1>4, <1>5, <1>6, <1>7, <1>8, <1>9, <1>10, <1>11, <1>12, <1>13, <1>14, <1>15
       DEF Next, Worker

\* Whoever started the migration hears of its end once and nobody twice, unless
\* progress_cli changes between the two tests (control.c: the end of
\* migrate_loop).
THEOREM CompletionToldOnceCorrect == Spec => []CompletionToldOnce
  <1>1. Init => ToldInv
    BY DEF Init, ToldInv
  <1>2. ToldInv => CompletionToldOnce
    BY DEF ToldInv, CompletionToldOnce
  <1>3. QED
    BY <1>1, <1>2, TypeCorrect, OwnerCorrect, ToldStep, PTL
       DEF Spec
=============================================================================
