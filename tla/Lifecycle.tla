----------------------------- MODULE Lifecycle -----------------------------
(***************************************************************************)
(* How demu starts and ends: main, demu_initialize and init_io, which make *)
(* one thing after another and count what is made in demu_state.seq;       *)
(* demu_teardown, which undoes what was counted; and the signal handlers,  *)
(* which run it wherever they find the main thread, in a teardown or       *)
(* inside vmiope_enter_monitor as well.  The two plugins are those of a     *)
(* demu in use: the presentation plugin, and one that is loaded.           *)
(*                                                                         *)
(* A handler that runs the teardown never returns to what it interrupted,  *)
(* so only the latest teardown is kept.  Functions of the C library are    *)
(* taken to be safe in a handler.  Signals go to the main thread.          *)
(***************************************************************************)
EXTENDS Integers, SequencesExt

VARIABLES
    pc,         \* the instruction of Code the main thread is at
    seq,        \* demu_state.seq
    held,       \* what has been made and not undone
    mutex,      \* who has vmiope_monitor_lock
    holder,     \* vmiope_monitor_holder if vmiope_monitor_held
    td,         \* where the teardown is; 0 before there is one
    how,        \* what follows the teardown
    blocked,    \* signals whose handler runs
    ended,      \* the process is gone
    table,      \* plugin_table
    initRc,     \* what the init_routine called last returned
    sd,         \* where vmiope_shutdown is
    cursor,     \* its handle, by its place in Plugins; 0 is VMIOP_HANDLE_NULL
    inMon,      \* its in_monitor
    \* History.
    up,         \* seq reached DEMU_SEQ_INITIALIZED
    gap,        \* made and not yet counted, or in plugin_table and not initialised,
                \* when a signal came
    gone,       \* undone
    amiss,      \* undone again, or without what it takes to undo it
    again,      \* a signal found a teardown unfinished
    caught      \* a signal found the monitor's mutex taken and not yet recorded

startVars == <<pc, seq, up>>
monVars == <<mutex, holder>>
tdVars == <<td, how, blocked, gap, gone, amiss, again, caught>>
shutVars == <<sd, cursor, inMon>>
plugVars == <<table, initRc, shutVars>>
lifeVars == <<startVars, held, monVars, tdVars, plugVars, ended>>

\* demu_seq_t
Stages == <<"XS_OPEN", "XC_OPEN", "VMIOP_ENV_INITIALIZED", "VMIOP_VGA_INITIALIZED",
            "VMIOP_PLUGINS_REGISTERED", "SERVER_REGISTERED", "SHARED_IOPAGE_MAPPED",
            "BUFFERED_IOPAGE_MAPPED", "SERVER_ENABLED", "PORT_ARRAY_ALLOCATED", "EVTCHN_OPEN",
            "PORTS_BOUND", "VRAM_MAPPED", "SOCKET_CREATED", "SURFACE_INITIALIZED", "INITIALIZED">>
Count(s) == CHOOSE i \in DOMAIN Stages : Stages[i] = s
INITIALIZED == Len(Stages)

\* main and what it calls.  make: may fail, to the teardown; check: may fail
\* and leaves nothing; note: demu_seq_next; lock and hold: the two halves of
\* vmiope_enter_monitor; drop and unlock: those of vmiope_leave_monitor.
Make(r) == <<[op |-> "make", what |-> r], [op |-> "note", what |-> ""]>>
Do(o) == <<[op |-> o, what |-> ""]>>
Only(r) == <<[op |-> "make", what |-> r]>>
Plugin(o, p) == <<[op |-> o, what |-> p]>>

\* In the order of their handles.
Plugins == <<"presentation", "display">>

\* vmiope_register_plugin, and vmiope_register_dynamic_plugin once the library
\* is open: the plugin is in the table while init_routine runs, outside the
\* monitor.
Register(p) ==
    Plugin("insert", p) \o Do("drop") \o Do("unlock") \o Plugin("init", p)
    \o Do("lock") \o Do("hold") \o Plugin("keep", p)
\* vmiope_process_configuration: the last check is for the connections.
Configuration == Do("config") \o Register("display") \o Do("check")

InitIo ==
    Make("server") \o Do("check") \o Make("shared") \o Make("buffered") \o Make("enabled")
    \o Make("array") \o Make("xceh") \o Make("bound")
MakeDisplay ==
    Do("lock") \o Do("hold")
    \o Make("vram") \o Make("socket") \o Make("surface") \o Make("vramkey")
Initialize ==
    Only("xsh") \o Only("pidkey") \o Do("note") \o Make("xch") \o Do("check")
    \o Do("lock") \o Do("hold") \o Do("check") \o Do("note") \o Make("vga")
    \o Register("presentation") \o Do("check") \o Configuration \o Do("drop") \o Do("unlock")
    \o Do("note")
    \o Do("check") \o InitIo \o Do("check") \o MakeDisplay
\* The timer is the last thing made.
Start == Initialize \o Do("check")
\* select itself is between unlock and lock; what it returned is looked at last.
Loop == Do("drop") \o Do("unlock") \o Do("lock") \o Do("hold") \o Do("select")
Code == Start \o Loop

\* What a resource is used by.  A plugin may call vmiop_vga_ioport_access, and
\* the presentation plugin draws on the surface.
Users ==
    [r \in {"xch", "server", "xceh", "array", "vram", "vga", "surface"} |->
        CASE r = "xch" -> {"server", "enabled", "display"}
          [] r = "server" -> {"enabled"}
          [] r = "xceh" -> {"bound"}
          [] r = "array" -> {"bound"}
          [] r = "vram" -> {"surface", "vga", "display"}
          [] r = "vga" -> {"presentation", "display"}
          [] r = "surface" -> {"presentation"}]

\* demu_teardown, in its order: what each block undoes, and from which value of
\* seq.  The keys have their block only when all was made.
U(r, s) == [what |-> r, from |-> Count(s)]
Blocks ==
    <<U("pidkey", "INITIALIZED"), U("vramkey", "INITIALIZED"),
      U("surface", "SURFACE_INITIALIZED"), U("socket", "SOCKET_CREATED"),
      U("vga", "VMIOP_VGA_INITIALIZED"), U("plugins", "VMIOP_ENV_INITIALIZED"),
      U("bound", "EVTCHN_OPEN"), U("xceh", "EVTCHN_OPEN"), U("array", "PORT_ARRAY_ALLOCATED"),
      U("enabled", "SERVER_ENABLED"), U("buffered", "BUFFERED_IOPAGE_MAPPED"),
      U("shared", "SHARED_IOPAGE_MAPPED"), U("server", "SERVER_REGISTERED"),
      U("vram", "VRAM_MAPPED"), U("statefile", "XS_OPEN"), U("xch", "XC_OPEN"), U("xsh", "XS_OPEN")>>

\* Slip: the interface to Xen is closed first.
BlocksXchFirst == <<U("xch", "XC_OPEN")>> \o SelectSeq(Blocks, LAMBDA b : b.what # "xch")

\* Slip: the video memory is unmapped first.
BlocksVramFirst == <<U("vram", "VRAM_MAPPED")>> \o SelectSeq(Blocks, LAMBDA b : b.what # "vram")

Teardown == Blocks
\* The place of vmiope_shutdown.
PluginsAt == CHOOSE i \in DOMAIN Teardown : Teardown[i].what = "plugins"

Resources == ({Teardown[i].what : i \in DOMAIN Teardown} \ {"plugins"}) \cup Range(Plugins)
\* These outlive the process; what the loaded plugin holds of the host does.
Persistent == {"pidkey", "vramkey", "server", "enabled", "display"}
\* What a block may find absent and then leaves alone.
Optional == {"bound", "statefile", "pidkey", "vramkey"}
\* The bound on nested teardowns: the handlers of SIGINT and SIGHUP do what that
\* of SIGTERM does.
Signals == {"TERM", "SEGV"}

LifeTypeOK ==
    /\ pc \in 1 .. Len(Code) /\ seq \in 0 .. INITIALIZED
    /\ held \subseteq Resources
    /\ mutex \in {"free", "main", "other"} /\ holder \in {"none", "main", "other"}
    /\ holder # "none" => mutex = holder
    /\ td \in 0 .. Len(Teardown) + 1 /\ how \in {"", "return", "exit", "raise", "kill"}
    /\ blocked \subseteq Signals /\ ended \in BOOLEAN
    /\ up \in BOOLEAN /\ gap \subseteq Resources /\ gone \subseteq Resources
    /\ amiss \subseteq Resources /\ again \in BOOLEAN /\ caught \in BOOLEAN
    /\ table \subseteq Range(Plugins) /\ initRc \in {"none", "success", "error"}
    /\ sd \in {"enter", "lock", "hold", "find", "drop", "unlock", "call", "release"}
    /\ cursor \in 0 .. Len(Plugins) /\ inMon \in BOOLEAN

LifeInit ==
    /\ pc = 1 /\ seq = 0 /\ held = {} /\ mutex = "free" /\ holder = "none"
    /\ td = 0 /\ how = "" /\ blocked = {} /\ ended = FALSE
    /\ up = FALSE /\ gap = {} /\ gone = {} /\ amiss = {} /\ again = FALSE /\ caught = FALSE
    /\ table = {} /\ initRc = "none" /\ sd = "enter" /\ cursor = 0 /\ inMon = FALSE

-----------------------------------------------------------------------------
\* The main thread.
Op == Code[pc].op
Running == td = 0 /\ ~ended
AfterLoop == IF pc = Len(Code) THEN Len(Start) + 1 ELSE pc + 1

Begin(h) == td' = 1 /\ how' = h

\* What was made since the last demu_seq_next.
Uncounted == IF pc > 1 /\ Op = "note" /\ Code[pc - 1].op = "make" THEN {Code[pc - 1].what} ELSE {}

\* main's exits to fail4 and fail5.
Fail == Begin("return") /\ UNCHANGED <<blocked, gone, amiss, again, caught, ended>>

MakeStep ==
    /\ Running /\ Op = "make"
    /\ \/ /\ held' = held \cup {Code[pc].what} /\ pc' = pc + 1
          /\ UNCHANGED <<tdVars, ended>>
       \/ Fail /\ gap' = {} /\ UNCHANGED <<held, pc>>
    /\ UNCHANGED <<seq, up, monVars, plugVars>>

CheckStep ==
    /\ Running /\ Op = "check"
    /\ \/ pc' = AfterLoop /\ UNCHANGED <<tdVars, ended>>
       \/ Fail /\ gap' = {} /\ UNCHANGED pc
    /\ UNCHANGED <<seq, up, held, monVars, plugVars>>

\* A plugin that cannot be entered into the table is the start's failure.
InsertStep ==
    /\ Running /\ Op = "insert"
    /\ \/ /\ table' = table \cup {Code[pc].what} /\ pc' = pc + 1
          /\ UNCHANGED <<tdVars, ended>>
       \/ Fail /\ gap' = {} /\ UNCHANGED <<table, pc>>
    /\ UNCHANGED <<seq, up, held, monVars, initRc, shutVars>>

\* init_routine of the plugin; the presentation plugin's cannot fail.
InitStep ==
    /\ Running /\ Op = "init"
    /\ \/ initRc' = "success" /\ held' = held \cup {Code[pc].what}
       \/ Code[pc].what # "presentation" /\ initRc' = "error" /\ UNCHANGED held
    /\ pc' = pc + 1
    /\ UNCHANGED <<seq, up, monVars, tdVars, table, shutVars, ended>>

\* Slip: a plugin whose initialisation failed stays in the table.
KeepStepAnyway ==
    /\ Running /\ Op = "keep"
    /\ initRc' = "none"
    /\ IF initRc = "success" THEN pc' = pc + 1 /\ UNCHANGED <<tdVars, ended>>
       ELSE Fail /\ gap' = {} /\ UNCHANGED pc
    /\ UNCHANGED <<seq, up, held, monVars, table, shutVars>>

KeepStep ==
    /\ Running /\ Op = "keep"
    /\ initRc' = "none"
    /\ IF initRc = "success" THEN pc' = pc + 1 /\ UNCHANGED <<table, tdVars, ended>>
       ELSE Fail /\ gap' = {} /\ table' = table \ {Code[pc].what} /\ UNCHANGED pc
    /\ UNCHANGED <<seq, up, held, monVars, shutVars>>

\* The configuration may be refused; or it may name no plugin, or too many,
\* which is no failure, but no plugin is loaded then.
ConfigStep ==
    /\ Running /\ Op = "config"
    /\ \/ pc' \in {pc + 1, pc + Len(Configuration)} /\ UNCHANGED <<tdVars, ended>>
       \/ Fail /\ gap' = {} /\ UNCHANGED pc
    /\ UNCHANGED <<seq, up, held, monVars, plugVars>>

NoteStep ==
    /\ Running /\ Op = "note"
    /\ seq' = seq + 1 /\ up' = (up \/ seq' = INITIALIZED) /\ pc' = AfterLoop
    /\ UNCHANGED <<held, monVars, tdVars, plugVars, ended>>

LockStep ==
    /\ Running /\ Op = "lock" /\ mutex = "free"
    /\ mutex' = "main" /\ pc' = AfterLoop
    /\ UNCHANGED <<seq, up, held, holder, tdVars, plugVars, ended>>

HoldStep ==
    /\ Running /\ Op = "hold"
    /\ holder' = "main" /\ pc' = AfterLoop
    /\ UNCHANGED <<seq, up, held, mutex, tdVars, plugVars, ended>>

DropStep ==
    /\ Running /\ Op = "drop"
    /\ holder' = "none" /\ pc' = AfterLoop
    /\ UNCHANGED <<seq, up, held, mutex, tdVars, plugVars, ended>>

UnlockStep ==
    /\ Running /\ Op = "unlock"
    /\ mutex' = "free" /\ pc' = AfterLoop
    /\ UNCHANGED <<seq, up, held, holder, tdVars, plugVars, ended>>

\* Inside the monitor again: an error of select other than EINTR leaves the loop.
SelectStep ==
    /\ Running /\ Op = "select"
    /\ \/ pc' = AfterLoop /\ UNCHANGED <<tdVars, ended>>
       \/ Fail /\ gap' = {} /\ UNCHANGED pc
    /\ UNCHANGED <<seq, up, held, monVars, plugVars>>

\* A command of the control socket, in the monitor at the end of the loop: one
\* that opens or closes the state file, or quit.
Command ==
    /\ Running /\ pc = Len(Start) + 1 /\ holder = "main"
    /\ \/ held' = (held \cup {"statefile"}) \ (held \cap {"statefile"})
          /\ UNCHANGED <<tdVars, ended>>
       \/ Begin("exit") /\ gap' = {} /\ UNCHANGED <<blocked, gone, amiss, again, caught, held, ended>>
    /\ UNCHANGED <<startVars, monVars, plugVars>>

\* A thread of a plugin takes the monitor and gives it up.
OtherEnters ==
    /\ ~ended /\ "display" \in held /\ mutex = "free"
    /\ mutex' = "other" /\ holder' = "other"
    /\ UNCHANGED <<startVars, held, tdVars, plugVars, ended>>

OtherLeaves ==
    /\ ~ended /\ mutex = "other"
    /\ mutex' = "free" /\ holder' = "none"
    /\ UNCHANGED <<startVars, held, tdVars, plugVars, ended>>

-----------------------------------------------------------------------------
\* A signal: demu_sigterm, demu_sighup, demu_sigseg.  The handler of SIGSEGV
\* first writes to xenstore, which is fatal without a connection.
Signal(s) ==
    /\ ~ended /\ s \notin blocked
    /\ blocked' = blocked \cup {s}
    /\ Begin(IF s = "SEGV" THEN "raise" ELSE "exit")
    /\ gap' = IF td = 0 THEN Uncounted \cup (table \ held) ELSE gap
    /\ again' = (again \/ (td > 0 /\ seq > 0))
    /\ caught' = (caught \/ (mutex = "main" /\ holder # "main"))
    /\ ended' = (s = "SEGV" /\ "xsh" \notin held)
    /\ sd' = "enter" /\ cursor' = 0 /\ inMon' = FALSE
    /\ UNCHANGED <<startVars, held, monVars, gone, amiss, table, initRc>>

\* The handler of SIGSEGV resets the signal to SIG_DFL: a second one kills.
Killed ==
    /\ ~ended /\ "SEGV" \in blocked
    /\ ended' = TRUE /\ how' = "kill"
    /\ UNCHANGED <<startVars, held, monVars, td, blocked, gap, gone, amiss, again, caught, plugVars>>

AtBlock == ~ended /\ td \in 1 .. Len(Teardown)
B == Teardown[td]

\* Slip: the last stage made is not undone.
ReachedMore(b) == seq > b.from

\* The test each block begins with.
Reached(b) == IF b.from = INITIALIZED THEN seq = b.from ELSE seq >= b.from

\* What it takes to undo r.
Needed(r) ==
    {x \in {"xch", "server", "xceh", "array"} : r \in Users[x]}
    \cup (IF r \in {"pidkey", "vramkey"} THEN {"xsh"} ELSE {})

Undo ==
    /\ AtBlock /\ B.what # "plugins" /\ Reached(B)
    /\ held' = held \ {B.what} /\ gone' = gone \cup {B.what}
    /\ amiss' = IF (B.what \in held \cup Optional) /\ Needed(B.what) \subseteq held
                THEN amiss ELSE amiss \cup {B.what}
    /\ td' = td + 1
    /\ UNCHANGED <<startVars, monVars, how, blocked, gap, again, caught, plugVars, ended>>

\* vmiope_shutdown: each plugin in turn is found inside the monitor, which is
\* taken if it was not held, and its shutdown routine called outside it.
ShutAt(x) == AtBlock /\ B.what = "plugins" /\ Reached(B) /\ sd = x
Shut(x) ==
    /\ sd' = x
    /\ UNCHANGED <<startVars, how, blocked, gap, again, caught, table, initRc, ended>>

\* Slip: the monitor is taken even by the thread that holds it.
EnteredNever == FALSE

\* vmiope_enter_monitor: a thread that holds the monitor is in it already.
Entered == holder = "main"

ShutEnter ==
    /\ ShutAt("enter")
    /\ inMon' = Entered
    /\ Shut(IF Entered THEN "find" ELSE "lock")
    /\ UNCHANGED <<held, monVars, td, gone, amiss, cursor>>

ShutLock ==
    /\ ShutAt("lock") /\ mutex = "free"
    /\ mutex' = "main" /\ Shut("hold")
    /\ UNCHANGED <<held, holder, td, gone, amiss, cursor, inMon>>

ShutHold ==
    /\ ShutAt("hold")
    /\ holder' = "main" /\ Shut("find")
    /\ UNCHANGED <<held, mutex, td, gone, amiss, cursor, inMon>>

\* vmiop_find_plugin: the plugin with the next handle.
ShutFind ==
    LET next == {i \in DOMAIN Plugins : i > cursor /\ Plugins[i] \in table} IN
    /\ ShutAt("find")
    /\ cursor' = IF next = {} THEN 0 ELSE Min(next)
    /\ Shut(IF next = {} /\ inMon THEN "release" ELSE "drop")
    /\ UNCHANGED <<held, monVars, td, gone, amiss, inMon>>

ShutDrop ==
    /\ ShutAt("drop")
    /\ holder' = "none" /\ Shut("unlock")
    /\ UNCHANGED <<held, mutex, td, gone, amiss, cursor, inMon>>

ShutUnlock ==
    /\ ShutAt("unlock")
    /\ mutex' = "free" /\ Shut(IF cursor = 0 THEN "release" ELSE "call")
    /\ UNCHANGED <<held, holder, td, gone, amiss, cursor, inMon>>

ShutCall ==
    LET p == Plugins[cursor] IN
    /\ ShutAt("call")
    /\ held' = held \ {p} /\ gone' = gone \cup {p}
    /\ amiss' = IF p \in held /\ Needed(p) \subseteq held THEN amiss ELSE amiss \cup {p}
    /\ Shut("lock")
    /\ UNCHANGED <<monVars, td, cursor, inMon>>

\* The pages of the video memory are given back.
ShutRelease ==
    /\ ShutAt("release")
    /\ td' = td + 1 /\ Shut("enter")
    /\ UNCHANGED <<held, monVars, gone, amiss, cursor, inMon>>

ShutdownEnv ==
    ShutEnter \/ ShutLock \/ ShutHold \/ ShutFind \/ ShutDrop \/ ShutUnlock \/ ShutCall
    \/ ShutRelease

Skip ==
    /\ AtBlock /\ ~Reached(B)
    /\ td' = td + 1
    /\ UNCHANGED <<startVars, held, monVars, how, blocked, gap, gone, amiss, again, caught, plugVars,
                   ended>>

\* The teardown is over when seq is reset; then the process exits, is killed by
\* the signal it raised, or closes the control socket and returns.
Close ==
    /\ ~ended /\ td = Len(Teardown) + 1
    /\ IF seq # 0 THEN seq' = 0 /\ UNCHANGED ended ELSE ended' = TRUE /\ UNCHANGED seq
    /\ UNCHANGED <<pc, up, held, monVars, tdVars, plugVars>>

TeardownStep == Undo \/ ShutdownEnv \/ Skip \/ Close

LifeNext ==
    \/ MakeStep \/ CheckStep \/ InsertStep \/ InitStep \/ KeepStep \/ ConfigStep \/ NoteStep
    \/ LockStep \/ HoldStep \/ DropStep \/ UnlockStep \/ SelectStep \/ Command
    \/ OtherEnters \/ OtherLeaves
    \/ (\E s \in Signals : Signal(s)) \/ Killed
    \/ TeardownStep

\* A teardown goes on, a thread leaves the monitor again, and the mutex is not
\* refused to the main thread for ever.
LifeSpec ==
    /\ LifeInit /\ [][LifeNext]_lifeVars
    /\ WF_lifeVars(TeardownStep) /\ WF_lifeVars(OtherLeaves) /\ SF_lifeVars(ShutLock)

-----------------------------------------------------------------------------
\* demu_teardown undoes a thing only while it is there, once, and while what it
\* takes to undo it is there, unless a signal finds a teardown unfinished and
\* starts another (demu_teardown, demu_sigterm, demu_sigseg).
UndoneOnce == amiss \subseteq gap \/ again

\* Nothing is undone while something that uses it is still there, whichever
\* stage the start had reached - but for the VGA and the surface, which are
\* undone before the plugins that may still call them, and these are gone when
\* the teardown is past vmiope_shutdown (the order of demu_teardown).
UsersGoFirst ==
    \A r \in DOMAIN Users \cap gone : \A u \in Users[r] \cap held :
        \/ u \in gap
        \/ r \in {"vga", "surface"} /\ td <= PluginsAt

\* What would outlive the process is gone when it ends - but for the keys of a
\* process that never came up, for what a signal found made and not yet counted,
\* and for what is there when a second SIGSEGV kills it.
NothingLeft ==
    ended /\ how # "kill" =>
        held \cap Persistent \subseteq gap \cup (IF up THEN {} ELSE {"pidkey", "vramkey"})

\* A process that has begun to end ends, unless a signal found the main thread
\* with the monitor's mutex taken and not recorded: vmiope_shutdown then waits
\* for the thread it runs on.
BegunEnds == td > 0 ~> (ended \/ caught)

=============================================================================
