------------------------------ MODULE Threads ------------------------------
(***************************************************************************)
(* The threads of a demu process and what keeps them apart, from           *)
(* vmiop-env.c: the monitor, with its test for a thread that is in it      *)
(* already, the locks of the object tables, an event variable, and the     *)
(* start of a new thread.                                                  *)
(*                                                                         *)
(* A call of the plugin environment is the sequence of its steps on the    *)
(* monitor and the locks (Body); a thread makes any call it is offered,    *)
(* from inside the monitor or from outside, again and again.               *)
(***************************************************************************)
EXTENDS Sequences, FiniteSets

CONSTANTS
    Threads,
    Main,       \* the thread vmiope_initialize enters the monitor in
    None,       \* nobody
    Offers      \* the calls each thread makes

Locks == {"monitor", "table", "event"}
CallNames == {"serve", "deliver", "callback", "table", "map", "wait", "post", "spawn",
              "select"}

ASSUME ThreadAssumption ==
    /\ Main \in Threads /\ None \notin Threads
    /\ Offers \in [Threads -> SUBSET CallNames]
    /\ \A t \in Threads : "select" \in Offers[t] => t = Main

VARIABLES
    owner,      \* who holds each mutex
    held,       \* vmiope_monitor_held
    holder,     \* vmiope_monitor_holder
    todo,       \* the steps left of each thread's call
    at,         \* where each thread is in the first of them
    in,         \* its local in_monitor
    isSet,      \* event_set
    sleepers,   \* threads in pthread_cond_wait that nobody has woken
    clear,      \* clear_before_return of the threads in pthread_cond_wait
    child,      \* the thread vmiop_thread_alloc started
    known,      \* its creator has its handle
    \* History.
    was,        \* the thread was in the monitor when it made its call
    leaked,     \* a call returned through an exit that forgets the monitor
    firstPost   \* the event was last set by a post with wakeup_first

monVars   == <<owner, held, holder>>
eventVars == <<isSet, sleepers, clear, firstPost>>
childVars == <<child, known>>
callVars  == <<todo, at, in, was>>
vars == <<monVars, eventVars, childVars, callVars, leaked>>

Body == [
    \* Uses of qemu facilities, as in vmiope_register_plugin.
    serve    |-> <<"enterSave", "monWork", "leaveUnless">>,
    deliver  |-> <<"enterSave", "find", "leave", "outside", "enterIf">>,
    \* A read or write of the guest that the plugin serves.
    callback |-> <<"leaveSave", "outside", "enterIf">>,
    \* Allocation and release of locks, events and mappings.
    table    |-> <<"leaveSave", "lockTable", "tableWork", "unlockTable", "enterIf">>,
    map      |-> <<"leaveSave", "lockTable", "allocate", "unlockTable", "enter", "malloc",
                   "monWork", "leaveUnless">>,
    wait     |-> <<"leaveSave", "lockEvent", "wait", "unlockEvent", "enterIf">>,
    post     |-> <<"leaveSave", "lockEvent", "post", "unlockEvent", "enterIf">>,
    spawn    |-> <<"leaveSave", "lockTable", "create", "unlockTable", "enterIf",
                   "setHandle">>,
    \* The main loop around select.
    select   |-> <<"leave", "outside", "enter">>]

Steps == {"enter", "enterSave", "enterIf", "leave", "leaveSave", "leaveUnless", "lockTable",
          "unlockTable", "lockEvent", "unlockEvent", "monWork", "tableWork", "outside",
          "find", "allocate", "malloc", "wait", "post", "create", "setHandle"}
Ats == {"begin", "holder", "mutex", "setHolder", "setHeld", "unlock", "asleep"}

InCall(t) == todo[t] # <<>>
At(t, step, a) == InCall(t) /\ Head(todo[t]) = step /\ at[t] = a

TypeOK ==
    /\ owner \in [Locks -> Threads \cup {None}]
    /\ held \in BOOLEAN /\ holder \in Threads \cup {None}
    /\ todo \in [Threads -> Seq(Steps)] /\ at \in [Threads -> Ats]
    /\ in \in [Threads -> BOOLEAN] /\ was \in [Threads -> BOOLEAN]
    /\ isSet \in BOOLEAN /\ sleepers \subseteq Threads /\ clear \in [Threads -> BOOLEAN]
    /\ child \in {"none", "created", "running"} /\ known \in BOOLEAN
    /\ leaked \in BOOLEAN /\ firstPost \in BOOLEAN

Init ==
    /\ owner = [l \in Locks |-> IF l = "monitor" THEN Main ELSE None]
    /\ held = TRUE /\ holder = Main
    /\ todo = [t \in Threads |-> <<>>] /\ at = [t \in Threads |-> "begin"]
    /\ in = [t \in Threads |-> FALSE] /\ was = [t \in Threads |-> t = Main]
    /\ isSet = FALSE /\ sleepers = {} /\ clear = [t \in Threads |-> FALSE]
    /\ child = "none" /\ known = FALSE /\ leaked = FALSE /\ firstPost = FALSE

-----------------------------------------------------------------------------
InMonitor(t) == owner["monitor"] = t

\* The first step of t's call is over: the next one begins.
Done(t) == todo' = [todo EXCEPT ![t] = Tail(@)] /\ at' = [at EXCEPT ![t] = "begin"]

\* What is left of t's call is s.
ReturnBy(t, s) == todo' = [todo EXCEPT ![t] = s] /\ at' = [at EXCEPT ![t] = "begin"]

GoOn(t, a) == at' = [at EXCEPT ![t] = a] /\ UNCHANGED todo

\* Store b in in_monitor, if the step was given a reference to it.
Save(t, b) == in' = IF Head(todo[t]) \in {"enterSave", "leaveSave"}
                    THEN [in EXCEPT ![t] = b] ELSE in

\* A new call; it is not made while the last thread started is unaccounted for.
Call(t, c) ==
    /\ ~InCall(t) /\ c \in Offers[t]
    /\ c = "spawn" => child = "none" /\ \A u \in Threads : ~At(u, "setHandle", "begin")
    /\ todo' = [todo EXCEPT ![t] = Body[c]]
    /\ was' = [was EXCEPT ![t] = InMonitor(t)]
    /\ UNCHANGED <<monVars, at, in, eventVars, childVars, leaked>>

Entering(t) ==
    /\ InCall(t)
    /\ \/ Head(todo[t]) \in {"enter", "enterSave"}
       \/ Head(todo[t]) = "enterIf" /\ in[t]

Leaving(t) ==
    /\ InCall(t)
    /\ \/ Head(todo[t]) \in {"leave", "leaveSave"}
       \/ Head(todo[t]) = "leaveUnless" /\ ~in[t]

Skip(t) ==
    /\ InCall(t)
    /\ \/ Head(todo[t]) = "enterIf" /\ ~in[t]
       \/ Head(todo[t]) = "leaveUnless" /\ in[t]
    /\ Done(t)
    /\ UNCHANGED <<monVars, in, was, eventVars, childVars, leaked>>

\* Slip: the lock is taken from inside the monitor.
TestHeldStays(t) ==
    /\ Entering(t) \/ Leaving(t)
    /\ at[t] = "begin"
    /\ IF held /\ Entering(t) THEN GoOn(t, "holder") /\ UNCHANGED in
       ELSE IF Entering(t) THEN GoOn(t, "mutex") /\ UNCHANGED in
       ELSE Done(t) /\ Save(t, FALSE)
    /\ UNCHANGED <<monVars, was, eventVars, childVars, leaked>>

\* vmiope_enter_monitor and vmiope_leave_monitor read vmiope_monitor_held
\* without the mutex ...
TestHeld(t) ==
    /\ Entering(t) \/ Leaving(t)
    /\ at[t] = "begin"
    /\ IF held THEN GoOn(t, "holder") /\ UNCHANGED in
       ELSE IF Entering(t) THEN GoOn(t, "mutex") /\ UNCHANGED in
       ELSE Done(t) /\ Save(t, FALSE)
    /\ UNCHANGED <<monVars, was, eventVars, childVars, leaked>>

\* Slip: held alone says that the monitor is ours.
TestHolderHeldOnly(t) ==
    /\ Entering(t) \/ Leaving(t)
    /\ at[t] = "holder"
    /\ IF Entering(t) THEN Done(t) /\ Save(t, TRUE) /\ UNCHANGED held
       ELSE GoOn(t, "unlock") /\ held' = FALSE /\ UNCHANGED in
    /\ UNCHANGED <<owner, holder, was, eventVars, childVars, leaked>>

\* ... and then vmiope_monitor_holder.
TestHolder(t) ==
    /\ Entering(t) \/ Leaving(t)
    /\ at[t] = "holder"
    /\ IF holder = t
       THEN IF Entering(t) THEN Done(t) /\ Save(t, TRUE) /\ UNCHANGED held
            ELSE GoOn(t, "unlock") /\ held' = FALSE /\ UNCHANGED in
       ELSE IF Entering(t) THEN GoOn(t, "mutex") /\ UNCHANGED <<in, held>>
            ELSE Done(t) /\ Save(t, FALSE) /\ UNCHANGED held
    /\ UNCHANGED <<owner, holder, was, eventVars, childVars, leaked>>

MonitorMutex(t) ==
    /\ Entering(t) /\ at[t] = "mutex" /\ owner["monitor"] = None
    /\ owner' = [owner EXCEPT !["monitor"] = t]
    /\ GoOn(t, "setHolder")
    /\ UNCHANGED <<held, holder, in, was, eventVars, childVars, leaked>>

SetHolder(t) ==
    /\ Entering(t) /\ at[t] = "setHolder"
    /\ holder' = t
    /\ GoOn(t, "setHeld")
    /\ UNCHANGED <<owner, held, in, was, eventVars, childVars, leaked>>

SetHeld(t) ==
    /\ Entering(t) /\ at[t] = "setHeld"
    /\ held' = TRUE
    /\ Done(t) /\ Save(t, FALSE)
    /\ UNCHANGED <<owner, holder, was, eventVars, childVars, leaked>>

MonitorUnlock(t) ==
    /\ Leaving(t) /\ at[t] = "unlock"
    /\ owner' = [owner EXCEPT !["monitor"] = None]
    /\ Done(t) /\ Save(t, TRUE)
    /\ UNCHANGED <<held, holder, was, eventVars, childVars, leaked>>

-----------------------------------------------------------------------------
LockOf(s) == CASE s \in {"lockTable", "unlockTable"} -> "table"
               [] s \in {"lockEvent", "unlockEvent"} -> "event"

Acquire(t) ==
    /\ InCall(t) /\ Head(todo[t]) \in {"lockTable", "lockEvent"}
    /\ LET l == LockOf(Head(todo[t])) IN
       owner[l] = None /\ owner' = [owner EXCEPT ![l] = t]
    /\ Done(t)
    /\ UNCHANGED <<held, holder, in, was, eventVars, childVars, leaked>>

Release(t) ==
    /\ InCall(t) /\ Head(todo[t]) \in {"unlockTable", "unlockEvent"}
    /\ owner' = [owner EXCEPT ![LockOf(Head(todo[t]))] = None]
    /\ Done(t)
    /\ UNCHANGED <<held, holder, in, was, eventVars, childVars, leaked>>

Work(t) ==
    /\ InCall(t) /\ Head(todo[t]) \in {"monWork", "tableWork", "outside"}
    /\ Done(t)
    /\ UNCHANGED <<monVars, in, was, eventVars, childVars, leaked>>

\* Slip: the first error exit forgets the monitor too.
FindForgets(t) ==
    /\ At(t, "find", "begin")
    /\ \/ Done(t) /\ UNCHANGED leaked
       \/ ReturnBy(t, <<>>) /\ leaked' \in BOOLEAN
    /\ UNCHANGED <<monVars, in, was, eventVars, childVars>>

\* vmiop_deliver_message looks up its caller, then the plugin to deliver to;
\* it returns at once when there is no such plugin.
Find(t) ==
    /\ At(t, "find", "begin")
    /\ \/ Done(t) /\ UNCHANGED leaked
       \/ ReturnBy(t, <<"leaveUnless">>) /\ UNCHANGED leaked
       \/ ReturnBy(t, <<>>) /\ leaked' = TRUE
    /\ UNCHANGED <<monVars, in, was, eventVars, childVars>>

\* The mapping table may be full.
Allocate(t) ==
    /\ At(t, "allocate", "begin")
    /\ Done(t) \/ ReturnBy(t, <<"unlockTable", "enterIf">>)
    /\ UNCHANGED <<monVars, in, was, eventVars, childVars, leaked>>

\* Without memory vmiop_map_guest_memory_pages unlocks what it has unlocked.
Malloc(t) ==
    /\ At(t, "malloc", "begin")
    /\ \/ Done(t) /\ UNCHANGED leaked
       \/ ReturnBy(t, <<"unlockTable", "enterIf">>) /\ leaked' = TRUE
    /\ UNCHANGED <<monVars, in, was, eventVars, childVars>>

\* Slip: a waiter goes to sleep with the mutex.
WaitTestKeeps(t) ==
    /\ At(t, "wait", "begin")
    /\ IF isSet
       THEN isSet' \in BOOLEAN /\ Done(t) /\ UNCHANGED sleepers
       ELSE sleepers' = sleepers \cup {t} /\ GoOn(t, "asleep") /\ UNCHANGED isSet
    /\ UNCHANGED <<monVars, in, was, clear, firstPost, childVars, leaked>>

\* vmiop_thread_event_wait: an event that is set ends the wait, cleared if
\* the caller asked for it; else the thread sleeps and gives the mutex up ...
WaitTest(t) ==
    /\ At(t, "wait", "begin")
    /\ IF isSet
       THEN /\ isSet' \in BOOLEAN
            /\ Done(t)
            /\ UNCHANGED <<owner, sleepers, clear>>
       ELSE /\ owner' = [owner EXCEPT !["event"] = None]
            /\ sleepers' = sleepers \cup {t}
            /\ \E b \in BOOLEAN : clear' = [clear EXCEPT ![t] = b]
            /\ GoOn(t, "asleep")
            /\ UNCHANGED isSet
    /\ UNCHANGED <<held, holder, in, was, firstPost, childVars, leaked>>

\* ... until it is woken, its time is over, or for no reason.
Wake(t) ==
    /\ t \in sleepers
    /\ sleepers' = sleepers \ {t}
    /\ UNCHANGED <<monVars, callVars, isSet, clear, firstPost, childVars, leaked>>

\* With the mutex again it reports success exactly if the event is set.
WaitReturn(t) ==
    /\ At(t, "wait", "asleep") /\ t \notin sleepers /\ owner["event"] = None
    /\ owner' = [owner EXCEPT !["event"] = t]
    /\ isSet' = (isSet /\ ~clear[t]) /\ clear' = [clear EXCEPT ![t] = FALSE]
    /\ Done(t)
    /\ UNCHANGED <<held, holder, in, was, sleepers, firstPost, childVars, leaked>>

\* Slip: one waiter is woken whatever wakeup_first says.
PostSignals(t) ==
    /\ At(t, "post", "begin")
    /\ IF isSet THEN UNCHANGED <<isSet, sleepers, firstPost>>
       ELSE /\ isSet' = TRUE /\ firstPost' \in BOOLEAN
            /\ \/ sleepers = {} /\ UNCHANGED sleepers
               \/ \E s \in sleepers : sleepers' = sleepers \ {s}
    /\ Done(t)
    /\ UNCHANGED <<monVars, in, was, clear, childVars, leaked>>

\* vmiop_thread_event_post: an event that is set already wakes nobody.
Post(t) ==
    /\ At(t, "post", "begin")
    /\ IF isSet THEN UNCHANGED <<isSet, sleepers, firstPost>>
       ELSE /\ isSet' = TRUE
            /\ \/ firstPost' = FALSE /\ sleepers' = {}
               \/ /\ firstPost' = TRUE
                  /\ \/ sleepers = {} /\ UNCHANGED sleepers
                     \/ \E s \in sleepers : sleepers' = sleepers \ {s}
    /\ Done(t)
    /\ UNCHANGED <<monVars, in, was, clear, childVars, leaked>>

\* pthread_create may fail.
Create(t) ==
    /\ At(t, "create", "begin")
    /\ \/ child' = "created" /\ known' = FALSE
       \/ UNCHANGED childVars
    /\ Done(t)
    /\ UNCHANGED <<monVars, in, was, eventVars, leaked>>

\* The handle is stored when the locks are given back.
SetHandle(t) ==
    /\ At(t, "setHandle", "begin")
    /\ known' = TRUE
    /\ Done(t)
    /\ UNCHANGED <<monVars, in, was, eventVars, child, leaked>>

\* vmiope_thread_init takes the table lock and gives it back.
ChildStart ==
    /\ child = "created" /\ owner["table"] = None
    /\ child' = "running"
    /\ UNCHANGED <<monVars, eventVars, known, callVars, leaked>>

ChildExit ==
    /\ child = "running" /\ known
    /\ child' = "none"
    /\ UNCHANGED <<monVars, eventVars, known, callVars, leaked>>

ThreadStep(t) ==
    \/ Skip(t) \/ TestHeld(t) \/ TestHolder(t) \/ MonitorMutex(t) \/ SetHolder(t)
    \/ SetHeld(t) \/ MonitorUnlock(t) \/ Acquire(t) \/ Release(t) \/ Work(t) \/ Find(t)
    \/ Allocate(t) \/ Malloc(t) \/ WaitTest(t) \/ Wake(t) \/ WaitReturn(t) \/ Post(t)
    \/ Create(t) \/ SetHandle(t)

Next ==
    \/ \E t \in Threads : ThreadStep(t) \/ \E c \in CallNames : Call(t, c)
    \/ ChildStart \/ ChildExit

Spec == Init /\ [][Next]_vars

-----------------------------------------------------------------------------
(* Properties.                                                             *)

\* Who works under the monitor owns its mutex, and says so: the test of
\* vmiope_monitor_held and vmiope_monitor_holder, which other threads are
\* writing, never takes a thread for the holder that is not.
MonitorIsOwned ==
    \A t \in Threads :
        (\E s \in {"monWork", "find", "malloc"} : At(t, s, "begin")) \/ At(t, "leaveUnless", "unlock")
            => InMonitor(t) /\ holder = t

\* A thread is outside, in a plugin's callback, in select or asleep on an event,
\* only without the monitor and without any lock.
NothingHeldOutside ==
    \A t \in Threads :
        At(t, "outside", "begin") \/ At(t, "wait", "asleep") =>
            \A l \in Locks : owner[l] # t

\* Where a thread can block for a mutex.
Wants(t, l) ==
    \/ l = "monitor" /\ Entering(t) /\ at[t] = "mutex"
    \/ l = "table" /\ At(t, "lockTable", "begin")
    \/ l = "event" /\ (At(t, "lockEvent", "begin") \/ At(t, "wait", "asleep"))

\* A thread that waits for a mutex holds none: the environment cannot deadlock
\* on its own locks.
NoHoldAndWait ==
    \A t \in Threads, k, l \in Locks : Wants(t, l) => owner[k] # t

\* A call returns to a thread that is in the monitor exactly if it was when it
\* made the call, unless a call has returned through one of the two exits that
\* forget the monitor.
CallRestoresMonitor ==
    ~leaked => \A t \in Threads : ~InCall(t) => (InMonitor(t) <=> was[t])

\* A set event leaves nobody asleep, unless the post that set it woke only one.
NobodySleepsOnSetEvent == isSet /\ ~firstPost => sleepers = {}

\* vmiop-env.c:769, "enter the monitor when call from plugins and leave it before
\* return": no call from outside the monitor returns inside it.
MonitorLeftBeforeReturn ==
    \A t \in Threads : ~InCall(t) /\ ~was[t] => ~InMonitor(t)

\* vmiop-env.c:3234, "block until vmiop_thread_alloc() finishes": the new thread
\* runs only when its creator has its handle.
StartedThreadIsKnown == child = "running" => known
=============================================================================
