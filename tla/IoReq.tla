------------------------------- MODULE IoReq -------------------------------
(***************************************************************************)
(* How the guest's accesses reach demu and are answered: the ring of       *)
(* buffered requests, the synchronous request of each vcpu, the event      *)
(* channels that announce them, and the part of demu's main loop that      *)
(* takes one port at a time, unmasks it and polls its page.                *)
(*                                                                         *)
(* What a request does is left to its handler: here it is the vcpu's n-th. *)
(* Xen's side and the event channel driver are external: an event on a     *)
(* masked port waits, and events on several ports arrive in any order.     *)
(***************************************************************************)
EXTENDS Integers, Sequences, FiniteSets

CONSTANTS
    Vcpus,      \* demu_state.vcpus
    Buf,        \* bufioreq_local_port; a vcpu is also its own port
    Slots,      \* IOREQ_BUFFER_SLOT_NUM
    MaxSends    \* bound: accesses a vcpu makes

ASSUME IoReqAssumption ==
    /\ Buf \notin Vcpus /\ IsFiniteSet(Vcpus)
    /\ Slots \in Nat \ {0, 1} /\ MaxSends \in Nat

Ports == Vcpus \cup {Buf}
Requests == [vcpu : Vcpus, n : 1 .. MaxSends, wide : BOOLEAN]
NoPort == "none"

ASSUME NoPortAssumption == NoPort \notin Ports

VARIABLES
    ring,       \* buffered_iopage->buf_ioreq
    rp, wp,     \* read_pointer and write_pointer, which do not wrap here
    state,      \* the state of vcpu_ioreq[v]
    sent,       \* accesses each vcpu has made
    owed,       \* ports to notify: the request is in its page already
    pending,    \* ports with an event Xen has not delivered
    masked,     \* ports the driver has masked
    fifo,       \* ports the driver holds for demu to read
    woken,      \* vcpus that were notified of their answer
    \* demu's main loop.
    mpc,        \* where it is
    port,       \* the port it took
    i, end,     \* read_pointer and write_pointer in demu_poll_buffered_iopage
    \* History.
    done,       \* requests of each vcpu that were handled
    overtaken   \* vcpus whose event was delivered before an older one on Buf

xenVars == <<ring, wp, sent, owed>>
evtVars == <<pending, masked, fifo>>
mainVars == <<mpc, port, i, end, done>>
vars == <<xenVars, rp, state, evtVars, woken, mainVars, overtaken>>

\* An unused slot, or the upper half of an 8-byte write.
Empty == [vcpu |-> NoPort]
States == {"none", "ready", "inprocess", "resp_ready"}

TypeOK ==
    /\ ring \in [0 .. Slots - 1 -> Requests \cup {Empty}]
    /\ rp \in Nat /\ wp \in Nat /\ wp - rp \in 0 .. Slots
    /\ state \in [Vcpus -> States]
    /\ sent \in [Vcpus -> 0 .. MaxSends]
    /\ owed \subseteq Ports \X Vcpus
    /\ pending \subseteq Ports /\ masked \subseteq Ports /\ fifo \in Seq(Ports)
    /\ woken \subseteq Vcpus
    /\ mpc \in {"select", "unmask", "pointers", "batch", "check", "handle", "respond", "notify"}
    /\ port \in Ports \cup {NoPort}
    /\ i \in Nat /\ end \in Nat
    /\ done \in [Vcpus -> SUBSET (1 .. MaxSends)]
    /\ overtaken \subseteq Vcpus

Init ==
    /\ ring = [s \in 0 .. Slots - 1 |-> Empty] /\ rp = 0 /\ wp = 0
    /\ state = [v \in Vcpus |-> "none"] /\ sent = [v \in Vcpus |-> 0]
    /\ owed = {} /\ pending = {} /\ masked = {} /\ fifo = <<>> /\ woken = {}
    /\ mpc = "select" /\ port = NoPort /\ i = 0 /\ end = 0
    /\ done = [v \in Vcpus |-> {}] /\ overtaken = {}

-----------------------------------------------------------------------------
\* Xen.

\* v executes guest code: it owes no notification and waits for no answer.
Runs(v) == state[v] = "none" /\ \A p \in Ports : <<p, v>> \notin owed

Width(w) == IF w THEN 2 ELSE 1
Request(v, w) == [vcpu |-> v, n |-> sent[v] + 1, wide |-> w]

\* A buffered write; one of 8 bytes takes two slots.
SendBuffered(v, w) ==
    /\ Runs(v) /\ sent[v] < MaxSends /\ wp - rp <= Slots - Width(w)
    /\ ring' = [s \in DOMAIN ring |->
                  IF s = wp % Slots THEN Request(v, w)
                  ELSE IF w /\ s = (wp + 1) % Slots THEN Empty ELSE ring[s]]
    /\ wp' = wp + Width(w)
    /\ sent' = [sent EXCEPT ![v] = @ + 1]
    /\ owed' = owed \cup {<<Buf, v>>}
    /\ UNCHANGED <<rp, state, evtVars, woken, mainVars, overtaken>>

\* Any other access, and a write that finds the ring full: the vcpu waits.
SendSync(v) ==
    /\ Runs(v) /\ sent[v] < MaxSends
    /\ state' = [state EXCEPT ![v] = "ready"]
    /\ sent' = [sent EXCEPT ![v] = @ + 1]
    /\ owed' = owed \cup {<<v, v>>}
    /\ UNCHANGED <<ring, wp, rp, evtVars, woken, mainVars, overtaken>>

Notify(p, v) ==
    /\ <<p, v>> \in owed
    /\ owed' = owed \ {<<p, v>>} /\ pending' = pending \cup {p}
    /\ UNCHANGED <<ring, wp, sent, rp, state, masked, fifo, woken, mainVars, overtaken>>

\* The driver masks a port whose event it delivers.  A vcpu's event may be
\* delivered while an older one on Buf could be.
Deliver(p) ==
    /\ p \in pending \ masked
    /\ pending' = pending \ {p} /\ masked' = masked \cup {p} /\ fifo' = Append(fifo, p)
    /\ overtaken' = IF p \in Vcpus /\ Buf \in pending \ masked THEN overtaken \cup {p}
                    ELSE overtaken
    /\ UNCHANGED <<xenVars, rp, state, woken, mainVars>>

\* A vcpu runs on when it sees its answer, which it may before it is notified.
Resume(v) ==
    /\ state[v] = "resp_ready"
    /\ woken' = woken \ {v} /\ state' = [state EXCEPT ![v] = "none"]
    /\ UNCHANGED <<xenVars, rp, evtVars, mainVars, overtaken>>

-----------------------------------------------------------------------------
\* demu_poll_iopages and what it calls.

\* Slip: the other ports that were read with this one are dropped.
TakeOnly ==
    /\ mpc = "select" /\ fifo # <<>>
    /\ port' = Head(fifo) /\ fifo' = <<>> /\ mpc' = "unmask"
    /\ UNCHANGED <<xenVars, rp, state, pending, masked, woken, i, end, done, overtaken>>

TakePort ==
    /\ mpc = "select" /\ fifo # <<>>
    /\ port' = Head(fifo) /\ fifo' = Tail(fifo) /\ mpc' = "unmask"
    /\ UNCHANGED <<xenVars, rp, state, pending, masked, woken, i, end, done, overtaken>>

\* Slip: the port is not unmasked.
UnmaskNot ==
    /\ mpc = "unmask"
    /\ mpc' = IF port = Buf THEN "pointers" ELSE "check"
    /\ UNCHANGED <<xenVars, rp, state, evtVars, woken, port, i, end, done, overtaken>>

Unmask ==
    /\ mpc = "unmask"
    /\ masked' = masked \ {port}
    /\ mpc' = IF port = Buf THEN "pointers" ELSE "check"
    /\ UNCHANGED <<xenVars, rp, state, pending, fifo, woken, port, i, end, done, overtaken>>

\* Slip: the slots are given back before they are read.
ReadPointersEarly ==
    /\ mpc = "pointers"
    /\ i' = rp /\ end' = wp /\ rp' = wp
    /\ mpc' = IF rp = wp THEN "select" ELSE "batch"
    /\ UNCHANGED <<xenVars, state, evtVars, woken, port, done, overtaken>>

\* The write pointer is read once for a batch.
ReadPointers ==
    /\ mpc = "pointers"
    /\ i' = rp /\ end' = wp
    /\ mpc' = IF rp = wp THEN "select" ELSE "batch"
    /\ UNCHANGED <<xenVars, rp, state, evtVars, woken, port, done, overtaken>>

HandleIoreq(v, n) == done' = [done EXCEPT ![v] = @ \cup {n}]

HandleBuffered ==
    LET r == ring[i % Slots] IN
    /\ mpc = "batch" /\ i # end
    /\ HandleIoreq(r.vcpu, r.n)
    /\ i' = i + Width(r.wide)
    /\ UNCHANGED <<xenVars, rp, state, evtVars, woken, mpc, port, end, overtaken>>

\* The slots of a whole batch are given back at once.
Publish ==
    /\ mpc = "batch" /\ i = end
    /\ rp' = i /\ mpc' = "pointers"
    /\ UNCHANGED <<xenVars, state, evtVars, woken, port, i, end, done, overtaken>>

CheckReady ==
    /\ mpc = "check"
    /\ IF state[port] = "ready"
       THEN state' = [state EXCEPT ![port] = "inprocess"] /\ mpc' = "handle"
       ELSE mpc' = "select" /\ UNCHANGED state
    /\ UNCHANGED <<xenVars, rp, evtVars, woken, port, i, end, done, overtaken>>

HandleShared ==
    /\ mpc = "handle"
    /\ HandleIoreq(port, sent[port])
    /\ mpc' = "respond"
    /\ UNCHANGED <<xenVars, rp, state, evtVars, woken, port, i, end, overtaken>>

Respond ==
    /\ mpc = "respond"
    /\ state' = [state EXCEPT ![port] = "resp_ready"]
    /\ mpc' = "notify"
    /\ UNCHANGED <<xenVars, rp, evtVars, woken, port, i, end, done, overtaken>>

\* Slip: the vcpu is not notified.
NotifyNot ==
    /\ mpc = "notify"
    /\ mpc' = "select"
    /\ UNCHANGED <<xenVars, rp, state, evtVars, woken, port, i, end, done, overtaken>>

NotifyVcpu ==
    /\ mpc = "notify"
    /\ woken' = woken \cup {port} /\ mpc' = "select"
    /\ UNCHANGED <<xenVars, rp, state, evtVars, port, i, end, done, overtaken>>

MainStep == TakePort \/ Unmask \/ ReadPointers \/ HandleBuffered \/ Publish \/ CheckReady
            \/ HandleShared \/ Respond \/ NotifyVcpu

Next ==
    \/ \E v \in Vcpus : SendSync(v) \/ Resume(v)
    \/ \E v \in Vcpus, w \in BOOLEAN : SendBuffered(v, w)
    \/ \E p \in Ports, v \in Vcpus : Notify(p, v)
    \/ \E p \in Ports : Deliver(p)
    \/ MainStep

\* The main loop keeps running; Xen sends the events it owes and the driver
\* delivers them; a vcpu that was notified looks at its page.
Fairness ==
    /\ WF_vars(MainStep)
    /\ \A p \in Ports, v \in Vcpus : WF_vars(Notify(p, v))
    /\ \A p \in Ports : WF_vars(Deliver(p))
    /\ \A v \in Vcpus : WF_vars(v \in woken /\ Resume(v))

Spec == Init /\ [][Next]_vars /\ Fairness

-----------------------------------------------------------------------------
\* The slots of the ring that demu has yet to read.
Unread == (IF mpc = "batch" THEN i ELSE rp) .. wp - 1
InRing(v) == {ring[s % Slots].n : s \in {t \in Unread : ring[t % Slots].vcpu = v}}

\* The synchronous access of v that is yet to be handled.
InPage(v) == IF state[v] \in {"ready", "inprocess"} /\ ~(port = v /\ mpc = "respond")
             THEN {sent[v]} ELSE {}

\* Every access a vcpu has made has been handled, or is in one of the pages
\* and will be: none is lost when slots are reused, none is handled twice
\* (demu.c:2710-2751).
Accounted ==
    \A v \in Vcpus :
        /\ done[v] \cup InRing(v) \cup InPage(v) = 1 .. sent[v]
        /\ done[v] \cap (InRing(v) \cup InPage(v)) = {} /\ InRing(v) \cap InPage(v) = {}

\* The event for p has not been taken in by demu.
Announced(p) ==
    \/ \E v \in Vcpus : <<p, v>> \in owed
    \/ p \in pending \/ (\E j \in DOMAIN fifo : fifo[j] = p)
    \/ port = p /\ mpc = "unmask"

\* A request in a page is one that demu is reading or will be told of, and a
\* masked port will be unmasked: that is what unmasking before the page is
\* polled is for (demu.c:2788-2796).
NothingForgotten ==
    /\ rp # wp => Announced(Buf) \/ (port = Buf /\ mpc \in {"pointers", "batch"})
    /\ \A v \in Vcpus : state[v] = "ready" => Announced(v) \/ (port = v /\ mpc = "check")
    /\ \A p \in masked : (\E j \in DOMAIN fifo : fifo[j] = p) \/ (port = p /\ mpc = "unmask")

\* A vcpu's accesses are handled in the order it made them, unless an event of
\* its own was delivered before an older one on the ring's port: demu does not
\* drain the ring before it answers (demu.c:2755).
InOrder ==
    \A v \in Vcpus \ overtaken : \A n \in done[v] : 1 .. n \subseteq done[v]

\* A vcpu waits from its access until it sees the answer.
A == INSTANCE Accesses WITH waiting <- [v \in Vcpus |-> state[v] # "none"]

\* What the guest relies on: every access takes effect, and the vcpu waits for
\* the answer to those that have one (demu.c:2698-2799).
ImplementsAccesses == A!Spec
=============================================================================
