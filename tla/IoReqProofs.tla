---------------------------- MODULE IoReqProofs ----------------------------
(***************************************************************************)
(* Proofs about IoReq, for any vcpus and any number of slots: that the     *)
(* ring and the event channels lose no access and take none twice, that    *)
(* accesses are handled in order but for the overtaking demu allows, and   *)
(* that every step is a step of Accesses or a stutter.                     *)
(***************************************************************************)
EXTENDS IoReq, TLAPS

\* The slot at a position of the write pointer's count.
Cell(t) == ring[t % Slots]
Rd == IF mpc = "batch" THEN i ELSE rp
InFifo(p) == \E j \in DOMAIN fifo : fifo[j] = p
Polled == port = Buf /\ mpc \in {"pointers", "batch"}

\* Where the main loop is, by its port.
MainInv ==
    /\ mpc # "select" => port \in Ports
    /\ mpc \in {"pointers", "batch"} => port = Buf
    /\ mpc \in {"check", "handle", "respond", "notify"} => port \in Vcpus
    /\ \A v \in Vcpus : state[v] = "inprocess" <=> port = v /\ mpc \in {"handle", "respond"}

\* A port is masked as long as its event is with demu and no longer.
MaskInv ==
    /\ \A p \in Ports : p \in masked <=> InFifo(p) \/ (port = p /\ mpc = "unmask")
    /\ mpc = "unmask" => ~InFifo(port)
    /\ \A j, k \in DOMAIN fifo : fifo[j] = fifo[k] => j = k

\* A vcpu that made a synchronous access has one event on its way to demu, and
\* no other vcpu has any; the ring has one when it is not empty.
EventInv ==
    /\ \A p \in Ports, v \in Vcpus : <<p, v>> \in owed => p \in {v, Buf}
    /\ \A v \in Vcpus :
        /\ state[v] = "ready" <=>
             \/ <<v, v>> \in owed \/ v \in pending \/ InFifo(v)
             \/ port = v /\ mpc \in {"unmask", "check"}
        /\ <<v, v>> \in owed => v \notin pending
        /\ <<v, v>> \in owed \/ v \in pending =>
             ~InFifo(v) /\ ~(port = v /\ mpc \in {"unmask", "check"})
        /\ InFifo(v) => ~(port = v /\ mpc \in {"unmask", "check"})
    /\ rp # wp => Announced(Buf) \/ Polled

\* What is between the pointers is whole requests.
Boundary(t) == t = wp \/ Cell(t).vcpu \in Vcpus
RingInv ==
    /\ rp <= Rd /\ Rd <= wp /\ Boundary(Rd)
    /\ mpc = "batch" => i <= end /\ end <= wp /\ Boundary(end)
    /\ \A t \in Rd .. wp - 1 : Cell(t).vcpu \in Vcpus =>
        /\ t + Width(Cell(t).wide) <= wp /\ Boundary(t + Width(Cell(t).wide))
        /\ Cell(t).wide => Cell(t + 1) = Empty

\* The ring is in the order its vcpus wrote it.
OrderInv ==
    \A s, t \in Rd .. wp - 1 :
        s < t /\ Cell(s).vcpu = Cell(t).vcpu /\ Cell(t).vcpu \in Vcpus => Cell(s).n < Cell(t).n

\* An answer is there when the access was handled.
AnswerInv ==
    /\ \A v \in Vcpus : state[v] = "resp_ready" => sent[v] \in done[v]
    /\ mpc = "respond" => sent[port] \in done[port]

\* The ring's event, once with demu, is there until the ring was read empty.
BufTaken == port = Buf /\ mpc \in {"unmask", "pointers", "batch"}

\* What a vcpu left in the ring has been announced when the vcpu waits, and
\* the announcement is ahead of the vcpu's own but for overtaking.
QueueInv ==
    /\ \A v \in Vcpus : InRing(v) # {} =>
         <<Buf, v>> \in owed \/ Buf \in pending \/ InFifo(Buf) \/ BufTaken
    /\ \A v \in Vcpus : state[v] # "none" => <<Buf, v>> \notin owed
    /\ \A v \in Vcpus \ overtaken : state[v] \in {"ready", "inprocess"} /\ InRing(v) # {} =>
         /\ \A j \in DOMAIN fifo : fifo[j] = v =>
              (\E k \in DOMAIN fifo : k < j /\ fifo[k] = Buf) \/ BufTaken
         /\ ~(port = v /\ mpc \in {"unmask", "check", "handle", "respond"})

IInv == /\ TypeOK /\ MainInv /\ MaskInv /\ EventInv /\ RingInv /\ OrderInv /\ AnswerInv
        /\ Accounted /\ QueueInv /\ InOrder

-----------------------------------------------------------------------------
\* The ring.

LEMMA ModRange ==
    ASSUME NEW t \in Nat
    PROVE  t % Slots \in 0 .. Slots - 1
  BY IoReqAssumption

LEMMA Division ==
    ASSUME NEW t \in Nat
    PROVE  t \div Slots \in Int /\ t = Slots * (t \div Slots) + (t % Slots)
  BY IoReqAssumption

LEMMA SameQuotient ==
    ASSUME NEW q \in Int, NEW r \in Int,
           Slots * q - Slots * r < Slots, Slots * r - Slots * q < Slots
    PROVE  q = r
  <1>1. Slots * q - Slots * r = Slots * (q - r)
    BY IoReqAssumption
  <1>2. q - r < 1
    BY <1>1, IoReqAssumption
  <1>3. r - q < 1
    BY <1>1, IoReqAssumption
  <1>4. QED
    BY <1>2, <1>3

\* Positions less than the length of the ring apart have slots of their own.
LEMMA SlotsDiffer ==
    ASSUME NEW a \in Nat, NEW b \in Nat, a < b, b - a < Slots
    PROVE  a % Slots # b % Slots
  <1> SUFFICES ASSUME a % Slots = b % Slots
               PROVE  FALSE
    OBVIOUS
  <1> DEFINE q == a \div Slots
             r == b \div Slots
  <1>1. q \in Int /\ r \in Int /\ a % Slots \in Nat /\ Slots \in Nat
    BY Division, ModRange, IoReqAssumption
  <1>2. a = Slots * q + (a % Slots) /\ b = Slots * r + (a % Slots)
    BY Division
  <1> HIDE DEF q, r
  <1>3. Slots * q \in Int /\ Slots * r \in Int
    BY <1>1
  <1>4. Slots * r - Slots * q < Slots /\ Slots * q - Slots * r < Slots
    BY <1>1, <1>2, <1>3
  <1>5. q = r
    BY <1>1, <1>4, SameQuotient
  <1>6. QED
    BY <1>1, <1>2, <1>5

LEMMA CellType ==
    ASSUME TypeOK, NEW t \in Nat
    PROVE  /\ Cell(t) \in Requests \cup {Empty}
           /\ Cell(t).vcpu \in Vcpus => Cell(t) \in Requests
  <1>1. t % Slots \in 0 .. Slots - 1
    BY ModRange
  <1>2. Cell(t) \in Requests \cup {Empty}
    BY <1>1, Zenon DEF TypeOK, Cell
  <1>3. Empty.vcpu \notin Vcpus
    BY NoPortAssumption DEF Empty, Ports
  <1>4. QED
    BY <1>2, <1>3

-----------------------------------------------------------------------------
\* Types.
LEMMA TypeStep == TypeOK /\ MainInv /\ RingInv /\ Accounted /\ [Next]_vars => TypeOK'
  <1> SUFFICES ASSUME TypeOK, MainInv, RingInv, Accounted, [Next]_vars
               PROVE  TypeOK'
    OBVIOUS
  <1> USE DEF xenVars, evtVars, mainVars
  <1>1. ASSUME NEW v \in Vcpus, SendSync(v)
        PROVE  TypeOK'
    <2>1. sent' \in [Vcpus -> 0 .. MaxSends]
      BY <1>1, IoReqAssumption DEF TypeOK, SendSync
    <2>2. state' \in [Vcpus -> States] /\ owed' \subseteq Ports \X Vcpus
      BY <1>1 DEF TypeOK, SendSync, States, Ports
    <2>3. QED
      BY <1>1, <2>1, <2>2 DEF TypeOK, SendSync
  <1>2. ASSUME NEW v \in Vcpus, Resume(v)
        PROVE  TypeOK'
    BY <1>2 DEF TypeOK, Resume, States
  <1>3. ASSUME NEW v \in Vcpus, NEW w \in BOOLEAN, SendBuffered(v, w)
        PROVE  TypeOK'
    <2>1. sent' \in [Vcpus -> 0 .. MaxSends]
      BY <1>3, IoReqAssumption DEF TypeOK, SendBuffered
    <2>2. Request(v, w) \in Requests
      BY <1>3, IoReqAssumption DEF TypeOK, SendBuffered, Request, Requests
    <2>3. ring' \in [0 .. Slots - 1 -> Requests \cup {Empty}]
      BY <1>3, <2>2 DEF TypeOK, SendBuffered
    <2>4. wp' \in Nat /\ wp' - rp \in 0 .. Slots
      BY <1>3, IoReqAssumption DEF TypeOK, SendBuffered, Width
    <2>5. owed' \subseteq Ports \X Vcpus
      BY <1>3 DEF TypeOK, SendBuffered, Ports
    <2>6. QED
      BY <1>3, <2>1, <2>3, <2>4, <2>5 DEF TypeOK, SendBuffered
  <1>4. ASSUME NEW p \in Ports, NEW v \in Vcpus, Notify(p, v)
        PROVE  TypeOK'
    BY <1>4 DEF TypeOK, Notify
  <1>5. ASSUME NEW p \in Ports, Deliver(p)
        PROVE  TypeOK'
    BY <1>5 DEF TypeOK, Deliver
  <1>6. CASE TakePort
    BY <1>6 DEF TypeOK, TakePort
  <1>7. CASE Unmask
    BY <1>7 DEF TypeOK, Unmask
  <1>8. CASE ReadPointers
    BY <1>8 DEF TypeOK, ReadPointers
  <1>9. CASE HandleBuffered
    <2>1. i \in Nat /\ Cell(i).vcpu \in Vcpus
      BY <1>9 DEF TypeOK, HandleBuffered, RingInv, Rd, Boundary
    <2>2. Cell(i) \in Requests
      BY <2>1, CellType
    <2>3. done' \in [Vcpus -> SUBSET (1 .. MaxSends)] /\ i' \in Nat
      BY <1>9, <2>1, <2>2 DEF TypeOK, HandleBuffered, HandleIoreq, Cell, Requests, Width
    <2>4. QED
      BY <1>9, <2>3 DEF TypeOK, HandleBuffered
  <1>10. CASE Publish
    <2>1. rp <= i /\ i <= wp
      BY <1>10 DEF RingInv, Rd, Publish
    <2>2. i \in Nat /\ wp - i \in 0 .. Slots
      BY <2>1, IoReqAssumption DEF TypeOK
    <2>3. QED
      BY <1>10, <2>2 DEF TypeOK, Publish
  <1>11. CASE CheckReady
    BY <1>11 DEF TypeOK, CheckReady, States
  <1>12. CASE HandleShared
    <2>1. port \in Vcpus /\ state[port] = "inprocess"
      BY <1>12 DEF MainInv, HandleShared
    <2>2. sent[port] \in InPage(port)
      BY <1>12, <2>1 DEF InPage, HandleShared
    <2>3. sent[port] \in 1 .. MaxSends
      BY <2>1, <2>2, IoReqAssumption DEF Accounted, TypeOK
    <2>4. done' \in [Vcpus -> SUBSET (1 .. MaxSends)]
      BY <1>12, <2>1, <2>3 DEF TypeOK, HandleShared, HandleIoreq
    <2>5. QED
      BY <1>12, <2>4 DEF TypeOK, HandleShared
  <1>13. CASE Respond
    BY <1>13 DEF TypeOK, Respond, States
  <1>14. CASE NotifyVcpu
    BY <1>14 DEF TypeOK, NotifyVcpu, MainInv
  <1>15. CASE UNCHANGED vars
    BY <1>15 DEF TypeOK, vars
  <1>16. QED
    BY <1>1, <1>2, <1>3, <1>4, <1>5, <1>6, <1>7, <1>8, <1>9, <1>10, <1>11, <1>12, <1>13,
       <1>14, <1>15 DEF Next, MainStep

-----------------------------------------------------------------------------
\* The main loop and the events.

LEMMA MainInvStep == TypeOK /\ MainInv /\ [Next]_vars => MainInv'
  <1> SUFFICES ASSUME TypeOK, MainInv, [Next]_vars
               PROVE  MainInv'
    OBVIOUS
  <1> USE DEF xenVars, evtVars, mainVars
  <1>1. ASSUME NEW v \in Vcpus, SendSync(v)
        PROVE  MainInv'
    BY <1>1 DEF TypeOK, MainInv, SendSync, Runs
  <1>2. ASSUME NEW v \in Vcpus, Resume(v)
        PROVE  MainInv'
    BY <1>2 DEF TypeOK, MainInv, Resume
  <1>3. ASSUME mpc' = mpc, port' = port, state' = state
        PROVE  MainInv'
    BY <1>3 DEF MainInv
  <1>4. CASE TakePort
    <2>1. fifo # <<>> /\ fifo \in Seq(Ports)
      BY <1>4 DEF TakePort, TypeOK
    <2>2. Head(fifo) \in Ports
      BY <2>1
    <2>3. QED
      BY <1>4, <2>2 DEF TypeOK, MainInv, TakePort
  <1>5. CASE Unmask
    BY <1>5 DEF TypeOK, MainInv, Unmask, Ports
  <1>6. CASE ReadPointers
    BY <1>6 DEF TypeOK, MainInv, ReadPointers
  <1>7. CASE Publish
    BY <1>7 DEF TypeOK, MainInv, Publish
  <1>8. CASE CheckReady
    BY <1>8 DEF TypeOK, MainInv, CheckReady
  <1>9. CASE HandleShared
    BY <1>9 DEF TypeOK, MainInv, HandleShared
  <1>10. CASE Respond
    BY <1>10 DEF TypeOK, MainInv, Respond
  <1>11. CASE NotifyVcpu
    BY <1>11 DEF TypeOK, MainInv, NotifyVcpu
  <1>12. CASE UNCHANGED vars
    BY <1>3, <1>12 DEF vars
  <1>13. CASE HandleBuffered
    BY <1>3, <1>13 DEF HandleBuffered
  <1>14. ASSUME NEW v \in Vcpus, NEW w \in BOOLEAN, SendBuffered(v, w)
         PROVE  MainInv'
    BY <1>3, <1>14 DEF SendBuffered
  <1>15. ASSUME NEW p \in Ports, NEW v \in Vcpus, Notify(p, v)
         PROVE  MainInv'
    BY <1>3, <1>15 DEF Notify
  <1>16. ASSUME NEW p \in Ports, Deliver(p)
         PROVE  MainInv'
    BY <1>3, <1>16 DEF Deliver
  <1>17. QED
    BY <1>1, <1>2, <1>4, <1>5, <1>6, <1>7, <1>8, <1>9, <1>10, <1>11, <1>12, <1>13, <1>14,
       <1>15, <1>16 DEF Next, MainStep

LEMMA FifoAppended ==
    ASSUME TypeOK, NEW p \in Ports, fifo' = Append(fifo, p)
    PROVE  /\ DOMAIN fifo = 1 .. Len(fifo) /\ Len(fifo) \in Nat
           /\ DOMAIN fifo' = 1 .. Len(fifo) + 1
           /\ \A j \in DOMAIN fifo : fifo'[j] = fifo[j]
           /\ fifo'[Len(fifo) + 1] = p
           /\ \A q : InFifo(q)' <=> InFifo(q) \/ q = p
  <1>1. fifo \in Seq(Ports)
    BY DEF TypeOK
  <1>2. DOMAIN fifo = 1 .. Len(fifo) /\ Len(fifo) \in Nat
    BY <1>1
  <1>3. DOMAIN fifo' = 1 .. Len(fifo) + 1
    BY <1>1
  <1>4. \A j \in DOMAIN fifo : fifo'[j] = fifo[j]
    BY <1>1
  <1>5. fifo'[Len(fifo) + 1] = p
    BY <1>1
  <1>6. QED
    BY <1>2, <1>3, <1>4, <1>5 DEF InFifo

LEMMA FifoTaken ==
    ASSUME TypeOK, fifo # <<>>, fifo' = Tail(fifo)
    PROVE  /\ Head(fifo) = fifo[1] /\ Head(fifo) \in Ports /\ 1 \in DOMAIN fifo
           /\ DOMAIN fifo = 1 .. Len(fifo) /\ Len(fifo) \in Nat
           /\ DOMAIN fifo' = 1 .. Len(fifo) - 1
           /\ \A j \in DOMAIN fifo' : fifo'[j] = fifo[j + 1]
           /\ \A q : InFifo(q) <=> InFifo(q)' \/ q = Head(fifo)
  <1>1. fifo \in Seq(Ports)
    BY DEF TypeOK
  <1>2. /\ DOMAIN fifo = 1 .. Len(fifo) /\ Len(fifo) \in Nat /\ Len(fifo) # 0
        /\ Head(fifo) = fifo[1] /\ Head(fifo) \in Ports
    BY <1>1
  <1>3. DOMAIN fifo' = 1 .. Len(fifo) - 1
    BY <1>1
  <1>4. \A j \in DOMAIN fifo' : fifo'[j] = fifo[j + 1]
    BY <1>1
  <1>5. \A q : InFifo(q) => InFifo(q)' \/ q = Head(fifo)
    <2> SUFFICES ASSUME NEW q, NEW j \in DOMAIN fifo, fifo[j] = q, j # 1
                 PROVE  InFifo(q)'
      BY <1>2 DEF InFifo
    <2>1. j - 1 \in DOMAIN fifo' /\ fifo'[j - 1] = q
      BY <1>2, <1>3, <1>4
    <2>2. QED
      BY <2>1 DEF InFifo
  <1>6. \A q : InFifo(q)' => InFifo(q)
    BY <1>2, <1>3, <1>4 DEF InFifo
  <1>7. InFifo(Head(fifo))
    BY <1>2 DEF InFifo
  <1>8. QED
    BY <1>2, <1>3, <1>4, <1>5, <1>6, <1>7

LEMMA MaskInvStep == TypeOK /\ MainInv /\ MaskInv /\ [Next]_vars => MaskInv'
  <1> SUFFICES ASSUME TypeOK, MainInv, MaskInv, [Next]_vars
               PROVE  MaskInv'
    OBVIOUS
  <1> USE DEF xenVars, evtVars, mainVars
  <1>1. ASSUME fifo' = fifo, masked' = masked, mpc' = mpc, port' = port
        PROVE  MaskInv'
    BY <1>1 DEF MaskInv, InFifo
  <1>2. ASSUME fifo' = fifo, masked' = masked, mpc # "unmask", mpc' # "unmask"
        PROVE  MaskInv'
    BY <1>2 DEF MaskInv, InFifo
  <1>3. ASSUME NEW p \in Ports, Deliver(p)
        PROVE  MaskInv'
    <2>1. /\ fifo' = Append(fifo, p) /\ p \notin masked /\ masked' = masked \cup {p}
          /\ mpc' = mpc /\ port' = port
      BY <1>3 DEF Deliver
    <2>2. ~InFifo(p) /\ ~(port = p /\ mpc = "unmask")
      BY <2>1 DEF MaskInv
    <2>7. \A q : InFifo(q)' <=> InFifo(q) \/ q = p
      BY <2>1, FifoAppended
    <2>3. \A q \in Ports : q \in masked' <=> InFifo(q)' \/ (port' = q /\ mpc' = "unmask")
      BY <2>1, <2>7 DEF MaskInv
    <2>4. mpc' = "unmask" => ~InFifo(port)'
      <3>1. mpc = "unmask" => ~InFifo(port) /\ port # p
        BY <2>2 DEF MaskInv
      <3>2. mpc = "unmask" => \A q : q = port => ~InFifo(q)'
        BY <3>1, <2>7
      <3>3. QED
        BY <3>2, <2>1 DEF InFifo
    <2>5. \A j, k \in DOMAIN fifo' : fifo'[j] = fifo'[k] => j = k
      BY <2>1, <2>2, FifoAppended DEF MaskInv, InFifo
    <2>6. QED
      BY <2>3, <2>4, <2>5 DEF MaskInv, InFifo
  <1>4. CASE TakePort
    <2>1. /\ fifo # <<>> /\ fifo' = Tail(fifo) /\ masked' = masked
          /\ mpc = "select" /\ mpc' = "unmask" /\ port' = Head(fifo)
      BY <1>4 DEF TakePort
    <2>2. \A j, k \in DOMAIN fifo' : fifo'[j] = fifo'[k] => j = k
      <3> SUFFICES ASSUME NEW j \in DOMAIN fifo', NEW k \in DOMAIN fifo', fifo'[j] = fifo'[k]
                   PROVE  j = k
        OBVIOUS
      <3>1. j + 1 \in DOMAIN fifo /\ k + 1 \in DOMAIN fifo /\ fifo[j + 1] = fifo[k + 1]
            /\ j \in Int /\ k \in Int
        BY <2>1, FifoTaken
      <3>2. j + 1 = k + 1
        BY <3>1 DEF MaskInv
      <3>3. QED
        BY <3>1, <3>2
    <2>3. ~InFifo(port)'
      <3> SUFFICES ASSUME NEW j \in DOMAIN fifo', fifo'[j] = Head(fifo)
                   PROVE  FALSE
        BY <2>1 DEF InFifo
      <3>1. j + 1 \in DOMAIN fifo /\ fifo[j + 1] = fifo[1] /\ 1 \in DOMAIN fifo /\ j \in 1 .. Len(fifo)
        BY <2>1, FifoTaken
      <3>2. j + 1 = 1
        BY <3>1 DEF MaskInv
      <3>3. QED
        BY <3>1, <3>2
    <2>4. \A q \in Ports : q \in masked' <=> InFifo(q)' \/ (port' = q /\ mpc' = "unmask")
      BY <2>1, FifoTaken DEF MaskInv
    <2>5. QED
      BY <2>1, <2>2, <2>3, <2>4 DEF MaskInv, InFifo
  <1>5. CASE Unmask
    <2>1. /\ fifo' = fifo /\ masked' = masked \ {port} /\ mpc = "unmask" /\ mpc' # "unmask"
      BY <1>5 DEF Unmask
    <2>2. \A q \in Ports : InFifo(q)' <=> InFifo(q)
      BY <2>1 DEF InFifo
    <2>3. QED
      BY <2>1, <2>2 DEF MaskInv, InFifo
  <1>6. CASE CheckReady \/ HandleShared \/ Respond \/ NotifyVcpu \/ ReadPointers \/ Publish
    BY <1>2, <1>6 DEF CheckReady, HandleShared, Respond, NotifyVcpu, ReadPointers, Publish
  <1>7. CASE HandleBuffered \/ UNCHANGED vars
    BY <1>1, <1>7 DEF HandleBuffered, vars
  <1>8. ASSUME NEW v \in Vcpus, SendSync(v) \/ Resume(v)
        PROVE  MaskInv'
    BY <1>1, <1>8 DEF SendSync, Resume
  <1>9. ASSUME NEW v \in Vcpus, NEW w \in BOOLEAN, SendBuffered(v, w)
        PROVE  MaskInv'
    BY <1>1, <1>9 DEF SendBuffered
  <1>10. ASSUME NEW p \in Ports, NEW v \in Vcpus, Notify(p, v)
         PROVE  MaskInv'
    BY <1>1, <1>10 DEF Notify
  <1>11. QED
    BY <1>3, <1>4, <1>5, <1>6, <1>7, <1>8, <1>9, <1>10 DEF Next, MainStep

LEMMA EventInvStep == TypeOK /\ MainInv /\ MaskInv /\ EventInv /\ [Next]_vars => EventInv'
  <1> SUFFICES ASSUME TypeOK, MainInv, MaskInv, EventInv, [Next]_vars
               PROVE  EventInv'
    OBVIOUS
  <1> USE DEF xenVars, evtVars, mainVars
  <1>0. Buf \notin Vcpus /\ Ports = Vcpus \cup {Buf}
    BY IoReqAssumption DEF Ports
  <1>1. fifo' = fifo => \A q : InFifo(q)' <=> InFifo(q)
    BY DEF InFifo
  <1>2. ASSUME fifo' = fifo, UNCHANGED <<owed, pending, port, mpc, state, rp, wp>>
        PROVE  EventInv'
    BY <1>1, <1>2 DEF EventInv, Announced, Polled, InFifo
  <1>3. ASSUME NEW u \in Vcpus, SendSync(u)
        PROVE  EventInv'
    <2>1. /\ UNCHANGED <<pending, port, mpc, rp, wp, fifo>> /\ owed' = owed \cup {<<u, u>>}
          /\ state[u] = "none" /\ state' = [state EXCEPT ![u] = "ready"]
      BY <1>3 DEF SendSync, Runs
    <2>2. /\ state'[u] = "ready"
          /\ \A v \in Vcpus : v # u => state'[v] = state[v] /\ (<<v, v>> \in owed' <=> <<v, v>> \in owed)
      BY <2>1 DEF TypeOK
    <2>3. \A p \in Ports, v \in Vcpus : <<p, v>> \in owed' => p \in {v, Buf}
      BY <2>1 DEF EventInv
    <2>4. rp' # wp' => Announced(Buf)' \/ Polled'
      BY <2>1, <1>1 DEF EventInv, Announced, Polled, InFifo
    <2>5. <<u, u>> \in owed' /\ u \notin pending /\ ~InFifo(u) /\ ~(port = u /\ mpc \in {"unmask", "check"})
      BY <2>1 DEF EventInv
    <2>6. QED
      BY <2>1, <2>2, <2>3, <2>4, <2>5, <1>1 DEF EventInv
  <1>4. ASSUME NEW u \in Vcpus, Resume(u)
        PROVE  EventInv'
    <2>1. /\ UNCHANGED <<pending, port, mpc, rp, wp, fifo, owed>>
          /\ state[u] = "resp_ready" /\ state' = [state EXCEPT ![u] = "none"]
      BY <1>4 DEF Resume
    <2>2. \A v \in Vcpus : state'[v] = "ready" <=> state[v] = "ready"
      BY <2>1 DEF TypeOK
    <2>3. QED
      BY <2>1, <2>2, <1>1 DEF EventInv, Announced, Polled, InFifo
  <1>5. ASSUME NEW u \in Vcpus, NEW w \in BOOLEAN, SendBuffered(u, w)
        PROVE  EventInv'
    <2>1. UNCHANGED <<pending, port, mpc, rp, fifo, state>> /\ owed' = owed \cup {<<Buf, u>>}
      BY <1>5 DEF SendBuffered
    <2>2. \A v \in Vcpus : <<v, v>> \in owed' <=> <<v, v>> \in owed
      BY <2>1, <1>0
    <2>3. \A p \in Ports, v \in Vcpus : <<p, v>> \in owed' => p \in {v, Buf}
      BY <2>1 DEF EventInv
    <2>4. Announced(Buf)'
      BY <2>1 DEF Announced
    <2>5. QED
      BY <2>1, <2>2, <2>3, <2>4, <1>1 DEF EventInv
  <1>6. ASSUME NEW p \in Ports, NEW u \in Vcpus, Notify(p, u)
        PROVE  EventInv'
    <2>1. /\ UNCHANGED <<port, mpc, rp, wp, fifo, state>>
          /\ <<p, u>> \in owed /\ owed' = owed \ {<<p, u>>} /\ pending' = pending \cup {p}
      BY <1>6 DEF Notify
    <2>2. p \in {u, Buf}
      BY <2>1 DEF EventInv
    <2>3. \A v \in Vcpus : <<v, v>> \in owed' <=> <<v, v>> \in owed /\ p # v
      BY <2>1, <2>2, <1>0
    <2>4. p \in Vcpus => <<p, p>> \in owed
      BY <2>1, <2>2, <1>0
    <2>5. \A q \in Ports, v \in Vcpus : <<q, v>> \in owed' => q \in {v, Buf}
      BY <2>1 DEF EventInv
    <2>6. Announced(Buf) => Announced(Buf)'
      BY <2>1, <1>1 DEF Announced, InFifo
    <2>7. QED
      BY <2>1, <2>3, <2>4, <2>5, <2>6, <1>1 DEF EventInv, Polled
  <1>7. ASSUME NEW p \in Ports, Deliver(p)
        PROVE  EventInv'
    <2>1. /\ UNCHANGED <<port, mpc, rp, wp, state, owed>> /\ p \in pending /\ p \notin masked
          /\ pending' = pending \ {p} /\ fifo' = Append(fifo, p)
      BY <1>7 DEF Deliver
    <2>2. \A q : InFifo(q)' <=> InFifo(q) \/ q = p
      BY <2>1, FifoAppended
    <2>3. Announced(Buf) => Announced(Buf)'
      BY <2>1, <2>2 DEF Announced, InFifo
    <2>4. QED
      BY <2>1, <2>2, <2>3 DEF EventInv, Polled
  <1>8. CASE TakePort
    <2>1. /\ UNCHANGED <<rp, wp, state, owed, pending>> /\ mpc = "select" /\ mpc' = "unmask"
          /\ fifo # <<>> /\ fifo' = Tail(fifo) /\ port' = Head(fifo)
      BY <1>8 DEF TakePort
    <2>2. \A q : InFifo(q) <=> InFifo(q)' \/ q = port'
      BY <2>1, FifoTaken
    <2>3. ~InFifo(port)'
      BY <2>1, MaskInvStep DEF MaskInv
    <2>4. \A q : q = port' => ~InFifo(q)'
      BY <2>3 DEF InFifo
    <2>5. Announced(Buf) => Announced(Buf)'
      BY <2>1, <2>2 DEF Announced, InFifo
    <2>6. QED
      BY <2>1, <2>2, <2>4, <2>5 DEF EventInv, Polled
  <1>9. CASE Unmask
    <2>1. /\ UNCHANGED <<rp, wp, state, owed, pending, fifo, port>> /\ mpc = "unmask"
          /\ mpc' = IF port = Buf THEN "pointers" ELSE "check"
      BY <1>9 DEF Unmask
    <2>2. port \in Ports
      BY <2>1 DEF MainInv
    <2>3. rp' # wp' => Announced(Buf)' \/ Polled'
      BY <2>1, <1>1 DEF EventInv, Announced, Polled, InFifo
    <2>4. QED
      BY <2>1, <2>2, <2>3, <1>0, <1>1 DEF EventInv
  <1>10. CASE ReadPointers
    <2>1. /\ UNCHANGED <<rp, wp, state, owed, pending, fifo, port>> /\ mpc = "pointers"
          /\ mpc' = IF rp = wp THEN "select" ELSE "batch"
      BY <1>10 DEF ReadPointers
    <2>2. port = Buf
      BY <2>1 DEF MainInv
    <2>3. QED
      BY <2>1, <2>2, <1>0, <1>1 DEF EventInv, Polled
  <1>11. CASE Publish
    <2>1. UNCHANGED <<wp, state, owed, pending, fifo, port>> /\ mpc = "batch" /\ mpc' = "pointers"
      BY <1>11 DEF Publish
    <2>2. port = Buf
      BY <2>1 DEF MainInv
    <2>3. QED
      BY <2>1, <2>2, <1>0, <1>1 DEF EventInv, Polled
  <1>12. CASE CheckReady
    <2>1. port \in Vcpus /\ mpc = "check" /\ UNCHANGED <<rp, wp, owed, pending, fifo, port>>
      BY <1>12 DEF CheckReady, MainInv
    <2>2. state[port] = "ready"
      BY <2>1 DEF EventInv
    <2>3. state' = [state EXCEPT ![port] = "inprocess"] /\ mpc' = "handle"
      BY <1>12, <2>2 DEF CheckReady
    <2>4. state'[port] = "inprocess" /\ \A v \in Vcpus : v # port => state'[v] = state[v]
      BY <2>1, <2>3 DEF TypeOK
    <2>5. rp' # wp' => Announced(Buf)' \/ Polled'
      BY <2>1, <2>3, <1>0, <1>1 DEF EventInv, Announced, Polled, InFifo
    <2>6. QED
      BY <2>1, <2>3, <2>4, <2>5, <1>1 DEF EventInv
  <1>13. CASE Respond
    <2>1. /\ port \in Vcpus /\ mpc = "respond" /\ mpc' = "notify" /\ state[port] = "inprocess"
          /\ UNCHANGED <<rp, wp, owed, pending, fifo, port>>
          /\ state' = [state EXCEPT ![port] = "resp_ready"]
      BY <1>13 DEF Respond, MainInv
    <2>2. \A v \in Vcpus : state'[v] = "ready" <=> state[v] = "ready"
      BY <2>1 DEF TypeOK
    <2>3. QED
      BY <2>1, <2>2, <1>1 DEF EventInv, Announced, Polled, InFifo
  <1>14. CASE HandleShared \/ NotifyVcpu
    <2>1. /\ UNCHANGED <<rp, wp, owed, pending, fifo, port, state>>
          /\ mpc \in {"handle", "notify"} /\ mpc' \in {"respond", "select"}
      BY <1>14 DEF HandleShared, NotifyVcpu
    <2>2. QED
      BY <2>1, <1>1 DEF EventInv, Announced, Polled, InFifo
  <1>15. CASE HandleBuffered \/ UNCHANGED vars
    BY <1>2, <1>15 DEF HandleBuffered, vars
  <1>16. QED
    BY <1>3, <1>4, <1>5, <1>6, <1>7, <1>8, <1>9, <1>10, <1>11, <1>12, <1>13, <1>14, <1>15
       DEF Next, MainStep

-----------------------------------------------------------------------------
\* The contents of the ring.

LEMMA InRingMember ==
    /\ \A v, n : n \in InRing(v) <=>
         \E t \in Rd .. wp - 1 : Cell(t).vcpu = v /\ Cell(t).n = n
    /\ \A v, n : (n \in InRing(v))' <=>
         \E t \in (Rd .. wp - 1)' : Cell(t)'.vcpu = v /\ Cell(t)'.n = n
  BY Zenon DEF InRing, Unread, Rd, Cell

\* A step that writes no slot, reads none and gives none back.
RingSame == UNCHANGED <<ring, rp, wp, i, end>> /\ (mpc = "batch" <=> mpc' = "batch")

\* A write changes no slot that demu has yet to give back.
LEMMA CellsWritten ==
    ASSUME TypeOK, NEW v \in Vcpus, NEW w \in BOOLEAN, SendBuffered(v, w)
    PROVE  /\ \A t \in rp .. wp - 1 : Cell(t)' = Cell(t)
           /\ \A t : t = wp => Cell(t)' = Request(v, w)
           /\ w => \A t : t = wp + 1 => Cell(t)' = Empty
  <1>1. /\ ring \in [0 .. Slots - 1 -> Requests \cup {Empty}] /\ rp \in Nat /\ wp \in Nat
        /\ wp - rp \in 0 .. Slots /\ wp - rp <= Slots - Width(w) /\ Slots \in Nat /\ Slots > 1
        /\ ring' = [s \in DOMAIN ring |->
                      IF s = wp % Slots THEN Request(v, w)
                      ELSE IF w /\ s = (wp + 1) % Slots THEN Empty ELSE ring[s]]
    BY IoReqAssumption DEF TypeOK, SendBuffered
  <1>2. \A t \in Nat : t % Slots \in DOMAIN ring
    BY <1>1, ModRange
  <1>3. \A t : t = wp => Cell(t)' = Request(v, w)
    BY <1>1, <1>2 DEF Cell
  <1>4. ASSUME w, NEW t, t = wp + 1
        PROVE  Cell(t)' = Empty
    <2>1. t \in Nat /\ wp < t /\ t - wp < Slots
      BY <1>1, <1>4
    <2>2. t % Slots # wp % Slots
      BY <1>1, <2>1, SlotsDiffer
    <2>3. QED
      BY <1>1, <1>2, <1>4, <2>1, <2>2 DEF Cell
  <1>5. ASSUME NEW t \in rp .. wp - 1
        PROVE  Cell(t)' = Cell(t)
    <2>1. t \in Nat /\ t < wp /\ wp - t < Slots
      BY <1>1 DEF Width
    <2>2. t % Slots # wp % Slots
      BY <1>1, <2>1, SlotsDiffer
    <2>3. w => wp + 1 \in Nat /\ t < wp + 1 /\ (wp + 1) - t < Slots
      BY <1>1 DEF Width
    <2>4. w => t % Slots # (wp + 1) % Slots
      BY <2>1, <2>3, SlotsDiffer
    <2>5. QED
      BY <1>1, <1>2, <2>1, <2>2, <2>4 DEF Cell
  <1>6. QED
    BY <1>3, <1>4, <1>5

\* The request at the head of a batch, and what is left of the ring after it.
LEMMA HeadOfBatch ==
    ASSUME TypeOK, RingInv, HandleBuffered
    PROVE  /\ i \in Rd .. wp - 1 /\ Rd = i /\ Cell(i) \in Requests /\ Cell(i).vcpu \in Vcpus
           /\ Rd' = i + Width(Cell(i).wide) /\ Rd' <= end /\ Boundary(Rd') /\ i' = Rd' /\ Rd' \in Nat
           /\ \A t : Cell(t)' = Cell(t)
           /\ \A t \in Rd .. wp - 1 : t = i \/ Cell(t) = Empty \/ t \in Rd' .. wp - 1
           /\ Rd' .. wp - 1 \subseteq Rd .. wp - 1
  <1>1. /\ mpc = "batch" /\ i # end /\ mpc' = "batch" /\ UNCHANGED <<ring, rp, wp, end>>
        /\ i' = i + Width(Cell(i).wide)
    BY DEF HandleBuffered, xenVars, Cell
  <1>2. Rd = i /\ Rd' = i'
    BY <1>1 DEF Rd
  <1>3. /\ i \in Nat /\ end \in Nat /\ wp \in Nat /\ i < end /\ end <= wp
        /\ Cell(i).vcpu \in Vcpus
    BY <1>1, <1>2 DEF TypeOK, RingInv, Boundary
  <1>4. Cell(i) \in Requests
    BY <1>3, CellType
  <1>5. i \in Rd .. wp - 1 /\ Cell(i).wide \in BOOLEAN
    BY <1>2, <1>3, <1>4 DEF Requests
  <1>6. /\ i + Width(Cell(i).wide) <= wp /\ Boundary(i + Width(Cell(i).wide))
        /\ Cell(i).wide => Cell(i + 1) = Empty
    BY <1>3, <1>5 DEF RingInv
  <1>7. Empty.vcpu \notin Vcpus
    BY NoPortAssumption DEF Empty, Ports
  <1>8. i + Width(Cell(i).wide) <= end
    <2>1. CASE ~Cell(i).wide
      BY <1>3, <2>1 DEF Width
    <2>2. CASE Cell(i).wide
      <3>1. i + 2 <= wp /\ Cell(i + 1).vcpu \notin Vcpus
        BY <1>6, <1>7, <2>2 DEF Width
      <3>2. end = wp \/ Cell(end).vcpu \in Vcpus
        BY <1>1 DEF RingInv, Boundary
      <3>3. end # i + 1
        BY <1>3, <3>1, <3>2
      <3>4. QED
        BY <1>3, <2>2, <3>3 DEF Width
    <2>3. QED
      BY <2>1, <2>2
  <1>9. \A t \in Rd .. wp - 1 : t = i \/ Cell(t) = Empty \/ t \in i' .. wp - 1
    BY <1>1, <1>2, <1>3, <1>6 DEF Width
  <1>10. i' \in Nat /\ i' .. wp - 1 \subseteq Rd .. wp - 1
    BY <1>1, <1>2, <1>3 DEF Width
  <1>11. QED
    BY <1>1, <1>2, <1>3, <1>4, <1>5, <1>6, <1>8, <1>9, <1>10 DEF Cell

LEMMA RingSameOr ==
    [Next]_vars => \/ RingSame \/ ReadPointers \/ HandleBuffered \/ Publish
                   \/ \E v \in Vcpus, w \in BOOLEAN : SendBuffered(v, w)
  <1> SUFFICES ASSUME [Next]_vars
               PROVE  \/ RingSame \/ ReadPointers \/ HandleBuffered \/ Publish
                      \/ \E v \in Vcpus, w \in BOOLEAN : SendBuffered(v, w)
    OBVIOUS
  <1> USE DEF xenVars, evtVars, mainVars, RingSame
  <1>1. ASSUME NEW v \in Vcpus, SendSync(v) \/ Resume(v)
        PROVE  RingSame
    BY <1>1 DEF SendSync, Resume
  <1>2. ASSUME NEW p \in Ports, NEW v \in Vcpus, Notify(p, v)
        PROVE  RingSame
    BY <1>2 DEF Notify
  <1>3. ASSUME NEW p \in Ports, Deliver(p)
        PROVE  RingSame
    BY <1>3 DEF Deliver
  <1>4. CASE TakePort \/ Unmask \/ CheckReady
    BY <1>4 DEF TakePort, Unmask, CheckReady
  <1>5. CASE HandleShared \/ Respond \/ NotifyVcpu
    BY <1>5 DEF HandleShared, Respond, NotifyVcpu
  <1>6. CASE UNCHANGED vars
    BY <1>6 DEF vars
  <1>7. QED
    BY <1>1, <1>2, <1>3, <1>4, <1>5, <1>6 DEF Next, MainStep

LEMMA RingKept ==
    ASSUME RingInv, ring' = ring, wp' = wp, Rd' = Rd, rp' <= Rd',
           mpc' = "batch" => i' <= end' /\ end' <= wp' /\ Boundary(end)'
    PROVE  RingInv'
  <1>1. \A t : Cell(t)' = Cell(t) /\ (Boundary(t)' <=> Boundary(t))
    BY DEF Cell, Boundary
  <1>2. Boundary(Rd)' /\ Rd' <= wp'
    BY DEF RingInv, Boundary, Cell
  <1>3. \A t \in (Rd .. wp - 1)' : Cell(t)'.vcpu \in Vcpus =>
          /\ (t + Width(Cell(t).wide) <= wp)' /\ Boundary(t + Width(Cell(t).wide))'
          /\ (Cell(t).wide => Cell(t + 1) = Empty)'
    BY DEF RingInv, Cell, Boundary
  <1>4. QED
    BY <1>2, <1>3 DEF RingInv

LEMMA RingInvStep == TypeOK /\ RingInv /\ [Next]_vars => RingInv'
  <1> SUFFICES ASSUME TypeOK, RingInv, [Next]_vars
               PROVE  RingInv'
    OBVIOUS
  <1>1. CASE RingSame
    <2>1. /\ Rd' = Rd /\ ring' = ring /\ rp' = rp /\ wp' = wp /\ i' = i /\ end' = end
          /\ mpc' = "batch" <=> mpc = "batch"
      BY <1>1 DEF RingSame, Rd
    <2>2. rp' <= Rd' /\ (mpc' = "batch" => i' <= end' /\ end' <= wp' /\ Boundary(end)')
      BY <2>1 DEF RingInv, Cell, Boundary
    <2>3. QED
      BY <2>1, <2>2, RingKept
  <1>2. CASE ReadPointers
    <2>1. /\ mpc # "batch" /\ UNCHANGED <<ring, rp, wp>> /\ i' = rp /\ end' = wp
      BY <1>2 DEF ReadPointers, xenVars
    <2>2. Rd = rp /\ Rd' = rp /\ rp <= wp /\ rp \in Nat /\ wp \in Nat
      BY <2>1 DEF Rd, RingInv, TypeOK
    <2>3. i' <= end' /\ end' <= wp' /\ Boundary(end)'
      BY <2>1, <2>2 DEF Boundary
    <2>4. QED
      BY <2>1, <2>2, <2>3, RingKept
  <1>3. CASE Publish
    <2>1. mpc = "batch" /\ UNCHANGED <<ring, wp, i, end>> /\ rp' = i /\ mpc' = "pointers"
      BY <1>3 DEF Publish, xenVars
    <2>2. Rd = i /\ Rd' = i /\ i \in Nat
      BY <2>1 DEF Rd, TypeOK
    <2>3. QED
      BY <2>1, <2>2, RingKept
  <1>4. CASE HandleBuffered
    <2>1. UNCHANGED <<ring, rp, wp, end>> /\ mpc' = mpc /\ mpc = "batch"
      BY <1>4 DEF HandleBuffered, xenVars
    <2>2. \A t : Cell(t)' = Cell(t) /\ (Boundary(t)' <=> Boundary(t))
      BY <2>1 DEF Cell, Boundary
    <2>3. Boundary(end)' /\ end <= wp
      BY <2>1, <2>2 DEF RingInv, Cell, Boundary
    <2>4. Boundary(Rd)' /\ rp <= Rd' /\ Rd' <= end
      <3>1. Boundary(Rd')
        BY <1>4, HeadOfBatch
      <3>2. rp <= Rd /\ Rd' <= end /\ Rd \in Nat /\ Rd' = Rd + Width(Cell(i).wide) /\ rp \in Nat
        BY <1>4, HeadOfBatch, <2>1 DEF RingInv, TypeOK, Rd
      <3>3. QED
        BY <2>1, <3>1, <3>2 DEF Boundary, Cell, Width
    <2>5. i' = Rd' /\ Rd' \in Nat /\ end \in Nat /\ wp \in Nat
      BY <1>4, HeadOfBatch DEF TypeOK
    <2>6. \A t \in Rd' .. wp - 1 : t \in Rd .. wp - 1
      BY <1>4, HeadOfBatch
    <2>7. QED
      BY <2>1, <2>2, <2>3, <2>4, <2>5, <2>6 DEF RingInv
  <1>5. ASSUME NEW v \in Vcpus, NEW w \in BOOLEAN, SendBuffered(v, w)
        PROVE  RingInv'
    <2>1. UNCHANGED <<rp, mpc, i, end>> /\ wp' = wp + Width(w)
      BY <1>5 DEF SendBuffered, mainVars
    <2>2. /\ rp \in Nat /\ wp \in Nat /\ Rd' = Rd /\ Rd \in Nat /\ rp <= Rd /\ Rd <= wp
          /\ Width(w) \in {1, 2} /\ end \in Nat
      BY <2>1 DEF TypeOK, RingInv, Rd, Width
    <2>3. \A t \in Rd .. wp - 1 : Cell(t)' = Cell(t)
      BY <1>5, <2>2, CellsWritten
    <2>4. \A t : t = wp => Cell(t)'.vcpu = v /\ Cell(t)'.wide = w
      BY <1>5, CellsWritten DEF Request
    <2>5. w => \A t : t = wp + 1 => Cell(t)' = Empty
      BY <1>5, CellsWritten
    <2>6. ASSUME NEW t, t \in Rd .. wp, t = wp \/ Cell(t).vcpu \in Vcpus
          PROVE  t = wp' \/ Cell(t)'.vcpu \in Vcpus
      BY <2>2, <2>3, <2>4, <2>6
    <2>7. Empty.vcpu \notin Vcpus
      BY NoPortAssumption DEF Empty, Ports
    <2>8. ASSUME NEW t \in Rd .. wp' - 1, Cell(t)'.vcpu \in Vcpus,
                 NEW u, u = t + Width(Cell(t)'.wide), NEW x, x = t + 1
          PROVE  /\ u <= wp' /\ (u = wp' \/ Cell(u)'.vcpu \in Vcpus)
                 /\ Cell(t)'.wide => Cell(x)' = Empty
      <3>1. CASE t \in Rd .. wp - 1
        <4>1. /\ Cell(t)' = Cell(t) /\ Cell(t).vcpu \in Vcpus
          BY <2>3, <2>8, <3>1
        <4>2. /\ u <= wp /\ (u = wp \/ Cell(u).vcpu \in Vcpus)
              /\ Cell(t).wide => x + 1 <= wp /\ Cell(x) = Empty
          BY <2>2, <2>8, <3>1, <4>1 DEF RingInv, Boundary, Width
        <4>3. u \in Rd .. wp
          BY <2>2, <2>8, <4>1, <4>2, <3>1 DEF Width
        <4>4. u = wp' \/ Cell(u)'.vcpu \in Vcpus
          BY <2>6, <4>2, <4>3
        <4>5. Cell(t).wide => x \in Rd .. wp - 1
          BY <2>2, <2>8, <4>2, <3>1
        <4>6. Cell(t).wide => Cell(x)' = Empty
          BY <2>3, <4>2, <4>5
        <4>7. u <= wp'
          BY <2>1, <2>2, <4>3
        <4>8. QED
          BY <4>1, <4>4, <4>6, <4>7
      <3>2. CASE t = wp
        <4>1. Cell(t)'.wide = w
          BY <2>4, <3>2
        <4>2. u = wp' /\ x = wp + 1 /\ wp' \in Int
          BY <2>1, <2>2, <2>8, <3>2, <4>1
        <4>3. QED
          BY <2>5, <4>1, <4>2
      <3>3. CASE t = wp + 1 /\ w
        BY <2>5, <2>7, <2>8, <3>3
      <3>4. QED
        BY <2>1, <2>2, <3>1, <3>2, <3>3 DEF Width
    <2>9. ASSUME NEW t, t = Rd \/ (mpc = "batch" /\ t = end)
          PROVE  t = wp' \/ Cell(t)'.vcpu \in Vcpus
      <3>1. t \in Rd .. wp /\ (t = wp \/ Cell(t).vcpu \in Vcpus)
        BY <2>2, <2>9 DEF RingInv, Boundary, Rd
      <3>2. QED
        BY <2>6, <3>1
    <2>10. Boundary(Rd)' /\ (mpc' = "batch" => Boundary(end)')
      BY <2>1, <2>2, <2>9 DEF Boundary, Cell
    <2>11. rp' <= Rd' /\ Rd' <= wp' /\ (mpc' = "batch" => i' <= end' /\ end' <= wp')
      BY <2>1, <2>2 DEF RingInv, TypeOK
    <2>12. \A t \in (Rd .. wp - 1)' : Cell(t)'.vcpu \in Vcpus =>
             /\ (t + Width(Cell(t).wide) <= wp)' /\ Boundary(t + Width(Cell(t).wide))'
             /\ (Cell(t).wide => Cell(t + 1) = Empty)'
      BY <2>2, <2>8 DEF Boundary, Cell
    <2>13. QED
      BY <2>10, <2>11, <2>12 DEF RingInv
  <1>6. QED
    BY <1>1, <1>2, <1>3, <1>4, <1>5, RingSameOr

LEMMA OrderInvStep == TypeOK /\ RingInv /\ OrderInv /\ Accounted /\ [Next]_vars => OrderInv'
  <1> SUFFICES ASSUME TypeOK, RingInv, OrderInv, Accounted, [Next]_vars
               PROVE  OrderInv'
    OBVIOUS
  <1>1. ASSUME ring' = ring, wp' = wp, (Rd .. wp - 1)' \subseteq Rd .. wp - 1
        PROVE  OrderInv'
    BY <1>1 DEF OrderInv, Cell
  <1>2. CASE RingSame
    BY <1>1, <1>2 DEF RingSame, Rd
  <1>3. CASE ReadPointers
    BY <1>1, <1>3 DEF ReadPointers, Rd, xenVars
  <1>4. CASE Publish
    BY <1>1, <1>4 DEF Publish, Rd, xenVars
  <1>5. CASE HandleBuffered
    <2>1. ring' = ring /\ wp' = wp
      BY <1>5 DEF HandleBuffered, xenVars
    <2>2. QED
      BY <1>1, <1>5, <2>1, HeadOfBatch
  <1>6. ASSUME NEW v \in Vcpus, NEW w \in BOOLEAN, SendBuffered(v, w)
        PROVE  OrderInv'
    <2>1. UNCHANGED <<rp, mpc, i, end>> /\ wp' = wp + Width(w)
      BY <1>6 DEF SendBuffered, mainVars
    <2>2. /\ rp \in Nat /\ wp \in Nat /\ Rd' = Rd /\ Rd \in Nat /\ rp <= Rd /\ Rd <= wp
          /\ w => wp' = wp + 2
          /\ ~w => wp' = wp + 1
      BY <2>1 DEF TypeOK, RingInv, Rd, Width
    <2>3. \A t \in Rd .. wp - 1 : Cell(t)' = Cell(t)
      BY <1>6, <2>2, CellsWritten
    <2>4. \A t : t = wp => Cell(t)'.vcpu = v /\ Cell(t)'.n = sent[v] + 1
      BY <1>6, CellsWritten DEF Request
    <2>9. Empty.vcpu \notin Vcpus
      BY NoPortAssumption DEF Empty, Ports
    <2>10. w => \A t : t = wp + 1 => Cell(t)' = Empty
      BY <1>6, CellsWritten
    <2>5. w => \A t : t = wp + 1 => Cell(t)'.vcpu \notin Vcpus
      BY <2>9, <2>10
    <2>6. ASSUME NEW t \in Rd .. wp - 1, Cell(t).vcpu = v
          PROVE  Cell(t).n < sent[v] + 1
      <3>1. Cell(t).n \in InRing(v)
        BY <2>6, InRingMember
      <3>2. Cell(t).n \in 1 .. sent[v] /\ sent[v] \in Nat
        BY <3>1 DEF Accounted, TypeOK
      <3>3. QED
        BY <3>2
    <2>7. ASSUME NEW s \in Rd .. wp' - 1, NEW t \in Rd .. wp' - 1, s < t,
                 Cell(s)'.vcpu = Cell(t)'.vcpu, Cell(t)'.vcpu \in Vcpus
          PROVE  Cell(s)'.n < Cell(t)'.n
      <3>1. CASE t \in Rd .. wp - 1
        <4>1. s \in Rd .. wp - 1
          BY <2>2, <2>7, <3>1
        <4>2. QED
          BY <2>3, <2>7, <3>1, <4>1 DEF OrderInv
      <3>2. CASE t = wp
        <4>1. s \in Rd .. wp - 1
          BY <2>2, <2>7, <3>2
        <4>2. Cell(s).vcpu = v /\ Cell(s)'.n = Cell(s).n
          BY <2>3, <2>4, <2>7, <3>2, <4>1
        <4>3. QED
          BY <2>4, <2>6, <3>2, <4>1, <4>2
      <3>3. CASE t = wp + 1 /\ w
        BY <2>5, <2>7, <3>3
      <3>4. QED
        BY <2>2, <2>7, <3>1, <3>2, <3>3
    <2>8. QED
      BY <2>2, <2>7 DEF OrderInv, Cell
  <1>7. QED
    BY <1>2, <1>3, <1>4, <1>5, <1>6, RingSameOr

-----------------------------------------------------------------------------
\* What was done with each access.

LEMMA InRingKept ==
    ASSUME ring' = ring, wp' = wp, Rd' = Rd, NEW v
    PROVE  InRing(v)' = InRing(v)
  <1>1. \A t : Cell(t)' = Cell(t)
    BY DEF Cell
  <1>2. \A n : n \in InRing(v)' <=> n \in InRing(v)
    BY <1>1, InRingMember
  <1>3. QED
    BY <1>2

\* The account of one vcpu.
Account(v) ==
    /\ done[v] \cup InRing(v) \cup InPage(v) = 1 .. sent[v]
    /\ done[v] \cap (InRing(v) \cup InPage(v)) = {} /\ InRing(v) \cap InPage(v) = {}


\* A handled request leaves the ring; what the others have there stays.
LEMMA RingHandled ==
    ASSUME TypeOK, RingInv, OrderInv, HandleBuffered
    PROVE  /\ Cell(i) \in Requests
           /\ \A u \in Vcpus : \A n : u = Cell(i).vcpu /\ n = Cell(i).n =>
                /\ n \in InRing(u) /\ (n \notin InRing(u))'
                /\ InRing(u) = InRing(u)' \cup {n}
                /\ \A m : (m \in InRing(u))' => n < m
           /\ \A v \in Vcpus : v # Cell(i).vcpu => InRing(v)' = InRing(v)
  <1>1. /\ i \in Rd .. wp - 1 /\ Cell(i) \in Requests
        /\ Rd' = i + Width(Cell(i).wide)
        /\ \A t : Cell(t)' = Cell(t)
        /\ \A t \in Rd .. wp - 1 : t = i \/ Cell(t) = Empty \/ t \in Rd' .. wp - 1
        /\ Rd' .. wp - 1 \subseteq Rd .. wp - 1 /\ wp' = wp /\ i \in Nat /\ Rd' \in Nat
    BY HeadOfBatch DEF HandleBuffered, xenVars, TypeOK
  <1>2. Empty.vcpu \notin Vcpus
    BY NoPortAssumption DEF Empty, Ports
  <1>3. ASSUME NEW v \in Vcpus
        PROVE  \A m : (m \in InRing(v))' => m \in InRing(v)
    <2>1. ASSUME NEW m, NEW t \in Rd' .. wp - 1, Cell(t)'.vcpu = v, Cell(t)'.n = m
          PROVE  t \in Rd .. wp - 1 /\ Cell(t).vcpu = v /\ Cell(t).n = m
      BY <1>1, <2>1
    <2>2. QED
      BY <1>1, <2>1, InRingMember
  <1>4. ASSUME NEW v \in Vcpus, NEW m, m \in InRing(v), ~(v = Cell(i).vcpu /\ m = Cell(i).n)
        PROVE  (m \in InRing(v))'
    <2>1. PICK t \in Rd .. wp - 1 : Cell(t).vcpu = v /\ Cell(t).n = m
      BY <1>4, InRingMember
    <2>2. t # i /\ Cell(t) # Empty
      BY <1>2, <1>4, <2>1
    <2>3. t \in Rd' .. wp' - 1 /\ Cell(t)'.vcpu = v /\ Cell(t)'.n = m
      BY <1>1, <2>1, <2>2
    <2>4. QED
      BY <2>3, InRingMember
  <1>6. ASSUME NEW u \in Vcpus, NEW n, u = Cell(i).vcpu, n = Cell(i).n, NEW m, (m \in InRing(u))'
        PROVE  n < m
    <2>1. PICK t \in Rd' .. wp' - 1 : Cell(t)'.vcpu = u /\ Cell(t)'.n = m
      BY <1>6, InRingMember
    <2>2. t \in Rd .. wp - 1 /\ Cell(t).vcpu = u /\ Cell(t).n = m
      BY <1>1, <2>1
    <2>3. i < t
      BY <1>1, <2>1, <2>2 DEF Width
    <2>4. QED
      BY <1>1, <1>6, <2>2, <2>3 DEF OrderInv
  <1>7. ASSUME NEW u \in Vcpus, NEW n, u = Cell(i).vcpu, n = Cell(i).n
        PROVE  n \in InRing(u) /\ (n \notin InRing(u))' /\ InRing(u) = InRing(u)' \cup {n}
    <2>1. n \in InRing(u)
      BY <1>1, <1>7, InRingMember
    <2>2. n \in Nat
      BY <1>1, <1>7 DEF Requests
    <2>3. (n \notin InRing(u))'
      BY <1>6, <1>7, <2>2
    <2>4. \A m : m \in InRing(u) <=> m \in InRing(u)' \/ m = n
      BY <1>3, <1>4, <1>7, <2>1
    <2>5. QED
      BY <2>1, <2>3, <2>4
  <1>8. ASSUME NEW v \in Vcpus, v # Cell(i).vcpu
        PROVE  InRing(v)' = InRing(v)
    <2>1. \A m : m \in InRing(v)' <=> m \in InRing(v)
      BY <1>3, <1>4, <1>8
    <2>2. QED
      BY <2>1
  <1>9. QED
    BY <1>1, <1>6, <1>7, <1>8

\* A written request joins the ring.
LEMMA RingWritten ==
    ASSUME TypeOK, RingInv, NEW u \in Vcpus, NEW w \in BOOLEAN, SendBuffered(u, w)
    PROVE  /\ InRing(u)' = InRing(u) \cup {sent[u] + 1}
           /\ \A v \in Vcpus : v # u => InRing(v)' = InRing(v)
  <1>1. UNCHANGED <<rp, mpc, i, end>> /\ wp' = wp + Width(w)
    BY DEF SendBuffered, mainVars
  <1>2. /\ rp \in Nat /\ wp \in Nat /\ Rd' = Rd /\ Rd \in Nat /\ rp <= Rd /\ Rd <= wp
        /\ w => wp' = wp + 2
        /\ ~w => wp' = wp + 1
    BY <1>1 DEF TypeOK, RingInv, Rd, Width
  <1>3. \A t \in Rd .. wp - 1 : Cell(t)' = Cell(t)
    BY <1>2, CellsWritten
  <1>4. \A t : t = wp => Cell(t)'.vcpu = u /\ Cell(t)'.n = sent[u] + 1
    BY CellsWritten DEF Request
  <1>5. Empty.vcpu \notin Vcpus
    BY NoPortAssumption DEF Empty, Ports
  <1>6. w => \A t : t = wp + 1 => Cell(t)' = Empty
    BY CellsWritten
  <1>7. w => \A t : t = wp + 1 => Cell(t)'.vcpu \notin Vcpus
    BY <1>5, <1>6
  <1>8. ASSUME NEW v \in Vcpus, NEW m, m \in InRing(v)
        PROVE  (m \in InRing(v))'
    <2>1. PICK t \in Rd .. wp - 1 : Cell(t).vcpu = v /\ Cell(t).n = m
      BY <1>8, InRingMember
    <2>2. t \in Rd' .. wp' - 1 /\ Cell(t)'.vcpu = v /\ Cell(t)'.n = m
      BY <1>2, <1>3, <2>1
    <2>3. QED
      BY <2>2, InRingMember
  <1>9. (sent[u] + 1) \in InRing(u)'
    <2>1. wp \in Rd' .. wp' - 1
      BY <1>2
    <2>2. PICK t : t = wp
      OBVIOUS
    <2>3. t \in Rd' .. wp' - 1 /\ Cell(t)'.vcpu = u /\ Cell(t)'.n = sent[u] + 1
      BY <1>4, <2>1, <2>2
    <2>4. PICK m : m = sent[u] + 1
      OBVIOUS
    <2>5. (m \in InRing(u))'
      BY <2>3, <2>4, InRingMember
    <2>6. QED
      BY <2>4, <2>5
  <1>10. ASSUME NEW v \in Vcpus, NEW m, (m \in InRing(v))'
         PROVE  m \in InRing(v) \/ (v = u /\ m = sent[u] + 1)
    <2>1. PICK t \in Rd' .. wp' - 1 : Cell(t)'.vcpu = v /\ Cell(t)'.n = m
      BY <1>10, InRingMember
    <2>2. CASE t \in Rd .. wp - 1
      BY <1>3, <2>1, <2>2, InRingMember
    <2>3. CASE t = wp
      BY <1>4, <2>1, <2>3
    <2>4. CASE t = wp + 1 /\ w
      BY <1>7, <2>1, <2>4
    <2>5. QED
      BY <1>2, <2>1, <2>2, <2>3, <2>4
  <1>11. \A m : m \in InRing(u)' <=> m \in InRing(u) \/ m = sent[u] + 1
    BY <1>8, <1>9, <1>10
  <1>12. ASSUME NEW v \in Vcpus, v # u
         PROVE  InRing(v)' = InRing(v)
    <2>1. \A m : m \in InRing(v)' <=> m \in InRing(v)
      BY <1>8, <1>10, <1>12
    <2>2. QED
      BY <2>1
  <1>13. QED
    BY <1>11, <1>12

LEMMA AccountedStep ==
    TypeOK /\ MainInv /\ RingInv /\ OrderInv /\ Accounted /\ [Next]_vars => Accounted'
  <1> SUFFICES ASSUME TypeOK, MainInv, RingInv, OrderInv, Accounted, [Next]_vars,
                      NEW v \in Vcpus
               PROVE  Account(v)'
    BY DEF Accounted, Account
  <1> USE DEF xenVars, evtVars, mainVars
  <1>1. Account(v)
    BY DEF Accounted, Account
  <1>2. sent[v] \in Nat /\ sent \in [Vcpus -> 0 .. MaxSends]
    BY DEF TypeOK
  <1>3. ASSUME ring' = ring, wp' = wp, Rd' = Rd, done' = done, sent'[v] = sent[v],
               InPage(v)' = InPage(v)
        PROVE  Account(v)'
    BY <1>1, <1>3, InRingKept DEF Account
  <1>4. ASSUME ring' = ring, wp' = wp, Rd' = Rd, UNCHANGED <<done, sent, state>>,
               mpc' # "respond", mpc # "respond"
        PROVE  Account(v)'
    BY <1>3, <1>4 DEF InPage
  <1>5. ASSUME ring' = ring, wp' = wp, Rd' = Rd, UNCHANGED <<done, sent, state, mpc, port>>
        PROVE  Account(v)'
    BY <1>3, <1>5 DEF InPage
  <1>6. ASSUME NEW u \in Vcpus, SendSync(u)
        PROVE  Account(v)'
    <2>1. /\ UNCHANGED <<ring, wp, rp, i, mpc, port, done>> /\ state[u] = "none"
          /\ state' = [state EXCEPT ![u] = "ready"] /\ sent' = [sent EXCEPT ![u] = @ + 1]
      BY <1>6 DEF SendSync, Runs
    <2>2. Rd' = Rd
      BY <2>1 DEF Rd
    <2>3. CASE v = u
      <3>1. state'[v] = "ready" /\ sent'[v] = sent[v] + 1 /\ ~(port = v /\ mpc = "respond")
        BY <2>1, <2>3 DEF TypeOK, MainInv
      <3>2. InPage(v) = {} /\ InPage(v)' = {sent[v] + 1}
        BY <2>1, <2>3, <3>1 DEF InPage
      <3>3. InRing(v)' = InRing(v)
        BY <2>1, <2>2, InRingKept
      <3>4. 1 .. sent[v] + 1 = (1 .. sent[v]) \cup {sent[v] + 1} /\ sent[v] + 1 \notin 1 .. sent[v]
        BY <1>2
      <3>5. QED
        BY <1>1, <2>1, <3>1, <3>2, <3>3, <3>4 DEF Account
    <2>4. CASE v # u
      <3>1. state'[v] = state[v] /\ sent'[v] = sent[v]
        BY <2>1, <2>4 DEF TypeOK
      <3>2. QED
        BY <1>3, <2>1, <2>2, <3>1 DEF InPage
    <2>5. QED
      BY <2>3, <2>4
  <1>7. ASSUME NEW u \in Vcpus, Resume(u)
        PROVE  Account(v)'
    <2>1. /\ UNCHANGED <<ring, wp, rp, i, mpc, port, done, sent>> /\ state[u] = "resp_ready"
          /\ state' = [state EXCEPT ![u] = "none"]
      BY <1>7 DEF Resume
    <2>2. state'[v] \in {"ready", "inprocess"} <=> state[v] \in {"ready", "inprocess"}
      BY <2>1 DEF TypeOK
    <2>3. QED
      BY <1>3, <2>1, <2>2 DEF InPage, Rd
  <1>8. ASSUME NEW u \in Vcpus, NEW w \in BOOLEAN, SendBuffered(u, w)
        PROVE  Account(v)'
    <2>1. /\ UNCHANGED <<mpc, port, done, state>> /\ state[u] = "none"
          /\ sent' = [sent EXCEPT ![u] = @ + 1]
      BY <1>8 DEF SendBuffered, Runs
    <2>2. CASE v = u
      <3>1. sent'[v] = sent[v] + 1 /\ InPage(v) = {} /\ InPage(v)' = {}
        BY <1>2, <2>1, <2>2 DEF InPage
      <3>2. InRing(v)' = InRing(v) \cup {sent[v] + 1}
        BY <1>8, <2>2, RingWritten
      <3>3. 1 .. sent[v] + 1 = (1 .. sent[v]) \cup {sent[v] + 1} /\ sent[v] + 1 \notin 1 .. sent[v]
        BY <1>2
      <3>4. QED
        BY <1>1, <2>1, <3>1, <3>2, <3>3 DEF Account
    <2>3. CASE v # u
      <3>1. sent'[v] = sent[v] /\ InPage(v)' = InPage(v)
        BY <1>2, <2>1, <2>3 DEF InPage
      <3>2. InRing(v)' = InRing(v)
        BY <1>8, <2>3, RingWritten
      <3>3. QED
        BY <1>1, <2>1, <3>1, <3>2 DEF Account
    <2>4. QED
      BY <2>2, <2>3
  <1>9. ASSUME NEW p \in Ports, NEW u \in Vcpus, Notify(p, u)
        PROVE  Account(v)'
    BY <1>5, <1>9 DEF Notify, Rd
  <1>10. ASSUME NEW p \in Ports, Deliver(p)
         PROVE  Account(v)'
    BY <1>5, <1>10 DEF Deliver, Rd
  <1>11. CASE TakePort \/ Unmask \/ NotifyVcpu
    BY <1>4, <1>11 DEF TakePort, Unmask, NotifyVcpu, Rd
  <1>12. CASE ReadPointers
    BY <1>4, <1>12 DEF ReadPointers, Rd
  <1>13. CASE Publish
    BY <1>4, <1>13 DEF Publish, Rd
  <1>14. CASE UNCHANGED vars
    BY <1>5, <1>14 DEF vars, Rd
  <1>15. CASE HandleBuffered
    <2>1. /\ UNCHANGED <<sent, state, mpc, port>>
          /\ done' = [done EXCEPT ![Cell(i).vcpu] = @ \cup {Cell(i).n}]
      BY <1>15 DEF HandleBuffered, HandleIoreq, Cell
    <2>2. Cell(i).vcpu \in Vcpus
      BY <1>15, HeadOfBatch
    <2>3. InPage(v)' = InPage(v)
      BY <2>1 DEF InPage
    <2>4. CASE v = Cell(i).vcpu
      <3>1. PICK n : n = Cell(i).n
        OBVIOUS
      <3>2. n \in InRing(v) /\ n \notin InRing(v)' /\ InRing(v) = InRing(v)' \cup {n}
        BY <1>15, <2>4, <3>1, RingHandled
      <3>3. done'[v] = done[v] \cup {n}
        BY <2>1, <2>2, <2>4, <3>1 DEF TypeOK
      <3>4. QED
        BY <1>1, <2>1, <2>3, <3>2, <3>3 DEF Account
    <2>5. CASE v # Cell(i).vcpu
      <3>1. InRing(v)' = InRing(v) /\ done'[v] = done[v]
        BY <1>15, <2>1, <2>5, RingHandled DEF TypeOK
      <3>2. QED
        BY <1>1, <2>1, <2>3, <3>1 DEF Account
    <2>6. QED
      BY <2>4, <2>5
  <1>16. CASE CheckReady
    <2>1. /\ UNCHANGED <<ring, wp, rp, i, port, done, sent>> /\ mpc = "check"
          /\ mpc' \in {"handle", "select"} /\ port \in Vcpus
          /\ \/ state' = [state EXCEPT ![port] = "inprocess"] /\ state[port] = "ready"
             \/ state' = state
      BY <1>16 DEF CheckReady, MainInv
    <2>2. state'[v] \in {"ready", "inprocess"} <=> state[v] \in {"ready", "inprocess"}
      BY <2>1 DEF TypeOK
    <2>3. QED
      BY <1>3, <2>1, <2>2 DEF InPage, Rd
  <1>17. CASE HandleShared
    <2>1. /\ UNCHANGED <<ring, wp, rp, i, port, sent, state>> /\ mpc = "handle" /\ mpc' = "respond"
          /\ port \in Vcpus /\ state[port] = "inprocess"
          /\ done' = [done EXCEPT ![port] = @ \cup {sent[port]}]
      BY <1>17 DEF HandleShared, HandleIoreq, MainInv
    <2>2. InRing(v)' = InRing(v)
      BY <2>1, InRingKept DEF Rd
    <2>3. CASE v = port
      <3>1. InPage(v) = {sent[v]} /\ InPage(v)' = {} /\ done'[v] = done[v] \cup {sent[v]}
        BY <2>1, <2>3 DEF InPage, TypeOK
      <3>2. QED
        BY <1>1, <2>1, <2>2, <3>1 DEF Account
    <2>4. CASE v # port
      <3>1. InPage(v)' = InPage(v) /\ done'[v] = done[v]
        BY <2>1, <2>4 DEF InPage, TypeOK
      <3>2. QED
        BY <1>1, <2>1, <2>2, <3>1 DEF Account
    <2>5. QED
      BY <2>3, <2>4
  <1>18. CASE Respond
    <2>1. /\ UNCHANGED <<ring, wp, rp, i, port, sent, done>> /\ mpc = "respond" /\ mpc' = "notify"
          /\ port \in Vcpus /\ state' = [state EXCEPT ![port] = "resp_ready"]
      BY <1>18 DEF Respond, MainInv
    <2>2. InPage(v)' = InPage(v)
      BY <2>1 DEF InPage, TypeOK
    <2>3. QED
      BY <1>3, <2>1, <2>2 DEF Rd
  <1>19. QED
    BY <1>6, <1>7, <1>8, <1>9, <1>10, <1>11, <1>12, <1>13, <1>14, <1>15, <1>16, <1>17, <1>18
       DEF Next, MainStep

LEMMA AnswerInvStep ==
    TypeOK /\ MainInv /\ RingInv /\ AnswerInv /\ [Next]_vars => AnswerInv'
  <1> SUFFICES ASSUME TypeOK, MainInv, RingInv, AnswerInv, [Next]_vars
               PROVE  AnswerInv'
    OBVIOUS
  <1> USE DEF xenVars, evtVars, mainVars
  <1>1. ASSUME UNCHANGED <<state, sent, done>>, mpc' # "respond" \/ UNCHANGED <<mpc, port>>
        PROVE  AnswerInv'
    BY <1>1 DEF AnswerInv
  <1>2. ASSUME NEW u \in Vcpus, SendSync(u)
        PROVE  AnswerInv'
    BY <1>2 DEF SendSync, Runs, AnswerInv, MainInv, TypeOK
  <1>3. ASSUME NEW u \in Vcpus, Resume(u)
        PROVE  AnswerInv'
    BY <1>3 DEF Resume, AnswerInv, TypeOK
  <1>4. ASSUME NEW u \in Vcpus, NEW w \in BOOLEAN, SendBuffered(u, w)
        PROVE  AnswerInv'
    BY <1>4 DEF SendBuffered, Runs, AnswerInv, MainInv, TypeOK
  <1>5. ASSUME NEW p \in Ports, NEW u \in Vcpus, Notify(p, u)
        PROVE  AnswerInv'
    BY <1>1, <1>5 DEF Notify
  <1>6. ASSUME NEW p \in Ports, Deliver(p)
        PROVE  AnswerInv'
    BY <1>1, <1>6 DEF Deliver
  <1>7. CASE TakePort \/ Unmask \/ NotifyVcpu \/ ReadPointers \/ Publish \/ UNCHANGED vars
    BY <1>1, <1>7 DEF TakePort, Unmask, NotifyVcpu, ReadPointers, Publish, vars
  <1>8. CASE HandleBuffered
    <2>1. /\ UNCHANGED <<sent, state, mpc, port>> /\ mpc = "batch"
          /\ done' = [done EXCEPT ![Cell(i).vcpu] = @ \cup {Cell(i).n}]
      BY <1>8 DEF HandleBuffered, HandleIoreq, Cell
    <2>2. \A v \in Vcpus : done[v] \subseteq done'[v]
      BY <2>1 DEF TypeOK
    <2>3. QED
      BY <2>1, <2>2 DEF AnswerInv
  <1>9. CASE CheckReady
    BY <1>9 DEF CheckReady, AnswerInv, MainInv, TypeOK
  <1>10. CASE HandleShared
    <2>1. /\ UNCHANGED <<sent, state, port>> /\ mpc' = "respond" /\ port \in Vcpus
          /\ done' = [done EXCEPT ![port] = @ \cup {sent[port]}]
      BY <1>10 DEF HandleShared, HandleIoreq, MainInv
    <2>2. (\A v \in Vcpus : done[v] \subseteq done'[v]) /\ sent[port] \in done'[port]
      BY <2>1 DEF TypeOK
    <2>3. QED
      BY <2>1, <2>2 DEF AnswerInv
  <1>11. CASE Respond
    BY <1>11 DEF Respond, AnswerInv, MainInv, TypeOK
  <1>12. QED
    BY <1>2, <1>3, <1>4, <1>5, <1>6, <1>7, <1>8, <1>9, <1>10, <1>11 DEF Next, MainStep

-----------------------------------------------------------------------------
\* Order.

\* Ahead(v) is the last conjunct of QueueInv, for a vcpu.
Ahead(v) ==
    state[v] \in {"ready", "inprocess"} /\ InRing(v) # {} =>
        /\ \A j \in DOMAIN fifo : fifo[j] = v =>
             (\E k \in DOMAIN fifo : k < j /\ fifo[k] = Buf) \/ BufTaken
        /\ ~(port = v /\ mpc \in {"unmask", "check", "handle", "respond"})

LEMMA OvertakenGrows == [Next]_vars => overtaken \subseteq overtaken'
  BY DEF Next, MainStep, SendSync, Resume, SendBuffered, Notify, Deliver, TakePort, Unmask,
     ReadPointers, HandleBuffered, Publish, CheckReady, HandleShared, Respond, NotifyVcpu, vars

LEMMA QueueInvStep ==
    /\ TypeOK /\ MainInv /\ MaskInv /\ EventInv /\ RingInv /\ OrderInv /\ QueueInv
    /\ [Next]_vars
    => QueueInv'
  <1> SUFFICES ASSUME TypeOK, MainInv, MaskInv, EventInv, RingInv, OrderInv, QueueInv,
                      [Next]_vars, NEW v \in Vcpus
               PROVE  /\ InRing(v)' # {} =>
                           <<Buf, v>> \in owed' \/ Buf \in pending' \/ InFifo(Buf)' \/ BufTaken'
                      /\ state'[v] # "none" => <<Buf, v>> \notin owed'
                      /\ v \notin overtaken' => Ahead(v)'
    BY DEF QueueInv, Ahead
  <1> DEFINE Told == <<Buf, v>> \in owed \/ Buf \in pending \/ InFifo(Buf) \/ BufTaken
             Goal == /\ InRing(v)' # {} => Told'
                     /\ state'[v] # "none" => <<Buf, v>> \notin owed'
                     /\ v \notin overtaken' => Ahead(v)'
  <1> USE DEF xenVars, evtVars, mainVars
  <1>0. /\ Buf \notin Vcpus /\ Ports = Vcpus \cup {Buf} /\ Buf # v
        /\ state \in [Vcpus -> States]
    BY IoReqAssumption DEF Ports, TypeOK
  <1>1. /\ InRing(v) # {} => Told
        /\ state[v] # "none" => <<Buf, v>> \notin owed
        /\ v \notin overtaken => Ahead(v)
    BY DEF QueueInv, Ahead
  <1>2. v \notin overtaken' => v \notin overtaken
    BY OvertakenGrows
  <1>3. fifo' = fifo => (InFifo(Buf)' <=> InFifo(Buf))
    BY DEF InFifo
  <1>4. ASSUME fifo' = fifo, UNCHANGED <<owed, pending>>, InRing(v)' \subseteq InRing(v),
               state'[v] = state[v], BufTaken' <=> BufTaken,
               port' = v /\ mpc' \in {"unmask", "check", "handle", "respond"} =>
                 port = v /\ mpc \in {"unmask", "check", "handle", "respond"}
        PROVE  Goal
    <2>1. InRing(v)' # {} => Told'
      BY <1>1, <1>3, <1>4
    <2>2. v \notin overtaken' => Ahead(v)'
      <3> SUFFICES ASSUME v \notin overtaken', state[v] \in {"ready", "inprocess"}, InRing(v) # {}
                   PROVE  /\ \A j \in DOMAIN fifo : fifo[j] = v =>
                               (\E k \in DOMAIN fifo : k < j /\ fifo[k] = Buf) \/ BufTaken
                          /\ ~(port = v /\ mpc \in {"unmask", "check", "handle", "respond"})
        BY <1>4 DEF Ahead
      <3>1. QED
        BY <1>1, <1>2 DEF Ahead
    <2>3. QED
      BY <1>1, <1>4, <2>1, <2>2
  <1>5. ASSUME NEW u \in Vcpus, SendSync(u)
        PROVE  Goal
    <2>1. /\ UNCHANGED <<ring, rp, wp, i, pending, port, mpc, fifo>> /\ owed' = owed \cup {<<u, u>>}
          /\ state[u] = "none" /\ state' = [state EXCEPT ![u] = "ready"] /\ <<Buf, u>> \notin owed
      BY <1>0, <1>5 DEF SendSync, Runs
    <2>2. InRing(v)' = InRing(v) /\ BufTaken' = BufTaken
      BY <2>1, InRingKept DEF Rd, BufTaken
    <2>3. <<Buf, v>> \in owed' <=> <<Buf, v>> \in owed
      BY <1>0, <2>1
    <2>4. CASE v = u
      <3>1. ~InFifo(v) /\ ~(port = v /\ mpc \in {"unmask", "check"})
        BY <2>1, <2>4 DEF EventInv
      <3>2. ~(port = v /\ mpc \in {"handle", "respond"})
        BY <2>1, <2>4 DEF MainInv
      <3>3. Ahead(v)'
        BY <2>1, <3>1, <3>2 DEF Ahead, InFifo
      <3>4. QED
        BY <1>1, <1>3, <2>1, <2>2, <2>3, <2>4, <3>3
    <2>5. CASE v # u
      <3>1. state'[v] = state[v]
        BY <1>0, <2>1, <2>5
      <3>2. v \notin overtaken' => Ahead(v)'
        BY <1>1, <1>2, <2>1, <2>2, <3>1 DEF Ahead
      <3>3. QED
        BY <1>1, <1>3, <2>1, <2>2, <2>3, <3>1, <3>2
    <2>6. QED
      BY <2>4, <2>5
  <1>6. ASSUME NEW u \in Vcpus, Resume(u)
        PROVE  Goal
    <2>1. /\ UNCHANGED <<ring, rp, wp, i, pending, port, mpc, fifo, owed>>
          /\ state' = [state EXCEPT ![u] = "none"]
      BY <1>6 DEF Resume
    <2>2. InRing(v)' = InRing(v) /\ BufTaken' = BufTaken
      BY <2>1, InRingKept DEF Rd, BufTaken
    <2>3. CASE v = u
      <3>1. state'[v] = "none"
        BY <1>0, <2>1, <2>3
      <3>2. QED
        BY <1>1, <1>3, <2>1, <2>2, <3>1 DEF Ahead
    <2>4. CASE v # u
      <3>1. state'[v] = state[v]
        BY <1>0, <2>1, <2>4
      <3>2. QED
        BY <1>4, <2>1, <2>2, <3>1
    <2>5. QED
      BY <2>3, <2>4
  <1>7. ASSUME NEW u \in Vcpus, NEW w \in BOOLEAN, SendBuffered(u, w)
        PROVE  Goal
    <2>1. /\ UNCHANGED <<pending, port, mpc, fifo, state>> /\ owed' = owed \cup {<<Buf, u>>}
          /\ state[u] = "none"
      BY <1>7 DEF SendBuffered, Runs
    <2>2. BufTaken' = BufTaken
      BY <2>1 DEF BufTaken
    <2>3. CASE v = u
      BY <2>1, <2>3 DEF Ahead
    <2>4. CASE v # u
      <3>1. InRing(v)' = InRing(v)
        BY <1>7, <2>4, RingWritten
      <3>2. <<Buf, v>> \in owed' <=> <<Buf, v>> \in owed
        BY <2>1, <2>4
      <3>3. v \notin overtaken' => Ahead(v)'
        BY <1>1, <1>2, <2>1, <2>2, <3>1 DEF Ahead
      <3>4. QED
        BY <1>1, <1>3, <2>1, <2>2, <3>1, <3>2, <3>3
    <2>5. QED
      BY <2>3, <2>4
  <1>8. ASSUME NEW p \in Ports, NEW u \in Vcpus, Notify(p, u)
        PROVE  Goal
    <2>1. /\ UNCHANGED <<ring, rp, wp, i, port, mpc, fifo, state>>
          /\ owed' = owed \ {<<p, u>>} /\ pending' = pending \cup {p}
      BY <1>8 DEF Notify
    <2>2. InRing(v)' = InRing(v) /\ BufTaken' = BufTaken
      BY <2>1, InRingKept DEF Rd, BufTaken
    <2>3. v \notin overtaken' => Ahead(v)'
      BY <1>1, <1>2, <2>1, <2>2 DEF Ahead
    <2>4. Told => Told'
      BY <1>3, <2>1, <2>2
    <2>5. QED
      BY <1>1, <2>1, <2>2, <2>3, <2>4
  <1>9. ASSUME NEW p \in Ports, Deliver(p)
        PROVE  Goal
    <2>1. /\ UNCHANGED <<ring, rp, wp, i, port, mpc, owed, state>> /\ p \in pending \ masked
          /\ pending' = pending \ {p} /\ fifo' = Append(fifo, p)
          /\ overtaken' = IF p \in Vcpus /\ Buf \in pending \ masked THEN overtaken \cup {p}
                          ELSE overtaken
      BY <1>9 DEF Deliver
    <2>2. InRing(v)' = InRing(v) /\ BufTaken' = BufTaken
      BY <2>1, InRingKept DEF Rd, BufTaken
    <2>3. /\ DOMAIN fifo = 1 .. Len(fifo) /\ Len(fifo) \in Nat
          /\ DOMAIN fifo' = 1 .. Len(fifo) + 1
          /\ \A j \in DOMAIN fifo : fifo'[j] = fifo[j]
          /\ fifo'[Len(fifo) + 1] = p
          /\ \A q : InFifo(q)' <=> InFifo(q) \/ q = p
      BY <2>1, FifoAppended
    <2>4. InRing(v)' # {} => Told'
      BY <1>1, <2>1, <2>2, <2>3
    <2>5. ASSUME v \notin overtaken', state[v] \in {"ready", "inprocess"}, InRing(v) # {},
                 NEW j \in DOMAIN fifo', fifo'[j] = v
          PROVE  (\E k \in DOMAIN fifo' : k < j /\ fifo'[k] = Buf) \/ BufTaken
      <3>1. Ahead(v) /\ Told /\ <<Buf, v>> \notin owed
        BY <1>1, <1>2, <2>5
      <3>2. CASE j \in DOMAIN fifo
        <4>1. (\E k \in DOMAIN fifo : k < j /\ fifo[k] = Buf) \/ BufTaken
          BY <2>3, <2>5, <3>1, <3>2 DEF Ahead
        <4>2. QED
          BY <2>3, <4>1
      <3>3. CASE j = Len(fifo) + 1
        <4>1. p = v
          BY <2>3, <2>5, <3>3
        <4>2. Buf \in pending => Buf \in masked
          BY <2>1, <2>5, <4>1
        <4>3. Buf \in pending => InFifo(Buf) \/ BufTaken
          BY <1>0, <4>2 DEF MaskInv, BufTaken
        <4>4. InFifo(Buf) \/ BufTaken
          BY <3>1, <4>3
        <4>5. QED
          BY <2>3, <3>3, <4>4 DEF InFifo
      <3>4. QED
        BY <2>3, <3>2, <3>3
    <2>6. v \notin overtaken' => Ahead(v)'
      <3> SUFFICES ASSUME v \notin overtaken', state[v] \in {"ready", "inprocess"}, InRing(v) # {}
                   PROVE  ~(port = v /\ mpc \in {"unmask", "check", "handle", "respond"})
        BY <2>1, <2>2, <2>5 DEF Ahead
      <3>1. QED
        BY <1>1, <1>2 DEF Ahead
    <2>7. QED
      BY <1>1, <2>1, <2>4, <2>6
  <1>10. CASE TakePort
    <2>1. /\ UNCHANGED <<ring, rp, wp, i, owed, pending, state>> /\ mpc = "select" /\ mpc' = "unmask"
          /\ fifo # <<>> /\ fifo' = Tail(fifo) /\ port' = Head(fifo)
      BY <1>10 DEF TakePort
    <2>2. InRing(v)' = InRing(v) /\ ~BufTaken /\ (BufTaken' <=> port' = Buf)
      BY <2>1, InRingKept DEF Rd, BufTaken
    <2>3. /\ port' = fifo[1] /\ 1 \in DOMAIN fifo
          /\ DOMAIN fifo = 1 .. Len(fifo) /\ Len(fifo) \in Nat
          /\ DOMAIN fifo' = 1 .. Len(fifo) - 1
          /\ \A j \in DOMAIN fifo' : fifo'[j] = fifo[j + 1]
          /\ \A q : InFifo(q) <=> InFifo(q)' \/ q = port'
      BY <2>1, FifoTaken
    <2>4. InRing(v)' # {} => Told'
      BY <1>1, <2>1, <2>2, <2>3
    <2>5. ASSUME v \notin overtaken', state[v] \in {"ready", "inprocess"}, InRing(v) # {}
          PROVE  /\ port' # v
                 /\ \A j \in DOMAIN fifo' : fifo'[j] = v =>
                      (\E k \in DOMAIN fifo' : k < j /\ fifo'[k] = Buf) \/ BufTaken'
      <3>1. \A j \in DOMAIN fifo : fifo[j] = v => \E k \in DOMAIN fifo : k < j /\ fifo[k] = Buf
        BY <1>1, <1>2, <2>2, <2>5 DEF Ahead
      <3>2. port' # v
        BY <2>3, <3>1
      <3>3. ASSUME NEW j \in DOMAIN fifo', fifo'[j] = v
            PROVE  (\E k \in DOMAIN fifo' : k < j /\ fifo'[k] = Buf) \/ BufTaken'
        <4>1. j + 1 \in DOMAIN fifo /\ fifo[j + 1] = v /\ j \in Int
          BY <2>3, <3>3
        <4>2. PICK k \in DOMAIN fifo : k < j + 1 /\ fifo[k] = Buf
          BY <3>1, <4>1
        <4>3. CASE k = 1
          BY <2>2, <2>3, <4>2, <4>3
        <4>4. CASE k # 1
          <5>1. k - 1 \in DOMAIN fifo' /\ k - 1 < j /\ fifo'[k - 1] = Buf
            BY <2>3, <4>1, <4>2, <4>4
          <5>2. QED
            BY <5>1
        <4>5. QED
          BY <4>3, <4>4
      <3>4. QED
        BY <3>2, <3>3
    <2>6. v \notin overtaken' => Ahead(v)'
      BY <2>1, <2>2, <2>5 DEF Ahead
    <2>7. QED
      BY <1>1, <2>1, <2>4, <2>6
  <1>11. CASE Unmask
    <2>1. /\ UNCHANGED <<ring, rp, wp, i, owed, pending, state, fifo, port>> /\ mpc = "unmask"
          /\ mpc' = IF port = Buf THEN "pointers" ELSE "check"
      BY <1>11 DEF Unmask
    <2>2. InRing(v)' = InRing(v) /\ (BufTaken' <=> BufTaken)
      BY <2>1, InRingKept DEF Rd, BufTaken
    <2>3. QED
      BY <1>4, <2>1, <2>2
  <1>12. CASE ReadPointers
    <2>1. /\ UNCHANGED <<ring, rp, wp, owed, pending, state, fifo, port>> /\ mpc = "pointers"
          /\ mpc' = IF rp = wp THEN "select" ELSE "batch"
          /\ port = Buf /\ rp \in Nat /\ wp \in Nat /\ i' = rp
      BY <1>12 DEF ReadPointers, MainInv, TypeOK
    <2>2. Rd' = Rd /\ Rd = rp
      BY <2>1 DEF Rd
    <2>3. CASE rp = wp
      <3>1. Rd .. wp - 1 = {}
        BY <2>1, <2>2, <2>3
      <3>2. InRing(v)' = {}
        BY <2>1, <2>2, <3>1, InRingMember
      <3>3. QED
        BY <1>1, <2>1, <3>2 DEF Ahead
    <2>4. CASE rp # wp
      <3>1. InRing(v)' = InRing(v) /\ BufTaken' /\ BufTaken
        BY <2>1, <2>2, <2>4, InRingKept DEF BufTaken
      <3>2. QED
        BY <1>0, <1>4, <2>1, <3>1
    <2>5. QED
      BY <2>3, <2>4
  <1>13. CASE HandleBuffered
    <2>1. UNCHANGED <<owed, pending, state, fifo, port, mpc>>
      BY <1>13 DEF HandleBuffered
    <2>2. InRing(v)' \subseteq InRing(v)
      <3>1. CASE v = Cell(i).vcpu
        <4>1. PICK n : n = Cell(i).n
          OBVIOUS
        <4>2. InRing(v) = InRing(v)' \cup {n}
          BY <1>13, <3>1, <4>1, RingHandled
        <4>3. QED
          BY <4>2
      <3>2. CASE v # Cell(i).vcpu
        BY <1>13, <3>2, RingHandled
      <3>3. QED
        BY <3>1, <3>2
    <2>3. BufTaken' <=> BufTaken
      BY <2>1 DEF BufTaken
    <2>4. QED
      BY <1>4, <2>1, <2>2, <2>3
  <1>14. CASE Publish
    <2>1. /\ UNCHANGED <<ring, wp, i, owed, pending, state, fifo, port>> /\ mpc = "batch"
          /\ rp' = i /\ mpc' = "pointers"
      BY <1>14 DEF Publish
    <2>2. InRing(v)' = InRing(v) /\ (BufTaken' <=> BufTaken)
      BY <2>1, InRingKept DEF Rd, BufTaken
    <2>3. QED
      BY <1>4, <2>1, <2>2
  <1>15. CASE CheckReady
    <2>1. /\ UNCHANGED <<ring, rp, wp, i, owed, pending, fifo, port>> /\ mpc = "check"
          /\ mpc' \in {"handle", "select"} /\ port \in Vcpus /\ port # Buf
          /\ (state' = [state EXCEPT ![port] = "inprocess"] /\ state[port] = "ready")
               \/ state' = state
      BY <1>0, <1>15 DEF CheckReady, MainInv
    <2>2. InRing(v)' = InRing(v) /\ ~BufTaken' /\ ~BufTaken
      BY <2>1, InRingKept DEF Rd, BufTaken
    <2>3. CASE v = port /\ state[v] = "ready"
      <3>1. v \notin overtaken => InRing(v) = {}
        BY <1>1, <2>1, <2>3 DEF Ahead
      <3>2. QED
        BY <1>1, <1>2, <1>3, <2>1, <2>2, <2>3, <3>1 DEF Ahead
    <2>4. CASE v # port \/ state[v] # "ready"
      <3>1. state'[v] = state[v]
        BY <1>0, <2>1, <2>4
      <3>2. QED
        BY <1>4, <2>1, <2>2, <3>1
    <2>5. QED
      BY <2>3, <2>4
  <1>16. CASE HandleShared
    <2>1. /\ UNCHANGED <<ring, rp, wp, i, owed, pending, state, fifo, port>> /\ mpc = "handle"
          /\ mpc' = "respond"
      BY <1>16 DEF HandleShared
    <2>2. InRing(v)' = InRing(v) /\ (BufTaken' <=> BufTaken)
      BY <2>1, InRingKept DEF Rd, BufTaken
    <2>3. QED
      BY <1>4, <2>1, <2>2
  <1>17. CASE Respond
    <2>1. /\ UNCHANGED <<ring, rp, wp, i, owed, pending, fifo, port>> /\ mpc = "respond"
          /\ mpc' = "notify" /\ port \in Vcpus /\ state[port] = "inprocess"
          /\ state' = [state EXCEPT ![port] = "resp_ready"]
      BY <1>17 DEF Respond, MainInv
    <2>2. InRing(v)' = InRing(v) /\ (BufTaken' <=> BufTaken)
      BY <2>1, InRingKept DEF Rd, BufTaken
    <2>3. CASE v = port
      <3>1. state'[v] = "resp_ready" /\ state[v] # "none"
        BY <1>0, <2>1, <2>3
      <3>2. QED
        BY <1>1, <1>3, <2>1, <2>2, <3>1 DEF Ahead
    <2>4. CASE v # port
      <3>1. state'[v] = state[v]
        BY <1>0, <2>1, <2>4
      <3>2. QED
        BY <1>4, <2>1, <2>2, <3>1
    <2>5. QED
      BY <2>3, <2>4
  <1>18. CASE NotifyVcpu
    <2>1. /\ UNCHANGED <<ring, rp, wp, i, owed, pending, state, fifo, port>> /\ mpc = "notify"
          /\ mpc' = "select"
      BY <1>18 DEF NotifyVcpu
    <2>2. InRing(v)' = InRing(v) /\ (BufTaken' <=> BufTaken)
      BY <2>1, InRingKept DEF Rd, BufTaken
    <2>3. QED
      BY <1>4, <2>1, <2>2
  <1>19. CASE UNCHANGED vars
    <2>1. UNCHANGED <<ring, rp, wp, i, owed, pending, state, fifo, port, mpc>>
      BY <1>19 DEF vars
    <2>2. InRing(v)' = InRing(v) /\ (BufTaken' <=> BufTaken)
      BY <2>1, InRingKept DEF Rd, BufTaken
    <2>3. QED
      BY <1>4, <2>1, <2>2
  <1>20. Goal
    BY <1>5, <1>6, <1>7, <1>8, <1>9, <1>10, <1>11, <1>12, <1>13, <1>14, <1>15, <1>16, <1>17,
       <1>18, <1>19 DEF Next, MainStep
  <1>21. QED
    BY <1>20

LEMMA InOrderStep ==
    TypeOK /\ MainInv /\ RingInv /\ OrderInv /\ Accounted /\ QueueInv /\ InOrder /\ [Next]_vars
    => InOrder'
  <1> SUFFICES ASSUME TypeOK, MainInv, RingInv, OrderInv, Accounted, QueueInv, InOrder,
                      [Next]_vars, NEW v \in Vcpus, v \notin overtaken', NEW n \in done'[v]
               PROVE  1 .. n \subseteq done'[v]
    BY DEF InOrder
  <1> USE DEF xenVars, evtVars, mainVars
  <1>1. v \notin overtaken /\ (n \in done[v] => 1 .. n \subseteq done[v])
    BY OvertakenGrows DEF InOrder
  <1>2. Account(v) /\ sent[v] \in Nat /\ done \in [Vcpus -> SUBSET (1 .. MaxSends)]
    BY DEF Accounted, Account, TypeOK
  <1>3. CASE done' = done
    BY <1>1, <1>3
  <1>4. CASE HandleBuffered
    <2>1. done' = [done EXCEPT ![Cell(i).vcpu] = @ \cup {Cell(i).n}] /\ Cell(i).vcpu \in Vcpus
      BY <1>4, HeadOfBatch DEF HandleBuffered, HandleIoreq, Cell
    <2>2. CASE n \in done[v]
      BY <1>1, <1>2, <2>1, <2>2
    <2>3. CASE n \notin done[v]
      <3>1. v = Cell(i).vcpu /\ n = Cell(i).n /\ done'[v] = done[v] \cup {n}
        BY <1>2, <2>1, <2>3
      <3>2. n \in InRing(v) /\ InRing(v) = InRing(v)' \cup {n} /\ \A m : (m \in InRing(v))' => n < m
        BY <1>4, <3>1, RingHandled
      <3>4. ASSUME NEW m \in 1 .. n, m # n
            PROVE  m \in done[v]
        <4>1. n \in 1 .. sent[v] /\ m < n /\ m \in 1 .. sent[v]
          BY <1>2, <3>2, <3>4 DEF Account
        <4>2. m \notin InRing(v)
          BY <3>2, <3>4, <4>1
        <4>3. m \notin InPage(v)
          BY <1>2, <4>1 DEF InPage
        <4>4. QED
          BY <1>2, <4>1, <4>2, <4>3 DEF Account
      <3>5. QED
        BY <3>1, <3>4
    <2>4. QED
      BY <2>2, <2>3
  <1>5. CASE HandleShared
    <2>1. /\ done' = [done EXCEPT ![port] = @ \cup {sent[port]}] /\ port \in Vcpus
          /\ mpc = "handle" /\ state[port] = "inprocess"
      BY <1>5 DEF HandleShared, HandleIoreq, MainInv
    <2>2. CASE v = port
      <3>1. InRing(v) = {}
        BY <1>1, <2>1, <2>2 DEF QueueInv
      <3>2. InPage(v) = {sent[v]} /\ done'[v] = done[v] \cup {sent[v]}
        BY <1>2, <2>1, <2>2 DEF InPage
      <3>3. done'[v] = 1 .. sent[v]
        BY <1>2, <3>1, <3>2 DEF Account
      <3>4. QED
        BY <1>2, <3>3
    <2>3. CASE v # port
      BY <1>1, <1>2, <2>1, <2>3
    <2>4. QED
      BY <2>2, <2>3
  <1>6. done' = done \/ HandleBuffered \/ HandleShared
    BY DEF Next, MainStep, SendSync, Resume, SendBuffered, Notify, Deliver, TakePort, Unmask,
       ReadPointers, Publish, CheckReady, Respond, NotifyVcpu, vars
  <1>7. QED
    BY <1>3, <1>4, <1>5, <1>6

-----------------------------------------------------------------------------
\* The invariant.

LEMMA InitIInv == Init => IInv
  <1> SUFFICES ASSUME Init
               PROVE  IInv
    OBVIOUS
  <1>1. TypeOK
    BY IoReqAssumption DEF Init, TypeOK, States
  <1>2. Rd = 0 /\ 0 .. 0 - 1 = {} /\ wp = 0 /\ rp = 0 /\ mpc = "select"
    BY DEF Init, Rd
  <1>3. \A p : ~InFifo(p)
    BY DEF Init, InFifo
  <1>4. \A v \in Vcpus : InRing(v) = {} /\ InPage(v) = {} /\ done[v] = {} /\ sent[v] = 0
    BY <1>2 DEF Init, InRing, Unread, InPage
  <1>5. MainInv /\ AnswerInv
    BY DEF Init, MainInv, AnswerInv
  <1>6. MaskInv
    BY <1>3 DEF Init, MaskInv
  <1>7. EventInv
    BY <1>3 DEF Init, EventInv
  <1>8. RingInv /\ OrderInv
    BY <1>2 DEF RingInv, OrderInv, Boundary
  <1>9. Accounted
    BY <1>4 DEF Accounted
  <1>10. QueueInv /\ InOrder
    BY <1>4 DEF Init, QueueInv, InOrder
  <1>11. QED
    BY <1>1, <1>5, <1>6, <1>7, <1>8, <1>9, <1>10 DEF IInv

LEMMA StepIInv == IInv /\ [Next]_vars => IInv'
  BY TypeStep, MainInvStep, MaskInvStep, EventInvStep, RingInvStep, OrderInvStep,
     AnswerInvStep, AccountedStep, QueueInvStep, InOrderStep DEF IInv

LEMMA Inductive == Init /\ [][Next]_vars => []IInv
  BY InitIInv, StepIInv, PTL

\* Every variable keeps to its type: in particular the ring never holds more
\* than its slots, and no slot anything but a request or the half of one
\* (demu.c:2698-2751).
THEOREM TypeCorrect == Spec => []TypeOK
  <1>1. IInv => TypeOK
    BY DEF IInv
  <1>2. QED
    BY <1>1, Inductive, PTL DEF Spec

\* Whatever the vcpus send and in whatever order events arrive, each access is
\* handled once or still in one of the pages (demu.c:2710-2751).
THEOREM AccountedCorrect == Spec => []Accounted
  <1>1. IInv => Accounted
    BY DEF IInv
  <1>2. QED
    BY <1>1, Inductive, PTL DEF Spec

\* A page with a request in it has an event on its way to demu, and a masked
\* port will be unmasked (demu.c:2788-2796).
THEOREM NothingForgottenCorrect == Spec => []NothingForgotten
  <1>1. IInv => NothingForgotten
    <2> SUFFICES ASSUME IInv
                 PROVE  NothingForgotten
      OBVIOUS
    <2>1. rp # wp => Announced(Buf) \/ (port = Buf /\ mpc \in {"pointers", "batch"})
      BY DEF IInv, EventInv, Polled
    <2>2. ASSUME NEW v \in Vcpus, state[v] = "ready"
          PROVE  Announced(v) \/ (port = v /\ mpc = "check")
      BY <2>2 DEF IInv, EventInv, Announced, InFifo
    <2>3. ASSUME NEW p \in masked
          PROVE  (\E j \in DOMAIN fifo : fifo[j] = p) \/ (port = p /\ mpc = "unmask")
      BY <2>3 DEF IInv, TypeOK, MaskInv, InFifo
    <2>4. QED
      BY <2>1, <2>2, <2>3 DEF NothingForgotten
  <1>2. QED
    BY <1>1, Inductive, PTL DEF Spec

\* A vcpu none of whose events overtook the ring's has its accesses handled in
\* the order it made them (demu.c:2755).
THEOREM InOrderCorrect == Spec => []InOrder
  <1>1. IInv => InOrder
    BY DEF IInv
  <1>2. QED
    BY <1>1, Inductive, PTL DEF Spec

-----------------------------------------------------------------------------
\* The refinement.
LEMMA InitRefines == Init => A!Init
  BY DEF Init, A!Init

\* Sending is making an access, a handler's call its taking effect and Resume
\* going on; the rest, in which events travel and pointers move, is a stutter.
LEMMA StepRefines == IInv /\ [Next]_vars => [A!Next]_(A!vars)
  <1> SUFFICES ASSUME IInv, [Next]_vars
               PROVE  A!Next \/ UNCHANGED A!vars
    OBVIOUS
  <1> USE DEF xenVars, evtVars, mainVars
  <1>1. TypeOK /\ MainInv /\ RingInv /\ OrderInv /\ Accounted /\ AnswerInv
    BY DEF IInv
  <1>2. /\ state \in [Vcpus -> States] /\ sent \in [Vcpus -> 0 .. MaxSends]
        /\ done \in [Vcpus -> SUBSET (1 .. MaxSends)] /\ MaxSends \in Nat
    BY <1>1, IoReqAssumption DEF TypeOK
  <1>3. ASSUME NEW v \in Vcpus, SendSync(v)
        PROVE  A!Make(v, TRUE)
    BY <1>2, <1>3 DEF SendSync, Runs, A!Make
  <1>4. ASSUME NEW v \in Vcpus, NEW w \in BOOLEAN, SendBuffered(v, w)
        PROVE  A!Make(v, FALSE)
    BY <1>2, <1>4 DEF SendBuffered, Runs, A!Make
  <1>5. ASSUME NEW v \in Vcpus, Resume(v)
        PROVE  A!GoOn(v)
    BY <1>1, <1>2, <1>5 DEF Resume, AnswerInv, A!GoOn
  <1>6. CASE HandleBuffered
    <2>1. PICK v \in Vcpus, n \in 1 .. MaxSends : v = Cell(i).vcpu /\ n = Cell(i).n
      BY <1>1, <1>6, HeadOfBatch DEF Requests
    <2>2. n \in InRing(v)
      BY <1>1, <1>6, <2>1, RingHandled
    <2>3. n \in 1 .. sent[v] /\ n \notin done[v]
      BY <1>1, <2>2 DEF Accounted
    <2>4. A!TakeEffect(v, n)
      BY <1>6, <2>1, <2>3 DEF HandleBuffered, HandleIoreq, Cell, A!TakeEffect
    <2>5. n \in 1 .. MaxSends
      BY <1>2, <2>3
    <2>6. QED
      BY <2>4, <2>5 DEF A!Next
  <1>7. CASE HandleShared
    <2>1. port \in Vcpus /\ state[port] = "inprocess" /\ mpc = "handle"
      BY <1>1, <1>7 DEF HandleShared, MainInv
    <2>2. sent[port] \in InPage(port)
      BY <2>1 DEF InPage
    <2>3. sent[port] \in 1 .. sent[port] /\ sent[port] \notin done[port]
      BY <1>1, <2>1, <2>2 DEF Accounted
    <2>4. A!TakeEffect(port, sent[port])
      BY <1>7, <2>3 DEF HandleShared, HandleIoreq, A!TakeEffect
    <2>5. sent[port] \in 1 .. MaxSends
      BY <1>2, <2>1, <2>3
    <2>6. QED
      BY <2>1, <2>4, <2>5 DEF A!Next
  <1>8. CASE CheckReady
    BY <1>1, <1>2, <1>8 DEF CheckReady, MainInv, A!vars
  <1>9. CASE Respond
    BY <1>1, <1>2, <1>9 DEF Respond, MainInv, A!vars
  <1>10. ASSUME NEW p \in Ports, NEW v \in Vcpus, Notify(p, v)
         PROVE  UNCHANGED A!vars
    BY <1>10 DEF Notify, A!vars
  <1>11. ASSUME NEW p \in Ports, Deliver(p)
         PROVE  UNCHANGED A!vars
    BY <1>11 DEF Deliver, A!vars
  <1>12. CASE TakePort \/ Unmask \/ ReadPointers \/ Publish \/ NotifyVcpu
    BY <1>12 DEF TakePort, Unmask, ReadPointers, Publish, NotifyVcpu, A!vars
  <1>13. CASE UNCHANGED vars
    BY <1>13 DEF vars, A!vars
  <1>14. QED
    BY <1>3, <1>4, <1>5, <1>6, <1>7, <1>8, <1>9, <1>10, <1>11, <1>12, <1>13
       DEF Next, MainStep, A!Next

\* What demu does with accesses is what Accesses allows: each takes effect once,
\* and a vcpu that waits goes on after its access has, not before
\* (demu.c:2698-2799).  The fairness of ImplementsAccesses is left to TLC.
THEOREM RefinesAccesses == Spec => A!Init /\ [][A!Next]_(A!vars)
  BY InitRefines, StepRefines, Inductive, PTL DEF Spec
=============================================================================
