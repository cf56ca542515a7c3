--------------------------- MODULE ObjectsProofs ---------------------------
(***************************************************************************)
(* Proofs about Objects: for any threads, tables of any size and any       *)
(* number of registrations, a handle names what it was given for until it  *)
(* is given back.  And for messages of any elements, what is asked for is  *)
(* handed out as it is, up to the first unit that crosses from one element *)
(* to another: the loop is at the place in the message where the next unit *)
(* begins (InPlace).                                                       *)
(*                                                                         *)
(* A slot in use is that of a thing held, of a call under way or of a call *)
(* that failed: the invariant says that these three are apart (Apart), and *)
(* for each part what the slots hold.                                      *)
(***************************************************************************)
EXTENDS Objects, TLAPS, FiniteSetTheorems, SequenceTheorems, WellFoundedInduction

TableTypes ==
    /\ part \in {"windows", "locks", "device", "messages"}
    /\ table \in Seq(Slots) /\ Len(table) <= MaxSlots
    /\ pc \in [Clients -> {"idle", "range", "pages", "looked", "asleep", "woken"}]
    /\ at \in [Clients -> 0 .. MaxSlots] /\ mutex \in [Clients -> 0 .. MaxSlots]
    /\ held \subseteq Things /\ windows \in 0 .. MaxWindows
    /\ mapped \subseteq 1 .. windows /\ lost \subseteq DOMAIN table /\ raced \in BOOLEAN

\* Calls of vmiop_map_guest_memory under way.
Working == {c \in Clients : pc[c] \in {"range", "pages"}}

Apart ==
    /\ \A a, b \in held : a.handle = b.handle => a = b
    /\ \A t \in held : t.handle \in InUse /\ t.handle \notin lost
    /\ \A c \in Working :
        /\ at[c] \in InUse /\ at[c] \notin lost
        /\ \A t \in held : t.handle # at[c]
        /\ \A d \in Working : at[c] = at[d] => c = d
    /\ \A h \in InUse : h \in lost \/ (\E t \in held : t.handle = h) \/ (\E c \in Working : at[c] = h)
    /\ lost \subseteq InUse

WindowInv ==
    /\ \A c \in Clients : pc[c] \in {"idle", "range", "pages"}
    /\ \A t \in held : /\ t.type = "window"
                       /\ table[t.handle].type = "window" /\ table[t.handle].local = t.local
    /\ \A t, u \in held : t.local = u.local /\ t.local # None => t = u
    /\ mapped = {t.local : t \in held} \ {None}
    /\ \A c \in Working : /\ table[at[c]].type = "window"
                          /\ pc[c] = "range" => table[at[c]].local = None
    /\ windows + Cardinality(InWork) <= MaxWindows

OwnersInUse == \A h \in DOMAIN table : table[h].owner # None => ~IsFree(table[h])
MutexesHeld == \A c \in Clients : pc[c] # "idle" => \E t \in held : t.handle = mutex[c]

\* A thread takes a mutex of a lock or event that is held, unless it was freed
\* under a thread on its way.
LockInv ==
    /\ \A c \in Clients : pc[c] \in {"idle", "looked", "asleep", "woken"}
    /\ \A t \in held : t.type \in {"lock", "event"} /\ table[t.handle].type = t.type
    /\ \A c \in Clients : pc[c] # "idle" => mutex[c] \in DOMAIN table
    /\ ~raced => OwnersInUse /\ MutexesHeld

Entries == [reg : 1 .. MaxRegs, callback : 1 .. MaxRegs, handle : 1 .. MaxRegs]

DeviceTypes ==
    /\ emd \in Seq(Entries) /\ free \in Seq(DOMAIN emd)
    /\ space \in DOMAIN emd \cup {None} /\ regs \in 0 .. MaxRegs /\ next = regs + 1
    /\ devices = (IF space = None THEN <<>> ELSE <<space>>)
    /\ access \in [obj : DOMAIN emd \cup {None}, reg : 0 .. MaxRegs]
    /\ called \in (0 .. MaxRegs) \X (0 .. MaxRegs)

\* The free list names each entry once, and not that of the space.
FreeInv ==
    /\ \A i \in DOMAIN free : free[i] # space
    /\ \A i, j \in DOMAIN free : free[i] = free[j] => i = j

AccessInv == access.obj = None => access.reg = None

DeviceInv ==
    /\ table = <<>> /\ lost = {}
    /\ \A c \in Clients : pc[c] = "idle"
    /\ \A t \in held : /\ t.type = "device" /\ space # None
                       /\ t.handle = emd[space].handle /\ t.local = emd[space].reg
    /\ space # None => held # {}
    /\ \A a, b \in held : a = b

MessageTypes ==
    /\ msg \in Seq(0 .. Length) /\ Len(msg) <= Elements
    /\ ask.unit \in Nat
    /\ ec \in 1 .. Elements + 1 /\ offset \in 0 .. Word - 1
    /\ length \in 0 .. Word - 1 /\ uc \in 0 .. Word - 1

IInv ==
    /\ TableTypes /\ DeviceTypes /\ MessageTypes
    /\ FreeInv /\ AccessInv
    /\ part # "device" => Apart
    /\ part = "windows" => WindowInv
    /\ part = "locks" => LockInv
    /\ part = "device" => DeviceInv

-----------------------------------------------------------------------------
(* Messages.                                                               *)

LEMMA WordIs ==
    /\ Word \in Nat /\ Elements \in Nat \ {0} /\ Length \in Nat \ {0} /\ MaxAsked \in Nat \ {0}
    /\ Length + MaxAsked < Word
<1>1. Word \in Nat /\ Elements \in Nat \ {0} /\ Length \in Nat \ {0} /\ MaxAsked \in Nat \ {0}
  BY MessagesAssumption
<1>2. Word > Elements * Length + MaxAsked
  BY MessagesAssumption
<1>3. \A x \in Nat \ {0}, y \in Nat : y <= x * y
  OBVIOUS
<1>4. Length <= Elements * Length /\ Elements * Length \in Nat
  BY <1>1, <1>3
<1>5. Length + MaxAsked < Word
  BY <1>1, <1>2, <1>4
<1> QED
  BY <1>1, <1>5

LEMMA ModType == \A z \in Int : z % Word \in 0 .. Word - 1
BY WordIs

LEMMA ModSmall == \A z \in Nat : z < Word => z % Word = z
BY WordIs

LEMMA MessageInit ==
    ASSUME IF part = "messages" THEN MessageBegins ELSE NoMessage
    PROVE  MessageTypes
<1>1. CASE part = "messages"
  <2>1. PICK n \in 1 .. Elements : \E m \in [1 .. n -> 0 .. Length], c \in Calls : Begins(m, c)
    BY <1>1 DEF MessageBegins
  <2>2. PICK m \in [1 .. n -> 0 .. Length], c \in Calls : Begins(m, c)
    BY <2>1
  <2>3. m \in Seq(0 .. Length) /\ Len(m) = n
    BY WordIs
  <2>4. c.offset \in 0 .. MaxAsked /\ c.length \in 0 .. MaxAsked /\ c.unit \in 1 .. MaxAsked
    BY DEF Calls
  <2> QED
    BY <2>1, <2>2, <2>3, <2>4, WordIs DEF Begins, MessageTypes
<1>2. CASE part # "messages"
  <2>1. Begins(<<>>, NoCall)
    BY <1>2 DEF NoMessage
  <2>2. <<>> \in Seq(0 .. Length) /\ Len(<<>>) = 0
    OBVIOUS
  <2> QED
    BY <2>1, <2>2, WordIs DEF Begins, MessageTypes, NoCall
<1> QED
  BY <1>1, <1>2

LEMMA MessageKeeps ==
    ASSUME MessageTypes, MessageStep
    PROVE  MessageTypes'
<1> USE DEF MessageTypes
<1>1. UNCHANGED <<msg, ask>> /\ InLoop
  BY DEF MessageStep, PassElement, PullupHere, PullupCopy, ApplyHere, ApplyCopy, Turn
<1>2. /\ ec \in 1 .. Len(msg) /\ Len(msg) \in Nat /\ msg[ec] \in 0 .. Length
      /\ length \in Nat /\ offset \in Nat /\ uc \in Nat /\ length < Word /\ offset < Word
  BY <1>1, WordIs, ElementOfSeq DEF InLoop
<1>3. CASE PassElement
  <2>1. ec' = ec + 1 /\ offset' = Minus(offset, msg[ec]) /\ UNCHANGED <<length, uc>>
    BY <1>3 DEF PassElement, NextElement
  <2>2. offset - msg[ec] \in Int /\ offset' = (offset - msg[ec]) % Word
    BY <1>2, <2>1 DEF Minus
  <2>3. offset' \in 0 .. Word - 1
    BY <2>2, ModType
  <2> QED
    BY <1>1, <1>2, <2>1, <2>3, WordIs
<1>4. CASE PullupHere
  BY <1>1, <1>4, WordIs DEF PullupHere
<1>5. CASE PullupCopy
  <2> DEFINE len == Lesser(length, Room)
  <2>1. offset < msg[ec] /\ ec' = ec + 1 /\ offset' = Minus(offset, len) /\ length' = length - len /\ UNCHANGED uc
    BY <1>5 DEF PullupCopy
  <2>2. len \in Nat /\ len <= length
    BY <1>2, <2>1 DEF Lesser, Room
  <2> HIDE DEF len
  <2>3. offset' \in 0 .. Word - 1
    BY <1>2, <2>1, <2>2, WordIs DEF Minus
  <2> QED
    BY <1>1, <1>2, <2>1, <2>2, <2>3, WordIs
<1>6. CASE ApplyHere
  <2>1. /\ ask.unit <= Room /\ uc' = 0 /\ offset' = offset + ask.unit
        /\ length' = Minus(length, ask.unit) /\ UNCHANGED ec
    BY <1>6 DEF ApplyHere
  <2>2. offset' \in 0 .. Word - 1
    <3>1. ask.unit \in Nat /\ offset' = offset + ask.unit /\ ask.unit <= msg[ec] - offset
      BY <2>1, WordIs DEF Room
    <3>2. msg[ec] \in Nat /\ msg[ec] < Word /\ Word \in Nat
      BY <1>2, WordIs
    <3> QED
      BY ONLY <1>2, <3>1, <3>2
  <2>3. length - ask.unit \in Int /\ length' = (length - ask.unit) % Word
    BY <1>2, <2>1 DEF Minus
  <2>4. length' \in 0 .. Word - 1
    BY <2>3, ModType
  <2> QED
    BY <1>1, <2>1, <2>2, <2>4, WordIs
<1>7. CASE ApplyCopy
  <2> DEFINE len == Lesser(Minus(length, uc), Room)
  <2>1. /\ offset < msg[ec] /\ offset' = offset + len /\ length' = Minus(length, len) /\ UNCHANGED ec
        /\ uc' = 0 \/ uc' = Minus(uc + len, 0)
    BY <1>7 DEF ApplyCopy
  <2>2. Minus(length, uc) \in Nat
    BY <1>2, WordIs DEF Minus
  <2>3. len \in Nat /\ len <= Room
    BY <1>2, <2>1, <2>2 DEF Lesser, Room
  <2> HIDE DEF len
  <2>4. offset' \in 0 .. Word - 1
    <3>1. len \in Nat /\ offset' = offset + len /\ len <= msg[ec] - offset
      BY <2>1, <2>3 DEF Room
    <3>2. msg[ec] \in Nat /\ msg[ec] < Word /\ Word \in Nat
      BY <1>2, WordIs
    <3> QED
      BY ONLY <1>2, <3>1, <3>2
  <2>5. length' \in 0 .. Word - 1 /\ uc' \in 0 .. Word - 1
    <3>1. /\ length - len \in Int /\ length' = (length - len) % Word
          /\ uc' = 0 \/ uc' = (uc + len - 0) % Word
      BY <1>2, <2>1, <2>3 DEF Minus
    <3>2. uc + len - 0 \in Int /\ 0 \in 0 .. Word - 1
      BY <1>2, <2>3, WordIs
    <3> QED
      BY <3>1, <3>2, ModType
  <2> QED
    BY <1>1, <2>1, <2>4, <2>5
<1> QED
  BY <1>3, <1>4, <1>5, <1>6, <1>7 DEF MessageStep

-----------------------------------------------------------------------------
(* What is read of a message.                                              *)

Amount == ask.length \div Unit

ReadTypes ==
    /\ ask \in Calls \cup {NoCall}
    /\ given \in Seq(Seq(Nat \X Nat)) /\ tbuf \in Seq(Nat \X Nat)
    /\ turns \in Nat /\ ec <= Len(msg) + 1

\* The units so far were handed out where they lie, and the next begins at the
\* loop's place in the message.
InPlace ==
    /\ tbuf = <<>> /\ uc = 0
    /\ length + Len(given) * Unit = ask.length
    /\ Before(ec) + offset = ask.offset + Len(given) * Unit
    /\ \A n \in DOMAIN given : Whole(n)
    /\ turns = ec - 1 + Len(given)

\* A pullup has found all of its data in one element.
PulledUp == ask.fn = "pullup" /\ length = 0 /\ AllWhole

\* A unit crosses, and those before it were handed out as they are.
Crossed == \E n \in Units : Crosses(n) /\ \A m \in 1 .. n - 1 : Whole(m)

PullupTurns ==
    ask.fn = "pullup" => turns <= Len(msg) /\ (length > 0 => turns <= ec - 1)

ReadInv ==
    /\ ReadTypes /\ PullupTurns
    /\ InRange => InPlace \/ PulledUp \/ Crossed

LEMMA DivMod ==
    ASSUME NEW a \in Nat, NEW u \in Nat \ {0}
    PROVE  a \div u \in Nat /\ a = (a \div u) * u + (a % u)
<1>1. a \div u \in Nat /\ a = u * (a \div u) + (a % u)
  OBVIOUS
<1>2. u * (a \div u) = (a \div u) * u
  BY <1>1
<1> QED
  BY <1>1, <1>2

LEMMA AskIs ==
    ASSUME ReadTypes
    PROVE  /\ ask.offset \in 0 .. MaxAsked /\ ask.length \in 0 .. MaxAsked /\ ask.unit \in Nat \ {0}
           /\ ask.fn = "pullup" => ask.unit = 1
           /\ Unit \in Nat \ {0} /\ Amount \in Nat /\ Amount * Unit = ask.length
           /\ Units = 1 .. Amount /\ Cardinality(Units) = Amount
           /\ ask.fn = "pullup" /\ ask.length > 0 => Unit = ask.length /\ Amount = 1
           /\ ask.fn = "apply" => Unit = ask.unit
<1>1. /\ ask.offset \in 0 .. MaxAsked /\ ask.length \in 0 .. MaxAsked /\ ask.unit \in Nat \ {0}
      /\ ask.fn = "pullup" => ask.unit = 1
      /\ ask.fn \in {"pullup", "apply"} \/ ask.length = 0
      /\ ask.fn = "apply" => ask.length % ask.unit = 0
  <2>1. CASE ask \in Calls
    BY <2>1, WordIs DEF Calls
  <2>2. CASE ask = NoCall
    BY <2>2, WordIs DEF NoCall
  <2> QED
    BY <2>1, <2>2 DEF ReadTypes
<1>2. ask.length \in Nat /\ Unit \in Nat \ {0}
  BY <1>1, WordIs DEF Unit
<1>3. Amount \in Nat
  BY <1>2 DEF Amount
<1>4. ask.fn = "pullup" /\ ask.length > 0 => Unit = ask.length /\ Amount = 1
  BY <1>2 DEF Unit, Amount
<1>5. ask.fn = "apply" => Unit = ask.unit
  BY DEF Unit
<1>6. Amount * Unit = ask.length
  <2>1. CASE ask.length = 0
    <3>1. Amount = 0
      BY <1>2, <2>1 DEF Amount
    <3> QED
      BY <1>2, <2>1, <3>1
  <2>2. CASE ask.fn = "pullup" /\ ask.length > 0
    BY <1>2, <1>4, <2>2
  <2>3. CASE ask.fn = "apply"
    <3>1. ask.length % Unit = 0
      BY <1>1, <1>5, <2>3
    <3>2. ask.length = Amount * Unit + (ask.length % Unit)
      BY <1>2, DivMod DEF Amount
    <3> QED
      BY <1>2, <1>3, <3>1, <3>2 DEF Amount
  <2> QED
    BY <1>1, <1>2, <2>1, <2>2, <2>3
<1>7. Units = 1 .. Amount
  BY DEF Units, Amount
<1>8. Cardinality(Units) = Amount
  BY <1>3, <1>7, FS_Interval
<1> QED
  BY <1>1, <1>2, <1>3, <1>4, <1>5, <1>6, <1>7, <1>8

LEMMA MessageIs ==
    ASSUME MessageTypes
    PROVE  /\ DOMAIN msg = 1 .. Len(msg) /\ Len(msg) \in Nat /\ Length \in Nat
           /\ \A e \in 1 .. Len(msg) : msg[e] \in Nat /\ msg[e] <= Length
<1>1. DOMAIN msg = 1 .. Len(msg) /\ Len(msg) \in Nat /\ Length \in Nat
  BY WordIs DEF MessageTypes
<1>2. ASSUME NEW e \in 1 .. Len(msg) PROVE msg[e] \in Nat /\ msg[e] <= Length
  <2>1. msg[e] \in 0 .. Length
    BY ElementOfSeq DEF MessageTypes
  <2> QED
    BY <1>1, <2>1
<1> QED
  BY <1>1, <1>2

LEMMA MessageFinite ==
    ASSUME MessageTypes
    PROVE  /\ IsFiniteSet(Message)
           /\ \A S \in SUBSET Message : IsFiniteSet(S) /\ Cardinality(S) \in Nat
<1>1. DOMAIN msg = 1 .. Len(msg) /\ Len(msg) \in Nat
  BY DEF MessageTypes
<1>2. IsFiniteSet(DOMAIN msg) /\ IsFiniteSet(0 .. Length - 1)
  BY <1>1, WordIs, FS_Interval
<1>3. IsFiniteSet((DOMAIN msg) \X (0 .. Length - 1))
  BY <1>2, FS_Product
<1>4. Message \subseteq (DOMAIN msg) \X (0 .. Length - 1)
  BY DEF Message
<1>5. IsFiniteSet(Message)
  BY <1>3, <1>4, FS_Subset
<1> QED
  BY <1>5, FS_Subset, FS_CardinalityType

\* The bytes of an element are as many as it is long.
LEMMA ElementHas ==
    ASSUME NEW e, NEW n \in Nat
    PROVE  IsFiniteSet({e} \X (0 .. n - 1)) /\ Cardinality({e} \X (0 .. n - 1)) = n
<1>1. IsFiniteSet({e}) /\ Cardinality({e}) = 1
  BY FS_Singleton
<1>2. IsFiniteSet(0 .. n - 1) /\ Cardinality(0 .. n - 1) = n
  BY FS_Interval
<1>3. /\ IsFiniteSet({e} \X (0 .. n - 1))
      /\ Cardinality({e} \X (0 .. n - 1)) = Cardinality({e}) * Cardinality(0 .. n - 1)
  BY <1>1, <1>2, FS_Product
<1> QED
  BY <1>1, <1>2, <1>3

\* The elements lie one behind the other.
LEMMA BeforeIs ==
    ASSUME MessageTypes
    PROVE  /\ Before(1) = 0 /\ Before(Len(msg) + 1) = Cardinality(Message)
           /\ \A e \in 1 .. Len(msg) + 1 : Before(e) \in Nat
           /\ \A e \in 1 .. Len(msg) : Before(e + 1) = Before(e) + msg[e]
<1> DEFINE Ahead(e) == {b \in Message : b[1] < e}
<1>1. /\ DOMAIN msg = 1 .. Len(msg) /\ Len(msg) \in Nat /\ Length \in Nat
      /\ \A e \in 1 .. Len(msg) : msg[e] \in Nat /\ msg[e] <= Length
  BY MessageIs
<1>2. \A b \in Message : b[1] \in 1 .. Len(msg) /\ b[2] \in 0 .. msg[b[1]] - 1 /\ b = <<b[1], b[2]>>
  BY <1>1 DEF Message
<1>3. \A e : IsFiniteSet(Ahead(e)) /\ Cardinality(Ahead(e)) \in Nat
  BY MessageFinite
<1>4. Before(1) = 0
  <2>1. Ahead(1) = {}
    BY <1>1, <1>2
  <2> QED
    BY <2>1, FS_EmptySet DEF Before
<1>5. Before(Len(msg) + 1) = Cardinality(Message)
  <2>1. Ahead(Len(msg) + 1) = Message
    BY <1>1, <1>2
  <2> QED
    BY <2>1 DEF Before
<1>6. ASSUME NEW e \in 1 .. Len(msg)
      PROVE  Before(e + 1) = Before(e) + msg[e]
  <2> DEFINE mine == {e} \X (0 .. msg[e] - 1)
  <2>1. msg[e] \in Nat /\ msg[e] <= Length
    BY <1>1, WordIs
  <2>2. IsFiniteSet(mine) /\ Cardinality(mine) = msg[e]
    BY <2>1, ElementHas
  <2>3. \A i \in 0 .. msg[e] - 1 : <<e, i>> \in Message
    BY <1>1, <2>1, WordIs DEF Message
  <2>4. Ahead(e + 1) = Ahead(e) \cup mine
    <3>1. ASSUME NEW b \in Ahead(e + 1) PROVE b \in Ahead(e) \cup mine
      <4>1. b \in Message /\ b[1] < e + 1 /\ b[1] \in Nat
        BY <1>2, <3>1
      <4>2. CASE b[1] = e
        BY <1>2, <4>1, <4>2
      <4>3. CASE b[1] # e
        BY <4>1, <4>3
      <4> QED
        BY <4>2, <4>3
    <3>2. ASSUME NEW b \in mine PROVE b \in Ahead(e + 1)
      BY <2>3, <3>2
    <3>3. ASSUME NEW b \in Ahead(e) PROVE b \in Ahead(e + 1)
      BY <1>2, <3>3
    <3> QED
      BY <3>1, <3>2, <3>3
  <2>5. Ahead(e) \cap mine = {}
    BY <1>2
  <2>6. Cardinality(Ahead(e) \cup mine) = Cardinality(Ahead(e)) + Cardinality(mine)
    <3> HIDE DEF Ahead, mine
    <3>1. IsFiniteSet(Ahead(e)) /\ Cardinality(Ahead(e)) \in Nat /\ Cardinality({}) = 0
      BY <1>3, FS_EmptySet
    <3>2. Cardinality(Ahead(e) \cup mine) = Cardinality(Ahead(e)) + Cardinality(mine) - Cardinality(Ahead(e) \cap mine)
      BY <2>2, <3>1, FS_Union
    <3>3. Cardinality(Ahead(e) \cap mine) = 0 /\ Cardinality(mine) \in Nat
      BY <2>1, <2>2, <2>5, <3>1
    <3> QED
      BY <3>1, <3>2, <3>3
  <2> HIDE DEF mine
  <2> QED
    BY <2>2, <2>4, <2>6 DEF Before
<1>7. \A e \in 1 .. Len(msg) + 1 : Before(e) \in Nat
  BY <1>3 DEF Before
<1> QED
  BY <1>4, <1>5, <1>6, <1>7

\* A byte is behind those before its element, and before those behind it.
LEMMA PlaceIs ==
    ASSUME MessageTypes, NEW e \in 1 .. Len(msg), NEW i \in 0 .. msg[e] - 1
    PROVE  <<e, i>> \in Message /\ Place(<<e, i>>) = Before(e) + i
<1>1. msg[e] \in Nat /\ msg[e] <= Length /\ Length \in Nat /\ e \in DOMAIN msg
  BY MessageIs
<1>2. i \in 0 .. Length - 1 /\ i < msg[e]
  BY <1>1, WordIs
<1> QED
  BY <1>1, <1>2 DEF Message, Place

\* Every place has a byte: that of the last element that begins before it.
LEMMA PlaceHasByte ==
    ASSUME MessageTypes, NEW q \in Nat, q < Cardinality(Message)
    PROVE  \E e \in 1 .. Len(msg) :
              /\ Before(e) <= q /\ q < Before(e + 1)
              /\ <<e, q - Before(e)>> \in Message /\ Place(<<e, q - Before(e)>>) = q
<1>1. /\ Before(1) = 0 /\ Before(Len(msg) + 1) = Cardinality(Message) /\ Len(msg) \in Nat
      /\ \A e \in 1 .. Len(msg) + 1 : Before(e) \in Nat
      /\ \A e \in 1 .. Len(msg) : Before(e + 1) = Before(e) + msg[e] /\ msg[e] \in Nat
  BY BeforeIs, MessageIs
<1> DEFINE S == {e \in 1 .. Len(msg) + 1 : q < Before(e)}
<1>2. S \subseteq Nat /\ S # {}
  <2>1. Len(msg) + 1 \in S
    BY <1>1
  <2> QED
    BY <2>1
<1>3. PICK f \in S : \A e \in S : ~(<<e, f>> \in OpToRel(<, Nat))
  BY <1>2, NatLessThanWellFounded, WFMin, Zenon
<1>4. \A e \in S : ~(e < f)
  BY <1>2, <1>3, Zenon DEF OpToRel
<1>5. f \in 2 .. Len(msg) + 1 /\ q < Before(f)
  <2>1. f # 1
    BY <1>1
  <2> QED
    BY <1>1, <2>1
<1> DEFINE e == f - 1
<1>6. e \in 1 .. Len(msg) /\ e + 1 = f /\ e < f
  BY <1>1, <1>5
<1>7. e \notin S /\ e \in 1 .. Len(msg) + 1
  BY <1>1, <1>4, <1>6
<1>8. Before(e) <= q
  <2>1. ~(q < Before(e)) /\ Before(e) \in Nat
    BY <1>1, <1>7
  <2> HIDE DEF e
  <2> QED
    BY <2>1
<1> HIDE DEF S, e
<1>9. q - Before(e) \in 0 .. msg[e] - 1
  <2>1. q < Before(e) + msg[e] /\ Before(e) \in Nat /\ msg[e] \in Nat
    BY <1>1, <1>5, <1>6, <1>7
  <2> QED
    BY ONLY <1>8, <2>1, q \in Nat
<1>10. Before(e) + (q - Before(e)) = q
  BY <1>1, <1>7
<1> QED
  BY <1>5, <1>6, <1>8, <1>9, <1>10, PlaceIs

\* What depends on the message and the call alone.
LEMMA Fixed ==
    ASSUME UNCHANGED <<msg, ask>>
    PROVE  /\ Message' = Message /\ Unit' = Unit /\ Units' = Units
           /\ InRange' <=> InRange
           /\ \A e : Before(e)' = Before(e)
           /\ \A b : Place(b)' = Place(b)
           /\ \A n, k : PlaceOf(n, k)' = PlaceOf(n, k)
           /\ \A n : Crosses(n)' <=> Crosses(n)
<1>1. msg' = msg /\ ask' = ask
  OBVIOUS
<1>2. Message' = Message
  BY <1>1 DEF Message
<1>3. \A e : Before(e)' = Before(e)
  BY <1>2 DEF Before
<1>4. \A b : Place(b)' = Place(b)
  BY <1>3 DEF Place
<1>5. Unit' = Unit
  BY <1>1 DEF Unit
<1>6. Units' = Units /\ \A n, k : PlaceOf(n, k)' = PlaceOf(n, k)
  BY <1>1, <1>5 DEF Units, PlaceOf
<1>7. InRange' <=> InRange
  BY <1>1, <1>2 DEF InRange
<1>8. \A n : Crosses(n)' <=> Crosses(n)
  <2> SUFFICES ASSUME NEW n PROVE Crosses(n)' <=> Crosses(n)
    OBVIOUS
  <2>1. PlaceOf(n, 1)' = PlaceOf(n, 1) /\ PlaceOf(n, Unit)' = PlaceOf(n, Unit)
    BY <1>1, <1>5 DEF PlaceOf
  <2> QED
    BY ONLY <1>2, <1>4, <2>1 DEF Crosses
<1> QED
  BY <1>2, <1>3, <1>4, <1>5, <1>6, <1>7, <1>8

LEMMA WholeKept ==
    ASSUME UNCHANGED <<msg, ask>>, NEW m, Whole(m), m \in DOMAIN given', given'[m] = given[m]
    PROVE  Whole(m)'
<1>1. /\ Message' = Message /\ Unit' = Unit /\ \A b : Place(b)' = Place(b)
      /\ \A n, k : PlaceOf(n, k)' = PlaceOf(n, k)
  BY Fixed
<1> QED
  BY <1>1, Zenon DEF Whole

LEMMA CrossedKept ==
    ASSUME ReadTypes, UNCHANGED <<msg, ask>>, Crossed,
           given' = given \/ (\E x : given' = Append(given, x)) \/ ask.fn = "pullup"
    PROVE  Crossed'
<1>1. PICK n \in Units : Crosses(n) /\ \A m \in 1 .. n - 1 : Whole(m)
  BY DEF Crossed
<1>2. Crosses(n)' /\ n \in Units'
  BY <1>1, Fixed
<1>3. ASSUME NEW m \in 1 .. n - 1 PROVE Whole(m)'
  <2>1. Whole(m) /\ m \in DOMAIN given
    BY <1>1, <1>3 DEF Whole
  <2>2. CASE given' = given
    BY <2>1, <2>2, WholeKept
  <2>3. CASE \E x : given' = Append(given, x)
    <3>1. m \in DOMAIN given' /\ given'[m] = given[m]
      BY <2>1, <2>3 DEF ReadTypes
    <3> QED
      BY <2>1, <3>1, WholeKept
  <2>4. CASE ask.fn = "pullup"
    <3>1. n \in 1 .. Amount /\ Amount \in Nat
      BY AskIs
    <3>2. ask.length > 0
      <4>1. Amount > 0 /\ Amount * Unit = ask.length /\ Unit \in Nat \ {0}
        BY <3>1, AskIs
      <4> QED
        BY <3>1, <4>1
    <3>3. Amount = 1
      BY <2>4, <3>2, AskIs
    <3> QED
      BY <3>1, <3>3
  <2> QED
    BY <2>2, <2>3, <2>4
<1> QED
  BY <1>2, <1>3 DEF Crossed

\* There is a unit to come, and it lies within the message.
LEMMA UnitToCome ==
    ASSUME MessageTypes, ReadTypes, InRange, InPlace, length > 0
    PROVE  LET n == Len(given) + 1
           IN /\ n \in Units /\ Unit <= length
              /\ \A k \in 1 .. Unit : PlaceOf(n, k) = Before(ec) + offset + k - 1
              /\ PlaceOf(n, Unit) < Cardinality(Message)
<1> DEFINE d == Len(given)
<1>1. /\ Unit \in Nat \ {0} /\ Amount \in Nat /\ Amount * Unit = ask.length
      /\ ask.offset \in Nat /\ Units = 1 .. Amount
  BY AskIs, WordIs
<1>2. d \in Nat /\ length \in Nat /\ d * Unit \in Nat
  BY <1>1, WordIs DEF ReadTypes, MessageTypes
<1>3. length + d * Unit = Amount * Unit /\ Before(ec) + offset = ask.offset + d * Unit
  BY <1>1 DEF InPlace
<1> HIDE DEF d
<1>4. d < Amount
  <2>1. SUFFICES ASSUME Amount <= d PROVE FALSE
    BY <1>1, <1>2
  <2>2. Amount * Unit <= d * Unit
    BY <1>1, <1>2, <2>1
  <2> QED
    BY <1>1, <1>2, <1>3, <2>2
<1>5. (d + 1) * Unit <= Amount * Unit /\ (d + 1) * Unit = d * Unit + Unit
  BY <1>1, <1>2, <1>4
<1>6. Unit <= length
  BY <1>1, <1>2, <1>3, <1>5
<1>7. \A k \in 1 .. Unit : PlaceOf(d + 1, k) = Before(ec) + offset + k - 1
  <2>1. \A k \in 1 .. Unit : PlaceOf(d + 1, k) = ask.offset + d * Unit + k - 1
    BY <1>1, <1>2 DEF PlaceOf
  <2> QED
    BY <1>3, <2>1
<1>8. PlaceOf(d + 1, Unit) < Cardinality(Message)
  <2>1. PlaceOf(d + 1, Unit) = ask.offset + d * Unit + Unit - 1
    BY <1>1, <1>2 DEF PlaceOf
  <2>2. Cardinality(Message) \in Nat /\ ask.offset + Amount * Unit <= Cardinality(Message)
    BY <1>1, MessageFinite DEF InRange
  <2>3. d * Unit + Unit <= Amount * Unit /\ Amount * Unit \in Nat
    BY <1>1, <1>2, <1>5
  <2>4. PlaceOf(d + 1, Unit) < ask.offset + (d * Unit + Unit)
    BY <1>1, <1>2, <2>1
  <2>5. ask.offset + (d * Unit + Unit) <= ask.offset + Amount * Unit
    BY <1>1, <1>2, <2>3
  <2> QED
    BY <1>1, <1>2, <2>1, <2>2, <2>3, <2>4, <2>5
<1>9. d + 1 \in Units
  BY <1>1, <1>2, <1>4
<1> QED
  BY <1>6, <1>7, <1>8, <1>9 DEF d

\* A unit that the loop's element does not hold crosses to another.
LEMMA CrossesHere ==
    ASSUME MessageTypes, ReadTypes, InRange, InPlace, ec <= Len(msg), length > 0,
           offset < msg[ec], Room < Unit
    PROVE  Crossed
<1> DEFINE n == Len(given) + 1
           p == Before(ec) + offset
<1>1. /\ n \in Units /\ \A k \in 1 .. Unit : PlaceOf(n, k) = Before(ec) + offset + k - 1
      /\ PlaceOf(n, Unit) < Cardinality(Message)
  BY UnitToCome
<1>2. ec \in 1 .. Len(msg) /\ Len(msg) \in Nat /\ msg[ec] \in Nat /\ offset \in Nat /\ Unit \in Nat \ {0}
  BY AskIs, MessageIs, WordIs DEF MessageTypes
<1>3. /\ Before(ec) \in Nat /\ Before(ec + 1) = Before(ec) + msg[ec]
      /\ \A e \in 1 .. Len(msg) + 1 : Before(e) \in Nat
  BY <1>2, BeforeIs
<1>4. PlaceOf(n, 1) = p /\ PlaceOf(n, Unit) = p + Unit - 1
  BY <1>1, <1>2, <1>3
<1>5. p \in Nat /\ p + Unit - 1 \in Nat /\ Before(ec + 1) <= p + Unit - 1
  <2>1. offset < msg[ec] /\ msg[ec] - offset < Unit
    BY DEF Room
  <2>2. Before(ec) \in Nat /\ Before(ec + 1) = Before(ec) + msg[ec]
    BY <1>3
  <2>3. offset \in Nat /\ msg[ec] \in Nat /\ Unit \in Nat \ {0}
    BY <1>2
  <2>4. \A b, o, m, u \in Nat : m - o < u /\ u # 0 => b + o \in Nat /\ b + o + u - 1 \in Nat /\ b + m <= b + o + u - 1
    OBVIOUS
  <2> QED
    BY ONLY <2>1, <2>2, <2>3, <2>4
<1>6. <<ec, offset>> \in Message /\ Place(<<ec, offset>>) = p
  <2>1. offset \in 0 .. msg[ec] - 1
    BY ONLY <1>2, offset < msg[ec]
  <2>2. ec \in 1 .. Len(msg)
    BY <1>2
  <2> QED
    BY <2>1, <2>2, PlaceIs
<1> DEFINE q == p + Unit - 1
<1> HIDE DEF n, p
<1>11. q \in Nat /\ q < Cardinality(Message) /\ Before(ec + 1) <= q /\ PlaceOf(n, Unit) = q
  BY <1>1, <1>4, <1>5
<1> HIDE DEF q
<1>7. PICK e \in 1 .. Len(msg) :
        /\ Before(e) <= q /\ q < Before(e + 1)
        /\ <<e, q - Before(e)>> \in Message /\ Place(<<e, q - Before(e)>>) = q
  BY <1>11, PlaceHasByte
<1>8. e # ec
  <2>1. e + 1 \in 1 .. Len(msg) + 1
    BY <1>2
  <2> QED
    BY <1>2, <1>3, <1>7, <1>11, <2>1
<1>9. Crosses(n)
  <2> DEFINE b == <<ec, offset>>
             c == <<e, q - Before(e)>>
  <2>1. b \in Message /\ c \in Message /\ b[1] # c[1]
    BY <1>6, <1>7, <1>8
  <2>2. Place(b) = p /\ Place(c) = q
    BY <1>6, <1>7
  <2>3. {p, q} \subseteq PlaceOf(n, 1) .. PlaceOf(n, Unit)
    <3>1. PlaceOf(n, 1) = p /\ p <= q
      BY <1>2, <1>4, <1>5 DEF q
    <3> QED
      BY <1>5, <1>11, <3>1
  <2> HIDE DEF b, c
  <2> QED
    BY <2>1, <2>2, <2>3 DEF Crosses
<1>10. \A m \in 1 .. n - 1 : Whole(m)
  BY DEF n, InPlace, ReadTypes
<1> QED
  BY <1>1, <1>9, <1>10 DEF Crossed, n

\* A unit that it holds is handed out as it is.
LEMMA WholeHere ==
    ASSUME MessageTypes, ReadTypes, InRange, InPlace, ec <= Len(msg), length > 0,
           offset < msg[ec], Unit <= Room, UNCHANGED <<msg, ask>>,
           given' = Append(given, Bytes(ec, offset, Unit))
    PROVE  \A n \in DOMAIN given' : Whole(n)'
<1> DEFINE d == Len(given)
           x == Bytes(ec, offset, Unit)
<1>1. \A k \in 1 .. Unit : PlaceOf(d + 1, k) = Before(ec) + offset + k - 1
  BY UnitToCome
<1>2. ec \in 1 .. Len(msg) /\ msg[ec] \in Nat /\ offset \in Nat /\ Unit \in Nat \ {0} /\ Before(ec) \in Nat
  <2>1. ec \in 1 .. Len(msg) /\ msg[ec] \in Nat /\ offset \in Nat /\ Len(msg) \in Nat
    BY MessageIs, WordIs DEF MessageTypes
  <2>2. Unit \in Nat \ {0}
    BY AskIs
  <2>3. ec \in 1 .. Len(msg) + 1
    BY <2>1
  <2> QED
    BY <2>1, <2>2, <2>3, BeforeIs
<1>3. Len(x) = Unit /\ \A k \in 1 .. Unit : x[k] = <<ec, offset + k - 1>>
  BY <1>2 DEF Bytes
<1>4. ASSUME NEW k \in 1 .. Unit
      PROVE  x[k] \in Message /\ Place(x[k]) = PlaceOf(d + 1, k)
  <2>1. offset + k - 1 \in 0 .. msg[ec] - 1
    BY <1>2 DEF Room
  <2>2. /\ <<ec, offset + k - 1>> \in Message
        /\ Place(<<ec, offset + k - 1>>) = Before(ec) + (offset + k - 1)
    BY <1>2, <2>1, PlaceIs
  <2>3. Before(ec) + (offset + k - 1) = PlaceOf(d + 1, k)
    BY <1>1, <1>2
  <2> QED
    BY <1>3, <2>2, <2>3
<1>5. given' = Append(given, x) /\ given \in Seq(Seq(Nat \X Nat))
  BY DEF ReadTypes
<1> HIDE DEF x
<1>6. /\ DOMAIN given' = 1 .. d + 1 /\ given'[d + 1] = x /\ d \in Nat /\ DOMAIN given = 1 .. d
      /\ \A n \in 1 .. d : given'[n] = given[n]
  BY <1>5
<1> HIDE DEF d
<1>7. ASSUME NEW n, n = d + 1 PROVE Whole(n)'
  <2>1. /\ Message' = Message /\ Unit' = Unit /\ \A b : Place(b)' = Place(b)
        /\ \A m, k : PlaceOf(m, k)' = PlaceOf(m, k)
    BY Fixed
  <2>2. n \in DOMAIN given' /\ given'[n] = x
    BY <1>6, <1>7
  <2>3. Len(x) = Unit /\ \A k \in 1 .. Unit : x[k] \in Message /\ Place(x[k]) = PlaceOf(n, k)
    BY <1>3, <1>4, <1>7
  <2> QED
    BY <2>1, <2>2, <2>3, Zenon DEF Whole
<1>8. ASSUME NEW n \in 1 .. d PROVE Whole(n)'
  <2>1. n \in DOMAIN given /\ n \in DOMAIN given' /\ given'[n] = given[n]
    BY ONLY <1>6, <1>8
  <2>2. Whole(n)
    BY <2>1 DEF InPlace
  <2> QED
    BY <2>1, <2>2, WholeKept
<1>9. ASSUME NEW n \in DOMAIN given' PROVE Whole(n)'
  BY <1>6, <1>7, <1>8
<1> QED
  BY <1>9

LEMMA ReadInit ==
    ASSUME IF part = "messages" THEN MessageBegins ELSE NoMessage
    PROVE  ReadInv
<1>1. /\ ask \in Calls \cup {NoCall} /\ msg \in Seq(0 .. Length)
      /\ ec = 1 /\ offset = ask.offset /\ length = ask.length
      /\ tbuf = <<>> /\ uc = 0 /\ given = <<>> /\ turns = 0
  <2>1. CASE part = "messages"
    <3>1. PICK n \in 1 .. Elements : \E m \in [1 .. n -> 0 .. Length], c \in Calls : Begins(m, c)
      BY <2>1 DEF MessageBegins
    <3>2. PICK m \in [1 .. n -> 0 .. Length], c \in Calls : Begins(m, c)
      BY <3>1
    <3>3. m \in Seq(0 .. Length)
      BY WordIs
    <3> QED
      BY <3>2, <3>3 DEF Begins
  <2>2. CASE part # "messages"
    <3>1. <<>> \in Seq(0 .. Length)
      OBVIOUS
    <3> QED
      BY <2>2, <3>1 DEF NoMessage, Begins, NoCall
  <2> QED
    BY <2>1, <2>2
<1>2. MessageTypes
  BY MessageInit
<1>3. Len(msg) \in Nat
  BY <1>1
<1>4. ReadTypes
  <2>1. given \in Seq(Seq(Nat \X Nat)) /\ tbuf \in Seq(Nat \X Nat)
    BY <1>1
  <2> QED
    BY <1>1, <1>3, <2>1 DEF ReadTypes
<1>5. /\ ask.offset \in Nat /\ ask.length \in Nat /\ Unit \in Nat
  BY <1>4, AskIs, WordIs
<1>6. Before(1) = 0
  BY <1>2, BeforeIs
<1>7. InPlace
  <2>1. Len(given) = 0 /\ DOMAIN given = {} /\ 0 * Unit = 0
    BY <1>1, <1>5
  <2> QED
    BY <1>1, <1>5, <1>6, <2>1 DEF InPlace
<1>8. PullupTurns
  BY <1>1, <1>3 DEF PullupTurns
<1> QED
  BY <1>4, <1>7, <1>8 DEF ReadInv

\* What a turn takes from the loop's place.
LEMMA TurnIs ==
    ASSUME MessageTypes, ReadTypes, MessageStep
    PROVE  /\ UNCHANGED <<msg, ask>> /\ turns' = turns + 1 /\ turns \in Nat
           /\ ec \in 1 .. Len(msg) /\ Len(msg) \in Nat /\ length \in Nat \ {0}
           /\ offset \in Nat /\ msg[ec] \in Nat /\ msg[ec] < Word /\ Word \in Nat
           /\ offset < Word /\ length < Word
<1>1. UNCHANGED <<msg, ask>> /\ turns' = turns + 1 /\ InLoop
  BY DEF MessageStep, PassElement, PullupHere, PullupCopy, ApplyHere, ApplyCopy, Turn
<1>2. ec \in 1 .. Len(msg) /\ Len(msg) \in Nat
  BY <1>1, MessageIs, WordIs DEF InLoop, MessageTypes
<1>3. msg[ec] \in Nat /\ msg[ec] <= Length
  BY <1>2, MessageIs
<1> QED
  <2>1. length > 0
    BY <1>1 DEF InLoop
  <2>2. offset \in Nat /\ length \in Nat /\ offset < Word /\ length < Word
    BY WordIs DEF MessageTypes
  <2>3. msg[ec] < Word /\ Word \in Nat
    BY <1>3, WordIs
  <2>4. turns \in Nat
    BY DEF MessageTypes, ReadTypes
  <2> QED
    BY ONLY <1>1, <1>2, <1>3, <2>1, <2>2, <2>3, <2>4

LEMMA BytesType ==
    ASSUME NEW e \in Nat, NEW from \in Nat, NEW n \in Nat
    PROVE  Bytes(e, from, n) \in Seq(Nat \X Nat)
<1>1. \A i \in 1 .. n : <<e, from + i - 1>> \in Nat \X Nat
  OBVIOUS
<1> QED
  BY <1>1 DEF Bytes

LEMMA ReadTypesKept ==
    ASSUME MessageTypes, ReadTypes, MessageStep
    PROVE  ReadTypes'
<1>1. /\ UNCHANGED <<msg, ask>> /\ turns' \in Nat
      /\ ec \in 1 .. Len(msg) /\ ec \in Nat /\ Len(msg) \in Nat /\ length \in Nat /\ offset \in Nat /\ msg[ec] \in Nat
      /\ given \in Seq(Seq(Nat \X Nat)) /\ tbuf \in Seq(Nat \X Nat) /\ ask.unit \in Nat
  <2>1. /\ UNCHANGED <<msg, ask>> /\ turns' = turns + 1 /\ turns \in Nat
        /\ ec \in 1 .. Len(msg) /\ Len(msg) \in Nat /\ length \in Nat /\ offset \in Nat /\ msg[ec] \in Nat
    BY TurnIs
  <2>2. ask.unit \in Nat
    BY AskIs
  <2> QED
    BY <2>1, <2>2 DEF ReadTypes
<1>2. CASE PassElement
  BY <1>1, <1>2 DEF PassElement, NextElement, ReadTypes
<1>3. CASE PullupHere
  <2>1. given' = <<Bytes(ec, offset, length)>> /\ UNCHANGED <<ec, tbuf>>
    BY <1>3 DEF PullupHere
  <2>2. Bytes(ec, offset, length) \in Seq(Nat \X Nat)
    BY <1>1, BytesType
  <2>3. given' \in Seq(Seq(Nat \X Nat))
    BY <2>1, <2>2
  <2> QED
    BY <1>1, <2>1, <2>3 DEF ReadTypes
<1>4. CASE PullupCopy
  <2> DEFINE len == Lesser(length, Room)
  <2>1. tbuf' = tbuf \o Bytes(ec, offset, len) /\ given' = <<tbuf'>> /\ ec' = ec + 1 /\ offset < msg[ec]
    BY <1>4 DEF PullupCopy
  <2>2. len \in Nat
    BY <1>1, <2>1 DEF Lesser, Room
  <2> HIDE DEF len
  <2>3. Bytes(ec, offset, len) \in Seq(Nat \X Nat)
    BY <1>1, <2>2, BytesType
  <2>4. tbuf' \in Seq(Nat \X Nat)
    BY <1>1, <2>1, <2>3
  <2>5. given' \in Seq(Seq(Nat \X Nat))
    BY <2>1, <2>4
  <2> QED
    BY <1>1, <2>1, <2>4, <2>5 DEF ReadTypes
<1>5. CASE ApplyHere
  <2>1. given' = Append(given, Bytes(ec, offset, ask.unit)) /\ UNCHANGED <<ec, tbuf>>
    BY <1>5 DEF ApplyHere
  <2>2. Bytes(ec, offset, ask.unit) \in Seq(Nat \X Nat)
    BY <1>1, BytesType
  <2>3. given' \in Seq(Seq(Nat \X Nat))
    BY <1>1, <2>1, <2>2
  <2> QED
    BY <1>1, <2>1, <2>3 DEF ReadTypes
<1>6. CASE ApplyCopy
  <2> DEFINE len == Lesser(Minus(length, uc), Room)
             copied == Bytes(ec, offset, len) \o SubSeq(tbuf, len + 1, Len(tbuf))
  <2>1. /\ given' = given \/ given' = Append(given, copied)
        /\ tbuf' = <<>> \/ tbuf' = copied
        /\ ec' = ec /\ offset < msg[ec]
    BY <1>6 DEF ApplyCopy
  <2>2. len \in Nat
    <3>1. Minus(length, uc) \in Nat
      <4>1. length - uc \in Int
        BY WordIs DEF MessageTypes
      <4> QED
        BY <4>1, ModType, WordIs DEF Minus
    <3>2. Room \in Nat
      BY <1>1, <2>1 DEF Room
    <3> QED
      BY ONLY <3>1, <3>2 DEF Lesser
  <2>3. copied \in Seq(Nat \X Nat)
    <3> HIDE DEF len
    <3>1. Bytes(ec, offset, len) \in Seq(Nat \X Nat)
      BY <1>1, <2>2, BytesType
    <3>2. SubSeq(tbuf, len + 1, Len(tbuf)) \in Seq(Nat \X Nat)
      <4>1. Len(tbuf) \in Nat /\ \A i \in len + 1 .. Len(tbuf) : i \in 1 .. Len(tbuf)
        BY <1>1, <2>2
      <4>2. \A i \in 1 .. Len(tbuf) : tbuf[i] \in Nat \X Nat
        BY <1>1, ElementOfSeq
      <4> QED
        BY <1>1, <2>2, <4>1, <4>2, SubSeqProperties
    <3> QED
      BY <3>1, <3>2
  <2> HIDE DEF copied
  <2>4. given' \in Seq(Seq(Nat \X Nat))
    <3>1. Append(given, copied) \in Seq(Seq(Nat \X Nat))
      BY <1>1, <2>3
    <3> QED
      BY <1>1, <2>1, <3>1, Zenon
  <2>5. tbuf' \in Seq(Nat \X Nat)
    <3>1. <<>> \in Seq(Nat \X Nat)
      OBVIOUS
    <3> QED
      BY <2>1, <2>3, <3>1, Zenon
  <2> QED
    BY <1>1, <2>1, <2>4, <2>5 DEF ReadTypes
<1> QED
  BY <1>2, <1>3, <1>4, <1>5, <1>6 DEF MessageStep

LEMMA PullupTurnsKept ==
    ASSUME MessageTypes, ReadTypes, PullupTurns, MessageStep
    PROVE  PullupTurns'
<1>1. /\ UNCHANGED <<msg, ask>> /\ turns' = turns + 1 /\ turns \in Nat /\ ec \in 1 .. Len(msg)
      /\ Len(msg) \in Nat /\ length \in Nat \ {0}
  BY TurnIs
<1>2. SUFFICES ASSUME ask.fn = "pullup"
               PROVE  turns + 1 <= Len(msg) /\ (length' > 0 => turns + 1 <= ec' - 1)
  BY <1>1 DEF PullupTurns
<1>3. turns <= ec - 1
  BY <1>1, <1>2 DEF PullupTurns
<1>4. ec' = ec + 1 \/ length' = 0
  BY <1>2 DEF MessageStep, PassElement, NextElement, PullupHere, PullupCopy, ApplyHere, ApplyCopy
<1> QED
  BY <1>1, <1>3, <1>4

LEMMA InPlaceStep ==
    ASSUME MessageTypes, ReadTypes, InRange, InPlace, MessageStep, ReadTypes'
    PROVE  InPlace' \/ PulledUp' \/ Crossed'
<1> DEFINE d == Len(given)
<1>1. /\ UNCHANGED <<msg, ask>> /\ turns' = turns + 1 /\ turns \in Nat
      /\ ec \in 1 .. Len(msg) /\ Len(msg) \in Nat /\ length \in Nat \ {0}
      /\ offset \in Nat /\ msg[ec] \in Nat /\ msg[ec] < Word /\ Word \in Nat
      /\ offset < Word /\ length < Word
  BY TurnIs
<1>2. /\ Unit \in Nat \ {0} /\ Unit <= length /\ d \in Nat /\ d * Unit \in Nat
      /\ ask.fn = "pullup" /\ ask.length > 0 => Unit = ask.length /\ Amount = 1
      /\ ask.fn = "apply" => Unit = ask.unit
      /\ Cardinality(Units) = Amount /\ Amount * Unit = ask.length /\ Amount \in Nat /\ ask.length \in Nat
  <2>1. Unit <= length
    BY <1>1, UnitToCome
  <2>2. d \in Nat
    BY DEF ReadTypes
  <2>3. /\ Unit \in Nat \ {0}
        /\ ask.fn = "pullup" /\ ask.length > 0 => Unit = ask.length /\ Amount = 1
        /\ ask.fn = "apply" => Unit = ask.unit
        /\ Cardinality(Units) = Amount /\ Amount * Unit = ask.length /\ Amount \in Nat /\ ask.length \in Nat
    BY AskIs, WordIs
  <2>4. d * Unit \in Nat
    BY <2>2, <2>3
  <2> HIDE DEF d
  <2> QED
    BY <2>1, <2>2, <2>3, <2>4
<1>3. /\ Message' = Message /\ Unit' = Unit /\ Units' = Units
      /\ \A e : Before(e)' = Before(e)
  BY <1>1, Fixed
<1>4. /\ tbuf = <<>> /\ uc = 0 /\ length + d * Unit = ask.length
      /\ Before(ec) + offset = ask.offset + d * Unit
      /\ \A n \in DOMAIN given : Whole(n)
      /\ turns = ec - 1 + d
  BY DEF InPlace
<1>5. /\ Before(ec) \in Nat /\ Before(ec + 1) = Before(ec) + msg[ec]
  <2>1. ec \in 1 .. Len(msg) + 1
    BY <1>1
  <2> QED
    BY <1>1, <2>1, BeforeIs
<1>6. ASSUME offset < msg[ec], Room < Unit, ask.fn = "pullup" \/ given' = given \/ \E x : given' = Append(given, x)
      PROVE  Crossed'
  <2>1. Crossed
    BY <1>1, <1>6, CrossesHere
  <2> QED
    BY <1>1, <1>6, <2>1, CrossedKept
\* In a pullup the unit to come is the first.
<1>7. ASSUME ask.fn = "pullup"
      PROVE  d = 0 /\ Unit = length /\ Unit = ask.length /\ Amount = 1
  <2>1. ask.length > 0
    BY <1>1, <1>2, <1>4
  <2>2. Unit = ask.length /\ Amount = 1
    BY <1>2, <1>7, <2>1
  <2>3. d * Unit = 0 /\ length = Unit
    <3> HIDE DEF d
    <3>1. length + d * Unit = Unit /\ Unit <= length /\ d * Unit \in Nat /\ length \in Nat
      BY <1>1, <1>2, <1>4, <2>2
    <3> QED
      BY ONLY <1>2, <3>1
  <2>4. d = 0
    BY <1>2, <2>3
  <2> HIDE DEF d
  <2> QED
    BY <2>2, <2>3, <2>4
<1>8. CASE PassElement
  <2>1. /\ offset >= msg[ec] /\ ec' = ec + 1 /\ offset' = (offset - msg[ec]) % Word
        /\ UNCHANGED <<length, tbuf, uc, given>>
    BY <1>8 DEF PassElement, NextElement, Minus
  <2>2. offset - msg[ec] \in Nat /\ offset - msg[ec] < Word
    BY <1>1, <2>1
  <2>3. offset' = offset - msg[ec]
    BY <2>1, <2>2, ModSmall
  <2>4. Before(ec)' = Before(ec + 1)
    BY <1>3, <2>1 DEF Before
  <2>5. Before(ec)' + offset' = Before(ec) + offset
    BY <1>1, <1>5, <2>3, <2>4
  <2>6. \A n \in DOMAIN given' : Whole(n)'
    BY <1>1, <1>4, <2>1, WholeKept
  <2>7. turns' = ec' - 1 + d
    BY <1>1, <1>2, <1>4, <2>1
  <2>8. d' = d /\ Unit' = Unit
    BY <1>3, <2>1
  <2>9. InPlace'
    BY <1>1, <1>4, <2>1, <2>5, <2>6, <2>7, <2>8 DEF InPlace
  <2> QED
    BY <2>9
<1>9. CASE PullupHere
  <2>1. /\ ask.fn = "pullup" /\ offset < msg[ec] /\ length <= Room
        /\ given' = <<Bytes(ec, offset, length)>> /\ length' = 0
    BY <1>9 DEF PullupHere
  <2>2. d = 0 /\ Unit = length /\ Amount = 1
    BY <1>7, <2>1
  <2>3. given = <<>>
    BY <2>2 DEF ReadTypes
  <2>4. given' = Append(given, Bytes(ec, offset, Unit))
    BY <2>1, <2>2, <2>3
  <2>5. \A n \in DOMAIN given' : Whole(n)'
    BY <1>1, <2>1, <2>2, <2>4, WholeHere
  <2>6. Len(given') = 1 /\ DOMAIN given' = 1 .. 1
    BY <2>1
  <2>7. Units = 1 .. 1 /\ Cardinality(Units) = 1
    BY <1>2, <2>2 DEF Units, Amount
  <2>8. AllWhole'
    BY <1>3, <2>5, <2>6, <2>7 DEF AllWhole
  <2> QED
    BY <1>1, <2>1, <2>8 DEF PulledUp
<1>10. CASE PullupCopy
  <2>1. ask.fn = "pullup" /\ offset < msg[ec] /\ length > Room
    BY <1>4, <1>10 DEF PullupCopy
  <2>2. Room \in Int /\ Room < Unit
    BY <1>1, <1>7, <2>1 DEF Room
  <2> QED
    BY <1>6, <2>1, <2>2
<1>11. CASE ApplyHere
  <2>1. /\ ask.fn = "apply" /\ offset < msg[ec] /\ ask.unit <= Room
        /\ given' = Append(given, Bytes(ec, offset, ask.unit)) /\ uc' = 0
        /\ offset' = offset + ask.unit /\ length' = (length - ask.unit) % Word
        /\ UNCHANGED <<ec, tbuf>>
    BY <1>11 DEF ApplyHere, Minus
  <2>2. Unit = ask.unit
    BY <1>2, <2>1
  <2>3. length' = length - Unit
    <3>1. length - Unit \in Nat /\ length - Unit < Word
      BY <1>1, <1>2
    <3> QED
      BY <2>1, <2>2, <3>1, ModSmall
  <2>4. d' = d + 1
    BY <2>1 DEF ReadTypes
  <2>5. (d + 1) * Unit = d * Unit + Unit
    BY <1>2
  <2>6. \A n \in DOMAIN given' : Whole(n)'
    BY <1>1, <2>1, <2>2, WholeHere
  <2>7. Before(ec)' = Before(ec)
    BY <1>3, <2>1 DEF Before
  <2> HIDE DEF d
  <2>8. length' + (d + 1) * Unit = ask.length
    BY <1>1, <1>2, <1>4, <2>3, <2>5
  <2>9. Before(ec) + offset' = ask.offset + (d + 1) * Unit
    <3>1. offset' = offset + Unit /\ Before(ec) + offset = ask.offset + d * Unit
      BY <1>4, <2>1, <2>2
    <3>2. Before(ec) + (offset + Unit) = (Before(ec) + offset) + Unit
      BY <1>1, <1>2, <1>5
    <3>3. ask.offset + (d * Unit + Unit) = (ask.offset + d * Unit) + Unit
      <4>1. ask.offset \in Nat
        BY AskIs, WordIs
      <4> QED
        BY <1>2, <4>1
    <3> QED
      BY ONLY <2>5, <3>1, <3>2, <3>3
  <2>10. turns' = ec' - 1 + (d + 1)
    BY <1>1, <1>2, <1>4, <2>1
  <2>11. InPlace'
    BY <1>1, <1>3, <1>4, <2>1, <2>4, <2>6, <2>7, <2>8, <2>9, <2>10 DEF InPlace, d
  <2> QED
    BY <2>11
<1>12. CASE ApplyCopy
  <2>1. ask.fn = "apply" /\ offset < msg[ec] /\ ask.unit > Room
    BY <1>4, <1>12 DEF ApplyCopy
  <2>2. given' = given \/ \E x : given' = Append(given, x)
    BY <1>12 DEF ApplyCopy
  <2>3. Room \in Int /\ Room < Unit
    BY <1>1, <1>2, <2>1 DEF Room
  <2> QED
    BY <1>6, <2>1, <2>2, <2>3
<1> QED
  BY <1>8, <1>9, <1>10, <1>11, <1>12 DEF MessageStep

LEMMA ReadStep ==
    ASSUME MessageTypes, ReadInv, MessageStep
    PROVE  ReadInv'
<1>1. ReadTypes' /\ PullupTurns'
  BY ReadTypesKept, PullupTurnsKept DEF ReadInv
<1>2. UNCHANGED <<msg, ask>> /\ length \in Nat \ {0}
  BY TurnIs DEF ReadInv
<1>3. ASSUME InRange
      PROVE  InPlace' \/ PulledUp' \/ Crossed'
  <2>1. CASE InPlace
    BY <1>1, <1>3, <2>1, InPlaceStep DEF ReadInv
  <2>2. CASE Crossed
    <3>1. given' = given \/ (\E x : given' = Append(given, x)) \/ ask.fn = "pullup"
      BY DEF MessageStep, PassElement, PullupHere, PullupCopy, ApplyHere, ApplyCopy
    <3> QED
      BY <1>2, <2>2, <3>1, CrossedKept DEF ReadInv
  <2>3. CASE PulledUp
    BY <1>2, <2>3 DEF PulledUp
  <2> QED
    BY <1>3, <2>1, <2>2, <2>3 DEF ReadInv
<1>4. InRange' <=> InRange
  BY <1>2, Fixed
<1> QED
  BY <1>1, <1>3, <1>4 DEF ReadInv

LEMMA ReadKept ==
    ASSUME ReadInv, UNCHANGED messageVars
    PROVE  ReadInv'
<1>1. /\ UNCHANGED <<msg, ask, ec, offset, length, tbuf, uc, given, turns>>
      /\ Unit' = Unit /\ Units' = Units /\ (InRange' <=> InRange) /\ \A e : Before(e)' = Before(e)
  BY Fixed DEF messageVars
<1>2. ReadTypes' /\ PullupTurns'
  BY <1>1 DEF ReadInv, ReadTypes, PullupTurns
<1>3. \A n \in DOMAIN given : Whole(n) => Whole(n)'
  BY <1>1, WholeKept
<1>4. ASSUME InPlace PROVE InPlace'
  <2>1. Before(ec)' = Before(ec)
    BY <1>1, Fixed DEF Before
  <2>2. \A n \in DOMAIN given : Whole(n)'
    BY <1>3, <1>4 DEF InPlace
  <2> QED
    BY <1>1, <1>4, <2>1, <2>2 DEF InPlace
<1>5. ASSUME PulledUp PROVE PulledUp'
  <2>1. \A n \in Units : Whole(n) /\ n \in DOMAIN given
    BY <1>5 DEF PulledUp, AllWhole, Whole
  <2>2. \A n \in Units : Whole(n)'
    BY <1>3, <2>1
  <2> QED
    BY <1>1, <1>5, <2>2 DEF PulledUp, AllWhole
<1>6. ASSUME Crossed PROVE Crossed'
  BY <1>1, <1>6, CrossedKept DEF ReadInv
<1> QED
  BY <1>1, <1>2, <1>4, <1>5, <1>6 DEF ReadInv

\* When the function returns, there is no unit to come.
LEMMA ReadWhole ==
    ASSUME MessageTypes, ReadInv
    PROVE  DataIsWhole
<1> SUFFICES ASSUME InRange, Returned, InPlace
             PROVE  AllWhole
  BY DEF ReadInv, DataIsWhole, PulledUp, Crossed
<1> DEFINE d == Len(given)
<1>1. /\ Unit \in Nat \ {0} /\ Amount \in Nat /\ Amount * Unit = ask.length
      /\ ask.offset \in Nat /\ ask.length \in Nat
      /\ Units = 1 .. Amount /\ Cardinality(Units) = Amount
  BY AskIs, WordIs DEF ReadInv
<1>2. d \in Nat /\ DOMAIN given = 1 .. d /\ ec <= Len(msg) + 1
  BY DEF ReadInv, ReadTypes
<1>3. length + d * Unit = ask.length /\ Before(ec) + offset = ask.offset + d * Unit
  BY DEF InPlace
<1>4. /\ length \in Nat /\ offset \in Nat /\ ec \in 1 .. Len(msg) + 1 /\ Len(msg) \in Nat
  BY <1>2, MessageIs, WordIs DEF MessageTypes
<1> HIDE DEF d
<1>5. d * Unit \in Nat
  BY <1>1, <1>2
<1>6. length = 0
  <2>1. CASE ec = Len(msg) + 1
    <3>1. Before(ec) = Cardinality(Message) /\ Before(ec) \in Nat
      BY <1>4, <2>1, BeforeIs
    <3>2. ask.offset + ask.length <= Before(ec)
      BY <3>1 DEF InRange
    <3>3. ask.offset \in Nat /\ ask.length \in Nat
      BY <1>1
    <3> QED
      BY ONLY <1>3, <1>4, <1>5, <3>1, <3>2, <3>3
  <2>2. CASE ec # Len(msg) + 1
    BY <1>4, <2>2 DEF Returned
  <2> QED
    BY <2>1, <2>2
<1>7. d = Amount
  <2>1. d * Unit = Amount * Unit
    BY <1>1, <1>3, <1>5, <1>6
  <2>2. \A x, y \in Nat : x < y => x * Unit < y * Unit
    BY <1>1
  <2>3. ~(d < Amount) /\ ~(Amount < d)
    BY <1>1, <1>2, <1>5, <2>1, <2>2
  <2> QED
    BY <1>1, <1>2, <2>3
<1> QED
  BY <1>1, <1>2, <1>7 DEF AllWhole, InPlace, d

LEMMA ReadShort ==
    ASSUME MessageTypes, ReadInv
    PROVE  LoopIsShort
<1> SUFFICES ASSUME InRange
             PROVE  \/ turns <= Len(msg) + Cardinality(Units)
                    \/ ask.fn = "apply" /\ \E n \in Units : Crosses(n)
  BY DEF LoopIsShort
<1>1. /\ Unit \in Nat \ {0} /\ Amount \in Nat /\ Amount * Unit = ask.length
      /\ ask.length \in Nat /\ Cardinality(Units) = Amount /\ Len(msg) \in Nat /\ turns \in Nat
  <2>1. /\ Unit \in Nat \ {0} /\ Amount \in Nat /\ Amount * Unit = ask.length
        /\ ask.length \in Nat /\ Cardinality(Units) = Amount
    BY AskIs, WordIs DEF ReadInv
  <2>2. Len(msg) \in Nat /\ turns \in Nat
    BY MessageIs DEF ReadInv, ReadTypes
  <2> QED
    BY <2>1, <2>2
<1>2. CASE ask.fn = "pullup"
  <2>1. turns <= Len(msg)
    BY <1>2 DEF ReadInv, PullupTurns
  <2> QED
    BY <1>1, <2>1
<1>3. CASE InPlace
  <2> DEFINE d == Len(given)
  <2>1. turns = ec - 1 + d /\ length + d * Unit = ask.length
    BY <1>3 DEF InPlace
  <2>2. d \in Nat /\ length \in Nat /\ ec \in Nat /\ ec <= Len(msg) + 1
    BY WordIs DEF ReadInv, ReadTypes, MessageTypes
  <2> HIDE DEF d
  <2>3. d * Unit \in Nat /\ d * Unit <= Amount * Unit
    BY <1>1, <2>1, <2>2
  <2>4. \A x, y \in Nat : x < y => x * Unit < y * Unit
    BY <1>1
  <2>5. d <= Amount
    BY <1>1, <2>2, <2>3, <2>4
  <2> QED
    BY <1>1, <2>1, <2>2, <2>5
<1>4. CASE Crossed /\ ask.fn = "apply"
  BY <1>4 DEF Crossed
<1>5. CASE ask.fn = "none"
  <2>1. ask = NoCall
    BY <1>5 DEF ReadInv, ReadTypes, Calls
  <2>2. ask.length = 0 /\ Amount = 0
    <3>1. ask.length = 0 /\ Unit = 1
      BY <2>1 DEF NoCall, Unit
    <3> QED
      BY <1>1, <3>1 DEF Amount
  <2>3. Units = {}
    BY <2>2 DEF Units, Amount
  <2> QED
    BY <1>3, <2>3, <1>5 DEF ReadInv, Crossed, PulledUp
<1>6. ask.fn \in {"pullup", "apply", "none"}
  BY DEF ReadInv, ReadTypes, Calls, NoCall
<1> QED
  BY <1>2, <1>3, <1>4, <1>5, <1>6 DEF ReadInv, PulledUp

LEMMA BoundsAre ==
    /\ Block \in Nat \ {0} /\ MaxSlots \in Nat \ {0}
    /\ MaxWindows \in Nat /\ MaxRegs \in Nat
BY ObjectsAssumption

-----------------------------------------------------------------------------
(* The PCI device.                                                         *)

LEMMA AppendIs ==
    ASSUME NEW S, NEW s \in Seq(S), NEW e \in S
    PROVE  /\ Append(s, e) \in Seq(S) /\ DOMAIN Append(s, e) = DOMAIN s \cup {Len(s) + 1}
           /\ Append(s, e)[Len(s) + 1] = e /\ \A i \in DOMAIN s : Append(s, e)[i] = s[i]
<1>1. DOMAIN s = 1 .. Len(s) /\ Len(s) \in Nat
  OBVIOUS
<1>2. /\ Append(s, e) \in Seq(S) /\ Len(Append(s, e)) = Len(s) + 1
      /\ \A i \in 1 .. Len(s) : Append(s, e)[i] = s[i]
      /\ Append(s, e)[Len(s) + 1] = e
  BY AppendProperties
<1>3. DOMAIN Append(s, e) = 1 .. Len(s) + 1
  BY <1>2
<1> QED
  BY <1>1, <1>2, <1>3

LEMMA ObjectIs ==
    ASSUME DeviceTypes, FreeInv
    PROVE  /\ Object \in Nat \ {0} /\ Object # space
           /\ Reused => Object \in DOMAIN emd
           /\ ~Reused => free = <<>> /\ Object = Len(emd) + 1
<1> USE DEF DeviceTypes
<1>1. CASE Reused
  <2>1. free # <<>> /\ Object = Head(free)
    BY <1>1 DEF Reused, Object
  <2>2. Head(free) \in DOMAIN emd /\ 1 \in DOMAIN free /\ Head(free) = free[1]
    BY <2>1
  <2>3. free[1] # space
    BY <2>2 DEF FreeInv
  <2> QED
    BY <1>1, <2>1, <2>2, <2>3
<1>2. CASE ~Reused
  <2>1. free = <<>> /\ Object = Len(emd) + 1
    BY <1>2 DEF Reused, Object
  <2>2. Len(emd) \in Nat /\ DOMAIN emd = 1 .. Len(emd)
    OBVIOUS
  <2>3. space \in 0 .. Len(emd)
    BY <2>2 DEF None
  <2> QED
    BY <1>2, <2>1, <2>2, <2>3
<1> QED
  BY <1>1, <1>2

LEMMA RegisterKeeps ==
    ASSUME DeviceTypes, FreeInv, AccessInv, DeviceInv, TableTypes, NEW ok \in BOOLEAN, Register(ok)
    PROVE  DeviceTypes' /\ FreeInv' /\ AccessInv' /\ DeviceInv' /\ TableTypes'
<1> USE DEF DeviceTypes
<1> DEFINE d == Object
           entry == [reg |-> regs + 1, callback |-> regs + 1, handle |-> next]
<1>1. d \in Nat \ {0} /\ d # space /\ (Reused => d \in DOMAIN emd) /\ (~Reused => free = <<>> /\ d = Len(emd) + 1)
  BY ObjectIs
<1>2. /\ regs < MaxRegs /\ regs' = regs + 1 /\ next' = next + 1 /\ regs \in Nat /\ next = regs + 1
      /\ MaxRegs \in Nat
  BY BoundsAre DEF Register
<1>21. (space = None \/ ~ok) /\ space' = IF ok THEN d ELSE space
  BY DEF Register
<1>22. devices' = IF ok THEN <<d>> \o devices ELSE devices
  BY DEF Register, Listed
<1>24. UNCHANGED <<part, table, pc, at, mutex, windows, mapped, lost, raced, access, called>>
  BY DEF Register
<1>25. held' = IF ok THEN held \cup {[handle |-> next, type |-> "device", local |-> regs']} ELSE held
  BY DEF Register, Owned
<1>26. /\ emd' = IF Reused THEN [emd EXCEPT ![d] = entry] ELSE Append(emd, entry)
      /\ free' = IF ok THEN IF Reused THEN Tail(free) ELSE free ELSE IF Reused THEN free ELSE <<d>> \o free
  BY DEF Register
<1>3. entry \in Entries /\ entry.reg = regs + 1 /\ entry.callback = regs + 1 /\ entry.handle = next
  BY <1>2 DEF Entries
<1> HIDE DEF d, entry
<1>4. /\ emd' \in Seq(Entries) /\ DOMAIN emd' = DOMAIN emd \cup {d} /\ DOMAIN emd \subseteq Nat \ {0}
      /\ emd'[d] = entry /\ \A e \in DOMAIN emd \ {d} : emd'[e] = emd[e]
  <2>1. CASE Reused
    <3>1. emd' = [emd EXCEPT ![d] = entry] /\ d \in DOMAIN emd
      BY <1>1, <1>26, <2>1
    <3>2. emd \in Seq(Entries) /\ DOMAIN emd = 1 .. Len(emd) /\ Len(emd) \in Nat
      OBVIOUS
    <3>3. emd' \in Seq(Entries)
      BY <1>3, <3>1, <3>2, ExceptSeq
    <3> QED
      BY <3>1, <3>2, <3>3
  <2>2. CASE ~Reused
    <3>1. emd' = Append(emd, entry) /\ d = Len(emd) + 1
      BY <1>1, <1>26, <2>2
    <3>2. DOMAIN emd = 1 .. Len(emd) /\ Len(emd) \in Nat
      OBVIOUS
    <3>3. /\ emd' \in Seq(Entries) /\ DOMAIN emd' = DOMAIN emd \cup {d} /\ emd'[d] = entry
          /\ \A e \in DOMAIN emd : emd'[e] = emd[e]
      <4>1. emd \in Seq(Entries)
        OBVIOUS
      <4> QED
        BY ONLY <1>3, <3>1, <4>1, AppendIs
    <3>4. d \notin DOMAIN emd /\ DOMAIN emd \subseteq Nat \ {0}
      BY <3>1, <3>2
    <3> QED
      BY <3>3, <3>4
  <2> QED
    BY <2>1, <2>2
<1>5. /\ free' \in Seq(DOMAIN emd')
      /\ \A i \in DOMAIN free' : free'[i] = d => ~ok
      /\ FreeInv'
  <2>1. CASE Reused /\ ok
    <3>1. free' = Tail(free) /\ space' = d /\ free # <<>> /\ d = free[1]
      BY <1>21, <1>26, <2>1 DEF d, Object, Reused
    <3>2. /\ Tail(free) \in Seq(DOMAIN emd) /\ Len(Tail(free)) = Len(free) - 1
          /\ \A i \in 1 .. Len(Tail(free)) : Tail(free)[i] = free[i + 1]
      BY <3>1, HeadTailProperties
    <3>3. \A i \in DOMAIN free' : i + 1 \in DOMAIN free /\ free'[i] = free[i + 1] /\ i + 1 # 1 /\ i \in Nat
      <4>1. /\ free' \in Seq(DOMAIN emd) /\ Len(free') = Len(free) - 1
            /\ \A i \in 1 .. Len(free') : free'[i] = free[i + 1]
        BY <3>1, <3>2
      <4>2. free \in Seq(DOMAIN emd)
        OBVIOUS
      <4> QED
        BY ONLY <4>1, <4>2
    <3>4. 1 \in DOMAIN free
      BY <3>1
    <3>5. \A i \in DOMAIN free' : free'[i] # d
      BY <3>1, <3>3, <3>4 DEF FreeInv
    <3>6. \A i, j \in DOMAIN free' : free'[i] = free'[j] => i = j
      <4>1. ASSUME NEW i \in DOMAIN free', NEW j \in DOMAIN free', free'[i] = free'[j]
            PROVE  i = j
        <5>1. i + 1 = j + 1
          BY <3>3, <4>1 DEF FreeInv
        <5> QED
          BY <3>3, <5>1
      <4> QED
        BY <4>1
    <3>7. free' \in Seq(DOMAIN emd')
      BY <1>4, <3>1, <3>2, SeqMonotonic
    <3> QED
      BY <3>1, <3>5, <3>6, <3>7 DEF FreeInv
  <2>2. CASE Reused /\ ~ok
    BY <1>21, <1>26, <2>2 DEF FreeInv
  <2>3. CASE ~Reused /\ ok
    BY <1>1, <1>26, <2>3 DEF FreeInv
  <2>4. CASE ~Reused /\ ~ok
    <3>1. free' = <<d>>
      BY <1>1, <1>26, <2>4
    <3>2. <<d>> \in Seq(DOMAIN emd')
      BY <1>4
    <3> QED
      BY <1>1, <1>21, <2>4, <3>1, <3>2 DEF FreeInv
  <2> QED
    BY <2>1, <2>2, <2>3, <2>4
<1>6. DeviceTypes'
  <2>1. /\ regs' \in 0 .. MaxRegs /\ next' = regs' + 1
        /\ called' \in (0 .. MaxRegs) \X (0 .. MaxRegs)
    <3>1. regs' \in 0 .. MaxRegs /\ next' = regs' + 1
      BY <1>2
    <3> QED
      BY <1>24, <3>1
  <2>2. space' \in DOMAIN emd' \cup {None}
    BY <1>21, <1>4
  <2>3. devices' = IF space' = None THEN <<>> ELSE <<space'>>
    <3>1. CASE ok
      <4>1. devices = <<>> /\ space' = d /\ d # None
        BY <1>1, <1>21, <3>1 DEF None
      <4>2. <<d>> \o <<>> = <<d>>
        OBVIOUS
      <4> QED
        BY <1>22, <3>1, <4>1, <4>2
    <3>2. CASE ~ok
      BY <1>21, <1>22, <3>2
    <3> QED
      BY <3>1, <3>2
  <2>4. access' \in [obj : DOMAIN emd' \cup {None}, reg : 0 .. MaxRegs]
    BY <1>24, <1>4
  <2> QED
    BY <1>4, <1>5, <2>1, <2>2, <2>3, <2>4
<1>7. AccessInv'
  BY <1>24 DEF AccessInv
<1>8. DeviceInv'
  <2>1. CASE ok
    <3>1. space = None /\ space' = d
      BY <1>21, <2>1
    <3>2. held = {}
      BY <3>1 DEF DeviceInv
    <3>3. held' = {[handle |-> next, type |-> "device", local |-> regs']}
      BY <1>25, <2>1, <3>2
    <3>4. emd'[space'].handle = next /\ emd'[space'].reg = regs' /\ space' # None
      BY <1>1, <1>2, <1>3, <1>4, <3>1 DEF None
    <3>5. /\ \A t \in held' : /\ t.type = "device" /\ space' # None
                             /\ t.handle = emd'[space'].handle /\ t.local = emd'[space'].reg
          /\ held' # {} /\ \A a, b \in held' : a = b
      BY <3>3, <3>4
    <3> QED
      BY <1>24, <3>5 DEF DeviceInv
  <2>2. CASE ~ok
    <3>1. held' = held /\ space' = space
      BY <1>21, <1>25, <2>2
    <3>2. space # None => emd'[space] = emd[space]
      BY <1>1, <1>4
    <3> QED
      BY <1>24, <3>1, <3>2 DEF DeviceInv
  <2> QED
    BY <2>1, <2>2
<1>9. TableTypes'
  <2>1. held' \subseteq Things
    <3>1. next \in 1 .. MaxRegs /\ regs' \in 1 .. MaxRegs
      BY <1>2
    <3>2. [handle |-> next, type |-> "device", local |-> regs'] \in Things
      BY <3>1 DEF Things
    <3> QED
      BY <1>25, <3>2 DEF TableTypes
  <2> QED
    BY <1>24, <2>1 DEF TableTypes
<1> QED
  BY <1>5, <1>6, <1>7, <1>8, <1>9

LEMMA PrependIs ==
    ASSUME NEW S, NEW s \in Seq(S), NEW e \in S
    PROVE  /\ <<e>> \o s \in Seq(S) /\ DOMAIN (<<e>> \o s) = 1 .. Len(s) + 1
           /\ (<<e>> \o s)[1] = e /\ \A i \in 2 .. Len(s) + 1 : (<<e>> \o s)[i] = s[i - 1]
<1>1. <<e>> \in Seq(S) /\ Len(<<e>>) = 1 /\ <<e>>[1] = e
  OBVIOUS
<1>2. Len(s) \in Nat
  OBVIOUS
<1>3. /\ <<e>> \o s \in Seq(S) /\ Len(<<e>> \o s) = Len(s) + 1
      /\ \A i \in 1 .. Len(s) + 1 : (<<e>> \o s)[i] = IF i <= 1 THEN <<e>>[i] ELSE s[i - 1]
  BY <1>1, <1>2, ConcatProperties
<1> QED
  BY <1>1, <1>2, <1>3

LEMMA UnregisterKeeps ==
    ASSUME DeviceTypes, FreeInv, AccessInv, DeviceInv, TableTypes, NEW thing \in held,
           Unregister(thing)
    PROVE  DeviceTypes' /\ FreeInv' /\ AccessInv' /\ DeviceInv' /\ TableTypes'
<1>1. PICK i \in DOMAIN devices :
        /\ Dropped(thing) /\ space' = None
        /\ devices' = SubSeq(devices, 1, i - 1) \o SubSeq(devices, i + 1, Len(devices))
        /\ free' = <<devices[i]>> \o free
        /\ UNCHANGED <<part, table, pc, at, mutex, windows, mapped, lost, raced, emd, next, regs,
                       access, called>>
  BY DEF Unregister
<1>2. space # None /\ space \in DOMAIN emd /\ devices = <<space>>
  BY DEF DeviceInv, DeviceTypes
<1>3. i = 1 /\ devices[i] = space /\ Len(devices) = 1
  BY <1>2
<1>4. SubSeq(<<space>>, 1, 0) = <<>> /\ SubSeq(<<space>>, 2, 1) = <<>>
  OBVIOUS
<1>5. devices' = <<>>
  <2>1. devices' = SubSeq(<<space>>, 1, 0) \o SubSeq(<<space>>, 2, 1)
    BY <1>1, <1>2, <1>3
  <2> QED
    BY <1>4, <2>1
<1>6. emd' = emd /\ free' = <<space>> \o free /\ space' = None
  BY <1>1, <1>3
<1>7. held' = {}
  BY <1>1 DEF Dropped, DeviceInv
<1>8. UNCHANGED <<part, table, pc, at, mutex, windows, mapped, lost, raced, next, regs, access, called>>
  BY <1>1
<1>9. /\ free \in Seq(DOMAIN emd) /\ Len(free) \in Nat /\ DOMAIN free = 1 .. Len(free)
      /\ DOMAIN emd \subseteq Nat \ {0}
  BY DEF DeviceTypes
<1>10. /\ free' \in Seq(DOMAIN emd) /\ DOMAIN free' = 1 .. Len(free) + 1
       /\ free'[1] = space /\ \A k \in 2 .. Len(free) + 1 : free'[k] = free[k - 1]
  BY <1>2, <1>6, <1>9, PrependIs
<1>11. FreeInv'
  <2>1. \A k \in DOMAIN free' : free'[k] \in DOMAIN emd
    BY <1>10
  <2>2. \A k \in DOMAIN free' : free'[k] # space'
    <3>1. None \notin DOMAIN emd
      BY <1>9 DEF None
    <3> QED
      BY <1>6, <2>1, <3>1
  <2>3. \A k \in 2 .. Len(free) + 1 : k - 1 \in DOMAIN free /\ free'[k] = free[k - 1] /\ free'[k] # space
    <3>1. \A k \in 2 .. Len(free) + 1 : k - 1 \in DOMAIN free
      BY ONLY <1>9
    <3>2. \A j \in DOMAIN free : free[j] # space
      BY DEF FreeInv
    <3> QED
      BY <1>10, <3>1, <3>2
  <2>4. ASSUME NEW k \in DOMAIN free', NEW l \in DOMAIN free', free'[k] = free'[l]
        PROVE  k = l
    <3>1. CASE k = 1 \/ l = 1
      BY <1>9, <1>10, <2>3, <2>4, <3>1
    <3>2. CASE k # 1 /\ l # 1
      <4>1. k \in 2 .. Len(free) + 1 /\ l \in 2 .. Len(free) + 1
        <5>1. Len(free) \in Nat /\ k \in 1 .. Len(free) + 1 /\ l \in 1 .. Len(free) + 1
          BY <1>9, <1>10, <2>4
        <5> QED
          BY ONLY <5>1, <3>2
      <4>2. k - 1 \in DOMAIN free /\ l - 1 \in DOMAIN free /\ free[k - 1] = free[l - 1]
        BY <2>3, <2>4, <4>1
      <4>3. k - 1 = l - 1
        BY <4>2 DEF FreeInv
      <4> QED
        BY <4>1, <4>3, <1>9
    <3> QED
      BY <3>1, <3>2
  <2> QED
    BY <2>2, <2>4 DEF FreeInv
<1>12. DeviceTypes'
  BY <1>5, <1>6, <1>8, <1>10 DEF DeviceTypes, None
<1>13. AccessInv'
  BY <1>6, <1>8 DEF AccessInv
<1>14. DeviceInv'
  BY <1>6, <1>7, <1>8 DEF DeviceInv
<1>15. TableTypes'
  BY <1>7, <1>8 DEF TableTypes
<1> QED
  BY <1>11, <1>12, <1>13, <1>14, <1>15

\* An access of the guest leaves the lists alone.
LEMMA AccessKeeps ==
    ASSUME DeviceTypes, AccessInv, AccessBegins \/ ReadsPrivate \/ CallsBack
    PROVE  /\ DeviceTypes' /\ AccessInv'
           /\ UNCHANGED <<part, tableVars, emd, devices, free, next, space, regs>>
<1> USE DEF DeviceTypes, AccessInv
<1>1. UNCHANGED <<part, tableVars, emd, devices, free, next, space, regs>>
  BY DEF AccessBegins, ReadsPrivate, CallsBack
<1>2. DOMAIN emd \subseteq Nat \ {0} /\ MaxRegs \in Nat
  BY BoundsAre
<1>3. \A d \in DOMAIN emd : emd[d].reg \in 1 .. MaxRegs /\ emd[d].callback \in 1 .. MaxRegs
  <2>1. \A d \in DOMAIN emd : emd[d] \in Entries
    BY ElementOfSeq
  <2> QED
    BY <2>1 DEF Entries
<1>4. CASE AccessBegins
  <2>1. space # None /\ access' = [obj |-> space, reg |-> None] /\ called' = <<None, None>>
    BY <1>4 DEF AccessBegins
  <2>2. access' \in [obj : DOMAIN emd \cup {None}, reg : 0 .. MaxRegs]
    BY <1>2, <2>1 DEF None
  <2>3. called' \in (0 .. MaxRegs) \X (0 .. MaxRegs)
    BY <1>2, <2>1 DEF None
  <2>4. AccessInv'
    BY <1>1, <2>1
  <2> QED
    BY <1>1, <2>2, <2>3, <2>4
<1>5. CASE ReadsPrivate
  <2>1. /\ access.obj # None /\ access' = [access EXCEPT !.reg = emd[access.obj].reg]
        /\ called' = called
    BY <1>5 DEF ReadsPrivate
  <2>2. access.obj \in DOMAIN emd /\ emd[access.obj].reg \in 0 .. MaxRegs
    BY <1>2, <1>3, <2>1
  <2>3. access' \in [obj : DOMAIN emd \cup {None}, reg : 0 .. MaxRegs]
    BY <2>1, <2>2
  <2>4. AccessInv'
    BY <1>1, <2>1
  <2> QED
    BY <1>1, <2>1, <2>3, <2>4
<1>6. CASE CallsBack
  <2>1. /\ access.reg # None /\ called' = <<access.reg, emd[access.obj].callback>>
        /\ access' = [access EXCEPT !.obj = None, !.reg = None]
    BY <1>6 DEF CallsBack
  <2>2. /\ access.obj \in DOMAIN emd /\ emd[access.obj].callback \in 0 .. MaxRegs
        /\ access.reg \in 0 .. MaxRegs
    BY <1>2, <1>3, <2>1
  <2>3. access' \in [obj : DOMAIN emd \cup {None}, reg : 0 .. MaxRegs]
    <3>1. None \in 0 .. MaxRegs
      BY <1>2 DEF None
    <3>2. access' = [obj |-> None, reg |-> None]
      BY <2>1
    <3> QED
      BY <3>1, <3>2
  <2>4. called' \in (0 .. MaxRegs) \X (0 .. MaxRegs)
    BY <2>1, <2>2
  <2>5. AccessInv'
    BY <1>1, <2>1, <2>2
  <2> QED
    BY <1>1, <2>3, <2>4, <2>5
<1> QED
  BY <1>4, <1>5, <1>6

-----------------------------------------------------------------------------
(* Tables.                                                                 *)

\* A step stores slot at h; what the table grew by is blank.
Stored(h, slot) ==
    /\ table' \in Seq(Slots) /\ Len(table') <= MaxSlots
    /\ h \in DOMAIN table' /\ DOMAIN table \subseteq DOMAIN table'
    /\ table'[h] = slot
    /\ \A k \in DOMAIN table : k # h => table'[k] = table[k]
    /\ \A k \in DOMAIN table' : k \notin DOMAIN table /\ k # h => table'[k] = Blank

LEMMA BlankIs == Blank \in Slots /\ Blank.type = "free" /\ Blank.local = None /\ Blank.owner = None
BY BoundsAre DEF Blank, Slots, Types, None, Failed

LEMMA DomainIs ==
    ASSUME TableTypes
    PROVE  /\ DOMAIN table = 1 .. Len(table) /\ Len(table) \in Nat
           /\ DOMAIN table \subseteq 1 .. MaxSlots
           /\ \A k \in DOMAIN table : table[k] \in Slots
<1>1. table \in Seq(Slots) /\ Len(table) <= MaxSlots
  BY DEF TableTypes
<1>2. DOMAIN table = 1 .. Len(table) /\ Len(table) \in Nat
  BY <1>1
<1>3. \A k \in DOMAIN table : table[k] \in Slots
  BY <1>1, ElementOfSeq
<1> QED
  BY <1>1, <1>2, <1>3, BoundsAre

LEMMA InUseIs ==
    ASSUME TableTypes, NEW h, NEW slot, Stored(h, slot)
    PROVE  InUse' = IF slot.type = "free" THEN InUse \ {h} ELSE InUse \cup {h}
BY BlankIs DEF InUse, IsFree, Stored

\* First does choose one (vmiope_allocate_table_element).
LEMMA FirstIs ==
    ASSUME NEW S \in SUBSET Nat, S # {}
    PROVE  First(S) \in S
<1>1. PICK m \in S : \A n \in S : ~(<<n, m>> \in OpToRel(<, Nat))
  BY NatLessThanWellFounded, WFMin, Zenon
<1>2. \A n \in S : ~(n < m)
  BY <1>1, Zenon DEF OpToRel
<1>3. \E h \in S : \A i \in S : h <= i
  BY <1>2
<1> QED
  BY <1>3, Zenon DEF First

LEMMA StoreIs ==
    ASSUME TableTypes, NEW h \in DOMAIN table, NEW slot \in Slots,
           table' = [table EXCEPT ![h] = slot]
    PROVE  Stored(h, slot)
<1>1. table \in Seq(Slots) /\ Len(table) <= MaxSlots
  BY DEF TableTypes
<1>2. table' \in Seq(Slots) /\ Len(table') = Len(table)
  BY <1>1, ExceptSeq
<1>3. DOMAIN table' = DOMAIN table
  OBVIOUS
<1> QED
  BY <1>1, <1>2, <1>3 DEF Stored

LEMMA PutIs ==
    ASSUME TableTypes, CanAllocate, NEW slot \in Slots, table' = Put(slot)
    PROVE  Stored(Slot, slot) /\ Slot \notin InUse /\ Slot \in 1 .. MaxSlots
<1> DEFINE new == [i \in 1 .. Block |-> Blank]
           grown == table \o new
<1>1. table \in Seq(Slots) /\ Len(table) <= MaxSlots
  BY DEF TableTypes
<1>2. CASE FreeSlots # {}
  <2>1. FreeSlots \in SUBSET Nat
    BY DomainIs DEF FreeSlots
  <2>2. Slot \in FreeSlots /\ table' = [table EXCEPT ![Slot] = slot]
    BY <1>2, <2>1, FirstIs DEF Slot, Put
  <2>3. Slot \in DOMAIN table /\ Slot \notin InUse
    BY <2>2 DEF FreeSlots, InUse
  <2>4. Stored(Slot, slot)
    BY <2>2, <2>3, StoreIs
  <2> QED
    BY <2>3, <2>4, DomainIs
<1>3. CASE FreeSlots = {}
  <2>1. Slot = Len(table) + 1 /\ Len(table) + Block <= MaxSlots /\ table' = [grown EXCEPT ![Slot] = slot]
    BY <1>3 DEF Slot, Put, CanAllocate
  <2>2. new \in Seq(Slots) /\ Len(new) = Block
    BY BlankIs, BoundsAre
  <2>3. /\ grown \in Seq(Slots) /\ Len(grown) = Len(table) + Block
        /\ \A i \in 1 .. Len(table) + Block :
               grown[i] = IF i <= Len(table) THEN table[i] ELSE new[i - Len(table)]
    BY ONLY <1>1, <2>2, ConcatProperties, ZenonT(60)
  <2> HIDE DEF grown
  <2>4. /\ DOMAIN table = 1 .. Len(table) /\ Len(table) \in Nat
        /\ DOMAIN grown = 1 .. Len(table) + Block
    BY <2>3, DomainIs, BoundsAre
  <2>5. Slot \in DOMAIN grown /\ Slot \notin DOMAIN table /\ DOMAIN table \subseteq DOMAIN grown
    BY <2>1, <2>4, BoundsAre
  <2>6. \A k \in DOMAIN table : grown[k] = table[k]
    BY <2>3, <2>4, <2>5
  <2>7. \A k \in DOMAIN grown : k \notin DOMAIN table => grown[k] = Blank
    BY <2>3, <2>4, BoundsAre
  <2>8. table' \in Seq(Slots) /\ Len(table') = Len(table) + Block
    BY <2>1, <2>3, <2>5, ExceptSeq
  <2>9. /\ DOMAIN table' = DOMAIN grown /\ table'[Slot] = slot
        /\ \A k \in DOMAIN grown : k # Slot => table'[k] = grown[k]
    BY <2>1, <2>5
  <2>10. Stored(Slot, slot)
    BY <2>1, <2>5, <2>6, <2>7, <2>8, <2>9 DEF Stored
  <2> QED
    BY <2>1, <2>4, <2>5, <2>10, BoundsAre DEF InUse
<1> QED
  BY <1>2, <1>3

-----------------------------------------------------------------------------
(* Windows.                                                                *)

LEMMA InWorkIs ==
    /\ InWork = {at[c] : c \in Working}
    /\ TableTypes => IsFiniteSet(InWork) /\ Cardinality(InWork) \in Nat
<1>1. InWork = {at[c] : c \in Working}
  BY DEF InWork, Working
<1>2. ASSUME TableTypes PROVE IsFiniteSet(InWork)
  <2>1. InWork \subseteq 0 .. MaxSlots
    BY <1>1, <1>2 DEF TableTypes, Working
  <2>2. IsFiniteSet(0 .. MaxSlots)
    BY FS_Interval, BoundsAre
  <2> QED
    BY <2>1, <2>2, FS_Subset
<1> QED
  BY <1>1, <1>2, FS_CardinalityType

\* What a window's slot holds.
LEMMA ClaimedIs ==
    ASSUME NEW pages \in BOOLEAN
    PROVE  /\ Claimed(pages) \in Slots /\ Claimed(pages).type = "window"
           /\ ~pages => Claimed(pages).local = None
<1> DEFINE local == IF pages THEN Failed ELSE None
<1>1. local \in Failed .. MaxWindows /\ (~pages => local = None)
  BY BoundsAre DEF None, Failed
<1> HIDE DEF local
<1>2. Claimed(pages) = [Blank EXCEPT !.type = "window", !.local = local]
  BY Zenon DEF Claimed, local
<1>3. Claimed(pages) \in Slots
  BY <1>1, <1>2, BlankIs DEF Slots, Types
<1>4. Claimed(pages).type = "window" /\ Claimed(pages).local = local
  BY <1>2 DEF Blank
<1> QED
  BY <1>1, <1>3, <1>4

LEMMA MapBeginKeeps ==
    ASSUME TableTypes, Apart, WindowInv, NEW c \in Clients, NEW pages \in BOOLEAN,
           MapBegin(c, pages)
    PROVE  TableTypes' /\ Apart' /\ WindowInv'
<1> DEFINE h == Slot
<1>1. /\ pc[c] = "idle" /\ CanAllocate /\ table' = Put(Claimed(pages))
      /\ UNCHANGED <<part, mutex, held, windows, mapped, lost, raced, deviceVars>>
  BY DEF MapBegin
<1>2. at' = [at EXCEPT ![c] = h] /\ pc' = [pc EXCEPT ![c] = IF pages THEN "pages" ELSE "range"]
  BY DEF MapBegin
<1>3. windows + Cardinality(InWork) < MaxWindows
  BY DEF MapBegin
<1>4. Stored(h, Claimed(pages)) /\ h \notin InUse /\ h \in 1 .. MaxSlots
  BY <1>1, ClaimedIs, PutIs
<1> HIDE DEF h
<1>5. InUse' = InUse \cup {h}
  BY <1>4, ClaimedIs, InUseIs
<1>6. c \notin Working /\ Working' = Working \cup {c} /\ at'[c] = h /\ \A d \in Working : at'[d] = at[d]
  BY <1>1, <1>2 DEF Working, TableTypes
<1>7. TableTypes'
  BY <1>1, <1>2, <1>4 DEF Stored, TableTypes
<1>8. Apart'
  BY <1>1, <1>4, <1>5, <1>6 DEF Apart
<1>9. \A k \in InUse : table'[k] = table[k]
  BY <1>4 DEF Stored, InUse
<1>10. table'[h] = Claimed(pages)
  BY <1>4 DEF Stored
<1>11. windows' + Cardinality(InWork') <= MaxWindows
  <2>1. InWork' = InWork \cup {h}
    <3>1. InWork = {at[d] : d \in Working} /\ InWork' = {at'[d] : d \in Working'}
      BY DEF InWork, Working
    <3> QED
      BY <1>6, <3>1
  <2>2. IsFiniteSet(InWork) /\ Cardinality(InWork) \in Nat
    BY InWorkIs
  <2>3. /\ Cardinality(InWork \cup {h}) <= Cardinality(InWork) + 1
        /\ Cardinality(InWork \cup {h}) \in Nat
    <3>1. Cardinality(InWork \cup {h}) = IF h \in InWork THEN Cardinality(InWork) ELSE Cardinality(InWork) + 1
      BY ONLY <2>2, FS_AddElement
    <3> QED
      BY <2>2, <3>1
  <2>4. windows' = windows /\ windows \in Nat /\ MaxWindows \in Nat
    BY <1>1, BoundsAre DEF TableTypes
  <2> QED
    BY <1>3, <2>1, <2>2, <2>3, <2>4
<1>12. WindowInv'
  <2>1. \A t \in held' : /\ t.type = "window"
                         /\ table'[t.handle].type = "window" /\ table'[t.handle].local = t.local
    BY <1>1, <1>9 DEF WindowInv, Apart
  <2>2. \A d \in Clients : pc'[d] \in {"idle", "range", "pages"}
    BY <1>2 DEF WindowInv, TableTypes
  <2>3. \A d \in Working : table'[at'[d]] = table[at[d]] /\ pc'[d] = pc[d]
    BY <1>2, <1>6, <1>9 DEF Apart, TableTypes, Working
  <2>4. pc'[c] = "range" => ~pages
    BY <1>2 DEF TableTypes
  <2>5. \A d \in Working' : /\ table'[at'[d]].type = "window"
                            /\ pc'[d] = "range" => table'[at'[d]].local = None
    BY <1>6, <1>10, <2>3, <2>4, ClaimedIs DEF WindowInv
  <2> QED
    BY <1>1, <1>11, <2>1, <2>2, <2>5 DEF WindowInv
<1> QED
  BY <1>7, <1>8, <1>12

\* A call of vmiop_map_guest_memory ends.
LEMMA WorkEnds ==
    ASSUME TableTypes, Apart, WindowInv, NEW c \in Working,
           pc' = [pc EXCEPT ![c] = "idle"], at' = at
    PROVE  /\ Working' = Working \ {c} /\ InWork' = InWork \ {at[c]}
           /\ Cardinality(InWork') = Cardinality(InWork) - 1
           /\ Cardinality(InWork) \in Nat \ {0}
           /\ \A d \in Clients : pc'[d] \in {"idle", "range", "pages"}
           /\ \A d \in Working : d # c => pc'[d] = pc[d] /\ at[d] # at[c]
           /\ at[c] \in DOMAIN table
<1>1. Working' = Working \ {c} /\ \A d \in Working : d # c => pc'[d] = pc[d]
  BY DEF Working, TableTypes
<1>2. InWork = {at[d] : d \in Working} /\ InWork' = {at[d] : d \in Working'}
  BY DEF InWork, Working
<1>3. \A d \in Working : d # c => at[d] # at[c]
  BY DEF Apart
<1>4. InWork' = InWork \ {at[c]} /\ at[c] \in InWork
  BY <1>1, <1>2, <1>3
<1>5. IsFiniteSet(InWork) /\ Cardinality(InWork) \in Nat
  BY InWorkIs
<1>6. Cardinality(InWork') = Cardinality(InWork) - 1
  BY ONLY <1>4, <1>5, FS_RemoveElement
<1>7. Cardinality(InWork) # 0
  BY ONLY <1>4, <1>5, FS_EmptySet
<1>8. at[c] \in DOMAIN table
  BY DEF Apart, InUse
<1> QED
  BY <1>1, <1>3, <1>4, <1>5, <1>6, <1>7, <1>8 DEF TableTypes, WindowInv

LEMMA MapNoMemoryKeeps ==
    ASSUME TableTypes, Apart, WindowInv, NEW c \in Clients, MapNoMemory(c)
    PROVE  TableTypes' /\ Apart' /\ WindowInv'
<1>1. /\ pc' = [pc EXCEPT ![c] = "idle"] /\ lost' = lost \cup {at[c]} /\ c \in Working
      /\ UNCHANGED <<part, table, at, mutex, held, windows, mapped, raced, deviceVars>>
  BY DEF MapNoMemory, Working
<1>2. Working' = Working \ {c} /\ at[c] \in DOMAIN table
  BY <1>1, WorkEnds
<1>3. Cardinality(InWork') = Cardinality(InWork) - 1 /\ Cardinality(InWork) \in Nat
  BY <1>1, WorkEnds
<1>4. /\ \A d \in Clients : pc'[d] \in {"idle", "range", "pages"}
      /\ \A d \in Working' : pc'[d] = pc[d]
  BY <1>1, <1>2, WorkEnds
<1>5. InUse' = InUse
  BY <1>1 DEF InUse
<1>6. TableTypes'
  BY <1>1, <1>2 DEF TableTypes
<1>7. Apart'
  BY <1>1, <1>2, <1>5 DEF Apart
<1>8. WindowInv'
  <2>1. windows' + Cardinality(InWork') <= MaxWindows
    BY <1>1, <1>3, BoundsAre DEF WindowInv, TableTypes
  <2> QED
    BY <1>1, <1>2, <1>4, <2>1 DEF WindowInv
<1> QED
  BY <1>6, <1>7, <1>8

LEMMA MapDoneKeeps ==
    ASSUME TableTypes, Apart, WindowInv, NEW c \in Clients, MapDone(c)
    PROVE  TableTypes' /\ Apart' /\ WindowInv'
<1> DEFINE w == windows + 1
           h == at[c]
           slot == [table[h] EXCEPT !.type = "window", !.local = w]
           thing == [handle |-> h, type |-> "window", local |-> w]
<1>1. /\ pc' = [pc EXCEPT ![c] = "idle"] /\ c \in Working
      /\ windows' = w /\ mapped' = mapped \cup {w}
      /\ UNCHANGED <<part, at, mutex, lost, raced, deviceVars>>
  BY DEF MapDone, Working
<1>2. table' = [table EXCEPT ![h] = slot]
  BY DEF MapDone
<1>3. held' = held \cup {thing}
  BY DEF MapDone, Owned
<1>4. Working' = Working \ {c} /\ h \in DOMAIN table
  BY <1>1, WorkEnds
<1>5. Cardinality(InWork') = Cardinality(InWork) - 1 /\ Cardinality(InWork) \in Nat \ {0}
  BY <1>1, WorkEnds
<1>6. /\ \A d \in Clients : pc'[d] \in {"idle", "range", "pages"}
      /\ \A d \in Working' : pc'[d] = pc[d] /\ at[d] # h
  BY <1>1, <1>4, WorkEnds
<1>7. w \in 1 .. MaxWindows /\ windows \in 0 .. MaxWindows
  BY <1>5, BoundsAre DEF WindowInv, TableTypes
<1>8. table[h] \in Slots
  BY <1>4, DomainIs
<1>9. slot \in Slots /\ slot.type = "window" /\ slot.local = w
  <2>1. w \in Failed .. MaxWindows
    BY <1>7 DEF Failed
  <2> QED
    BY <1>8, <2>1 DEF Slots, Types
<1>10. /\ h \in 1 .. MaxSlots
       /\ thing.handle = h /\ thing.type = "window" /\ thing.local = w
  BY <1>4, DomainIs
<1>11. thing \in Things
  <2>1. w \in None .. MaxWindows
    BY <1>7 DEF None
  <2> QED
    BY <1>10, <2>1 DEF Things, Types
<1> HIDE DEF w, h, slot, thing
<1>12. Stored(h, slot)
  BY <1>2, <1>4, <1>9, StoreIs
<1>13. InUse' = InUse
  <2>1. h \in InUse
    BY <1>1 DEF Apart, h
  <2> QED
    BY <1>9, <1>12, <2>1, InUseIs
<1>14. \A t \in held : t.handle # h /\ t.handle \in InUse
  BY <1>1 DEF Apart, h
<1>15. \A k \in InUse : k # h => table'[k] = table[k]
  BY <1>12 DEF Stored, InUse
<1>16. TableTypes'
  <2>1. mapped' \subseteq 1 .. windows' /\ windows' \in 0 .. MaxWindows
    BY <1>1, <1>7 DEF TableTypes, w
  <2>2. pc' \in [Clients -> {"idle", "range", "pages", "looked", "asleep", "woken"}]
    BY <1>1 DEF TableTypes
  <2>3. held' \subseteq Things
    BY <1>3, <1>11 DEF TableTypes
  <2>4. table' \in Seq(Slots) /\ Len(table') <= MaxSlots /\ lost' \subseteq DOMAIN table'
    BY <1>1, <1>12 DEF Stored, TableTypes
  <2> QED
    BY <1>1, <2>1, <2>2, <2>3, <2>4 DEF TableTypes
<1>17. Apart'
  <2>1. h \in InUse /\ h \notin lost
    BY <1>1 DEF Apart, h
  <2>2. \A d \in Working' : at'[d] \in InUse' /\ at'[d] \notin lost' /\ at'[d] # h
    BY <1>1, <1>4, <1>6, <1>13 DEF Apart
  <2>3. \A d \in Working' : \A t \in held : t.handle # at'[d]
    BY <1>1, <1>4 DEF Apart
  <2>4. \A k \in InUse : k = h \/ k \in lost \/ (\E t \in held : t.handle = k) \/ \E d \in Working' : at[d] = k
    BY <1>4 DEF Apart, h
  <2> QED
    BY <1>1, <1>3, <1>4, <1>10, <1>13, <1>14, <2>1, <2>2, <2>3, <2>4 DEF Apart
<1>18. WindowInv'
  <2>1. table'[h] = slot
    BY <1>12 DEF Stored
  <2>2. \A t \in held' : /\ t.type = "window"
                         /\ table'[t.handle].type = "window" /\ table'[t.handle].local = t.local
    BY <1>3, <1>9, <1>10, <1>14, <1>15, <2>1 DEF WindowInv
  <2>3. \A t \in held : t.local # w
    <3>1. \A t \in held : t.local # None => t.local \in 1 .. windows
      BY DEF WindowInv, TableTypes
    <3> QED
      BY <1>7, <3>1 DEF w, None
  <2>4. \A t, u \in held' : t.local = u.local /\ t.local # None => t = u
    BY <1>3, <1>10, <2>3 DEF WindowInv
  <2>5. w # None
    BY <1>7 DEF None
  <2>6. mapped' = {t.local : t \in held'} \ {None}
    BY <1>1, <1>3, <1>10, <2>5 DEF WindowInv
  <2>7. \A d \in Working' : table'[at'[d]] = table[at[d]]
    BY <1>1, <1>4, <1>6, <1>15 DEF Apart
  <2>8. windows' + Cardinality(InWork') <= MaxWindows
    BY <1>1, <1>5, <1>7, BoundsAre DEF WindowInv, w
  <2> QED
    BY <1>1, <1>4, <1>6, <2>2, <2>4, <2>6, <2>7, <2>8 DEF WindowInv
<1> QED
  BY <1>16, <1>17, <1>18

LEMMA MapFailsKeeps ==
    ASSUME TableTypes, Apart, WindowInv, NEW c \in Clients, MapFails(c)
    PROVE  TableTypes' /\ Apart' /\ WindowInv'
<1> DEFINE h == at[c]
           slot == [table[h] EXCEPT !.type = "free"]
           thing == [handle |-> h, type |-> "window", local |-> None]
<1>1. /\ pc' = [pc EXCEPT ![c] = "idle"] /\ c \in Working
      /\ UNCHANGED <<part, at, mutex, windows, mapped, lost, raced, deviceVars>>
  BY DEF MapFails, Working
<1>2. IF pc[c] = "range" THEN held' = held \cup {thing} /\ table' = table
      ELSE table' = [table EXCEPT ![h] = slot] /\ held' = held
  BY DEF MapFails, Owned
<1>3. Working' = Working \ {c} /\ h \in DOMAIN table
  BY <1>1, WorkEnds
<1>4. Cardinality(InWork') = Cardinality(InWork) - 1 /\ Cardinality(InWork) \in Nat \ {0}
  BY <1>1, WorkEnds
<1>5. /\ \A d \in Clients : pc'[d] \in {"idle", "range", "pages"}
      /\ \A d \in Working' : pc'[d] = pc[d] /\ at[d] # h
  BY <1>1, <1>3, WorkEnds
<1>6. table[h] \in Slots /\ h \in 1 .. MaxSlots
  BY <1>3, DomainIs
<1>7. slot \in Slots /\ slot.type = "free"
  BY <1>6 DEF Slots, Types
<1>8. thing.handle = h /\ thing.type = "window" /\ thing.local = None /\ thing \in Things
  BY <1>6, BoundsAre DEF Things, Types, None
<1>9. pc' \in [Clients -> {"idle", "range", "pages", "looked", "asleep", "woken"}]
  BY <1>1 DEF TableTypes
<1>10. windows' + Cardinality(InWork') <= MaxWindows
  BY <1>1, <1>4, BoundsAre DEF WindowInv, TableTypes
<1>11. h \in InUse /\ h \notin lost /\ \A t \in held : t.handle # h
  BY <1>1 DEF Apart
<1> HIDE DEF h, slot, thing
<1>12. CASE pc[c] = "range"
  <2>1. held' = held \cup {thing} /\ table' = table /\ InUse' = InUse
    BY <1>2, <1>12 DEF InUse
  <2>2. table[h].type = "window" /\ table[h].local = None
    BY <1>1, <1>12 DEF WindowInv, h
  <2>3. TableTypes'
    BY <1>1, <1>8, <1>9, <2>1 DEF TableTypes
  <2>4. Apart'
    <3>1. \A k \in InUse : k = h \/ k \in lost \/ (\E t \in held : t.handle = k) \/ \E d \in Working' : at[d] = k
      BY <1>3 DEF Apart, h
    <3>2. \A d \in Working' : at[d] \in InUse /\ at[d] \notin lost /\ at[d] # h
      BY <1>3, <1>5 DEF Apart
    <3> QED
      BY <1>1, <1>3, <1>8, <1>11, <2>1, <3>1, <3>2 DEF Apart
  <2>5. WindowInv'
    <3>1. \A t \in held' : /\ t.type = "window"
                           /\ table'[t.handle].type = "window" /\ table'[t.handle].local = t.local
      BY <1>8, <2>1, <2>2 DEF WindowInv
    <3>2. \A t, u \in held' : t.local = u.local /\ t.local # None => t = u
      BY <1>8, <2>1 DEF WindowInv
    <3>3. mapped' = {t.local : t \in held'} \ {None}
      BY <1>1, <1>8, <2>1 DEF WindowInv
    <3>4. \A d \in Working' : /\ table'[at'[d]].type = "window"
                              /\ pc'[d] = "range" => table'[at'[d]].local = None
      BY <1>1, <1>3, <1>5, <2>1 DEF WindowInv
    <3> QED
      BY <1>5, <1>10, <3>1, <3>2, <3>3, <3>4 DEF WindowInv
  <2> QED
    BY <2>3, <2>4, <2>5
<1>13. CASE pc[c] # "range"
  <2>1. held' = held /\ table' = [table EXCEPT ![h] = slot]
    BY <1>2, <1>13
  <2>2. Stored(h, slot)
    BY <1>3, <1>7, <2>1, StoreIs
  <2>3. InUse' = InUse \ {h}
    BY <1>7, <2>2, InUseIs
  <2>4. TableTypes'
    BY <1>1, <1>9, <2>1, <2>2 DEF Stored, TableTypes
  <2>5. Apart'
    BY <1>1, <1>3, <1>5, <1>11, <2>1, <2>3 DEF Apart, h
  <2>6. \A k \in InUse : k # h => table'[k] = table[k]
    BY <2>2 DEF Stored, InUse
  <2>7. WindowInv'
    <3>1. \A t \in held' : table'[t.handle] = table[t.handle]
      BY <1>11, <2>1, <2>6 DEF Apart
    <3>2. \A d \in Working' : table'[at'[d]] = table[at[d]]
      BY <1>1, <1>3, <1>5, <2>6 DEF Apart
    <3> QED
      BY <1>1, <1>3, <1>5, <1>10, <2>1, <3>1, <3>2 DEF WindowInv
  <2> QED
    BY <2>4, <2>5, <2>7
<1> QED
  BY <1>12, <1>13

LEMMA UnmapKeeps ==
    ASSUME TableTypes, Apart, WindowInv, NEW thing \in held, Unmap(thing)
    PROVE  TableTypes' /\ Apart' /\ WindowInv'
<1> DEFINE h == thing.handle
           slot == [table[h] EXCEPT !.type = "free", !.local = None]
<1>1. held' = held \ {thing} /\ UNCHANGED <<part, pc, at, mutex, windows, raced, deviceVars>>
  BY DEF Unmap, Dropped
<1>2. h \in InUse /\ h \in DOMAIN table /\ ~IsFree(table[h]) /\ table[h].local = thing.local
  BY DEF Apart, WindowInv, InUse
<1>3. IF thing.local = None THEN lost' = lost \cup {h} /\ UNCHANGED <<table, mapped>>
      ELSE mapped' = mapped \ {thing.local} /\ table' = [table EXCEPT ![h] = slot] /\ lost' = lost
  BY <1>2 DEF Unmap
<1>4. Working' = Working /\ InWork' = InWork
  BY <1>1 DEF Working, InWork
<1>5. windows' + Cardinality(InWork') <= MaxWindows
  BY <1>1, <1>4 DEF WindowInv
<1>6. \A t \in held' : t \in held /\ t.handle # h
  BY <1>1 DEF Apart
<1>7. \A d \in Working : at[d] # h /\ at[d] \in InUse
  BY DEF Apart
<1>8. slot \in Slots /\ slot.type = "free"
  <2>1. table[h] \in Slots
    BY <1>2, DomainIs
  <2>2. None \in Failed .. MaxWindows
    BY BoundsAre DEF None, Failed
  <2> QED
    BY <2>1, <2>2 DEF Slots, Types
<1> HIDE DEF h, slot
<1>9. CASE thing.local = None
  <2>1. lost' = lost \cup {h} /\ table' = table /\ mapped' = mapped /\ InUse' = InUse
    BY <1>3, <1>9 DEF InUse
  <2>2. TableTypes'
    BY <1>1, <1>2, <2>1 DEF TableTypes
  <2>3. Apart'
    BY <1>1, <1>2, <1>4, <1>6, <1>7, <2>1 DEF Apart, h
  <2>4. mapped' = {t.local : t \in held'} \ {None}
    BY <1>1, <1>9, <2>1 DEF WindowInv
  <2> QED
    BY <1>1, <1>4, <1>5, <2>1, <2>2, <2>3, <2>4 DEF WindowInv
<1>10. CASE thing.local # None
  <2>1. mapped' = mapped \ {thing.local} /\ table' = [table EXCEPT ![h] = slot] /\ lost' = lost
    BY <1>3, <1>10
  <2>2. Stored(h, slot)
    BY <1>2, <1>8, <2>1, StoreIs
  <2>3. InUse' = InUse \ {h}
    BY <1>8, <2>2, InUseIs
  <2>4. TableTypes'
    BY <1>1, <2>1, <2>2 DEF Stored, TableTypes
  <2>5. h \notin lost
    BY DEF Apart, h
  <2>6. Apart'
    BY <1>1, <1>4, <1>6, <1>7, <2>1, <2>3, <2>5 DEF Apart, h
  <2>7. \A k \in InUse : k # h => table'[k] = table[k]
    BY <2>2 DEF Stored, InUse
  <2>8. \A t \in held' : table'[t.handle] = table[t.handle]
    BY <1>6, <2>7 DEF Apart
  <2>9. \A d \in Working : table'[at[d]] = table[at[d]]
    BY <1>7, <2>7
  <2>10. mapped' = {t.local : t \in held'} \ {None}
    <3>1. \A t \in held' : t.local # thing.local
      BY <1>1, <1>10 DEF WindowInv
    <3> QED
      BY <1>1, <2>1, <3>1 DEF WindowInv
  <2> QED
    BY <1>1, <1>4, <1>5, <1>6, <2>4, <2>6, <2>8, <2>9, <2>10 DEF WindowInv
<1> QED
  BY <1>9, <1>10

-----------------------------------------------------------------------------
(* Locks and events.                                                       *)

LEMMA NoneWorks == LockInv => Working = {}
BY DEF LockInv, Working

\* A slot that has an owner is in use, whatever a step stores in another.
LEMMA OwnersKeep ==
    ASSUME TableTypes, LockInv, NEW h, NEW slot, Stored(h, slot),
           slot.owner # None => slot.type # "free"
    PROVE  ~raced => OwnersInUse'
BY BlankIs DEF LockInv, OwnersInUse, Stored, IsFree

\* A new lock or event.
LEMMA NewSlotIs ==
    ASSUME NEW type \in Types
    PROVE  /\ [Blank EXCEPT !.type = type] \in Slots
           /\ [Blank EXCEPT !.type = type].type = type
           /\ [Blank EXCEPT !.type = type].owner = None
<1>1. [Blank EXCEPT !.type = type] \in Slots
  BY BlankIs DEF Slots
<1> QED
  BY <1>1 DEF Blank

LEMMA AllocKeeps ==
    ASSUME TableTypes, Apart, LockInv, NEW ok \in BOOLEAN, NEW type \in Types,
           type = "lock" \/ type = "event", Alloc(type, ok)
    PROVE  TableTypes' /\ Apart' /\ LockInv'
<1> DEFINE h == Slot
           stored == IF ok THEN type ELSE "free"
           slot == [Blank EXCEPT !.type = stored]
           thing == [handle |-> h, type |-> type, local |-> None]
<1>1. CanAllocate /\ table' = Put(slot)
  BY DEF Alloc
<1>2. UNCHANGED <<part, pc, at, mutex, windows, mapped, lost, raced, deviceVars>>
  BY DEF Alloc
<1>3. held' = IF ok THEN held \cup {thing} ELSE held
  BY DEF Alloc, Owned
<1>4. stored \in Types /\ (ok => stored = type) /\ (~ok => stored = "free")
  BY DEF Types
<1> HIDE DEF stored
<1>5. slot \in Slots /\ slot.type = stored /\ slot.owner = None
  BY <1>4, NewSlotIs
<1>6. Stored(h, slot) /\ h \notin InUse /\ h \in 1 .. MaxSlots
  BY <1>1, <1>5, PutIs
<1>7. thing.handle = h /\ thing.type = type /\ thing \in Things
  BY <1>6, BoundsAre DEF Things, None
<1> HIDE DEF h, slot, thing
<1>8. InUse' = IF ok THEN InUse \cup {h} ELSE InUse
  BY <1>4, <1>5, <1>6, InUseIs
<1>9. Working = {} /\ Working' = {}
  BY <1>2, NoneWorks DEF Working
<1>10. TableTypes'
  BY <1>2, <1>3, <1>6, <1>7 DEF Stored, TableTypes
<1>11. h \notin lost /\ \A t \in held : t.handle # h /\ table'[t.handle] = table[t.handle]
  BY <1>6 DEF Apart, InUse, Stored
<1>12. Apart'
  BY <1>2, <1>3, <1>6, <1>7, <1>8, <1>9, <1>11 DEF Apart
<1>13. LockInv'
  <2>1. ~raced => OwnersInUse'
    BY <1>5, <1>6, OwnersKeep
  <2>2. table'[h] = slot
    BY <1>6 DEF Stored
  <2>3. \A t \in held' : (t.type = "lock" \/ t.type = "event") /\ table'[t.handle].type = t.type
    BY <1>3, <1>4, <1>5, <1>7, <1>11, <2>2 DEF LockInv
  <2>4. ~raced => MutexesHeld'
    BY <1>2, <1>3 DEF LockInv, MutexesHeld
  <2>5. \A c \in Clients : pc[c] # "idle" => mutex[c] \in DOMAIN table'
    BY <1>6 DEF LockInv, Stored
  <2> QED
    BY <1>2, <2>1, <2>3, <2>4, <2>5 DEF LockInv
<1> QED
  BY <1>10, <1>12, <1>13

LEMMA AllocSpinKeeps ==
    ASSUME TableTypes, Apart, LockInv, AllocSpin
    PROVE  TableTypes' /\ Apart' /\ LockInv'
<1> DEFINE h == Slot
           slot == [Blank EXCEPT !.type = "spinlock"]
<1>1. CanAllocate /\ table' = Put(slot) /\ lost' = lost \cup {h}
  BY DEF AllocSpin
<1>2. UNCHANGED <<part, pc, at, mutex, held, windows, mapped, raced, deviceVars>>
  BY DEF AllocSpin
<1>3. slot \in Slots /\ slot.type = "spinlock" /\ slot.owner = None
  BY NewSlotIs DEF Types
<1>4. Stored(h, slot) /\ h \notin InUse
  BY <1>1, <1>3, PutIs
<1> HIDE DEF h, slot
<1>5. InUse' = InUse \cup {h}
  BY <1>3, <1>4, InUseIs
<1>6. Working = {} /\ Working' = {}
  BY <1>2, NoneWorks DEF Working
<1>7. TableTypes'
  BY <1>1, <1>2, <1>4 DEF Stored, TableTypes
<1>8. \A t \in held : t.handle # h /\ table'[t.handle] = table[t.handle]
  BY <1>4 DEF Apart, InUse, Stored
<1>9. Apart'
  BY <1>1, <1>2, <1>5, <1>6, <1>8 DEF Apart
<1>10. ~raced => OwnersInUse'
  BY <1>3, <1>4, OwnersKeep
<1>12. ~raced => MutexesHeld'
  BY <1>2 DEF LockInv, MutexesHeld
<1>13. \A c \in Clients : pc[c] # "idle" => mutex[c] \in DOMAIN table'
  BY <1>4 DEF LockInv, Stored
<1>11. LockInv'
  BY <1>2, <1>8, <1>10, <1>12, <1>13 DEF LockInv
<1> QED
  BY <1>7, <1>9, <1>11

\* A lock that is freed; one that is locked keeps its slot and is lost.
LEMMA FreeKeeps ==
    ASSUME TableTypes, Apart, LockInv, NEW thing \in held, Free(thing)
    PROVE  TableTypes' /\ Apart' /\ LockInv'
<1> DEFINE h == thing.handle
           type == IF table[h].owner = None THEN "free" ELSE "lock"
           slot == [table[h] EXCEPT !.type = type]
<1>1. /\ held' = held \ {thing}
      /\ UNCHANGED <<part, pc, at, mutex, windows, mapped, deviceVars>>
      /\ raced' = (raced \/ \E c \in Clients : mutex[c] = h)
  BY DEF Free, Dropped
<1>2. LockFreed(h)
  BY DEF Free
<1>3. h \in DOMAIN table /\ h \in InUse /\ h \notin lost
  BY DEF Apart, InUse
<1>4. table' = [table EXCEPT ![h] = slot] /\ lost' = IF type = "free" THEN lost ELSE lost \cup {h}
  BY <1>2 DEF LockFreed
<1>5. type \in Types /\ (type = "free" => table[h].owner = None)
  BY DEF Types
<1> HIDE DEF type
<1>6. slot \in Slots /\ slot.type = type /\ slot.owner = table[h].owner
  <2>1. table[h] \in Slots
    BY <1>3, DomainIs
  <2> QED
    BY <1>5, <2>1 DEF Slots
<1>7. \A t \in held' : t \in held /\ t.handle # h
  BY <1>1 DEF Apart
<1> HIDE DEF h, slot
<1>8. Stored(h, slot)
  BY <1>3, <1>4, <1>6, StoreIs
<1>9. InUse' = IF type = "free" THEN InUse \ {h} ELSE InUse
  BY <1>3, <1>6, <1>8, InUseIs
<1>10. Working = {} /\ Working' = {}
  BY <1>1, NoneWorks DEF Working
<1>11. TableTypes'
  BY <1>1, <1>3, <1>4, <1>8 DEF Stored, TableTypes
<1>12. Apart'
  BY <1>1, <1>3, <1>4, <1>7, <1>9, <1>10 DEF Apart, h
<1>13. ~raced' => OwnersInUse'
  BY <1>1, <1>5, <1>6, <1>8, OwnersKeep
<1>14. \A t \in held' : table'[t.handle] = table[t.handle]
  BY <1>7, <1>8 DEF Apart, InUse, Stored
<1>15. ~raced' => MutexesHeld'
  BY <1>1 DEF LockInv, MutexesHeld, h
<1>17. \A c \in Clients : pc[c] # "idle" => mutex[c] \in DOMAIN table'
  BY <1>8 DEF LockInv, Stored
<1>16. LockInv'
  BY <1>1, <1>7, <1>13, <1>14, <1>15, <1>17 DEF LockInv
<1> QED
  BY <1>11, <1>12, <1>16

\* What a thread on its way needs, and the types of the rest of its state.
Sleepers ==
    /\ pc \in [Clients -> {"idle", "range", "pages", "looked", "asleep", "woken"}]
    /\ at \in [Clients -> 0 .. MaxSlots] /\ mutex \in [Clients -> 0 .. MaxSlots]
    /\ \A c \in Clients : pc[c] \in {"idle", "looked", "asleep", "woken"}
    /\ \A c \in Clients : pc[c] # "idle" => mutex[c] \in DOMAIN table
    /\ ~raced => MutexesHeld

\* A lock is taken or left.
LEMMA OwnerKeeps ==
    ASSUME TableTypes, Apart, LockInv, NEW h \in DOMAIN table, NEW who \in Clients \cup {None},
           who # None => raced \/ ~IsFree(table[h]),
           table' = [table EXCEPT ![h].owner = who],
           UNCHANGED <<part, held, windows, mapped, lost, raced>>, Sleepers'
    PROVE  TableTypes' /\ Apart' /\ LockInv'
<1> DEFINE slot == [table[h] EXCEPT !.owner = who]
<1>1. slot \in Slots /\ slot.type = table[h].type /\ slot.owner = who
  <2>1. table[h] \in Slots
    BY DomainIs
  <2> QED
    BY <2>1 DEF Slots
<1>2. table' = [table EXCEPT ![h] = slot]
  OBVIOUS
<1> HIDE DEF slot
<1>3. Stored(h, slot)
  BY <1>1, <1>2, StoreIs
<1>4. InUse' = InUse
  <2>1. h \in InUse <=> slot.type # "free"
    BY <1>1 DEF InUse, IsFree
  <2> QED
    BY <1>3, <2>1, InUseIs
<1>5. Working = {} /\ Working' = {}
  BY NoneWorks DEF Working, Sleepers
<1>6. TableTypes'
  BY <1>3 DEF Stored, TableTypes, Sleepers
<1>7. Apart'
  BY <1>4, <1>5 DEF Apart
<1>8. ~raced => OwnersInUse'
  <2>1. ~raced /\ slot.owner # None => slot.type # "free"
    BY <1>1 DEF IsFree
  <2> QED
    BY <1>3, <2>1, OwnersKeep
<1>9. \A t \in held : table'[t.handle].type = table[t.handle].type
  BY <1>1, <1>3 DEF Apart, InUse, Stored
<1>10. LockInv'
  BY <1>8, <1>9 DEF LockInv, Sleepers
<1> QED
  BY <1>6, <1>7, <1>10

LEMMA SleepersAre == TableTypes /\ LockInv => Sleepers
BY DEF TableTypes, LockInv, Sleepers

\* A step of a thread that leaves the table alone.
LEMMA ThreadKeeps ==
    ASSUME TableTypes, Apart, LockInv, Sleepers',
           UNCHANGED <<part, table, held, windows, mapped, lost, raced>>
    PROVE  TableTypes' /\ Apart' /\ LockInv'
<1>1. InUse' = InUse /\ Working = {} /\ Working' = {}
  BY NoneWorks DEF Sleepers, Working, InUse
<1>2. OwnersInUse' <=> OwnersInUse
  BY DEF OwnersInUse
<1> QED
  BY <1>1, <1>2 DEF Sleepers, TableTypes, Apart, LockInv

LEMMA LookKeeps ==
    ASSUME TableTypes, Apart, LockInv, NEW c \in Clients, NEW thing \in held, Look(c, thing)
    PROVE  TableTypes' /\ Apart' /\ LockInv'
<1>1. UNCHANGED <<part, table, at, held, windows, mapped, lost, raced>>
  BY DEF Look
<1>2. pc' = [pc EXCEPT ![c] = "looked"] /\ mutex' = [mutex EXCEPT ![c] = thing.handle]
  BY DEF Look
<1>3. thing.handle \in DOMAIN table /\ thing.handle \in 0 .. MaxSlots
  <2>1. thing.handle \in DOMAIN table
    BY DEF Apart, InUse
  <2>2. DOMAIN table \subseteq 1 .. MaxSlots
    BY DomainIs
  <2> QED
    BY <2>1, <2>2, BoundsAre
<1>4. Sleepers'
  BY <1>1, <1>2, <1>3, SleepersAre DEF Sleepers, MutexesHeld
<1> QED
  BY <1>1, <1>4, ThreadKeeps

LEMMA LockFailsKeeps ==
    ASSUME TableTypes, Apart, LockInv, NEW c \in Clients, LockFails(c)
    PROVE  TableTypes' /\ Apart' /\ LockInv'
<1>1. UNCHANGED <<part, table, at, held, windows, mapped, lost, raced>>
  BY DEF LockFails
<1>2. pc' = [pc EXCEPT ![c] = "idle"] /\ mutex' = [mutex EXCEPT ![c] = 0]
  BY DEF LockFails
<1>3. 0 \in 0 .. MaxSlots
  BY BoundsAre
<1>4. Sleepers'
  BY <1>1, <1>2, <1>3, SleepersAre DEF Sleepers, MutexesHeld
<1> QED
  BY <1>1, <1>4, ThreadKeeps

LEMMA UnlockKeeps ==
    ASSUME TableTypes, Apart, LockInv, NEW c \in Clients, NEW h, Unlock(c, h)
    PROVE  TableTypes' /\ Apart' /\ LockInv'
<1>1. /\ h \in DOMAIN table /\ table' = [table EXCEPT ![h].owner = None]
      /\ UNCHANGED <<part, pc, at, mutex, held, windows, mapped, lost, raced>>
  BY DEF Unlock
<1>2. Sleepers'
  BY <1>1, SleepersAre DEF Sleepers, MutexesHeld
<1> QED
  BY <1>1, <1>2, OwnerKeeps

LEMMA SleepKeeps ==
    ASSUME TableTypes, Apart, LockInv, NEW c \in Clients, NEW lock \in held, NEW cv \in held,
           Sleep(c, lock, cv)
    PROVE  TableTypes' /\ Apart' /\ LockInv'
<1>1. /\ table' = [table EXCEPT ![lock.handle].owner = None]
      /\ UNCHANGED <<part, held, windows, mapped, lost, raced>>
  BY DEF Sleep
<1>2. /\ pc' = [pc EXCEPT ![c] = "asleep"]
      /\ at' = [at EXCEPT ![c] = cv.handle] /\ mutex' = [mutex EXCEPT ![c] = lock.handle]
  BY DEF Sleep
<1>3. lock.handle \in DOMAIN table /\ lock.handle \in 0 .. MaxSlots /\ cv.handle \in 0 .. MaxSlots
  <2>1. lock.handle \in DOMAIN table /\ cv.handle \in DOMAIN table
    BY DEF Apart, InUse
  <2>2. DOMAIN table \subseteq 1 .. MaxSlots
    BY DomainIs
  <2> QED
    BY <2>1, <2>2, BoundsAre
<1>4. Sleepers'
  BY <1>1, <1>2, <1>3, SleepersAre DEF Sleepers, MutexesHeld
<1> QED
  BY <1>1, <1>3, <1>4, OwnerKeeps

LEMMA WakeKeeps ==
    ASSUME TableTypes, Apart, LockInv, NEW S \in SUBSET Clients, Wake(S)
    PROVE  TableTypes' /\ Apart' /\ LockInv'
<1>1. UNCHANGED <<part, table, mutex, held, windows, mapped, lost, raced>>
  BY DEF Wake
<1>2. /\ pc' = [c \in Clients |-> IF c \in S THEN "woken" ELSE pc[c]] /\ \A c \in S : pc[c] = "asleep"
      /\ at' = [c \in Clients |-> IF c \in S THEN 0 ELSE at[c]]
  BY DEF Wake
<1>3. Sleepers'
  BY <1>1, <1>2, SleepersAre, BoundsAre DEF Sleepers, MutexesHeld
<1> QED
  BY <1>1, <1>3, ThreadKeeps

LEMMA LockKeeps ==
    ASSUME TableTypes, Apart, LockInv, NEW c \in Clients, Lock(c)
    PROVE  TableTypes' /\ Apart' /\ LockInv'
<1>1. /\ table' = [table EXCEPT ![mutex[c]].owner = c]
      /\ UNCHANGED <<part, at, held, windows, mapped, lost, raced>>
  BY DEF Lock
<1>2. pc[c] # "idle" /\ pc' = [pc EXCEPT ![c] = "idle"] /\ mutex' = [mutex EXCEPT ![c] = 0]
  BY DEF Lock
<1>3. mutex[c] \in DOMAIN table /\ (raced \/ ~IsFree(table[mutex[c]]))
  BY <1>2 DEF Apart, LockInv, MutexesHeld, InUse
<1>4. 0 \in 0 .. MaxSlots
  BY BoundsAre
<1>5. Sleepers'
  BY <1>1, <1>2, <1>4, SleepersAre DEF Sleepers, MutexesHeld
<1> QED
  BY <1>1, <1>3, <1>5, OwnerKeeps

-----------------------------------------------------------------------------
(* The theorems.                                                           *)

LEMMA InitInv == Init => IInv
<1> SUFFICES ASSUME Init PROVE IInv
  OBVIOUS
<1>1. /\ part \in {"windows", "locks", "device", "messages"}
      /\ table = <<>> /\ held = {} /\ windows = 0 /\ mapped = {} /\ lost = {} /\ raced = FALSE
      /\ pc = [c \in Clients |-> "idle"] /\ at = [c \in Clients |-> 0] /\ mutex = at
  BY DEF Init
<1>2. /\ emd = <<>> /\ devices = <<>> /\ free = <<>> /\ next = 1 /\ space = None /\ regs = 0
      /\ access = [obj |-> None, reg |-> None] /\ called = <<None, None>>
  BY DEF Init
<1>3. MessageTypes
  BY MessageInit DEF Init
<1>4. InUse = {} /\ Working = {} /\ InWork = {}
  BY <1>1 DEF InUse, Working, InWork
<1>5. TableTypes
  <2>1. /\ pc \in [Clients -> {"idle", "range", "pages", "looked", "asleep", "woken"}]
        /\ at \in [Clients -> 0 .. MaxSlots] /\ mutex \in [Clients -> 0 .. MaxSlots]
    BY <1>1, BoundsAre
  <2>2. /\ table \in Seq(Slots) /\ Len(table) <= MaxSlots
        /\ held \subseteq Things /\ windows \in 0 .. MaxWindows
        /\ mapped \subseteq 1 .. windows /\ lost \subseteq DOMAIN table
    BY <1>1, BoundsAre
  <2> QED
    BY <1>1, <2>1, <2>2 DEF TableTypes
<1>6. DeviceTypes
  <2>1. None \in 0 .. MaxRegs
    BY BoundsAre DEF None
  <2>2. /\ regs \in 0 .. MaxRegs /\ next = regs + 1
    BY <1>2, BoundsAre
  <2>3. access \in [obj : DOMAIN emd \cup {None}, reg : 0 .. MaxRegs]
    BY <1>2, <2>1
  <2>4. called \in (0 .. MaxRegs) \X (0 .. MaxRegs)
    BY <1>2, <2>1
  <2>5. emd \in Seq(Entries) /\ free \in Seq(DOMAIN emd)
    BY <1>2
  <2> QED
    BY <1>2, <2>2, <2>3, <2>4, <2>5 DEF DeviceTypes
<1>7. FreeInv
  BY <1>2 DEF FreeInv
<1>8. AccessInv
  BY <1>2 DEF AccessInv
<1>9. Apart
  BY <1>1, <1>4 DEF Apart
<1>10. WindowInv
  <2>1. windows + Cardinality(InWork) <= MaxWindows
    BY <1>1, <1>4, FS_EmptySet, BoundsAre
  <2> QED
    BY <1>1, <1>4, <2>1 DEF WindowInv
<1>11. LockInv
  BY <1>1 DEF LockInv, OwnersInUse, MutexesHeld
<1>12. DeviceInv
  BY <1>1, <1>2 DEF DeviceInv
<1> QED
  BY <1>3, <1>5, <1>6, <1>7, <1>8, <1>9, <1>10, <1>11, <1>12 DEF IInv

LEMMA MessagesKeep == MessageTypes /\ UNCHANGED messageVars => MessageTypes'
BY DEF MessageTypes, messageVars

LEMMA DevicesKeep ==
    ASSUME DeviceTypes, FreeInv, AccessInv, UNCHANGED deviceVars
    PROVE  DeviceTypes' /\ FreeInv' /\ AccessInv'
BY DEF DeviceTypes, FreeInv, AccessInv, deviceVars

LEMMA WindowsInv ==
    ASSUME IInv, WindowNext, UNCHANGED messageVars
    PROVE  IInv'
<1> USE DEF IInv
<1>1. part = "windows" /\ TableTypes /\ Apart /\ WindowInv
  BY DEF WindowNext
<1>2. TableTypes' /\ Apart' /\ WindowInv' /\ UNCHANGED <<part, deviceVars>>
  <2>1. ASSUME NEW c \in Clients, MapNoMemory(c)
        PROVE  TableTypes' /\ Apart' /\ WindowInv' /\ UNCHANGED <<part, deviceVars>>
    BY <1>1, <2>1, MapNoMemoryKeeps DEF MapNoMemory
  <2>2. ASSUME NEW c \in Clients, MapDone(c)
        PROVE  TableTypes' /\ Apart' /\ WindowInv' /\ UNCHANGED <<part, deviceVars>>
    BY <1>1, <2>2, MapDoneKeeps DEF MapDone
  <2>3. ASSUME NEW c \in Clients, MapFails(c)
        PROVE  TableTypes' /\ Apart' /\ WindowInv' /\ UNCHANGED <<part, deviceVars>>
    BY <1>1, <2>3, MapFailsKeeps DEF MapFails
  <2>4. ASSUME NEW c \in Clients, NEW b \in BOOLEAN, MapBegin(c, b)
        PROVE  TableTypes' /\ Apart' /\ WindowInv' /\ UNCHANGED <<part, deviceVars>>
    BY <1>1, <2>4, MapBeginKeeps DEF MapBegin
  <2>5. ASSUME NEW thing \in held, Unmap(thing)
        PROVE  TableTypes' /\ Apart' /\ WindowInv' /\ UNCHANGED <<part, deviceVars>>
    BY <1>1, <2>5, UnmapKeeps DEF Unmap
  <2> QED
    BY <2>1, <2>2, <2>3, <2>4, <2>5 DEF WindowNext
<1>3. DeviceTypes' /\ FreeInv' /\ AccessInv'
  BY <1>2, DevicesKeep
<1>4. MessageTypes'
  BY MessagesKeep
<1> QED
  BY <1>1, <1>2, <1>3, <1>4

LEMMA LocksInv ==
    ASSUME IInv, LockNext, UNCHANGED messageVars
    PROVE  IInv'
<1> USE DEF IInv
<1>1. part = "locks" /\ TableTypes /\ Apart /\ LockInv
  BY DEF LockNext
<1>2. TableTypes' /\ Apart' /\ LockInv' /\ UNCHANGED <<part, deviceVars>>
  <2>1. ASSUME NEW ok \in BOOLEAN, NEW type \in {"lock", "event"}, Alloc(type, ok)
        PROVE  TableTypes' /\ Apart' /\ LockInv' /\ UNCHANGED <<part, deviceVars>>
    <3>1. type \in Types /\ (type = "lock" \/ type = "event")
      BY DEF Types
    <3> QED
      BY <1>1, <2>1, <3>1, AllocKeeps DEF Alloc
  <2>2. ASSUME AllocSpin
        PROVE  TableTypes' /\ Apart' /\ LockInv' /\ UNCHANGED <<part, deviceVars>>
    BY <1>1, <2>2, AllocSpinKeeps DEF AllocSpin
  <2>3. ASSUME NEW thing \in held, Free(thing)
        PROVE  TableTypes' /\ Apart' /\ LockInv' /\ UNCHANGED <<part, deviceVars>>
    BY <1>1, <2>3, FreeKeeps DEF Free
  <2>4. ASSUME NEW c \in Clients, Lock(c)
        PROVE  TableTypes' /\ Apart' /\ LockInv' /\ UNCHANGED <<part, deviceVars>>
    BY <1>1, <2>4, LockKeeps DEF Lock
  <2>5. ASSUME NEW c \in Clients, NEW h \in 1 .. MaxSlots, Unlock(c, h)
        PROVE  TableTypes' /\ Apart' /\ LockInv' /\ UNCHANGED <<part, deviceVars>>
    BY <1>1, <2>5, UnlockKeeps DEF Unlock
  <2>6. ASSUME NEW c \in Clients, NEW lock \in held, NEW cv \in held, Sleep(c, lock, cv)
        PROVE  TableTypes' /\ Apart' /\ LockInv' /\ UNCHANGED <<part, deviceVars>>
    BY <1>1, <2>6, SleepKeeps DEF Sleep
  <2>7. ASSUME NEW S \in SUBSET Clients, Wake(S)
        PROVE  TableTypes' /\ Apart' /\ LockInv' /\ UNCHANGED <<part, deviceVars>>
    BY <1>1, <2>7, WakeKeeps DEF Wake
  <2>8. ASSUME NEW c \in Clients, NEW thing \in held, Look(c, thing)
        PROVE  TableTypes' /\ Apart' /\ LockInv' /\ UNCHANGED <<part, deviceVars>>
    BY <1>1, <2>8, LookKeeps DEF Look
  <2>9. ASSUME NEW c \in Clients, LockFails(c)
        PROVE  TableTypes' /\ Apart' /\ LockInv' /\ UNCHANGED <<part, deviceVars>>
    BY <1>1, <2>9, LockFailsKeeps DEF LockFails
  <2> QED
    BY <2>1, <2>2, <2>3, <2>4, <2>5, <2>6, <2>7, <2>8, <2>9 DEF LockNext
<1>3. DeviceTypes' /\ FreeInv' /\ AccessInv'
  BY <1>2, DevicesKeep
<1>4. MessageTypes'
  BY MessagesKeep
<1> QED
  BY <1>1, <1>2, <1>3, <1>4

LEMMA DevicesInv ==
    ASSUME IInv, DeviceNext, UNCHANGED messageVars
    PROVE  IInv'
<1> USE DEF IInv
<1>1. part = "device" /\ TableTypes /\ DeviceTypes /\ FreeInv /\ AccessInv /\ DeviceInv
  BY DEF DeviceNext
<1>2. /\ TableTypes' /\ DeviceTypes' /\ FreeInv' /\ AccessInv' /\ DeviceInv'
      /\ part' = part
  <2>1. ASSUME NEW ok \in BOOLEAN, Register(ok)
        PROVE  TableTypes' /\ DeviceTypes' /\ FreeInv' /\ AccessInv' /\ DeviceInv' /\ part' = part
    BY <1>1, <2>1, RegisterKeeps DEF Register
  <2>2. ASSUME NEW thing \in held, Unregister(thing)
        PROVE  TableTypes' /\ DeviceTypes' /\ FreeInv' /\ AccessInv' /\ DeviceInv' /\ part' = part
    <3>1. part' = part
      BY <2>2 DEF Unregister
    <3> QED
      BY <1>1, <2>2, <3>1, UnregisterKeeps
  <2>3. ASSUME AccessBegins \/ ReadsPrivate \/ CallsBack
        PROVE  TableTypes' /\ DeviceTypes' /\ FreeInv' /\ AccessInv' /\ DeviceInv' /\ part' = part
    <3>1. /\ DeviceTypes' /\ AccessInv'
          /\ UNCHANGED <<part, tableVars, emd, devices, free, next, space, regs>>
      BY <1>1, <2>3, AccessKeeps
    <3> QED
      BY <1>1, <3>1 DEF tableVars, TableTypes, FreeInv, DeviceInv
  <2> QED
    BY <2>1, <2>2, <2>3 DEF DeviceNext
<1>3. MessageTypes'
  BY MessagesKeep
<1> QED
  BY <1>1, <1>2, <1>3

LEMMA RestKeeps ==
    ASSUME IInv, UNCHANGED <<part, tableVars, deviceVars>>, MessageTypes'
    PROVE  IInv'
<1>1. DeviceTypes' /\ FreeInv' /\ AccessInv'
  BY DevicesKeep DEF IInv
<1>2. TableTypes'
  BY DEF IInv, TableTypes, tableVars
<1>3. InUse' = InUse /\ Working' = Working /\ InWork' = InWork
  BY DEF InUse, Working, InWork, tableVars
<1>4. part' = part
  OBVIOUS
<1>5. part # "device" => Apart'
  BY <1>3 DEF IInv, Apart, tableVars
<1>6. part = "windows" => WindowInv'
  BY <1>3 DEF IInv, WindowInv, tableVars
<1>7. part = "locks" => LockInv'
  BY DEF IInv, LockInv, OwnersInUse, MutexesHeld, tableVars
<1>8. part = "device" => DeviceInv'
  BY DEF IInv, DeviceInv, tableVars, deviceVars
<1> QED
  BY <1>1, <1>2, <1>4, <1>5, <1>6, <1>7, <1>8 DEF IInv

LEMMA NextInv == IInv /\ [Next]_vars => IInv'
<1> SUFFICES ASSUME IInv, [Next]_vars PROVE IInv'
  OBVIOUS
<1>1. CASE WindowNext /\ UNCHANGED messageVars
  BY <1>1, WindowsInv
<1>2. CASE LockNext /\ UNCHANGED messageVars
  BY <1>2, LocksInv
<1>3. CASE DeviceNext /\ UNCHANGED messageVars
  BY <1>3, DevicesInv
<1>4. CASE MessageStep /\ UNCHANGED <<part, tableVars, deviceVars>>
  <2>1. MessageTypes'
    BY <1>4, MessageKeeps DEF IInv
  <2> QED
    BY <1>4, <2>1, RestKeeps
<1>5. CASE UNCHANGED vars
  <2>1. UNCHANGED messageVars /\ UNCHANGED <<part, tableVars, deviceVars>>
    BY <1>5 DEF vars
  <2>2. MessageTypes'
    BY <2>1, MessagesKeep DEF IInv
  <2> QED
    BY <2>1, <2>2, RestKeeps
<1> QED
  BY <1>1, <1>2, <1>3, <1>4, <1>5 DEF Next

LEMMA Invariant == Spec => []IInv
BY InitInv, NextInv, PTL DEF Spec

LEMMA TypesHold == IInv => TypeOK
<1> SUFFICES ASSUME IInv PROVE TypeOK
  OBVIOUS
<1>1. lost \subseteq 1 .. MaxSlots
  BY DomainIs DEF IInv, TableTypes
<1>2. devices \in Seq(DOMAIN emd)
  <2>1. space = None => devices = <<>>
    BY DEF IInv, DeviceTypes
  <2>2. space # None => devices = <<space>> /\ space \in DOMAIN emd
    BY DEF IInv, DeviceTypes
  <2>3. <<>> \in Seq(DOMAIN emd) /\ \A d \in DOMAIN emd : <<d>> \in Seq(DOMAIN emd)
    OBVIOUS
  <2> QED
    BY <2>1, <2>2, <2>3
<1>3. emd \in Seq([reg : 1 .. MaxRegs, callback : 1 .. MaxRegs, handle : 1 .. MaxRegs])
  BY DEF IInv, DeviceTypes, Entries
<1>4. access.obj \in DOMAIN emd \cup {None} /\ access.reg \in 0 .. MaxRegs
  BY DEF IInv, DeviceTypes
<1>5. {offset, length, uc} \subseteq 0 .. Word - 1 /\ ec \in 1 .. Elements + 1
  BY DEF IInv, MessageTypes
<1> QED
  BY <1>1, <1>2, <1>3, <1>4, <1>5 DEF IInv, TypeOK, TableTypes, DeviceTypes

LEMMA HandlesHold == IInv => HandlesAreOwn
<1> SUFFICES ASSUME IInv PROVE HandlesAreOwn
  OBVIOUS
<1>1. \A a, b \in held : a.handle = b.handle => a = b
  BY DEF IInv, Apart, DeviceInv
<1>2. part = "windows" =>
        /\ \A t \in held : table[t.handle].type = "window" /\ table[t.handle].local = t.local
        /\ mapped = {t.local : t \in held} \ {None}
  BY DEF IInv, WindowInv
<1>3. part = "locks" =>
        /\ \A t \in held : table[t.handle].type = t.type
        /\ raced \/ \A h \in DOMAIN table : table[h].owner # None => ~IsFree(table[h])
  BY DEF IInv, LockInv, OwnersInUse
<1>4. part # "device" => InUse = {t.handle : t \in held} \cup InWork \cup lost
  BY InWorkIs DEF IInv, Apart
<1>5. ASSUME part = "device"
      PROVE  /\ devices = (IF space = None THEN <<>> ELSE <<space>>)
             /\ {<<emd[d].handle, emd[d].reg>> : d \in {space} \ {None}} =
                    {<<t.handle, t.local>> : t \in held}
  <2>1. DeviceInv /\ devices = (IF space = None THEN <<>> ELSE <<space>>)
    BY <1>5 DEF IInv, DeviceTypes
  <2>2. CASE space = None
    <3>1. held = {} /\ {space} \ {None} = {}
      BY <2>1, <2>2 DEF DeviceInv
    <3> QED
      BY <2>1, <3>1
  <2>3. CASE space # None
    <3>1. PICK t \in held : held = {t}
      BY <2>1, <2>3 DEF DeviceInv
    <3>2. t.handle = emd[space].handle /\ t.local = emd[space].reg
      BY <2>1 DEF DeviceInv
    <3>3. {space} \ {None} = {space}
      BY <2>3
    <3> QED
      BY <2>1, <3>1, <3>2, <3>3
  <2> QED
    BY <2>2, <2>3
<1> QED
  BY <1>1, <1>2, <1>3, <1>4, <1>5 DEF HandlesAreOwn

\* Tables, lists and offsets stay within their types.
THEOREM TypeCorrect == Spec => []TypeOK
BY Invariant, TypesHold, PTL

\* A handle names what it was given for until it is given back
\* (vmiope_allocate_table_element, vmiope_lock_free_nolock,
\* vmiop_register_emul_device).
THEOREM HandlesAreOwnCorrect == Spec => []HandlesAreOwn
BY Invariant, HandlesHold, PTL

LEMMA ReadInvariant == Spec => []ReadInv
<1>1. Init => ReadInv
  BY ReadInit DEF Init
<1>2. IInv /\ ReadInv /\ [Next]_vars => ReadInv'
  <2> SUFFICES ASSUME IInv, ReadInv, [Next]_vars PROVE ReadInv'
    OBVIOUS
  <2>1. CASE MessageStep
    BY <2>1, ReadStep DEF IInv
  <2>2. CASE UNCHANGED messageVars
    BY <2>2, ReadKept
  <2> QED
    BY <2>1, <2>2 DEF Next, vars
<1> QED
  BY <1>1, <1>2, Invariant, PTL DEF Spec

\* For messages of any elements, each unit asked for is handed out as it is and
\* in its turn, up to the first that crosses from one element to another
\* (vmiope_buffer_pullup, vmiope_buffer_apply).
THEOREM DataIsWholeCorrect == Spec => []DataIsWhole
<1>1. IInv /\ ReadInv => DataIsWhole
  BY ReadWhole DEF IInv
<1> QED
  BY <1>1, Invariant, ReadInvariant, PTL

\* Until then the loop takes a turn for each element and one for each unit
\* (vmiope_buffer_apply).
THEOREM LoopIsShortCorrect == Spec => []LoopIsShort
<1>1. IInv /\ ReadInv => LoopIsShort
  BY ReadShort DEF IInv
<1> QED
  BY <1>1, Invariant, ReadInvariant, PTL

=============================================================================
