------------------------------ MODULE Messages ------------------------------
(***************************************************************************)
(* How the data of a message is read: vmiope_buffer_pullup and             *)
(* vmiope_buffer_apply of vmiop-env.c.  The data lies in the elements of a *)
(* buffer, one behind the other, and either function hands out a pointer   *)
(* into an element or a copy in the caller's tbuf.  A byte is its element  *)
(* and its place in it.  One action is one turn of the function's loop.    *)
(***************************************************************************)
EXTENDS Integers, Sequences, FiniteSets, SequencesExt

CONSTANTS
    Elements,   \* bound: elements of a buffer
    Length,     \* bound: bytes of an element
    MaxAsked,   \* bound: offset and length asked for
    Word,       \* 2^32, the width of the offsets
    MaxTurns    \* bound: turns of a loop that does not end

ASSUME MessagesAssumption ==
    /\ {Elements, Length, MaxAsked, MaxTurns} \subseteq Nat \ {0}
    /\ Word \in Nat /\ Word > Elements * Length + MaxAsked

VARIABLES
    msg,        \* the lengths of the elements
    ask,        \* the call's arguments; length is the unit of a pullup
    ec,         \* ep - buf->element + 1
    offset,     \* data_offset
    length,     \* data_length
    tbuf,       \* what was copied to tbuf; <<>> while dp is NULL
    uc,         \* as in the code
    given,      \* *data_p, or what function_p was applied to, in this order
    turns       \* history: turns taken

messageVars == <<msg, ask, ec, offset, length, tbuf, uc, given, turns>>

Calls ==
    {c \in [fn : {"pullup", "apply"}, offset : 0 .. MaxAsked, length : 0 .. MaxAsked,
            unit : 1 .. MaxAsked] :
        IF c.fn = "pullup" THEN c.unit = 1 ELSE c.length % c.unit = 0}
NoCall == [fn |-> "none", offset |-> 0, length |-> 0, unit |-> 1]

Begins(m, c) ==
    /\ msg = m /\ ask = c
    /\ ec = 1 /\ offset = c.offset /\ length = c.length
    /\ tbuf = <<>> /\ uc = 0 /\ given = <<>> /\ turns = 0

MessageBegins ==
    \E n \in 1 .. Elements : \E m \in [1 .. n -> 0 .. Length], c \in Calls : Begins(m, c)
NoMessage == Begins(<<>>, NoCall)

-----------------------------------------------------------------------------
Minus(a, b) == (a - b) % Word
Lesser(a, b) == IF a < b THEN a ELSE b
Bytes(e, from, n) == [i \in 1 .. n |-> <<e, from + i - 1>>]

InLoop == ec <= Len(msg) /\ length > 0 /\ turns < MaxTurns
Room == msg[ec] - offset
Turn == turns' = turns + 1 /\ UNCHANGED <<msg, ask>>

\* Slip: the offset stays what it was in the element before.
NextElementAt == ec' = ec + 1 /\ UNCHANGED offset

\* Slip: an element is left only if it had bytes.
NextElementOf == offset' = Minus(offset, msg[ec]) /\ ec' = IF msg[ec] = 0 THEN ec ELSE ec + 1

\* The data begins behind this element.
NextElement == ec' = ec + 1 /\ offset' = Minus(offset, msg[ec])

PassElement ==
    /\ InLoop /\ offset >= msg[ec]
    /\ NextElement /\ Turn
    /\ UNCHANGED <<length, tbuf, uc, given>>

\* The whole data lies in this element; the call returns.
PullupHere ==
    /\ ask.fn = "pullup" /\ InLoop /\ offset < msg[ec] /\ length <= Room /\ tbuf = <<>>
    /\ given' = <<Bytes(ec, offset, length)>> /\ length' = 0 /\ Turn
    /\ UNCHANGED <<ec, offset, tbuf, uc>>

\* Some of it does, and is copied behind what was copied before.
PullupCopy ==
    LET len == Lesser(length, Room) IN
    /\ ask.fn = "pullup" /\ InLoop /\ offset < msg[ec] /\ (length > Room \/ tbuf # <<>>)
    /\ tbuf' = tbuf \o Bytes(ec, offset, len) /\ given' = <<tbuf'>>
    /\ offset' = Minus(offset, len) /\ length' = length - len
    /\ ec' = ec + 1 /\ Turn
    /\ UNCHANGED uc

\* A unit that lies in this element.
ApplyHere ==
    /\ ask.fn = "apply" /\ InLoop /\ offset < msg[ec] /\ ask.unit <= Room /\ tbuf = <<>>
    /\ given' = Append(given, Bytes(ec, offset, ask.unit)) /\ uc' = 0
    /\ offset' = offset + ask.unit /\ length' = Minus(length, ask.unit) /\ Turn
    /\ UNCHANGED <<ec, tbuf>>

\* A piece of a unit is copied to the start of tbuf, whatever is there.
ApplyCopy ==
    LET len == Lesser(Minus(length, uc), Room)
        copied == Bytes(ec, offset, len) \o SubSeq(tbuf, len + 1, Len(tbuf))
        done == Minus(uc + len, 0) = ask.unit
    IN
    /\ ask.fn = "apply" /\ InLoop /\ offset < msg[ec] /\ (ask.unit > Room \/ tbuf # <<>>)
    /\ given' = IF done THEN Append(given, copied) ELSE given
    /\ tbuf' = IF done THEN <<>> ELSE copied
    /\ uc' = IF done THEN 0 ELSE Minus(uc + len, 0)
    /\ offset' = offset + len /\ length' = Minus(length, len) /\ Turn
    /\ UNCHANGED ec

MessageStep == PassElement \/ PullupHere \/ PullupCopy \/ ApplyHere \/ ApplyCopy

-----------------------------------------------------------------------------
\* The bytes of the message, and the place that a byte has in it: the elements
\* lie one behind the other.
Message == {b \in (DOMAIN msg) \X (0 .. Length - 1) : b[2] < msg[b[1]]}
Before(e) == Cardinality({b \in Message : b[1] < e})
Place(b) == Before(b[1]) + b[2]

\* The units of the data asked for; that of a pullup is all of it.
Unit == IF ask.fn = "pullup" /\ ask.length > 0 THEN ask.length ELSE ask.unit
Units == 1 .. ask.length \div Unit
PlaceOf(n, k) == ask.offset + (n - 1) * Unit + k - 1
InRange == ask.offset + ask.length <= Cardinality(Message)
Returned == ec > Len(msg) \/ length = 0

\* Two bytes of the unit are in different elements.
Crosses(n) ==
    \E b, c \in Message :
        /\ b[1] # c[1]
        /\ {Place(b), Place(c)} \subseteq PlaceOf(n, 1) .. PlaceOf(n, Unit)

\* The unit is handed out as it is.
Whole(n) ==
    /\ n \in DOMAIN given /\ Len(given[n]) = Unit
    /\ \A k \in 1 .. Unit : given[n][k] \in Message /\ Place(given[n][k]) = PlaceOf(n, k)
AllWhole == Len(given) = Cardinality(Units) /\ \A n \in Units : Whole(n)

\* Each unit of the data is handed out as it is and in its turn, up to the
\* first that crosses from one element to another (vmiope_buffer_pullup,
\* vmiope_buffer_apply).
DataIsWhole ==
    InRange /\ Returned =>
        \/ AllWhole
        \/ \E n \in Units : Crosses(n) /\ \A m \in 1 .. n - 1 : Whole(m)

\* The loop ends after a turn for each element and one for each unit, unless a
\* unit crosses from one element to another (vmiope_buffer_apply).
LoopIsShort ==
    InRange =>
        \/ turns <= Len(msg) + Cardinality(Units)
        \/ ask.fn = "apply" /\ \E n \in Units : Crosses(n)

\* vmiop-env.c:5731, 5806: otherwise the data is copied, and the copy handed out.
CopyIsWhole == InRange /\ Returned => AllWhole
=============================================================================
