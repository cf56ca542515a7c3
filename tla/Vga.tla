-------------------------------- MODULE Vga --------------------------------
(***************************************************************************)
(* The VGA of device.c: the accesses of the guest, which take several to   *)
(* do one thing (an index and then a value, three values for a colour, a   *)
(* read to load the latch), and dump_vga, which the migration's worker     *)
(* runs beside them to save the registers that changed.                    *)
(*                                                                         *)
(* A register is here if it steers an access or takes part in saving; of a *)
(* byte in video memory or of a bit mask one bit is kept, the same of each *)
(* plane.  Most handlers mark the registers dirty first and change them    *)
(* then, which is two steps (Mark, and the access); a load through the     *)
(* latch and a colour are changed first and marked then (and MarkLate).    *)
(***************************************************************************)
EXTENDS Integers, Sequences, FiniteSets

CONSTANTS
    Programs,   \* the sets of accesses a guest makes, as <<port, value>>
    MaxStores,  \* bound: stores to video memory
    VramAddr,   \* the address of the frame buffer: 0, or what a resume restored
    None

ASSUME VgaAssumption == MaxStores \in Nat /\ VramAddr \in Nat /\ None \notin Nat

Planes == 0 .. 3
Bit == {0, 1}
Entries == 2            \* of the palette: 256 in the code, as many as an index has values
Colours == [1 .. 3 -> Bit]
VramSize == 4194304
Window == 4             \* addresses of the model in 64 KiB
Addresses == 0 .. 2 * Window - 1
Word16 == 65536
VbeRegs == {"xres", "yres", "bpp", "bank", "virt_width", "virt_height", "x", "y"}
VbeIndices == VbeRegs \cup {"id", "enable"}

\* What the guest may write to a port; a port's byte is cut to what is kept of it.
Values(port) ==
    CASE port = "3c0" -> 0 .. 2
      [] port = "3c2" -> BOOLEAN
      [] port \in {"3d5", "3b5"} -> 0 .. 3
      [] port \in {"3c7", "3c8"} -> 0 .. Entries - 1
      [] port = "3c9" -> Bit
      [] port = "load" -> Addresses
      [] port = "store" -> Addresses \X BOOLEAN \X SUBSET Planes
      [] port = "1ce" -> VbeIndices
      [] port = "1cf" -> 0 .. Word16 - 1
      [] OTHER -> Nat

ASSUME ProgramsAssumption == \A q \in Programs : \A a \in q : a[2] \in Values(a[1])

VARIABLES
    program,    \* the accesses of this guest
    r,          \* part 1 of the saved registers
    pal,        \* part 2: the palette
    vram,       \* the bytes of video memory whose bit is set
    addr,       \* the address of the frame buffer as demu knows it
    marking,    \* an access has marked part 1 and not yet made its change
    late,       \* the part an access has changed and not yet marked, or 0
    dirty1, dirty2, \* vga_part1_dirty and vga_part2_dirty
    dpc,        \* where dump_vga is
    dead,       \* the process was killed by a signal
    \* History.
    fresh1, fresh2, \* the last copy of the part is as the registers are
    raced1, raced2, \* the part was marked while it was being written, and not since
    failed,     \* a part could not be written
    run, kind,  \* the values written to 3c9, and what else was done there
    stores,     \* the number of stores to video memory
    last        \* the last store, if it can be read back

dumpVars == <<dpc, failed>>
dacHist == <<run, kind>>
memVars == <<vram, stores, last>>
vars == <<program, r, pal, memVars, addr, marking, late, dirty1, dirty2, dumpVars, dead,
          fresh1, fresh2, raced1, raced2, dacHist>>

\* device_vga_bios_init.  Attribute registers 0 and 1 stand for all 21, 2 for
\* an index past the last; the upper bit of a CRTC register is bit 4 of
\* register 7 and bit 7 of register 17.
InitRegs ==
    [color |-> TRUE, flip |-> 1, st01 |-> FALSE, arIndex |-> 0, ar |-> [i \in Bit |-> i],
     crIndex |-> 15, cr |-> [i \in {1, 7, 17} |-> IF i = 1 THEN 0 ELSE 2],
     sub |-> 0, rdIndex |-> 0, wrIndex |-> 0, cache |-> <<1, 1, 1>>,
     srIndex |-> 3, mask |-> {0, 1}, chain |-> FALSE,
     grIndex |-> 5, set |-> {}, setOn |-> {}, func |-> 0, plane |-> 0,
     wmode |-> 0, oddEven |-> TRUE, map |-> 3, bitMask |-> TRUE,
     latch |-> {}, bank |-> 0, lfb |-> 0,
     vbeIndex |-> "id", vbe |-> [i \in VbeRegs |-> 0], on |-> FALSE, start |-> 0, line |-> 0]

Registers ==
    [color : BOOLEAN, flip : Bit, st01 : BOOLEAN, arIndex : 0 .. 2, ar : [Bit -> Bit],
     crIndex : Nat, cr : [{1, 7, 17} -> 0 .. 3],
     sub : 0 .. 2, rdIndex : 0 .. Entries - 1, wrIndex : 0 .. Entries - 1, cache : Colours,
     srIndex : 0 .. 7, mask : SUBSET Planes, chain : BOOLEAN,
     grIndex : 0 .. 15, set : SUBSET Planes, setOn : SUBSET Planes, func : 0 .. 3, plane : 0 .. 3,
     wmode : 0 .. 3, oddEven : BOOLEAN, map : 0 .. 3, bitMask : BOOLEAN,
     latch : SUBSET Planes, bank : 0 .. 63, lfb : Nat,
     vbeIndex : VbeIndices, vbe : [VbeRegs -> 0 .. Word16 - 1], on : BOOLEAN, start : Nat, line : Nat]

TypeOK ==
    /\ program \in Programs
    /\ r \in Registers /\ pal \in [0 .. Entries - 1 -> Colours]
    /\ vram \subseteq Nat /\ stores \in 0 .. MaxStores
    /\ last \in [addr : Addresses, bit : BOOLEAN] \cup {None}
    /\ addr \in Nat /\ late \in 0 .. 2
    /\ marking \in BOOLEAN /\ dirty1 \in BOOLEAN /\ dirty2 \in BOOLEAN /\ dead \in BOOLEAN
    /\ fresh1 \in BOOLEAN /\ fresh2 \in BOOLEAN /\ raced1 \in BOOLEAN /\ raced2 \in BOOLEAN
    /\ failed \in BOOLEAN /\ dpc \in {"idle", "write1", "part2", "write2"}
    /\ run \in Seq(Bit) /\ Len(run) <= 3 /\ kind \in {"none", "read", "write", "mixed"}

Init ==
    /\ program \in Programs
    /\ r = InitRegs /\ pal = [e \in 0 .. Entries - 1 |-> <<0, 0, 0>>]
    /\ vram = {} /\ addr = VramAddr /\ marking = FALSE /\ late = 0 /\ dirty1 = TRUE /\ dirty2 = TRUE
    /\ dpc = "idle" /\ dead = FALSE
    /\ fresh1 = FALSE /\ fresh2 = FALSE /\ raced1 = FALSE /\ raced2 = FALSE /\ failed = FALSE
    /\ run = <<>> /\ kind = "none" /\ stores = 0 /\ last = None

-----------------------------------------------------------------------------
\* All of part 1 but the flip-flop and status register 1: a read of that
\* register resets the one and toggles the other without marking.
Saved(x) == [x EXCEPT !.flip = 0, !.st01 = FALSE]

\* The first half of an access that will change registers.
Mark ==
    /\ ~marking /\ marking' = TRUE /\ dirty1' = TRUE
    /\ UNCHANGED <<program, r, pal, memVars, addr, late, dirty2, dumpVars, dead, fresh1, fresh2,
                   raced1, raced2, dacHist>>

SetPart1(x) == r' = x /\ fresh1' = (fresh1 /\ Saved(x) = Saved(r))
SetPart2(x) == pal' = x /\ fresh2' = (fresh2 /\ x = pal)

worker == <<program, dumpVars, raced1, raced2>>

\* The second half: the registers become x.
Change(x) ==
    /\ marking /\ marking' = FALSE
    /\ SetPart1(x)
    /\ UNCHANGED <<worker, pal, late, dirty1, dirty2, fresh2>>

Plain(x) == Change(x) /\ UNCHANGED <<memVars, addr, dead, dacHist>>

\* A change of how video memory is accessed.
Steer(x) == Change(x) /\ last' = None /\ UNCHANGED <<vram, stores, addr, dead, dacHist>>

\* A part that was changed is marked.
MarkLate ==
    /\ late # 0 /\ late' = 0
    /\ dirty1' = (dirty1 \/ late = 1) /\ dirty2' = (dirty2 \/ late = 2)
    /\ UNCHANGED <<worker, r, pal, memVars, addr, marking, dead, fresh1, fresh2, dacHist>>

\* In colour mode the ports of the monochrome range are dead, and conversely.
Visible(color) == r.color = color

\* 3c0, an index and a value in turn.
AttrWrite(v) ==
    Plain([r EXCEPT !.flip = 1 - @,
                    !.arIndex = IF r.flip = 0 THEN v ELSE @,
                    !.ar = IF r.flip = 1 /\ r.arIndex \in DOMAIN r.ar
                           THEN [@ EXCEPT ![r.arIndex] = v % 2] ELSE @])

\* 3c2
MiscWrite(v) == Plain([r EXCEPT !.color = v])

\* 3b4 and 3d4
CrIndexWrite(color, v) == Visible(color) /\ Plain([r EXCEPT !.crIndex = v])

\* Bit 7 of register 17 protects registers 0 to 7, but for bit 4 of the last.
CrLocked == r.cr[17] >= 2 /\ r.crIndex <= 7

\* 3b5 and 3d5
CrWrite(color, v) ==
    /\ Visible(color)
    /\ Plain(IF r.crIndex \notin DOMAIN r.cr \/ (CrLocked /\ r.crIndex # 7) THEN r
             ELSE IF CrLocked THEN [r EXCEPT !.cr[7] = (@ % 2) + 2 * (v \div 2)]
             ELSE [r EXCEPT !.cr[r.crIndex] = v])

\* 3ba and 3da, with no mark; a guest that polls sees both values of status 1.
StatusRead(color) ==
    /\ Visible(color) /\ ~marking
    /\ SetPart1([r EXCEPT !.flip = 0, !.st01 = ~@])
    /\ UNCHANGED <<worker, pal, memVars, addr, marking, late, dirty1, dirty2, fresh2, dead, dacHist>>

-----------------------------------------------------------------------------
\* The colours.

NoRun == run' = <<>> /\ kind' = "none"
Also(k) == kind' = IF kind \in {"none", k} THEN k ELSE "mixed"

\* 3c7
ReadIndexWrite(v) ==
    Change([r EXCEPT !.rdIndex = v, !.sub = 0]) /\ NoRun /\ UNCHANGED <<memVars, addr, dead>>

\* Slip: the position in the colour is kept.
WriteIndexKeepsSub(v) ==
    Change([r EXCEPT !.wrIndex = v]) /\ NoRun /\ UNCHANGED <<memVars, addr, dead>>

\* 3c8
WriteIndexWrite(v) ==
    Change([r EXCEPT !.wrIndex = v, !.sub = 0]) /\ NoRun /\ UNCHANGED <<memVars, addr, dead>>

\* The next byte of a colour, and after the last the next colour.
Step(x, i) == (x + i) % Entries
NextSub == (r.sub + 1) % 3
Third == IF r.sub = 2 THEN 1 ELSE 0

\* 3c9
DataRead ==
    /\ Change([r EXCEPT !.sub = NextSub, !.rdIndex = Step(@, Third)])
    /\ Also("read")
    /\ UNCHANGED <<memVars, addr, dead, run>>

\* Slip: the palette is not marked.
Marks2Not == UNCHANGED late

\* With the third value the colour is stored, and part 2 is marked then.
Marks2 == late' = IF r.sub = 2 THEN 2 ELSE 0

\* 3c9
DataWrite(v) ==
    LET cache == [r.cache EXCEPT ![r.sub + 1] = v] IN
    /\ marking /\ marking' = FALSE
    /\ SetPart1([r EXCEPT !.cache = cache, !.sub = NextSub, !.wrIndex = Step(@, Third)])
    /\ SetPart2(IF r.sub = 2 THEN [pal EXCEPT ![r.wrIndex] = cache] ELSE pal)
    /\ Marks2
    /\ run' = IF Len(run) = 3 THEN <<v>> ELSE Append(run, v)
    /\ Also("write")
    /\ UNCHANGED <<worker, memVars, addr, dirty1, dirty2, dead>>

-----------------------------------------------------------------------------
\* Video memory.

BitOf(v, n) == (v \div 2^n) % 2 = 1
PlanesOf(v) == {p \in Planes : BitOf(v, p)}

\* 3c4 and 3c5
SrIndexWrite(v) == Plain([r EXCEPT !.srIndex = v % 8])
SrWrite(v) ==
    Steer(CASE r.srIndex = 2 -> [r EXCEPT !.mask = PlanesOf(v)]
            [] r.srIndex = 4 -> [r EXCEPT !.chain = BitOf(v, 3)]
            [] OTHER         -> r)

\* 3ce and 3cf; the rotation of register 3 does not show in one bit.
GrIndexWrite(v) == Plain([r EXCEPT !.grIndex = v % 16])
GrWrite(v) ==
    Steer(CASE r.grIndex = 0 -> [r EXCEPT !.set = PlanesOf(v)]
            [] r.grIndex = 1 -> [r EXCEPT !.setOn = PlanesOf(v)]
            [] r.grIndex = 3 -> [r EXCEPT !.func = (v \div 8) % 4]
            [] r.grIndex = 4 -> [r EXCEPT !.plane = v % 4]
            [] r.grIndex = 5 -> [r EXCEPT !.wmode = v % 4, !.oddEven = BitOf(v, 4)]
            [] r.grIndex = 6 -> [r EXCEPT !.map = (v \div 4) % 4]
            [] r.grIndex = 8 -> [r EXCEPT !.bitMask = BitOf(v, 0)]
            [] OTHER         -> r)

\* The place of address a in the 128 KiB that are emulated, None outside the
\* part that is mapped.
Offset(a) ==
    CASE r.map = 0 -> a
      [] r.map = 1 -> IF a < Window THEN a + r.bank * Window ELSE None
      [] r.map = 2 -> IF a - Window \in 0 .. Window \div 2 - 1 THEN a - Window ELSE None
      [] r.map = 3 -> IF a >= Window + Window \div 2 THEN a - Window - Window \div 2 ELSE None

Latched == ~r.chain /\ ~r.oddEven

\* The place of a byte when odd and even addresses are on different planes.
OddEvenPlane(o) == 2 * (r.plane \div 2) + (o % 2)
OddEvenCell(o) == 2 * (o - (o % 2)) + OddEvenPlane(o)

\* 4 bytes, one of each plane.
Word(o) == {4 * o + p : p \in Planes}

\* A load that goes through the latch, and marks part 1 then; others change
\* nothing.
Load(a) ==
    /\ ~marking /\ Latched /\ Offset(a) # None
    /\ SetPart1([r EXCEPT !.latch = {p \in Planes : 4 * Offset(a) + p \in vram}])
    /\ late' = 1
    /\ UNCHANGED <<worker, pal, memVars, addr, marking, dirty1, dirty2, fresh2, dead, dacHist>>

\* Plane p of a latched store of a byte with bit b, whose low half is n.
StoreBit(p, b, n) ==
    LET l == p \in r.latch
        v == CASE r.wmode = 0 -> IF p \in r.setOn THEN p \in r.set ELSE b
               [] r.wmode = 2 -> p \in n
               [] OTHER       -> p \in r.set
        c == CASE r.func = 0 -> v
               [] r.func = 1 -> v /\ l
               [] r.func = 2 -> v \/ l
               [] r.func = 3 -> v # l
    IN IF r.wmode # 1 /\ r.bitMask /\ (r.wmode = 3 => b) THEN c ELSE l

\* Slip: the lowest bit of the address is not taken out.
TouchedOdd(o) ==
    CASE r.chain   -> {c \in {o} : o % 4 \in r.mask}
      [] r.oddEven /\ ~r.chain -> {c \in {2 * o + OddEvenPlane(o)} : OddEvenPlane(o) \in r.mask}
      [] OTHER     -> {c \in Word(o) : c % 4 \in r.mask}

\* The bytes a store at place o may change, and those of them it sets.
Touched(o) ==
    CASE r.chain   -> {c \in {o} : o % 4 \in r.mask}
      [] r.oddEven /\ ~r.chain -> {c \in {OddEvenCell(o)} : OddEvenPlane(o) \in r.mask}
      [] OTHER     -> {c \in Word(o) : c % 4 \in r.mask}

Stored(o, b, n) == {c \in Touched(o) : IF Latched THEN StoreBit(c % 4, b, n) ELSE b}

\* Where a load at place o reads, in read mode 0.
Source(o) ==
    CASE r.chain -> o
      [] r.oddEven /\ ~r.chain -> OddEvenCell(o)
      [] OTHER -> 4 * o + r.plane

\* A store in which nothing but the value and the plane mask counts.
Straight == Latched => r.wmode = 0 /\ r.setOn = {} /\ r.func = 0 /\ r.bitMask

Store(a, b, n) ==
    LET o == Offset(a) IN
    /\ ~marking /\ stores < MaxStores /\ o # None
    /\ vram' = (vram \ Touched(o)) \cup Stored(o, b, n)
    /\ stores' = stores + 1
    /\ last' = IF Straight /\ Source(o) % 4 \in r.mask THEN [addr |-> a, bit |-> b] ELSE None
    /\ UNCHANGED <<worker, r, pal, addr, marking, late, dirty1, dirty2, fresh1, fresh2, dead, dacHist>>

-----------------------------------------------------------------------------
\* The display interface of Bochs.

\* 1ce
VbeIndexWrite(v) == Plain([r EXCEPT !.vbeIndex = v])

BytesOf(w) == IF r.vbe["bpp"] = 4 THEN w \div 2 ELSE w * ((r.vbe["bpp"] + 7) \div 8)

SetVbe(i, v) == [r EXCEPT !.vbe[i] = v]
SetVbeIf(ok, i, v) == IF ok THEN SetVbe(i, v) ELSE r

Bank(v) == v % (IF r.vbe["bpp"] = 4 THEN 16 ELSE 64)

\* Slip: the height left by an earlier width is kept.
EnabledKeepsHeight(line) ==
    [r EXCEPT !.vbe = [@ EXCEPT !["virt_width"] = r.vbe["xres"], !["x"] = 0, !["y"] = 0],
              !.on = TRUE, !.line = line, !.start = 0, !.lfb = addr]

\* What enabling does to the registers of the VBE itself, the address of the
\* frame buffer among them.
Enabled(line) ==
    [r EXCEPT !.vbe = [@ EXCEPT !["virt_width"] = r.vbe["xres"], !["x"] = 0, !["y"] = 0,
                                !["virt_height"] = r.vbe["yres"]],
              !.on = TRUE, !.line = line, !.start = 0, !.lfb = addr]

\* It also sets up a graphics mode.
SetMode(x) ==
    [x EXCEPT !.map = 1,
              !.cr = [@ EXCEPT ![1] = (r.vbe["xres"] \div 8 - 1) % 4, ![7] = 2 + (x.cr[7] % 2)],
              !.mask = IF r.vbe["bpp"] = 4 THEN @ ELSE Planes,
              !.chain = @ \/ r.vbe["bpp"] # 4]

\* 1cf with the index of "enable"; bit 7 keeps the screen from being cleared.
EnableWrite(v) ==
    LET line == BytesOf(r.vbe["xres"])
        enabling == BitOf(v, 0) /\ ~r.on
    IN /\ r.vbeIndex = "enable"
       /\ Change(IF enabling THEN SetMode(Enabled(line))
                 ELSE [r EXCEPT !.on = BitOf(v, 0), !.bank = 0])
       /\ vram' = IF enabling /\ ~BitOf(v, 7)
                  THEN {c \in vram : c >= r.vbe["yres"] * line} ELSE vram
       /\ last' = None
       /\ UNCHANGED <<stores, addr, dead, dacHist>>

\* The height left for a virtual screen of width w is a 16-bit register.
AfterVirtWidth(w) ==
    LET line == BytesOf(w)
        h == VramSize \div line
    IN IF w < r.vbe["xres"] \/ h < r.vbe["yres"] THEN r
       ELSE [r EXCEPT !.vbe = [@ EXCEPT !["virt_width"] = w, !["virt_height"] = h % Word16],
                      !.line = line]

\* A line of no bytes divides by zero.
Divides(v) == r.vbeIndex = "virt_width" /\ v >= r.vbe["xres"] /\ BytesOf(v) = 0

WithStart(x) ==
    [x EXCEPT !.start = (x.line * x.vbe["y"] + BytesOf(x.vbe["x"])) \div 4]

\* 1cf
VbeDataWrite(v) ==
    /\ r.vbeIndex # "enable" /\ ~Divides(v)
    /\ Steer(CASE r.vbeIndex = "xres" -> SetVbeIf(v <= 1024 /\ v % 8 = 0, "xres", v)
               [] r.vbeIndex = "yres" -> SetVbeIf(v <= 768, "yres", v)
               [] r.vbeIndex = "bpp" ->
                    LET d == IF v = 0 THEN 8 ELSE v
                    IN SetVbeIf(d \in {4, 8, 15, 16, 24, 32}, "bpp", d)
               [] r.vbeIndex = "bank" -> [SetVbe("bank", Bank(v)) EXCEPT !.bank = Bank(v)]
               [] r.vbeIndex = "virt_width" -> AfterVirtWidth(v)
               [] r.vbeIndex \in {"x", "y"} -> WithStart(SetVbe(r.vbeIndex, v))
               [] OTHER -> r)

VbeDivides(v) ==
    /\ marking /\ Divides(v)
    /\ dead' = TRUE
    /\ UNCHANGED <<worker, r, pal, memVars, addr, marking, late, dirty1, dirty2, fresh1, fresh2, dacHist>>

\* demu_set_vram_addr has moved the frame buffer, and tells the VGA, which may
\* know the address: a resume restores demu's without telling.
UpdateLfbAddr(v) ==
    /\ v # addr /\ addr' = v
    /\ \/ v # r.lfb /\ Change([r EXCEPT !.lfb = v])
       \/ /\ v = r.lfb /\ ~marking
          /\ UNCHANGED <<worker, r, pal, marking, late, dirty1, dirty2, fresh1, fresh2>>
    /\ UNCHANGED <<memVars, dead, dacHist>>

-----------------------------------------------------------------------------
\* dump_vga, in the migration's worker.

accesses == <<program, r, pal, memVars, addr, marking, late, dead, dacHist>>

\* Part 1 is copied, if it is marked.
Copy1 ==
    /\ dpc = "idle"
    /\ IF dirty1 THEN dpc' = "write1" /\ fresh1' = TRUE
       ELSE dpc' = "part2" /\ UNCHANGED fresh1
    /\ UNCHANGED <<accesses, dirty1, dirty2, fresh2, raced1, raced2, failed>>

\* write_record has returned; the flag is cleared whatever it returned.
Written1 ==
    /\ dpc = "write1"
    /\ dirty1' = FALSE /\ raced1' = ((~fresh1 /\ late # 1) \/ marking)
    /\ \E ok \in BOOLEAN : dpc' = (IF ok THEN "part2" ELSE "idle") /\ failed' = (failed \/ ~ok)
    /\ UNCHANGED <<accesses, dirty2, fresh1, fresh2, raced2>>

Copy2 ==
    /\ dpc = "part2"
    /\ IF dirty2 THEN dpc' = "write2" /\ fresh2' = TRUE
       ELSE dpc' = "idle" /\ UNCHANGED fresh2
    /\ UNCHANGED <<accesses, dirty1, dirty2, fresh1, raced1, raced2, failed>>

Written2 ==
    /\ dpc = "write2" /\ dpc' = "idle"
    /\ dirty2' = FALSE /\ raced2' = (~fresh2 /\ late # 2)
    /\ \E ok \in BOOLEAN : failed' = (failed \/ ~ok)
    /\ UNCHANGED <<accesses, dirty1, fresh1, fresh2, raced1>>

\* A part cannot be allocated.
NoMemory ==
    /\ dpc \in {"write1", "write2"} /\ dpc' = "idle" /\ failed' = TRUE
    /\ UNCHANGED <<accesses, dirty1, dirty2, fresh1, fresh2, raced1, raced2>>

\* vga_markdirty, when a migration is initialised.
MarkDirty ==
    /\ dpc = "idle" /\ dirty1' = TRUE /\ dirty2' = TRUE /\ failed' = FALSE
    /\ UNCHANGED <<accesses, dpc, fresh1, fresh2, raced1, raced2>>

Dump == Copy1 \/ Written1 \/ Copy2 \/ Written2 \/ NoMemory \/ MarkDirty

\* An access of the guest, or a frame buffer moved by the plugin.
Access(p, v) ==
    \/ p = "3c0" /\ AttrWrite(v)
    \/ p = "3c2" /\ MiscWrite(v)
    \/ p = "3d4" /\ CrIndexWrite(TRUE, v)
    \/ p = "3b4" /\ CrIndexWrite(FALSE, v)
    \/ p = "3d5" /\ CrWrite(TRUE, v)
    \/ p = "3b5" /\ CrWrite(FALSE, v)
    \/ p = "3da" /\ StatusRead(TRUE)
    \/ p = "3ba" /\ StatusRead(FALSE)
    \/ p = "3c7" /\ ReadIndexWrite(v)
    \/ p = "3c8" /\ WriteIndexWrite(v)
    \/ p = "3c9 read" /\ DataRead
    \/ p = "3c9" /\ DataWrite(v)
    \/ p = "3c4" /\ SrIndexWrite(v)
    \/ p = "3c5" /\ SrWrite(v)
    \/ p = "3ce" /\ GrIndexWrite(v)
    \/ p = "3cf" /\ GrWrite(v)
    \/ p = "load" /\ Load(v)
    \/ p = "store" /\ Store(v[1], v[2], v[3])
    \/ p = "1ce" /\ VbeIndexWrite(v)
    \/ p = "1cf" /\ (EnableWrite(v) \/ VbeDataWrite(v) \/ VbeDivides(v))
    \/ p = "lfb" /\ UpdateLfbAddr(v)

Next ==
    /\ ~dead
    /\ \/ late = 0 /\ (Mark \/ \E a \in program : Access(a[1], a[2]))
       \/ MarkLate
       \/ Dump

Spec == Init /\ [][Next]_vars

-----------------------------------------------------------------------------
\* A part that is not marked dirty, nor about to be, is as the last record
\* written says, but for what reading a status register changes, and unless it
\* was marked while that record was being written (device.c:201-255).  A part
\* marked only after its change is safe even when the record is written
\* between the two (device.c:653-657, 758-760).
SavedIsCurrent ==
    ~failed =>
        /\ dpc # "write1" /\ ~dirty1 /\ late # 1 => fresh1 \/ raced1
        /\ dpc # "write2" /\ ~dirty2 /\ late # 2 => fresh2 \/ raced2

\* A colour changes only to the three values the guest last wrote since it set
\* an index, unless it also read colours since: the two share the position in
\* the colour (device.c:531-539, 640-659).
ColoursAreWhole ==
    [][\A e \in DOMAIN pal : pal'[e] # pal[e] /\ kind' # "mixed" => pal'[e] = run']_vars

\* What was stored with no mask in the way is what a load finds there, in each
\* of the three ways to address the planes (device.c:749-781, 827-939).
ReadBack == last # None => (last.bit <=> Source(Offset(last.addr)) \in vram)

\* The virtual screen fits in video memory, whatever order its size, depth and
\* state were set in (device.c:1094-1105, 1149-1165).
VirtualFits == r.line * r.vbe["virt_height"] <= VramSize
=============================================================================
