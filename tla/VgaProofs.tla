----------------------------- MODULE VgaProofs -----------------------------
(***************************************************************************)
(* Proofs about Vga: for any guests whose accesses are of the kinds of     *)
(* Values, and any number of stores, what is not marked dirty was saved,   *)
(* colours change as a whole, video memory reads back what was stored, and *)
(* the virtual screen fits.                                                *)
(*                                                                         *)
(* There are many ports and few things that a property depends on, so most *)
(* lemmas say what an access leaves alone: the position in the colour      *)
(* (SameDac), how video memory is addressed (SameMem), and the VBE's       *)
(* registers (SameVbe).  What the properties need besides themselves is:   *)
(* an access between its two steps has marked part 1, or part 1 was        *)
(* written under it (MarkInv); the cache of the DAC holds the values       *)
(* written so far, at the position that is next (DacInv); and the screen   *)
(* is no larger than the VBE allows (VbeInv), from which it follows that   *)
(* enabling it makes a virtual screen that fits.                           *)
(***************************************************************************)
EXTENDS Vga, TLAPS, SequenceTheorems

\* What an access may leave alone: where in a colour the guest is, how video
\* memory is addressed, and the registers of the VBE.
SameDac(x) == x.sub = r.sub /\ x.cache = r.cache
SameMem(x) ==
    /\ x.chain = r.chain /\ x.oddEven = r.oddEven /\ x.plane = r.plane
    /\ x.map = r.map /\ x.bank = r.bank
SameVbe(x) == x.vbe = r.vbe /\ x.line = r.line

VbeInv ==
    /\ r.vbe["xres"] <= 1024 /\ r.vbe["yres"] <= 768
    /\ r.vbe["bpp"] \in {0, 4, 8, 15, 16, 24, 32}

-----------------------------------------------------------------------------
(* Registers.                                                              *)

Fields == {"sub", "cache", "chain", "oddEven", "plane", "map", "bank", "vbe", "line"}

LEMMA FieldsAre == \A x \in Registers : Fields \subseteq DOMAIN x
BY DEF Fields, Registers

\* A register that is given a value of its own leaves registers.
LEMMA FieldIs ==
    ASSUME NEW x \in Registers
    PROVE  /\ \A v \in BOOLEAN : [x EXCEPT !.color = v] \in Registers
           /\ \A v \in Bit : [x EXCEPT !.flip = v] \in Registers
           /\ \A v \in BOOLEAN : [x EXCEPT !.st01 = v] \in Registers
           /\ \A v \in 0 .. 2 : [x EXCEPT !.arIndex = v] \in Registers
           /\ \A v \in [Bit -> Bit] : [x EXCEPT !.ar = v] \in Registers
           /\ \A v \in Nat : [x EXCEPT !.crIndex = v] \in Registers
           /\ \A v \in [{1, 7, 17} -> 0 .. 3] : [x EXCEPT !.cr = v] \in Registers
           /\ \A v \in 0 .. 2 : [x EXCEPT !.sub = v] \in Registers
           /\ \A v \in 0 .. Entries - 1 : [x EXCEPT !.rdIndex = v] \in Registers
           /\ \A v \in 0 .. Entries - 1 : [x EXCEPT !.wrIndex = v] \in Registers
           /\ \A v \in Colours : [x EXCEPT !.cache = v] \in Registers
           /\ \A v \in 0 .. 7 : [x EXCEPT !.srIndex = v] \in Registers
           /\ \A v \in SUBSET Planes : [x EXCEPT !.mask = v] \in Registers
           /\ \A v \in BOOLEAN : [x EXCEPT !.chain = v] \in Registers
           /\ \A v \in 0 .. 15 : [x EXCEPT !.grIndex = v] \in Registers
           /\ \A v \in SUBSET Planes : [x EXCEPT !.set = v] \in Registers
           /\ \A v \in SUBSET Planes : [x EXCEPT !.setOn = v] \in Registers
           /\ \A v \in 0 .. 3 : [x EXCEPT !.func = v] \in Registers
           /\ \A v \in 0 .. 3 : [x EXCEPT !.plane = v] \in Registers
           /\ \A v \in 0 .. 3 : [x EXCEPT !.wmode = v] \in Registers
           /\ \A v \in BOOLEAN : [x EXCEPT !.oddEven = v] \in Registers
           /\ \A v \in 0 .. 3 : [x EXCEPT !.map = v] \in Registers
           /\ \A v \in BOOLEAN : [x EXCEPT !.bitMask = v] \in Registers
           /\ \A v \in SUBSET Planes : [x EXCEPT !.latch = v] \in Registers
           /\ \A v \in 0 .. 63 : [x EXCEPT !.bank = v] \in Registers
           /\ \A v \in Nat : [x EXCEPT !.lfb = v] \in Registers
           /\ \A v \in VbeIndices : [x EXCEPT !.vbeIndex = v] \in Registers
           /\ \A v \in [VbeRegs -> 0 .. Word16 - 1] : [x EXCEPT !.vbe = v] \in Registers
           /\ \A v \in BOOLEAN : [x EXCEPT !.on = v] \in Registers
           /\ \A v \in Nat : [x EXCEPT !.start = v] \in Registers
           /\ \A v \in Nat : [x EXCEPT !.line = v] \in Registers
<1>1. \A v \in BOOLEAN : [x EXCEPT !.color = v] \in Registers
  BY DEF Registers
<1>2. \A v \in Bit : [x EXCEPT !.flip = v] \in Registers
  BY DEF Registers
<1>3. \A v \in 0 .. 2 : [x EXCEPT !.arIndex = v] \in Registers
  BY DEF Registers
<1>4. \A v \in [Bit -> Bit] : [x EXCEPT !.ar = v] \in Registers
  BY DEF Registers
<1>5. \A v \in Nat : [x EXCEPT !.crIndex = v] \in Registers
  BY DEF Registers
<1>6. \A v \in [{1, 7, 17} -> 0 .. 3] : [x EXCEPT !.cr = v] \in Registers
  BY DEF Registers
<1>7. \A v \in 0 .. 2 : [x EXCEPT !.sub = v] \in Registers
  BY DEF Registers
<1>8. \A v \in 0 .. Entries - 1 : [x EXCEPT !.rdIndex = v] \in Registers
  BY DEF Registers
<1>9. \A v \in 0 .. Entries - 1 : [x EXCEPT !.wrIndex = v] \in Registers
  BY DEF Registers
<1>10. \A v \in Colours : [x EXCEPT !.cache = v] \in Registers
  BY DEF Registers
<1>11. \A v \in 0 .. 7 : [x EXCEPT !.srIndex = v] \in Registers
  BY DEF Registers
<1>12. \A v \in SUBSET Planes : [x EXCEPT !.mask = v] \in Registers
  BY DEF Registers
<1>13. \A v \in BOOLEAN : [x EXCEPT !.chain = v] \in Registers
  BY DEF Registers
<1>14. \A v \in 0 .. 15 : [x EXCEPT !.grIndex = v] \in Registers
  BY DEF Registers
<1>15. \A v \in SUBSET Planes : [x EXCEPT !.set = v] \in Registers
  BY DEF Registers
<1>16. \A v \in SUBSET Planes : [x EXCEPT !.setOn = v] \in Registers
  BY DEF Registers
<1>17. \A v \in 0 .. 3 : [x EXCEPT !.func = v] \in Registers
  BY DEF Registers
<1>18. \A v \in 0 .. 3 : [x EXCEPT !.plane = v] \in Registers
  BY DEF Registers
<1>19. \A v \in 0 .. 3 : [x EXCEPT !.wmode = v] \in Registers
  BY DEF Registers
<1>20. \A v \in BOOLEAN : [x EXCEPT !.oddEven = v] \in Registers
  BY DEF Registers
<1>21. \A v \in 0 .. 3 : [x EXCEPT !.map = v] \in Registers
  BY DEF Registers
<1>22. \A v \in BOOLEAN : [x EXCEPT !.bitMask = v] \in Registers
  BY DEF Registers
<1>23. \A v \in SUBSET Planes : [x EXCEPT !.latch = v] \in Registers
  BY DEF Registers
<1>24. \A v \in 0 .. 63 : [x EXCEPT !.bank = v] \in Registers
  BY DEF Registers
<1>25. \A v \in Nat : [x EXCEPT !.lfb = v] \in Registers
  BY DEF Registers
<1>26. \A v \in VbeIndices : [x EXCEPT !.vbeIndex = v] \in Registers
  BY DEF Registers
<1>27. \A v \in [VbeRegs -> 0 .. Word16 - 1] : [x EXCEPT !.vbe = v] \in Registers
  BY DEF Registers
<1>28. \A v \in BOOLEAN : [x EXCEPT !.on = v] \in Registers
  BY DEF Registers
<1>29. \A v \in Nat : [x EXCEPT !.start = v] \in Registers
  BY DEF Registers
<1>30. \A v \in Nat : [x EXCEPT !.line = v] \in Registers
  BY DEF Registers
<1>31. \A v \in BOOLEAN : [x EXCEPT !.st01 = v] \in Registers
  BY DEF Registers
<1> QED
  BY <1>31, <1>1, <1>2, <1>3, <1>4, <1>5, <1>6, <1>7, <1>8, <1>9, <1>10, <1>11, <1>12, <1>13,
     <1>14, <1>15, <1>16, <1>17, <1>18, <1>19, <1>20, <1>21, <1>22, <1>23, <1>24, <1>25,
     <1>26, <1>27, <1>28, <1>29, <1>30, Zenon

\* Those that are set to what is computed.
LEMMA CrSet == \A x \in Registers : \A v \in [{1, 7, 17} -> 0 .. 3] : [x EXCEPT !.cr = v] \in Registers
BY DEF Registers
LEMMA ChainSet == \A x \in Registers : \A v \in BOOLEAN : [x EXCEPT !.chain = v] \in Registers
BY DEF Registers
LEMMA BankSet == \A x \in Registers : \A v \in 0 .. 63 : [x EXCEPT !.bank = v] \in Registers
BY DEF Registers
LEMMA VbeSet ==
    \A x \in Registers : \A v \in [VbeRegs -> 0 .. Word16 - 1] : [x EXCEPT !.vbe = v] \in Registers
BY DEF Registers
LEMMA LineSet == \A x \in Registers : \A v \in Nat : [x EXCEPT !.line = v] \in Registers
BY DEF Registers

LEMMA RegistersAre ==
    ASSUME r \in Registers
    PROVE  /\ r.color \in BOOLEAN /\ r.st01 \in BOOLEAN /\ r.flip \in Bit /\ r.arIndex \in 0 .. 2 /\ r.ar \in [Bit -> Bit]
           /\ r.crIndex \in Nat /\ r.cr \in [{1, 7, 17} -> 0 .. 3]
           /\ r.sub \in 0 .. 2 /\ r.rdIndex \in 0 .. 1 /\ r.wrIndex \in 0 .. 1 /\ r.cache \in Colours
           /\ r.mask \in SUBSET Planes /\ r.chain \in BOOLEAN /\ r.oddEven \in BOOLEAN
           /\ r.plane \in 0 .. 3 /\ r.map \in 0 .. 3 /\ r.bank \in 0 .. 63
           /\ r.on \in BOOLEAN /\ r.line \in Nat /\ r.start \in Nat
BY DEF Registers, Entries

LEMMA WordIs ==
    /\ Word16 \in Nat \ {0} /\ 0 \in 0 .. Word16 - 1
    /\ \A x \in 0 .. Word16 - 1 : x \in Nat
    /\ \A x \in 0 .. 63 : x \in 0 .. Word16 - 1
<1>1. Word16 \in Nat /\ Word16 > 63
  BY DEF Word16
<1> QED
  BY ONLY <1>1

LEMMA VbeIs ==
    ASSUME r \in Registers
    PROVE  /\ r.vbe \in [VbeRegs -> 0 .. Word16 - 1] /\ r.vbeIndex \in VbeIndices
           /\ \A i \in VbeRegs : r.vbe[i] \in Nat
<1>1. r.vbe \in [VbeRegs -> 0 .. Word16 - 1] /\ r.vbeIndex \in VbeIndices
  BY DEF Registers
<1>2. ASSUME NEW i \in VbeRegs PROVE r.vbe[i] \in Nat
  <2>1. r.vbe[i] \in 0 .. Word16 - 1
    BY ONLY <1>1
  <2> QED
    BY ONLY <2>1, WordIs
<1> QED
  BY <1>1, <1>2

-----------------------------------------------------------------------------
(* The accesses.                                                           *)

LEMMA AttrWriteIs ==
    ASSUME r \in Registers, NEW v \in 0 .. 2, AttrWrite(v)
    PROVE  r' \in Registers /\ SameDac(r') /\ SameMem(r') /\ SameVbe(r')
<1> DEFINE A == IF r.flip = 0 THEN v ELSE r.arIndex
           B == IF r.flip = 1 /\ r.arIndex \in DOMAIN r.ar THEN [r.ar EXCEPT ![r.arIndex] = v % 2]
                ELSE r.ar
<1>1. r' = [r EXCEPT !.flip = 1 - @, !.arIndex = A, !.ar = B]
  BY DEF AttrWrite, Plain, Change, SetPart1
<1>2. 1 - r.flip \in Bit /\ A \in 0 .. 2
  BY RegistersAre DEF Bit
<1>3. B \in [Bit -> Bit]
  <2>1. v % 2 \in Bit
    BY DEF Bit
  <2> QED
    BY <2>1, RegistersAre
<1> HIDE DEF A, B
<1>4. PICK x \in Registers : x = [r EXCEPT !.flip = 1 - r.flip]
  BY <1>2, FieldIs
<1>5. PICK y \in Registers : y = [x EXCEPT !.arIndex = A]
  BY <1>2, FieldIs
<1>6. r' = [y EXCEPT !.ar = B]
  BY <1>1, <1>4, <1>5
<1>7. r' \in Registers
  BY <1>3, <1>6, FieldIs
<1> QED
  BY <1>1, <1>7, FieldsAre DEF SameDac, SameMem, SameVbe, Fields

LEMMA CrWriteIs ==
    ASSUME r \in Registers, NEW v \in 0 .. 3, NEW color, CrWrite(color, v)
    PROVE  r' \in Registers /\ SameDac(r') /\ SameMem(r') /\ SameVbe(r')
<1>1. \E c : r' = [r EXCEPT !.cr = c] /\ c \in [{1, 7, 17} -> 0 .. 3]
  <2>1. r.cr \in [{1, 7, 17} -> 0 .. 3]
    BY RegistersAre
  <2>2. r' = (IF r.crIndex \notin DOMAIN r.cr \/ (CrLocked /\ r.crIndex # 7) THEN r
              ELSE IF CrLocked THEN [r EXCEPT !.cr[7] = (@ % 2) + 2 * (v \div 2)]
              ELSE [r EXCEPT !.cr[r.crIndex] = v])
    BY DEF CrWrite, Plain, Change, SetPart1
  <2>3. CASE r.crIndex \notin DOMAIN r.cr \/ (CrLocked /\ r.crIndex # 7)
    <3>1. r = [r EXCEPT !.cr = r.cr]
      BY DEF Registers
    <3> QED
      BY <2>1, <2>2, <2>3, <3>1
  <2>4. CASE r.crIndex \in DOMAIN r.cr /\ CrLocked /\ r.crIndex = 7
    <3> DEFINE w == (r.cr[7] % 2) + 2 * (v \div 2)
    <3>1. w \in 0 .. 3
      BY <2>1
    <3> HIDE DEF w
    <3>2. r' = [r EXCEPT !.cr = [r.cr EXCEPT ![7] = w]]
      BY <2>2, <2>4 DEF w
    <3>3. [r.cr EXCEPT ![7] = w] \in [{1, 7, 17} -> 0 .. 3]
      BY ONLY <2>1, <3>1
    <3> QED
      BY <3>2, <3>3, Zenon
  <2>5. CASE r.crIndex \in DOMAIN r.cr /\ ~CrLocked
    <3>1. r' = [r EXCEPT !.cr = [r.cr EXCEPT ![r.crIndex] = v]]
      BY <2>2, <2>5
    <3>2. [r.cr EXCEPT ![r.crIndex] = v] \in [{1, 7, 17} -> 0 .. 3]
      BY <2>1
    <3> QED
      BY <3>1, <3>2, Zenon
  <2> QED
    BY <2>3, <2>4, <2>5
<1>2. r' \in Registers
  BY <1>1, CrSet
<1> QED
  BY <1>1, <1>2, FieldsAre DEF SameDac, SameMem, SameVbe, Fields

LEMMA MiscWriteIs ==
    ASSUME r \in Registers, NEW v \in BOOLEAN, MiscWrite(v)
    PROVE  r' \in Registers /\ SameDac(r') /\ SameMem(r') /\ SameVbe(r')
<1>1. r' = [r EXCEPT !.color = v]
  BY DEF MiscWrite, Plain, Change, SetPart1
<1>3. r' \in Registers
  BY <1>1, FieldIs
<1> QED
  BY <1>1, <1>3, FieldsAre DEF SameDac, SameMem, SameVbe, Fields

LEMMA CrIndexWriteIs ==
    ASSUME r \in Registers, NEW v \in Nat, NEW color, CrIndexWrite(color, v)
    PROVE  r' \in Registers /\ SameDac(r') /\ SameMem(r') /\ SameVbe(r')
<1>1. r' = [r EXCEPT !.crIndex = v]
  BY DEF CrIndexWrite, Plain, Change, SetPart1
<1>3. r' \in Registers
  BY <1>1, FieldIs
<1> QED
  BY <1>1, <1>3, FieldsAre DEF SameDac, SameMem, SameVbe, Fields

LEMMA SrIndexWriteIs ==
    ASSUME r \in Registers, NEW v \in Nat, SrIndexWrite(v)
    PROVE  r' \in Registers /\ SameDac(r') /\ SameMem(r') /\ SameVbe(r')
<1>1. r' = [r EXCEPT !.srIndex = v % 8]
  BY DEF SrIndexWrite, Plain, Change, SetPart1
<1>2. v % 8 \in 0 .. 7
  OBVIOUS
<1>3. r' \in Registers
  BY <1>1, <1>2, FieldIs
<1> QED
  BY <1>1, <1>3, FieldsAre DEF SameDac, SameMem, SameVbe, Fields

LEMMA GrIndexWriteIs ==
    ASSUME r \in Registers, NEW v \in Nat, GrIndexWrite(v)
    PROVE  r' \in Registers /\ SameDac(r') /\ SameMem(r') /\ SameVbe(r')
<1>1. r' = [r EXCEPT !.grIndex = v % 16]
  BY DEF GrIndexWrite, Plain, Change, SetPart1
<1>2. v % 16 \in 0 .. 15
  OBVIOUS
<1>3. r' \in Registers
  BY <1>1, <1>2, FieldIs
<1> QED
  BY <1>1, <1>3, FieldsAre DEF SameDac, SameMem, SameVbe, Fields

LEMMA VbeIndexWriteIs ==
    ASSUME r \in Registers, NEW v \in VbeIndices, VbeIndexWrite(v)
    PROVE  r' \in Registers /\ SameDac(r') /\ SameMem(r') /\ SameVbe(r')
<1>1. r' = [r EXCEPT !.vbeIndex = v]
  BY DEF VbeIndexWrite, Plain, Change, SetPart1
<1>3. r' \in Registers
  BY <1>1, FieldIs
<1> QED
  BY <1>1, <1>3, FieldsAre DEF SameDac, SameMem, SameVbe, Fields

LEMMA UpdateLfbAddrIs ==
    ASSUME r \in Registers, NEW v \in Nat, UpdateLfbAddr(v)
    PROVE  r' \in Registers /\ SameDac(r') /\ SameMem(r') /\ SameVbe(r')
<1>1. r' = [r EXCEPT !.lfb = v] \/ r' = r
  BY DEF UpdateLfbAddr, Change, SetPart1
<1>3. r' \in Registers
  BY <1>1, FieldIs
<1> QED
  BY <1>1, <1>3, FieldsAre DEF SameDac, SameMem, SameVbe, Fields

LEMMA StatusReadIs ==
    ASSUME r \in Registers, NEW color, StatusRead(color)
    PROVE  r' \in Registers /\ SameDac(r') /\ SameMem(r') /\ SameVbe(r')
<1>1. r' = [r EXCEPT !.flip = 0, !.st01 = ~r.st01] /\ 0 \in Bit
  BY DEF StatusRead, SetPart1, Bit
<1>2. PICK x \in Registers : x = [r EXCEPT !.flip = 0]
  BY <1>1, FieldIs
<1>3. r' = [x EXCEPT !.st01 = ~r.st01] /\ (~r.st01) \in BOOLEAN
  BY <1>1, <1>2
<1>4. r' \in Registers
  BY <1>3, FieldIs
<1> QED
  BY <1>1, <1>4, FieldsAre DEF SameDac, SameMem, SameVbe, Fields

LEMMA LoadIs ==
    ASSUME r \in Registers, NEW a, Load(a)
    PROVE  r' \in Registers /\ SameDac(r') /\ SameMem(r') /\ SameVbe(r')
<1> DEFINE L == {p \in Planes : 4 * Offset(a) + p \in vram}
<1>1. r' = [r EXCEPT !.latch = L] /\ L \in SUBSET Planes
  BY DEF Load, SetPart1
<1> HIDE DEF L
<1>2. r' \in Registers
  BY <1>1, FieldIs
<1> QED
  BY <1>1, <1>2, FieldsAre DEF SameDac, SameMem, SameVbe, Fields

LEMMA SrWriteIs ==
    ASSUME r \in Registers, NEW v \in Nat, SrWrite(v)
    PROVE  r' \in Registers /\ SameDac(r') /\ SameVbe(r')
<1>1. r' = (CASE r.srIndex = 2 -> [r EXCEPT !.mask = PlanesOf(v)]
            [] r.srIndex = 4 -> [r EXCEPT !.chain = BitOf(v, 3)]
            [] OTHER         -> r)
  BY DEF SrWrite, Steer, Change, SetPart1
<1>2. PlanesOf(v) \in SUBSET Planes /\ BitOf(v, 3) \in BOOLEAN
  BY DEF PlanesOf, BitOf
<1>3. r' \in Registers
  BY <1>1, <1>2, FieldIs
<1> QED
  BY <1>1, <1>3, FieldsAre DEF SameDac, SameVbe, Fields

LEMMA GrWriteIs ==
    ASSUME r \in Registers, NEW v \in Nat, GrWrite(v)
    PROVE  r' \in Registers /\ SameDac(r') /\ SameVbe(r')
<1> DEFINE M == (v \div 8) % 4
           W == v % 4
           P == (v \div 4) % 4
<1>1. r' = (CASE r.grIndex = 0 -> [r EXCEPT !.set = PlanesOf(v)]
            [] r.grIndex = 1 -> [r EXCEPT !.setOn = PlanesOf(v)]
            [] r.grIndex = 3 -> [r EXCEPT !.func = M]
            [] r.grIndex = 4 -> [r EXCEPT !.plane = W]
            [] r.grIndex = 5 -> [r EXCEPT !.wmode = W, !.oddEven = BitOf(v, 4)]
            [] r.grIndex = 6 -> [r EXCEPT !.map = P]
            [] r.grIndex = 8 -> [r EXCEPT !.bitMask = BitOf(v, 0)]
            [] OTHER         -> r)
  BY DEF GrWrite, Steer, Change, SetPart1
<1>2. /\ PlanesOf(v) \in SUBSET Planes /\ BitOf(v, 4) \in BOOLEAN /\ BitOf(v, 0) \in BOOLEAN
      /\ M \in 0 .. 3 /\ W \in 0 .. 3 /\ P \in 0 .. 3
  BY DEF PlanesOf, BitOf
<1> HIDE DEF M, W, P
<1>3. PICK x \in Registers : x = [r EXCEPT !.wmode = W]
  BY <1>2, FieldIs
<1>4. PICK y \in Registers : y = [x EXCEPT !.oddEven = BitOf(v, 4)]
  BY <1>2, FieldIs
<1>5. y = [r EXCEPT !.wmode = W, !.oddEven = BitOf(v, 4)]
  BY <1>3, <1>4
<1>6. r' \in Registers
  BY <1>1, <1>2, <1>5, FieldIs
<1> QED
  BY <1>1, <1>6, FieldsAre DEF SameDac, SameVbe, Fields

-----------------------------------------------------------------------------
(* The colours.                                                            *)

\* What the guest last wrote is in the cache, from the first value on.
DacInv ==
    /\ kind = "none" => run = <<>> /\ r.sub = 0
    /\ kind = "write" =>
           /\ run # <<>> /\ r.sub = Len(run) % 3
           /\ \A i \in DOMAIN run : r.cache[i] = run[i]

LEMMA ReadIndexIs ==
    ASSUME r \in Registers, NEW v \in 0 .. 1, ReadIndexWrite(v)
    PROVE  r' \in Registers /\ r'.sub = 0 /\ SameMem(r') /\ SameVbe(r')
<1>1. r' = [r EXCEPT !.rdIndex = v, !.sub = 0]
  BY DEF ReadIndexWrite, Change, SetPart1
<1>0. v \in 0 .. Entries - 1
  BY DEF Entries
<1>2. PICK x \in Registers : x = [r EXCEPT !.rdIndex = v]
  BY <1>0, FieldIs
<1>3. r' = [x EXCEPT !.sub = 0] /\ 0 \in 0 .. 2
  BY <1>1, <1>2
<1>4. r' \in Registers
  BY <1>3, FieldIs
<1> QED
  BY <1>1, <1>4, FieldsAre DEF SameMem, SameVbe, Fields

LEMMA WriteIndexIs ==
    ASSUME r \in Registers, NEW v \in 0 .. 1, WriteIndexWrite(v)
    PROVE  r' \in Registers /\ r'.sub = 0 /\ SameMem(r') /\ SameVbe(r')
<1>1. r' = [r EXCEPT !.wrIndex = v, !.sub = 0]
  BY DEF WriteIndexWrite, Change, SetPart1
<1>0. v \in 0 .. Entries - 1
  BY DEF Entries
<1>2. PICK x \in Registers : x = [r EXCEPT !.wrIndex = v]
  BY <1>0, FieldIs
<1>3. r' = [x EXCEPT !.sub = 0] /\ 0 \in 0 .. 2
  BY <1>1, <1>2
<1>4. r' \in Registers
  BY <1>3, FieldIs
<1> QED
  BY <1>1, <1>4, FieldsAre DEF SameMem, SameVbe, Fields

LEMMA StepIs ==
    ASSUME r \in Registers
    PROVE  /\ NextSub \in 0 .. 2 /\ NextSub = (r.sub + 1) % 3
           /\ \A i \in 0 .. 1 : Step(i, Third) \in 0 .. Entries - 1
<1>1. r.sub \in 0 .. 2 /\ Third \in 0 .. 1
  BY RegistersAre DEF Third
<1> QED
  BY <1>1 DEF NextSub, Step, Entries

LEMMA DataReadIs ==
    ASSUME r \in Registers, DataRead
    PROVE  r' \in Registers /\ SameMem(r') /\ SameVbe(r')
<1>1. r' = [r EXCEPT !.sub = NextSub, !.rdIndex = Step(r.rdIndex, Third)]
  BY DEF DataRead, Change, SetPart1
<1>2. PICK x \in Registers : x = [r EXCEPT !.sub = NextSub]
  BY FieldIs, StepIs
<1>3. r' = [x EXCEPT !.rdIndex = Step(r.rdIndex, Third)] /\ Step(r.rdIndex, Third) \in 0 .. Entries - 1
  BY <1>1, <1>2, StepIs, RegistersAre
<1>4. r' \in Registers
  BY <1>3, FieldIs
<1> QED
  BY <1>1, <1>4, FieldsAre DEF SameMem, SameVbe, Fields

LEMMA DataWriteIs ==
    ASSUME r \in Registers, NEW v \in Bit, DataWrite(v)
    PROVE  /\ r' \in Registers /\ SameMem(r') /\ SameVbe(r')
           /\ r'.sub = (r.sub + 1) % 3
           /\ r'.cache = [r.cache EXCEPT ![r.sub + 1] = v] /\ r'.cache \in Colours
<1> DEFINE cache == [r.cache EXCEPT ![r.sub + 1] = v]
<1>1. r' = [r EXCEPT !.cache = cache, !.sub = NextSub, !.wrIndex = Step(r.wrIndex, Third)]
  BY DEF DataWrite, SetPart1
<1>2. cache \in Colours
  BY RegistersAre DEF Colours
<1> HIDE DEF cache
<1>3. PICK x \in Registers : x = [r EXCEPT !.cache = cache]
  BY <1>2, FieldIs
<1>4. PICK y \in Registers : y = [x EXCEPT !.sub = NextSub]
  BY FieldIs, StepIs
<1>5. r' = [y EXCEPT !.wrIndex = Step(r.wrIndex, Third)] /\ Step(r.wrIndex, Third) \in 0 .. Entries - 1
  BY <1>1, <1>3, <1>4, StepIs, RegistersAre
<1>6. r' \in Registers
  BY <1>5, FieldIs
<1>7. r'.cache = cache /\ r'.sub = NextSub
  BY <1>1, FieldsAre DEF Fields
<1> QED
  BY <1>1, <1>2, <1>6, <1>7, FieldsAre DEF SameMem, SameVbe, Fields, NextSub, cache

-----------------------------------------------------------------------------
(* The display interface.                                                  *)

LEMMA BytesIs ==
    ASSUME r \in Registers, NEW w \in Nat
    PROVE  /\ BytesOf(w) \in Nat
           /\ VbeInv /\ w <= 1024 => BytesOf(w) <= 4096
<1>1. r.vbe["bpp"] \in Nat
  BY VbeIs DEF VbeRegs
<1>2. (r.vbe["bpp"] + 7) \div 8 \in Nat /\ w \div 2 \in Nat
  BY <1>1
<1>3. BytesOf(w) \in Nat
  BY <1>2 DEF BytesOf
<1>4. ASSUME VbeInv, w <= 1024 PROVE BytesOf(w) <= 4096
  <2>1. r.vbe["bpp"] = 4 => BytesOf(w) <= 4096
    BY <1>4 DEF BytesOf
  <2>2. ASSUME r.vbe["bpp"] # 4 PROVE BytesOf(w) <= 4096
    <3>1. (r.vbe["bpp"] + 7) \div 8 \in 0 .. 4
      BY <1>4 DEF VbeInv
    <3>2. BytesOf(w) = w * ((r.vbe["bpp"] + 7) \div 8)
      BY <2>2 DEF BytesOf
    <3> QED
      BY <1>4, <3>1, <3>2
  <2> QED
    BY <2>1, <2>2
<1> QED
  BY <1>3, <1>4

LEMMA ProductIs ==
    ASSUME NEW a \in Nat, NEW b \in Nat, NEW c \in Nat, NEW d \in Nat, a <= c, b <= d
    PROVE  a * b <= c * d /\ a * b \in Nat
<1>1. a * b <= c * b
  OBVIOUS
<1>2. c * b <= c * d
  OBVIOUS
<1> QED
  BY <1>1, <1>2

LEMMA RestIs ==
    ASSUME NEW a \in Nat, NEW b \in Nat \ {0}
    PROVE  a % b \in 0 .. b - 1 /\ a % b \in Nat /\ a % b <= a
OBVIOUS

LEMMA QuotientIs ==
    ASSUME NEW a \in Nat, NEW b \in Nat \ {0}
    PROVE  a \div b \in Nat /\ b * (a \div b) <= a
OBVIOUS

\* The registers of the VBE that enabling sets, and those of a graphics mode.
LEMMA EnabledIs ==
    ASSUME r \in Registers, addr \in Nat, NEW line \in Nat
    PROVE  /\ Enabled(line) \in Registers
           /\ Enabled(line).sub = r.sub /\ Enabled(line).cache = r.cache /\ Enabled(line).line = line
           /\ Enabled(line).vbe = [r.vbe EXCEPT !["virt_width"] = r.vbe["xres"], !["x"] = 0, !["y"] = 0,
                                                !["virt_height"] = r.vbe["yres"]]
<1> DEFINE vbe == [r.vbe EXCEPT !["virt_width"] = r.vbe["xres"], !["x"] = 0, !["y"] = 0,
                                !["virt_height"] = r.vbe["yres"]]
<1>1. Enabled(line) = [r EXCEPT !.vbe = vbe, !.on = TRUE, !.line = line, !.start = 0,
                            !.lfb = addr]
  BY DEF Enabled
<1>2. vbe \in [VbeRegs -> 0 .. Word16 - 1]
  <2>1. r.vbe \in [VbeRegs -> 0 .. Word16 - 1] /\ 0 \in 0 .. Word16 - 1
    BY WordIs, VbeIs
  <2>2. r.vbe["xres"] \in 0 .. Word16 - 1 /\ r.vbe["yres"] \in 0 .. Word16 - 1
    BY <2>1 DEF VbeRegs
  <2> QED
    BY ONLY <2>1, <2>2
<1> HIDE DEF vbe
<1>3. PICK x \in Registers : x = [r EXCEPT !.vbe = vbe]
  BY <1>2, FieldIs
<1>4. PICK y \in Registers : y = [x EXCEPT !.on = TRUE]
  BY FieldIs
<1>5. PICK z \in Registers : z = [y EXCEPT !.line = line]
  BY FieldIs
<1>6. PICK u \in Registers : u = [z EXCEPT !.start = 0]
  <2>1. \A v \in Nat : [z EXCEPT !.start = v] \in Registers
    BY FieldIs, Zenon
  <2> QED
    BY <2>1
<1>8. Enabled(line) = [u EXCEPT !.lfb = addr]
  BY <1>1, <1>3, <1>4, <1>5, <1>6
<1>7. Enabled(line) \in Registers
  <2>1. \A v \in Nat : [u EXCEPT !.lfb = v] \in Registers
    BY FieldIs, Zenon
  <2> QED
    BY <1>8, <2>1, Zenon
<1> QED
  BY <1>1, <1>7, FieldsAre DEF Fields, vbe

LEMMA ModeIs ==
    ASSUME r \in Registers, NEW x \in Registers
    PROVE  /\ SetMode(x) \in Registers
           /\ SetMode(x).sub = x.sub /\ SetMode(x).cache = x.cache
           /\ SetMode(x).vbe = x.vbe /\ SetMode(x).line = x.line
<1> DEFINE cr == [x.cr EXCEPT ![1] = (r.vbe["xres"] \div 8 - 1) % 4, ![7] = 2 + (x.cr[7] % 2)]
           mask == IF r.vbe["bpp"] = 4 THEN x.mask ELSE Planes
           chain == x.chain \/ r.vbe["bpp"] # 4
<1>1. SetMode(x) = [x EXCEPT !.map = 1, !.cr = cr, !.mask = mask, !.chain = chain]
  BY DEF SetMode
<1>2. cr \in [{1, 7, 17} -> 0 .. 3]
  <2>1. x.cr \in [{1, 7, 17} -> 0 .. 3]
    BY DEF Registers
  <2>2. (r.vbe["xres"] \div 8 - 1) % 4 \in 0 .. 3 /\ 2 + (x.cr[7] % 2) \in 0 .. 3
    <3>1. r.vbe["xres"] \in Nat /\ x.cr[7] \in 0 .. 3
      BY <2>1, VbeIs DEF VbeRegs
    <3> QED
      BY <3>1
  <2> QED
    BY ONLY <2>1, <2>2
<1>3. mask \in SUBSET Planes /\ chain \in BOOLEAN
  BY DEF Registers
<1> HIDE DEF cr, mask, chain
<1> 1 \in 0 .. 3
  OBVIOUS
<1>4. PICK y \in Registers : y = [x EXCEPT !.map = 1]
  BY FieldIs
<1>5. PICK z \in Registers : z = [y EXCEPT !.cr = cr]
  BY <1>2, CrSet
<1>6. PICK u \in Registers : u = [z EXCEPT !.mask = mask]
  BY <1>3, FieldIs
<1>7. SetMode(x) = [u EXCEPT !.chain = chain]
  BY <1>1, <1>4, <1>5, <1>6
<1>8. SetMode(x) \in Registers
  BY <1>3, <1>7, ChainSet
<1> QED
  BY <1>1, <1>8, FieldsAre DEF Fields

LEMMA EnableWriteIs ==
    ASSUME r \in Registers, addr \in Nat, VbeInv, VirtualFits, NEW v \in Nat, EnableWrite(v)
    PROVE  r' \in Registers /\ SameDac(r') /\ VbeInv' /\ VirtualFits'
<1> DEFINE line == BytesOf(r.vbe["xres"])
<1>1. r' = SetMode(Enabled(line)) \/ r' = [r EXCEPT !.on = BitOf(v, 0), !.bank = 0]
  BY DEF EnableWrite, Change, SetPart1
<1>2. r.vbe["xres"] \in Nat /\ r.vbe["yres"] \in Nat
  BY VbeIs DEF VbeRegs
<1>3. line \in Nat /\ line <= 4096
  BY <1>2, BytesIs DEF VbeInv
<1> HIDE DEF line
<1>4. CASE r' = SetMode(Enabled(line))
  <2>1. /\ r' \in Registers /\ r'.sub = r.sub /\ r'.cache = r.cache /\ r'.line = line
        /\ r'.vbe = [r.vbe EXCEPT !["virt_width"] = r.vbe["xres"], !["x"] = 0, !["y"] = 0,
                                  !["virt_height"] = r.vbe["yres"]]
    BY <1>3, <1>4, EnabledIs, ModeIs
  <2>2. /\ r'.vbe["xres"] = r.vbe["xres"] /\ r'.vbe["yres"] = r.vbe["yres"]
        /\ r'.vbe["bpp"] = r.vbe["bpp"] /\ r'.vbe["virt_height"] = r.vbe["yres"]
    BY <2>1, VbeIs DEF VbeRegs
  <2>3. line * r.vbe["yres"] <= 4096 * 768
    BY <1>2, <1>3, ProductIs DEF VbeInv
  <2>4. r'.line * r'.vbe["virt_height"] <= VramSize
    <3>1. \A n \in Nat : n <= 4096 * 768 => n <= VramSize
      BY DEF VramSize
    <3>2. line * r.vbe["yres"] \in Nat
      BY <1>2, <1>3
    <3> QED
      BY ONLY <2>1, <2>2, <2>3, <3>1, <3>2
  <2> QED
    BY <2>1, <2>2, <2>4 DEF SameDac, VbeInv, VirtualFits
<1>5. CASE r' = [r EXCEPT !.on = BitOf(v, 0), !.bank = 0]
  <2>1. PICK x \in Registers : x = [r EXCEPT !.on = BitOf(v, 0)]
    BY FieldIs DEF BitOf
  <2>2. r' = [x EXCEPT !.bank = 0] /\ 0 \in 0 .. 63
    BY <1>5, <2>1
  <2>3. r' \in Registers
    BY <2>2, BankSet
  <2>4. SameDac(r') /\ SameVbe(r')
    BY <1>5, <2>3, FieldsAre DEF SameDac, SameVbe, Fields
  <2> QED
    BY <2>3, <2>4 DEF SameVbe, VbeInv, VirtualFits
<1> QED
  BY <1>1, <1>4, <1>5

\* A register of the VBE is set alone.
LEMMA SetVbeIs ==
    ASSUME r \in Registers, NEW i \in VbeRegs, NEW v \in 0 .. Word16 - 1
    PROVE  /\ SetVbe(i, v) \in Registers
           /\ SetVbe(i, v).sub = r.sub /\ SetVbe(i, v).cache = r.cache /\ SetVbe(i, v).line = r.line
           /\ SetVbe(i, v).vbe = [r.vbe EXCEPT ![i] = v]
<1> DEFINE vbe == [r.vbe EXCEPT ![i] = v]
<1>1. SetVbe(i, v) = [r EXCEPT !.vbe = vbe]
  BY DEF SetVbe
<1>2. r.vbe \in [VbeRegs -> 0 .. Word16 - 1]
  BY VbeIs
<1>3. vbe \in [VbeRegs -> 0 .. Word16 - 1]
  BY ONLY <1>2
<1> HIDE DEF vbe
<1>4. SetVbe(i, v) \in Registers
  BY <1>1, <1>3, VbeSet
<1> QED
  BY <1>1, <1>4, FieldsAre DEF Fields, vbe

\* The screen still fits if neither its lines nor its height change.
LEMMA VbeKept ==
    ASSUME r \in Registers, VbeInv, VirtualFits, NEW i \in VbeRegs \ {"virt_height"}, NEW v,
           r'.vbe = [r.vbe EXCEPT ![i] = v], r'.line = r.line,
           i = "xres" => v <= 1024, i = "yres" => v <= 768,
           i = "bpp" => v \in {0, 4, 8, 15, 16, 24, 32}
    PROVE  VbeInv' /\ VirtualFits'
<1>1. \A j \in VbeRegs : r'.vbe[j] = IF j = i THEN v ELSE r.vbe[j]
  BY VbeIs
<1>2. {"xres", "yres", "bpp", "virt_height"} \subseteq VbeRegs
  BY DEF VbeRegs
<1> QED
  BY <1>1, <1>2 DEF VbeInv, VirtualFits

\* A new width gives the greatest height that fits, cut to 16 bits.
LEMMA VirtWidthIs ==
    ASSUME r \in Registers, VbeInv, VirtualFits, NEW w \in 0 .. Word16 - 1,
           ~(w >= r.vbe["xres"] /\ BytesOf(w) = 0),
           r' = AfterVirtWidth(w)
    PROVE  r' \in Registers /\ SameDac(r') /\ VbeInv' /\ VirtualFits'
<1> DEFINE line == BytesOf(w)
           h == VramSize \div line
           low == h % Word16
           vbe == [r.vbe EXCEPT !["virt_width"] = w, !["virt_height"] = low]
<1>1. CASE r' = r
  BY <1>1 DEF SameDac, VbeInv, VirtualFits
<1>2. CASE r' # r
  <2>1. r' = [r EXCEPT !.vbe = vbe, !.line = line] /\ ~(w < r.vbe["xres"])
    BY <1>2 DEF AfterVirtWidth
  <2>2. w \in Nat /\ r.vbe["xres"] \in Nat
    <3>1. w \in Nat
      BY WordIs
    <3> QED
      BY <3>1, VbeIs DEF VbeRegs
  <2>3. line \in Nat \ {0}
    BY <2>1, <2>2, BytesIs
  <2> HIDE DEF line
  <2>4. h \in Nat /\ line * h <= VramSize
    BY <2>3, QuotientIs DEF VramSize
  <2> HIDE DEF h
  <2>5. low \in 0 .. Word16 - 1 /\ low \in Nat /\ low <= h
    BY <2>4, WordIs, RestIs
  <2> HIDE DEF low
  <2>6. line * low <= VramSize
    <3>1. line * low <= line * h /\ line * low \in Nat /\ line * h \in Nat
      BY <2>3, <2>4, <2>5, ProductIs
    <3>2. VramSize \in Nat
      BY DEF VramSize
    <3> QED
      BY ONLY <2>4, <3>1, <3>2
  <2>7. r.vbe \in [VbeRegs -> 0 .. Word16 - 1]
    BY VbeIs
  <2>8. vbe \in [VbeRegs -> 0 .. Word16 - 1]
    BY ONLY <2>5, <2>7
  <2>9. /\ vbe["xres"] = r.vbe["xres"] /\ vbe["yres"] = r.vbe["yres"] /\ vbe["bpp"] = r.vbe["bpp"]
        /\ vbe["virt_height"] = low
    BY <2>7 DEF VbeRegs
  <2> HIDE DEF vbe
  <2>10. PICK x \in Registers : x = [r EXCEPT !.vbe = vbe]
    BY <2>8, VbeSet
  <2>11. r' = [x EXCEPT !.line = line] /\ line \in Nat
    BY <2>1, <2>3, <2>10
  <2>12. r' \in Registers
    BY <2>11, LineSet
  <2>13. SameDac(r') /\ r'.vbe = vbe /\ r'.line = line
    BY <2>1, <2>12, FieldsAre DEF SameDac, Fields
  <2> QED
    BY <2>6, <2>9, <2>12, <2>13 DEF VbeInv, VirtualFits
<1> QED
  BY <1>1, <1>2

LEMMA VbeDataWriteIs ==
    ASSUME r \in Registers, VbeInv, VirtualFits, NEW v \in 0 .. Word16 - 1, VbeDataWrite(v)
    PROVE  r' \in Registers /\ SameDac(r') /\ VbeInv' /\ VirtualFits'
<1> DEFINE Goal == r' \in Registers /\ SameDac(r') /\ VbeInv' /\ VirtualFits'
           d == IF v = 0 THEN 8 ELSE v
<1>1. r' = (CASE r.vbeIndex = "xres" -> SetVbeIf(v <= 1024 /\ v % 8 = 0, "xres", v)
               [] r.vbeIndex = "yres" -> SetVbeIf(v <= 768, "yres", v)
               [] r.vbeIndex = "bpp" -> SetVbeIf(d \in {4, 8, 15, 16, 24, 32}, "bpp", d)
               [] r.vbeIndex = "bank" -> [SetVbe("bank", Bank(v)) EXCEPT !.bank = Bank(v)]
               [] r.vbeIndex = "virt_width" -> AfterVirtWidth(v)
               [] r.vbeIndex \in {"x", "y"} -> WithStart(SetVbe(r.vbeIndex, v))
               [] OTHER -> r)
  BY DEF VbeDataWrite, Steer, Change, SetPart1
<1>2. ~Divides(v)
  BY DEF VbeDataWrite
<1>3. v \in Nat /\ \A i \in 0 .. 63 : i \in 0 .. Word16 - 1
  BY WordIs
<1>4. CASE r' = r
  BY <1>4 DEF SameDac, VbeInv, VirtualFits
<1>5. ASSUME NEW i \in VbeRegs \ {"virt_height"}, NEW w \in 0 .. Word16 - 1, r' = SetVbe(i, w),
             i = "xres" => w <= 1024, i = "yres" => w <= 768,
             i = "bpp" => w \in {0, 4, 8, 15, 16, 24, 32}
      PROVE  Goal
  <2>1. r' \in Registers /\ SameDac(r') /\ r'.line = r.line /\ r'.vbe = [r.vbe EXCEPT ![i] = w]
    BY <1>5, SetVbeIs DEF SameDac
  <2> QED
    BY <1>5, <2>1, VbeKept
<1>6. CASE r.vbeIndex = "xres"
  <2>1. r' = r \/ (r' = SetVbe("xres", v) /\ v <= 1024)
    BY <1>1, <1>6 DEF SetVbeIf
  <2>2. "xres" \in VbeRegs \ {"virt_height"}
    BY DEF VbeRegs
  <2> QED
    BY <2>1, <2>2, <1>4, <1>5
<1>7. CASE r.vbeIndex = "yres"
  <2>1. r' = r \/ (r' = SetVbe("yres", v) /\ v <= 768)
    BY <1>1, <1>7 DEF SetVbeIf
  <2>2. "yres" \in VbeRegs \ {"virt_height"}
    BY DEF VbeRegs
  <2> QED
    BY <2>1, <2>2, <1>4, <1>5
<1>8. CASE r.vbeIndex = "bpp"
  <2>1. r' = r \/ (r' = SetVbe("bpp", d) /\ d \in {0, 4, 8, 15, 16, 24, 32})
    BY <1>1, <1>8 DEF SetVbeIf
  <2>2. "bpp" \in VbeRegs \ {"virt_height"}
    BY DEF VbeRegs
  <2>3. d \in 0 .. Word16 - 1
    BY <1>3
  <2> QED
    BY <2>1, <2>2, <2>3, <1>4, <1>5
<1>9. CASE r.vbeIndex = "bank"
  <2>1. r' = [SetVbe("bank", Bank(v)) EXCEPT !.bank = Bank(v)]
    BY <1>1, <1>9
  <2>2. Bank(v) \in 0 .. 63
    BY <1>3 DEF Bank
  <2>3. "bank" \in VbeRegs \ {"virt_height"} /\ Bank(v) \in 0 .. Word16 - 1
    BY <1>3, <2>2 DEF VbeRegs
  <2>4. PICK x \in Registers : /\ x = SetVbe("bank", Bank(v)) /\ x.sub = r.sub /\ x.cache = r.cache
                               /\ x.line = r.line /\ x.vbe = [r.vbe EXCEPT !["bank"] = Bank(v)]
    BY <2>3, SetVbeIs
  <2>5. r' = [x EXCEPT !.bank = Bank(v)]
    BY <2>1, <2>4
  <2>6. r' \in Registers
    BY <2>2, <2>5, FieldIs
  <2>7. SameDac(r') /\ r'.line = r.line /\ r'.vbe = [r.vbe EXCEPT !["bank"] = Bank(v)]
    BY <2>4, <2>5, FieldsAre DEF SameDac, Fields
  <2> QED
    BY <2>3, <2>6, <2>7, VbeKept
<1>10. CASE r.vbeIndex = "virt_width"
  BY <1>1, <1>2, <1>10, VirtWidthIs DEF Divides
<1>11. CASE r.vbeIndex \in {"x", "y"}
  <2>1. r' = WithStart(SetVbe(r.vbeIndex, v))
    BY <1>1, <1>11
  <2>2. PICK i \in VbeRegs \ {"virt_height"} : i = r.vbeIndex /\ i \notin {"xres", "yres", "bpp"}
    BY <1>11 DEF VbeRegs
  <2>3. PICK x \in Registers : /\ x = SetVbe(i, v) /\ x.sub = r.sub /\ x.cache = r.cache
                               /\ x.line = r.line /\ x.vbe = [r.vbe EXCEPT ![i] = v]
    BY <2>2, SetVbeIs
  <2> DEFINE S == (x.line * x.vbe["y"] + BytesOf(x.vbe["x"])) \div 4
  <2>4. S \in Nat
    <3>1. x.line \in Nat /\ x.vbe \in [VbeRegs -> 0 .. Word16 - 1]
      BY DEF Registers
    <3>2. x.vbe["x"] \in 0 .. Word16 - 1 /\ x.vbe["y"] \in 0 .. Word16 - 1
      BY <3>1 DEF VbeRegs
    <3>4. x.vbe["x"] \in Nat /\ x.vbe["y"] \in Nat
      BY <3>2, WordIs, Zenon
    <3>5. BytesOf(x.vbe["x"]) \in Nat
      BY <3>4, BytesIs
    <3>6. x.line * x.vbe["y"] \in Nat
      BY <3>1, <3>4
    <3>7. x.line * x.vbe["y"] + BytesOf(x.vbe["x"]) \in Nat
      BY <3>5, <3>6
    <3> QED
      BY <3>7
  <2>5. r' = [x EXCEPT !.start = S]
    BY <2>1, <2>2, <2>3 DEF WithStart
  <2> HIDE DEF S
  <2>6. r' \in Registers
    BY <2>4, <2>5, FieldIs
  <2>7. SameDac(r') /\ r'.line = r.line /\ r'.vbe = [r.vbe EXCEPT ![i] = v]
    BY <2>3, <2>5, FieldsAre DEF SameDac, Fields
  <2> QED
    BY <2>2, <2>6, <2>7, VbeKept
<1>12. CASE r.vbeIndex \notin {"xres", "yres", "bpp", "bank", "virt_width", "x", "y"}
  BY <1>1, <1>4, <1>12
<1> QED
  BY <1>6, <1>7, <1>8, <1>9, <1>10, <1>11, <1>12

-----------------------------------------------------------------------------
(* Video memory.                                                           *)

LEMMA OffsetIs ==
    ASSUME r \in Registers, NEW a \in Addresses
    PROVE  Offset(a) # None => Offset(a) \in Nat
<1>1. r.map \in 0 .. 3 /\ r.bank \in Nat /\ a \in Nat
  BY RegistersAre DEF Addresses, Window
<1>2. a + r.bank * Window \in Nat
  BY <1>1 DEF Window
<1>3. a - Window \in 0 .. Window \div 2 - 1 => a - Window \in Nat
  BY <1>1 DEF Window
<1>4. a >= Window + Window \div 2 => a - Window - Window \div 2 \in Nat
  BY <1>1 DEF Window
<1> QED
  BY <1>1, <1>2, <1>3, <1>4 DEF Offset

LEMMA CellIs ==
    ASSUME r \in Registers, NEW o \in Nat
    PROVE  /\ OddEvenPlane(o) \in 0 .. 3
           /\ OddEvenCell(o) \in Nat /\ OddEvenCell(o) % 4 = OddEvenPlane(o)
<1>1. r.plane \in 0 .. 3
  BY RegistersAre
<1>2. OddEvenPlane(o) \in 0 .. 3
  BY <1>1 DEF OddEvenPlane
<1>3. PICK k \in Nat : 2 * (o - (o % 2)) = 4 * k
  <2>1. o \div 2 \in Nat /\ 2 * (o - (o % 2)) = 4 * (o \div 2)
    OBVIOUS
  <2> QED
    BY <2>1
<1>4. \A p \in 0 .. 3 : 4 * k + p \in Nat /\ (4 * k + p) % 4 = p
  OBVIOUS
<1> QED
  BY <1>2, <1>3, <1>4 DEF OddEvenCell

LEMMA TouchedIs ==
    ASSUME r \in Registers, NEW o \in Nat
    PROVE  Touched(o) \subseteq Nat
BY CellIs DEF Touched, Word, Planes

\* A load finds what a straight store has put there, in each mode.
LEMMA StoreIs ==
    ASSUME r \in Registers, NEW o \in Nat, NEW b \in BOOLEAN, NEW n,
           Straight, Source(o) % 4 \in r.mask
    PROVE  Source(o) \in (vram \ Touched(o)) \cup Stored(o, b, n) <=> b
<1>1. CASE r.chain
  BY <1>1 DEF Source, Touched, Stored, Latched
<1>2. CASE ~r.chain /\ r.oddEven
  <2>1. Source(o) = OddEvenCell(o) /\ OddEvenPlane(o) \in r.mask
    BY <1>2, CellIs DEF Source
  <2> QED
    BY <1>2, <2>1 DEF Touched, Stored, Latched
<1>3. CASE ~r.chain /\ ~r.oddEven
  <2>1. Latched /\ Source(o) = 4 * o + r.plane /\ r.plane \in Planes
    BY <1>3, RegistersAre DEF Latched, Source, Planes
  <2>2. (4 * o + r.plane) % 4 = r.plane
    BY <2>1 DEF Planes
  <2>3. Source(o) \in Touched(o)
    BY <1>3, <2>1, <2>2 DEF Touched, Word
  <2>4. r.wmode = 0 /\ r.setOn = {} /\ r.func = 0 /\ r.bitMask
    BY <2>1 DEF Straight
  <2>5. StoreBit(Source(o) % 4, b, n) <=> b
    BY <2>4 DEF StoreBit
  <2> QED
    BY <2>1, <2>3, <2>5 DEF Stored
<1> QED
  BY <1>1, <1>2, <1>3

-----------------------------------------------------------------------------
(* What an access comes to.                                                *)

DacAccess ==
    (\E v \in 0 .. 1 : ReadIndexWrite(v) \/ WriteIndexWrite(v)) \/ DataRead \/ \E v \in Bit : DataWrite(v)

StoreAccess ==
    \E a \in Addresses : \E b \in BOOLEAN : \E n \in SUBSET Planes : Store(a, b, n)

Outcome ==
    /\ r' \in Registers /\ VbeInv' /\ VirtualFits'
    /\ (SameDac(r') /\ UNCHANGED <<pal, run, kind>>) \/ DacAccess
    /\ last' = None \/ (SameMem(r') /\ UNCHANGED <<vram, last>>) \/ StoreAccess

LEMMA AccessIs ==
    ASSUME r \in Registers, addr \in Nat, VbeInv, VirtualFits, NEW p, NEW v \in Values(p), Access(p, v)
    PROVE  Outcome
<1> DEFINE Kept == SameDac(r') /\ UNCHANGED <<pal, run, kind>>
           Memory == SameMem(r') /\ UNCHANGED <<vram, last>>
<1>0. SameVbe(r') => VbeInv' /\ VirtualFits'
  BY DEF SameVbe, VbeInv, VirtualFits
<1>1. ASSUME r' \in Registers, SameDac(r'), SameMem(r'), SameVbe(r'),
             UNCHANGED <<pal, run, kind, vram, last>>
      PROVE  Outcome
  BY <1>0, <1>1 DEF Outcome
<1> USE DEF Plain, Change, worker, memVars, dacHist
<1>2. CASE p = "3c0" /\ AttrWrite(v)
  <2>1. v \in 0 .. 2
    BY <1>2 DEF Values
  <2> QED
    BY <1>1, <1>2, <2>1, AttrWriteIs DEF AttrWrite
<1>3. CASE p = "3c2" /\ MiscWrite(v)
  <2>1. v \in BOOLEAN
    BY <1>3 DEF Values
  <2> QED
    BY <1>1, <1>3, <2>1, MiscWriteIs DEF MiscWrite
<1>4. CASE p \in {"3d4", "3b4"} /\ (CrIndexWrite(TRUE, v) \/ CrIndexWrite(FALSE, v))
  <2>1. v \in Nat
    BY <1>4 DEF Values
  <2> QED
    BY <1>1, <1>4, <2>1, CrIndexWriteIs DEF CrIndexWrite
<1>5. CASE p \in {"3d5", "3b5"} /\ (CrWrite(TRUE, v) \/ CrWrite(FALSE, v))
  <2>1. v \in 0 .. 3
    BY <1>5 DEF Values
  <2> QED
    BY <1>1, <1>5, <2>1, CrWriteIs DEF CrWrite
<1>6. CASE StatusRead(TRUE) \/ StatusRead(FALSE)
  BY <1>1, <1>6, StatusReadIs DEF StatusRead
<1>7. CASE p \in {"3c7", "3c8"} /\ (ReadIndexWrite(v) \/ WriteIndexWrite(v))
  <2>1. v \in 0 .. 1
    BY <1>7 DEF Values, Entries
  <2>2. r' \in Registers /\ SameMem(r') /\ SameVbe(r') /\ DacAccess /\ UNCHANGED <<vram, last>>
    BY <1>7, <2>1, ReadIndexIs, WriteIndexIs DEF DacAccess, ReadIndexWrite, WriteIndexWrite
  <2> QED
    BY <1>0, <2>2 DEF Outcome
<1>8. CASE DataRead
  <2>2. r' \in Registers /\ SameMem(r') /\ SameVbe(r') /\ DacAccess /\ UNCHANGED <<vram, last>>
    BY <1>8, DataReadIs DEF DacAccess, DataRead
  <2> QED
    BY <1>0, <2>2 DEF Outcome
<1>9. CASE p = "3c9" /\ DataWrite(v)
  <2>1. v \in Bit
    BY <1>9 DEF Values
  <2>2. r' \in Registers /\ SameMem(r') /\ SameVbe(r') /\ DacAccess /\ UNCHANGED <<vram, last>>
    BY <1>9, <2>1, DataWriteIs DEF DacAccess, DataWrite
  <2> QED
    BY <1>0, <2>2 DEF Outcome
<1>10. CASE p = "3c4" /\ SrIndexWrite(v)
  <2>1. v \in Nat
    BY <1>10 DEF Values
  <2> QED
    BY <1>1, <1>10, <2>1, SrIndexWriteIs DEF SrIndexWrite
<1>11. CASE p = "3c5" /\ SrWrite(v)
  <2>1. v \in Nat
    BY <1>11 DEF Values
  <2>2. r' \in Registers /\ SameDac(r') /\ SameVbe(r') /\ UNCHANGED <<pal, run, kind>> /\ last' = None
    BY <1>11, <2>1, SrWriteIs DEF SrWrite, Steer
  <2> QED
    BY <1>0, <2>2 DEF Outcome
<1>12. CASE p = "3ce" /\ GrIndexWrite(v)
  <2>1. v \in Nat
    BY <1>12 DEF Values
  <2> QED
    BY <1>1, <1>12, <2>1, GrIndexWriteIs DEF GrIndexWrite
<1>13. CASE p = "3cf" /\ GrWrite(v)
  <2>1. v \in Nat
    BY <1>13 DEF Values
  <2>2. r' \in Registers /\ SameDac(r') /\ SameVbe(r') /\ UNCHANGED <<pal, run, kind>> /\ last' = None
    BY <1>13, <2>1, GrWriteIs DEF GrWrite, Steer
  <2> QED
    BY <1>0, <2>2 DEF Outcome
<1>14. CASE p = "load" /\ Load(v)
  BY <1>1, <1>14, LoadIs DEF Load
<1>15. CASE p = "store" /\ Store(v[1], v[2], v[3])
  <2>1. v \in Addresses \X BOOLEAN \X SUBSET Planes
    BY <1>15 DEF Values
  <2>2. StoreAccess
    BY <1>15, <2>1 DEF StoreAccess
  <2>3. UNCHANGED <<r, pal, run, kind>>
    BY <1>15 DEF Store
  <2> QED
    BY <1>0, <2>2, <2>3 DEF Outcome, SameDac, SameVbe
<1>16. CASE p = "1ce" /\ VbeIndexWrite(v)
  <2>1. v \in VbeIndices
    BY <1>16 DEF Values
  <2> QED
    BY <1>1, <1>16, <2>1, VbeIndexWriteIs DEF VbeIndexWrite
<1>17. CASE p = "1cf" /\ (EnableWrite(v) \/ VbeDataWrite(v))
  <2>1. v \in 0 .. Word16 - 1 /\ v \in Nat
    BY <1>17, WordIs DEF Values
  <2>2. /\ r' \in Registers /\ SameDac(r') /\ VbeInv' /\ VirtualFits'
    BY <1>17, <2>1, EnableWriteIs, VbeDataWriteIs
  <2>3. UNCHANGED <<pal, run, kind>> /\ last' = None
    BY <1>17 DEF EnableWrite, VbeDataWrite, Steer
  <2> QED
    BY <2>2, <2>3 DEF Outcome
<1>18. CASE VbeDivides(v)
  <2>1. UNCHANGED <<r, pal, run, kind, vram, last>>
    BY <1>18 DEF VbeDivides
  <2> QED
    BY <2>1, <1>1 DEF SameDac, SameMem, SameVbe
<1>19. CASE p = "lfb" /\ UpdateLfbAddr(v)
  <2>1. v \in Nat
    BY <1>19 DEF Values
  <2> QED
    BY <1>1, <1>19, <2>1, UpdateLfbAddrIs DEF UpdateLfbAddr
<1> QED
  BY <1>2, <1>3, <1>4, <1>5, <1>6, <1>7, <1>8, <1>9, <1>10, <1>11, <1>12, <1>13, <1>14, <1>15,
     <1>16, <1>17, <1>18, <1>19 DEF Access

-----------------------------------------------------------------------------
(* The types.                                                              *)

\* Mark and the worker leave the registers and video memory alone.
LEMMA OthersKeep ==
    ASSUME Mark \/ MarkLate \/ Dump
    PROVE  UNCHANGED <<program, addr, r, pal, vram, stores, last, dead, run, kind>>
BY DEF Mark, MarkLate, worker, Dump, Copy1, Written1, Copy2, Written2, NoMemory, MarkDirty, accesses, dumpVars,
       memVars, dacHist

\* The worker's state and the marks under an access (device.c:201-255).
LEMMA AccessMarks ==
    ASSUME TypeOK, late = 0, NEW p, NEW v, Access(p, v)
    PROVE  /\ UNCHANGED <<program, dpc, failed, raced1, raced2, dirty1, dirty2>>
           /\ \/ marking /\ ~marking'
              \/ marking' = marking /\ fresh1' = fresh1
              \/ marking' = marking /\ late' = 1
           /\ fresh2' = fresh2 \/ late' = 2
           /\ late' \in 0 .. 2 /\ fresh1' \in BOOLEAN /\ fresh2' \in BOOLEAN
           /\ marking' \in BOOLEAN /\ dead' \in BOOLEAN
<1> DEFINE Goal ==
           /\ UNCHANGED <<program, dpc, failed, raced1, raced2, dirty1, dirty2>>
           /\ \/ marking /\ ~marking'
              \/ marking' = marking /\ fresh1' = fresh1
              \/ marking' = marking /\ late' = 1
           /\ fresh2' = fresh2 \/ late' = 2
           /\ late' \in 0 .. 2 /\ fresh1' \in BOOLEAN /\ fresh2' \in BOOLEAN
           /\ marking' \in BOOLEAN /\ dead' \in BOOLEAN
<1> USE DEF worker, dumpVars, memVars, dacHist
<1>1. ASSUME NEW x, Change(x), UNCHANGED dead PROVE Goal
  BY <1>1 DEF TypeOK, Change, SetPart1
<1>2. AttrWrite(v) \/ MiscWrite(v) \/ SrIndexWrite(v) \/ GrIndexWrite(v) \/ VbeIndexWrite(v)
      => Goal
  BY <1>1 DEF AttrWrite, MiscWrite, SrIndexWrite, GrIndexWrite, VbeIndexWrite, Plain
<1>12. UpdateLfbAddr(v) => Goal
  BY <1>1 DEF UpdateLfbAddr, TypeOK
<1>3. \A c : CrIndexWrite(c, v) \/ CrWrite(c, v) => Goal
  BY <1>1 DEF CrIndexWrite, CrWrite, Plain
<1>4. ReadIndexWrite(v) \/ WriteIndexWrite(v) \/ DataRead => Goal
  BY <1>1 DEF ReadIndexWrite, WriteIndexWrite, DataRead
<1>5. SrWrite(v) \/ GrWrite(v) \/ VbeDataWrite(v) \/ EnableWrite(v) => Goal
  BY <1>1 DEF SrWrite, GrWrite, VbeDataWrite, EnableWrite, Steer
<1>6. ASSUME NEW c, StatusRead(c) PROVE Goal
  <2>1. Saved([r EXCEPT !.flip = 0, !.st01 = ~@]) = Saved(r)
    BY DEF Saved, TypeOK, Registers
  <2>2. fresh1' = fresh1
    BY <1>6, <2>1 DEF StatusRead, SetPart1, TypeOK
  <2> QED
    BY <1>6, <2>2 DEF StatusRead, TypeOK
<1>7. ASSUME DataWrite(v) PROVE Goal
  <2>1. /\ late' = (IF r.sub = 2 THEN 2 ELSE 0)
        /\ fresh2' = (fresh2 /\ pal' = pal) /\ (r.sub # 2 => pal' = pal)
    BY <1>7 DEF DataWrite, Marks2, SetPart2
  <2>2. (fresh2' = fresh2 \/ late' = 2) /\ fresh2' \in BOOLEAN /\ late' \in 0 .. 2
    BY <2>1 DEF TypeOK
  <2>3. fresh1' \in BOOLEAN /\ UNCHANGED <<program, dpc, failed, raced1, raced2, dirty1, dirty2, dead>>
    BY <1>7 DEF DataWrite, SetPart1, TypeOK
  <2>4. marking /\ ~marking' /\ marking' \in BOOLEAN
    BY <1>7 DEF DataWrite
  <2> QED
    BY <2>2, <2>3, <2>4 DEF TypeOK
<1>8. Load(v) => Goal
  BY DEF Load, SetPart1, TypeOK
<1>9. \A a, b, n : Store(a, b, n) => Goal
  BY DEF Store, TypeOK
<1>10. VbeDivides(v) => Goal
  BY DEF VbeDivides, TypeOK
<1> HIDE DEF Goal
<1>11. Goal
  BY <1>12, <1>2, <1>3, <1>4, <1>5, <1>6, <1>7, <1>8, <1>9, <1>10 DEF Access
<1> QED
  BY <1>11 DEF Goal

\* Only a move changes the address of the frame buffer.
LEMMA AddrIs ==
    ASSUME TypeOK, NEW p, NEW v \in Values(p), Access(p, v)
    PROVE  addr' \in Nat
<1> USE DEF memVars
<1>1. AttrWrite(v) \/ MiscWrite(v) \/ SrIndexWrite(v) \/ GrIndexWrite(v) \/ VbeIndexWrite(v)
      => addr' = addr
  BY DEF AttrWrite, MiscWrite, SrIndexWrite, GrIndexWrite, VbeIndexWrite, Plain
<1>2. \A c : CrIndexWrite(c, v) \/ CrWrite(c, v) \/ StatusRead(c) => addr' = addr
  BY DEF CrIndexWrite, CrWrite, StatusRead, Plain
<1>3. ReadIndexWrite(v) \/ WriteIndexWrite(v) \/ DataRead \/ DataWrite(v) => addr' = addr
  BY DEF ReadIndexWrite, WriteIndexWrite, DataRead, DataWrite
<1>4. SrWrite(v) \/ GrWrite(v) \/ VbeDataWrite(v) \/ EnableWrite(v) => addr' = addr
  BY DEF SrWrite, GrWrite, VbeDataWrite, EnableWrite, Steer
<1>5. Load(v) \/ VbeDivides(v) => addr' = addr
  BY DEF Load, VbeDivides
<1>6. \A a, b, n : Store(a, b, n) => addr' = addr
  BY DEF Store
<1>7. p = "lfb" /\ UpdateLfbAddr(v) => addr' \in Nat
  BY DEF UpdateLfbAddr, Values
<1> QED
  BY <1>1, <1>2, <1>3, <1>4, <1>5, <1>6, <1>7 DEF Access, TypeOK

LEMMA TypeInit == Init => TypeOK
<1> SUFFICES ASSUME Init PROVE TypeOK
  OBVIOUS
<1>1. r \in Registers
  BY WordIs DEF Init, InitRegs, Registers, Bit, Entries, Colours, Planes, VbeIndices
<1>2. pal \in [0 .. Entries - 1 -> Colours]
  BY DEF Init, Colours, Bit
<1>3. /\ run \in Seq(Bit) /\ Len(run) <= 3 /\ stores \in 0 .. MaxStores
      /\ last \in [addr : Addresses, bit : BOOLEAN] \cup {None}
  BY VgaAssumption DEF Init
<1>4. addr \in Nat /\ late \in 0 .. 2
  BY VgaAssumption DEF Init
<1> QED
  BY <1>1, <1>2, <1>3, <1>4 DEF Init, TypeOK

LEMMA MemoryTypes ==
    ASSUME TypeOK, NEW p, NEW v \in Values(p), Access(p, v)
    PROVE  /\ vram' \subseteq Nat /\ stores' \in 0 .. MaxStores
           /\ last' \in [addr : Addresses, bit : BOOLEAN] \cup {None}
<1> USE DEF memVars
<1>1. CASE UNCHANGED memVars
  BY <1>1 DEF TypeOK
<1>2. CASE vram' \subseteq vram /\ UNCHANGED stores /\ last' = None
  BY <1>2 DEF TypeOK
<1>3. ASSUME p = "store", Store(v[1], v[2], v[3])
      PROVE  /\ vram' \subseteq Nat /\ stores' \in 0 .. MaxStores
             /\ last' \in [addr : Addresses, bit : BOOLEAN] \cup {None}
  <2>1. v[1] \in Addresses /\ v[2] \in BOOLEAN
    BY <1>3 DEF Values
  <2>2. Offset(v[1]) \in Nat /\ stores' = stores + 1 /\ stores < MaxStores
    BY <1>3, <2>1, OffsetIs DEF Store, TypeOK
  <2>3. vram' \subseteq vram \cup Touched(Offset(v[1]))
    BY <1>3 DEF Store, Stored
  <2>4. last' \in {[addr |-> v[1], bit |-> v[2]], None}
    BY <1>3 DEF Store
  <2>5. stores' \in 0 .. MaxStores
    BY <2>2, VgaAssumption DEF TypeOK
  <2> QED
    BY <2>1, <2>2, <2>3, <2>4, <2>5, TouchedIs DEF TypeOK
<1>4. AttrWrite(v) \/ MiscWrite(v) \/ SrIndexWrite(v) \/ GrIndexWrite(v) \/ VbeIndexWrite(v)
      \/ UpdateLfbAddr(v) => UNCHANGED memVars
  BY DEF AttrWrite, MiscWrite, SrIndexWrite, GrIndexWrite, VbeIndexWrite, UpdateLfbAddr, Plain
<1>5. \A c : CrIndexWrite(c, v) \/ CrWrite(c, v) \/ StatusRead(c) => UNCHANGED memVars
  BY DEF CrIndexWrite, CrWrite, StatusRead, Plain
<1>6. ReadIndexWrite(v) \/ WriteIndexWrite(v) \/ DataRead \/ DataWrite(v) \/ Load(v) \/ VbeDivides(v)
      => UNCHANGED memVars
  BY DEF ReadIndexWrite, WriteIndexWrite, DataRead, DataWrite, Load, VbeDivides
<1>7. SrWrite(v) \/ GrWrite(v) \/ VbeDataWrite(v)
      => vram' \subseteq vram /\ UNCHANGED stores /\ last' = None
  BY DEF SrWrite, GrWrite, VbeDataWrite, Steer
<1>8. EnableWrite(v) => vram' \subseteq vram /\ UNCHANGED stores /\ last' = None
  BY DEF EnableWrite
<1> QED
  BY <1>1, <1>2, <1>3, <1>4, <1>5, <1>6, <1>7, <1>8 DEF Access

LEMMA DacTypes ==
    ASSUME TypeOK, DacAccess
    PROVE  /\ pal' \in [0 .. Entries - 1 -> Colours]
           /\ run' \in Seq(Bit) /\ Len(run') <= 3 /\ kind' \in {"none", "read", "write", "mixed"}
<1>1. ASSUME NEW v, ReadIndexWrite(v) \/ WriteIndexWrite(v)
      PROVE  UNCHANGED pal /\ run' = <<>> /\ kind' = "none"
  BY <1>1 DEF ReadIndexWrite, WriteIndexWrite, Change, NoRun
<1>2. ASSUME DataRead PROVE UNCHANGED <<pal, run>> /\ kind' \in {"none", "read", "write", "mixed"}
  BY <1>2 DEF DataRead, Change, Also, TypeOK
<1>3. ASSUME NEW v \in Bit, DataWrite(v)
      PROVE  /\ pal' \in [0 .. Entries - 1 -> Colours]
             /\ run' \in Seq(Bit) /\ Len(run') <= 3 /\ kind' \in {"none", "read", "write", "mixed"}
  <2>1. [r.cache EXCEPT ![r.sub + 1] = v] \in Colours
    BY RegistersAre DEF TypeOK, Colours
  <2>2. pal' \in [0 .. Entries - 1 -> Colours]
    BY <1>3, <2>1 DEF DataWrite, SetPart2, TypeOK
  <2>3. run' \in Seq(Bit) /\ Len(run') <= 3
    <3>1. run \in Seq(Bit) /\ Len(run) \in Nat /\ Len(run) <= 3
      BY DEF TypeOK
    <3>2. <<v>> \in Seq(Bit) /\ Len(<<v>>) = 1
      OBVIOUS
    <3>3. Append(run, v) \in Seq(Bit) /\ Len(Append(run, v)) = Len(run) + 1
      BY <3>1
    <3>4. run' = IF Len(run) = 3 THEN <<v>> ELSE Append(run, v)
      BY <1>3 DEF DataWrite
    <3>5. CASE Len(run) = 3
      BY <3>2, <3>4, <3>5
    <3>6. CASE Len(run) # 3
      <4>1. \A n \in Nat : n <= 3 /\ n # 3 => n + 1 <= 3
        OBVIOUS
      <4>2. Len(run) + 1 <= 3
        BY <3>1, <3>6, <4>1, Zenon
      <4> QED
        BY <3>3, <3>4, <3>6, <4>2
    <3> QED
      BY <3>5, <3>6
  <2>4. kind' \in {"none", "read", "write", "mixed"}
    BY <1>3 DEF DataWrite, Also, TypeOK
  <2> QED
    BY <2>2, <2>3, <2>4
<1>4. Len(<<>>) <= 3 /\ <<>> \in Seq(Bit)
  OBVIOUS
<1> QED
  BY <1>1, <1>2, <1>3, <1>4 DEF DacAccess, TypeOK

LEMMA TypeNext ==
    ASSUME TypeOK, VbeInv, VirtualFits, [Next]_vars
    PROVE  TypeOK'
<1> USE DEF vars, dumpVars, dacHist, memVars
<1>1. ASSUME NEW q \in program, late = 0, Access(q[1], q[2]) PROVE TypeOK'
  <2>1. q[2] \in Values(q[1])
    BY ProgramsAssumption DEF TypeOK
  <2>2. Outcome
    BY <1>1, <2>1, AccessIs DEF TypeOK
  <2>3. /\ pal' \in [0 .. Entries - 1 -> Colours]
        /\ run' \in Seq(Bit) /\ Len(run') <= 3 /\ kind' \in {"none", "read", "write", "mixed"}
    BY <2>2, DacTypes DEF Outcome, TypeOK
  <2>4. /\ vram' \subseteq Nat /\ stores' \in 0 .. MaxStores
        /\ last' \in [addr : Addresses, bit : BOOLEAN] \cup {None}
    BY <1>1, <2>1, MemoryTypes
  <2>5. /\ UNCHANGED <<program, dpc, failed, raced1, raced2, dirty1, dirty2>>
        /\ late' \in 0 .. 2 /\ fresh1' \in BOOLEAN /\ fresh2' \in BOOLEAN
        /\ marking' \in BOOLEAN /\ dead' \in BOOLEAN
    BY <1>1, AccessMarks
  <2>6. addr' \in Nat
    BY <1>1, <2>1, AddrIs
  <2> QED
    BY <2>2, <2>3, <2>4, <2>5, <2>6 DEF Outcome, TypeOK
<1>2. CASE Mark
  BY <1>2 DEF Mark, TypeOK
<1>5. CASE MarkLate
  BY <1>5 DEF MarkLate, worker, TypeOK
<1>3. CASE Dump
  <2>1. /\ dpc' \in {"idle", "write1", "part2", "write2"} /\ failed' \in BOOLEAN
        /\ dirty1' \in BOOLEAN /\ dirty2' \in BOOLEAN /\ fresh1' \in BOOLEAN /\ fresh2' \in BOOLEAN
        /\ raced1' \in BOOLEAN /\ raced2' \in BOOLEAN /\ UNCHANGED <<marking, late>>
    <3> USE DEF TypeOK, accesses
    <3>1. CASE Copy1
      BY <3>1 DEF Copy1
    <3>2. CASE Written1
      BY <3>2 DEF Written1
    <3>3. CASE Copy2
      BY <3>3 DEF Copy2
    <3>4. CASE Written2
      BY <3>4 DEF Written2
    <3>5. CASE NoMemory \/ MarkDirty
      BY <3>5 DEF NoMemory, MarkDirty
    <3> QED
      BY <1>3, <3>1, <3>2, <3>3, <3>4, <3>5 DEF Dump
  <2> QED
    BY <1>3, <2>1, OthersKeep DEF TypeOK
<1>4. CASE UNCHANGED vars
  BY <1>4 DEF TypeOK
<1> QED
  BY <1>1, <1>2, <1>3, <1>4, <1>5 DEF Next

-----------------------------------------------------------------------------
(* The invariant.                                                          *)

\* While an access is between its two steps, a part that is not marked was
\* written under it.
MarkInv == ~failed /\ dpc # "write1" /\ ~dirty1 /\ marking => raced1

IInv == TypeOK /\ SavedIsCurrent /\ MarkInv /\ DacInv /\ VbeInv /\ VirtualFits /\ ReadBack

LEMMA SavedNext ==
    ASSUME TypeOK, SavedIsCurrent, MarkInv, [Next]_vars
    PROVE  SavedIsCurrent' /\ MarkInv'
<1> USE DEF SavedIsCurrent, MarkInv
<1>1. ASSUME NEW q \in program, late = 0, Access(q[1], q[2]) PROVE SavedIsCurrent' /\ MarkInv'
  <2>1. /\ UNCHANGED <<dpc, failed, raced1, raced2, dirty1, dirty2>>
        /\ \/ marking /\ ~marking'
           \/ marking' = marking /\ fresh1' = fresh1
           \/ marking' = marking /\ late' = 1
        /\ fresh2' = fresh2 \/ late' = 2
    BY <1>1, AccessMarks
  <2> QED
    BY <1>1, <2>1
<1>2. CASE Mark
  BY <1>2 DEF Mark, dumpVars
<1>9. CASE MarkLate
  BY <1>9 DEF MarkLate, worker, dumpVars, TypeOK
<1>3. CASE Copy1
  BY <1>3 DEF Copy1, accesses
<1>4. CASE Written1
  BY <1>4 DEF Written1, accesses, TypeOK
<1>5. CASE Copy2
  BY <1>5 DEF Copy2, accesses
<1>6. CASE Written2
  BY <1>6 DEF Written2, accesses, TypeOK
<1>7. CASE NoMemory \/ MarkDirty
  BY <1>7 DEF NoMemory, MarkDirty, accesses
<1>8. CASE UNCHANGED vars
  BY <1>8 DEF vars, dumpVars
<1> QED
  BY <1>1, <1>2, <1>3, <1>4, <1>5, <1>6, <1>7, <1>8, <1>9 DEF Next, Dump

\* The values and the position in the colour under a write of a value.
LEMMA RunIs ==
    ASSUME TypeOK, DacInv, NEW v \in Bit, DataWrite(v), kind' # "mixed"
    PROVE  /\ kind' = "write" /\ run' # <<>> /\ r'.sub = Len(run') % 3
           /\ \A i \in DOMAIN run' : r'.cache[i] = run'[i]
           /\ r.sub = 2 => r'.cache = run'
<1>0. run \in Seq(Bit) /\ Len(run) <= 3 /\ r.sub \in 0 .. 2 /\ r.cache \in [1 .. 3 -> Bit]
  BY RegistersAre DEF TypeOK, Colours
<1>1. /\ run \in Seq(Bit) /\ Len(run) \in 0 .. 3 /\ DOMAIN run = 1 .. Len(run)
      /\ r.sub \in 0 .. 2 /\ r.cache \in [1 .. 3 -> Bit] /\ (run = <<>> <=> Len(run) = 0)
  <2>1. Len(run) \in Nat /\ DOMAIN run = 1 .. Len(run) /\ (run = <<>> <=> Len(run) = 0)
    BY <1>0, EmptySeq, LenProperties
  <2>2. \A n \in Nat : n <= 3 => n \in 0 .. 3
    OBVIOUS
  <2>3. Len(run) \in 0 .. 3
    BY <1>0, <2>1, <2>2, Zenon
  <2> QED
    BY <1>0, <2>1, <2>3
<1>2. /\ r'.sub = (r.sub + 1) % 3 /\ r'.cache = [r.cache EXCEPT ![r.sub + 1] = v]
      /\ run' = IF Len(run) = 3 THEN <<v>> ELSE Append(run, v)
  BY DataWriteIs DEF DataWrite, TypeOK
<1>3. kind \in {"none", "write"} /\ kind' = "write"
  BY DEF DataWrite, Also
<1>4. CASE Len(run) \in {0, 3}
  <2>1. run' = <<v>> /\ r.sub = 0
    <3>1. r.sub = 0
      BY <1>1, <1>3, <1>4 DEF DacInv
    <3>2. CASE Len(run) = 3
      BY <3>1, <3>2, <1>2
    <3>3. CASE Len(run) = 0
      BY <3>1, <3>3, <1>1, <1>2
    <3> QED
      BY <1>4, <3>2, <3>3
  <2>2. Len(run') = 1 /\ DOMAIN run' = {1} /\ run'[1] = v
    BY <2>1
  <2>3. r'.cache[1] = v /\ r'.sub = 1
    BY <1>1, <1>2, <2>1
  <2> QED
    BY <1>3, <2>1, <2>2, <2>3
<1>5. CASE Len(run) \in {1, 2}
  <2>1. run' = Append(run, v) /\ r.sub = Len(run) /\ \A i \in 1 .. Len(run) : r.cache[i] = run[i]
    <3>1. kind = "write" /\ r.sub = Len(run) % 3
      BY <1>1, <1>3, <1>5 DEF DacInv
    <3>2. \A i \in 1 .. Len(run) : r.cache[i] = run[i]
      BY <1>1, <3>1 DEF DacInv
    <3>3. 1 % 3 = 1 /\ 2 % 3 = 2
      OBVIOUS
    <3>4. r.sub = Len(run)
      BY <1>5, <3>1, <3>3, Zenon
    <3>5. Len(run) # 3
      BY <1>5
    <3>6. run' = Append(run, v)
      BY <1>2, <3>5
    <3> QED
      BY <3>2, <3>4, <3>6
  <2>2. /\ run' \in Seq(Bit) /\ Len(run') = Len(run) + 1 /\ DOMAIN run' = 1 .. Len(run) + 1
        /\ run'[Len(run) + 1] = v /\ \A i \in 1 .. Len(run) : run'[i] = run[i]
    BY <1>1, <2>1
  <2>3. \A i \in 1 .. Len(run) + 1 : r'.cache[i] = run'[i]
    BY <1>1, <1>2, <1>5, <2>1, <2>2
  <2>4. r'.sub = Len(run') % 3
    BY <1>2, <2>1, <2>2
  <2>5. ASSUME r.sub = 2 PROVE r'.cache = run'
    <3>1. r'.cache \in [1 .. 3 -> Bit] /\ Len(run) = 2
      BY <1>1, <1>2, <2>1, <2>5
    <3>2. run' \in [1 .. 3 -> Bit]
      BY <2>2, <3>1
    <3> QED
      BY <2>3, <3>1, <3>2
  <2> QED
    BY <1>3, <2>2, <2>3, <2>4, <2>5
<1> QED
  BY <1>1, <1>4, <1>5

LEMMA DacNext ==
    ASSUME TypeOK, VbeInv, VirtualFits, DacInv, [Next]_vars
    PROVE  /\ DacInv'
           /\ \A e \in DOMAIN pal : pal'[e] # pal[e] /\ kind' # "mixed" => pal'[e] = run'
<1> DEFINE Goal ==
           /\ DacInv'
           /\ \A e \in DOMAIN pal : pal'[e] # pal[e] /\ kind' # "mixed" => pal'[e] = run'
<1>1. ASSUME r'.sub = r.sub, r'.cache = r.cache, UNCHANGED <<pal, run, kind>> PROVE Goal
  BY <1>1 DEF DacInv
<1>2. ASSUME NEW v \in 0 .. 1, ReadIndexWrite(v) \/ WriteIndexWrite(v) PROVE Goal
  <2>1. r'.sub = 0 /\ run' = <<>> /\ kind' = "none" /\ UNCHANGED pal
    BY <1>2, ReadIndexIs, WriteIndexIs DEF TypeOK, ReadIndexWrite, WriteIndexWrite, Change, NoRun
  <2> QED
    BY <2>1 DEF DacInv
<1>3. CASE DataRead
  <2>1. UNCHANGED pal /\ kind' \notin {"none", "write"}
    BY <1>3 DEF DataRead, Change, Also
  <2> QED
    BY <2>1 DEF DacInv
<1>4. ASSUME NEW v \in Bit, DataWrite(v) PROVE Goal
  <2>1. kind' # "none"
    BY <1>4 DEF DataWrite, Also
  <2>2. DacInv'
    BY <1>4, <2>1, RunIs DEF DacInv
  <2>3. /\ pal \in [0 .. Entries - 1 -> Colours]
        /\ pal' = IF r.sub = 2 THEN [pal EXCEPT ![r.wrIndex] = r'.cache] ELSE pal
    BY <1>4, DataWriteIs DEF DataWrite, SetPart2, TypeOK
  <2>4. \A e \in DOMAIN pal : pal'[e] # pal[e] => r.sub = 2 /\ pal'[e] = r'.cache
    BY <2>3
  <2> QED
    BY <1>4, <2>2, <2>4, RunIs
<1>5. ASSUME NEW q \in program, Access(q[1], q[2]) PROVE Goal
  <2>1. q[2] \in Values(q[1])
    BY ProgramsAssumption DEF TypeOK
  <2>2. Outcome
    BY <1>5, <2>1, AccessIs DEF TypeOK
  <2> QED
    BY <2>2, <1>1, <1>2, <1>3, <1>4 DEF Outcome, DacAccess, SameDac
<1>6. CASE Mark \/ MarkLate \/ Dump
  BY <1>1, <1>6, OthersKeep
<1>7. CASE UNCHANGED vars
  BY <1>1, <1>7 DEF vars, dacHist
<1> QED
  BY <1>5, <1>6, <1>7 DEF Next

LEMMA VbeNext ==
    ASSUME TypeOK, VbeInv, VirtualFits, [Next]_vars
    PROVE  VbeInv' /\ VirtualFits'
<1>1. ASSUME NEW q \in program, Access(q[1], q[2]) PROVE VbeInv' /\ VirtualFits'
  <2>1. q[2] \in Values(q[1])
    BY ProgramsAssumption DEF TypeOK
  <2> QED
    BY <1>1, <2>1, AccessIs DEF TypeOK, Outcome
<1>2. CASE UNCHANGED r
  BY <1>2 DEF VbeInv, VirtualFits
<1> QED
  BY <1>1, <1>2, OthersKeep DEF Next, vars

LEMMA ReadBackNext ==
    ASSUME TypeOK, VbeInv, VirtualFits, ReadBack, [Next]_vars
    PROVE  ReadBack'
<1>1. CASE last' = None
  BY <1>1 DEF ReadBack
<1>2. ASSUME SameMem(r'), UNCHANGED <<vram, last>> PROVE ReadBack'
  <2>1. ASSUME NEW a PROVE Offset(a)' = Offset(a)
    BY <1>2 DEF SameMem, Offset
  <2>2. ASSUME NEW o PROVE Source(o)' = Source(o)
    BY <1>2 DEF SameMem, Source, OddEvenCell, OddEvenPlane
  <2>3. Source(Offset(last.addr))' = Source(Offset(last.addr))
    BY <1>2 DEF SameMem, Source, OddEvenCell, OddEvenPlane, Offset
  <2> QED
    BY <1>2, <2>3 DEF ReadBack
<1>3. ASSUME NEW a \in Addresses, NEW b \in BOOLEAN, NEW n \in SUBSET Planes, Store(a, b, n),
             last' # None
      PROVE  ReadBack'
  <2> DEFINE o == Offset(a)
  <2>1. /\ vram' = (vram \ Touched(o)) \cup Stored(o, b, n) /\ UNCHANGED r /\ o # None
        /\ Straight /\ Source(o) % 4 \in r.mask /\ last' = [addr |-> a, bit |-> b]
    BY <1>3 DEF Store
  <2>2. o \in Nat
    BY <2>1, OffsetIs DEF TypeOK
  <2>3. last'.addr = a /\ last'.bit = b
    BY <2>1
  <2>4. Source(Offset(last.addr))' = Source(o)
    BY <2>1, <2>3 DEF Source, OddEvenCell, OddEvenPlane, Offset
  <2> HIDE DEF o
  <2>5. Source(o) \in vram' <=> b
    BY <2>1, <2>2, StoreIs DEF TypeOK
  <2> QED
    BY <2>3, <2>4, <2>5 DEF ReadBack
<1>4. ASSUME NEW q \in program, Access(q[1], q[2]) PROVE ReadBack'
  <2>1. q[2] \in Values(q[1])
    BY ProgramsAssumption DEF TypeOK
  <2>2. Outcome
    BY <1>4, <2>1, AccessIs DEF TypeOK
  <2> QED
    BY <2>2, <1>1, <1>2, <1>3 DEF Outcome, StoreAccess
<1>5. CASE UNCHANGED <<r, vram, last>>
  BY <1>2, <1>5 DEF SameMem
<1> QED
  BY <1>4, <1>5, OthersKeep DEF Next, vars, memVars

-----------------------------------------------------------------------------
(* The theorems.                                                           *)

LEMMA InvInit == Init => IInv
<1> SUFFICES ASSUME Init PROVE IInv
  OBVIOUS
<1>1. TypeOK
  BY TypeInit
<1>2. SavedIsCurrent /\ MarkInv /\ ReadBack
  BY DEF Init, SavedIsCurrent, MarkInv, ReadBack
<1>3. r.sub = 0 /\ r.line = 0 /\ r.vbe = [i \in VbeRegs |-> 0] /\ kind = "none" /\ run = <<>>
  BY DEF Init, InitRegs
<1>4. VbeInv /\ VirtualFits
  BY <1>3 DEF VbeInv, VirtualFits, VbeRegs, VramSize
<1> QED
  BY <1>1, <1>2, <1>3, <1>4 DEF IInv, DacInv

LEMMA InvNext == IInv /\ [Next]_vars => IInv'
<1> SUFFICES ASSUME IInv, [Next]_vars PROVE IInv'
  OBVIOUS
<1> USE DEF IInv
<1>1. TypeOK' /\ SavedIsCurrent' /\ MarkInv'
  BY TypeNext, SavedNext
<1>2. DacInv' /\ VbeInv' /\ VirtualFits' /\ ReadBack'
  BY DacNext, VbeNext, ReadBackNext
<1> QED
  BY <1>1, <1>2

LEMMA InvAlways == Spec => []IInv
BY InvInit, InvNext, PTL DEF Spec

\* The saved registers, the palette, video memory and the history of the colours
\* and stores keep their types (device.c:339-437).
THEOREM TypeCorrect == Spec => []TypeOK
<1>1. IInv => TypeOK
  BY DEF IInv
<1> QED
  BY <1>1, InvAlways, PTL

\* A part that is not marked is as the last record says, but where it changed
\* under the writing (device.c:201-255).
THEOREM SavedIsCurrentCorrect == Spec => []SavedIsCurrent
<1>1. IInv => SavedIsCurrent
  BY DEF IInv
<1> QED
  BY <1>1, InvAlways, PTL

\* Straight stores are read back in each way to address the planes
\* (device.c:749-781, 827-939).
THEOREM ReadBackCorrect == Spec => []ReadBack
<1>1. IInv => ReadBack
  BY DEF IInv
<1> QED
  BY <1>1, InvAlways, PTL

\* The virtual screen fits, whatever was set in whatever order
\* (device.c:1094-1105, 1149-1165).
THEOREM VirtualFitsCorrect == Spec => []VirtualFits
<1>1. IInv => VirtualFits
  BY DEF IInv
<1> QED
  BY <1>1, InvAlways, PTL

\* A colour changes to the three values the guest wrote (device.c:531-539,
\* 640-659).
THEOREM ColoursAreWholeCorrect == Spec => ColoursAreWhole
<1>1. IInv /\ [Next]_vars
      => [\A e \in DOMAIN pal : pal'[e] # pal[e] /\ kind' # "mixed" => pal'[e] = run']_vars
  BY DacNext DEF IInv
<1> QED
  BY <1>1, InvAlways, PTL DEF Spec, ColoursAreWhole

=============================================================================
