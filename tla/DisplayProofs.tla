--------------------------- MODULE DisplayProofs ---------------------------
(***************************************************************************)
(* Proofs about Display: for any picture, video memory and geometries, and *)
(* any number of writes, moves and datagrams, the picture is current after *)
(* a refresh but for the exceptions PictureIsCurrent names, only blank and *)
(* 32-bit pictures spoil the guest's memory, and the console's assertion   *)
(* fails after an empty datagram only.                                     *)
(*                                                                         *)
(* At each line that is not current something remembers it: Xen's record,  *)
(* what a move has lost of it, the page that a move has left behind (Seen) *)
(* and, until the line is drawn, the dirty map or the full update.  What   *)
(* carries this over from one refresh to the next is that a refresh that   *)
(* is not a full one finds the picture where the last one left it.         *)
(*                                                                         *)
(* And about Lifecycle, in the second part: whichever instruction of the   *)
(* start a signal or a failure finds, the teardown undoes each thing while *)
(* it is there, after what uses it, and leaves nothing that would outlive  *)
(* the process.  Before a teardown what is there is what the main thread   *)
(* has made (StartInv); in one, what lies behind it is gone and, in the    *)
(* first, what lies ahead is still there (EndInv).                         *)
(***************************************************************************)
EXTENDS Display, Lifecycle, TLAPS

CountInv ==
    /\ rpc # "idle" => active
    /\ active /\ ~empty => scount > 0
    /\ failed => empty

\* A surface sized by the VGA is in the guest's memory at 32 bits only.
SurfaceInv ==
    /\ ~taken /\ s.size # None /\ s.offset # Host => s.depth = 32
    /\ rpc # "idle" /\ s.mode = "text" => vga.big \/ (s.size # None /\ s.depth = 0)
    /\ rpc # "idle" /\ s.mode = "graphic" => s.size # None /\ s.depth = vga.depth
    /\ rpc # "idle" => s.mode # None
    /\ rpc = "lines" => s.mode # "blank" /\ ~vga.big
    /\ vga.big => vga.mode = "text"
    /\ rpc # "idle" /\ s.mode = "graphic" => ~vga.big
    /\ resuming => s.offset # Host /\ rpc = "idle"

\* The next move goes where no page is.
MovesInv == addr <= moves /\ \A p \in Pages : at[p] <= moves

\* Line l is current, Xen's record of it is awaited or was lost, or the plugin drew over it.
Seen(l) ==
    \/ host[l] = mem[Source(l)] \/ Source(l) \in log \cup lost
    \/ at[Source(l)] # addr
    \/ l \in over

\* Line l is still to be drawn.
Ahead(l) == rpc = "lines" /\ y <= l

GraphicInv ==
    \A l \in 1 .. Lines :
        Seen(l) \/ (Source(l) \in map /\ (rpc = "idle" \/ Ahead(l))) \/ (full /\ Ahead(l))

TextInv ==
    \A l \in 1 .. Lines :
        /\ host[l] = last[l] \/ l \in over \/ (full /\ Ahead(l))
        /\ Seen(l) \/ rpc = "idle" \/ Ahead(l) \/ vga.big

PictureInv ==
    s.offset = Host /\ ~skipped => (s.mode = "graphic" => GraphicInv) /\ (s.mode = "text" => TextInv)

IInv == TypeOK /\ CountInv /\ SurfaceInv /\ MovesInv /\ OnlyDirectSpoils /\ PictureInv

-----------------------------------------------------------------------------
(* Pages and surfaces.                                                     *)

LEMMA ConstantsAre ==
    /\ Lines \in Nat \ {0} /\ Starts \subseteq Nat /\ 0 \in Starts /\ Pages \subseteq Nat
    /\ TextSize \in Geometries /\ None \notin Geometries /\ Refreshes \in Nat \ {0}
    /\ MaxWrites \in Nat /\ MaxAsks \in Nat /\ MaxMoves \in Nat /\ MaxTurns \in Nat
    /\ Host = -1 /\ Host \notin Starts /\ Blank \in Content /\ Pixels \in Content
BY DisplayAssumption DEF None, Host, PluginFrame, Blank, Pixels, Content

LEMMA SurfaceIs ==
    ASSUME TypeOK
    PROVE  /\ s.mode \in {None, "blank", "text", "graphic"} /\ s.size \in Sizes
           /\ s.depth \in Depths /\ s.pitch \in Pitches /\ s.lastPitch \in Pitches
           /\ s.start \in Starts /\ s.start \in Nat /\ s.offset \in Starts \cup {Host}
BY ConstantsAre DEF TypeOK, Surface

LEMMA VgaIs ==
    ASSUME TypeOK
    PROVE  /\ vga.mode \in {"blank", "text", "graphic"} /\ vga.depth \in Depths
           /\ vga.size \in Geometries /\ vga.start \in Starts
           /\ vga.big \in BOOLEAN /\ (vga.big => vga.mode = "text")
           /\ Pitch \in Pitches
BY DEF TypeOK, Registers, Pitch, Pitches, Sizes

\* Each line of the picture has a page of its own.
LEMMA SourceIs ==
    ASSUME TypeOK
    PROVE  /\ \A l \in 1 .. Lines : Source(l) \in Pages
           /\ \A k, l \in 1 .. Lines : Source(k) = Source(l) => k = l
<1>1. s.start \in Starts /\ s.start \in Nat /\ Lines \in Nat
  BY SurfaceIs, ConstantsAre
<1>2. \A l \in 1 .. Lines : Source(l) \in Pages
  BY <1>1, DisplayAssumption DEF Source
<1> QED
  BY <1>1, <1>2 DEF Source

\* What the clearing of a new mode writes are pages of video memory.
LEMMA FirstLines == 0 .. Lines - 1 \subseteq Pages
<1> SUFFICES ASSUME NEW p \in 0 .. Lines - 1 PROVE p \in Pages
  OBVIOUS
<1>1. p + 1 \in 1 .. Lines /\ 0 + (p + 1) - 1 = p
  BY ConstantsAre
<1>2. 0 \in Starts
  BY ConstantsAre
<1> QED
  BY <1>1, <1>2, DisplayAssumption

\* What the size of the surface becomes (surface_draw_text, surface_draw_graphic).
LEMMA ResizedIs ==
    ASSUME TypeOK, vga.mode # "blank",
           s' = Resized([s EXCEPT !.mode = vga.mode, !.pitch = Pitch, !.start = vga.start])
    PROVE  /\ s' \in Surface
           /\ s'.mode = vga.mode /\ s'.start = vga.start /\ s'.size # None
           /\ s'.depth = Depth
           /\ Resizes => s'.offset = IF Depth = 32 THEN vga.start ELSE Host
           /\ ~Resizes => s'.offset = s.offset /\ s'.size = s.size /\ s'.depth = s.depth
<1> DEFINE t == [s EXCEPT !.mode = vga.mode, !.pitch = Pitch, !.start = vga.start]
           size == IF vga.mode = "text" THEN TextSize ELSE vga.size
<1>1. /\ t \in Surface /\ t.mode = vga.mode /\ t.start = vga.start
      /\ t.offset = s.offset /\ t.size = s.size /\ t.depth = s.depth
  BY SurfaceIs, VgaIs DEF TypeOK, Surface, None
<1>2. Depth \in Depths /\ size \in Sizes /\ size # None /\ vga.start \in Starts
  BY VgaIs, ConstantsAre DEF Depth, Depths, Sizes
<1> HIDE DEF t
<1>3. CASE Resizes
  <2>1. s' = [t EXCEPT !.size = size, !.depth = Depth,
                       !.lastPitch = IF vga.mode = "text" THEN @ ELSE Pitch,
                       !.offset = IF Depth = 32 THEN vga.start ELSE Host]
    BY <1>3 DEF Resized, t
  <2> HIDE DEF size
  <2> QED
    BY <2>1, <1>1, <1>2, <1>3, VgaIs DEF Surface
<1>4. CASE ~Resizes
  <2>1. s' = t
    BY <1>4 DEF Resized, t
  <2>2. s.size # None /\ s.depth = Depth
    BY <1>4, VgaIs, ConstantsAre DEF Resizes, TextResizes, GraphicResizes, Depth
  <2> QED
    BY <2>1, <2>2, <1>1, <1>4
<1> QED
  BY <1>3, <1>4

-----------------------------------------------------------------------------
(* Types.                                                                  *)

LEMMA TypeInit == Init => TypeOK
<1> SUFFICES ASSUME Init PROVE TypeOK
  OBVIOUS
<1>1. mem \in [Pages -> Content] /\ writes \in 0 .. MaxWrites
  <2>1. \A p \in Pages : [page |-> p, write |-> 0] \in Content
    BY ConstantsAre DEF Content
  <2> QED
    BY <2>1, ConstantsAre DEF Init
<1>2. s \in Surface
  <2>1. None \in Sizes /\ 0 \in Depths /\ <<None, 0>> \in Pitches /\ 0 \in Starts
    BY ConstantsAre DEF Sizes, Depths, Pitches
  <2> QED
    BY <2>1 DEF Init, Surface
<1>3. /\ at \in [Pages -> 0 .. MaxMoves] /\ addr \in 0 .. MaxMoves /\ moves \in 0 .. MaxMoves
      /\ lfb \in 0 .. MaxMoves /\ dest \in Starts \cup {Host} /\ turns \in 0 .. MaxTurns /\ y \in 1 .. Lines + 1 /\ scount \in 0 .. Refreshes
  BY ConstantsAre DEF Init
<1>4. host \in [1 .. Lines -> Content] /\ last \in [1 .. Lines -> Content]
  BY ConstantsAre DEF Init
<1> QED
  BY <1>1, <1>2, <1>3, <1>4 DEF Init, TypeOK

\* The end of a refresh (demu_console_refresh).
LEMMA CountDownIs ==
    ASSUME TypeOK, CountDown
    PROVE  /\ scount' \in 0 .. Refreshes /\ failed' \in BOOLEAN
           /\ armed' \in BOOLEAN /\ active' \in BOOLEAN
<1>1. scount \in 0 .. Refreshes /\ Refreshes \in Nat
  BY ConstantsAre DEF TypeOK
<1>2. scount' = IF scount = 0 THEN scount ELSE scount - 1
  BY DEF CountDown
<1>3. scount' \in 0 .. Refreshes
  BY <1>1, <1>2
<1> QED
  BY <1>3 DEF TypeOK, CountDown, Stopped

LEMMA TypeNext ==
    ASSUME TypeOK, [Next]_vars
    PROVE  TypeOK'
<1> USE DEF vars, vramVars, surfaceVars, mainVars, guestVars, frameVars
<1>1. ASSUME NEW r \in Registers, SetMode(r) PROVE TypeOK'
  BY <1>1, ConstantsAre DEF TypeOK, SetMode, Turn
<1>2. ASSUME NEW p \in Pages, GuestWrite(p) \/ DeviceWrite(p) PROVE TypeOK'
  <2>1. writes' \in 0 .. MaxWrites
    BY <1>2, ConstantsAre DEF TypeOK, GuestWrite, DeviceWrite
  <2>2. [page |-> p, write |-> writes'] \in Content
    BY <2>1 DEF Content
  <2>3. mem' \in [Pages -> Content]
    BY <2>2, <1>2 DEF TypeOK, GuestWrite, DeviceWrite
  <2>4. log' \subseteq Pages /\ map' \subseteq Pages
    BY <1>2 DEF TypeOK, GuestWrite, DeviceWrite
  <2>5. UNCHANGED <<at, addr, lfb, resuming, moves, lost, surfaceVars, mainVars, guestVars, frameVars>>
    BY <1>2 DEF GuestWrite, DeviceWrite
  <2> QED
    BY ONLY TypeOK, <2>1, <2>3, <2>4, <2>5 DEF TypeOK, surfaceVars, mainVars, guestVars, frameVars
<1>3. ASSUME NEW n \in 1 .. Cardinality(Pages), Move(n) PROVE TypeOK'
  <2>1. moves' \in 0 .. MaxMoves /\ addr' \in 0 .. MaxMoves /\ lfb' \in 0 .. MaxMoves
    BY <1>3, ConstantsAre DEF TypeOK, Move
  <2>2. at' \in [Pages -> 0 .. MaxMoves]
    BY <2>1, <1>3 DEF TypeOK, Move
  <2>3. log' \subseteq Pages /\ lost' \subseteq Pages
    BY <1>3 DEF TypeOK, Move
  <2> QED
    BY <2>1, <2>2, <2>3, <1>3 DEF TypeOK, Move
<1>4. CASE SetVgaState \/ MoveResuming \/ MapVram
  <2>1. CASE SetVgaState
    BY <2>1 DEF TypeOK, SetVgaState
  <2>2. CASE MoveResuming
    BY <2>2, ConstantsAre DEF TypeOK, MoveResuming
  <2>3. CASE MapVram
    <3>1. at' \in [Pages -> 0 .. MaxMoves] /\ resuming' \in BOOLEAN
      BY <2>3 DEF TypeOK, MapVram
    <3>2. UNCHANGED <<mem, writes, log, map, addr, lfb, moves, lost, surfaceVars, mainVars, guestVars,
                      frameVars>>
      BY <2>3 DEF MapVram
    <3> QED
      BY ONLY TypeOK, <3>1, <3>2 DEF TypeOK, surfaceVars, mainVars, guestVars, frameVars
  <2> QED
    BY <1>4, <2>1, <2>2, <2>3
<1>5. ASSUME NEW g \in Geometries, NEW d \in BOOLEAN, Configure(g, d) PROVE TypeOK'
  <2>1. s' \in Surface
    <3>1. /\ s' = [s EXCEPT !.offset = 0, !.size = g] /\ s \in Surface
          /\ g \in Sizes /\ 0 \in Starts \cup {Host}
      BY <1>5, ConstantsAre DEF TypeOK, Configure, Sizes
    <3> QED
      BY ONLY <3>1 DEF Surface
  <2>2. /\ pcfg' \in Geometries \cup {None} /\ taken' \in BOOLEAN /\ turns' \in 0 .. MaxTurns
        /\ UNCHANGED <<vga, inVga, vramVars, host, last, over, skipped, spoilt, mainVars, frameVars>>
    <3>1. pcfg' = g /\ taken' = TRUE /\ turns < MaxTurns /\ turns' = turns + 1
      BY <1>5 DEF Configure, Turn
    <3>2. turns \in Nat /\ MaxTurns \in Nat
      BY ConstantsAre DEF TypeOK
    <3> QED
      BY <1>5, <3>1, <3>2 DEF Configure
  <2> QED
    BY <2>1, <2>2 DEF TypeOK
<1>6. CASE Tick \/ StaleTick
  <2>1. /\ tick' \in BOOLEAN
        /\ UNCHANGED <<vramVars, surfaceVars, guestVars, frameVars, rpc, y, full, redraw, active, scount,
                       armed, asks, failed, empty>>
    BY <1>6 DEF Tick, StaleTick
  <2> QED
    BY ONLY TypeOK, <2>1 DEF TypeOK
<1>7. ASSUME NEW b \in BOOLEAN, NEW ok \in BOOLEAN, SocketRead(b, ok) PROVE TypeOK'
  <2>1. scount' \in 0 .. Refreshes
    BY <1>7, ConstantsAre DEF TypeOK, SocketRead
  <2>2. active' \in BOOLEAN /\ armed' \in BOOLEAN /\ redraw' \in BOOLEAN /\ empty' \in BOOLEAN
    BY <1>7 DEF TypeOK, SocketRead
  <2> QED
    BY <2>1, <2>2, <1>7 DEF TypeOK, SocketRead
<1>8. CASE RefreshElsewhere
  BY <1>8, CountDownIs DEF TypeOK, RefreshElsewhere
<1>9. CASE RefreshBlank
  <2>1. s' \in Surface
    BY <1>9 DEF TypeOK, RefreshBlank, Surface
  <2>2. mem' \in [Pages -> Content] /\ host' \in [1 .. Lines -> Content] /\ over' \subseteq 1 .. Lines
    BY <1>9, ConstantsAre DEF TypeOK, RefreshBlank
  <2> QED
    BY <2>1, <2>2, <1>9 DEF TypeOK, RefreshBlank
<1>10. ASSUME NEW ok \in BOOLEAN, RefreshStart(ok) PROVE TypeOK'
  <2>1. s' \in Surface
    BY <1>10, ResizedIs DEF RefreshStart
  <2>2. map' \subseteq Pages /\ log' \subseteq Pages
    BY <1>10 DEF TypeOK, RefreshStart, Sync
  <2>3. y' \in 1 .. Lines + 1
    BY <1>10, ConstantsAre DEF RefreshStart
  <2>4. rpc' = "lines" /\ full' \in BOOLEAN /\ redraw' \in BOOLEAN /\ tick' \in BOOLEAN
        /\ taken' \in BOOLEAN /\ skipped' \in BOOLEAN
    BY <1>10 DEF TypeOK, RefreshStart
  <2> QED
    BY <2>1, <2>2, <2>3, <2>4, <1>10 DEF TypeOK, RefreshStart
<1>11. CASE DrawLine
  <2>1. y' \in 1 .. Lines + 1 /\ y \in 1 .. Lines
    BY <1>11, ConstantsAre DEF TypeOK, DrawLine
  <2>2. mem[Source(y)] \in Content
    BY <2>1, SourceIs DEF TypeOK
  <2>3. /\ mem' \in [Pages -> Content] /\ host' \in [1 .. Lines -> Content]
        /\ last' \in [1 .. Lines -> Content] /\ over' \subseteq 1 .. Lines
    BY <2>2, <1>11 DEF TypeOK, DrawLine, Draw
  <2>4. lost' \subseteq Pages
    BY <1>11 DEF TypeOK, DrawLine
  <2> QED
    BY <2>1, <2>3, <2>4, <1>11 DEF TypeOK, DrawLine
<1>12. CASE DrawEnd
  <2>1. y' \in 1 .. Lines + 1
    BY <1>12, ConstantsAre DEF DrawEnd
  <2>2. map' \subseteq Pages
    BY <1>12 DEF TypeOK, DrawEnd
  <2>3. /\ rpc' \in {"idle", "lines", "done"} /\ full' \in BOOLEAN
        /\ UNCHANGED <<surfaceVars, guestVars, frameVars, mem, writes, log, at, addr, lfb, resuming,
                       moves, lost, redraw, active, scount, armed, tick, asks, failed, empty>>
    BY <1>12 DEF DrawEnd
  <2> QED
    BY ONLY TypeOK, <2>1, <2>2, <2>3 DEF TypeOK, surfaceVars, guestVars, frameVars
<1>13. CASE RefreshEnd
  BY <1>13, CountDownIs DEF TypeOK, RefreshEnd
<1>14. CASE UNCHANGED vars
  BY <1>14 DEF TypeOK
<1>15. ASSUME NEW r \in Registers, Enable(r) PROVE TypeOK'
  <2>1. turns' \in 0 .. MaxTurns /\ lfb' \in 0 .. MaxMoves
    BY <1>15, ConstantsAre DEF TypeOK, Enable, Turn
  <2>2. mem' \in [Pages -> Content]
    BY <1>15, ConstantsAre DEF TypeOK, Enable
  <2>3. lost' \subseteq Pages
    BY <1>15, FirstLines DEF TypeOK, Enable
  <2> QED
    BY <2>1, <2>2, <2>3, <1>15 DEF TypeOK, Enable
<1>16. CASE TakeBuffer \/ CopyFails
  <2>1. dest' \in Starts \cup {Host} /\ left' \subseteq 1 .. Lines
    BY <1>16, SurfaceIs DEF TypeOK, TakeBuffer, CopyFails
  <2>2. UNCHANGED <<vramVars, surfaceVars, mainVars, guestVars>>
    BY <1>16 DEF TakeBuffer, CopyFails
  <2> QED
    BY ONLY TypeOK, <2>1, <2>2 DEF TypeOK, vramVars, surfaceVars, mainVars, guestVars
<1>17. ASSUME NEW l \in 1 .. Lines, CopyLine(l) PROVE TypeOK'
  <2>1. dest # Host => dest + l - 1 \in Pages
    BY DisplayAssumption DEF TypeOK
  <2>2. mem' \in [Pages -> Content] /\ host' \in [1 .. Lines -> Content]
    BY <1>17, ConstantsAre DEF TypeOK, CopyLine
  <2>3. lost' \subseteq Pages /\ over' \subseteq 1 .. Lines /\ left' \subseteq 1 .. Lines
    BY <1>17, <2>1 DEF TypeOK, CopyLine
  <2> QED
    BY <2>2, <2>3, <1>17 DEF TypeOK, CopyLine
<1>18. CASE RefreshTooBig
  <2>1. s' \in Surface
    BY <1>18, SurfaceIs, VgaIs DEF RefreshTooBig, TypeOK, Surface
  <2>2. skipped' \in BOOLEAN
    BY <1>18 DEF TypeOK, RefreshTooBig
  <2> QED
    BY <2>1, <2>2, <1>18 DEF TypeOK, RefreshTooBig
<1> QED
  BY <1>1, <1>2, <1>3, <1>4, <1>5, <1>6, <1>7, <1>8, <1>9, <1>10, <1>11, <1>12, <1>13, <1>14,
     <1>15, <1>16, <1>17, <1>18
  DEF Next

-----------------------------------------------------------------------------
(* The refreshes left and the surface.                                     *)

LEMMA CountNext ==
    ASSUME TypeOK, CountInv, [Next]_vars
    PROVE  CountInv'
<1> USE DEF vars, vramVars, surfaceVars, mainVars, guestVars, frameVars
<1>0. Refreshes > 0 /\ scount \in Nat
  BY ConstantsAre DEF TypeOK
<1>1. ASSUME CountDown, rpc' = "idle", empty' = empty, active PROVE CountInv'
  <2>1. scount > 0 \/ empty
    BY <1>0, <1>1 DEF CountInv
  <2>2. CASE scount = 0
    BY <2>1, <2>2, <1>0, <1>1 DEF CountInv, CountDown
  <2>3. CASE scount # 0
    <3>1. scount' = scount - 1 /\ failed' = failed
      BY <1>1, <2>3 DEF CountDown
    <3>2. (scount = 1 /\ active' = FALSE) \/ scount > 1
      BY <1>1, <2>3 DEF CountDown, Stopped
    <3>3. active' = FALSE \/ scount' > 0
      BY <1>0, <3>1, <3>2
    <3> QED
      BY <1>1, <3>1, <3>3 DEF CountInv
  <2> QED
    BY <2>2, <2>3
<1>2. ASSUME NEW b \in BOOLEAN, NEW ok \in BOOLEAN, SocketRead(b, ok) PROVE CountInv'
  BY <1>0, <1>2 DEF CountInv, SocketRead, Idle
<1>3. CASE RefreshElsewhere
  BY <1>1, <1>3 DEF RefreshElsewhere, Idle
<1>4. CASE RefreshEnd
  BY <1>1, <1>4 DEF RefreshEnd, CountInv
<1>5. CASE UNCHANGED <<active, empty, scount, failed>> /\ (rpc' # "idle" => rpc # "idle" \/ active)
  BY <1>5 DEF CountInv
<1>6. ASSUME NEW r \in Registers, SetMode(r) PROVE CountInv'
  BY <1>5, <1>6 DEF SetMode
<1>7. ASSUME NEW p \in Pages, GuestWrite(p) \/ DeviceWrite(p) PROVE CountInv'
  BY <1>5, <1>7 DEF GuestWrite, DeviceWrite
<1>8. ASSUME NEW n \in 1 .. Cardinality(Pages), Move(n) PROVE CountInv'
  BY <1>5, <1>8 DEF Move
<1>9. ASSUME NEW g \in Geometries, NEW d \in BOOLEAN, Configure(g, d) PROVE CountInv'
  BY <1>5, <1>9 DEF Configure
<1>10. CASE SetVgaState \/ MoveResuming \/ MapVram \/ Tick \/ StaleTick
  BY <1>5, <1>10 DEF SetVgaState, MoveResuming, MapVram, Tick, StaleTick
<1>15. ASSUME NEW r \in Registers, Enable(r) PROVE CountInv'
  BY <1>5, <1>15 DEF Enable
<1>16. CASE TakeBuffer \/ CopyFails \/ \E l \in 1 .. Lines : CopyLine(l)
  BY <1>5, <1>16 DEF TakeBuffer, CopyFails, CopyLine
<1>11. CASE RefreshBlank \/ RefreshTooBig
  <2>1. active /\ UNCHANGED <<active, empty, scount, failed>>
    BY <1>11 DEF RefreshBlank, RefreshTooBig
  <2> QED
    BY <2>1, <1>5
<1>14. ASSUME NEW ok \in BOOLEAN, RefreshStart(ok) PROVE CountInv'
  BY <1>5, <1>14 DEF RefreshStart
<1>12. CASE DrawLine \/ DrawEnd
  BY <1>5, <1>12 DEF DrawLine, DrawEnd
<1>13. CASE UNCHANGED vars
  BY <1>5, <1>13
<1> QED
  BY <1>2, <1>3, <1>4, <1>6, <1>7, <1>8, <1>9, <1>10, <1>11, <1>12, <1>13, <1>14, <1>15, <1>16
  DEF Next

LEMMA SurfaceNext ==
    ASSUME TypeOK, SurfaceInv, [Next]_vars
    PROVE  SurfaceInv'
<1> USE DEF vars, vramVars, surfaceVars, mainVars, guestVars, frameVars
<1>1. CASE UNCHANGED <<vga, s, taken, resuming>> /\ (rpc' # "idle" => rpc # "idle") /\ (rpc' = "lines" => rpc = "lines")
  BY <1>1 DEF SurfaceInv
<1>2. ASSUME NEW r \in Registers, SetMode(r) \/ Enable(r) PROVE SurfaceInv'
  BY <1>2 DEF SetMode, Enable, Idle, SurfaceInv, Registers
<1>3. ASSUME NEW p \in Pages, GuestWrite(p) \/ DeviceWrite(p) PROVE SurfaceInv'
  BY <1>1, <1>3 DEF GuestWrite, DeviceWrite
<1>4. ASSUME NEW n \in 1 .. Cardinality(Pages), Move(n) PROVE SurfaceInv'
  BY <1>1, <1>4 DEF Move
<1>5. ASSUME NEW g \in Geometries, NEW d \in BOOLEAN, Configure(g, d) PROVE SurfaceInv'
  BY <1>5 DEF Configure, Idle, SurfaceInv
<1>6. CASE SetVgaState \/ MoveResuming \/ Tick \/ StaleTick \/ RefreshElsewhere
  BY <1>1, <1>6 DEF SetVgaState, MoveResuming, Tick, StaleTick, RefreshElsewhere
<1>12. CASE MapVram
  BY <1>12 DEF MapVram, SurfaceInv
<1>13. CASE TakeBuffer \/ CopyFails \/ \E l \in 1 .. Lines : CopyLine(l)
  BY <1>1, <1>13 DEF TakeBuffer, CopyFails, CopyLine
<1>14. CASE RefreshTooBig
  <2>1. s'.mode = "text" /\ s'.size = s.size /\ s'.offset = s.offset /\ s'.depth = s.depth
    BY <1>14 DEF RefreshTooBig, TypeOK, Surface
  <2>2. vga.big /\ rpc' = "done" /\ ~resuming /\ UNCHANGED <<vga, taken, resuming>>
    BY <1>14 DEF RefreshTooBig, Idle
  <2> QED
    BY <2>1, <2>2 DEF SurfaceInv, None
<1>7. ASSUME NEW b \in BOOLEAN, NEW ok \in BOOLEAN, SocketRead(b, ok) PROVE SurfaceInv'
  BY <1>1, <1>7 DEF SocketRead
<1>8. CASE RefreshBlank
  <2>1. s'.mode = "blank" /\ s'.size = s.size /\ s'.offset = s.offset /\ s'.depth = s.depth
    BY <1>8 DEF RefreshBlank, TypeOK, Surface
  <2>2. ~resuming /\ rpc' = "done" /\ UNCHANGED <<vga, taken, resuming>>
    BY <1>8 DEF RefreshBlank, Idle
  <2> QED
    BY <2>1, <2>2 DEF SurfaceInv, None
<1>9. ASSUME NEW ok \in BOOLEAN, RefreshStart(ok) PROVE SurfaceInv'
  <2>1. /\ s'.mode = vga.mode /\ s'.size # None /\ s'.depth = Depth
        /\ Resizes => s'.offset = IF Depth = 32 THEN vga.start ELSE Host
        /\ ~Resizes => s'.offset = s.offset /\ s'.size = s.size /\ s'.depth = s.depth
    BY <1>9, ResizedIs DEF RefreshStart
  <2>2. /\ vga.mode \in {"text", "graphic"} /\ vga' = vga /\ taken' = (taken /\ ~Resizes)
        /\ ~vga.big /\ ~resuming' /\ resuming' = resuming
    BY <1>9, VgaIs DEF RefreshStart, Idle
  <2>3. ~taken' /\ s'.size # None /\ s'.offset # Host => s'.depth = 32
    BY <2>1, <2>2 DEF SurfaceInv
  <2> QED
    BY <2>1, <2>2, <2>3 DEF SurfaceInv, Depth, None
<1>10. CASE DrawLine \/ DrawEnd \/ RefreshEnd
  BY <1>1, <1>10 DEF DrawLine, DrawEnd, RefreshEnd
<1>11. CASE UNCHANGED vars
  BY <1>1, <1>11
<1> QED
  BY <1>2, <1>3, <1>4, <1>5, <1>6, <1>7, <1>8, <1>9, <1>10, <1>11, <1>12,
     <1>13, <1>14
  DEF Next

\* A drawing to the guest's memory is a blank or a 32-bit one.
LEMMA SpoilsNext ==
    ASSUME TypeOK, SurfaceInv, OnlyDirectSpoils, [Next]_vars
    PROVE  OnlyDirectSpoils'
<1> USE DEF vars, vramVars, surfaceVars, mainVars, guestVars, frameVars
<1>1. CASE UNCHANGED spoilt
  BY <1>1 DEF OnlyDirectSpoils
<1>2. CASE RefreshBlank
  <2>1. spoilt' = spoilt \/ (~taken /\ s.size # None /\ s.offset # Host
                             /\ spoilt' = spoilt \cup {<<"blank", s.depth>>})
    BY <1>2 DEF RefreshBlank
  <2> QED
    BY <2>1 DEF OnlyDirectSpoils, SurfaceInv
<1>3. CASE DrawLine
  <2>1. spoilt' = spoilt \/ (~taken /\ s.offset # Host
                             /\ spoilt' = spoilt \cup {<<s.mode, s.depth>>})
    BY <1>3 DEF DrawLine, Draw
  <2>2. s.mode \in {"text", "graphic"} /\ s.size # None /\ (s.mode = "text" => s.depth = 0)
    BY <1>3, SurfaceIs DEF DrawLine, SurfaceInv
  <2> QED
    BY <2>1, <2>2 DEF OnlyDirectSpoils, SurfaceInv
<1>4. ASSUME NEW r \in Registers, SetMode(r) \/ Enable(r) PROVE OnlyDirectSpoils'
  BY <1>1, <1>4 DEF SetMode, Enable
<1>5. ASSUME NEW p \in Pages, GuestWrite(p) \/ DeviceWrite(p) PROVE OnlyDirectSpoils'
  BY <1>1, <1>5 DEF GuestWrite, DeviceWrite
<1>6. ASSUME NEW n \in 1 .. Cardinality(Pages), Move(n) PROVE OnlyDirectSpoils'
  BY <1>1, <1>6 DEF Move
<1>7. ASSUME NEW g \in Geometries, NEW d \in BOOLEAN, Configure(g, d) PROVE OnlyDirectSpoils'
  BY <1>1, <1>7 DEF Configure
<1>8. ASSUME NEW b \in BOOLEAN, NEW ok \in BOOLEAN, SocketRead(b, ok) PROVE OnlyDirectSpoils'
  BY <1>1, <1>8 DEF SocketRead
<1>9. CASE SetVgaState \/ Tick \/ StaleTick \/ RefreshElsewhere \/ DrawEnd \/ RefreshEnd
  BY <1>1, <1>9 DEF SetVgaState, Tick, StaleTick, RefreshElsewhere, DrawEnd, RefreshEnd
<1>12. CASE MoveResuming \/ MapVram \/ RefreshTooBig
  BY <1>1, <1>12 DEF MoveResuming, MapVram, RefreshTooBig
<1>13. CASE TakeBuffer \/ CopyFails \/ \E l \in 1 .. Lines : CopyLine(l)
  BY <1>1, <1>13 DEF TakeBuffer, CopyFails, CopyLine
<1>10. ASSUME NEW ok \in BOOLEAN, RefreshStart(ok) PROVE OnlyDirectSpoils'
  BY <1>1, <1>10 DEF RefreshStart
<1>11. CASE UNCHANGED vars
  BY <1>1, <1>11
<1> QED
  BY <1>2, <1>3, <1>4, <1>5, <1>6, <1>7, <1>8, <1>9, <1>10, <1>11, <1>12,
     <1>13
  DEF Next

LEMMA MovesNext ==
    ASSUME TypeOK, MovesInv, [Next]_vars
    PROVE  MovesInv'
<1> USE DEF vars, vramVars, surfaceVars, mainVars, guestVars, frameVars
<1>1. CASE UNCHANGED <<at, addr, moves>>
  BY <1>1 DEF MovesInv
<1>2. ASSUME NEW n \in 1 .. Cardinality(Pages), Move(n) PROVE MovesInv'
  <2>1. moves \in Nat /\ addr \in Nat /\ \A p \in Pages : at[p] \in Nat
    BY ConstantsAre DEF TypeOK
  <2>2. moves' = moves + 1 /\ addr' \in {addr, moves + 1}
    BY <1>2 DEF Move
  <2>3. \A p \in Pages : at'[p] \in {at[p], moves + 1}
    BY <1>2 DEF Move
  <2> QED
    BY <2>1, <2>2, <2>3 DEF MovesInv
<1>3. ASSUME NEW r \in Registers, SetMode(r) \/ Enable(r) PROVE MovesInv'
  BY <1>1, <1>3 DEF SetMode, Enable
<1>4. ASSUME NEW p \in Pages, GuestWrite(p) \/ DeviceWrite(p) PROVE MovesInv'
  BY <1>1, <1>4 DEF GuestWrite, DeviceWrite
<1>5. ASSUME NEW g \in Geometries, NEW d \in BOOLEAN, Configure(g, d) PROVE MovesInv'
  BY <1>1, <1>5 DEF Configure
<1>6. ASSUME NEW b \in BOOLEAN, NEW ok \in BOOLEAN, SocketRead(b, ok) PROVE MovesInv'
  BY <1>1, <1>6 DEF SocketRead
<1>7. CASE SetVgaState \/ Tick \/ StaleTick \/ RefreshElsewhere
  BY <1>1, <1>7 DEF SetVgaState, Tick, StaleTick, RefreshElsewhere
<1>8. CASE RefreshBlank \/ RefreshTooBig \/ (\E ok \in BOOLEAN : RefreshStart(ok)) \/ DrawLine \/ DrawEnd \/ RefreshEnd
  BY <1>1, <1>8 DEF RefreshBlank, RefreshTooBig, RefreshStart, DrawLine, DrawEnd, RefreshEnd
<1>10. CASE TakeBuffer \/ CopyFails \/ \E l \in 1 .. Lines : CopyLine(l)
  BY <1>1, <1>10 DEF TakeBuffer, CopyFails, CopyLine
<1>11. CASE MoveResuming \/ MapVram
  <2>1. moves \in Nat /\ addr \in Nat /\ \A p \in Pages : at[p] \in Nat
    BY ConstantsAre DEF TypeOK
  <2>2. CASE MoveResuming
    BY <2>1, <2>2 DEF MovesInv, MoveResuming
  <2>3. CASE MapVram
    BY <2>1, <2>3 DEF MovesInv, MapVram
  <2> QED
    BY <1>11, <2>2, <2>3
<1>9. CASE UNCHANGED vars
  BY <1>1, <1>9
<1> QED
  BY <1>2, <1>3, <1>4, <1>5, <1>6, <1>7, <1>8, <1>9, <1>10, <1>11 DEF Next

-----------------------------------------------------------------------------
(* The picture.                                                            *)

\* A page that a move has left behind stays behind (demu_set_vram_addr).
LEMMA MoveIs ==
    ASSUME TypeOK, MovesInv, NEW n \in 1 .. Cardinality(Pages), Move(n), NEW p \in Pages, at[p] # addr
    PROVE  at'[p] # addr'
<1>1. moves \in Nat /\ addr \in Nat /\ addr < moves + 1
  BY ConstantsAre DEF TypeOK, MovesInv
<1>2. ~(p < n)
  BY DEF Move
<1>3. addr' = addr /\ at'[p] = at[p]
  BY <1>2 DEF Move
<1> QED
  BY <1>3

LEMMA PictureNext ==
    ASSUME TypeOK, SurfaceInv, MovesInv, PictureInv, [Next]_vars
    PROVE  PictureInv'
<1> USE DEF vars, vramVars, surfaceVars, mainVars, guestVars, frameVars
<1>0. /\ \A l \in 1 .. Lines : Source(l) \in Pages
      /\ \A k, l \in 1 .. Lines : Source(k) = Source(l) => k = l
  BY SourceIs
<1>1. CASE UNCHANGED <<vramVars, surfaceVars, rpc, y, full>> /\ (vga' = vga \/ rpc = "idle")
  BY <1>1 DEF PictureInv, GraphicInv, TextInv, Seen, Ahead, Source
<1>2. ASSUME NEW r \in Registers, SetMode(r) PROVE PictureInv'
  BY <1>1, <1>2 DEF SetMode, Idle
<1>3. ASSUME NEW p \in Pages, GuestWrite(p) PROVE PictureInv'
  <2>1. UNCHANGED <<surfaceVars, rpc, y, full, map, vga>> /\ \A l \in 1 .. Lines : Source(l)' = Source(l)
    BY <1>3 DEF GuestWrite, Source
  <2>2. ASSUME NEW l \in 1 .. Lines, Seen(l) PROVE Seen(l)'
    <3>1. UNCHANGED <<at, addr, lost, host, over>> /\ log \subseteq log' /\ (at[p] = addr => p \in log')
      BY <1>3 DEF GuestWrite
    <3>2. Source(l) # p => mem'[Source(l)] = mem[Source(l)]
      BY <1>3 DEF GuestWrite
    <3> QED
      BY <2>1, <2>2, <3>1, <3>2 DEF Seen
  <2> QED
    BY <2>1, <2>2 DEF PictureInv, GraphicInv, TextInv, Ahead
<1>4. ASSUME NEW p \in Pages, DeviceWrite(p) PROVE PictureInv'
  <2>1. UNCHANGED <<surfaceVars, rpc, y, full, vga>> /\ \A l \in 1 .. Lines : Source(l)' = Source(l)
    BY <1>4 DEF DeviceWrite, Source
  <2>2. ASSUME NEW l \in 1 .. Lines, Seen(l), Source(l) # p PROVE Seen(l)'
    <3>1. UNCHANGED <<at, addr, lost, log, host, over>> /\ mem'[Source(l)] = mem[Source(l)]
      BY <1>4, <2>2 DEF DeviceWrite
    <3> QED
      BY <2>1, <2>2, <3>1 DEF Seen
  <2>3. rpc = "idle" /\ map' = map \cup {p}
    BY <1>4 DEF DeviceWrite, Idle
  <2> QED
    BY <2>1, <2>2, <2>3 DEF PictureInv, GraphicInv, TextInv, Ahead
<1>5. ASSUME NEW n \in 1 .. Cardinality(Pages), Move(n) PROVE PictureInv'
  <2>1. UNCHANGED <<mem, map, surfaceVars, rpc, y, full, vga>> /\ \A l \in 1 .. Lines : Source(l)' = Source(l)
    BY <1>5 DEF Move, Source
  <2>2. log \cup lost = log' \cup lost'
    BY <1>5 DEF Move
  <2>3. \A p \in Pages : at[p] # addr => at'[p] # addr'
    BY <1>5, MoveIs
  <2>4. \A l \in 1 .. Lines : Seen(l) => Seen(l)'
    BY <2>1, <2>2, <2>3, <1>0 DEF Seen
  <2> QED
    BY <2>1, <2>4 DEF PictureInv, GraphicInv, TextInv, Ahead
<1>6. ASSUME NEW g \in Geometries, NEW d \in BOOLEAN, Configure(g, d) PROVE PictureInv'
  <2>1. s'.offset = 0
    BY <1>6 DEF Configure, TypeOK, Surface
  <2> QED
    BY <2>1, ConstantsAre DEF PictureInv
<1>7. CASE SetVgaState \/ Tick \/ StaleTick \/ RefreshElsewhere
  BY <1>1, <1>7 DEF SetVgaState, Tick, StaleTick, RefreshElsewhere
<1>8. ASSUME NEW b \in BOOLEAN, NEW ok \in BOOLEAN, SocketRead(b, ok) PROVE PictureInv'
  BY <1>1, <1>8 DEF SocketRead
<1>16. ASSUME NEW r \in Registers, Enable(r) PROVE PictureInv'
  <2>1. /\ rpc = "idle" /\ UNCHANGED <<surfaceVars, rpc, y, full, map, log, at, addr>>
        /\ \A l \in 1 .. Lines : Source(l)' = Source(l)
    BY <1>16 DEF Enable, Idle, Source
  <2>2. ASSUME NEW l \in 1 .. Lines, Seen(l) PROVE Seen(l)'
    <3>1. mem'[Source(l)] = mem[Source(l)] \/ Source(l) \in lost'
      BY <1>0, <1>16 DEF Enable
    <3>2. lost \subseteq lost'
      BY <1>16 DEF Enable
    <3> QED
      BY <2>1, <2>2, <3>1, <3>2 DEF Seen
  <2> QED
    BY <2>1, <2>2 DEF PictureInv, GraphicInv, TextInv, Ahead
<1>17. CASE TakeBuffer \/ CopyFails
  BY <1>1, <1>17 DEF TakeBuffer, CopyFails
<1>18. ASSUME NEW k \in 1 .. Lines, CopyLine(k) PROVE PictureInv'
  <2>1. /\ UNCHANGED <<s, last, skipped, vga, rpc, y, full, map, log, at, addr>>
        /\ \A l \in 1 .. Lines : Source(l)' = Source(l)
    BY <1>18 DEF CopyLine, Source
  <2>2. CASE dest = Host
    <3>1. UNCHANGED <<mem, lost>> /\ over' = over \cup {k}
          /\ \A l \in 1 .. Lines : l # k => host'[l] = host[l]
      BY <1>18, <2>2 DEF CopyLine, TypeOK
    <3>2. \A l \in 1 .. Lines : (Seen(l) => Seen(l)') /\ (l \in over => l \in over')
      BY <2>1, <3>1 DEF Seen
    <3>3. \A l \in 1 .. Lines : host'[l] = host[l] \/ l \in over'
      BY <3>1
    <3> QED
      BY <2>1, <3>2, <3>3 DEF PictureInv, GraphicInv, TextInv, Ahead
  <2>3. CASE dest # Host
    <3>1. UNCHANGED <<host, over>> /\ lost' = lost \cup {dest + k - 1}
          /\ \A p \in Pages : p # dest + k - 1 => mem'[p] = mem[p]
      BY <1>18, <2>3 DEF CopyLine, TypeOK
    <3>2. \A l \in 1 .. Lines : Seen(l) => Seen(l)'
      BY <1>0, <2>1, <3>1 DEF Seen
    <3> QED
      BY <2>1, <3>1, <3>2 DEF PictureInv, GraphicInv, TextInv, Ahead
  <2> QED
    BY <2>2, <2>3
<1>19. CASE MoveResuming \/ MapVram
  <2>1. s' = s /\ s.offset # Host
    BY <1>19 DEF MoveResuming, MapVram, SurfaceInv
  <2> QED
    BY <2>1 DEF PictureInv
<1>20. CASE RefreshTooBig
  <2>1. s'.mode = "text" /\ s'.offset = s.offset
    BY <1>20 DEF RefreshTooBig, TypeOK, Surface
  <2>2. /\ rpc = "idle" /\ vga.big /\ UNCHANGED <<vga, host, last, over>>
        /\ ~skipped' => ~skipped /\ s.mode = "text"
    BY <1>20 DEF RefreshTooBig, Idle
  <2> QED
    BY <2>1, <2>2 DEF PictureInv, TextInv, Ahead
<1>9. CASE RefreshBlank
  <2>1. s'.mode = "blank"
    BY <1>9 DEF RefreshBlank, TypeOK, Surface
  <2> QED
    BY <2>1 DEF PictureInv
<1>10. ASSUME NEW ok \in BOOLEAN, RefreshStart(ok), s'.offset = Host, ~skipped'
       PROVE (s'.mode = "graphic" => GraphicInv') /\ (s'.mode = "text" => TextInv')
  <2>1. /\ rpc = "idle" /\ rpc' = "lines" /\ y' = 1 /\ UNCHANGED <<host, last, over, mem, at, addr, lost>>
        /\ full' = (redraw \/ vga.mode # s.mode \/ Moved \/ Resizes)
        /\ ~full' => ~skipped
    BY <1>10 DEF RefreshStart, Idle
  <2>2. \A l \in 1 .. Lines : Ahead(l)'
    BY <2>1 DEF Ahead
  <2>3. CASE full'
    BY <2>2, <2>3 DEF GraphicInv, TextInv
  <2>4. CASE ~full'
    <3>1. s'.mode = s.mode /\ s'.start = s.start /\ s.offset = Host /\ vga.mode = s.mode
      BY <1>10, <2>1, <2>4, ResizedIs DEF RefreshStart, Moved
    <3>2. \A l \in 1 .. Lines : Source(l)' = Source(l)
      BY <3>1 DEF Source
    <3>3. CASE s.mode = "graphic"
      <4>1. map \subseteq map' /\ (log' = log \/ log \subseteq map')
        BY <1>10, <3>1, <3>3 DEF RefreshStart, Sync
      <4>2. \A l \in 1 .. Lines : Seen(l) \/ Source(l) \in map
        BY <2>1, <2>4, <3>1, <3>3 DEF PictureInv, GraphicInv, Ahead
      <4>3. ASSUME NEW l \in 1 .. Lines PROVE Seen(l)' \/ Source(l)' \in map'
        BY <2>1, <3>2, <4>1, <4>2 DEF Seen
      <4> QED
        BY <2>2, <3>1, <3>3, <4>3 DEF GraphicInv
    <3>4. CASE s.mode = "text"
      BY <2>1, <2>2, <2>4, <3>1, <3>4 DEF PictureInv, TextInv, Ahead
    <3> QED
      BY <3>1, <3>3, <3>4
  <2> QED
    BY <2>1, <2>3, <2>4, ConstantsAre DEF TypeOK
<1>11. ASSUME DrawLine, s'.offset = Host, ~skipped'
       PROVE (s'.mode = "graphic" => GraphicInv') /\ (s'.mode = "text" => TextInv')
  <2>1. /\ rpc = "lines" /\ y \in 1 .. Lines /\ y' = y + 1 /\ y \in Nat
        /\ UNCHANGED <<s, log, map, at, addr, rpc, full, vga>> /\ s.offset = Host /\ ~skipped
    BY <1>11, ConstantsAre DEF DrawLine, TypeOK
  <2>2. s.mode \in {"text", "graphic"} /\ s.offset # s.start
    BY <2>1, SurfaceIs, ConstantsAre DEF SurfaceInv
  <2>3. /\ UNCHANGED mem
        /\ host' = IF Due(y) THEN [host EXCEPT ![y] = mem[Source(y)]] ELSE host
        /\ over' = IF Due(y) THEN over \ {y} ELSE over
    BY <1>11, <2>1, <2>2 DEF DrawLine, Draw
  <2>4. \A l \in 1 .. Lines : Source(l)' = Source(l)
    BY <2>1 DEF Source
  <2>5. PICK k \in 1 .. Lines : k = y
    BY <2>1
  <2>6. ASSUME NEW l \in 1 .. Lines, l # k
        PROVE  host'[l] = host[l] /\ last'[l] = last[l] /\ (l \in over => l \in over') /\ (Seen(l) => Seen(l)') /\ (Ahead(l) => Ahead(l)')
    <3>1. host'[l] = host[l] /\ last'[l] = last[l] /\ (l \in over => l \in over')
      BY <1>11, <2>3, <2>5, <2>6 DEF DrawLine, TypeOK
    <3>2. Source(l) # Source(k)
      BY <1>0, <2>6
    <3>3. Source(l) \in lost => Source(l) \in lost'
      BY <1>11, <2>5, <3>2 DEF DrawLine
    <3>4. Ahead(l) => Ahead(l)'
      BY <2>1, <2>5, <2>6 DEF Ahead
    <3> QED
      BY <2>1, <2>3, <2>4, <3>1, <3>3, <3>4 DEF Seen
  <2>7. CASE Due(y)
    <3>1. host'[k] = mem[Source(k)]
      BY <2>3, <2>5, <2>7 DEF TypeOK
    <3>2. Seen(k)'
      BY <2>3, <2>4, <3>1 DEF Seen
    <3>3. s.mode = "text" => last'[k] = mem[Source(k)]
      BY <1>11, <2>5, <2>7 DEF DrawLine, TypeOK
    <3> QED
      BY <2>1, <2>2, <2>4, <2>6, <3>1, <3>2, <3>3 DEF PictureInv, GraphicInv, TextInv
  <2>8. CASE ~Due(y)
    <3>1. /\ ~full /\ UNCHANGED <<host, last, lost, over>>
          /\ s.mode = "graphic" => Source(k) \notin map
          /\ s.mode = "text" => last[k] = mem[Source(k)]
      BY <1>11, <2>2, <2>3, <2>5, <2>8 DEF DrawLine, Due
    <3>2. Seen(k) => Seen(k)'
      BY <2>1, <2>3, <2>4, <3>1 DEF Seen
    <3>3. s.mode = "graphic" => Seen(k)
      BY <2>1, <3>1 DEF PictureInv, GraphicInv
    <3>4. s.mode = "text" => (host[k] = last[k] \/ k \in over) /\ Seen(k)
      BY <2>1, <3>1 DEF PictureInv, TextInv, Seen
    <3> QED
      BY <2>1, <2>2, <2>4, <2>6, <3>1, <3>2, <3>3, <3>4 DEF PictureInv, GraphicInv, TextInv
  <2> QED
    BY <2>7, <2>8
<1>12. CASE DrawEnd
  <2>1. /\ rpc = "lines" /\ \A l \in 1 .. Lines : ~Ahead(l)
        /\ UNCHANGED <<s, host, last, over, skipped, mem, log, lost, at, addr, vga>>
    BY <1>12, ConstantsAre DEF DrawEnd, Ahead
  <2>2. \A l \in 1 .. Lines : Seen(l) => Seen(l)'
    BY <2>1 DEF Seen, Source
  <2> QED
    BY <2>1, <2>2 DEF PictureInv, GraphicInv, TextInv
<1>13. CASE RefreshEnd
  <2>1. /\ rpc = "done" /\ rpc' = "idle" /\ UNCHANGED <<vramVars, surfaceVars, vga>>
    BY <1>13 DEF RefreshEnd
  <2>2. \A l \in 1 .. Lines : ~Ahead(l) /\ (Seen(l) => Seen(l)')
    BY <2>1 DEF Ahead, Seen, Source
  <2> QED
    BY <2>1, <2>2 DEF PictureInv, GraphicInv, TextInv
<1>14. CASE UNCHANGED vars
  BY <1>1, <1>14
<1>15. (\E ok \in BOOLEAN : RefreshStart(ok)) \/ DrawLine => PictureInv'
  BY <1>10, <1>11 DEF PictureInv
<1> QED
  BY <1>2, <1>3, <1>4, <1>5, <1>6, <1>7, <1>8, <1>9, <1>12, <1>13, <1>14, <1>15, <1>16, <1>17,
     <1>18, <1>19, <1>20
  DEF Next

-----------------------------------------------------------------------------
(* The theorems.                                                           *)

LEMMA InvInit == Init => IInv
<1> SUFFICES ASSUME Init PROVE IInv
  OBVIOUS
<1>1. TypeOK
  BY TypeInit
<1>2. s.mode = None /\ s.size = None /\ s.offset = 0 /\ rpc = "idle" /\ ~active /\ ~failed /\ spoilt = {} /\ ~vga.big
  BY DEF Init
<1>3. MovesInv
  BY DEF Init, MovesInv
<1> QED
  BY <1>1, <1>2, <1>3, ConstantsAre
  DEF IInv, CountInv, SurfaceInv, OnlyDirectSpoils, PictureInv

LEMMA InvNext == IInv /\ [Next]_vars => IInv'
<1> SUFFICES ASSUME IInv, [Next]_vars PROVE IInv'
  OBVIOUS
<1> USE DEF IInv
<1>1. TypeOK' /\ CountInv' /\ SurfaceInv'
  BY TypeNext, CountNext, SurfaceNext
<1>2. MovesInv' /\ OnlyDirectSpoils' /\ PictureInv'
  BY MovesNext, SpoilsNext, PictureNext
<1> QED
  BY <1>1, <1>2

LEMMA InvAlways == Spec => []IInv
BY InvInit, InvNext, PTL DEF Spec

LEMMA InvShowsPicture == IInv => PictureIsCurrent
<1> SUFFICES ASSUME IInv, rpc = "done", s.mode # "blank", NEW l \in 1 .. Lines,
                    ~vga.big, ~skipped
             PROVE  \/ Right(l) \/ Source(l) \in log \cup lost
                    \/ at[Source(l)] # addr
                    \/ taken \/ l \in over
                    \/ s.depth = 32 /\ s.offset # s.start
  BY DEF PictureIsCurrent
<1>1. s.mode \in {"text", "graphic"} \/ s.mode = None
  BY SurfaceIs DEF IInv
<1>2. s.mode # None
  BY DEF IInv, SurfaceInv
<1>3. CASE s.offset = Host
  <2>1. Seen(l)
    BY <1>1, <1>2, <1>3 DEF IInv, PictureInv, GraphicInv, TextInv, Ahead
  <2> QED
    BY <2>1, <1>3 DEF Seen, Right
<1>4. CASE s.offset # Host /\ ~taken
  BY <1>1, <1>2, <1>4 DEF IInv, SurfaceInv, Right
<1> QED
  BY <1>3, <1>4

\* Every variable has its type (surface_state, demu_state, vmiope_ps).
THEOREM TypeCorrect == Spec => []TypeOK
<1>1. IInv => TypeOK
  BY DEF IInv
<1> QED
  BY <1>1, InvAlways, PTL

\* After a refresh the client sees the guest's picture, but for the exceptions
\* the invariant names (surface_refresh, demu_sync_vram_dirty_map,
\* demu_set_vram_addr).
THEOREM PictureIsCurrentCorrect == Spec => []PictureIsCurrent
BY InvShowsPicture, InvAlways, PTL

\* What the VGA draws over the guest's own memory is a blank or a 32-bit picture
\* (surface_draw_blank, surface_draw_graphic).
THEOREM OnlyDirectSpoilsCorrect == Spec => []OnlyDirectSpoils
<1>1. IInv => OnlyDirectSpoils
  BY DEF IInv
<1> QED
  BY <1>1, InvAlways, PTL

\* A refresh finds a refresh left, unless a datagram without a byte started the
\* console (the assertion of demu_console_refresh).
THEOREM AssertsOnlyAfterEmptyCorrect == Spec => []AssertsOnlyAfterEmpty
<1>1. IInv => AssertsOnlyAfterEmpty
  BY DEF IInv, CountInv, AssertsOnlyAfterEmpty
<1> QED
  BY <1>1, InvAlways, PTL

-----------------------------------------------------------------------------
(* The inductive invariant.                                                *)

\* Where a thing is made, and where the stages are counted.
Made ==
    {"xsh", "pidkey", "xch", "vga", "server", "shared", "buffered", "enabled", "array", "xceh",
     "bound", "vram", "socket", "surface", "vramkey"}
MadeAt(r) ==
    CASE r = "xsh" -> 1 [] r = "pidkey" -> 2 [] r = "xch" -> 4 [] r = "vga" -> 11
      [] r = "server" -> 34 [] r = "shared" -> 37 [] r = "buffered" -> 39 [] r = "enabled" -> 41
      [] r = "array" -> 43 [] r = "xceh" -> 45 [] r = "bound" -> 47 [] r = "vram" -> 52
      [] r = "socket" -> 54 [] r = "surface" -> 56 [] r = "vramkey" -> 58
NotedAt == <<3, 5, 10, 12, 32, 35, 38, 40, 42, 44, 46, 48, 53, 55, 57, 59>>

Keys == {"pidkey", "vramkey"}
\* What is counted as soon as it is made.
Tracked == Made \ ({"xsh"} \cup Keys)

\* seq is the number of stages behind the main thread.
StageIs ==
    /\ \A n \in 1 .. 16 : n <= seq <=> NotedAt[n] < pc
    /\ up <=> seq = 16

\* A plugin is in plugin_table from insert on, and initialised from init on.
TableIs ==
    /\ held \cap {"presentation", "display"} \subseteq table
    /\ "presentation" \in table => pc > 13
    /\ "display" \in table => pc > 22

PluginsAre ==
    /\ TableIs
    /\ pc \in 14 .. 16 => "presentation" \in table
    /\ pc \in 23 .. 25 => "display" \in table
    /\ pc \in 17 .. 19 => initRc = "success"
    /\ pc \in 26 .. 28 => (initRc = "success" <=> "display" \in held)
    /\ "presentation" \in table \ held => pc \in 14 .. 16
    /\ "display" \in table \ held => pc \in 23 .. 28
    /\ "display" \in held => pc > 25
    /\ "presentation" \in held => pc > 16

\* Before the teardown: what is there is what the main thread has made.
StartInv ==
    td = 0 =>
        /\ gone = {} /\ amiss = {} /\ gap = {} /\ ~again /\ ~ended /\ blocked = {}
        /\ sd = "enter" /\ cursor = 0
        /\ StageIs /\ PluginsAre
        /\ \A r \in Made : r \in held <=> MadeAt(r) < pc

\* The plugins that vmiope_shutdown has still to find, or has found and not
\* shut down.
ToCome(i) ==
    IF sd \in {"drop", "unlock", "call"} THEN cursor # 0 /\ i >= cursor
    ELSE sd # "release" /\ i > cursor

CursorIs ==
    /\ td <= 6 /\ sd = "enter" => cursor = 0
    /\ sd # "enter" => td = 6 /\ seq >= 3
    /\ sd = "call" => cursor # 0
    /\ sd \in {"drop", "unlock", "call"} /\ cursor # 0 => Plugins[cursor] \in table

\* A block whose thing was made is reached, unless a signal came before the
\* thing was counted.
CountedIs ==
    \A j \in 1 .. 17 : LET r == Teardown[j].what IN
        r \in Tracked /\ MadeAt(r) < pc => Reached(Teardown[j]) \/ r \in gap

\* The things whose blocks are behind the teardown are gone.
PassedIs ==
    /\ \A j \in 1 .. 17 : LET r == Teardown[j].what IN
          j < td /\ r \in Tracked \cup Keys /\ r \in held => r \in gap \/ (r \in Keys /\ ~up)
    /\ \A i \in 1 .. 2 : (td > 6 \/ (td = 6 /\ ~ToCome(i))) => Plugins[i] \notin held

\* In the first teardown, the others are still there.
FirstIs ==
    /\ \A j \in 1 .. 17 : LET r == Teardown[j].what IN
          j >= td /\ r \in Made /\ MadeAt(r) < pc => r \in held
    /\ \A i \in 1 .. 2 : (td < 6 \/ (td = 6 /\ ToCome(i))) /\ Plugins[i] \in table =>
          Plugins[i] \in held \cup gap

\* When the last blocks are behind, neither what persists nor a plugin is left.
LeftIs ==
    held \cap (Persistent \cup {"presentation"}) \subseteq gap \cup (IF up THEN {} ELSE Keys)

\* From the teardown on.
EndInv ==
    td > 0 =>
        /\ TableIs /\ CursorIs
        /\ \A r \in Made \cap held : MadeAt(r) < pc
        /\ seq > 0 => StageIs /\ CountedIs /\ PassedIs /\ (~again => FirstIs)
        /\ seq = 0 \/ "xsh" \notin held => LeftIs
        /\ ended /\ how # "kill" => seq = 0 \/ "xsh" \notin held
        /\ UndoneOnce /\ UsersGoFirst

\* The monitor's mutex is the main thread's between its lock and its unlock.
MonitorIs ==
    /\ td = 0 =>
        /\ pc \in (8 .. 15) \cup (18 .. 24) \cup (27 .. 31) \cup (51 .. 62) \cup (64 .. 65) =>
              mutex = "main"
        /\ pc \in {15, 24, 31, 62} => holder = "none"
        /\ sd = "enter"
    /\ sd \in {"hold", "find", "drop", "unlock"} => mutex = "main"
    /\ sd = "unlock" => holder = "none"

LifeInv == LifeTypeOK /\ MonitorIs /\ StartInv /\ EndInv

\* The program, written out.
Program ==
    LET make(r) == [op |-> "make", what |-> r]
        insert(p) == [op |-> "insert", what |-> p]
        init(p) == [op |-> "init", what |-> p]
        keep(p) == [op |-> "keep", what |-> p]
        note == [op |-> "note", what |-> ""]
        check == [op |-> "check", what |-> ""]
        lock == [op |-> "lock", what |-> ""]
        hold == [op |-> "hold", what |-> ""]
        drop == [op |-> "drop", what |-> ""]
        unlock == [op |-> "unlock", what |-> ""]
        config == [op |-> "config", what |-> ""]
        select == [op |-> "select", what |-> ""]
    IN  <<make("xsh"), make("pidkey"), note, make("xch"), note, check, lock, hold, check, note,
          make("vga"), note, insert("presentation"), drop, unlock, init("presentation"), lock,
          hold, keep("presentation"), check, config, insert("display"), drop, unlock,
          init("display"), lock, hold, keep("display"), check, drop, unlock, note, check,
          make("server"), note, check, make("shared"), note, make("buffered"), note,
          make("enabled"), note, make("array"), note, make("xceh"), note, make("bound"), note,
          check, lock, hold, make("vram"), note, make("socket"), note, make("surface"), note,
          make("vramkey"), note, check, drop, unlock, lock, hold, select>>

LEMMA SameSeq ==
    ASSUME NEW S, NEW n \in Seq(S), NEW u \in Seq(S), Len(n) = Len(u),
           \A i \in 1 .. Len(u) : n[i] = u[i]
    PROVE  n = u
  OBVIOUS

LEMMA CodeIs == Code = Program /\ Len(Code) = 65 /\ DOMAIN Code = 1 .. 65
<1> DEFINE noteI == [op |-> "note", what |-> ""]
           checkI == [op |-> "check", what |-> ""]
           lockI == [op |-> "lock", what |-> ""]
           holdI == [op |-> "hold", what |-> ""]
           dropI == [op |-> "drop", what |-> ""]
           unlockI == [op |-> "unlock", what |-> ""]
           configI == [op |-> "config", what |-> ""]
           selectI == [op |-> "select", what |-> ""]
           xshI == [op |-> "make", what |-> "xsh"]
           pidkeyI == [op |-> "make", what |-> "pidkey"]
           xchI == [op |-> "make", what |-> "xch"]
           vgaI == [op |-> "make", what |-> "vga"]
           serverI == [op |-> "make", what |-> "server"]
           sharedI == [op |-> "make", what |-> "shared"]
           bufferedI == [op |-> "make", what |-> "buffered"]
           enabledI == [op |-> "make", what |-> "enabled"]
           arrayI == [op |-> "make", what |-> "array"]
           xcehI == [op |-> "make", what |-> "xceh"]
           boundI == [op |-> "make", what |-> "bound"]
           vramI == [op |-> "make", what |-> "vram"]
           socketI == [op |-> "make", what |-> "socket"]
           surfaceI == [op |-> "make", what |-> "surface"]
           vramkeyI == [op |-> "make", what |-> "vramkey"]
           insert1 == [op |-> "insert", what |-> "presentation"]
           init1 == [op |-> "init", what |-> "presentation"]
           keep1 == [op |-> "keep", what |-> "presentation"]
           insert2 == [op |-> "insert", what |-> "display"]
           init2 == [op |-> "init", what |-> "display"]
           keep2 == [op |-> "keep", what |-> "display"]
           S == {noteI, checkI, lockI, holdI, dropI, unlockI, configI, selectI, xshI, pidkeyI, xchI, vgaI, serverI,
                 sharedI, bufferedI, enabledI, arrayI, xcehI, boundI, vramI, socketI, surfaceI,
                 vramkeyI, insert1, init1, keep1, insert2, init2, keep2}
           c == ((<<xshI>> \o <<pidkeyI>> \o <<noteI>> \o <<xchI, noteI>> \o <<checkI>> \o <<lockI>> \o <<holdI>> \o
                <<checkI>> \o <<noteI>> \o <<vgaI, noteI>> \o (<<insert1>> \o <<dropI>> \o
                <<unlockI>> \o <<init1>> \o <<lockI>> \o <<holdI>> \o <<keep1>>) \o <<checkI>> \o
                (<<configI>> \o (<<insert2>> \o <<dropI>> \o <<unlockI>> \o <<init2>> \o <<lockI>>
                \o <<holdI>> \o <<keep2>>) \o <<checkI>>) \o <<dropI>> \o <<unlockI>> \o <<noteI>>
                \o <<checkI>> \o (<<serverI, noteI>> \o <<checkI>> \o <<sharedI, noteI>> \o
                <<bufferedI, noteI>> \o <<enabledI, noteI>> \o <<arrayI, noteI>> \o <<xcehI, noteI>>
                \o <<boundI, noteI>>) \o <<checkI>> \o (<<lockI>> \o <<holdI>> \o <<vramI, noteI>>
                \o <<socketI, noteI>> \o <<surfaceI, noteI>> \o <<vramkeyI, noteI>>) \o <<checkI>>)
                \o (<<dropI>> \o <<unlockI>> \o <<lockI>> \o <<holdI>> \o <<selectI>>))
           t == <<xshI, pidkeyI, noteI, xchI, noteI, checkI, lockI, holdI, checkI, noteI, vgaI, noteI, insert1,
                  dropI, unlockI, init1, lockI, holdI, keep1, checkI, configI, insert2, dropI,
                  unlockI, init2, lockI, holdI, keep2, checkI, dropI, unlockI, noteI, checkI,
                  serverI, noteI, checkI, sharedI, noteI, bufferedI, noteI, enabledI, noteI, arrayI,
                  noteI, xcehI, noteI, boundI, noteI, checkI, lockI, holdI, vramI, noteI, socketI,
                  noteI, surfaceI, noteI, vramkeyI, noteI, checkI, dropI, unlockI, lockI, holdI,
                  selectI>>
<1>1. /\ Do("note") = <<noteI>>
      /\ Do("check") = <<checkI>>
      /\ Do("lock") = <<lockI>>
      /\ Do("hold") = <<holdI>>
      /\ Do("drop") = <<dropI>>
      /\ Do("unlock") = <<unlockI>>
      /\ Do("config") = <<configI>>
      /\ Do("select") = <<selectI>>
      /\ Only("xsh") = <<xshI>>
      /\ Only("pidkey") = <<pidkeyI>>
      /\ Make("xch") = <<xchI, noteI>>
      /\ Make("vga") = <<vgaI, noteI>>
      /\ Make("server") = <<serverI, noteI>>
      /\ Make("shared") = <<sharedI, noteI>>
      /\ Make("buffered") = <<bufferedI, noteI>>
      /\ Make("enabled") = <<enabledI, noteI>>
      /\ Make("array") = <<arrayI, noteI>>
      /\ Make("xceh") = <<xcehI, noteI>>
      /\ Make("bound") = <<boundI, noteI>>
      /\ Make("vram") = <<vramI, noteI>>
      /\ Make("socket") = <<socketI, noteI>>
      /\ Make("surface") = <<surfaceI, noteI>>
      /\ Make("vramkey") = <<vramkeyI, noteI>>
      /\ Plugin("insert", "presentation") = <<insert1>>
      /\ Plugin("init", "presentation") = <<init1>>
      /\ Plugin("keep", "presentation") = <<keep1>>
      /\ Plugin("insert", "display") = <<insert2>>
      /\ Plugin("init", "display") = <<init2>>
      /\ Plugin("keep", "display") = <<keep2>>
  BY DEF Make, Do, Only, Plugin
<1>2. t = Program
  BY DEF Program
<1> HIDE DEF noteI, checkI, lockI, holdI, dropI, unlockI, configI, selectI, xshI, pidkeyI, xchI,
             vgaI, serverI, sharedI, bufferedI, enabledI, arrayI, xcehI, boundI, vramI, socketI,
             surfaceI, vramkeyI, insert1, init1, keep1, insert2, init2, keep2
<1>3. noteI \in S /\ checkI \in S /\ lockI \in S /\ holdI \in S /\ dropI \in S /\ unlockI \in S /\ configI
      \in S /\ selectI \in S /\ xshI \in S /\ pidkeyI \in S /\ xchI \in S /\ vgaI \in S /\ serverI
      \in S /\ sharedI \in S /\ bufferedI \in S /\ enabledI \in S /\ arrayI \in S /\ xcehI \in S /\
      boundI \in S /\ vramI \in S /\ socketI \in S /\ surfaceI \in S /\ vramkeyI \in S /\ insert1
      \in S /\ init1 \in S /\ keep1 \in S /\ insert2 \in S /\ init2 \in S /\ keep2 \in S
  OBVIOUS
<1>4. c[1] = t[1] /\ c[2] = t[2] /\ c[3] = t[3] /\ c[4] = t[4] /\ c[5] = t[5]
  OBVIOUS
<1>5. c[6] = t[6] /\ c[7] = t[7] /\ c[8] = t[8] /\ c[9] = t[9] /\ c[10] = t[10]
  OBVIOUS
<1>6. c[11] = t[11] /\ c[12] = t[12] /\ c[13] = t[13] /\ c[14] = t[14] /\ c[15] = t[15]
  OBVIOUS
<1>7. c[16] = t[16] /\ c[17] = t[17] /\ c[18] = t[18] /\ c[19] = t[19] /\ c[20] = t[20]
  OBVIOUS
<1>8. c[21] = t[21] /\ c[22] = t[22] /\ c[23] = t[23] /\ c[24] = t[24] /\ c[25] = t[25]
  OBVIOUS
<1>9. c[26] = t[26] /\ c[27] = t[27] /\ c[28] = t[28] /\ c[29] = t[29] /\ c[30] = t[30]
  OBVIOUS
<1>10. c[31] = t[31] /\ c[32] = t[32] /\ c[33] = t[33] /\ c[34] = t[34] /\ c[35] = t[35]
  OBVIOUS
<1>11. c[36] = t[36] /\ c[37] = t[37] /\ c[38] = t[38] /\ c[39] = t[39] /\ c[40] = t[40]
  OBVIOUS
<1>12. c[41] = t[41] /\ c[42] = t[42] /\ c[43] = t[43] /\ c[44] = t[44] /\ c[45] = t[45]
  OBVIOUS
<1>13. c[46] = t[46] /\ c[47] = t[47] /\ c[48] = t[48] /\ c[49] = t[49] /\ c[50] = t[50]
  OBVIOUS
<1>14. c[51] = t[51] /\ c[52] = t[52] /\ c[53] = t[53] /\ c[54] = t[54] /\ c[55] = t[55]
  OBVIOUS
<1>15. c[56] = t[56] /\ c[57] = t[57] /\ c[58] = t[58] /\ c[59] = t[59] /\ c[60] = t[60]
  OBVIOUS
<1>16. c[61] = t[61] /\ c[62] = t[62] /\ c[63] = t[63] /\ c[64] = t[64] /\ c[65] = t[65]
  OBVIOUS
<1>17. c \in Seq(S) /\ t \in Seq(S) /\ Len(c) = 65 /\ Len(t) = 65
  BY <1>3
<1>18. Code = c
  BY <1>1 DEF Code, Start, Loop, Initialize, Configuration, MakeDisplay, Register, InitIo
<1> HIDE DEF S, c, t
<1>19. \A i \in 1 .. 65 : c[i] = t[i]
  BY <1>4, <1>5, <1>6, <1>7, <1>8, <1>9, <1>10, <1>11, <1>12, <1>13, <1>14, <1>15, <1>16
<1>20. \A i \in 1 .. Len(t) : c[i] = t[i]
  BY <1>17, <1>19
<1>21. Len(c) = Len(t)
  BY <1>17
<1>22. c = t
  BY ONLY <1>17, <1>20, <1>21, SameSeq
<1>23. Len(c) = 65 /\ DOMAIN c = 1 .. 65
  BY <1>17
<1> HIDE DEF c, t
<1> QED
  BY <1>2, <1>18, <1>22, <1>23

OpAt(o) == {i \in DOMAIN Code : Code[i].op = o}
LEMMA Ops ==
    /\ Len(Code) = 65 /\ DOMAIN Code = 1 .. 65
    /\ OpAt("make") = {1, 2, 4, 11, 34, 37, 39, 41, 43, 45, 47, 52, 54, 56, 58}
    /\ OpAt("insert") = {13, 22}
    /\ OpAt("init") = {16, 25}
    /\ OpAt("keep") = {19, 28}
    /\ OpAt("note") = {3, 5, 10, 12, 32, 35, 38, 40, 42, 44, 46, 48, 53, 55, 57, 59}
    /\ OpAt("check") = {6, 9, 20, 29, 33, 36, 49, 60}
    /\ OpAt("lock") = {7, 17, 26, 50, 63}
    /\ OpAt("hold") = {8, 18, 27, 51, 64}
    /\ OpAt("drop") = {14, 23, 30, 61}
    /\ OpAt("unlock") = {15, 24, 31, 62}
    /\ OpAt("config") = {21}
    /\ OpAt("select") = {65}
<1>1. /\ Code[1].op = "make" /\ Code[1].what = "xsh"
      /\ Code[2].op = "make" /\ Code[2].what = "pidkey"
      /\ Code[3].op = "note"
      /\ Code[4].op = "make" /\ Code[4].what = "xch"
      /\ Code[5].op = "note"
      /\ Code[6].op = "check"
      /\ Code[7].op = "lock"
      /\ Code[8].op = "hold"
      /\ Code[9].op = "check"
      /\ Code[10].op = "note"
      /\ Code[11].op = "make" /\ Code[11].what = "vga"
      /\ Code[12].op = "note"
      /\ Code[13].op = "insert" /\ Code[13].what = "presentation"
  BY CodeIs DEF Program
<1>2. /\ Code[14].op = "drop"
      /\ Code[15].op = "unlock"
      /\ Code[16].op = "init" /\ Code[16].what = "presentation"
      /\ Code[17].op = "lock"
      /\ Code[18].op = "hold"
      /\ Code[19].op = "keep" /\ Code[19].what = "presentation"
      /\ Code[20].op = "check"
      /\ Code[21].op = "config"
      /\ Code[22].op = "insert" /\ Code[22].what = "display"
      /\ Code[23].op = "drop"
      /\ Code[24].op = "unlock"
      /\ Code[25].op = "init" /\ Code[25].what = "display"
      /\ Code[26].op = "lock"
  BY CodeIs DEF Program
<1>3. /\ Code[27].op = "hold"
      /\ Code[28].op = "keep" /\ Code[28].what = "display"
      /\ Code[29].op = "check"
      /\ Code[30].op = "drop"
      /\ Code[31].op = "unlock"
      /\ Code[32].op = "note"
      /\ Code[33].op = "check"
      /\ Code[34].op = "make" /\ Code[34].what = "server"
      /\ Code[35].op = "note"
      /\ Code[36].op = "check"
      /\ Code[37].op = "make" /\ Code[37].what = "shared"
      /\ Code[38].op = "note"
      /\ Code[39].op = "make" /\ Code[39].what = "buffered"
  BY CodeIs DEF Program
<1>4. /\ Code[40].op = "note"
      /\ Code[41].op = "make" /\ Code[41].what = "enabled"
      /\ Code[42].op = "note"
      /\ Code[43].op = "make" /\ Code[43].what = "array"
      /\ Code[44].op = "note"
      /\ Code[45].op = "make" /\ Code[45].what = "xceh"
      /\ Code[46].op = "note"
      /\ Code[47].op = "make" /\ Code[47].what = "bound"
      /\ Code[48].op = "note"
      /\ Code[49].op = "check"
      /\ Code[50].op = "lock"
      /\ Code[51].op = "hold"
      /\ Code[52].op = "make" /\ Code[52].what = "vram"
  BY CodeIs DEF Program
<1>5. /\ Code[53].op = "note"
      /\ Code[54].op = "make" /\ Code[54].what = "socket"
      /\ Code[55].op = "note"
      /\ Code[56].op = "make" /\ Code[56].what = "surface"
      /\ Code[57].op = "note"
      /\ Code[58].op = "make" /\ Code[58].what = "vramkey"
      /\ Code[59].op = "note"
      /\ Code[60].op = "check"
      /\ Code[61].op = "drop"
      /\ Code[62].op = "unlock"
      /\ Code[63].op = "lock"
      /\ Code[64].op = "hold"
      /\ Code[65].op = "select"
  BY CodeIs DEF Program
<1>7. Len(Code) = 65 /\ DOMAIN Code = 1 .. 65
  BY CodeIs
<1>8. OpAt("make") = {1, 2, 4, 11, 34, 37, 39, 41, 43, 45, 47, 52, 54, 56, 58}
  BY <1>1, <1>2, <1>3, <1>4, <1>5, <1>7 DEF OpAt
<1>9. OpAt("insert") = {13, 22}
  BY <1>1, <1>2, <1>3, <1>4, <1>5, <1>7 DEF OpAt
<1>10. OpAt("init") = {16, 25}
  BY <1>1, <1>2, <1>3, <1>4, <1>5, <1>7 DEF OpAt
<1>11. OpAt("keep") = {19, 28}
  BY <1>1, <1>2, <1>3, <1>4, <1>5, <1>7 DEF OpAt
<1>12. OpAt("note") = {3, 5, 10, 12, 32, 35, 38, 40, 42, 44, 46, 48, 53, 55, 57, 59}
  BY <1>1, <1>2, <1>3, <1>4, <1>5, <1>7 DEF OpAt
<1>13. OpAt("check") = {6, 9, 20, 29, 33, 36, 49, 60}
  BY <1>1, <1>2, <1>3, <1>4, <1>5, <1>7 DEF OpAt
<1>14. OpAt("lock") = {7, 17, 26, 50, 63}
  BY <1>1, <1>2, <1>3, <1>4, <1>5, <1>7 DEF OpAt
<1>15. OpAt("hold") = {8, 18, 27, 51, 64}
  BY <1>1, <1>2, <1>3, <1>4, <1>5, <1>7 DEF OpAt
<1>16. OpAt("drop") = {14, 23, 30, 61}
  BY <1>1, <1>2, <1>3, <1>4, <1>5, <1>7 DEF OpAt
<1>17. OpAt("unlock") = {15, 24, 31, 62}
  BY <1>1, <1>2, <1>3, <1>4, <1>5, <1>7 DEF OpAt
<1>18. OpAt("config") = {21}
  BY <1>1, <1>2, <1>3, <1>4, <1>5, <1>7 DEF OpAt
<1>19. OpAt("select") = {65}
  BY <1>1, <1>2, <1>3, <1>4, <1>5, <1>7 DEF OpAt
<1> QED
  BY <1>7, <1>8, <1>9, <1>10, <1>11, <1>12, <1>13, <1>14, <1>15, <1>16, <1>17, <1>18, <1>19

LEMMA MakesAre ==
    /\ Code[1].what = "xsh" /\ Code[2].what = "pidkey" /\ Code[4].what = "xch"
    /\ Code[11].what = "vga" /\ Code[34].what = "server" /\ Code[37].what = "shared"
    /\ Code[39].what = "buffered" /\ Code[41].what = "enabled" /\ Code[43].what = "array"
    /\ Code[45].what = "xceh" /\ Code[47].what = "bound" /\ Code[52].what = "vram"
    /\ Code[54].what = "socket" /\ Code[56].what = "surface" /\ Code[58].what = "vramkey"
    /\ \A i \in {13, 16, 19} : Code[i].what = "presentation"
    /\ \A i \in {22, 25, 28} : Code[i].what = "display"
<1>1. /\ Code[1].what = "xsh" /\ Code[2].what = "pidkey" /\ Code[4].what = "xch"
      /\ Code[11].what = "vga" /\ Code[34].what = "server" /\ Code[37].what = "shared"
      /\ Code[39].what = "buffered"
  BY CodeIs DEF Program
<1>2. /\ Code[41].what = "enabled" /\ Code[43].what = "array"
      /\ Code[45].what = "xceh" /\ Code[47].what = "bound" /\ Code[52].what = "vram"
      /\ Code[54].what = "socket" /\ Code[56].what = "surface" /\ Code[58].what = "vramkey"
  BY CodeIs DEF Program
<1>3. /\ Code[13].what = "presentation" /\ Code[16].what = "presentation"
      /\ Code[19].what = "presentation" /\ Code[22].what = "display"
      /\ Code[25].what = "display" /\ Code[28].what = "display"
  BY CodeIs DEF Program
<1> QED
  BY <1>1, <1>2, <1>3

\* The instructions that make, and where MadeAt says they are.
LEMMA MadeAtIs ==
    /\ \A r \in Made : MadeAt(r) \in OpAt("make") /\ Code[MadeAt(r)].what = r
    /\ \A i \in OpAt("make") : Code[i].what \in Made /\ MadeAt(Code[i].what) = i
    /\ \A r \in Made : MadeAt(r) \in 1 .. 58 /\ MadeAt(r) \notin 21 .. 30
<1>1. \A r \in Made : MadeAt(r) \in {1, 2, 4, 11, 34, 37, 39, 41, 43, 45, 47, 52, 54, 56, 58}
  BY DEF Made, MadeAt
<1>2. \A i \in OpAt("make") : Code[i].what \in Made /\ MadeAt(Code[i].what) = i
  BY Ops, MakesAre DEF Made, MadeAt
<1>3. \A r \in Made : Code[MadeAt(r)].what = r
  BY MakesAre DEF Made, MadeAt
<1> QED
  BY <1>1, <1>2, <1>3, Ops

LEMMA NotedAtIs ==
    /\ \A n \in 1 .. 16 : NotedAt[n] \in OpAt("note") /\ NotedAt[n] \in 1 .. 59
                          /\ NotedAt[n] \notin 21 .. 30
    /\ \A i \in OpAt("note") : \E n \in 1 .. 16 : NotedAt[n] = i
    /\ \A n, t \in 1 .. 16 : n < t => NotedAt[n] < NotedAt[t]
<1>1. \A n \in 1 .. 16 : NotedAt[n] \in {3, 5, 10, 12, 32, 35, 38, 40, 42, 44, 46, 48, 53, 55, 57, 59}
  BY DEF NotedAt
<1>2. \A n \in 1 .. 15 : NotedAt[n] < NotedAt[n + 1]
  BY DEF NotedAt
<1>3. \A i \in OpAt("note") : \E n \in 1 .. 16 : NotedAt[n] = i
  <2>1. NotedAt[1] = 3 /\ NotedAt[2] = 5 /\ NotedAt[3] = 10 /\ NotedAt[4] = 12 /\ NotedAt[5] = 32
        /\ NotedAt[6] = 35 /\ NotedAt[7] = 38 /\ NotedAt[8] = 40 /\ NotedAt[9] = 42
        /\ NotedAt[10] = 44 /\ NotedAt[11] = 46 /\ NotedAt[12] = 48 /\ NotedAt[13] = 53
        /\ NotedAt[14] = 55 /\ NotedAt[15] = 57 /\ NotedAt[16] = 59
    BY DEF NotedAt
  <2>2. 1 \in 1 .. 16 /\ 2 \in 1 .. 16 /\ 3 \in 1 .. 16 /\ 4 \in 1 .. 16 /\ 5 \in 1 .. 16
        /\ 6 \in 1 .. 16 /\ 7 \in 1 .. 16 /\ 8 \in 1 .. 16 /\ 9 \in 1 .. 16 /\ 10 \in 1 .. 16
        /\ 11 \in 1 .. 16 /\ 12 \in 1 .. 16 /\ 13 \in 1 .. 16 /\ 14 \in 1 .. 16
        /\ 15 \in 1 .. 16 /\ 16 \in 1 .. 16
    OBVIOUS
  <2> HIDE DEF NotedAt
  <2> QED
    BY <2>1, <2>2, Ops
<1>4. \A n, t \in 1 .. 16 : n < t => NotedAt[n] < NotedAt[t]
  BY DEF NotedAt
<1>5. \A n \in 1 .. 16 : NotedAt[n] \in 1 .. 59 /\ NotedAt[n] \notin 21 .. 30
  BY <1>1
<1>6. \A n \in 1 .. 16 : NotedAt[n] \in OpAt("note")
  BY <1>1, Ops
<1> QED
  BY <1>3, <1>4, <1>5, <1>6

LEMMA CountIs ==
    /\ Len(Stages) = 16
    /\ Count("XS_OPEN") = 1 /\ Count("XC_OPEN") = 2 /\ Count("VMIOP_ENV_INITIALIZED") = 3
    /\ Count("VMIOP_VGA_INITIALIZED") = 4 /\ Count("SERVER_REGISTERED") = 6
    /\ Count("SHARED_IOPAGE_MAPPED") = 7 /\ Count("BUFFERED_IOPAGE_MAPPED") = 8
    /\ Count("SERVER_ENABLED") = 9 /\ Count("PORT_ARRAY_ALLOCATED") = 10
    /\ Count("EVTCHN_OPEN") = 11 /\ Count("VRAM_MAPPED") = 13 /\ Count("SOCKET_CREATED") = 14
    /\ Count("SURFACE_INITIALIZED") = 15 /\ Count("INITIALIZED") = 16
  BY DEF Count, Stages

LEMMA BlocksAre ==
    /\ Len(Teardown) = 17
    /\ Teardown[1] = [what |-> "pidkey", from |-> 16]
    /\ Teardown[2] = [what |-> "vramkey", from |-> 16]
    /\ Teardown[3] = [what |-> "surface", from |-> 15]
    /\ Teardown[4] = [what |-> "socket", from |-> 14]
    /\ Teardown[5] = [what |-> "vga", from |-> 4]
    /\ Teardown[6] = [what |-> "plugins", from |-> 3]
    /\ Teardown[7] = [what |-> "bound", from |-> 11]
    /\ Teardown[8] = [what |-> "xceh", from |-> 11]
    /\ Teardown[9] = [what |-> "array", from |-> 10]
    /\ Teardown[10] = [what |-> "enabled", from |-> 9]
    /\ Teardown[11] = [what |-> "buffered", from |-> 8]
    /\ Teardown[12] = [what |-> "shared", from |-> 7]
    /\ Teardown[13] = [what |-> "server", from |-> 6]
    /\ Teardown[14] = [what |-> "vram", from |-> 13]
    /\ Teardown[15] = [what |-> "statefile", from |-> 1]
    /\ Teardown[16] = [what |-> "xch", from |-> 2]
    /\ Teardown[17] = [what |-> "xsh", from |-> 1]
  BY CountIs DEF Teardown, Blocks, U

LEMMA PluginsTwo ==
    /\ Len(Plugins) = 2 /\ DOMAIN Plugins = 1 .. 2
    /\ Plugins[1] = "presentation" /\ Plugins[2] = "display"
    /\ Range(Plugins) = {"presentation", "display"}
  BY DEF Plugins, Range

LEMMA ResourcesAre == Resources = Made \cup {"statefile", "presentation", "display"}
<1>1. DOMAIN Teardown = 1 .. 17
  BY BlocksAre DEF Teardown, Blocks
<1>2. {Teardown[i].what : i \in DOMAIN Teardown} = Made \cup {"statefile", "plugins"}
  BY <1>1, BlocksAre DEF Made
<1>3. "plugins" \notin Made
  BY DEF Made
<1> QED
  BY <1>2, <1>3, PluginsTwo DEF Resources

\* The block that undoes r.
BlockOf(r) ==
    CASE r = "pidkey" -> 1 [] r = "vramkey" -> 2 [] r = "surface" -> 3 [] r = "socket" -> 4
      [] r = "vga" -> 5 [] r = "plugins" -> 6 [] r = "bound" -> 7 [] r = "xceh" -> 8
      [] r = "array" -> 9 [] r = "enabled" -> 10 [] r = "buffered" -> 11 [] r = "shared" -> 12
      [] r = "server" -> 13 [] r = "vram" -> 14 [] r = "statefile" -> 15 [] r = "xch" -> 16
      [] r = "xsh" -> 17

\* Each block undoes a thing of its own, and is reached from the stage that is
\* counted next after the thing is made; what undoing it takes, and what uses
\* it, have later and earlier blocks.
LEMMA BlockOfIs ==
    /\ \A j \in 1 .. 17 : BlockOf(Teardown[j].what) = j /\ Teardown[j].from \in 1 .. 16
    /\ \A r \in Made : BlockOf(r) \in 1 .. 17 /\ Teardown[BlockOf(r)].what = r
<1>1. \A j \in 1 .. 17 : BlockOf(Teardown[j].what) = j
  BY BlocksAre DEF BlockOf
<1>2. \A j \in 1 .. 17 : Teardown[j].from \in 1 .. 16
  BY BlocksAre
<1>3. \A r \in Made : BlockOf(r) \in 1 .. 17 /\ Teardown[BlockOf(r)].what = r
  BY BlocksAre DEF BlockOf, Made
<1> QED
  BY <1>1, <1>2, <1>3

LEMMA WhatIs ==
    ASSUME NEW j \in 1 .. 17
    PROVE  LET r == Teardown[j].what  n == Teardown[j].from IN
           /\ r \in Tracked => n \in 1 .. 15 /\ NotedAt[n] <= MadeAt(r) + 1
           /\ r \in Keys => n = 16
           /\ r = "plugins" <=> j = 6
           /\ r \notin Optional \cup {"plugins"} => r \in Made /\ MadeAt(r) < NotedAt[n]
           /\ r \notin {"presentation", "display"}
           /\ r = "xsh" => j = 17
           /\ r # "plugins" => r \in Resources
<1>1. \/ j \in 1 .. 3 \/ j \in 4 .. 6 \/ j \in 7 .. 9
      \/ j \in 10 .. 12 \/ j \in 13 .. 15 \/ j \in 16 .. 17
  OBVIOUS
<1>2. CASE j \in 1 .. 3
  BY <1>2, BlocksAre, ResourcesAre, SMTT(60) DEF Tracked, Made, Keys, Optional, NotedAt, MadeAt
<1>3. CASE j \in 4 .. 6
  BY <1>3, BlocksAre, ResourcesAre, SMTT(60) DEF Tracked, Made, Keys, Optional, NotedAt, MadeAt
<1>4. CASE j \in 7 .. 9
  BY <1>4, BlocksAre, ResourcesAre, SMTT(60) DEF Tracked, Made, Keys, Optional, NotedAt, MadeAt
<1>5. CASE j \in 10 .. 12
  BY <1>5, BlocksAre, ResourcesAre, SMTT(60) DEF Tracked, Made, Keys, Optional, NotedAt, MadeAt
<1>6. CASE j \in 13 .. 15
  BY <1>6, BlocksAre, ResourcesAre, SMTT(60) DEF Tracked, Made, Keys, Optional, NotedAt, MadeAt
<1>7. CASE j \in 16 .. 17
  BY <1>7, BlocksAre, ResourcesAre, SMTT(60) DEF Tracked, Made, Keys, Optional, NotedAt, MadeAt
<1> QED
  BY <1>1, <1>2, <1>3, <1>4, <1>5, <1>6, <1>7

\* What undoing takes: made before what it is needed for is counted, and undone
\* by a later block.
LEMMA NeededIs ==
    /\ \A j \in 1 .. 17 : \A x \in Needed(Teardown[j].what) :
          x \in Made /\ BlockOf(x) > j /\ MadeAt(x) < NotedAt[Teardown[j].from]
    /\ Needed("presentation") = {} /\ Needed("display") = {"xch"}
<1>1. /\ Users["xch"] = {"server", "enabled", "display"} /\ Users["server"] = {"enabled"}
      /\ Users["xceh"] = {"bound"} /\ Users["array"] = {"bound"}
  BY DEF Users
<1>3. \A r : \A x \in Needed(r) :
        \/ x = "xch" /\ r \in {"server", "enabled", "display"}
        \/ x = "server" /\ r = "enabled"
        \/ x \in {"xceh", "array"} /\ r = "bound"
        \/ x = "xsh" /\ r \in Keys
  BY <1>1 DEF Needed, Keys
<1>4. \A j \in 1 .. 17 : \A x \in Needed(Teardown[j].what) :
          x \in Made /\ BlockOf(x) > j /\ MadeAt(x) < NotedAt[Teardown[j].from]
  <2> SUFFICES ASSUME NEW j \in 1 .. 17, NEW x \in Needed(Teardown[j].what)
               PROVE  x \in Made /\ BlockOf(x) > j /\ MadeAt(x) < NotedAt[Teardown[j].from]
    OBVIOUS
  <2>1. \/ j = 13 /\ x = "xch"
        \/ j = 10 /\ x \in {"xch", "server"}
        \/ j = 7 /\ x \in {"xceh", "array"}
        \/ j \in {1, 2} /\ x = "xsh"
    <3>1. BlockOf(Teardown[j].what) = j /\ Teardown[j].what \notin {"presentation", "display"}
      BY BlockOfIs, WhatIs
    <3>2. BlockOf("server") = 13 /\ BlockOf("enabled") = 10 /\ BlockOf("bound") = 7
          /\ BlockOf("pidkey") = 1 /\ BlockOf("vramkey") = 2
      BY DEF BlockOf
    <3> QED
      BY <1>3, <3>1, <3>2 DEF Keys
  <2> QED
    BY <2>1, BlocksAre DEF Made, BlockOf, MadeAt, NotedAt
<1>5. Needed("presentation") = {}
  BY <1>3 DEF Keys
<1>6. Needed("display") = {"xch"}
  BY <1>1, <1>3 DEF Needed, Keys
<1> QED
  BY <1>4, <1>5, <1>6

LEMMA UsersAre ==
    /\ DOMAIN Users = {"xch", "server", "xceh", "array", "vram", "vga", "surface"}
    /\ \A r \in DOMAIN Users : \A u \in Users[r] :
          \/ u = "display" /\ BlockOf(r) > 6
          \/ u \in Tracked /\ BlockOf(u) < BlockOf(r)
          \/ r \in {"vga", "surface"} /\ u \in {"presentation", "display"}
    /\ BlockOf("vga") < 6 /\ BlockOf("surface") < 6
<1>1. DOMAIN Users = {"xch", "server", "xceh", "array", "vram", "vga", "surface"}
  BY DEF Users
<1>2. /\ Users["xch"] = {"server", "enabled", "display"} /\ Users["server"] = {"enabled"}
      /\ Users["xceh"] = {"bound"} /\ Users["array"] = {"bound"}
      /\ Users["vram"] = {"surface", "vga", "display"}
      /\ Users["vga"] = {"presentation", "display"} /\ Users["surface"] = {"presentation"}
  BY DEF Users
<1> QED
  BY <1>1, <1>2 DEF BlockOf, Tracked, Made, Keys

\* vmiope_shutdown is the sixth block.
LEMMA PluginsAtIs == PluginsAt = 6
<1>1. DOMAIN Teardown = 1 .. 17
  BY BlocksAre DEF Teardown, Blocks
<1>2. \A i \in 1 .. 17 : Teardown[i].what = "plugins" <=> i = 6
  BY WhatIs
<1> QED
  BY <1>1, <1>2 DEF PluginsAt

\* A step that undoes nothing keeps UsersGoFirst, unless it leaves the block of
\* vmiope_shutdown; then no plugin may be left.
LEMMA UsersKeep ==
    ASSUME UsersGoFirst, UNCHANGED <<gone, held, gap>>, td \in Int, td' \in Int,
           td' <= 6 \/ td > 6 \/ held \cap {"presentation", "display"} \subseteq gap
    PROVE  UsersGoFirst'
<1> SUFFICES ASSUME NEW q \in DOMAIN Users \cap gone, NEW u \in Users[q] \cap held, u \notin gap
             PROVE  q \in {"vga", "surface"} /\ td' <= 6
  BY PluginsAtIs DEF UsersGoFirst
<1>1. q \in {"vga", "surface"} /\ td <= 6
  BY PluginsAtIs DEF UsersGoFirst
<1>2. u \in {"presentation", "display"}
  <2>1. Users["vga"] = {"presentation", "display"} /\ Users["surface"] = {"presentation"}
    BY DEF Users
  <2> QED
    BY <1>1, <2>1
<1> QED
  BY <1>1, <1>2

LEMMA Lengths ==
    /\ Len(Code) = 65 /\ Len(Start) = 60 /\ Len(Configuration) = 9
    /\ INITIALIZED = 16 /\ Len(Teardown) = 17
    /\ Len(Plugins) = 2 /\ Range(Plugins) = {"presentation", "display"}
    /\ Resources = Made \cup {"statefile", "presentation", "display"}
<1>1. Len(Start) = 60
  BY DEF Start, Initialize, InitIo, MakeDisplay, Configuration, Register, Make, Do, Only, Plugin
<1>2. Len(Configuration) = 9
  BY DEF Configuration, Register, Do, Plugin
<1> QED
  BY <1>1, <1>2, Ops, CountIs, BlocksAre, PluginsTwo, ResourcesAre DEF INITIALIZED

-----------------------------------------------------------------------------
(* The main thread moves on.                                               *)

LEMMA OpIs ==
    ASSUME LifeTypeOK
    PROVE  pc \in 1 .. 65 /\ \A o : Op = o <=> pc \in OpAt(o)
<1>1. pc \in 1 .. 65
  BY Ops DEF LifeTypeOK
<1>2. \A o : Op = o <=> pc \in OpAt(o)
  BY <1>1, Ops DEF OpAt, Op
<1> QED
  BY <1>1, <1>2

Moves == (pc < 65 /\ pc' = pc + 1) \/ (pc = 65 /\ pc' = 61) \/ (pc = 21 /\ pc' = 30)

\* What is made, and what is counted, changes at the instructions that make and
\* that count only.
LEMMA PastMakes ==
    ASSUME LifeTypeOK, Moves, Op # "make"
    PROVE  \A r \in Made : MadeAt(r) < pc' <=> MadeAt(r) < pc
<1>1. pc \in 1 .. 65 /\ pc \notin OpAt("make")
  BY OpIs
<1> SUFFICES ASSUME NEW r \in Made PROVE MadeAt(r) < pc' <=> MadeAt(r) < pc
  OBVIOUS
<1>2. MadeAt(r) \in 1 .. 58 /\ MadeAt(r) \notin 21 .. 30 /\ MadeAt(r) # pc
  BY <1>1, MadeAtIs
<1> QED
  BY <1>1, <1>2 DEF Moves

LEMMA PastNotes ==
    ASSUME LifeTypeOK, Moves, Op # "note", StageIs, UNCHANGED <<seq, up>>
    PROVE  StageIs'
<1>1. pc \in 1 .. 65 /\ pc \notin OpAt("note")
  BY OpIs
<1>2. ASSUME NEW n \in 1 .. 16 PROVE NotedAt[n] < pc' <=> NotedAt[n] < pc
  <2>1. NotedAt[n] \in 1 .. 59 /\ NotedAt[n] \notin 21 .. 30 /\ NotedAt[n] # pc
    BY <1>1, NotedAtIs
  <2> QED
    BY <1>1, <2>1 DEF Moves
<1> QED
  BY <1>2 DEF StageIs

\* demu_seq_next counts the stage whose instruction it is.
LEMMA NoteIs ==
    ASSUME LifeTypeOK, StageIs, Op = "note"
    PROVE  seq < 16 /\ \A n \in 1 .. 16 : n <= seq + 1 <=> NotedAt[n] < pc + 1
<1>1. pc \in 1 .. 65 /\ pc \in OpAt("note") /\ seq \in 0 .. 16
  BY OpIs, Lengths DEF LifeTypeOK
<1>2. PICK t \in 1 .. 16 : NotedAt[t] = pc
  BY <1>1, NotedAtIs
<1>3. \A n \in 1 .. 16 : NotedAt[n] \in Int
  BY NotedAtIs
<1>4. \A n \in 1 .. 16 : (n < t => NotedAt[n] < pc) /\ (n > t => NotedAt[n] > pc)
  BY <1>2, NotedAtIs
<1>5. ~(t <= seq)
  BY <1>1, <1>2 DEF StageIs
<1>6. t = 1 \/ t - 1 <= seq
  BY <1>1, <1>2, <1>4 DEF StageIs
<1>7. seq = t - 1
  BY <1>1, <1>5, <1>6
<1> QED
  BY <1>1, <1>2, <1>3, <1>4, <1>7

\* Where the main thread moves on, nothing else has to be shown.
LEMMA StartMoves ==
    ASSUME StartInv, td = 0, UNCHANGED <<tdVars, ended, shutVars>>,
           StageIs', PluginsAre', \A r \in Made : r \in held' <=> MadeAt(r) < pc'
    PROVE  StartInv' /\ EndInv'
<1>1. /\ td' = 0 /\ gone' = {} /\ amiss' = {} /\ gap' = {} /\ ~again' /\ ~ended' /\ blocked' = {}
      /\ sd' = "enter" /\ cursor' = 0
  BY DEF StartInv, tdVars, shutVars
<1>2. StartInv'
  BY <1>1 DEF StartInv
<1>3. EndInv'
  BY <1>1 DEF EndInv
<1> QED
  BY <1>2, <1>3

\* A main thread at an instruction that neither makes, counts, enters a plugin
\* nor initialises one.
LEMMA PlainMoves ==
    ASSUME LifeTypeOK, StartInv, Running, Moves, Op \notin {"make", "note", "insert", "init"},
           UNCHANGED <<seq, up, held, table, shutVars, tdVars, ended>>,
           initRc' = initRc \/ Op = "keep",
           Op = "keep" => initRc = "success"
    PROVE  StartInv' /\ EndInv'
<1>1. td = 0 /\ StageIs /\ PluginsAre /\ \A r \in Made : r \in held <=> MadeAt(r) < pc
  BY DEF StartInv, Running
<1>2. StageIs'
  BY <1>1, PastNotes
<1>3. \A r \in Made : r \in held' <=> MadeAt(r) < pc'
  BY <1>1, PastMakes
<1>4. /\ pc \in 1 .. 65 /\ pc \notin {13, 16, 22, 25} /\ (Op = "keep" <=> pc \in {19, 28})
  <2>1. pc \in 1 .. 65 /\ pc \notin OpAt("insert") /\ pc \notin OpAt("init")
    BY OpIs
  <2>2. Op = "keep" <=> pc \in OpAt("keep")
    BY OpIs
  <2> QED
    BY <2>1, <2>2, Ops
<1>5. PluginsAre'
  BY <1>1, <1>4 DEF PluginsAre, TableIs, Moves
<1> QED
  BY <1>1, <1>2, <1>3, <1>5, StartMoves

LEMMA MovesOn ==
    ASSUME LifeTypeOK,
           \/ pc' = AfterLoop
           \/ pc' = pc + 1 /\ Op \in {"make", "insert", "init", "keep", "config"}
           \/ pc' = pc + Len(Configuration) /\ Op = "config"
    PROVE  Moves /\ pc' \in 1 .. Len(Code)
<1>1. pc \in 1 .. 65
  BY OpIs
<1>2. Op \in {"make", "insert", "init", "keep", "config"} => pc < 65
  <2>1. /\ (Op = "make" => pc \in OpAt("make")) /\ (Op = "insert" => pc \in OpAt("insert"))
        /\ (Op = "init" => pc \in OpAt("init")) /\ (Op = "keep" => pc \in OpAt("keep"))
        /\ (Op = "config" => pc \in OpAt("config"))
    BY OpIs
  <2> QED
    BY <2>1, Ops
<1>3. Op = "config" => pc = 21
  BY OpIs, Ops
<1> QED
  BY <1>1, <1>2, <1>3, Lengths DEF AfterLoop, Moves

\* The main thread has the mutex from its lock to its unlock.
LEMMA MonitorMoves ==
    ASSUME LifeTypeOK, MonitorIs, Running, Moves, UNCHANGED <<td, sd>>,
           \/ UNCHANGED monVars /\ Op \notin {"lock", "drop"}
           \/ Op = "lock" /\ mutex' = "main"
           \/ Op = "hold" /\ UNCHANGED mutex
           \/ Op = "drop" /\ holder' = "none" /\ UNCHANGED mutex
           \/ Op = "unlock" /\ UNCHANGED holder
    PROVE  MonitorIs'
<1>1. pc \in 1 .. 65
  BY OpIs
<1>2. /\ Op = "lock" <=> pc \in {7, 17, 26, 50, 63}
      /\ Op = "hold" <=> pc \in {8, 18, 27, 51, 64}
      /\ Op = "drop" <=> pc \in {14, 23, 30, 61}
      /\ Op = "unlock" <=> pc \in {15, 24, 31, 62}
  <2>1. /\ Op = "lock" <=> pc \in OpAt("lock")
        /\ Op = "hold" <=> pc \in OpAt("hold")
        /\ Op = "drop" <=> pc \in OpAt("drop")
        /\ Op = "unlock" <=> pc \in OpAt("unlock")
    BY OpIs
  <2> QED
    BY <2>1, Ops
<1>3. td' = 0 /\ sd' = "enter"
  BY DEF Running, MonitorIs
<1>4. CASE UNCHANGED monVars /\ Op \notin {"lock", "drop"}
  BY <1>1, <1>2, <1>3, <1>4 DEF MonitorIs, Running, Moves, monVars
<1>5. CASE Op = "lock" /\ mutex' = "main"
  BY <1>1, <1>2, <1>3, <1>5 DEF MonitorIs, Running, Moves
<1>6. CASE Op = "hold" /\ UNCHANGED mutex
  BY <1>1, <1>2, <1>3, <1>6 DEF MonitorIs, Running, Moves
<1>7. CASE Op = "drop" /\ holder' = "none" /\ UNCHANGED mutex
  BY <1>1, <1>2, <1>3, <1>7 DEF MonitorIs, Running, Moves
<1>8. CASE Op = "unlock" /\ UNCHANGED holder
  BY <1>1, <1>2, <1>3, <1>8 DEF MonitorIs, Running, Moves
<1> QED
  BY <1>4, <1>5, <1>6, <1>7, <1>8

-----------------------------------------------------------------------------
(* The teardown begins.                                                    *)

\* The thing of a block that is not reached yet is what was made last.
LEMMA LastMade ==
    ASSUME LifeTypeOK, StageIs, NEW j \in 1 .. 17, Teardown[j].what \in Tracked,
           MadeAt(Teardown[j].what) < pc, ~Reached(Teardown[j])
    PROVE  Teardown[j].what \in Uncounted
<1> DEFINE r == Teardown[j].what
           n == Teardown[j].from
<1>1. n \in 1 .. 15 /\ NotedAt[n] <= MadeAt(r) + 1
  BY WhatIs
<1>2. /\ pc \in 1 .. 65 /\ seq \in 0 .. 16 /\ r \in Made
      /\ MadeAt(r) \in 1 .. 58 /\ NotedAt[n] \in 1 .. 59
  <2>1. r \in Made
    BY DEF Tracked
  <2>2. pc \in 1 .. 65
    BY OpIs
  <2>3. seq \in 0 .. 16
    BY Lengths DEF LifeTypeOK
  <2>4. MadeAt(r) \in 1 .. 58
    BY <2>1, MadeAtIs
  <2>5. NotedAt[n] \in 1 .. 59
    <3>1. \A i \in 1 .. 16 : NotedAt[i] \in 1 .. 59
      BY NotedAtIs
    <3>2. n \in 1 .. 16
      BY <1>1
    <3> HIDE DEF n
    <3> QED
      BY ONLY <3>1, <3>2
  <2> QED
    BY <2>1, <2>2, <2>3, <2>4, <2>5
<1>3. ~(n <= seq)
  BY <1>1, <1>2, Lengths DEF Reached
<1>4. ~(NotedAt[n] < pc)
  BY <1>1, <1>3 DEF StageIs
<1>5. pc = NotedAt[n] /\ pc - 1 = MadeAt(r)
  BY <1>1, <1>2, <1>4
<1>6. Op = "note"
  BY <1>1, <1>5, OpIs, NotedAtIs
<1>7. Code[pc - 1].op = "make" /\ Code[pc - 1].what = r
  <2>1. MadeAt(r) \in OpAt("make") /\ Code[MadeAt(r)].what = r
    BY <1>2, MadeAtIs
  <2> QED
    BY <1>5, <2>1 DEF OpAt
<1> QED
  BY <1>2, <1>5, <1>6, <1>7 DEF Uncounted

LEMMA TeardownBegins ==
    ASSUME LifeTypeOK, StartInv, Running, td' = 1, gap \subseteq gap',
           UNCHANGED <<pc, seq, up, held, gone, amiss>>,
           sd' = "enter", cursor' = 0,
           Uncounted \cup (table' \ held) \subseteq gap',
           held \cap {"presentation", "display"} \subseteq table', table' \subseteq table,
           ended' => "xsh" \notin held
    PROVE  StartInv' /\ EndInv'
<1>1. /\ gone = {} /\ amiss = {} /\ StageIs /\ PluginsAre
      /\ \A r \in Made : r \in held <=> MadeAt(r) < pc
  BY DEF StartInv, Running
<1>2. StartInv'
  BY DEF StartInv
<1>3. TableIs' /\ CursorIs'
  BY <1>1 DEF PluginsAre, TableIs, CursorIs
<1>4. \A r \in (Made \cap held)' : MadeAt(r) < pc'
  BY <1>1
<1>5. StageIs'
  BY <1>1 DEF StageIs
<1>6. CountedIs'
  <2> SUFFICES ASSUME NEW j \in 1 .. 17, Teardown[j].what \in Tracked,
                      MadeAt(Teardown[j].what) < pc, ~Reached(Teardown[j])
               PROVE  Teardown[j].what \in gap'
    BY DEF CountedIs, Reached
  <2> QED
    BY <1>1, LastMade
<1>7. PassedIs'
  <2>1. \A j \in 1 .. 17 : ~(j < td')
    OBVIOUS
  <2>2. ~(td' > 6) /\ td' # 6
    OBVIOUS
  <2> QED
    BY <2>1, <2>2 DEF PassedIs
<1>8. FirstIs'
  <2>1. ASSUME NEW j \in 1 .. 17, Teardown[j].what \in Made, MadeAt(Teardown[j].what) < pc
        PROVE  Teardown[j].what \in held'
    BY <1>1, <2>1
  <2>2. ASSUME NEW i \in 1 .. 2, Plugins[i] \in table' PROVE Plugins[i] \in held' \cup gap'
    BY <2>2
  <2> QED
    BY <2>1, <2>2 DEF FirstIs
<1>9. seq = 0 \/ "xsh" \notin held => LeftIs'
  <2> SUFFICES ASSUME seq = 0 \/ "xsh" \notin held PROVE LeftIs'
    OBVIOUS
  <2>1. pc \in 1 .. 65
    BY OpIs
  <2>2. NotedAt[1] = 3 /\ MadeAt("xsh") = 1 /\ "xsh" \in Made
    BY DEF NotedAt, MadeAt, Made
  <2>3. pc <= 3
    BY <1>1, <2>1, <2>2 DEF StageIs
  <2>4. ~up /\ "display" \notin held /\ "presentation" \notin held
    <3>1. ~up
      <4>1. NotedAt[16] = 59
        BY DEF NotedAt
      <4>2. seq \in 0 .. 16
        BY Lengths DEF LifeTypeOK
      <4> QED
        BY <1>1, <2>1, <2>3, <4>1, <4>2 DEF StageIs
    <3>2. "display" \notin held /\ "presentation" \notin held
      BY <1>1, <2>1, <2>3 DEF PluginsAre
    <3> QED
      BY <3>1, <3>2
  <2>5. "server" \notin held /\ "enabled" \notin held
    <3>1. MadeAt("server") = 34 /\ MadeAt("enabled") = 41 /\ "server" \in Made /\ "enabled" \in Made
      BY DEF MadeAt, Made
    <3> QED
      BY <1>1, <2>1, <2>3, <3>1
  <2> QED
    BY <2>4, <2>5 DEF LeftIs, Persistent, Keys
<1>10. UndoneOnce' /\ UsersGoFirst'
  BY <1>1 DEF UndoneOnce, UsersGoFirst
<1> QED
  BY <1>2, <1>3, <1>4, <1>5, <1>6, <1>7, <1>8, <1>9, <1>10 DEF EndInv

LEMMA TypeSame ==
    ASSUME LifeTypeOK, UNCHANGED <<tdVars, ended, shutVars>>,
           pc' \in 1 .. Len(Code), seq' \in 0 .. INITIALIZED, up' \in BOOLEAN,
           held' \subseteq Resources, table' \subseteq Range(Plugins),
           initRc' \in {"none", "success", "error"},
           mutex' \in {"free", "main", "other"}, holder' \in {"none", "main", "other"},
           holder' # "none" => mutex' = holder'
    PROVE  LifeTypeOK'
<1>1. UNCHANGED <<td, how, blocked, gap, gone, amiss, again, caught>>
  BY DEF tdVars
<1>2. UNCHANGED <<sd, cursor, inMon>>
  BY DEF shutVars
<1> QED
  BY <1>1, <1>2 DEF LifeTypeOK

LEMMA TypeFails ==
    ASSUME LifeTypeOK, UNCHANGED <<pc, seq, up, held>>, UNCHANGED <<mutex, holder, blocked, ended>>,
           UNCHANGED <<gone, amiss, again, caught>>, UNCHANGED <<sd, cursor, inMon>>,
           td' \in 0 .. Len(Teardown) + 1, how' \in {"", "return", "exit", "raise", "kill"},
           gap' \subseteq Resources, table' \subseteq Range(Plugins),
           initRc' \in {"none", "success", "error"}
    PROVE  LifeTypeOK'
<1>1. /\ pc' \in 1 .. Len(Code) /\ seq' \in 0 .. INITIALIZED
      /\ held' \subseteq Resources
      /\ mutex' \in {"free", "main", "other"} /\ holder' \in {"none", "main", "other"}
      /\ holder' # "none" => mutex' = holder'
  BY DEF LifeTypeOK
<1>2. /\ blocked' \subseteq Signals /\ gone' \subseteq Resources /\ amiss' \subseteq Resources
      /\ sd' \in {"enter", "lock", "hold", "find", "drop", "unlock", "call", "release"}
      /\ cursor' \in 0 .. Len(Plugins)
  BY DEF LifeTypeOK
<1>3. up' \in BOOLEAN /\ again' \in BOOLEAN /\ caught' \in BOOLEAN /\ ended' \in BOOLEAN
      /\ inMon' \in BOOLEAN
  BY DEF LifeTypeOK
<1> QED
  BY <1>1, <1>2, <1>3 DEF LifeTypeOK

\* main and what it calls give up.
LEMMA Fails ==
    ASSUME LifeInv, Running, \E h \in {"return", "exit"} : Begin(h),
           gap' = {}, UNCHANGED <<blocked, gone, amiss, again, caught, ended>>,
           UNCHANGED <<pc, seq, up, held, monVars, shutVars>>,
           initRc' \in {"none", "success", "error"}, Op # "note",
           \/ table' = table /\ pc \notin (14 .. 16) \cup (23 .. 28)
           \/ pc = 28 /\ table' = table \ {"display"} /\ "display" \notin held
    PROVE  LifeInv'
<1>1. td = 0 /\ td' = 1 /\ gap = {} /\ ~ended' /\ how' \in {"return", "exit"}
  BY DEF Running, LifeInv, StartInv, Begin
<1>2. LifeTypeOK'
  <2>1. UNCHANGED <<mutex, holder, sd, cursor, inMon>>
    BY DEF monVars, shutVars
  <2>2. td' \in 0 .. Len(Teardown) + 1
    BY ONLY <1>1, Lengths
  <2>3. LifeTypeOK /\ table' \subseteq Range(Plugins)
    BY DEF LifeInv, LifeTypeOK
  <2>4. how' \in {"", "return", "exit", "raise", "kill"} /\ gap' \subseteq Resources
        /\ initRc' \in {"none", "success", "error"}
    BY <1>1
  <2> QED
    BY <2>1, <2>2, <2>3, <2>4, TypeFails
<1>3. MonitorIs'
  BY <1>1 DEF LifeInv, MonitorIs, monVars, shutVars
<1>4. sd' = "enter" /\ cursor' = 0
  BY <1>1 DEF LifeInv, StartInv, shutVars
<1>5. Uncounted = {}
  BY DEF Uncounted
<1>6. /\ held \cap {"presentation", "display"} \subseteq table'
      /\ table' \subseteq table /\ table' \ held = {}
  <2>1. PluginsAre /\ table \subseteq {"presentation", "display"}
    BY <1>1, Lengths DEF LifeInv, StartInv, LifeTypeOK
  <2>2. /\ held \cap {"presentation", "display"} \subseteq table
        /\ "presentation" \in table \ held => pc \in 14 .. 16
        /\ "display" \in table \ held => pc \in 23 .. 28
    BY <2>1 DEF PluginsAre, TableIs
  <2>3. CASE table' = table /\ pc \notin (14 .. 16) \cup (23 .. 28)
    BY <2>1, <2>2, <2>3
  <2>4. CASE pc = 28 /\ table' = table \ {"display"} /\ "display" \notin held
    <3>1. "presentation" \in table => "presentation" \in held
      BY ONLY <2>2, <2>4
    <3> QED
      BY ONLY <2>1, <2>2, <2>4, <3>1
  <2>5. \/ table' = table /\ pc \notin (14 .. 16) \cup (23 .. 28)
        \/ pc = 28 /\ table' = table \ {"display"} /\ "display" \notin held
    OBVIOUS
  <2> QED
    BY ONLY <2>3, <2>4, <2>5
<1>7. StartInv' /\ EndInv'
  BY <1>1, <1>4, <1>5, <1>6, TeardownBegins DEF LifeInv
<1> QED
  BY <1>2, <1>3, <1>7 DEF LifeInv

LEMMA MakeKeeps == ASSUME LifeInv, MakeStep PROVE LifeInv'
<1>1. LifeTypeOK /\ MonitorIs /\ StartInv /\ Running /\ td = 0 /\ Op = "make"
  BY DEF LifeInv, MakeStep, Running
<1>2. pc \in OpAt("make") /\ pc \in 1 .. 65
  BY <1>1, OpIs
<1>3. Code[pc].what \in Made /\ MadeAt(Code[pc].what) = pc
  BY <1>2, MadeAtIs
<1>4. CASE held' = held \cup {Code[pc].what} /\ pc' = pc + 1 /\ UNCHANGED <<tdVars, ended>>
  <2>1. UNCHANGED <<seq, up, monVars, plugVars>>
    BY DEF MakeStep
  <2>2. Moves /\ pc' \in 1 .. Len(Code)
    BY <1>1, <1>4, MovesOn
  <2>3. LifeTypeOK'
    <3>1. UNCHANGED <<mutex, holder, table, initRc, shutVars>>
      BY <2>1 DEF monVars, plugVars
    <3>2. held' \subseteq Resources
      BY <1>1, <1>3, <1>4, Lengths DEF LifeTypeOK
    <3>3. seq \in 0 .. INITIALIZED /\ up \in BOOLEAN /\ table \subseteq Range(Plugins)
          /\ initRc \in {"none", "success", "error"}
          /\ mutex \in {"free", "main", "other"} /\ holder \in {"none", "main", "other"}
          /\ (holder # "none" => mutex = holder)
      BY <1>1 DEF LifeTypeOK
    <3> QED
      BY <1>1, <1>4, <2>1, <2>2, <3>1, <3>2, <3>3, TypeSame
  <2>4. MonitorIs'
    BY <1>1, <1>4, <2>1, <2>2, MonitorMoves DEF tdVars, plugVars, shutVars
  <2>5. StageIs'
    BY <1>1, <2>1, <2>2, PastNotes DEF StartInv
  <2>6. \A r \in Made : r \in held' <=> MadeAt(r) < pc'
    <3> SUFFICES ASSUME NEW r \in Made PROVE r \in held' <=> MadeAt(r) < pc'
      OBVIOUS
    <3>1. MadeAt(r) \in 1 .. 58 /\ Code[MadeAt(r)].what = r
      BY MadeAtIs
    <3>2. r \in held <=> MadeAt(r) < pc
      BY <1>1 DEF StartInv
    <3> QED
      BY <1>2, <1>4, <3>1, <3>2, <1>3
  <2>7. PluginsAre'
    <3>1. Code[pc].what \notin {"presentation", "display"}
      BY <1>3 DEF Made
    <3>2. PluginsAre
      BY <1>1 DEF StartInv
    <3>3. pc \in {1, 2, 4, 11, 34, 37, 39, 41, 43, 45, 47, 52, 54, 56, 58}
      BY <1>2, Ops
    <3> QED
      BY <1>4, <2>1, <3>1, <3>2, <3>3 DEF PluginsAre, TableIs, plugVars
  <2>8. UNCHANGED shutVars
    BY <2>1 DEF plugVars
  <2>9. StartInv' /\ EndInv'
    BY <1>1, <1>4, <2>5, <2>6, <2>7, <2>8, StartMoves
  <2> QED
    BY <2>3, <2>4, <2>9 DEF LifeInv
<1>5. CASE Fail /\ gap' = {} /\ UNCHANGED <<held, pc>>
  <2>1. initRc' \in {"none", "success", "error"}
    BY <1>1 DEF MakeStep, plugVars, LifeTypeOK
  <2>2. pc \notin (14 .. 16) \cup (23 .. 28)
    BY <1>2, Ops
  <2> QED
    BY <1>1, <1>5, <2>1, <2>2, Fails DEF MakeStep, Fail, plugVars
<1> QED
  BY <1>4, <1>5 DEF MakeStep

\* The instructions that neither make, count, enter nor initialise.
LEMMA PlainKeeps ==
    ASSUME LifeInv, Running, Moves, pc' \in 1 .. Len(Code),
           Op \notin {"make", "note", "insert", "init"},
           UNCHANGED <<seq, up, held, table, shutVars, tdVars, ended>>,
           \/ initRc' = initRc
           \/ Op = "keep" /\ initRc' = "none",
           Op = "keep" => initRc = "success",
           \/ UNCHANGED monVars /\ Op \notin {"lock", "drop"}
           \/ Op = "lock" /\ mutex = "free" /\ mutex' = "main" /\ UNCHANGED holder
           \/ Op = "hold" /\ holder' = "main" /\ UNCHANGED mutex
           \/ Op = "drop" /\ holder' = "none" /\ UNCHANGED mutex
           \/ Op = "unlock" /\ mutex' = "free" /\ UNCHANGED holder
    PROVE  LifeInv'
<1>1. LifeTypeOK /\ MonitorIs /\ StartInv /\ td = 0
  BY DEF LifeInv, Running
<1>2. MonitorIs'
  BY <1>1, MonitorMoves DEF tdVars, shutVars
<1>3. Op = "hold" => pc \in {8, 18, 27, 51, 64}
  BY <1>1, OpIs, Ops
<1>4. Op = "unlock" => pc \in {15, 24, 31, 62}
  BY <1>1, OpIs, Ops
<1>5. mutex' \in {"free", "main", "other"} /\ holder' \in {"none", "main", "other"}
      /\ (holder' # "none" => mutex' = holder')
  <2>1. /\ mutex \in {"free", "main", "other"} /\ holder \in {"none", "main", "other"}
        /\ holder # "none" => mutex = holder
    BY <1>1 DEF LifeTypeOK
  <2>2. Op = "hold" => mutex = "main"
    BY <1>1, <1>3 DEF MonitorIs
  <2>3. Op = "unlock" => holder = "none"
    BY <1>1, <1>4 DEF MonitorIs
  <2> QED
    BY <2>1, <2>2, <2>3 DEF monVars
<1>6. LifeTypeOK'
  <2>1. /\ seq \in 0 .. INITIALIZED /\ up \in BOOLEAN /\ held \subseteq Resources
        /\ table \subseteq Range(Plugins) /\ initRc' \in {"none", "success", "error"}
    BY <1>1 DEF LifeTypeOK
  <2> QED
    BY <1>1, <1>5, <2>1, TypeSame
<1>7. StartInv' /\ EndInv'
  BY <1>1, PlainMoves
<1> QED
  BY <1>2, <1>6, <1>7 DEF LifeInv

LEMMA CheckKeeps == ASSUME LifeInv, CheckStep \/ SelectStep PROVE LifeInv'
<1>1. /\ LifeTypeOK /\ Running /\ Op \in {"check", "select"}
      /\ UNCHANGED <<seq, up, held, monVars, table, initRc, shutVars>>
  BY DEF LifeInv, CheckStep, SelectStep, plugVars
<1>2. CASE pc' = AfterLoop /\ UNCHANGED <<tdVars, ended>>
  <2>1. Moves /\ pc' \in 1 .. Len(Code)
    BY <1>1, <1>2, MovesOn
  <2> QED
    BY <1>1, <1>2, <2>1, PlainKeeps
<1>3. CASE Fail /\ gap' = {} /\ UNCHANGED pc
  <2>1. pc \in OpAt("check") \/ pc \in OpAt("select")
    BY <1>1, OpIs
  <2>2. pc \notin (14 .. 16) \cup (23 .. 28)
    BY <2>1, Ops
  <2>3. initRc' \in {"none", "success", "error"}
    BY <1>1 DEF LifeTypeOK
  <2> QED
    BY <1>1, <1>3, <2>2, <2>3, Fails DEF Fail
<1> QED
  BY <1>2, <1>3 DEF CheckStep, SelectStep

LEMMA ConfigKeeps == ASSUME LifeInv, ConfigStep PROVE LifeInv'
<1>1. /\ LifeTypeOK /\ Running /\ Op = "config"
      /\ UNCHANGED <<seq, up, held, monVars, table, initRc, shutVars>>
  BY DEF LifeInv, ConfigStep, plugVars
<1>2. CASE pc' \in {pc + 1, pc + Len(Configuration)} /\ UNCHANGED <<tdVars, ended>>
  <2>1. Moves /\ pc' \in 1 .. Len(Code)
    BY <1>1, <1>2, MovesOn
  <2> QED
    BY <1>1, <1>2, <2>1, PlainKeeps
<1>3. CASE Fail /\ gap' = {} /\ UNCHANGED pc
  <2>1. pc = 21
    BY <1>1, OpIs, Ops
  <2>2. initRc' \in {"none", "success", "error"}
    BY <1>1 DEF LifeTypeOK
  <2> QED
    BY <1>1, <1>3, <2>1, <2>2, Fails DEF Fail
<1> QED
  BY <1>2, <1>3 DEF ConfigStep

LEMMA MonitorKeeps ==
    ASSUME LifeInv, LockStep \/ HoldStep \/ DropStep \/ UnlockStep
    PROVE  LifeInv'
<1>1. /\ LifeTypeOK /\ Running /\ pc' = AfterLoop
      /\ UNCHANGED <<seq, up, held, table, initRc, shutVars, tdVars, ended>>
  BY DEF LifeInv, LockStep, HoldStep, DropStep, UnlockStep, plugVars
<1>2. Moves /\ pc' \in 1 .. Len(Code)
  BY <1>1, MovesOn
<1>3. CASE LockStep
  BY <1>1, <1>2, <1>3, PlainKeeps DEF LockStep
<1>4. CASE HoldStep
  BY <1>1, <1>2, <1>4, PlainKeeps DEF HoldStep
<1>5. CASE DropStep
  BY <1>1, <1>2, <1>5, PlainKeeps DEF DropStep
<1>6. CASE UnlockStep
  BY <1>1, <1>2, <1>6, PlainKeeps DEF UnlockStep
<1> QED
  BY <1>3, <1>4, <1>5, <1>6

LEMMA KeepKeeps == ASSUME LifeInv, KeepStep PROVE LifeInv'
<1>1. /\ LifeTypeOK /\ StartInv /\ Running /\ td = 0 /\ Op = "keep" /\ initRc' = "none"
      /\ UNCHANGED <<seq, up, held, monVars, shutVars>>
  BY DEF LifeInv, KeepStep, Running
<1>2. pc \in {19, 28}
  BY <1>1, OpIs, Ops
<1>3. CASE initRc = "success"
  <2>1. pc' = pc + 1 /\ UNCHANGED <<table, tdVars, ended>>
    BY <1>3 DEF KeepStep
  <2>2. Moves /\ pc' \in 1 .. Len(Code)
    BY <1>1, <2>1, MovesOn
  <2> QED
    BY <1>1, <1>3, <2>1, <2>2, PlainKeeps
<1>4. CASE initRc # "success"
  <2>1. Fail /\ gap' = {} /\ table' = table \ {Code[pc].what} /\ UNCHANGED pc
    BY <1>4 DEF KeepStep
  <2>2. pc = 28 /\ "display" \notin held
    BY <1>1, <1>2, <1>4 DEF StartInv, PluginsAre
  <2>3. Code[28].what = "display"
    BY MakesAre
  <2> QED
    BY <1>1, <2>1, <2>2, <2>3, Fails DEF Fail
<1> QED
  BY <1>3, <1>4

LEMMA InsertKeeps == ASSUME LifeInv, InsertStep PROVE LifeInv'
<1>1. /\ LifeTypeOK /\ MonitorIs /\ StartInv /\ Running /\ td = 0 /\ Op = "insert"
      /\ UNCHANGED <<seq, up, held, mutex, holder, monVars, initRc, shutVars>>
  BY DEF LifeInv, InsertStep, Running, monVars
<1>2. /\ pc \in {13, 22}
      /\ pc = 13 => Code[pc].what = "presentation"
      /\ pc = 22 => Code[pc].what = "display"
  <2>1. pc \in OpAt("insert")
    BY <1>1, OpIs
  <2>2. pc \in {13, 22}
    BY ONLY <2>1, Ops
  <2> QED
    BY ONLY <2>2, MakesAre
<1>3. CASE table' = table \cup {Code[pc].what} /\ pc' = pc + 1 /\ UNCHANGED <<tdVars, ended>>
  <2>1. Moves /\ pc' \in 1 .. Len(Code)
    BY <1>1, <1>3, MovesOn
  <2>2. LifeTypeOK'
    <3>1. table' \subseteq Range(Plugins)
      BY <1>1, <1>2, <1>3, Lengths DEF LifeTypeOK
    <3>2. /\ seq \in 0 .. INITIALIZED /\ up \in BOOLEAN /\ held \subseteq Resources
          /\ initRc \in {"none", "success", "error"}
          /\ mutex \in {"free", "main", "other"} /\ holder \in {"none", "main", "other"}
          /\ holder # "none" => mutex = holder
      BY <1>1 DEF LifeTypeOK
    <3> QED
      BY <1>1, <1>3, <2>1, <3>1, <3>2, TypeSame
  <2>3. MonitorIs'
    BY <1>1, <1>3, <2>1, MonitorMoves DEF tdVars, shutVars
  <2>4. StageIs' /\ \A r \in Made : r \in held' <=> MadeAt(r) < pc'
    <3>1. StageIs /\ \A r \in Made : r \in held <=> MadeAt(r) < pc
      BY <1>1 DEF StartInv
    <3> QED
      BY <1>1, <2>1, <3>1, PastNotes, PastMakes
  <2>5. PluginsAre'
    <3>1. PluginsAre
      BY <1>1 DEF StartInv
    <3> QED
      BY <1>1, <1>2, <1>3, <3>1 DEF PluginsAre, TableIs
  <2>6. StartInv' /\ EndInv'
    BY <1>1, <1>3, <2>4, <2>5, StartMoves
  <2> QED
    BY <2>2, <2>3, <2>6 DEF LifeInv
<1>4. CASE Fail /\ gap' = {} /\ UNCHANGED <<table, pc>>
  <2>1. initRc' \in {"none", "success", "error"}
    BY <1>1 DEF LifeTypeOK
  <2> QED
    BY <1>1, <1>2, <1>4, <2>1, Fails DEF Fail
<1> QED
  BY <1>3, <1>4 DEF InsertStep

LEMMA InitKeeps == ASSUME LifeInv, InitStep PROVE LifeInv'
<1>1. /\ LifeTypeOK /\ MonitorIs /\ StartInv /\ Running /\ td = 0 /\ Op = "init" /\ pc' = pc + 1
      /\ UNCHANGED <<seq, up, mutex, holder, monVars, table, shutVars, tdVars, ended>>
  BY DEF LifeInv, InitStep, Running, monVars
<1>2. /\ pc \in {16, 25}
      /\ pc = 16 => Code[pc].what = "presentation"
      /\ pc = 25 => Code[pc].what = "display"
  <2>1. pc \in OpAt("init")
    BY <1>1, OpIs
  <2>2. pc \in {16, 25}
    BY ONLY <2>1, Ops
  <2> QED
    BY ONLY <2>2, MakesAre
<1>3. \/ initRc' = "success" /\ held' = held \cup {Code[pc].what}
      \/ Code[pc].what # "presentation" /\ initRc' = "error" /\ held' = held
  BY DEF InitStep
<1>4. Moves /\ pc' \in 1 .. Len(Code)
  BY <1>1, MovesOn
<1>5. LifeTypeOK'
  <2>1. held' \subseteq Resources
    BY <1>1, <1>2, <1>3, Lengths DEF LifeTypeOK
  <2>2. /\ seq \in 0 .. INITIALIZED /\ up \in BOOLEAN /\ table \subseteq Range(Plugins)
        /\ mutex \in {"free", "main", "other"} /\ holder \in {"none", "main", "other"}
        /\ holder # "none" => mutex = holder
    BY <1>1 DEF LifeTypeOK
  <2>3. initRc' \in {"none", "success", "error"}
    BY <1>3
  <2> QED
    BY <1>1, <1>4, <2>1, <2>2, <2>3, TypeSame
<1>6. MonitorIs'
  BY <1>1, <1>4, MonitorMoves DEF tdVars, shutVars
<1>7. StageIs'
  BY <1>1, <1>4, PastNotes DEF StartInv
<1>8. \A r \in Made : r \in held' <=> MadeAt(r) < pc'
  <2> SUFFICES ASSUME NEW r \in Made PROVE r \in held' <=> MadeAt(r) < pc'
    OBVIOUS
  <2>1. r \in held <=> MadeAt(r) < pc
    BY <1>1 DEF StartInv
  <2>2. r \notin {"presentation", "display"}
    BY DEF Made
  <2> QED
    BY <1>1, <1>2, <1>3, <1>4, <2>1, <2>2, PastMakes
<1>9. PluginsAre'
  <2>1. PluginsAre
    BY <1>1 DEF StartInv
  <2>2. CASE pc = 16
    <3>1. initRc' = "success" /\ held' = held \cup {"presentation"} /\ pc' = 17 /\ table' = table
      BY <1>1, <1>2, <1>3, <2>2
    <3> QED
      BY <2>1, <2>2, <3>1 DEF PluginsAre, TableIs
  <2>3. CASE pc = 25
    <3>1. /\ pc' = 26 /\ table' = table
          /\ \/ initRc' = "success" /\ held' = held \cup {"display"}
             \/ initRc' = "error" /\ held' = held
      BY <1>1, <1>2, <1>3, <2>3
    <3>2. "display" \notin held
      BY <2>1, <2>3 DEF PluginsAre
    <3>3. CASE initRc' = "success" /\ held' = held \cup {"display"}
      BY <2>1, <2>3, <3>1, <3>3 DEF PluginsAre, TableIs
    <3>4. CASE initRc' = "error" /\ held' = held
      BY <2>1, <2>3, <3>1, <3>2, <3>4 DEF PluginsAre, TableIs
    <3> QED
      BY <3>1, <3>3, <3>4
  <2> QED
    BY <1>2, <2>2, <2>3
<1>10. StartInv' /\ EndInv'
  BY <1>1, <1>7, <1>8, <1>9, StartMoves
<1> QED
  BY <1>5, <1>6, <1>10 DEF LifeInv

LEMMA NoteKeeps == ASSUME LifeInv, NoteStep PROVE LifeInv'
<1>1. /\ LifeTypeOK /\ MonitorIs /\ StartInv /\ Running /\ td = 0 /\ Op = "note"
      /\ seq' = seq + 1 /\ pc' = AfterLoop
      /\ UNCHANGED <<held, mutex, holder, monVars, table, initRc, shutVars, tdVars, ended>>
  BY DEF LifeInv, NoteStep, Running, monVars, plugVars
<1>2. up' = (up \/ seq' = 16)
  BY Lengths DEF NoteStep
<1>3. Moves /\ pc' \in 1 .. Len(Code)
  BY <1>1, MovesOn
<1>4. StageIs /\ PluginsAre /\ \A r \in Made : r \in held <=> MadeAt(r) < pc
  BY <1>1 DEF StartInv
<1>5. pc \in {3, 5, 10, 12, 32, 35, 38, 40, 42, 44, 46, 48, 53, 55, 57, 59}
  BY <1>1, OpIs, Ops
<1>6. pc' = pc + 1
  BY <1>3, <1>5 DEF Moves
<1>7. seq \in 0 .. 16 /\ seq < 16 /\ \A n \in 1 .. 16 : n <= seq + 1 <=> NotedAt[n] < pc + 1
  BY <1>1, <1>4, NoteIs, Lengths DEF LifeTypeOK
<1>8. LifeTypeOK'
  <2>1. seq' \in 0 .. INITIALIZED
    BY <1>1, <1>7, Lengths
  <2>2. /\ held \subseteq Resources /\ table \subseteq Range(Plugins)
        /\ initRc \in {"none", "success", "error"}
        /\ mutex \in {"free", "main", "other"} /\ holder \in {"none", "main", "other"}
        /\ holder # "none" => mutex = holder
    BY <1>1 DEF LifeTypeOK
  <2>3. up' \in BOOLEAN
    BY <1>2
  <2> QED
    BY <1>1, <1>3, <2>1, <2>2, <2>3, TypeSame
<1>9. MonitorIs'
  BY <1>1, <1>3, MonitorMoves DEF tdVars, shutVars
<1>10. StageIs'
  <2>1. up' <=> seq' = 16
    <3>1. up <=> seq = 16
      BY <1>4 DEF StageIs
    <3>2. ~up
      BY <1>7, <3>1
    <3> QED
      BY ONLY <1>2, <3>2
  <2> QED
    BY <1>1, <1>6, <1>7, <2>1 DEF StageIs
<1>11. \A r \in Made : r \in held' <=> MadeAt(r) < pc'
  BY <1>1, <1>3, <1>4, PastMakes
<1>12. PluginsAre'
  BY <1>1, <1>4, <1>5, <1>6 DEF PluginsAre, TableIs
<1>13. StartInv' /\ EndInv'
  BY <1>1, <1>10, <1>11, <1>12, StartMoves
<1> QED
  BY <1>8, <1>9, <1>13 DEF LifeInv

LEMMA CommandKeeps == ASSUME LifeInv, Command PROVE LifeInv'
<1>1. /\ LifeTypeOK /\ MonitorIs /\ StartInv /\ Running /\ td = 0 /\ pc = 61
      /\ UNCHANGED <<pc, seq, up, mutex, holder, monVars, table, initRc, shutVars>>
  BY Lengths DEF LifeInv, Command, Running, monVars, plugVars, startVars
<1>2. CASE /\ held' = (held \cup {"statefile"}) \ (held \cap {"statefile"})
           /\ UNCHANGED <<tdVars, ended>>
  <2>1. LifeTypeOK'
    <3>1. held' \subseteq Resources
      BY <1>1, <1>2, Lengths DEF LifeTypeOK
    <3>2. /\ pc \in 1 .. Len(Code) /\ seq \in 0 .. INITIALIZED /\ up \in BOOLEAN
          /\ table \subseteq Range(Plugins) /\ initRc \in {"none", "success", "error"}
          /\ mutex \in {"free", "main", "other"} /\ holder \in {"none", "main", "other"}
          /\ holder # "none" => mutex = holder
      BY <1>1 DEF LifeTypeOK
    <3> QED
      BY <1>1, <1>2, <3>1, <3>2, TypeSame
  <2>2. MonitorIs'
    BY <1>1, <1>2 DEF MonitorIs, tdVars, shutVars
  <2>3. StageIs' /\ \A r \in Made : r \in held' <=> MadeAt(r) < pc'
    <3>1. "statefile" \notin Made
      BY DEF Made
    <3> QED
      BY <1>1, <1>2, <3>1 DEF StartInv, StageIs
  <2>4. PluginsAre'
    <3>1. PluginsAre
      BY <1>1 DEF StartInv
    <3>2. \A p \in {"presentation", "display"} : p \in held' <=> p \in held
      BY <1>2
    <3> QED
      BY <1>1, <3>1, <3>2 DEF PluginsAre, TableIs
  <2>5. StartInv' /\ EndInv'
    BY <1>1, <1>2, <2>3, <2>4, StartMoves
  <2> QED
    BY <2>1, <2>2, <2>5 DEF LifeInv
<1>3. CASE /\ Begin("exit") /\ gap' = {}
           /\ UNCHANGED <<blocked, gone, amiss, again, caught, held, ended>>
  <2>1. initRc' \in {"none", "success", "error"}
    BY <1>1 DEF LifeTypeOK
  <2>2. Op # "note"
    BY <1>1, OpIs, Ops
  <2> QED
    BY <1>1, <1>3, <2>1, <2>2, Fails
<1> QED
  BY <1>2, <1>3 DEF Command

\* A thread of a plugin takes the mutex only while the main thread is outside.
LEMMA OthersKeep == ASSUME LifeInv, OtherEnters \/ OtherLeaves PROVE LifeInv'
<1>1. /\ UNCHANGED <<pc, seq, up, held, td, how, blocked, gap, gone, amiss, again, caught>>
      /\ UNCHANGED <<table, initRc, sd, cursor, inMon, ended>>
      /\ UNCHANGED <<tdVars, shutVars>>
  BY DEF OtherEnters, OtherLeaves, startVars, tdVars, plugVars, shutVars
<1>2. \/ mutex = "free" /\ mutex' = "other" /\ holder' = "other"
      \/ mutex = "other" /\ mutex' = "free" /\ holder' = "none"
  BY DEF OtherEnters, OtherLeaves
<1>3. LifeTypeOK'
  <2>1. /\ mutex' \in {"free", "main", "other"} /\ holder' \in {"none", "main", "other"}
        /\ holder' # "none" => mutex' = holder'
    BY <1>2
  <2>2. /\ pc \in 1 .. Len(Code) /\ seq \in 0 .. INITIALIZED /\ up \in BOOLEAN
        /\ held \subseteq Resources /\ table \subseteq Range(Plugins)
        /\ initRc \in {"none", "success", "error"}
    BY DEF LifeInv, LifeTypeOK
  <2> QED
    BY <1>1, <2>1, <2>2, TypeSame DEF LifeInv
<1>4. MonitorIs'
  BY <1>1, <1>2 DEF LifeInv, MonitorIs
<1>5. StartInv'
  BY <1>1 DEF LifeInv, StartInv, StageIs, PluginsAre, TableIs
<1>6. EndInv'
  <2>1. /\ TableIs' = TableIs /\ CursorIs' = CursorIs /\ StageIs' = StageIs
        /\ CountedIs' = CountedIs /\ PassedIs' = PassedIs /\ FirstIs' = FirstIs
        /\ LeftIs' = LeftIs /\ UndoneOnce' = UndoneOnce /\ UsersGoFirst' = UsersGoFirst
    BY <1>1 DEF TableIs, CursorIs, StageIs, CountedIs, Reached, PassedIs, ToCome, FirstIs, LeftIs,
                UndoneOnce, UsersGoFirst
  <2> QED
    BY <1>1, <2>1 DEF LifeInv, EndInv
<1> QED
  BY <1>3, <1>4, <1>5, <1>6 DEF LifeInv

\* A handler begins a teardown, or another one.
LEMMA SignalKeeps == ASSUME LifeInv, NEW n \in Signals, Signal(n) PROVE LifeInv'
<1>1. /\ LifeTypeOK /\ MonitorIs /\ StartInv /\ EndInv
      /\ ~ended /\ blocked' = blocked \cup {n} /\ td' = 1 /\ how' \in {"raise", "exit"}
      /\ gap' = IF td = 0 THEN Uncounted \cup (table \ held) ELSE gap
      /\ again' = (again \/ (td > 0 /\ seq > 0))
      /\ ended' = (n = "SEGV" /\ "xsh" \notin held)
      /\ sd' = "enter" /\ cursor' = 0 /\ inMon' = FALSE
      /\ UNCHANGED <<pc, seq, up, held, mutex, holder, gone, amiss, table, initRc>>
  BY DEF LifeInv, Signal, Begin, startVars, monVars
<1>2. caught' \in BOOLEAN
  BY <1>1 DEF Signal, LifeTypeOK
<1>3. gap' \subseteq Resources
  <2>1. gap \subseteq Resources /\ table \subseteq Resources
    BY <1>1, Lengths DEF LifeTypeOK
  <2>2. Uncounted \subseteq Resources
    <3>1. Op = "note" => pc > 1 /\ pc \in 1 .. 65
      BY <1>1, OpIs, Ops
    <3>2. \A i \in OpAt("make") : Code[i].what \in Made
      BY MadeAtIs
    <3>3. pc > 1 /\ pc \in 1 .. 65 /\ Code[pc - 1].op = "make" => pc - 1 \in OpAt("make")
      BY Ops DEF OpAt
    <3> QED
      BY <3>1, <3>2, <3>3, Lengths DEF Uncounted
  <2> QED
    BY <1>1, <2>1, <2>2
<1>4. LifeTypeOK'
  <2>1. td' \in 0 .. Len(Teardown) + 1 /\ cursor' \in 0 .. Len(Plugins)
    BY <1>1, Lengths
  <2>2. again' \in BOOLEAN /\ ended' \in BOOLEAN
    BY <1>1 DEF LifeTypeOK
  <2> QED
    BY <1>1, <1>2, <1>3, <2>1, <2>2 DEF LifeTypeOK
<1>5. MonitorIs'
  BY <1>1 DEF MonitorIs
<1>6. CASE td = 0
  <2>1. PluginsAre /\ gap = {}
    BY <1>1, <1>6 DEF StartInv
  <2>2. held \cap {"presentation", "display"} \subseteq table'
    BY <1>1, <2>1 DEF PluginsAre, TableIs
  <2>3. StartInv' /\ EndInv'
    BY <1>1, <1>6, <2>1, <2>2, TeardownBegins DEF Running
  <2> QED
    BY <1>4, <1>5, <2>3 DEF LifeInv
<1>7. CASE td # 0
  <2>1. td > 0 /\ seq \in 0 .. 16
    <3>1. td \in 0 .. Len(Teardown) + 1 /\ seq \in 0 .. INITIALIZED
      BY <1>1 DEF LifeTypeOK
    <3> QED
      BY ONLY <1>7, <3>1, Lengths
  <2>2. StartInv'
    BY <1>1 DEF StartInv
  <2>3. TableIs' /\ CursorIs'
    BY <1>1, <2>1 DEF EndInv, TableIs, CursorIs
  <2>4. \A r \in (Made \cap held)' : MadeAt(r) < pc'
    BY <1>1, <2>1 DEF EndInv
  <2>5. seq' > 0 => StageIs' /\ CountedIs'
    BY <1>1, <1>7, <2>1 DEF EndInv, StageIs, CountedIs, Reached
  <2>6. PassedIs'
    <3>1. (\A j \in 1 .. 17 : ~(j < td')) /\ ~(td' > 6) /\ td' # 6
      BY <1>1
    <3> QED
      BY <3>1 DEF PassedIs
  <2>7. seq' > 0 => again'
    BY <1>1, <2>1
  <2>8. seq' = 0 \/ "xsh" \notin held' => LeftIs'
    BY <1>1, <1>7, <2>1 DEF EndInv, LeftIs
  <2>9. ended' => seq' = 0 \/ "xsh" \notin held'
    BY <1>1
  <2>10. UndoneOnce' /\ UsersGoFirst'
    <3>1. UndoneOnce /\ UsersGoFirst /\ UNCHANGED <<gone, held, gap, amiss>>
      BY <1>1, <1>7, <2>1 DEF EndInv
    <3>2. td \in Int
      <4>1. td \in 0 .. Len(Teardown) + 1
        BY <1>1 DEF LifeTypeOK
      <4> QED
        BY ONLY <4>1, Lengths
    <3>3. UsersGoFirst'
      BY <1>1, <3>1, <3>2, UsersKeep
    <3>4. UndoneOnce'
      BY <1>1, <3>1 DEF UndoneOnce
    <3> QED
      BY <3>3, <3>4
  <2>11. EndInv'
    BY <2>3, <2>4, <2>5, <2>6, <2>7, <2>8, <2>9, <2>10 DEF EndInv
  <2> QED
    BY <1>4, <1>5, <2>2, <2>11 DEF LifeInv
<1> QED
  BY <1>6, <1>7

\* A second SIGSEGV leaves everything as it is.
LEMMA KilledKeeps == ASSUME LifeInv, Killed PROVE LifeInv'
<1>1. /\ ~ended /\ "SEGV" \in blocked /\ ended' = TRUE /\ how' = "kill"
      /\ UNCHANGED <<pc, seq, up, held, mutex, holder>>
      /\ UNCHANGED <<td, blocked, gap, gone, amiss, again, caught>>
      /\ UNCHANGED <<table, initRc, sd, cursor, inMon>>
  BY DEF Killed, startVars, monVars, plugVars, shutVars
<1>2. LifeTypeOK'
  BY <1>1 DEF LifeInv, LifeTypeOK
<1>3. MonitorIs'
  BY <1>1 DEF LifeInv, MonitorIs
<1>4. td # 0
  BY <1>1 DEF LifeInv, StartInv
<1>5. StartInv'
  BY <1>1, <1>4 DEF StartInv
<1>6. /\ TableIs' = TableIs /\ CursorIs' = CursorIs /\ StageIs' = StageIs
      /\ CountedIs' = CountedIs /\ PassedIs' = PassedIs /\ FirstIs' = FirstIs
      /\ LeftIs' = LeftIs /\ UndoneOnce' = UndoneOnce /\ UsersGoFirst' = UsersGoFirst
  BY <1>1 DEF TableIs, CursorIs, StageIs, CountedIs, Reached, PassedIs, ToCome, FirstIs, LeftIs,
              UndoneOnce, UsersGoFirst
<1>7. EndInv'
  BY <1>1, <1>6 DEF LifeInv, EndInv
<1> QED
  BY <1>2, <1>3, <1>5, <1>7 DEF LifeInv

-----------------------------------------------------------------------------
(* The teardown.                                                           *)

LEMMA EndIs ==
    ASSUME LifeInv, td # 0
    PROVE  td \in 1 .. 18 /\ seq \in 0 .. 16 /\ EndInv /\ TableIs /\ CursorIs
           /\ table \subseteq {"presentation", "display"} /\ cursor \in 0 .. 2
<1>1. LifeTypeOK /\ EndInv
  BY DEF LifeInv
<1>2. td \in 0 .. Len(Teardown) + 1
  BY <1>1 DEF LifeTypeOK
<1>3. td \in 1 .. 18
  BY <1>2, Lengths
<1>4. seq \in 0 .. INITIALIZED /\ cursor \in 0 .. Len(Plugins) /\ table \subseteq Range(Plugins)
  BY <1>1 DEF LifeTypeOK
<1>5. seq \in 0 .. 16 /\ cursor \in 0 .. 2 /\ table \subseteq {"presentation", "display"}
  BY <1>4, Lengths
<1>6. TableIs /\ CursorIs
  BY <1>1, <1>3 DEF EndInv
<1> QED
  BY <1>1, <1>3, <1>5, <1>6

LEMMA TypeEnd ==
    ASSUME LifeTypeOK, UNCHANGED <<pc, up, how, blocked>>, UNCHANGED <<gap, again, caught>>,
           UNCHANGED <<table, initRc>>,
           td' \in 0 .. Len(Teardown) + 1, seq' \in 0 .. INITIALIZED, ended' \in BOOLEAN,
           held' \subseteq Resources, gone' \subseteq Resources, amiss' \subseteq Resources,
           mutex' \in {"free", "main", "other"}, holder' \in {"none", "main", "other"},
           holder' # "none" => mutex' = holder',
           sd' \in {"enter", "lock", "hold", "find", "drop", "unlock", "call", "release"},
           cursor' \in 0 .. Len(Plugins), inMon' \in BOOLEAN
    PROVE  LifeTypeOK'
  BY DEF LifeTypeOK

\* What a step of the teardown leaves alone keeps its type.
LEMMA TypeRest ==
    ASSUME LifeTypeOK
    PROVE  /\ td \in 0 .. Len(Teardown) + 1 /\ seq \in 0 .. INITIALIZED /\ ended \in BOOLEAN
           /\ held \subseteq Resources /\ gone \subseteq Resources /\ amiss \subseteq Resources
           /\ mutex \in {"free", "main", "other"} /\ holder \in {"none", "main", "other"}
           /\ holder # "none" => mutex = holder
           /\ sd \in {"enter", "lock", "hold", "find", "drop", "unlock", "call", "release"}
           /\ cursor \in 0 .. Len(Plugins) /\ inMon \in BOOLEAN
  BY DEF LifeTypeOK

\* Once the other blocks are behind, nothing persistent is left.
LEMMA LeftAtEnd == ASSUME PassedIs, td \in 17 .. 18 PROVE LeftIs
<1> SUFFICES ASSUME NEW r \in held \cap (Persistent \cup {"presentation"})
             PROVE  r \in gap \/ (~up /\ r \in Keys)
  BY DEF LeftIs
<1>1. r # "display" /\ r # "presentation"
  BY PluginsTwo DEF PassedIs
<1>2. r \in Tracked \cup Keys /\ r \in Made
  BY <1>1 DEF Persistent, Tracked, Keys, Made
<1>3. BlockOf(r) \in 1 .. 17 /\ Teardown[BlockOf(r)].what = r
  BY <1>2, BlockOfIs
<1>4. BlockOf(r) < 17
  BY <1>1 DEF Persistent, BlockOf
<1> QED
  BY <1>2, <1>3, <1>4 DEF PassedIs

\* A block that is reached undoes what was made, and what that takes is there in
\* the first teardown.
LEMMA ReachedIs ==
    ASSUME LifeInv, AtBlock, B.what # "plugins", Reached(B)
    PROVE  /\ td \in 1 .. 17 /\ td # 6 /\ seq > 0
           /\ B.what \notin Optional => B.what \in Made /\ MadeAt(B.what) < pc
           /\ \A x \in Needed(B.what) : x \in Made /\ BlockOf(x) > td /\ MadeAt(x) < pc
<1>1. td \in 1 .. 17 /\ LifeTypeOK /\ EndInv /\ seq \in 0 .. 16
  BY EndIs, Lengths DEF LifeInv, AtBlock
<1>2. td # 6 /\ B = Teardown[td]
  BY <1>1, WhatIs DEF B
<1>3. B.from \in 1 .. 16
  BY <1>1, <1>2, BlockOfIs
<1>4. seq >= B.from /\ seq > 0
  BY <1>1, <1>3 DEF Reached
<1>5. StageIs
  BY <1>1, <1>4 DEF EndInv
<1>6. NotedAt[B.from] < pc
  BY <1>3, <1>4, <1>5 DEF StageIs
<1>7. \A r \in Made : MadeAt(r) < NotedAt[B.from] => MadeAt(r) < pc
  <2>1. NotedAt[B.from] \in 1 .. 59 /\ pc \in 1 .. 65
    BY <1>1, <1>3, NotedAtIs, OpIs
  <2>2. \A r \in Made : MadeAt(r) \in 1 .. 58
    BY MadeAtIs
  <2> QED
    BY <1>6, <2>1, <2>2
<1>8. B.what \notin Optional => B.what \in Made /\ MadeAt(B.what) < pc
  BY <1>1, <1>2, <1>7, WhatIs
<1>9. \A x \in Needed(B.what) : x \in Made /\ BlockOf(x) > td /\ MadeAt(x) < pc
  BY <1>1, <1>2, <1>7, NeededIs
<1> QED
  BY <1>1, <1>2, <1>4, <1>8, <1>9

LEMMA UndoKeeps == ASSUME LifeInv, Undo PROVE LifeInv'
<1> DEFINE r == B.what
<1>1. /\ AtBlock /\ r # "plugins" /\ Reached(B)
      /\ held' = held \ {r} /\ gone' = gone \cup {r}
      /\ amiss' = IF (r \in held \cup Optional) /\ Needed(r) \subseteq held
                  THEN amiss ELSE amiss \cup {r}
      /\ td' = td + 1
      /\ UNCHANGED <<pc, seq, up, mutex, holder, how, blocked, gap, again, caught, ended>>
      /\ UNCHANGED <<table, initRc, sd, cursor, inMon>>
  BY DEF Undo, startVars, monVars, plugVars, shutVars
<1>2. /\ td \in 1 .. 17 /\ td # 6 /\ seq > 0
      /\ r \notin Optional => r \in Made /\ MadeAt(r) < pc
      /\ \A x \in Needed(r) : x \in Made /\ BlockOf(x) > td /\ MadeAt(x) < pc
  BY <1>1, ReachedIs
<1>3. /\ LifeTypeOK /\ EndInv /\ TableIs /\ CursorIs /\ StageIs /\ CountedIs /\ PassedIs
      /\ ~again => FirstIs
      /\ ~ended
  BY <1>1, <1>2, EndIs DEF LifeInv, EndInv, AtBlock
<1>4. r \notin {"presentation", "display"} /\ r \in Resources /\ (r = "xsh" => td = 17)
      /\ r = Teardown[td].what
  BY <1>1, <1>2, WhatIs DEF B
<1>5. sd = "enter"
  BY <1>2, <1>3 DEF CursorIs
<1>6. LifeTypeOK'
  <2>1. td' \in 0 .. Len(Teardown) + 1
    BY <1>1, <1>2, Lengths
  <2>2. gone' \subseteq Resources /\ amiss' \subseteq Resources /\ held' \subseteq Resources
    BY <1>1, <1>3, <1>4 DEF LifeTypeOK
  <2> QED
    BY <1>1, <1>3, <2>1, <2>2, TypeEnd, TypeRest
<1>7. MonitorIs'
  BY <1>1, <1>2, <1>5 DEF MonitorIs
<1>8. StartInv'
  BY <1>1, <1>2 DEF StartInv
<1>9. TableIs'
  BY <1>1, <1>3 DEF TableIs
<1>10. CursorIs'
  BY <1>1, <1>2, <1>3, <1>5 DEF CursorIs
<1>11. \A q \in (Made \cap held)' : MadeAt(q) < pc'
  BY <1>1, <1>2, <1>3 DEF EndInv
<1>12. StageIs' /\ CountedIs'
  BY <1>1, <1>3 DEF StageIs, CountedIs, Reached
<1>13. PassedIs'
  <2>1. ASSUME NEW j \in 1 .. 17, j < td', Teardown[j].what \in Tracked \cup Keys,
               Teardown[j].what \in held'
        PROVE  Teardown[j].what \in gap \/ (Teardown[j].what \in Keys /\ ~up)
    <3>1. j # td
      BY <1>1, <1>4, <2>1
    <3>2. j < td /\ Teardown[j].what \in held
      BY <1>1, <1>2, <2>1, <3>1
    <3> QED
      BY <1>3, <2>1, <3>2 DEF PassedIs
  <2>2. ASSUME NEW i \in 1 .. 2, td' > 6 \/ (td' = 6 /\ ~ToCome(i)') PROVE Plugins[i] \notin held'
    <3>1. CASE td' = 6
      BY <1>1, <1>2, <1>3, <1>5, <2>2, <3>1 DEF CursorIs, ToCome
    <3>2. CASE td' > 6
      BY <1>1, <1>2, <1>3, <3>2 DEF PassedIs
    <3> QED
      BY <2>2, <3>1, <3>2
  <2> QED
    BY <1>1, <2>1, <2>2 DEF PassedIs
<1>14. ~again' => FirstIs'
  <2> SUFFICES ASSUME ~again PROVE FirstIs'
    BY <1>1
  <2>1. FirstIs
    BY <1>3
  <2>2. ASSUME NEW j \in 1 .. 17, j >= td', Teardown[j].what \in Made, MadeAt(Teardown[j].what) < pc
        PROVE  Teardown[j].what \in held'
    <3>1. Teardown[j].what # r
      BY <1>1, <1>2, <1>4, <2>2, BlockOfIs
    <3>2. j >= td
      BY <1>1, <1>2, <2>2
    <3>3. Teardown[j].what \in held
      BY <2>1, <2>2, <3>2 DEF FirstIs
    <3> QED
      BY <1>1, <3>1, <3>3
  <2>3. ASSUME NEW i \in 1 .. 2, td' < 6 \/ (td' = 6 /\ ToCome(i)'), Plugins[i] \in table
        PROVE  Plugins[i] \in held' \cup gap
    <3>1. td < 6 /\ Plugins[i] \in {"presentation", "display"}
      BY <1>1, <1>2, <2>3, PluginsTwo
    <3> QED
      BY <1>1, <1>4, <2>1, <2>3, <3>1 DEF FirstIs
  <2> QED
    BY <1>1, <2>2, <2>3 DEF FirstIs
<1>15. seq' = 0 \/ "xsh" \notin held' => LeftIs'
  <2>1. CASE "xsh" \notin held
    BY <1>1, <1>2, <1>3, <2>1 DEF EndInv, LeftIs
  <2>2. CASE "xsh" \in held /\ r = "xsh"
    <3>1. LeftIs
      BY <1>2, <1>3, <1>4, <2>2, LeftAtEnd
    <3> QED
      BY <1>1, <3>1 DEF LeftIs
  <2> QED
    BY <1>1, <1>2, <2>1, <2>2
<1>16. UndoneOnce'
  <2> SUFFICES ASSUME ~again PROVE amiss' \subseteq gap
    BY <1>1 DEF UndoneOnce
  <2>1. amiss \subseteq gap /\ FirstIs
    BY <1>2, <1>3 DEF EndInv, UndoneOnce
  <2>2. r \in held \cup Optional
    BY <1>2, <1>4, <2>1 DEF FirstIs
  <2>3. Needed(r) \subseteq held
    <3> SUFFICES ASSUME NEW x \in Needed(r) PROVE x \in held
      OBVIOUS
    <3>1. x \in Made /\ BlockOf(x) > td /\ MadeAt(x) < pc
      BY <1>2
    <3>2. BlockOf(x) \in 1 .. 17 /\ Teardown[BlockOf(x)].what = x
      BY <3>1, BlockOfIs
    <3> QED
      BY <1>2, <2>1, <3>1, <3>2 DEF FirstIs
  <2> QED
    BY <1>1, <2>1, <2>2, <2>3
<1>17. UsersGoFirst'
  <2> SUFFICES ASSUME NEW q \in DOMAIN Users \cap gone', NEW u \in Users[q] \cap held'
               PROVE  u \in gap \/ (q \in {"vga", "surface"} /\ td' <= 6)
    BY <1>1, PluginsAtIs DEF UsersGoFirst
  <2>1. CASE q \in gone
    <3>1. u \in gap \/ (q \in {"vga", "surface"} /\ td <= 6)
      BY <1>1, <1>2, <1>3, <2>1, PluginsAtIs DEF EndInv, UsersGoFirst
    <3> QED
      BY <1>1, <1>2, <3>1
  <2>2. CASE q = r
    <3>1. BlockOf(q) = td
      BY <1>2, <1>4, <2>2, BlockOfIs
    <3>2. CASE u = "display" /\ td > 6
      BY <1>1, <1>3, <3>2, PluginsTwo DEF PassedIs
    <3>3. CASE u \in Tracked /\ BlockOf(u) < td
      <4>1. u \in Made /\ u \notin Keys
        BY <3>3 DEF Tracked
      <4>2. BlockOf(u) \in 1 .. 17 /\ Teardown[BlockOf(u)].what = u
        BY <4>1, BlockOfIs
      <4> QED
        BY <1>1, <1>3, <3>3, <4>1, <4>2 DEF PassedIs
    <3>4. CASE q \in {"vga", "surface"}
      BY <1>1, <1>2, <3>1, <3>4, UsersAre
    <3> QED
      BY <2>2, <3>1, <3>2, <3>3, <3>4, UsersAre
  <2> QED
    BY <1>1, <2>1, <2>2
<1>18. EndInv'
  BY <1>1, <1>3, <1>9, <1>10, <1>11, <1>12, <1>13, <1>14, <1>15, <1>16, <1>17 DEF EndInv
<1> QED
  BY <1>6, <1>7, <1>8, <1>18 DEF LifeInv

LEMMA SkipKeeps == ASSUME LifeInv, Skip PROVE LifeInv'
<1>1. /\ AtBlock /\ ~Reached(B) /\ td' = td + 1
      /\ UNCHANGED <<pc, seq, up, held, mutex, holder, how, blocked, gap, gone, amiss, again, caught>>
      /\ UNCHANGED <<table, initRc, sd, cursor, inMon, ended>>
  BY DEF Skip, startVars, monVars, plugVars, shutVars
<1>2. /\ td \in 1 .. 17 /\ LifeTypeOK /\ EndInv /\ TableIs /\ CursorIs /\ seq \in 0 .. 16 /\ ~ended
  BY <1>1, EndIs, Lengths DEF LifeInv, AtBlock
<1>3. B = Teardown[td] /\ B.from \in 1 .. 16
  BY <1>2, BlockOfIs DEF B
<1>4. ~(B.from <= seq) \/ (B.from = 16 /\ seq # 16)
  BY <1>1, <1>3, Lengths DEF Reached
<1>5. LifeTypeOK'
  <2>1. td' \in 0 .. Len(Teardown) + 1
    BY <1>1, <1>2, Lengths
  <2> QED
    BY <1>1, <1>2, <2>1, TypeEnd, TypeRest
<1>6. sd = "enter"
  <2>1. td = 6 => B.from = 3
    BY <1>3, BlocksAre
  <2> QED
    BY <1>2, <1>3, <1>4, <2>1 DEF CursorIs
<1>7. MonitorIs' /\ StartInv'
  BY <1>1, <1>2, <1>6 DEF MonitorIs, StartInv
<1>8. TableIs' /\ CursorIs'
  BY <1>1, <1>2, <1>6 DEF TableIs, CursorIs
<1>9. \A q \in (Made \cap held)' : MadeAt(q) < pc'
  BY <1>1, <1>2 DEF EndInv
<1>10. ASSUME seq > 0 PROVE StageIs' /\ CountedIs' /\ PassedIs' /\ (~again' => FirstIs')
  <2>1. StageIs /\ CountedIs /\ PassedIs /\ (~again => FirstIs)
    BY <1>2, <1>10 DEF EndInv
  <2>2. StageIs' /\ CountedIs'
    BY <1>1, <2>1 DEF StageIs, CountedIs, Reached
  <2>3. ASSUME NEW j \in 1 .. 17, j < td', Teardown[j].what \in Tracked \cup Keys,
               Teardown[j].what \in held
        PROVE  Teardown[j].what \in gap \/ (Teardown[j].what \in Keys /\ ~up)
    <3>1. CASE j < td
      BY <2>1, <2>3, <3>1 DEF PassedIs
    <3>2. CASE j = td /\ Teardown[j].what \in Tracked
      <4>1. MadeAt(Teardown[j].what) < pc
        BY <1>2, <2>3, <3>2 DEF EndInv, Tracked
      <4>2. ~Reached(Teardown[j])
        BY <1>1, <1>3, <3>2
      <4> QED
        BY <2>1, <3>2, <4>1, <4>2 DEF CountedIs
    <3>3. CASE j = td /\ Teardown[j].what \in Keys
      <4>1. B.from = 16
        BY <1>3, <3>3, WhatIs
      <4>2. seq # 16
        BY <1>2, <1>4, <4>1
      <4> QED
        BY <2>1, <3>3, <4>2 DEF StageIs
    <3> QED
      BY <1>1, <1>2, <2>3, <3>1, <3>2, <3>3
  <2>4. ASSUME NEW i \in 1 .. 2, td' > 6 \/ (td' = 6 /\ ~ToCome(i)') PROVE Plugins[i] \notin held
    <3>1. CASE td = 5
      BY <1>1, <1>2, <1>6, <2>4, <3>1 DEF CursorIs, ToCome
    <3>2. CASE td > 6
      BY <2>1, <3>2 DEF PassedIs
    <3>3. CASE td = 6
      <4>1. ~(3 <= seq)
        BY <1>3, <1>4, <3>3, BlocksAre
      <4>2. ~(10 < pc)
        BY <2>1, <4>1 DEF StageIs, NotedAt
      <4>3. Plugins[i] \in held => Plugins[i] \in table
        BY <1>2, PluginsTwo DEF TableIs
      <4>4. Plugins[i] \in table => pc > 13
        BY <1>2, PluginsTwo, OpIs DEF TableIs
      <4>5. pc \in 1 .. 65
        BY <1>2, OpIs
      <4> QED
        BY <4>2, <4>3, <4>4, <4>5
    <3> QED
      BY <1>1, <1>2, <2>4, <3>1, <3>2, <3>3
  <2>5. PassedIs'
    BY <1>1, <2>3, <2>4 DEF PassedIs
  <2>6. ASSUME ~again PROVE FirstIs'
    <3>1. FirstIs
      BY <2>1, <2>6
    <3>2. \A j \in 1 .. 17 : j >= td' => j >= td
      BY <1>1, <1>2
    <3>3. \A i \in 1 .. 2 : td' < 6 \/ (td' = 6 /\ ToCome(i)') => td < 6
      BY <1>1, <1>2
    <3> QED
      BY <1>1, <3>1, <3>2, <3>3 DEF FirstIs
  <2> QED
    BY <1>1, <2>2, <2>5, <2>6
<1>11. seq' = 0 \/ "xsh" \notin held' => LeftIs'
  BY <1>1, <1>2 DEF EndInv, LeftIs
<1>12. UndoneOnce' /\ UsersGoFirst'
  <2>1. UndoneOnce /\ UsersGoFirst
    BY <1>2 DEF EndInv
  <2>2. td = 6 => held \cap {"presentation", "display"} \subseteq gap
    <3>1. CASE seq = 0
      BY <1>2, <3>1 DEF EndInv, LeftIs, Persistent, Keys
    <3>2. CASE seq > 0 /\ td = 6
      BY <1>1, <1>10, <3>2, PluginsTwo DEF PassedIs
    <3> QED
      BY <1>2, <3>1, <3>2
  <2>3. UsersGoFirst'
    BY <1>1, <1>2, <2>1, <2>2, UsersKeep
  <2> QED
    BY <1>1, <2>1, <2>3 DEF UndoneOnce
<1>13. EndInv'
  BY <1>1, <1>2, <1>8, <1>9, <1>10, <1>11, <1>12 DEF EndInv
<1> QED
  BY <1>5, <1>7, <1>13 DEF LifeInv

LEMMA CloseKeeps == ASSUME LifeInv, Close PROVE LifeInv'
<1>1. /\ ~ended /\ td = 18
      /\ \/ seq # 0 /\ seq' = 0 /\ UNCHANGED ended
         \/ seq = 0 /\ ended' = TRUE /\ UNCHANGED seq
      /\ UNCHANGED <<pc, up, held, mutex, holder, td, how, blocked, gap, gone, amiss, again, caught>>
      /\ UNCHANGED <<table, initRc, sd, cursor, inMon>>
  BY Lengths DEF Close, monVars, tdVars, plugVars, shutVars
<1>2. LifeTypeOK /\ EndInv /\ TableIs /\ CursorIs /\ seq \in 0 .. 16
  BY <1>1, EndIs DEF LifeInv
<1>3. LifeTypeOK'
  <2>1. seq' \in 0 .. INITIALIZED
    BY <1>1, <1>2, Lengths
  <2>2. ended' \in BOOLEAN
    BY <1>1, <1>2 DEF LifeTypeOK
  <2> QED
    BY <1>1, <1>2, <2>1, <2>2, TypeEnd, TypeRest
<1>4. MonitorIs' /\ StartInv'
  BY <1>1 DEF LifeInv, MonitorIs, StartInv
<1>5. TableIs' /\ CursorIs'
  BY <1>1, <1>2 DEF TableIs, CursorIs
<1>6. seq' = 0
  BY <1>1
<1>7. LeftIs
  <2>1. CASE seq = 0
    BY <1>1, <1>2, <2>1 DEF EndInv
  <2>2. CASE seq > 0
    BY <1>1, <1>2, <2>2, LeftAtEnd DEF EndInv
  <2> QED
    BY <1>2, <2>1, <2>2
<1>8. LeftIs'
  BY <1>1, <1>7 DEF LeftIs
<1>9. UndoneOnce' /\ UsersGoFirst'
  BY <1>1, <1>2 DEF EndInv, UndoneOnce, UsersGoFirst
<1>10. \A q \in (Made \cap held)' : MadeAt(q) < pc'
  BY <1>1, <1>2 DEF EndInv
<1>11. EndInv'
  BY <1>5, <1>6, <1>8, <1>9, <1>10 DEF EndInv
<1> QED
  BY <1>3, <1>4, <1>11 DEF LifeInv

-----------------------------------------------------------------------------
(* vmiope_shutdown.                                                        *)

LEMMA ShutIs ==
    ASSUME LifeInv, NEW x, ShutAt(x)
    PROVE  /\ td = 6 /\ seq >= 3 /\ seq \in 0 .. 16 /\ ~ended /\ sd = x
           /\ LifeTypeOK /\ MonitorIs /\ EndInv /\ TableIs /\ CursorIs
           /\ StageIs /\ CountedIs /\ PassedIs /\ (~again => FirstIs)
           /\ table \subseteq {"presentation", "display"} /\ cursor \in 0 .. 2
<1>1. td \in 1 .. 17 /\ ~ended /\ B.what = "plugins" /\ Reached(B) /\ sd = x
  BY Lengths DEF ShutAt, AtBlock
<1>2. td = 6
  BY <1>1, WhatIs DEF B
<1>3. B.from = 3
  BY <1>2, BlocksAre DEF B
<1>4. seq >= 3
  BY <1>1, <1>3, Lengths DEF Reached
<1>5. /\ seq \in 0 .. 16 /\ EndInv /\ TableIs /\ CursorIs
      /\ table \subseteq {"presentation", "display"} /\ cursor \in 0 .. 2
  BY <1>2, EndIs
<1>6. seq > 0
  BY <1>4, <1>5
<1>7. StageIs /\ CountedIs /\ PassedIs /\ (~again => FirstIs)
  BY <1>2, <1>5, <1>6 DEF EndInv
<1> QED
  BY <1>1, <1>2, <1>4, <1>5, <1>7 DEF LifeInv

\* A step of vmiope_shutdown that shuts no plugin down: the plugins still to come
\* stay the same but for those that are not in the table.
LEMMA ShutMoves ==
    ASSUME LifeInv, td = 6, sd' # "enter",
           UNCHANGED <<pc, seq, up, held, td, ended>>,
           UNCHANGED <<gap, gone, amiss, again>>, UNCHANGED <<table, how>>,
           StageIs, CountedIs, PassedIs, ~again => FirstIs, seq >= 3,
           \A i \in 1 .. 2 : ToCome(i)' => ToCome(i),
           \A i \in 1 .. 2 : ToCome(i) /\ ~ToCome(i)' => Plugins[i] \notin table,
           sd' = "call" => cursor' # 0,
           sd' \in {"drop", "unlock", "call"} /\ cursor' # 0 => Plugins[cursor'] \in table
    PROVE  StartInv' /\ EndInv'
<1>1. EndInv /\ TableIs
  BY EndIs
<1>2. StartInv'
  BY DEF StartInv
<1>3. TableIs' /\ CursorIs'
  BY <1>1 DEF TableIs, CursorIs
<1>4. \A q \in (Made \cap held)' : MadeAt(q) < pc'
  BY <1>1 DEF EndInv
<1>5. StageIs' /\ CountedIs'
  BY DEF StageIs, CountedIs, Reached
<1>6. PassedIs'
  <2>1. \A i \in 1 .. 2 : (td' > 6 \/ (td' = 6 /\ ~ToCome(i)')) => Plugins[i] \notin held
    <3> SUFFICES ASSUME NEW i \in 1 .. 2, ~ToCome(i)' PROVE Plugins[i] \notin held
      OBVIOUS
    <3>1. CASE ToCome(i)
      BY <1>1, <3>1, PluginsTwo DEF TableIs
    <3>2. CASE ~ToCome(i)
      BY <3>2 DEF PassedIs
    <3> QED
      BY <3>1, <3>2
  <2> QED
    BY <2>1 DEF PassedIs
<1>7. ASSUME ~again PROVE FirstIs'
  <2>1. FirstIs
    BY <1>7
  <2> QED
    BY <2>1 DEF FirstIs
<1>8. seq' = 0 \/ "xsh" \notin held' => LeftIs'
  BY <1>1 DEF EndInv, LeftIs
<1>9. UndoneOnce' /\ UsersGoFirst' /\ (ended' /\ how' # "kill" => seq' = 0 \/ "xsh" \notin held')
  BY <1>1 DEF EndInv, UndoneOnce, UsersGoFirst
<1>10. EndInv'
  BY <1>3, <1>4, <1>5, <1>6, <1>7, <1>8, <1>9 DEF EndInv
<1> QED
  BY <1>2, <1>10

LEMMA ShutKeeps ==
    ASSUME LifeInv, ShutEnter \/ ShutLock \/ ShutHold \/ ShutDrop \/ ShutUnlock
    PROVE  LifeInv'
<1>1. PICK x \in {"enter", "lock", "hold", "drop", "unlock"} : ShutAt(x)
  BY DEF ShutEnter, ShutLock, ShutHold, ShutDrop, ShutUnlock
<1>2. /\ td = 6 /\ seq >= 3 /\ seq \in 0 .. 16 /\ ~ended /\ sd = x
      /\ LifeTypeOK /\ MonitorIs /\ EndInv /\ TableIs /\ CursorIs
      /\ StageIs /\ CountedIs /\ PassedIs /\ (~again => FirstIs)
      /\ cursor \in 0 .. 2
  BY <1>1, ShutIs
<1>3. /\ UNCHANGED <<pc, seq, up, held, td, ended>>
      /\ UNCHANGED <<gap, gone, amiss, again>> /\ UNCHANGED <<how, blocked, caught>>
      /\ UNCHANGED <<table, initRc, cursor>>
  BY DEF ShutEnter, ShutLock, ShutHold, ShutDrop, ShutUnlock, Shut, startVars
<1>4. \/ /\ sd = "enter" /\ inMon' = (holder = "main") /\ sd' = (IF holder = "main" THEN "find" ELSE "lock")
         /\ UNCHANGED <<mutex, holder>>
      \/ sd = "lock" /\ mutex' = "main" /\ sd' = "hold" /\ UNCHANGED <<holder, inMon>> /\ mutex = "free"
      \/ sd = "hold" /\ holder' = "main" /\ sd' = "find" /\ UNCHANGED <<mutex, inMon>>
      \/ sd = "drop" /\ holder' = "none" /\ sd' = "unlock" /\ UNCHANGED <<mutex, inMon>>
      \/ /\ sd = "unlock" /\ mutex' = "free" /\ sd' = (IF cursor = 0 THEN "release" ELSE "call")
         /\ UNCHANGED <<holder, inMon>>
  BY DEF ShutEnter, ShutLock, ShutHold, ShutDrop, ShutUnlock, Shut, ShutAt, Entered, monVars
<1>5. /\ mutex \in {"free", "main", "other"} /\ holder \in {"none", "main", "other"}
      /\ holder # "none" => mutex = holder
      /\ sd \in {"hold", "drop", "unlock"} => mutex = "main"
      /\ sd = "unlock" => holder = "none"
  BY <1>2 DEF LifeTypeOK, MonitorIs
<1>6. /\ mutex' \in {"free", "main", "other"} /\ holder' \in {"none", "main", "other"}
      /\ holder' # "none" => mutex' = holder'
      /\ sd' \in {"hold", "find", "drop", "unlock"} => mutex' = "main"
      /\ sd' = "unlock" => holder' = "none"
      /\ sd' \in {"lock", "hold", "find", "unlock", "call", "release"}
  BY <1>4, <1>5
<1>7. inMon' \in BOOLEAN
  BY <1>2, <1>4 DEF LifeTypeOK
<1>8. LifeTypeOK'
  BY <1>2, <1>3, <1>6, <1>7, TypeEnd, TypeRest
<1>9. MonitorIs'
  BY <1>2, <1>3, <1>6 DEF MonitorIs
<1>10. \A i \in 1 .. 2 : ToCome(i)' <=> ToCome(i)
  BY <1>2, <1>3, <1>4 DEF ToCome
<1>11. /\ sd' = "call" => cursor' # 0
       /\ sd' \in {"drop", "unlock", "call"} /\ cursor' # 0 => Plugins[cursor'] \in table
  BY <1>2, <1>3, <1>4 DEF CursorIs
<1>12. StartInv' /\ EndInv'
  <2>1. sd' # "enter"
    BY <1>6
  <2> QED
    BY <1>2, <1>3, <1>10, <1>11, <2>1, ShutMoves
<1> QED
  BY <1>8, <1>9, <1>12 DEF LifeInv

LEMMA FindKeeps == ASSUME LifeInv, ShutFind PROVE LifeInv'
<1> DEFINE next == {i \in DOMAIN Plugins : i > cursor /\ Plugins[i] \in table}
<1>1. /\ td = 6 /\ seq >= 3 /\ seq \in 0 .. 16 /\ ~ended /\ sd = "find"
      /\ LifeTypeOK /\ MonitorIs /\ EndInv /\ TableIs /\ CursorIs
      /\ StageIs /\ CountedIs /\ PassedIs /\ (~again => FirstIs)
      /\ cursor \in 0 .. 2
  BY ShutIs DEF ShutFind
<1>2. /\ UNCHANGED <<pc, seq, up, held, td, ended>>
      /\ UNCHANGED <<gap, gone, amiss, again>> /\ UNCHANGED <<how, blocked, caught>>
      /\ UNCHANGED <<table, initRc, mutex, holder, inMon>>
      /\ cursor' = IF next = {} THEN 0 ELSE Min(next)
      /\ sd' = IF next = {} /\ inMon THEN "release" ELSE "drop"
  BY DEF ShutFind, Shut, startVars, monVars
<1>3. ASSUME next # {}
      PROVE  /\ cursor' \in next /\ cursor' # 0 /\ sd' = "drop"
             /\ \A i \in next : cursor' <= i
  <2>1. next \subseteq 1 .. 2
    BY PluginsTwo
  <2> HIDE DEF next
  <2>2. \E m \in next : \A i \in next : m <= i
    <3>1. CASE 1 \in next
      BY <2>1, <3>1
    <3>2. CASE 1 \notin next
      <4>1. 2 \in next /\ \A i \in next : i = 2
        <5>1. \A i \in next : i = 2
          BY ONLY <2>1, <3>2
        <5>2. \E i \in next : TRUE
          BY ONLY <1>3
        <5> QED
          BY ONLY <5>1, <5>2
      <4> QED
        BY <4>1
    <3> QED
      BY <3>1, <3>2
  <2>3. Min(next) \in next /\ \A i \in next : Min(next) <= i
    BY <2>2 DEF Min
  <2>4. cursor' = Min(next) /\ sd' = "drop"
    BY <1>2, <1>3
  <2> QED
    BY <2>1, <2>3, <2>4
<1>4. cursor' \in 0 .. 2 /\ (next = {} => cursor' = 0)
  BY <1>2, <1>3, PluginsTwo
<1>5. /\ mutex = "main" /\ mutex' = "main" /\ sd' \in {"release", "drop"}
  BY <1>1, <1>2 DEF MonitorIs
<1>6. LifeTypeOK'
  BY <1>1, <1>2, <1>4, <1>5, Lengths, TypeEnd, TypeRest
<1>7. MonitorIs'
  BY <1>1, <1>2, <1>5 DEF MonitorIs
<1>8. \A i \in 1 .. 2 : ToCome(i) <=> i > cursor
  BY <1>1 DEF ToCome
<1>9. \A i \in 1 .. 2 : ToCome(i)' <=> next # {} /\ i >= cursor'
  BY <1>2, <1>3, <1>4, <1>5 DEF ToCome
<1>10. \A i \in 1 .. 2 : ToCome(i)' => ToCome(i)
  BY <1>1, <1>3, <1>8, <1>9, PluginsTwo
<1>11. \A i \in 1 .. 2 : ToCome(i) /\ ~ToCome(i)' => Plugins[i] \notin table
  BY <1>1, <1>3, <1>8, <1>9, PluginsTwo
<1>12. sd' = "call" => cursor' # 0
  BY <1>5
<1>13. cursor' # 0 => Plugins[cursor'] \in table
  BY <1>3, <1>4
<1>14. StartInv' /\ EndInv'
  BY <1>1, <1>2, <1>5, <1>10, <1>11, <1>12, <1>13, ShutMoves
<1> QED
  BY <1>6, <1>7, <1>14 DEF LifeInv

\* The plugins whose turn is past are shut down: what vmiope_shutdown leaves.
LEMMA ReleaseKeeps == ASSUME LifeInv, ShutRelease PROVE LifeInv'
<1>1. /\ td = 6 /\ seq >= 3 /\ seq \in 0 .. 16 /\ ~ended /\ sd = "release"
      /\ LifeTypeOK /\ MonitorIs /\ EndInv /\ TableIs /\ CursorIs
      /\ StageIs /\ CountedIs /\ PassedIs /\ (~again => FirstIs)
      /\ cursor \in 0 .. 2
  BY ShutIs DEF ShutRelease
<1>2. /\ td' = 7 /\ sd' = "enter"
      /\ UNCHANGED <<pc, seq, up, held, ended>>
      /\ UNCHANGED <<gap, gone, amiss, again>> /\ UNCHANGED <<how, blocked, caught>>
      /\ UNCHANGED <<table, initRc, mutex, holder, cursor, inMon>>
  BY <1>1 DEF ShutRelease, Shut, startVars, monVars
<1>3. LifeTypeOK'
  BY <1>1, <1>2, Lengths, TypeEnd, TypeRest
<1>4. MonitorIs' /\ StartInv'
  BY <1>1, <1>2 DEF MonitorIs, StartInv
<1>5. TableIs' /\ CursorIs'
  BY <1>1, <1>2 DEF TableIs, CursorIs
<1>6. \A q \in (Made \cap held)' : MadeAt(q) < pc'
  BY <1>1, <1>2 DEF EndInv
<1>7. StageIs' /\ CountedIs'
  BY <1>1, <1>2 DEF StageIs, CountedIs, Reached
<1>8. PassedIs'
  <2>1. ASSUME NEW j \in 1 .. 17, j < 7, Teardown[j].what \in Tracked \cup Keys
        PROVE  j < 6
    <3>1. "plugins" \notin Tracked \cup Keys
      BY DEF Tracked, Keys, Made
    <3> QED
      BY <2>1, <3>1, BlocksAre
  <2>2. \A i \in 1 .. 2 : Plugins[i] \notin held
    BY <1>1 DEF PassedIs, ToCome
  <2> QED
    BY <1>1, <1>2, <2>1, <2>2 DEF PassedIs
<1>9. ASSUME ~again PROVE FirstIs'
  <2>1. FirstIs
    BY <1>1, <1>9
  <2>2. \A j \in 1 .. 17 : j >= 7 => j >= 6
    OBVIOUS
  <2>3. ~(td' < 6) /\ td' # 6
    BY <1>2
  <2> QED
    BY <1>1, <1>2, <2>1, <2>2, <2>3 DEF FirstIs
<1>10. seq' = 0 \/ "xsh" \notin held' => LeftIs'
  BY <1>1, <1>2 DEF EndInv, LeftIs
<1>11. UndoneOnce' /\ UsersGoFirst' /\ (ended' /\ how' # "kill" => seq' = 0 \/ "xsh" \notin held')
  <2>1. UndoneOnce /\ UsersGoFirst
    BY <1>1 DEF EndInv
  <2>2. held \cap {"presentation", "display"} = {}
    BY <1>2, <1>8, PluginsTwo DEF PassedIs
  <2> QED
    BY <1>1, <1>2, <2>1, <2>2, UsersKeep DEF UndoneOnce
<1>12. EndInv'
  BY <1>2, <1>5, <1>6, <1>7, <1>8, <1>9, <1>10, <1>11 DEF EndInv
<1> QED
  BY <1>3, <1>4, <1>12 DEF LifeInv

LEMMA CallKeeps == ASSUME LifeInv, ShutCall PROVE LifeInv'
<1> DEFINE p == Plugins[cursor]
<1>1. /\ td = 6 /\ seq >= 3 /\ seq \in 0 .. 16 /\ ~ended /\ sd = "call"
      /\ LifeTypeOK /\ MonitorIs /\ EndInv /\ TableIs /\ CursorIs
      /\ StageIs /\ CountedIs /\ PassedIs /\ (~again => FirstIs)
      /\ cursor \in 0 .. 2
  BY ShutIs DEF ShutCall
<1>2. /\ held' = held \ {p} /\ gone' = gone \cup {p} /\ sd' = "lock"
      /\ amiss' = IF p \in held /\ Needed(p) \subseteq held THEN amiss ELSE amiss \cup {p}
      /\ UNCHANGED <<pc, seq, up, td, ended>>
      /\ UNCHANGED <<gap, again>> /\ UNCHANGED <<how, blocked, caught>>
      /\ UNCHANGED <<table, initRc, mutex, holder, cursor, inMon>>
  BY DEF ShutCall, Shut, startVars, monVars
<1>3. cursor \in 1 .. 2 /\ p \in table /\ p \in {"presentation", "display"}
  BY <1>1, PluginsTwo DEF CursorIs
<1>4. p \notin Made
  BY <1>3 DEF Made
<1>5. LifeTypeOK'
  <2>1. gone' \subseteq Resources /\ amiss' \subseteq Resources /\ held' \subseteq Resources
    BY <1>1, <1>2, <1>3, Lengths DEF LifeTypeOK
  <2> QED
    BY <1>1, <1>2, <2>1, TypeEnd, TypeRest
<1>6. MonitorIs' /\ StartInv'
  BY <1>1, <1>2 DEF MonitorIs, StartInv
<1>7. TableIs'
  BY <1>1, <1>2 DEF TableIs
<1>8. CursorIs'
  BY <1>1, <1>2 DEF CursorIs
<1>9. \A q \in (Made \cap held)' : MadeAt(q) < pc'
  BY <1>1, <1>2 DEF EndInv
<1>10. StageIs' /\ CountedIs'
  BY <1>1, <1>2 DEF StageIs, CountedIs, Reached
<1>11. PassedIs'
  <2>1. ASSUME NEW i \in 1 .. 2, ~ToCome(i)' PROVE Plugins[i] \notin held'
    <3>1. i <= cursor
      BY <1>1, <1>2, <2>1 DEF ToCome
    <3>2. i < cursor => ~ToCome(i)
      BY <1>1 DEF ToCome
    <3>3. i < cursor => Plugins[i] \notin held
      BY <1>1, <3>2 DEF PassedIs
    <3> QED
      BY <1>1, <1>2, <3>1, <3>3
  <2>2. \A j \in 1 .. 17 : LET r == Teardown[j].what IN
          j < td' /\ r \in Tracked \cup Keys /\ r \in held' => r \in gap' \/ (r \in Keys /\ ~up')
    BY <1>1, <1>2 DEF PassedIs
  <2>3. ~(td' > 6)
    BY <1>1, <1>2
  <2> QED
    BY <2>1, <2>2, <2>3 DEF PassedIs
<1>12. ASSUME ~again PROVE FirstIs'
  <2>1. FirstIs
    BY <1>1, <1>12
  <2>2. ASSUME NEW j \in 1 .. 17, j >= td, Teardown[j].what \in Made, MadeAt(Teardown[j].what) < pc
        PROVE  Teardown[j].what \in held'
    BY <1>2, <1>4, <2>1, <2>2 DEF FirstIs
  <2>3. ASSUME NEW i \in 1 .. 2, ToCome(i)', Plugins[i] \in table
        PROVE  Plugins[i] \in held' \cup gap
    <3>1. i > cursor
      BY <1>2, <2>3 DEF ToCome
    <3>2. ToCome(i)
      BY <1>1, <1>3, <3>1 DEF ToCome
    <3>3. Plugins[i] \in held \cup gap
      BY <1>1, <2>1, <2>3, <3>2 DEF FirstIs
    <3>4. Plugins[i] # p
      BY <1>3, <3>1, PluginsTwo
    <3> QED
      BY <1>2, <3>3, <3>4
  <2> QED
    BY <1>1, <1>2, <2>2, <2>3 DEF FirstIs
<1>13. seq' = 0 \/ "xsh" \notin held' => LeftIs'
  <2>1. "xsh" \notin held' => "xsh" \notin held
    BY <1>2, <1>3
  <2> QED
    BY <1>1, <1>2, <2>1 DEF EndInv, LeftIs
<1>14. UndoneOnce'
  <2> SUFFICES ASSUME ~again PROVE amiss' \subseteq gap
    BY <1>2 DEF UndoneOnce
  <2>1. amiss \subseteq gap /\ FirstIs
    BY <1>1 DEF EndInv, UndoneOnce
  <2>2. p \in held \cup gap
    <3>1. ToCome(cursor)
      BY <1>1, <1>3 DEF ToCome
    <3> QED
      BY <1>1, <1>3, <2>1, <3>1 DEF FirstIs
  <2>3. Needed(p) \subseteq held
    <3>1. CASE p = "presentation"
      BY <3>1, NeededIs
    <3>2. CASE p = "display"
      <4>1. MadeAt("xch") = 4 /\ "xch" \in Made /\ BlockOf("xch") = 16 /\ Teardown[16].what = "xch"
        BY BlocksAre DEF MadeAt, Made, BlockOf
      <4>2. pc > 22 /\ pc \in 1 .. 65
        BY <1>1, <1>3, <3>2, OpIs DEF TableIs
      <4>3. "xch" \in held
        BY <1>1, <2>1, <4>1, <4>2 DEF FirstIs
      <4> QED
        BY <3>2, <4>3, NeededIs
    <3> QED
      BY <1>3, <3>1, <3>2
  <2> QED
    BY <1>2, <2>1, <2>2, <2>3
<1>15. UsersGoFirst'
  <2>1. p \notin DOMAIN Users
    BY <1>3, UsersAre
  <2>2. UsersGoFirst
    BY <1>1 DEF EndInv
  <2> QED
    BY <1>1, <1>2, <2>1, <2>2 DEF UsersGoFirst
<1>16. EndInv'
  BY <1>1, <1>2, <1>7, <1>8, <1>9, <1>10, <1>11, <1>12, <1>13, <1>14, <1>15 DEF EndInv
<1> QED
  BY <1>5, <1>6, <1>16 DEF LifeInv

-----------------------------------------------------------------------------
(* The theorems.                                                           *)

LEMMA LifeStarts == LifeInit => LifeInv
<1> SUFFICES ASSUME LifeInit PROVE LifeInv
  OBVIOUS
<1>1. /\ pc = 1 /\ seq = 0 /\ held = {} /\ mutex = "free" /\ holder = "none"
      /\ td = 0 /\ blocked = {} /\ ~ended
      /\ ~up /\ gap = {} /\ gone = {} /\ amiss = {} /\ ~again
      /\ table = {} /\ initRc = "none" /\ sd = "enter" /\ cursor = 0
  BY Zenon DEF LifeInit
<1>2. LifeTypeOK
  <2>1. how \in {"", "return", "exit", "raise", "kill"}
    BY Zenon DEF LifeInit
  <2>2. ended \in BOOLEAN /\ up \in BOOLEAN /\ again \in BOOLEAN /\ caught \in BOOLEAN
        /\ inMon \in BOOLEAN
    BY Zenon DEF LifeInit
  <2>3. /\ pc \in 1 .. Len(Code) /\ seq \in 0 .. INITIALIZED /\ td \in 0 .. Len(Teardown) + 1
        /\ cursor \in 0 .. Len(Plugins)
    BY ONLY <1>1, Lengths
  <2> QED
    BY ONLY <1>1, <2>1, <2>2, <2>3 DEF LifeTypeOK
<1>3. MonitorIs /\ EndInv
  BY ONLY <1>1 DEF MonitorIs, EndInv
<1>4. \A r \in Made : r \in held <=> MadeAt(r) < pc
  BY ONLY <1>1, MadeAtIs
<1>5. StageIs
  <2>1. \A n \in 1 .. 16 : NotedAt[n] \in 1 .. 59
    BY NotedAtIs
  <2>2. \A n \in 1 .. 16 : n <= seq <=> NotedAt[n] < pc
    BY ONLY <1>1, <2>1
  <2> QED
    BY ONLY <1>1, <2>2 DEF StageIs
<1>6. PluginsAre
  BY ONLY <1>1 DEF PluginsAre, TableIs
<1>7. StartInv
  BY ONLY <1>1, <1>4, <1>5, <1>6 DEF StartInv
<1> QED
  BY <1>2, <1>3, <1>7 DEF LifeInv

LEMMA LifeStep == LifeInv /\ [LifeNext]_lifeVars => LifeInv'
<1> SUFFICES ASSUME LifeInv, [LifeNext]_lifeVars PROVE LifeInv'
  OBVIOUS
<1>1. CASE MakeStep
  BY <1>1, MakeKeeps
<1>2. CASE CheckStep \/ SelectStep
  BY <1>2, CheckKeeps
<1>3. CASE InsertStep
  BY <1>3, InsertKeeps
<1>4. CASE InitStep
  BY <1>4, InitKeeps
<1>5. CASE KeepStep
  BY <1>5, KeepKeeps
<1>6. CASE ConfigStep
  BY <1>6, ConfigKeeps
<1>7. CASE NoteStep
  BY <1>7, NoteKeeps
<1>8. CASE LockStep \/ HoldStep \/ DropStep \/ UnlockStep
  BY <1>8, MonitorKeeps
<1>9. CASE Command
  BY <1>9, CommandKeeps
<1>10. CASE OtherEnters \/ OtherLeaves
  BY <1>10, OthersKeep
<1>11. CASE \E n \in Signals : Signal(n)
  BY <1>11, SignalKeeps
<1>17. CASE Killed
  BY <1>17, KilledKeeps
<1>12. CASE Undo
  BY <1>12, UndoKeeps
<1>13. CASE Skip
  BY <1>13, SkipKeeps
<1>14. CASE Close
  BY <1>14, CloseKeeps
<1>15. CASE ShutdownEnv
  <2>1. CASE ShutEnter \/ ShutLock \/ ShutHold \/ ShutDrop \/ ShutUnlock
    BY <2>1, ShutKeeps
  <2>2. CASE ShutFind
    BY <2>2, FindKeeps
  <2>3. CASE ShutCall
    BY <2>3, CallKeeps
  <2>4. CASE ShutRelease
    BY <2>4, ReleaseKeeps
  <2> QED
    BY <1>15, <2>1, <2>2, <2>3, <2>4 DEF ShutdownEnv
<1>16. CASE UNCHANGED lifeVars
  <2>1. /\ UNCHANGED <<pc, seq, up, held, mutex, holder, ended>>
        /\ UNCHANGED <<td, how, blocked, gap, gone, amiss, again, caught>>
        /\ UNCHANGED <<table, initRc, sd, cursor, inMon>>
        /\ UNCHANGED <<tdVars, shutVars>>
    BY <1>16 DEF lifeVars, startVars, monVars, tdVars, plugVars, shutVars
  <2>2. LifeTypeOK' /\ MonitorIs'
    <3>1. LifeTypeOK /\ MonitorIs
      BY DEF LifeInv
    <3>2. /\ pc \in 1 .. Len(Code) /\ seq \in 0 .. INITIALIZED /\ up \in BOOLEAN
          /\ held \subseteq Resources /\ table \subseteq Range(Plugins)
          /\ initRc \in {"none", "success", "error"}
          /\ mutex \in {"free", "main", "other"} /\ holder \in {"none", "main", "other"}
          /\ holder # "none" => mutex = holder
      BY <3>1 DEF LifeTypeOK
    <3>3. LifeTypeOK'
      BY <2>1, <3>1, <3>2, TypeSame
    <3>4. MonitorIs'
      BY <2>1, <3>1 DEF MonitorIs
    <3> QED
      BY <3>3, <3>4
  <2>3. StartInv'
    BY <2>1 DEF LifeInv, StartInv, StageIs, PluginsAre, TableIs
  <2>4. /\ TableIs' = TableIs /\ CursorIs' = CursorIs /\ StageIs' = StageIs
        /\ CountedIs' = CountedIs /\ PassedIs' = PassedIs /\ FirstIs' = FirstIs
        /\ LeftIs' = LeftIs /\ UndoneOnce' = UndoneOnce /\ UsersGoFirst' = UsersGoFirst
    BY <2>1 DEF TableIs, CursorIs, StageIs, CountedIs, Reached, PassedIs, ToCome, FirstIs, LeftIs,
                UndoneOnce, UsersGoFirst
  <2>5. EndInv'
    BY <2>1, <2>4 DEF LifeInv, EndInv
  <2> QED
    BY <2>2, <2>3, <2>5 DEF LifeInv
<1> QED
  BY <1>1, <1>2, <1>3, <1>4, <1>5, <1>6, <1>7, <1>8, <1>9, <1>10, <1>11, <1>12, <1>13, <1>14, <1>15,
     <1>16, <1>17 DEF LifeNext, TeardownStep

\* The invariant holds in every behaviour.
LEMMA LifeAlways == LifeSpec => []LifeInv
<1>1. LifeInit => LifeInv
  BY LifeStarts
<1>2. LifeInv /\ [LifeNext]_lifeVars => LifeInv'
  BY LifeStep
<1> QED
  BY <1>1, <1>2, PTL DEF LifeSpec

\* The start and the end of demu have the types stated, whichever stage the
\* start had reached and however often signals come (main, demu_teardown).
THEOREM LifeTypeCorrect == LifeSpec => []LifeTypeOK
<1>1. LifeInv => LifeTypeOK
  BY DEF LifeInv
<1> QED
  BY <1>1, LifeAlways, PTL

\* demu_teardown undoes a thing only while it is there and while what undoing it
\* takes is there, but for what a signal found made and not yet counted, and
\* unless a signal finds a teardown unfinished.
THEOREM UndoneOnceCorrect == LifeSpec => []UndoneOnce
<1>1. LifeInv => UndoneOnce
  <2> SUFFICES ASSUME LifeInv PROVE UndoneOnce
    OBVIOUS
  <2>1. CASE td = 0
    BY <2>1 DEF LifeInv, StartInv, UndoneOnce
  <2>2. CASE td # 0
    <3>1. td > 0 /\ EndInv
      BY <2>2, EndIs
    <3> QED
      BY <3>1 DEF EndInv
  <2> QED
    BY <2>1, <2>2
<1> QED
  BY <1>1, LifeAlways, PTL

\* Nothing is undone while something that uses it is still there, but for what a
\* signal found made and not yet counted; the VGA and the surface go before the
\* plugins that may call them, and these are gone when the teardown is past
\* vmiope_shutdown (the order of demu_teardown).
THEOREM UsersGoFirstCorrect == LifeSpec => []UsersGoFirst
<1>1. LifeInv => UsersGoFirst
  <2> SUFFICES ASSUME LifeInv PROVE UsersGoFirst
    OBVIOUS
  <2>1. CASE td = 0
    BY <2>1 DEF LifeInv, StartInv, UsersGoFirst
  <2>2. CASE td # 0
    <3>1. td > 0 /\ EndInv
      BY <2>2, EndIs
    <3> QED
      BY <3>1 DEF EndInv
  <2> QED
    BY <2>1, <2>2
<1> QED
  BY <1>1, LifeAlways, PTL

\* What would outlive the process is gone when it ends, with the three exceptions
\* NothingLeft names (demu_teardown).
THEOREM NothingLeftCorrect == LifeSpec => []NothingLeft
<1>1. LifeInv => NothingLeft
  <2> SUFFICES ASSUME LifeInv, ended, how # "kill" PROVE NothingLeft
    BY DEF NothingLeft
  <2>1. td # 0
    BY DEF LifeInv, StartInv
  <2>2. td > 0 /\ EndInv
    BY <2>1, EndIs
  <2>3. LeftIs
    BY <2>2 DEF EndInv
  <2> QED
    BY <2>3 DEF NothingLeft, LeftIs, Keys
<1> QED
  BY <1>1, LifeAlways, PTL

=============================================================================
