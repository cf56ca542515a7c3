------------------------------ MODULE Display ------------------------------
(***************************************************************************)
(* What the console's client sees: the timer and the socket that keep the  *)
(* console refreshing (demu.c), the surface it is drawn on (surface.c),    *)
(* the map of dirty pages, the frame buffer's move in the guest, and the   *)
(* presentation plugin, which shares the surface with the VGA.             *)
(*                                                                         *)
(* A line of the picture is one page of video memory, and drawing it       *)
(* copies the page's content; pixels and fonts are left out.  The guest    *)
(* may write any page between two lines.  The main thread holds the        *)
(* monitor while it refreshes, so everything else waits, but for the       *)
(* plugin's own pixels, which it copies without the monitor.               *)
(***************************************************************************)
EXTENDS Integers, FiniteSets

CONSTANTS
    Lines,      \* lines of the picture
    Pages,      \* pages of video memory
    Starts,     \* where in it the guest may put the picture
    Geometries, \* sizes of a picture; text has the first of them
    TextSize,
    Refreshes,  \* 5000000 / CONSOLE_REFRESH_PERIOD
    MaxWrites,  \* bound: writes of the guest to video memory
    MaxAsks,    \* bound: datagrams of the client
    MaxMoves,   \* bound: moves of the frame buffer
    MaxTurns    \* bound: the guest's changes of the registers and the plugin's of the surface

ASSUME DisplayAssumption ==
    /\ Lines \in Nat \ {0} /\ Starts \subseteq Nat /\ 0 \in Starts /\ Pages \subseteq Nat
    /\ \A a \in Starts : \A l \in 1 .. Lines : a + l - 1 \in Pages
    /\ TextSize \in Geometries /\ "none" \notin Geometries
    /\ Refreshes \in Nat \ {0}
    /\ MaxWrites \in Nat /\ MaxAsks \in Nat /\ MaxMoves \in Nat /\ MaxTurns \in Nat

VARIABLES
    vga,        \* the registers the guest sets: mode, depth, size, start, too many characters
    inVga,      \* VGA_state
    mem,        \* the content of each page of video memory
    writes,     \* writes of the guest so far
    log,        \* pages Xen has seen written
    map,        \* demu_state.vram_dirty_map
    at, addr,   \* where in the guest each page is, and demu_state.vram_addr
    lfb,        \* vga->lfb_addr, which the guest reads back
    resuming,   \* demu_resuming
    moves,      \* moves of the frame buffer so far
    s,          \* surface_state
    host,       \* the lines drawn beyond the guest's video memory
    last,       \* last_ch_attr: the text last drawn in each line
    pcfg,       \* vmiope_ps.cfg
    turns,      \* changes to the registers, the surface and cfg so far
    dest, left, \* a frame of the plugin: the buffer it goes to, and the lines still to copy
    \* The main thread.
    rpc, y,     \* where the refresh is
    full,       \* full_update in it
    redraw,     \* demu_state.full_update
    active,     \* demu_state.console_active
    scount,     \* demu_state.scount
    armed,      \* the timer runs
    tick,       \* a byte is in the timer's pipe
    asks,       \* datagrams so far
    failed,     \* the assertion of demu_console_refresh failed
    \* History.
    empty,      \* a datagram without a byte was read
    lost,       \* pages whose writes a move forgot, or demu made itself and did not mark
    over,       \* lines a frame of the plugin was copied over, not drawn since
    skipped,    \* text too big to draw has used up the redrawing a new mode asks for
    taken,      \* the plugin has sized the surface since the VGA last did
    spoilt      \* drawings that went to the guest's own video memory

vramVars == <<mem, writes, log, map, at, addr, lfb, resuming, moves, lost>>
surfaceVars == <<s, host, last, over, skipped, taken, spoilt>>
mainVars == <<rpc, y, full, redraw, active, scount, armed, tick, asks, failed, empty>>
guestVars == <<vga, inVga, pcfg, turns>>
frameVars == <<dest, left>>
vars == <<vramVars, surfaceVars, mainVars, guestVars, frameVars>>

Host == -1
PluginFrame == -2
None == "none"
Sizes == Geometries \cup {None}
Depths == {0, 32}
Pitches == Sizes \X Depths
Surface ==
    [mode : {None, "blank", "text", "graphic"}, size : Sizes, depth : Depths,
     pitch : Pitches, lastPitch : Pitches, start : Starts, offset : Starts \cup {Host}]
Registers ==
    {r \in [mode : {"blank", "text", "graphic"}, depth : Depths, size : Geometries, start : Starts,
             big : BOOLEAN] :
        /\ r.mode # "graphic" => r.depth = 0 /\ r.size = TextSize
        /\ r.big => r.mode = "text"}
Content == [page : Pages \cup {Host, PluginFrame}, write : 0 .. MaxWrites]

TypeOK ==
    /\ vga \in Registers /\ inVga \in BOOLEAN
    /\ mem \in [Pages -> Content] /\ writes \in 0 .. MaxWrites
    /\ log \subseteq Pages /\ map \subseteq Pages /\ lost \subseteq Pages
    /\ at \in [Pages -> 0 .. MaxMoves] /\ addr \in 0 .. MaxMoves /\ moves \in 0 .. MaxMoves
    /\ lfb \in 0 .. MaxMoves /\ resuming \in BOOLEAN
    /\ s \in Surface
    /\ host \in [1 .. Lines -> Content] /\ last \in [1 .. Lines -> Content]
    /\ over \subseteq 1 .. Lines /\ skipped \in BOOLEAN
    /\ pcfg \in Geometries \cup {None} /\ turns \in 0 .. MaxTurns
    /\ dest \in Starts \cup {Host} /\ left \subseteq 1 .. Lines
    /\ rpc \in {"idle", "lines", "done"} /\ y \in 1 .. Lines + 1
    /\ scount \in 0 .. Refreshes
    /\ full \in BOOLEAN /\ redraw \in BOOLEAN /\ active \in BOOLEAN /\ armed \in BOOLEAN
    /\ tick \in BOOLEAN /\ failed \in BOOLEAN /\ empty \in BOOLEAN /\ taken \in BOOLEAN

Blank == [page |-> Host, write |-> 0]
Pixels == [page |-> PluginFrame, write |-> 0]

\* After a reset no VBE mode is set.
Init ==
    /\ vga \in {r \in Registers : r.mode # "graphic" /\ r.start = 0 /\ ~r.big}
    /\ inVga = TRUE /\ pcfg = None /\ turns = 0
    /\ mem = [p \in Pages |-> [page |-> p, write |-> 0]] /\ writes = 0
    /\ log = {} /\ map = {} /\ lost = {}
    /\ at = [p \in Pages |-> 0] /\ addr = 0 /\ lfb = 0 /\ moves = 0 /\ resuming \in BOOLEAN
    /\ s = [mode |-> None, size |-> None, depth |-> 0, pitch |-> <<None, 0>>, lastPitch |-> <<None, 0>>,
            start |-> 0, offset |-> 0]
    /\ host = [l \in 1 .. Lines |-> Blank] /\ last = [l \in 1 .. Lines |-> Blank]
    /\ over = {} /\ skipped = FALSE /\ dest = 0 /\ left = {}
    /\ rpc = "idle" /\ y = 1 /\ full = FALSE /\ redraw = FALSE
    /\ active = FALSE /\ scount = 0 /\ armed = FALSE /\ tick = FALSE
    /\ asks = 0 /\ failed = FALSE
    /\ empty = FALSE /\ taken = FALSE /\ spoilt = {}

\* The monitor is free, and the start, which maps the video memory last, is over.
Idle == rpc = "idle" /\ ~failed /\ ~resuming
Turn == turns < MaxTurns /\ turns' = turns + 1

-----------------------------------------------------------------------------
\* The guest and the client.
SetMode(r) ==
    /\ Idle /\ Turn /\ r # vga
    /\ vga' = r
    /\ UNCHANGED <<inVga, pcfg, vramVars, surfaceVars, mainVars, frameVars>>

\* A store to the frame buffer; Xen records it if the page is where it looks.
GuestWrite(p) ==
    /\ ~failed /\ ~resuming /\ writes < MaxWrites
    /\ writes' = writes + 1 /\ mem' = [mem EXCEPT ![p] = [page |-> p, write |-> writes']]
    /\ log' = IF at[p] = addr THEN log \cup {p} ELSE log
    /\ UNCHANGED <<map, at, addr, lfb, resuming, moves, lost, surfaceVars, mainVars, guestVars,
                   frameVars>>

\* A store through the device, which marks the page itself.
DeviceWrite(p) ==
    /\ Idle /\ writes < MaxWrites
    /\ writes' = writes + 1 /\ mem' = [mem EXCEPT ![p] = [page |-> p, write |-> writes']]
    /\ map' = map \cup {p}
    /\ UNCHANGED <<log, at, addr, lfb, resuming, moves, lost, surfaceVars, mainVars, guestVars,
                   frameVars>>

\* VBE_DISPI_INDEX_ENABLE: a mode is set whose picture starts at 0 and, unless
\* the guest asks otherwise (SetMode), the picture is cleared, which marks nothing.
Enable(r) ==
    LET cleared == 0 .. Lines - 1
    IN /\ Idle /\ Turn /\ r.mode # "text" /\ r.start = 0
       /\ vga' = r /\ lfb' = addr
       /\ mem' = [p \in Pages |-> IF p \in cleared THEN Blank ELSE mem[p]]
       /\ lost' = lost \cup cleared
       /\ UNCHANGED <<inVga, pcfg, writes, log, map, at, addr, resuming, moves, surfaceVars, mainVars,
                      frameVars>>

-----------------------------------------------------------------------------
\* demu_set_vram_addr: the first n pages follow before a hypercall fails, which
\* it does for a page that is not where it is looked for.  The move of all of
\* them restarts Xen's record and tells the device.  demu_state_dirty, which it
\* also sets, is set from the start here: a migration clears it (Migration).
Move(n) ==
    LET to == moves + 1
        all == \A p \in Pages : p < n
    IN /\ Idle /\ moves < MaxMoves
       /\ \A p \in Pages : p < n => at[p] = addr
       /\ moves' = to
       /\ at' = [p \in Pages |-> IF p < n THEN to ELSE at[p]]
       /\ addr' = IF all THEN to ELSE addr
       /\ lfb' = IF all THEN to ELSE lfb
       /\ log' = IF all THEN {} ELSE log
       /\ lost' = IF all THEN lost \cup log ELSE lost
       /\ UNCHANGED <<mem, writes, map, resuming, surfaceVars, mainVars, guestVars, frameVars>>

\* While the process resumes the address is only noted: there is nothing to move,
\* and the device is not told.
MoveResuming ==
    /\ resuming /\ moves < MaxMoves
    /\ moves' = moves + 1 /\ addr' = moves'
    /\ UNCHANGED <<mem, writes, log, map, at, lfb, resuming, lost, surfaceVars, mainVars, guestVars,
                   frameVars>>

\* demu_initialize maps the video memory where the address says, and the
\* resuming is over.
MapVram ==
    /\ resuming /\ resuming' = FALSE
    /\ at' = [p \in Pages |-> addr]
    /\ UNCHANGED <<mem, writes, log, map, addr, lfb, moves, lost, surfaceVars, mainVars, guestVars,
                   frameVars>>

\* The plugin leaves VGA emulation, or returns to it.
SetVgaState ==
    /\ Idle
    /\ inVga' = ~inVga
    /\ UNCHANGED <<vga, pcfg, turns, vramVars, surfaceVars, mainVars, frameVars>>

\* vmiop_dt_set_configuration and vmiop_dt_frame: the plugin draws in the
\* guest's video memory; a configuration like the last one is dropped unless
\* discard is set.
Configure(g, discard) ==
    /\ Idle /\ Turn
    /\ pcfg # g \/ discard
    /\ pcfg' = g
    /\ s' = [s EXCEPT !.offset = 0, !.size = g] /\ taken' = TRUE
    /\ UNCHANGED <<vga, inVga, vramVars, host, last, over, skipped, spoilt, mainVars, frameVars>>

\* vmiop_dt_frame goes on without the monitor: it takes the buffer that the
\* surface has now, whoever sized it and wherever the main thread is.
TakeBuffer ==
    /\ ~failed /\ ~resuming /\ pcfg # None /\ left = {}
    /\ dest' = s.offset /\ left' = 1 .. Lines
    /\ UNCHANGED <<vramVars, surfaceVars, mainVars, guestVars>>

\* A line of the frame is copied into it; nothing marks it.
CopyLine(l) ==
    /\ ~failed /\ l \in left
    /\ left' = left \ {l} /\ UNCHANGED dest
    /\ IF dest = Host
       THEN /\ host' = [host EXCEPT ![l] = Pixels] /\ over' = over \cup {l}
            /\ UNCHANGED <<mem, lost>>
       ELSE /\ mem' = [mem EXCEPT ![dest + l - 1] = Pixels] /\ lost' = lost \cup {dest + l - 1}
            /\ UNCHANGED <<host, over>>
    /\ UNCHANGED <<writes, log, map, at, addr, lfb, resuming, moves, s, last, skipped, taken, spoilt,
                   mainVars, guestVars>>

\* A frame of another length or pixel format, or one that ends early, leaves the rest.
CopyFails ==
    /\ left # {} /\ left' = {}
    /\ UNCHANGED <<dest, vramVars, surfaceVars, mainVars, guestVars>>

-----------------------------------------------------------------------------
\* The timer and the socket.  A tick that comes while a picture is drawn waits
\* for its end.
Tick ==
    /\ ~failed /\ rpc # "lines" /\ armed /\ ~tick
    /\ tick' = TRUE
    /\ UNCHANGED <<vramVars, surfaceVars, guestVars, frameVars, rpc, y, full, redraw, active, scount,
                   armed, asks, failed, empty>>

\* demu_socket_read, with a byte or without, and demu_console_start if there
\* is no console; the timer may fail.
SocketRead(byte, ok) ==
    /\ Idle /\ asks < MaxAsks
    /\ asks' = asks + 1
    /\ scount' = IF byte THEN Refreshes ELSE scount
    /\ empty' = (empty \/ ~byte)
    /\ IF ~active /\ ok
       THEN active' = TRUE /\ armed' = TRUE /\ redraw' = TRUE
       ELSE UNCHANGED <<active, armed, redraw>>
    /\ UNCHANGED <<vramVars, surfaceVars, guestVars, frameVars, rpc, y, full, tick, failed>>

\* A tick that is read when the console has stopped.
StaleTick ==
    /\ Idle /\ tick /\ ~active
    /\ tick' = FALSE
    /\ UNCHANGED <<vramVars, surfaceVars, guestVars, frameVars, rpc, y, full, redraw, active, scount,
                   armed, asks, failed, empty>>

\* Slip: the console stays active when its timer is stopped.
StoppedStays == scount = 1 /\ armed' = FALSE /\ UNCHANGED active

\* demu_console_stop, after the last refresh.
Stopped == scount = 1 /\ armed' = FALSE /\ active' = FALSE

\* The end of demu_console_refresh.
CountDown ==
    IF scount = 0 THEN failed' = TRUE /\ UNCHANGED <<scount, armed, active>>
    ELSE /\ scount' = scount - 1
         /\ Stopped \/ (scount > 1 /\ UNCHANGED <<armed, active>>)
         /\ UNCHANGED failed

\* A refresh while the plugin has the display.
RefreshElsewhere ==
    /\ Idle /\ tick /\ active /\ ~inVga
    /\ tick' = FALSE /\ CountDown
    /\ UNCHANGED <<vramVars, surfaceVars, guestVars, frameVars, rpc, y, full, redraw, asks, empty>>

-----------------------------------------------------------------------------
\* The refresh.  A pitch stands for line_offset.
Pitch == <<vga.size, vga.depth>>
Moved == s.pitch # Pitch \/ s.start # vga.start
Source(l) == s.start + l - 1
Target(l) == s.offset + l - 1

\* Slip: the depth of the last picture is not looked at.
TextResizesLess == s.size # TextSize

\* surface_draw_text sizes the surface when the size or the depth was another.
TextResizes == s.size # TextSize \/ s.depth # 0

\* surface_draw_graphic does when the size, the depth or the pitch was another.
GraphicResizes == s.lastPitch # Pitch \/ s.size # vga.size \/ s.depth # vga.depth

Resizes == IF vga.mode = "text" THEN TextResizes ELSE GraphicResizes
Depth == IF vga.mode = "text" THEN 0 ELSE vga.depth

\* At 32 bits a pixel the client is shown the guest's memory itself.
Resized(t) ==
    IF ~Resizes THEN t
    ELSE [t EXCEPT !.size = IF vga.mode = "text" THEN TextSize ELSE vga.size,
                   !.depth = Depth,
                   !.lastPitch = IF vga.mode = "text" THEN @ ELSE Pitch,
                   !.offset = IF Depth = 32 THEN vga.start ELSE Host]

\* Drawing content c in line l.
Draw(l, c) ==
    IF s.offset = Host
    THEN host' = [host EXCEPT ![l] = c] /\ over' = over \ {l} /\ UNCHANGED <<mem, spoilt>>
    ELSE /\ mem' = [mem EXCEPT ![Target(l)] = c]
         /\ spoilt' = IF taken THEN spoilt ELSE spoilt \cup {<<s.mode, s.depth>>}
         /\ UNCHANGED <<host, over>>

\* surface_refresh, up to the loop over the lines.  A blank picture is drawn
\* whole, where the last one was.
RefreshBlank ==
    /\ Idle /\ tick /\ active /\ inVga /\ vga.mode = "blank"
    /\ tick' = FALSE /\ rpc' = "done" /\ redraw' = FALSE
    /\ s' = [s EXCEPT !.mode = "blank"]
    /\ IF ~(redraw \/ s.mode # "blank") \/ s.size = None
       THEN UNCHANGED <<host, over, mem, spoilt>>
       ELSE IF s.offset = Host
       THEN host' = [l \in 1 .. Lines |-> Blank] /\ over' = {} /\ UNCHANGED <<mem, spoilt>>
       ELSE /\ mem' = [p \in Pages |-> IF p - s.offset \in 0 .. Lines - 1 THEN Blank ELSE mem[p]]
            /\ spoilt' = IF taken THEN spoilt ELSE spoilt \cup {<<"blank", s.depth>>}
            /\ UNCHANGED <<host, over>>
    /\ UNCHANGED <<last, skipped, taken, writes, log, map, at, addr, lfb, resuming, moves, lost,
                   guestVars, frameVars, y, full, active, scount, armed, asks, failed, empty>>

\* Text of more characters than last_ch_attr holds is not drawn, but its mode
\* and its start are noted and the full update is used up.
RefreshTooBig ==
    /\ Idle /\ tick /\ active /\ inVga /\ vga.big
    /\ tick' = FALSE /\ rpc' = "done" /\ redraw' = FALSE
    /\ s' = [s EXCEPT !.mode = "text", !.pitch = Pitch, !.start = vga.start]
    /\ skipped' = (skipped \/ s.mode # "text")
    /\ UNCHANGED <<vramVars, host, last, over, taken, spoilt, guestVars, frameVars,
                   y, full, active, scount, armed, asks, failed, empty>>

\* demu_sync_vram_dirty_map: when Xen does not answer every page is dirty.
Sync(ok) == map' = (map \cup IF ok THEN log ELSE Pages) /\ log' = IF ok THEN {} ELSE log

RefreshStart(ok) ==
    LET t == [s EXCEPT !.mode = vga.mode, !.pitch = Pitch, !.start = vga.start]
    IN /\ Idle /\ tick /\ active /\ inVga /\ vga.mode # "blank" /\ ~vga.big
       /\ tick' = FALSE /\ rpc' = "lines" /\ y' = 1 /\ redraw' = FALSE
       /\ full' = (redraw \/ vga.mode # s.mode \/ Moved \/ Resizes)
       /\ s' = Resized(t) /\ taken' = (taken /\ ~Resizes) /\ skipped' = (skipped /\ ~full')
       /\ IF vga.mode = "graphic" THEN Sync(ok) ELSE UNCHANGED <<map, log>>
       /\ UNCHANGED <<host, last, over, spoilt, mem, writes, at, addr, lfb, resuming, moves, lost,
                      guestVars, frameVars, active, scount, armed, asks, failed, empty>>

\* A line is drawn if everything is, or if its page is dirty; in text, if its
\* characters are not those drawn last.
Due(l) == full \/ IF s.mode = "text" THEN last[l] # mem[Source(l)] ELSE Source(l) \in map

DrawLine ==
    /\ rpc = "lines" /\ y <= Lines
    /\ y' = y + 1
    /\ IF Due(y) /\ (s.mode = "text" \/ s.offset # s.start)
       THEN Draw(y, mem[Source(y)]) ELSE UNCHANGED <<host, over, mem, spoilt>>
    /\ last' = IF s.mode = "text" /\ Due(y) THEN [last EXCEPT ![y] = mem[Source(y)]] ELSE last
    /\ lost' = IF Due(y) THEN lost \ {Source(y)} ELSE lost
    /\ UNCHANGED <<s, skipped, taken, writes, log, map, at, addr, lfb, resuming, moves, guestVars,
                   frameVars, rpc, full, redraw, active, scount, armed, tick, asks, failed, empty>>

\* Slip: the record is read, and forgotten, after the lines have been drawn too.
DrawEndSyncs ==
    /\ rpc = "lines" /\ y = Lines + 1
    /\ rpc' = "done" /\ y' = 1 /\ full' = FALSE
    /\ map' = {} /\ log' = {}
    /\ UNCHANGED <<surfaceVars, guestVars, frameVars, mem, writes, at, addr, lfb, resuming, moves, lost,
                   redraw, active, scount, armed, tick, asks, failed, empty>>

DrawEnd ==
    /\ rpc = "lines" /\ y = Lines + 1
    /\ rpc' = "done" /\ y' = 1 /\ full' = FALSE
    /\ map' = IF s.mode = "graphic" THEN {} ELSE map
    /\ UNCHANGED <<surfaceVars, guestVars, frameVars, mem, writes, log, at, addr, lfb, resuming, moves,
                   lost, redraw, active, scount, armed, tick, asks, failed, empty>>

RefreshEnd ==
    /\ rpc = "done" /\ ~failed
    /\ rpc' = "idle" /\ CountDown
    /\ UNCHANGED <<vramVars, surfaceVars, guestVars, frameVars, y, full, redraw, tick, asks, empty>>

Next ==
    \/ \E r \in Registers : SetMode(r) \/ Enable(r)
    \/ \E p \in Pages : GuestWrite(p) \/ DeviceWrite(p)
    \/ \E n \in 1 .. Cardinality(Pages) : Move(n)
    \/ MoveResuming \/ MapVram
    \/ SetVgaState
    \/ TakeBuffer \/ CopyFails
    \/ \E l \in 1 .. Lines : CopyLine(l)
    \/ \E g \in Geometries, d \in BOOLEAN : Configure(g, d)
    \/ Tick \/ StaleTick \/ RefreshElsewhere
    \/ \E b, ok \in BOOLEAN : SocketRead(b, ok)
    \/ RefreshBlank \/ RefreshTooBig
    \/ \E ok \in BOOLEAN : RefreshStart(ok)
    \/ DrawLine \/ DrawEnd \/ RefreshEnd

Spec == Init /\ [][Next]_vars

-----------------------------------------------------------------------------
\* What the client sees in line l is what the guest's registers ask for.
Right(l) ==
    IF s.offset = Host THEN host[l] = mem[Source(l)]
    ELSE s.offset = s.start /\ s.mode = "graphic" /\ vga.depth = 32

\* After a refresh the client sees the guest's picture, but for pages written
\* since, which the next refresh finds in Xen's record; it may see another
\* where the plugin sized the surface last or copied a frame over the line,
\* where a move of the frame buffer lost the record or left the page behind,
\* where demu itself wrote the page, where a 32-bit picture was moved, and while
\* a text is too big to be drawn or has used up the redrawing of a new mode
\* (surface_refresh, demu_sync_vram_dirty_map, demu_set_vram_addr,
\* vmiop_presentation_put_message).
PictureIsCurrent ==
    rpc = "done" /\ s.mode # "blank" =>
        \A l \in 1 .. Lines :
            \/ Right(l) \/ Source(l) \in log \cup lost
            \/ at[Source(l)] # addr
            \/ taken \/ l \in over
            \/ s.depth = 32 /\ s.offset # s.start
            \/ vga.big \/ skipped

\* Unless the plugin sized the surface, text and pictures of fewer than 32 bits
\* are never drawn over the guest's own video memory; a blank picture, and a
\* 32-bit one whose start the guest moves, are (surface_draw_blank,
\* surface_draw_graphic).
OnlyDirectSpoils == \A d \in spoilt : d[1] # "text" /\ d[2] = 32

\* The console is never refreshed without a refresh left, unless it was started
\* by a datagram without a byte (the assertion of demu_console_refresh).
AssertsOnlyAfterEmpty == failed => empty

=============================================================================
