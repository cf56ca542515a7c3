----------------------------- MODULE MCDisplay -----------------------------
(***************************************************************************)
(* Two lines and three pages, so that a picture can start at either of two *)
(* pages and its two places overlap; two sizes, one of them that of text.  *)
(***************************************************************************)
EXTENDS Display

MCPages == 0 .. 2
MCStarts == {0, 1}
MCGeometries == {"text", "wide"}

\* Not all at once: pictures of every kind where the frame buffer stays, with no
\* line of a frame left to copy beside a write once the picture has changed
\* twice; a frame buffer that moves beside one change of the picture; and the
\* console's timer where nothing else happens.
MCBounds ==
    \/ /\ moves = 0 /\ asks <= 1
       /\ turns <= 1 \/ writes = 0 \/ left = {}
    \/ turns <= 1 /\ asks <= 1
    \/ moves = 0 /\ turns = 0 /\ writes = 0

=============================================================================
