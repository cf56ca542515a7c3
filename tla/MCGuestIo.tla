----------------------------- MODULE MCGuestIo -----------------------------
(***************************************************************************)
(* One bucket of two ways and three pages, so that pages displace each     *)
(* other; the guest lacks the last page.  Requests of one or two items of  *)
(* every size, forwards and backwards, to spaces with and without each of  *)
(* the functions, and one of five items, whose offsets exceed SizeMod.     *)
(***************************************************************************)
EXTENDS GuestIo

MCPages == 0 .. 9
MCGuestPages == 0 .. 2

Bare == [type |-> "copy", dir |-> "read", ptr |-> TRUE, df |-> FALSE, count |-> 2,
         size |-> 8, addr |-> 40, data |-> 0, ops |-> {1, 2, 4}]

\* Every way to split an item; the VBE's ports have the 2-byte function alone.
Split == {[Bare EXCEPT !.ptr = FALSE, !.size = s, !.ops = o] :
            s \in {1, 2, 4, 8}, o \in {{1}, {2}, {1, 2}, {1, 4}, {1, 2, 4}}}
         \cup {[Bare EXCEPT !.ptr = FALSE, !.df = TRUE], [Bare EXCEPT !.ptr = FALSE, !.type = "pio"],
               [Bare EXCEPT !.ptr = FALSE, !.size = 3], [Bare EXCEPT !.ops = {}]}
\* Data in guest memory, at the start and at the end of each page.
Memory == {[Bare EXCEPT !.dir = d, !.size = s, !.data = x, !.df = f] :
            d \in {"read", "write"}, s \in {4}, x \in {0, 12, 16}, f \in BOOLEAN}
\* The offset of the last item does not fit.
Long == [Bare EXCEPT !.dir = "write", !.count = 5]
MCReqs == Split \cup Memory \cup {Long}

=============================================================================
