---------------------------- MODULE MCGuestMaps ----------------------------
(***************************************************************************)
(* A region of two pages with two places that overlap; lists of up         *)
(* to three pages pinned two at a time, with a page twice, a page the      *)
(* guest does not have and its highest one.                                *)
(***************************************************************************)
EXTENDS GuestMaps

MCBases == {0, 1}
MCRequests == {<<0>>, <<0, 1>>, <<0, 0, 1>>, <<1, 2, 0>>, <<0, 3>>, <<3, 0, 2>>}
MCAbsent == {1}

=============================================================================
