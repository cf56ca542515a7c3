----------------------------- MODULE MCObjects -----------------------------
(***************************************************************************)
(* Two threads, blocks of two slots of which a table takes two, and four   *)
(* registrations of the device, so that an entry is taken a second time.   *)
(***************************************************************************)
EXTENDS Objects

CONSTANTS c1, c2

MCClients == {c1, c2}

MCSymmetry == Permutations(MCClients)

=============================================================================
