----------------------------- MODULE MCRegions -----------------------------
(* A small and a large memory region, the large one long enough to lie       *)
(* around the VGA's range, and a port region with a base past the last port. *)
EXTENDS Regions, TLC

CONSTANTS small, large, port, none

MCRegions == {small, large, port}
MCKind == small :> "mmio" @@ large :> "mmio" @@ port :> "io"
MCLength == small :> 1 @@ large :> 3 @@ port :> 1
MCBases == small :> {1, 2} @@ large :> {0, 2} @@ port :> {1, 2}
Fixed(o, a) == <<[start |-> a, end |-> a, owner |-> o, init |-> FALSE]>>
MCBuiltin == [k \in Kinds |-> CASE k = "pci" -> Fixed("device", 0)
                              [] k = "mmio" -> Fixed("vga", 1)
                              [] k = "io" -> Fixed("vga", 0)]
=============================================================================
