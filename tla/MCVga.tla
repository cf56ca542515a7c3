------------------------------- MODULE MCVga -------------------------------
(* Guests that each use one part of the VGA: the attribute and CRTC           *)
(* registers, the colours, video memory in its modes, and the VBE.            *)
EXTENDS Vga, TLC

To(p, vs) == {p} \X vs

MCPrograms == {
    To("3c0", {0, 2}) \cup To("3c2", BOOLEAN) \cup To("3d4", {1, 17}) \cup To("3d5", {2})
        \cup To("3da", {0}) \cup To("3ba", {0}) \cup To("3b4", {7}) \cup To("3b5", {1}),
    To("3c8", {0}) \cup To("3c9", Bit),
    To("3c7", {1}) \cup To("3c8", {0}) \cup To("3c9", {1}) \cup To("3c9 read", {0})
        \cup To("lfb", Bit),
    To("3c4", {2}) \cup To("3c5", {2, 15}) \cup To("3cf", {0})
        \cup To("store", {<<a, b, {}>> : a \in {6, 7}, b \in BOOLEAN}),
    To("3c4", {4}) \cup To("3c5", {8}) \cup To("3ce", {6}) \cup To("3cf", {0, 8})
        \cup To("store", {<<a, b, {}>> : a \in {4, 6, 7}, b \in BOOLEAN}),
    To("3ce", {0, 1}) \cup To("3cf", {0, 2, 3}) \cup To("load", {6})
        \cup To("store", {<<6, TRUE, {0}>>, <<6, FALSE, {1}>>}),
    To("3ce", {3, 8}) \cup To("3cf", {0, 8, 25}) \cup To("load", {6})
        \cup To("store", {<<6, b, {}>> : b \in BOOLEAN}),
    To("1ce", {"xres", "bpp", "enable", "virt_width"}) \cup To("1cf", {0, 1, 4, 1024}),
    To("1ce", {"yres", "enable", "bank", "y"}) \cup To("1cf", {1, 129, 300})}
=============================================================================
