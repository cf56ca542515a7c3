----------------------------- MODULE MCThreads -----------------------------
(* The main thread and two of the plugin's: enough for a thread to find the *)
(* monitor's holder changing under its test, and for two threads to sleep   *)
(* on the event while a third posts it.                                     *)
EXTENDS Threads, TLC

CONSTANTS main, p1, p2

MCThreads == {main, p1, p2}
MCMain == main
MCOffers ==
    main :> {"select", "post"} @@
    p1 :> {"deliver", "wait", "spawn"} @@
    p2 :> {"map", "wait", "serve"}
=============================================================================
