------------------------------ MODULE MCIoReq ------------------------------
(* Two vcpus and a ring of three slots, which one wide and one narrow write   *)
(* fill, so that slots are reused and writes find the ring full.             *)
EXTENDS IoReq

CONSTANTS v1, v2, buf

MCVcpus == {v1, v2}
=============================================================================
