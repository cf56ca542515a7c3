------------------------------ MODULE Accesses ------------------------------
(***************************************************************************)
(* What demu promises the guest about its accesses to emulated addresses:  *)
(* each takes effect once, and a vcpu that waits for an answer goes on     *)
(* after its access has taken effect, and not before.                      *)
(***************************************************************************)
EXTENDS Naturals

CONSTANTS Vcpus, MaxSends

VARIABLES
    sent,       \* the number of accesses each vcpu has made
    done,       \* those that have taken effect
    waiting     \* the vcpu waits for the answer to its last access

vars == <<sent, done, waiting>>

Init ==
    /\ sent = [v \in Vcpus |-> 0] /\ done = [v \in Vcpus |-> {}]
    /\ waiting = [v \in Vcpus |-> FALSE]

\* A vcpu makes an access, and waits or does not.
Make(v, wait) ==
    /\ ~waiting[v] /\ sent[v] < MaxSends
    /\ sent' = [sent EXCEPT ![v] = @ + 1]
    /\ waiting' = [waiting EXCEPT ![v] = wait]
    /\ UNCHANGED done

TakeEffect(v, n) ==
    /\ n \in 1 .. sent[v] /\ n \notin done[v]
    /\ done' = [done EXCEPT ![v] = @ \cup {n}]
    /\ UNCHANGED <<sent, waiting>>

GoOn(v) ==
    /\ waiting[v] /\ sent[v] \in done[v]
    /\ waiting' = [waiting EXCEPT ![v] = FALSE]
    /\ UNCHANGED <<sent, done>>

Next ==
    \E v \in Vcpus :
        \/ \E wait \in BOOLEAN : Make(v, wait)
        \/ \E n \in 1 .. MaxSends : TakeEffect(v, n)
        \/ GoOn(v)

Fairness ==
    \A v \in Vcpus :
        /\ \A n \in 1 .. MaxSends : WF_vars(TakeEffect(v, n))
        /\ WF_vars(GoOn(v))

Spec == Init /\ [][Next]_vars /\ Fairness
=============================================================================
