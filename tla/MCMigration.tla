--------------------------- MODULE MCMigration ---------------------------
(* The migration on a small instance: two threads the library may start    *)
(* (the second never runs, which OneWorker checks), one or two clients, two *)
(* descriptor numbers so that one is reused and one may leak.              *)
EXTENDS Migration, TLC

Symmetry == Permutations(Workers) \cup Permutations(Clients) \cup Permutations(Fds)
=============================================================================
