--------------------------- MODULE ThreadsProofs ---------------------------
(***************************************************************************)
(* Proofs about Threads, for any threads and any calls offered to them.    *)
(* Three invariants, each inductive relative to the ones before it: where  *)
(* a thread can be in its call; that the three words of the monitor agree; *)
(* that the rest of a call tells whether its thread is in the monitor and  *)
(* which lock it has.                                                      *)
(***************************************************************************)
EXTENDS Threads, TLAPS

\* The rests of calls, by where their thread is: as it was when it made the
\* call, in the monitor, or out of it.
Whole == {
    <<"enterSave", "monWork", "leaveUnless">>,
    <<"enterSave", "find", "leave", "outside", "enterIf">>,
    <<"leaveSave", "outside", "enterIf">>,
    <<"leaveSave", "lockTable", "tableWork", "unlockTable", "enterIf">>,
    <<"leaveSave", "lockTable", "allocate", "unlockTable", "enter", "malloc", "monWork", "leaveUnless">>,
    <<"leaveSave", "lockEvent", "wait", "unlockEvent", "enterIf">>,
    <<"leaveSave", "lockEvent", "post", "unlockEvent", "enterIf">>,
    <<"leaveSave", "lockTable", "create", "unlockTable", "enterIf", "setHandle">>,
    <<"setHandle">>, <<"leave", "outside", "enter">>}

Inside == {
    <<"monWork", "leaveUnless">>, <<"leaveUnless">>,
    <<"find", "leave", "outside", "enterIf">>,
    <<"leave", "outside", "enterIf">>, <<"malloc", "monWork", "leaveUnless">>}

Outside == {
    <<"outside", "enterIf">>, <<"enterIf">>,
    <<"lockTable", "tableWork", "unlockTable", "enterIf">>,
    <<"tableWork", "unlockTable", "enterIf">>, <<"unlockTable", "enterIf">>,
    <<"lockTable", "allocate", "unlockTable", "enter", "malloc", "monWork", "leaveUnless">>,
    <<"allocate", "unlockTable", "enter", "malloc", "monWork", "leaveUnless">>,
    <<"unlockTable", "enter", "malloc", "monWork", "leaveUnless">>,
    <<"enter", "malloc", "monWork", "leaveUnless">>,
    <<"lockEvent", "wait", "unlockEvent", "enterIf">>,
    <<"wait", "unlockEvent", "enterIf">>, <<"unlockEvent", "enterIf">>,
    <<"lockEvent", "post", "unlockEvent", "enterIf">>,
    <<"post", "unlockEvent", "enterIf">>,
    <<"lockTable", "create", "unlockTable", "enterIf", "setHandle">>,
    <<"create", "unlockTable", "enterIf", "setHandle">>,
    <<"unlockTable", "enterIf", "setHandle">>, <<"enterIf", "setHandle">>}

Selecting == {
    <<"outside", "enter">>, <<"enter">>}

Entries == {"enter", "enterSave", "enterIf"}
Exits == {"leave", "leaveSave", "leaveUnless"}

Rests == {<<>>} \cup Whole \cup Inside \cup Outside \cup Selecting

PlaceInv == \A t \in Threads :
    /\ todo[t] \in Rests
    /\ ~InCall(t) => at[t] = "begin"
    /\ at[t] = "holder" => Entering(t) \/ Leaving(t)
    /\ at[t] \in {"mutex", "setHolder", "setHeld"} => Entering(t)
    /\ at[t] = "unlock" => Leaving(t)
    /\ at[t] = "asleep" => Head(todo[t]) = "wait"

\* The mutex is held, and the other two words are being changed.
Changing(t) == at[t] \in {"setHolder", "setHeld", "unlock"}

\* A thread that tests the holder, and is outside, finds another's name there
\* whatever the other threads do.
MonitorInv ==
    /\ held => holder = owner["monitor"] /\ holder # None
    /\ \A t \in Threads :
        /\ InMonitor(t) /\ ~Changing(t) => held /\ holder = t
        /\ Changing(t) => InMonitor(t) /\ ~held
        /\ at[t] \in {"setHeld", "unlock"} => holder = t
        /\ at[t] = "holder" /\ ~InMonitor(t) => holder # t
        /\ at[t] = "mutex" => ~InMonitor(t)

\* What is left after a leak through the unlocks of vmiop_map_guest_memory_pages.
Spill == {<<"unlockTable", "enterIf">>, <<"enterIf">>}

\* Neither entering nor leaving has gone further than reading.
Undecided(t) == at[t] \in {"begin", "holder", "asleep"}

\* The monitor according to the rest of the call: as it was when the call was
\* made, in it, out of it, or out of it around the main thread's select.
Idle(t) ==
    /\ todo[t] = <<>>
    /\ was[t] => InMonitor(t)
    /\ InMonitor(t) => was[t] \/ leaked
AsCalled(t) ==
    /\ todo[t] \in Whole
    /\ Undecided(t) => (InMonitor(t) <=> was[t])
    /\ at[t] \in {"mutex", "setHolder", "setHeld"} => ~was[t]
    /\ at[t] = "unlock" => was[t]
    /\ Head(todo[t]) = "leave" => was[t]
Within(t) ==
    /\ todo[t] \in Inside /\ (in[t] <=> was[t])
    /\ Undecided(t) => InMonitor(t)
Without(t) ==
    /\ todo[t] \in Outside /\ (in[t] <=> was[t])
    /\ Undecided(t) => ~InMonitor(t) \/ (leaked /\ todo[t] \in Spill)
InSelect(t) ==
    /\ todo[t] \in Selecting /\ was[t]
    /\ Undecided(t) => ~InMonitor(t)
Phase(t) == Idle(t) \/ AsCalled(t) \/ Within(t) \/ Without(t) \/ InSelect(t)

\* The main thread makes its calls from the monitor.
PhaseInv ==
    /\ \A t \in Threads : Phase(t)
    /\ was[Main]

\* The locks according to the first step of the call.
LockInv == \A t \in Threads :
    /\ owner["table"] = t =>
        InCall(t) /\ Head(todo[t]) \in {"tableWork", "allocate", "create", "unlockTable"}
    /\ owner["event"] = t =>
        InCall(t) /\ Head(todo[t]) \in {"wait", "post", "unlockEvent"} /\ at[t] = "begin"

-----------------------------------------------------------------------------
LEMMA WholeNext ==
    ASSUME NEW s \in Whole
    PROVE  /\ s # <<>>
           /\ Head(s) \in {"enterSave", "leaveSave", "leave", "setHandle"}
           /\ Head(s) = "enterSave" => Tail(s) \in Inside
           /\ Head(s) = "leaveSave" => Tail(s) \in Outside
           /\ Head(s) = "leave" => Tail(s) \in Selecting
           /\ Head(s) = "setHandle" => Tail(s) = <<>>
  <1>1. CASE s = <<"enterSave", "monWork", "leaveUnless">>
    <2>1. Head(s) = "enterSave" /\ Tail(s) = <<"monWork", "leaveUnless">> /\ s # <<>>
      BY <1>1
    <2>2. QED
      BY <2>1, Zenon DEF Inside, Outside, Selecting
  <1>2. CASE s = <<"enterSave", "find", "leave", "outside", "enterIf">>
    <2>1. /\ Head(s) = "enterSave" /\ s # <<>>
          /\ Tail(s) = <<"find", "leave", "outside", "enterIf">>
      BY <1>2
    <2>2. QED
      BY <2>1, Zenon DEF Inside, Outside, Selecting
  <1>3. CASE s = <<"leaveSave", "outside", "enterIf">>
    <2>1. Head(s) = "leaveSave" /\ Tail(s) = <<"outside", "enterIf">> /\ s # <<>>
      BY <1>3
    <2>2. QED
      BY <2>1, Zenon DEF Inside, Outside, Selecting
  <1>4. CASE s = <<"leaveSave", "lockTable", "tableWork", "unlockTable", "enterIf">>
    <2>1. /\ Head(s) = "leaveSave" /\ s # <<>>
          /\ Tail(s) = <<"lockTable", "tableWork", "unlockTable", "enterIf">>
      BY <1>4
    <2>2. QED
      BY <2>1, Zenon DEF Inside, Outside, Selecting
  <1>5. CASE s = <<"leaveSave", "lockTable", "allocate", "unlockTable", "enter", "malloc", "monWork", "leaveUnless">>
    <2>1. /\ Head(s) = "leaveSave" /\ s # <<>>
          /\ Tail(s) = <<"lockTable", "allocate", "unlockTable", "enter", "malloc", "monWork", "leaveUnless">>
      BY <1>5
    <2>2. QED
      BY <2>1, Zenon DEF Inside, Outside, Selecting
  <1>6. CASE s = <<"leaveSave", "lockEvent", "wait", "unlockEvent", "enterIf">>
    <2>1. /\ Head(s) = "leaveSave" /\ s # <<>>
          /\ Tail(s) = <<"lockEvent", "wait", "unlockEvent", "enterIf">>
      BY <1>6
    <2>2. QED
      BY <2>1, Zenon DEF Inside, Outside, Selecting
  <1>7. CASE s = <<"leaveSave", "lockEvent", "post", "unlockEvent", "enterIf">>
    <2>1. /\ Head(s) = "leaveSave" /\ s # <<>>
          /\ Tail(s) = <<"lockEvent", "post", "unlockEvent", "enterIf">>
      BY <1>7
    <2>2. QED
      BY <2>1, Zenon DEF Inside, Outside, Selecting
  <1>8. CASE s = <<"leaveSave", "lockTable", "create", "unlockTable", "enterIf", "setHandle">>
    <2>1. /\ Head(s) = "leaveSave" /\ s # <<>>
          /\ Tail(s) = <<"lockTable", "create", "unlockTable", "enterIf", "setHandle">>
      BY <1>8
    <2>2. QED
      BY <2>1, Zenon DEF Inside, Outside, Selecting
  <1>9. CASE s = <<"setHandle">>
    <2>1. Head(s) = "setHandle" /\ Tail(s) = <<>> /\ s # <<>>
      BY <1>9
    <2>2. QED
      BY <2>1, Zenon DEF Inside, Outside, Selecting
  <1>10. CASE s = <<"leave", "outside", "enter">>
    <2>1. Head(s) = "leave" /\ Tail(s) = <<"outside", "enter">> /\ s # <<>>
      BY <1>10
    <2>2. QED
      BY <2>1, Zenon DEF Inside, Outside, Selecting
  <1>11. QED
    BY <1>1, <1>2, <1>3, <1>4, <1>5, <1>6, <1>7, <1>8, <1>9, <1>10 DEF Whole

LEMMA InsideNext ==
    ASSUME NEW s \in Inside
    PROVE  /\ s # <<>>
           /\ Head(s) \in {"monWork", "find", "malloc", "leaveUnless", "leave"}
           /\ Head(s) \in {"monWork", "find", "malloc"} => Tail(s) \in Inside
           /\ Head(s) = "leave" => Tail(s) \in Outside
           /\ Head(s) = "leaveUnless" => Tail(s) = <<>>
  <1>1. CASE s = <<"monWork", "leaveUnless">>
    <2>1. Head(s) = "monWork" /\ Tail(s) = <<"leaveUnless">> /\ s # <<>>
      BY <1>1
    <2>2. QED
      BY <2>1, Zenon DEF Inside, Outside
  <1>2. CASE s = <<"leaveUnless">>
    <2>1. Head(s) = "leaveUnless" /\ Tail(s) = <<>> /\ s # <<>>
      BY <1>2
    <2>2. QED
      BY <2>1, Zenon DEF Inside, Outside
  <1>3. CASE s = <<"find", "leave", "outside", "enterIf">>
    <2>1. Head(s) = "find" /\ Tail(s) = <<"leave", "outside", "enterIf">> /\ s # <<>>
      BY <1>3
    <2>2. QED
      BY <2>1, Zenon DEF Inside, Outside
  <1>4. CASE s = <<"leave", "outside", "enterIf">>
    <2>1. Head(s) = "leave" /\ Tail(s) = <<"outside", "enterIf">> /\ s # <<>>
      BY <1>4
    <2>2. QED
      BY <2>1, Zenon DEF Inside, Outside
  <1>5. CASE s = <<"malloc", "monWork", "leaveUnless">>
    <2>1. Head(s) = "malloc" /\ Tail(s) = <<"monWork", "leaveUnless">> /\ s # <<>>
      BY <1>5
    <2>2. QED
      BY <2>1, Zenon DEF Inside, Outside
  <1>6. QED
    BY <1>1, <1>2, <1>3, <1>4, <1>5 DEF Inside

LEMMA OutsideNext ==
    ASSUME NEW s \in Outside
    PROVE  /\ s # <<>>
           /\ Head(s) \in {"outside", "enterIf", "lockTable", "tableWork", "unlockTable",
                          "allocate", "enter", "lockEvent", "wait", "unlockEvent",
                          "post", "create"}
           /\ Head(s) = "enterIf" => Tail(s) \in {<<>>, <<"setHandle">>}
           /\ Head(s) = "enter" => Tail(s) \in Inside
           /\ Head(s) \notin {"enterIf", "enter"} => Tail(s) \in Outside
           /\ s \in Spill =>
                \/ Head(s) = "unlockTable" /\ Tail(s) \in Spill
                \/ Head(s) = "enterIf" /\ Tail(s) = <<>>
           /\ Head(s) = "lockTable" =>
                Head(Tail(s)) \in {"tableWork", "allocate", "create"}
           /\ Head(s) \in {"tableWork", "allocate", "create"} => Head(Tail(s)) = "unlockTable"
           /\ Head(s) = "lockEvent" => Head(Tail(s)) \in {"wait", "post"}
           /\ Head(s) \in {"wait", "post"} => Head(Tail(s)) = "unlockEvent"
  <1>1. CASE s = <<"outside", "enterIf">>
    <2>1. /\ Head(s) = "outside" /\ s # <<>> /\ Head(Tail(s)) = "enterIf"
          /\ Tail(s) = <<"enterIf">>
      BY <1>1
    <2>2. s \in Spill =>
            \/ Head(s) = "unlockTable" /\ Tail(s) \in Spill
            \/ Head(s) = "enterIf" /\ Tail(s) = <<>>
      BY <1>1, <2>1 DEF Spill
    <2>3. QED
      BY <2>1, <2>2, Zenon DEF Inside, Outside
  <1>2. CASE s = <<"enterIf">>
    <2>1. Head(s) = "enterIf" /\ Tail(s) = <<>> /\ s # <<>>
      BY <1>2
    <2>2. s \in Spill =>
            \/ Head(s) = "unlockTable" /\ Tail(s) \in Spill
            \/ Head(s) = "enterIf" /\ Tail(s) = <<>>
      BY <1>2, <2>1 DEF Spill
    <2>3. QED
      BY <2>1, <2>2, Zenon DEF Inside, Outside
  <1>3. CASE s = <<"lockTable", "tableWork", "unlockTable", "enterIf">>
    <2>1. /\ Head(s) = "lockTable" /\ s # <<>> /\ Head(Tail(s)) = "tableWork"
          /\ Tail(s) = <<"tableWork", "unlockTable", "enterIf">>
      BY <1>3
    <2>2. s \in Spill =>
            \/ Head(s) = "unlockTable" /\ Tail(s) \in Spill
            \/ Head(s) = "enterIf" /\ Tail(s) = <<>>
      BY <1>3, <2>1 DEF Spill
    <2>3. QED
      BY <2>1, <2>2, Zenon DEF Inside, Outside
  <1>4. CASE s = <<"tableWork", "unlockTable", "enterIf">>
    <2>1. /\ Head(s) = "tableWork" /\ s # <<>> /\ Head(Tail(s)) = "unlockTable"
          /\ Tail(s) = <<"unlockTable", "enterIf">>
      BY <1>4
    <2>2. s \in Spill =>
            \/ Head(s) = "unlockTable" /\ Tail(s) \in Spill
            \/ Head(s) = "enterIf" /\ Tail(s) = <<>>
      BY <1>4, <2>1 DEF Spill
    <2>3. QED
      BY <2>1, <2>2, Zenon DEF Inside, Outside
  <1>5. CASE s = <<"unlockTable", "enterIf">>
    <2>1. /\ Head(s) = "unlockTable" /\ s # <<>> /\ Head(Tail(s)) = "enterIf"
          /\ Tail(s) = <<"enterIf">>
      BY <1>5
    <2>2. s \in Spill =>
            \/ Head(s) = "unlockTable" /\ Tail(s) \in Spill
            \/ Head(s) = "enterIf" /\ Tail(s) = <<>>
      BY <1>5, <2>1 DEF Spill
    <2>3. QED
      BY <2>1, <2>2, Zenon DEF Inside, Outside
  <1>6. CASE s = <<"lockTable", "allocate", "unlockTable", "enter", "malloc", "monWork", "leaveUnless">>
    <2>1. /\ Head(s) = "lockTable" /\ s # <<>> /\ Head(Tail(s)) = "allocate"
          /\ Tail(s) = <<"allocate", "unlockTable", "enter", "malloc", "monWork", "leaveUnless">>
      BY <1>6
    <2>2. s \in Spill =>
            \/ Head(s) = "unlockTable" /\ Tail(s) \in Spill
            \/ Head(s) = "enterIf" /\ Tail(s) = <<>>
      BY <1>6, <2>1 DEF Spill
    <2>3. QED
      BY <2>1, <2>2, Zenon DEF Inside, Outside
  <1>7. CASE s = <<"allocate", "unlockTable", "enter", "malloc", "monWork", "leaveUnless">>
    <2>1. /\ Head(s) = "allocate" /\ s # <<>> /\ Head(Tail(s)) = "unlockTable"
          /\ Tail(s) = <<"unlockTable", "enter", "malloc", "monWork", "leaveUnless">>
      BY <1>7
    <2>2. s \in Spill =>
            \/ Head(s) = "unlockTable" /\ Tail(s) \in Spill
            \/ Head(s) = "enterIf" /\ Tail(s) = <<>>
      BY <1>7, <2>1 DEF Spill
    <2>3. QED
      BY <2>1, <2>2, Zenon DEF Inside, Outside
  <1>8. CASE s = <<"unlockTable", "enter", "malloc", "monWork", "leaveUnless">>
    <2>1. /\ Head(s) = "unlockTable" /\ s # <<>> /\ Head(Tail(s)) = "enter"
          /\ Tail(s) = <<"enter", "malloc", "monWork", "leaveUnless">>
      BY <1>8
    <2>2. s \in Spill =>
            \/ Head(s) = "unlockTable" /\ Tail(s) \in Spill
            \/ Head(s) = "enterIf" /\ Tail(s) = <<>>
      BY <1>8, <2>1 DEF Spill
    <2>3. QED
      BY <2>1, <2>2, Zenon DEF Inside, Outside
  <1>9. CASE s = <<"enter", "malloc", "monWork", "leaveUnless">>
    <2>1. /\ Head(s) = "enter" /\ s # <<>> /\ Head(Tail(s)) = "malloc"
          /\ Tail(s) = <<"malloc", "monWork", "leaveUnless">>
      BY <1>9
    <2>2. s \in Spill =>
            \/ Head(s) = "unlockTable" /\ Tail(s) \in Spill
            \/ Head(s) = "enterIf" /\ Tail(s) = <<>>
      BY <1>9, <2>1 DEF Spill
    <2>3. QED
      BY <2>1, <2>2, Zenon DEF Inside, Outside
  <1>10. CASE s = <<"lockEvent", "wait", "unlockEvent", "enterIf">>
    <2>1. /\ Head(s) = "lockEvent" /\ s # <<>> /\ Head(Tail(s)) = "wait"
          /\ Tail(s) = <<"wait", "unlockEvent", "enterIf">>
      BY <1>10
    <2>2. s \in Spill =>
            \/ Head(s) = "unlockTable" /\ Tail(s) \in Spill
            \/ Head(s) = "enterIf" /\ Tail(s) = <<>>
      BY <1>10, <2>1 DEF Spill
    <2>3. QED
      BY <2>1, <2>2, Zenon DEF Inside, Outside
  <1>11. CASE s = <<"wait", "unlockEvent", "enterIf">>
    <2>1. /\ Head(s) = "wait" /\ s # <<>> /\ Head(Tail(s)) = "unlockEvent"
          /\ Tail(s) = <<"unlockEvent", "enterIf">>
      BY <1>11
    <2>2. s \in Spill =>
            \/ Head(s) = "unlockTable" /\ Tail(s) \in Spill
            \/ Head(s) = "enterIf" /\ Tail(s) = <<>>
      BY <1>11, <2>1 DEF Spill
    <2>3. QED
      BY <2>1, <2>2, Zenon DEF Inside, Outside
  <1>12. CASE s = <<"unlockEvent", "enterIf">>
    <2>1. /\ Head(s) = "unlockEvent" /\ s # <<>> /\ Head(Tail(s)) = "enterIf"
          /\ Tail(s) = <<"enterIf">>
      BY <1>12
    <2>2. s \in Spill =>
            \/ Head(s) = "unlockTable" /\ Tail(s) \in Spill
            \/ Head(s) = "enterIf" /\ Tail(s) = <<>>
      BY <1>12, <2>1 DEF Spill
    <2>3. QED
      BY <2>1, <2>2, Zenon DEF Inside, Outside
  <1>13. CASE s = <<"lockEvent", "post", "unlockEvent", "enterIf">>
    <2>1. /\ Head(s) = "lockEvent" /\ s # <<>> /\ Head(Tail(s)) = "post"
          /\ Tail(s) = <<"post", "unlockEvent", "enterIf">>
      BY <1>13
    <2>2. s \in Spill =>
            \/ Head(s) = "unlockTable" /\ Tail(s) \in Spill
            \/ Head(s) = "enterIf" /\ Tail(s) = <<>>
      BY <1>13, <2>1 DEF Spill
    <2>3. QED
      BY <2>1, <2>2, Zenon DEF Inside, Outside
  <1>14. CASE s = <<"post", "unlockEvent", "enterIf">>
    <2>1. /\ Head(s) = "post" /\ s # <<>> /\ Head(Tail(s)) = "unlockEvent"
          /\ Tail(s) = <<"unlockEvent", "enterIf">>
      BY <1>14
    <2>2. s \in Spill =>
            \/ Head(s) = "unlockTable" /\ Tail(s) \in Spill
            \/ Head(s) = "enterIf" /\ Tail(s) = <<>>
      BY <1>14, <2>1 DEF Spill
    <2>3. QED
      BY <2>1, <2>2, Zenon DEF Inside, Outside
  <1>15. CASE s = <<"lockTable", "create", "unlockTable", "enterIf", "setHandle">>
    <2>1. /\ Head(s) = "lockTable" /\ s # <<>> /\ Head(Tail(s)) = "create"
          /\ Tail(s) = <<"create", "unlockTable", "enterIf", "setHandle">>
      BY <1>15
    <2>2. s \in Spill =>
            \/ Head(s) = "unlockTable" /\ Tail(s) \in Spill
            \/ Head(s) = "enterIf" /\ Tail(s) = <<>>
      BY <1>15, <2>1 DEF Spill
    <2>3. QED
      BY <2>1, <2>2, Zenon DEF Inside, Outside
  <1>16. CASE s = <<"create", "unlockTable", "enterIf", "setHandle">>
    <2>1. /\ Head(s) = "create" /\ s # <<>> /\ Head(Tail(s)) = "unlockTable"
          /\ Tail(s) = <<"unlockTable", "enterIf", "setHandle">>
      BY <1>16
    <2>2. s \in Spill =>
            \/ Head(s) = "unlockTable" /\ Tail(s) \in Spill
            \/ Head(s) = "enterIf" /\ Tail(s) = <<>>
      BY <1>16, <2>1 DEF Spill
    <2>3. QED
      BY <2>1, <2>2, Zenon DEF Inside, Outside
  <1>17. CASE s = <<"unlockTable", "enterIf", "setHandle">>
    <2>1. /\ Head(s) = "unlockTable" /\ s # <<>> /\ Head(Tail(s)) = "enterIf"
          /\ Tail(s) = <<"enterIf", "setHandle">>
      BY <1>17
    <2>2. s \in Spill =>
            \/ Head(s) = "unlockTable" /\ Tail(s) \in Spill
            \/ Head(s) = "enterIf" /\ Tail(s) = <<>>
      BY <1>17, <2>1 DEF Spill
    <2>3. QED
      BY <2>1, <2>2, Zenon DEF Inside, Outside
  <1>18. CASE s = <<"enterIf", "setHandle">>
    <2>1. /\ Head(s) = "enterIf" /\ s # <<>> /\ Head(Tail(s)) = "setHandle"
          /\ Tail(s) = <<"setHandle">>
      BY <1>18
    <2>2. s \in Spill =>
            \/ Head(s) = "unlockTable" /\ Tail(s) \in Spill
            \/ Head(s) = "enterIf" /\ Tail(s) = <<>>
      BY <1>18, <2>1 DEF Spill
    <2>3. QED
      BY <2>1, <2>2, Zenon DEF Inside, Outside
  <1>19. QED
    BY <1>1, <1>2, <1>3, <1>4, <1>5, <1>6, <1>7, <1>8, <1>9, <1>10, <1>11, <1>12,
       <1>13, <1>14, <1>15, <1>16, <1>17, <1>18 DEF Outside

LEMMA SelectingNext ==
    ASSUME NEW s \in Selecting
    PROVE  /\ s # <<>>
           /\ Head(s) \in {"outside", "enter"}
           /\ Head(s) = "outside" => Tail(s) \in Selecting
           /\ Head(s) = "enter" => Tail(s) = <<>>
  <1>1. CASE s = <<"outside", "enter">>
    <2>1. Head(s) = "outside" /\ Tail(s) = <<"enter">> /\ s # <<>>
      BY <1>1
    <2>2. QED
      BY <2>1, Zenon DEF Selecting
  <1>2. CASE s = <<"enter">>
    <2>1. Head(s) = "enter" /\ Tail(s) = <<>> /\ s # <<>>
      BY <1>2
    <2>2. QED
      BY <2>1, Zenon DEF Selecting
  <1>3. QED
    BY <1>1, <1>2 DEF Selecting

LEMMA RestNext ==
    ASSUME NEW s \in Rests
    PROVE  s # <<>> => Tail(s) \in Rests
  <1>1. <<"setHandle">> \in Whole
    BY DEF Whole
  <1>2. CASE s \in Whole
    BY <1>2, WholeNext, Zenon DEF Rests
  <1>3. CASE s \in Inside
    BY <1>3, InsideNext, Zenon DEF Rests
  <1>4. CASE s \in Outside
    BY <1>1, <1>4, OutsideNext, Zenon DEF Rests
  <1>5. CASE s \in Selecting
    BY <1>5, SelectingNext, Zenon DEF Rests
  <1>6. QED
    BY <1>2, <1>3, <1>4, <1>5 DEF Rests

LEMMA BodyWhole ==
    ASSUME NEW c \in CallNames
    PROVE  Body[c] \in Whole
  BY DEF Body, CallNames, Whole

LEMMA BodyHead ==
    ASSUME NEW c \in CallNames, Head(Body[c]) = "leave"
    PROVE  c = "select"
  BY DEF Body, CallNames

\* The rests of the calls that return early.
LEMMA EarlyRests ==
    /\ <<"leaveUnless">> \in Inside
    /\ <<"setHandle">> \in Whole /\ Head(<<"setHandle">>) = "setHandle"
    /\ <<"unlockTable", "enterIf">> \in Outside \cap Spill
    /\ <<"unlockTable", "enterIf">> # <<>> /\ Head(<<"unlockTable", "enterIf">>) = "unlockTable"
  BY DEF Whole, Inside, Outside, Spill

\* A lock is followed by work under it, and the work by the unlock.
LockFollows(s) ==
    /\ Head(s) = "lockTable" =>
        Tail(s) # <<>> /\ Head(Tail(s)) \in {"tableWork", "allocate", "create"}
    /\ Head(s) \in {"tableWork", "allocate", "create"} =>
        Tail(s) # <<>> /\ Head(Tail(s)) = "unlockTable"
    /\ Head(s) = "lockEvent" => Tail(s) # <<>> /\ Head(Tail(s)) \in {"wait", "post"}
    /\ Head(s) \in {"wait", "post"} => Tail(s) # <<>> /\ Head(Tail(s)) = "unlockEvent"

LEMMA LockNext ==
    ASSUME NEW s \in Rests, s # <<>>
    PROVE  LockFollows(s)
  <1>1. CASE s \in Whole
    BY <1>1, WholeNext DEF LockFollows
  <1>2. CASE s \in Inside
    BY <1>2, InsideNext DEF LockFollows
  <1>3. CASE s \in Outside
    <2>1. Tail(s) \in Outside => Tail(s) # <<>>
      BY OutsideNext
    <2>2. QED
      BY <1>3, <2>1, OutsideNext DEF LockFollows
  <1>4. CASE s \in Selecting
    BY <1>4, SelectingNext DEF LockFollows
  <1>5. QED
    BY <1>1, <1>2, <1>3, <1>4 DEF Rests

LEMMA BodyType ==
    ASSUME NEW c \in CallNames
    PROVE  Body[c] \in Seq(Steps)
  <1>1. Body["serve"] \in Seq(Steps)
    BY DEF Body, Steps, CallNames
  <1>2. Body["deliver"] \in Seq(Steps)
    BY DEF Body, Steps, CallNames
  <1>3. Body["callback"] \in Seq(Steps)
    BY DEF Body, Steps, CallNames
  <1>4. Body["table"] \in Seq(Steps)
    BY DEF Body, Steps, CallNames
  <1>5. Body["map"] \in Seq(Steps)
    BY DEF Body, Steps, CallNames
  <1>6. Body["wait"] \in Seq(Steps)
    BY DEF Body, Steps, CallNames
  <1>7. Body["post"] \in Seq(Steps)
    BY DEF Body, Steps, CallNames
  <1>8. Body["spawn"] \in Seq(Steps)
    BY DEF Body, Steps, CallNames
  <1>9. Body["select"] \in Seq(Steps)
    BY DEF Body, Steps, CallNames
  <1>10. QED
    BY <1>1, <1>2, <1>3, <1>4, <1>5, <1>6, <1>7, <1>8, <1>9 DEF CallNames

LEMMA EarlyType ==
    /\ <<>> \in Seq(Steps) /\ <<"leaveUnless">> \in Seq(Steps)
    /\ <<"unlockTable", "enterIf">> \in Seq(Steps)
  BY DEF Steps

LEMMA DoneType ==
    ASSUME TypeOK, NEW t \in Threads, InCall(t), Done(t)
    PROVE  todo' \in [Threads -> Seq(Steps)] /\ at' \in [Threads -> Ats]
  <1>1. Tail(todo[t]) \in Seq(Steps)
    BY DEF TypeOK, InCall
  <1>2. QED
    BY <1>1 DEF TypeOK, Done, Ats

LEMMA ReturnType ==
    ASSUME TypeOK, NEW t \in Threads, NEW s \in Seq(Steps), ReturnBy(t, s)
    PROVE  todo' \in [Threads -> Seq(Steps)] /\ at' \in [Threads -> Ats]
  BY DEF TypeOK, ReturnBy, Ats

LEMMA CallStepType ==
    ASSUME TypeOK, NEW t \in Threads, NEW s \in Seq(Steps),
           todo' = [todo EXCEPT ![t] = s]
    PROVE  todo' \in [Threads -> Seq(Steps)]
  BY DEF TypeOK

LEMMA GoOnType ==
    ASSUME TypeOK, NEW t \in Threads, NEW a \in Ats, GoOn(t, a)
    PROVE  todo' \in [Threads -> Seq(Steps)] /\ at' \in [Threads -> Ats]
  BY DEF TypeOK, GoOn

LEMMA SaveType ==
    ASSUME TypeOK, NEW t \in Threads, NEW b \in BOOLEAN, Save(t, b)
    PROVE  in' \in [Threads -> BOOLEAN]
  BY DEF TypeOK, Save

LEMMA SaveKeeps ==
    ASSUME TypeOK, NEW t \in Threads, NEW b \in BOOLEAN, Save(t, b)
    PROVE  \A u \in Threads \ {t} : in'[u] = in[u]
  BY DEF TypeOK, Save

-----------------------------------------------------------------------------
LEMMA PlaceType ==
    ASSUME TypeOK, NEW t \in Threads, ThreadStep(t)
    PROVE  todo' \in [Threads -> Seq(Steps)] /\ at' \in [Threads -> Ats]
  <1>1. CASE Skip(t)
    BY <1>1, DoneType, GoOnType DEF Skip, Entering, Leaving, InCall, Ats
  <1>2. CASE TestHeld(t)
    BY <1>2, DoneType, GoOnType DEF TestHeld, Entering, Leaving, InCall, Ats
  <1>3. CASE TestHolder(t)
    BY <1>3, DoneType, GoOnType DEF TestHolder, Entering, Leaving, InCall, Ats
  <1>4. CASE MonitorMutex(t)
    BY <1>4, DoneType, GoOnType DEF MonitorMutex, Entering, InCall, Ats
  <1>5. CASE SetHolder(t)
    BY <1>5, DoneType, GoOnType DEF SetHolder, Entering, InCall, Ats
  <1>6. CASE SetHeld(t)
    BY <1>6, DoneType, GoOnType DEF SetHeld, Entering, InCall, Ats
  <1>7. CASE MonitorUnlock(t)
    BY <1>7, DoneType, GoOnType DEF MonitorUnlock, Leaving, InCall, Ats
  <1>8. CASE Acquire(t)
    BY <1>8, DoneType, GoOnType DEF Acquire, InCall, Ats
  <1>9. CASE Release(t)
    BY <1>9, DoneType, GoOnType DEF Release, InCall, Ats
  <1>10. CASE Work(t)
    BY <1>10, DoneType, GoOnType DEF Work, InCall, Ats
  <1>11. CASE Find(t)
    BY <1>11, DoneType, ReturnType, EarlyType DEF Find, At, InCall, Ats
  <1>12. CASE Allocate(t)
    BY <1>12, DoneType, ReturnType, EarlyType DEF Allocate, At, InCall, Ats
  <1>13. CASE Malloc(t)
    BY <1>13, DoneType, ReturnType, EarlyType DEF Malloc, At, InCall, Ats
  <1>14. CASE WaitTest(t)
    BY <1>14, DoneType, GoOnType DEF WaitTest, At, InCall, Ats
  <1>15. CASE Wake(t)
    BY <1>15 DEF Wake, callVars, TypeOK, Ats
  <1>16. CASE WaitReturn(t)
    BY <1>16, DoneType, GoOnType DEF WaitReturn, At, InCall, Ats
  <1>17. CASE Post(t)
    BY <1>17, DoneType, GoOnType DEF Post, At, InCall, Ats
  <1>18. CASE Create(t)
    BY <1>18, DoneType, GoOnType DEF Create, At, InCall, Ats
  <1>19. CASE SetHandle(t)
    BY <1>19, DoneType, GoOnType DEF SetHandle, At, InCall, Ats
  <1>20. QED
    BY <1>1, <1>2, <1>3, <1>4, <1>5, <1>6, <1>7, <1>8, <1>9, <1>10, <1>11, <1>12,
       <1>13, <1>14, <1>15, <1>16, <1>17, <1>18, <1>19
       DEF ThreadStep

LEMMA FlagType ==
    ASSUME TypeOK, NEW t \in Threads, ThreadStep(t)
    PROVE  in' \in [Threads -> BOOLEAN] /\ was' \in [Threads -> BOOLEAN]
  BY SaveType
     DEF TypeOK, callVars, ThreadStep, Skip, TestHeld, TestHolder, MonitorMutex,
         SetHolder, SetHeld, MonitorUnlock, Acquire, Release, Work, Find, Allocate,
         Malloc, WaitTest, Wake, WaitReturn, Post, Create, SetHandle

LEMMA MonitorType ==
    ASSUME TypeOK, NEW t \in Threads, ThreadStep(t)
    PROVE  /\ owner' \in [Locks -> Threads \cup {None}]
           /\ held' \in BOOLEAN /\ holder' \in Threads \cup {None}
  BY ZenonT(60) DEF TypeOK, Locks, monVars, LockOf, ThreadStep, Skip, TestHeld, TestHolder,
     MonitorMutex, SetHolder, SetHeld, MonitorUnlock, Acquire, Release, Work, Find,
     Allocate, Malloc, WaitTest, Wake, WaitReturn, Post, Create, SetHandle

LEMMA EventType ==
    ASSUME TypeOK, NEW t \in Threads, ThreadStep(t)
    PROVE  /\ isSet' \in BOOLEAN /\ firstPost' \in BOOLEAN
           /\ sleepers' \subseteq Threads /\ clear' \in [Threads -> BOOLEAN]
  BY DEF TypeOK, eventVars, ThreadStep, Skip, TestHeld, TestHolder, MonitorMutex,
     SetHolder, SetHeld, MonitorUnlock, Acquire, Release, Work, Find, Allocate,
     Malloc, WaitTest, Wake, WaitReturn, Post, Create, SetHandle

LEMMA ChildType ==
    ASSUME TypeOK, NEW t \in Threads, ThreadStep(t)
    PROVE  /\ child' \in {"none", "created", "running"}
           /\ known' \in BOOLEAN /\ leaked' \in BOOLEAN
  BY DEF TypeOK, childVars, ThreadStep, Skip, TestHeld, TestHolder, MonitorMutex,
     SetHolder, SetHeld, MonitorUnlock, Acquire, Release, Work, Find, Allocate,
     Malloc, WaitTest, Wake, WaitReturn, Post, Create, SetHandle

LEMMA TypeStep == TypeOK /\ [Next]_vars => TypeOK'
  <1> SUFFICES ASSUME TypeOK, [Next]_vars PROVE TypeOK'
    OBVIOUS
  <1>1. ASSUME NEW t \in Threads, ThreadStep(t) PROVE TypeOK'
    <2>1. /\ todo' \in [Threads -> Seq(Steps)] /\ at' \in [Threads -> Ats]
          /\ in' \in [Threads -> BOOLEAN] /\ was' \in [Threads -> BOOLEAN]
      BY <1>1, PlaceType, FlagType
    <2>2. QED
      BY <1>1, <2>1, MonitorType, EventType, ChildType DEF TypeOK
  <1>2. ASSUME NEW t \in Threads, NEW c \in CallNames, Call(t, c) PROVE TypeOK'
    <2>1. todo' \in [Threads -> Seq(Steps)]
      BY <1>2, BodyType, CallStepType DEF Call
    <2>2. /\ at' \in [Threads -> Ats] /\ in' \in [Threads -> BOOLEAN]
          /\ was' \in [Threads -> BOOLEAN]
      BY <1>2 DEF TypeOK, Call, InMonitor
    <2>3. QED
      BY <1>2, <2>1, <2>2 DEF TypeOK, Call, monVars, eventVars, childVars
  <1>3. ASSUME ChildStart \/ ChildExit PROVE TypeOK'
    BY <1>3 DEF TypeOK, ChildStart, ChildExit, monVars, eventVars, callVars
  <1>4. ASSUME UNCHANGED vars PROVE TypeOK'
    BY <1>4 DEF TypeOK, vars, monVars, eventVars, childVars, callVars
  <1>5. QED
    BY <1>1, <1>2, <1>3, <1>4 DEF Next

-----------------------------------------------------------------------------
LEMMA PlaceStep == TypeOK /\ PlaceInv /\ [Next]_vars => PlaceInv'
  <1> SUFFICES ASSUME TypeOK /\ PlaceInv, [Next]_vars PROVE PlaceInv'
    OBVIOUS
  <1> USE ThreadAssumption
  <1>1. ASSUME NEW t \in Threads, Skip(t) PROVE PlaceInv'
    <2>1. todo[t] # <<>> => Tail(todo[t]) \in Rests
      BY RestNext DEF PlaceInv
    <2>2. QED
      BY <1>1, <2>1
         DEF TypeOK, PlaceInv, Skip, Done, Entering, Leaving, InCall, vars, monVars,
             eventVars, childVars, callVars
  <1>2. ASSUME NEW t \in Threads, TestHeld(t) PROVE PlaceInv'
    <2>1. todo[t] # <<>> => Tail(todo[t]) \in Rests
      BY RestNext DEF PlaceInv
    <2>2. Entering(t) \/ Leaving(t)
      BY <1>2 DEF TestHeld
    <2>3. \A u \in Threads \ {t} : in'[u] = in[u]
      <3>1. in' = in \/ Save(t, TRUE) \/ Save(t, FALSE)
        BY <1>2 DEF TestHeld
      <3>2. QED
        BY <3>1, SaveKeeps DEF TypeOK
    <2>4. CASE held
      <3>1. GoOn(t, "holder") /\ InCall(t) /\ in' = in
        BY <1>2, <2>4 DEF TestHeld, Entering, Leaving
      <3>2. QED
        BY <2>1, <2>2, <2>3, <2>4, <3>1
           DEF TypeOK, PlaceInv, Done, GoOn, Entering, Leaving, InCall
    <2>5. CASE ~held /\ Entering(t)
      <3>1. GoOn(t, "mutex") /\ InCall(t) /\ in' = in
        BY <1>2, <2>5 DEF TestHeld, Entering, Leaving
      <3>2. QED
        BY <2>1, <2>2, <2>3, <2>5, <3>1
           DEF TypeOK, PlaceInv, Done, GoOn, Entering, Leaving, InCall
    <2>6. CASE ~held /\ ~Entering(t)
      <3>1. Done(t) /\ InCall(t)
        BY <1>2, <2>6 DEF TestHeld, Entering, Leaving
      <3>2. QED
        BY <2>1, <2>2, <2>3, <2>6, <3>1
           DEF TypeOK, PlaceInv, Done, GoOn, Entering, Leaving, InCall
    <2>7. QED
      BY <2>4, <2>5, <2>6
  <1>3. ASSUME NEW t \in Threads, TestHolder(t) PROVE PlaceInv'
    <2>1. todo[t] # <<>> => Tail(todo[t]) \in Rests
      BY RestNext DEF PlaceInv
    <2>2. Entering(t) \/ Leaving(t)
      BY <1>3 DEF TestHolder
    <2>3. \A u \in Threads \ {t} : in'[u] = in[u]
      <3>1. in' = in \/ Save(t, TRUE) \/ Save(t, FALSE)
        BY <1>3 DEF TestHolder
      <3>2. QED
        BY <3>1, SaveKeeps DEF TypeOK
    <2>4. CASE holder = t /\ Entering(t)
      <3>1. Done(t) /\ InCall(t)
        BY <1>3, <2>4 DEF TestHolder, Entering, Leaving
      <3>2. QED
        BY <2>1, <2>2, <2>3, <2>4, <3>1
           DEF TypeOK, PlaceInv, Done, GoOn, Entering, Leaving, InCall
    <2>5. CASE holder = t /\ ~Entering(t)
      <3>1. GoOn(t, "unlock") /\ InCall(t) /\ in' = in
        BY <1>3, <2>5 DEF TestHolder, Entering, Leaving
      <3>2. QED
        BY <2>1, <2>2, <2>3, <2>5, <3>1
           DEF TypeOK, PlaceInv, Done, GoOn, Entering, Leaving, InCall
    <2>6. CASE holder # t /\ Entering(t)
      <3>1. GoOn(t, "mutex") /\ InCall(t) /\ in' = in
        BY <1>3, <2>6 DEF TestHolder, Entering, Leaving
      <3>2. QED
        BY <2>1, <2>2, <2>3, <2>6, <3>1
           DEF TypeOK, PlaceInv, Done, GoOn, Entering, Leaving, InCall
    <2>7. CASE holder # t /\ ~Entering(t)
      <3>1. Done(t) /\ InCall(t)
        BY <1>3, <2>7 DEF TestHolder, Entering, Leaving
      <3>2. QED
        BY <2>1, <2>2, <2>3, <2>7, <3>1
           DEF TypeOK, PlaceInv, Done, GoOn, Entering, Leaving, InCall
    <2>8. QED
      BY <2>4, <2>5, <2>6, <2>7
  <1>4. ASSUME NEW t \in Threads, MonitorMutex(t) PROVE PlaceInv'
    <2>1. todo[t] # <<>> => Tail(todo[t]) \in Rests
      BY RestNext DEF PlaceInv
    <2>2. QED
      BY <1>4, <2>1
         DEF TypeOK, PlaceInv, MonitorMutex, GoOn, InCall, vars, monVars, eventVars,
             childVars, callVars, Entering, Leaving
  <1>5. ASSUME NEW t \in Threads, SetHolder(t) PROVE PlaceInv'
    <2>1. todo[t] # <<>> => Tail(todo[t]) \in Rests
      BY RestNext DEF PlaceInv
    <2>2. QED
      BY <1>5, <2>1
         DEF TypeOK, PlaceInv, SetHolder, GoOn, InCall, vars, monVars, eventVars,
             childVars, callVars, Entering, Leaving
  <1>6. ASSUME NEW t \in Threads, SetHeld(t) PROVE PlaceInv'
    <2>1. todo[t] # <<>> => Tail(todo[t]) \in Rests
      BY RestNext DEF PlaceInv
    <2>2. QED
      BY <1>6, <2>1
         DEF TypeOK, PlaceInv, SetHeld, Done, Save, InCall, vars, monVars,
             eventVars, childVars, callVars, Entering, Leaving
  <1>7. ASSUME NEW t \in Threads, MonitorUnlock(t) PROVE PlaceInv'
    <2>1. todo[t] # <<>> => Tail(todo[t]) \in Rests
      BY RestNext DEF PlaceInv
    <2>2. QED
      BY <1>7, <2>1
         DEF TypeOK, PlaceInv, MonitorUnlock, Done, Save, Leaving, InCall, vars,
             monVars, eventVars, childVars, callVars, Entering, Leaving
  <1>8. ASSUME NEW t \in Threads, Acquire(t) PROVE PlaceInv'
    <2>1. todo[t] # <<>> => Tail(todo[t]) \in Rests
      BY RestNext DEF PlaceInv
    <2>2. QED
      BY <1>8, <2>1
         DEF TypeOK, PlaceInv, Acquire, Done, LockOf, Entering, Leaving, InCall,
             vars, monVars, eventVars, childVars, callVars
  <1>9. ASSUME NEW t \in Threads, Release(t) PROVE PlaceInv'
    <2>1. todo[t] # <<>> => Tail(todo[t]) \in Rests
      BY RestNext DEF PlaceInv
    <2>2. QED
      BY <1>9, <2>1
         DEF TypeOK, PlaceInv, Release, Done, LockOf, Entering, Leaving, InCall,
             vars, monVars, eventVars, childVars, callVars
  <1>10. ASSUME NEW t \in Threads, Work(t) PROVE PlaceInv'
    <2>1. todo[t] # <<>> => Tail(todo[t]) \in Rests
      BY RestNext DEF PlaceInv
    <2>2. QED
      BY <1>10, <2>1
         DEF TypeOK, PlaceInv, Work, Done, Entering, Leaving, InCall, vars, monVars,
             eventVars, childVars, callVars
  <1>11. ASSUME NEW t \in Threads, Find(t) PROVE PlaceInv'
    <2>1. todo[t] # <<>> => Tail(todo[t]) \in Rests
      BY RestNext DEF PlaceInv
    <2>2. /\ <<"leaveUnless">> \in Rests /\ <<"unlockTable", "enterIf">> \in Rests
          /\ <<>> \in Rests
      BY EarlyRests DEF Rests
    <2>3. QED
      BY ZenonT(60), <1>11, <2>1, <2>2
         DEF TypeOK, PlaceInv, Find, At, Done, ReturnBy, InCall, vars, monVars,
             eventVars, childVars, callVars, Entering, Leaving
  <1>12. ASSUME NEW t \in Threads, Allocate(t) PROVE PlaceInv'
    <2>1. todo[t] # <<>> => Tail(todo[t]) \in Rests
      BY RestNext DEF PlaceInv
    <2>2. /\ <<"leaveUnless">> \in Rests /\ <<"unlockTable", "enterIf">> \in Rests
          /\ <<>> \in Rests
      BY EarlyRests DEF Rests
    <2>3. QED
      BY ZenonT(60), <1>12, <2>1, <2>2
         DEF TypeOK, PlaceInv, Allocate, At, Done, ReturnBy, InCall, vars, monVars,
             eventVars, childVars, callVars, Entering, Leaving
  <1>13. ASSUME NEW t \in Threads, Malloc(t) PROVE PlaceInv'
    <2>1. todo[t] # <<>> => Tail(todo[t]) \in Rests
      BY RestNext DEF PlaceInv
    <2>2. /\ <<"leaveUnless">> \in Rests /\ <<"unlockTable", "enterIf">> \in Rests
          /\ <<>> \in Rests
      BY EarlyRests DEF Rests
    <2>3. QED
      BY ZenonT(60), <1>13, <2>1, <2>2
         DEF TypeOK, PlaceInv, Malloc, At, Done, ReturnBy, InCall, vars, monVars,
             eventVars, childVars, callVars, Entering, Leaving
  <1>14. ASSUME NEW t \in Threads, WaitTest(t) PROVE PlaceInv'
    <2>1. todo[t] # <<>> => Tail(todo[t]) \in Rests
      BY RestNext DEF PlaceInv
    <2>2. QED
      BY ZenonT(60), <1>14, <2>1
         DEF TypeOK, PlaceInv, WaitTest, At, Done, GoOn, InCall, vars, monVars,
             eventVars, childVars, callVars, Entering, Leaving
  <1>15. ASSUME NEW t \in Threads, Wake(t) PROVE PlaceInv'
    <2>1. todo[t] # <<>> => Tail(todo[t]) \in Rests
      BY RestNext DEF PlaceInv
    <2>2. QED
      BY <1>15, <2>1
         DEF TypeOK, PlaceInv, Wake, InCall, vars, monVars, eventVars, childVars,
             callVars, Entering, Leaving
  <1>16. ASSUME NEW t \in Threads, WaitReturn(t) PROVE PlaceInv'
    <2>1. todo[t] # <<>> => Tail(todo[t]) \in Rests
      BY RestNext DEF PlaceInv
    <2>2. QED
      BY <1>16, <2>1
         DEF TypeOK, PlaceInv, WaitReturn, At, Done, InCall, vars, monVars,
             eventVars, childVars, callVars, Entering, Leaving
  <1>17. ASSUME NEW t \in Threads, Post(t) PROVE PlaceInv'
    <2>1. todo[t] # <<>> => Tail(todo[t]) \in Rests
      BY RestNext DEF PlaceInv
    <2>2. QED
      BY <1>17, <2>1
         DEF TypeOK, PlaceInv, Post, At, Done, InCall, vars, monVars, eventVars,
             childVars, callVars, Entering, Leaving
  <1>18. ASSUME NEW t \in Threads, Create(t) PROVE PlaceInv'
    <2>1. todo[t] # <<>> => Tail(todo[t]) \in Rests
      BY RestNext DEF PlaceInv
    <2>2. QED
      BY <1>18, <2>1
         DEF TypeOK, PlaceInv, Create, At, Done, InCall, vars, monVars, eventVars,
             childVars, callVars, Entering, Leaving
  <1>19. ASSUME NEW t \in Threads, SetHandle(t) PROVE PlaceInv'
    <2>1. todo[t] # <<>> => Tail(todo[t]) \in Rests
      BY RestNext DEF PlaceInv
    <2>2. QED
      BY <1>19, <2>1
         DEF TypeOK, PlaceInv, SetHandle, At, Done, InCall, vars, monVars,
             eventVars, childVars, callVars, Entering, Leaving
  <1>20. ASSUME NEW t \in Threads, NEW c \in CallNames, Call(t, c) PROVE PlaceInv'
    <2>1. Body[c] \in Rests
      BY BodyWhole DEF Rests
    <2>2. QED
      BY <1>20, <2>1
         DEF TypeOK, PlaceInv, Call, InCall, vars, monVars, eventVars, childVars,
             callVars, Entering, Leaving
  <1>21. ASSUME ChildStart PROVE PlaceInv'
    BY <1>21
       DEF TypeOK, PlaceInv, ChildStart, InCall, vars, monVars, eventVars,
           childVars, callVars, Entering, Leaving
  <1>22. ASSUME ChildExit PROVE PlaceInv'
    BY <1>22
       DEF TypeOK, PlaceInv, ChildExit, InCall, vars, monVars, eventVars, childVars,
           callVars, Entering, Leaving
  <1>23. ASSUME UNCHANGED vars PROVE PlaceInv'
    BY <1>23
       DEF TypeOK, PlaceInv, InCall, vars, monVars, eventVars, childVars, callVars,
           Entering, Leaving
  <1>24. QED
    BY <1>1, <1>2, <1>3, <1>4, <1>5, <1>6, <1>7, <1>8, <1>9, <1>10, <1>11, <1>12,
       <1>13, <1>14, <1>15, <1>16, <1>17, <1>18, <1>19, <1>20, <1>21, <1>22, <1>23
       DEF Next, ThreadStep

-----------------------------------------------------------------------------
LEMMA MonitorStep == TypeOK /\ PlaceInv /\ MonitorInv /\ [Next]_vars => MonitorInv'
  <1> SUFFICES ASSUME TypeOK /\ PlaceInv /\ MonitorInv, [Next]_vars PROVE MonitorInv'
    OBVIOUS
  <1> USE ThreadAssumption
  <1>1. ASSUME NEW t \in Threads, Skip(t) PROVE MonitorInv'
    BY ZenonT(60), <1>1
       DEF TypeOK, PlaceInv, MonitorInv, InMonitor, Changing, Locks, Skip, Done,
           Entering, Leaving, InCall, vars, monVars, eventVars, childVars, callVars
  <1>2. ASSUME NEW t \in Threads, TestHeld(t) PROVE MonitorInv'
    BY <1>2
       DEF TypeOK, PlaceInv, MonitorInv, InMonitor, Changing, Locks, TestHeld, Done,
           GoOn, Save, Entering, Leaving, InCall, vars, monVars, eventVars,
           childVars, callVars
  <1>3. ASSUME NEW t \in Threads, TestHolder(t) PROVE MonitorInv'
    BY <1>3
       DEF TypeOK, PlaceInv, MonitorInv, InMonitor, Changing, Locks, TestHolder,
           Done, GoOn, Save, Entering, Leaving, InCall, vars, monVars, eventVars,
           childVars, callVars
  <1>4. ASSUME NEW t \in Threads, MonitorMutex(t) PROVE MonitorInv'
    BY <1>4
       DEF TypeOK, PlaceInv, MonitorInv, InMonitor, Changing, Locks, MonitorMutex,
           GoOn, Entering, InCall, vars, monVars, eventVars, childVars, callVars
  <1>5. ASSUME NEW t \in Threads, SetHolder(t) PROVE MonitorInv'
    BY <1>5
       DEF TypeOK, PlaceInv, MonitorInv, InMonitor, Changing, Locks, SetHolder,
           GoOn, Entering, InCall, vars, monVars, eventVars, childVars, callVars
  <1>6. ASSUME NEW t \in Threads, SetHeld(t) PROVE MonitorInv'
    BY <1>6
       DEF TypeOK, PlaceInv, MonitorInv, InMonitor, Changing, Locks, SetHeld, Done,
           Save, Entering, InCall, vars, monVars, eventVars, childVars, callVars
  <1>7. ASSUME NEW t \in Threads, MonitorUnlock(t) PROVE MonitorInv'
    BY <1>7
       DEF TypeOK, PlaceInv, MonitorInv, InMonitor, Changing, Locks, MonitorUnlock,
           Done, Save, Leaving, InCall, vars, monVars, eventVars, childVars,
           callVars
  <1>8. ASSUME NEW t \in Threads, Acquire(t) PROVE MonitorInv'
    BY ZenonT(60), <1>8
       DEF TypeOK, PlaceInv, MonitorInv, InMonitor, Changing, Locks, Acquire, Done,
           LockOf, Entering, Leaving, InCall, vars, monVars, eventVars, childVars,
           callVars
  <1>9. ASSUME NEW t \in Threads, Release(t) PROVE MonitorInv'
    BY ZenonT(60), <1>9
       DEF TypeOK, PlaceInv, MonitorInv, InMonitor, Changing, Locks, Release, Done,
           LockOf, Entering, Leaving, InCall, vars, monVars, eventVars, childVars,
           callVars
  <1>10. ASSUME NEW t \in Threads, Work(t) PROVE MonitorInv'
    BY ZenonT(60), <1>10
       DEF TypeOK, PlaceInv, MonitorInv, InMonitor, Changing, Locks, Work, Done,
           Entering, Leaving, InCall, vars, monVars, eventVars, childVars, callVars
  <1>11. ASSUME NEW t \in Threads, Find(t) PROVE MonitorInv'
    BY <1>11
       DEF TypeOK, PlaceInv, MonitorInv, InMonitor, Changing, Locks, Find, At, Done,
           ReturnBy, InCall, vars, monVars, eventVars, childVars, callVars
  <1>12. ASSUME NEW t \in Threads, Allocate(t) PROVE MonitorInv'
    BY <1>12
       DEF TypeOK, PlaceInv, MonitorInv, InMonitor, Changing, Locks, Allocate, At,
           Done, ReturnBy, InCall, vars, monVars, eventVars, childVars, callVars
  <1>13. ASSUME NEW t \in Threads, Malloc(t) PROVE MonitorInv'
    BY <1>13
       DEF TypeOK, PlaceInv, MonitorInv, InMonitor, Changing, Locks, Malloc, At,
           Done, ReturnBy, InCall, vars, monVars, eventVars, childVars, callVars
  <1>14. ASSUME NEW t \in Threads, WaitTest(t) PROVE MonitorInv'
    BY <1>14
       DEF TypeOK, PlaceInv, MonitorInv, InMonitor, Changing, Locks, WaitTest, At,
           Done, GoOn, InCall, vars, monVars, eventVars, childVars, callVars
  <1>15. ASSUME NEW t \in Threads, Wake(t) PROVE MonitorInv'
    BY <1>15
       DEF TypeOK, PlaceInv, MonitorInv, InMonitor, Changing, Locks, Wake, InCall,
           vars, monVars, eventVars, childVars, callVars
  <1>16. ASSUME NEW t \in Threads, WaitReturn(t) PROVE MonitorInv'
    BY <1>16
       DEF TypeOK, PlaceInv, MonitorInv, InMonitor, Changing, Locks, WaitReturn, At,
           Done, InCall, vars, monVars, eventVars, childVars, callVars
  <1>17. ASSUME NEW t \in Threads, Post(t) PROVE MonitorInv'
    BY <1>17
       DEF TypeOK, PlaceInv, MonitorInv, InMonitor, Changing, Locks, Post, At, Done,
           InCall, vars, monVars, eventVars, childVars, callVars
  <1>18. ASSUME NEW t \in Threads, Create(t) PROVE MonitorInv'
    BY <1>18
       DEF TypeOK, PlaceInv, MonitorInv, InMonitor, Changing, Locks, Create, At,
           Done, InCall, vars, monVars, eventVars, childVars, callVars
  <1>19. ASSUME NEW t \in Threads, SetHandle(t) PROVE MonitorInv'
    BY <1>19
       DEF TypeOK, PlaceInv, MonitorInv, InMonitor, Changing, Locks, SetHandle, At,
           Done, InCall, vars, monVars, eventVars, childVars, callVars
  <1>20. ASSUME NEW t \in Threads, NEW c \in CallNames, Call(t, c) PROVE MonitorInv'
    BY <1>20
       DEF TypeOK, PlaceInv, MonitorInv, InMonitor, Changing, Locks, Call, InCall,
           vars, monVars, eventVars, childVars, callVars
  <1>21. ASSUME ChildStart PROVE MonitorInv'
    BY <1>21
       DEF TypeOK, PlaceInv, MonitorInv, InMonitor, Changing, Locks, ChildStart,
           InCall, vars, monVars, eventVars, childVars, callVars
  <1>22. ASSUME ChildExit PROVE MonitorInv'
    BY <1>22
       DEF TypeOK, PlaceInv, MonitorInv, InMonitor, Changing, Locks, ChildExit,
           InCall, vars, monVars, eventVars, childVars, callVars
  <1>23. ASSUME UNCHANGED vars PROVE MonitorInv'
    BY <1>23
       DEF TypeOK, PlaceInv, MonitorInv, InMonitor, Changing, Locks, InCall, vars,
           monVars, eventVars, childVars, callVars
  <1>24. QED
    BY <1>1, <1>2, <1>3, <1>4, <1>5, <1>6, <1>7, <1>8, <1>9, <1>10, <1>11, <1>12,
       <1>13, <1>14, <1>15, <1>16, <1>17, <1>18, <1>19, <1>20, <1>21, <1>22, <1>23
       DEF Next, ThreadStep

-----------------------------------------------------------------------------
LEMMA LockStep == TypeOK /\ PlaceInv /\ LockInv /\ [Next]_vars => LockInv'
  <1> SUFFICES ASSUME TypeOK /\ PlaceInv /\ LockInv, [Next]_vars PROVE LockInv'
    OBVIOUS
  <1> USE ThreadAssumption
  <1>1. ASSUME NEW t \in Threads, Skip(t) PROVE LockInv'
    BY <1>1
       DEF TypeOK, PlaceInv, LockInv, Locks, Skip, Done, Entering, Leaving, InCall,
           vars, monVars, eventVars, childVars, callVars
  <1>2. ASSUME NEW t \in Threads, TestHeld(t) PROVE LockInv'
    <2>1. CASE held \/ Entering(t)
      <3>1. UNCHANGED <<owner, todo>> /\ at[t] = "begin" /\ at'[t] # "begin"
        BY <1>2, <2>1 DEF TestHeld, TypeOK, GoOn, monVars
      <3>2. InCall(t) /\ Head(todo[t]) \notin {"wait", "post", "unlockEvent"}
        BY <1>2 DEF TestHeld, Entering, Leaving
      <3>3. \A u \in Threads : u # t => at'[u] = at[u]
        BY <1>2, <2>1 DEF TestHeld, TypeOK, GoOn
      <3>4. QED
        BY <3>1, <3>2, <3>3 DEF LockInv, InCall
    <2>2. CASE ~held /\ ~Entering(t)
      BY <1>2, <2>2
         DEF TypeOK, LockInv, TestHeld, Done, Entering, Leaving, InCall, monVars
    <2>3. QED
      BY <2>1, <2>2
  <1>3. ASSUME NEW t \in Threads, TestHolder(t) PROVE LockInv'
    <2>1. \/ todo' = [todo EXCEPT ![t] = Tail(@)] /\ at' = [at EXCEPT ![t] = "begin"]
          \/ todo' = todo /\ \E a \in Ats : at' = [at EXCEPT ![t] = a]
      BY <1>3 DEF TestHolder, Done, GoOn, Ats
    <2>2. \A u \in Threads : u # t => at'[u] = at[u] /\ todo'[u] = todo[u]
      BY <2>1 DEF TypeOK
    <2>3. owner["table"] # t /\ owner["event"] # t
      BY <1>3 DEF TestHolder, LockInv, Entering, Leaving
    <2>4. QED
      BY <1>3, <2>2, <2>3 DEF LockInv, InCall, TestHolder
  <1>4. ASSUME NEW t \in Threads, MonitorMutex(t) PROVE LockInv'
    BY <1>4
       DEF TypeOK, PlaceInv, LockInv, Locks, MonitorMutex, GoOn, Entering, InCall,
           vars, monVars, eventVars, childVars, callVars
  <1>5. ASSUME NEW t \in Threads, SetHolder(t) PROVE LockInv'
    BY <1>5
       DEF TypeOK, PlaceInv, LockInv, Locks, SetHolder, GoOn, Entering, InCall,
           vars, monVars, eventVars, childVars, callVars
  <1>6. ASSUME NEW t \in Threads, SetHeld(t) PROVE LockInv'
    BY <1>6
       DEF TypeOK, PlaceInv, LockInv, Locks, SetHeld, Done, Save, Entering, InCall,
           vars, monVars, eventVars, childVars, callVars
  <1>7. ASSUME NEW t \in Threads, MonitorUnlock(t) PROVE LockInv'
    BY <1>7
       DEF TypeOK, PlaceInv, LockInv, Locks, MonitorUnlock, Done, Save, Leaving,
           InCall, vars, monVars, eventVars, childVars, callVars
  <1>8. ASSUME NEW t \in Threads, Acquire(t) PROVE LockInv'
    <2>1. InCall(t) => LockFollows(todo[t])
      BY LockNext DEF PlaceInv, InCall
    <2>2. QED
      BY <1>8, <2>1
         DEF LockFollows, TypeOK, PlaceInv, LockInv, Locks, Acquire, Done, LockOf,
             Entering, Leaving, InCall, vars, monVars, eventVars, childVars,
             callVars
  <1>9. ASSUME NEW t \in Threads, Release(t) PROVE LockInv'
    BY <1>9
       DEF TypeOK, PlaceInv, LockInv, Locks, Release, Done, LockOf, Entering,
           Leaving, InCall, vars, monVars, eventVars, childVars, callVars
  <1>10. ASSUME NEW t \in Threads, Work(t) PROVE LockInv'
    <2>1. InCall(t) => LockFollows(todo[t])
      BY LockNext DEF PlaceInv, InCall
    <2>2. QED
      BY <1>10, <2>1
         DEF LockFollows, TypeOK, PlaceInv, LockInv, Locks, Work, Done, Entering,
             Leaving, InCall, vars, monVars, eventVars, childVars, callVars
  <1>11. ASSUME NEW t \in Threads, Find(t) PROVE LockInv'
    BY ZenonT(60), <1>11
       DEF TypeOK, PlaceInv, LockInv, Locks, Find, At, Done, ReturnBy, InCall, vars,
           monVars, eventVars, childVars, callVars
  <1>12. ASSUME NEW t \in Threads, Allocate(t) PROVE LockInv'
    <2>1. InCall(t) => LockFollows(todo[t])
      BY LockNext DEF PlaceInv, InCall
    <2>2. QED
      BY ZenonT(60), <1>12, <2>1, EarlyRests
         DEF LockFollows, TypeOK, PlaceInv, LockInv, Locks, Allocate, At, Done,
             ReturnBy, InCall, vars, monVars, eventVars, childVars, callVars
  <1>13. ASSUME NEW t \in Threads, Malloc(t) PROVE LockInv'
    BY <1>13
       DEF TypeOK, PlaceInv, LockInv, Locks, Malloc, At, Done, ReturnBy, InCall,
           vars, monVars, eventVars, childVars, callVars
  <1>14. ASSUME NEW t \in Threads, WaitTest(t) PROVE LockInv'
    <2>1. InCall(t) => LockFollows(todo[t])
      BY LockNext DEF PlaceInv, InCall
    <2>2. CASE isSet
      BY ZenonT(60), <1>14, <2>1, <2>2
         DEF TypeOK, LockFollows, PlaceInv, LockInv, Locks, WaitTest, At, Done,
             GoOn, InCall, vars, monVars, eventVars, childVars, callVars
    <2>3. CASE ~isSet
      BY <1>14, <2>1, <2>3
         DEF TypeOK, LockFollows, PlaceInv, LockInv, Locks, WaitTest, At, Done,
             GoOn, InCall, vars, monVars, eventVars, childVars, callVars
    <2>4. QED
      BY <2>2, <2>3
  <1>15. ASSUME NEW t \in Threads, Wake(t) PROVE LockInv'
    BY <1>15
       DEF TypeOK, PlaceInv, LockInv, Locks, Wake, InCall, vars, monVars, eventVars,
           childVars, callVars
  <1>16. ASSUME NEW t \in Threads, WaitReturn(t) PROVE LockInv'
    <2>1. InCall(t) => LockFollows(todo[t])
      BY LockNext DEF PlaceInv, InCall
    <2>2. QED
      BY <1>16, <2>1
         DEF LockFollows, TypeOK, PlaceInv, LockInv, Locks, WaitReturn, At, Done,
             InCall, vars, monVars, eventVars, childVars, callVars
  <1>17. ASSUME NEW t \in Threads, Post(t) PROVE LockInv'
    <2>1. InCall(t) => LockFollows(todo[t])
      BY LockNext DEF PlaceInv, InCall
    <2>2. QED
      BY <1>17, <2>1
         DEF LockFollows, TypeOK, PlaceInv, LockInv, Locks, Post, At, Done, InCall,
             vars, monVars, eventVars, childVars, callVars
  <1>18. ASSUME NEW t \in Threads, Create(t) PROVE LockInv'
    <2>1. InCall(t) => LockFollows(todo[t])
      BY LockNext DEF PlaceInv, InCall
    <2>2. QED
      BY <1>18, <2>1
         DEF LockFollows, TypeOK, PlaceInv, LockInv, Locks, Create, At, Done,
             InCall, vars, monVars, eventVars, childVars, callVars
  <1>19. ASSUME NEW t \in Threads, SetHandle(t) PROVE LockInv'
    BY <1>19
       DEF TypeOK, PlaceInv, LockInv, Locks, SetHandle, At, Done, InCall, vars,
           monVars, eventVars, childVars, callVars
  <1>20. ASSUME NEW t \in Threads, NEW c \in CallNames, Call(t, c) PROVE LockInv'
    BY <1>20
       DEF TypeOK, PlaceInv, LockInv, Locks, Call, InCall, vars, monVars, eventVars,
           childVars, callVars
  <1>21. ASSUME ChildStart PROVE LockInv'
    BY <1>21
       DEF TypeOK, PlaceInv, LockInv, Locks, ChildStart, InCall, vars, monVars,
           eventVars, childVars, callVars
  <1>22. ASSUME ChildExit PROVE LockInv'
    BY <1>22
       DEF TypeOK, PlaceInv, LockInv, Locks, ChildExit, InCall, vars, monVars,
           eventVars, childVars, callVars
  <1>23. ASSUME UNCHANGED vars PROVE LockInv'
    BY <1>23
       DEF TypeOK, PlaceInv, LockInv, Locks, InCall, vars, monVars, eventVars,
           childVars, callVars
  <1>24. QED
    BY <1>1, <1>2, <1>3, <1>4, <1>5, <1>6, <1>7, <1>8, <1>9, <1>10, <1>11, <1>12,
       <1>13, <1>14, <1>15, <1>16, <1>17, <1>18, <1>19, <1>20, <1>21, <1>22, <1>23
       DEF Next, ThreadStep

-----------------------------------------------------------------------------
LEMMA OthersKeepPlace ==
    ASSUME TypeOK, NEW t \in Threads, ThreadStep(t)
    PROVE  \A u \in Threads \ {t} : todo'[u] = todo[u] /\ at'[u] = at[u]
  BY DEF TypeOK, Done, GoOn, ReturnBy, callVars, ThreadStep, Skip, TestHeld,
     TestHolder, MonitorMutex, SetHolder, SetHeld, MonitorUnlock, Acquire, Release,
     Work, Find, Allocate, Malloc, WaitTest, Wake, WaitReturn, Post, Create,
     SetHandle

LEMMA OthersKeepFlags ==
    ASSUME TypeOK, NEW t \in Threads, ThreadStep(t)
    PROVE  \A u \in Threads \ {t} : in'[u] = in[u] /\ was'[u] = was[u]
  BY SaveKeeps
     DEF TypeOK, callVars, ThreadStep, Skip, TestHeld, TestHolder, MonitorMutex,
         SetHolder, SetHeld, MonitorUnlock, Acquire, Release, Work, Find, Allocate,
         Malloc, WaitTest, Wake, WaitReturn, Post, Create, SetHandle

LEMMA OthersKeepMonitor ==
    ASSUME TypeOK, MonitorInv, NEW t \in Threads, ThreadStep(t)
    PROVE  \A u \in Threads \ {t} : InMonitor(u)' <=> InMonitor(u)
  BY ZenonT(60), ThreadAssumption
     DEF TypeOK, InMonitor, Locks, MonitorInv, Changing, monVars, LockOf,
         ThreadStep, Skip, TestHeld, TestHolder, MonitorMutex, SetHolder, SetHeld,
         MonitorUnlock, Acquire, Release, Work, Find, Allocate, Malloc, WaitTest,
         Wake, WaitReturn, Post, Create, SetHandle

LEMMA LeaksAndMain ==
    ASSUME TypeOK, NEW t \in Threads, ThreadStep(t)
    PROVE  (leaked => leaked') /\ was' = was
  BY DEF TypeOK, callVars, ThreadStep, Skip, TestHeld, TestHolder, MonitorMutex,
     SetHolder, SetHeld, MonitorUnlock, Acquire, Release, Work, Find, Allocate,
     Malloc, WaitTest, Wake, WaitReturn, Post, Create, SetHandle

LEMMA OthersKept ==
    ASSUME PhaseInv, NEW t \in Threads, leaked => leaked',
           \A u \in Threads \ {t} : todo'[u] = todo[u] /\ at'[u] = at[u],
           \A u \in Threads \ {t} : in'[u] = in[u] /\ was'[u] = was[u],
           \A u \in Threads \ {t} : InMonitor(u)' <=> InMonitor(u)
    PROVE  \A u \in Threads \ {t} : Phase(u)'
  BY DEF PhaseInv, Phase, Idle, AsCalled, Within, Without, InSelect, Undecided

\* A step that is neither entering nor leaving.
LEMMA DonePhase ==
    ASSUME TypeOK, NEW t \in Threads, Phase(t), InCall(t), at[t] \in {"begin", "asleep"},
           Head(todo[t]) \notin Entries \cup Exits, Done(t),
           in' = in, was' = was, InMonitor(t)' <=> InMonitor(t), leaked => leaked'
    PROVE  Phase(t)'
  <1>1. todo'[t] = Tail(todo[t]) /\ at'[t] = "begin"
    BY DEF TypeOK, Done
  <1>2. CASE AsCalled(t)
    BY <1>1, <1>2, WholeNext DEF Phase, AsCalled, Idle, Undecided, Entries, Exits
  <1>3. CASE Within(t)
    BY <1>1, <1>3, InsideNext DEF Phase, Within, Undecided, Entries, Exits
  <1>4. CASE Without(t)
    BY <1>1, <1>4, OutsideNext DEF Phase, Without, Idle, Undecided, Entries, Exits
  <1>5. CASE InSelect(t)
    BY <1>1, <1>5, SelectingNext DEF Phase, InSelect, Undecided, Entries, Exits
  <1>6. QED
    BY <1>2, <1>3, <1>4, <1>5 DEF Phase, Idle, InCall

LEMMA SaveHere ==
    ASSUME TypeOK, NEW t \in Threads, NEW b \in BOOLEAN, Save(t, b)
    PROVE  /\ Head(todo[t]) \in {"enterSave", "leaveSave"} => in'[t] = b
           /\ Head(todo[t]) \notin {"enterSave", "leaveSave"} => in'[t] = in[t]
  BY DEF TypeOK, Save

\* A step within entering or leaving.
LEMMA KeepPhase ==
    ASSUME PhaseInv, NEW t \in Threads, Undecided(t), InCall(t),
           todo'[t] = todo[t], in'[t] = in[t], was'[t] = was[t],
           InMonitor(t)' <=> InMonitor(t), leaked' = leaked,
           \/ at'[t] = "holder"
           \/ at'[t] = "mutex" /\ ~InMonitor(t)
           \/ at'[t] = "unlock" /\ InMonitor(t)
    PROVE  Phase(t)'
  BY DEF PhaseInv, Phase, Idle, AsCalled, Within, Without, InSelect, Undecided, InCall

\* The monitor is entered, or was the thread's already.
LEMMA EnteredPhase ==
    ASSUME TypeOK, PhaseInv, NEW t \in Threads, Entering(t), Done(t), InMonitor(t)',
           was' = was, leaked' = leaked,
           Head(todo[t]) = "enterSave" => (in'[t] <=> Undecided(t)) /\ (Undecided(t) => InMonitor(t)),
           Head(todo[t]) # "enterSave" => in'[t] = in[t],
           at[t] \in {"holder", "setHeld"}
    PROVE  Phase(t)'
  <1>1. todo'[t] = Tail(todo[t]) /\ at'[t] = "begin" /\ was'[t] = was[t]
    BY DEF TypeOK, Done
  <1>2. todo[t] # <<>> /\ Head(todo[t]) \in {"enter", "enterSave", "enterIf"}
    BY DEF Entering, InCall
  <1>3. CASE AsCalled(t)
    <2>1. Head(todo[t]) = "enterSave" /\ Tail(todo[t]) \in Inside
      BY <1>2, <1>3, WholeNext DEF AsCalled
    <2>2. in'[t] <=> was'[t]
      BY <1>1, <1>3, <2>1 DEF AsCalled, Undecided
    <2>3. QED
      BY <1>1, <2>1, <2>2 DEF Phase, Within
  <1>4. CASE Within(t)
    BY <1>2, <1>4, InsideNext DEF Within
  <1>5. CASE Without(t)
    <2>1. in'[t] <=> was'[t]
      BY <1>1, <1>2, <1>5, OutsideNext DEF Without
    <2>2. CASE Head(todo[t]) = "enter"
      BY <1>1, <1>5, <2>1, <2>2, OutsideNext DEF Without, Phase, Within
    <2>3. CASE Head(todo[t]) = "enterIf"
      <3>1. was[t] /\ Tail(todo[t]) \in {<<>>, <<"setHandle">>}
        BY <1>5, <2>3, OutsideNext DEF Without, Entering
      <3>2. CASE Tail(todo[t]) = <<>>
        BY <1>1, <3>1, <3>2 DEF Phase, Idle
      <3>3. CASE Tail(todo[t]) = <<"setHandle">>
        BY <1>1, <3>1, <3>3, EarlyRests DEF Phase, AsCalled, Undecided
      <3>4. QED
        BY <3>1, <3>2, <3>3
    <2>4. QED
      BY <1>2, <1>5, <2>2, <2>3, OutsideNext DEF Without
  <1>6. CASE InSelect(t)
    BY <1>1, <1>2, <1>6, SelectingNext DEF InSelect, Phase, Idle
  <1>7. QED
    BY <1>2, <1>3, <1>4, <1>5, <1>6 DEF PhaseInv, Phase, Idle

\* The monitor is left, or was not the thread's.
LEMMA LeftPhase ==
    ASSUME TypeOK, PhaseInv, NEW t \in Threads, Leaving(t), Done(t), ~InMonitor(t)',
           was' = was, leaked' = leaked,
           Head(todo[t]) = "leaveSave" => (in'[t] <=> ~Undecided(t)) /\ (Undecided(t) => ~InMonitor(t)),
           Head(todo[t]) # "leaveSave" => in'[t] = in[t],
           at[t] \in {"begin", "holder", "unlock"}
    PROVE  Phase(t)'
  <1>1. todo'[t] = Tail(todo[t]) /\ at'[t] = "begin" /\ was'[t] = was[t]
    BY DEF TypeOK, Done
  <1>2. todo[t] # <<>> /\ Head(todo[t]) \in {"leave", "leaveSave", "leaveUnless"}
    BY DEF Leaving, InCall
  <1>3. CASE AsCalled(t)
    <2>1. CASE Head(todo[t]) = "leaveSave"
      <3>1. in'[t] <=> was'[t]
        BY <1>1, <1>3, <2>1 DEF AsCalled, Undecided
      <3>2. QED
        BY <1>1, <1>3, <2>1, <3>1, WholeNext DEF AsCalled, Phase, Without
    <2>2. CASE Head(todo[t]) = "leave"
      BY <1>1, <1>3, <2>2, WholeNext DEF AsCalled, Phase, InSelect
    <2>3. QED
      BY <1>2, <1>3, <2>1, <2>2, WholeNext DEF AsCalled
  <1>4. CASE Within(t)
    <2>1. in'[t] <=> was'[t]
      BY <1>1, <1>2, <1>4, InsideNext DEF Within
    <2>2. CASE Head(todo[t]) = "leave"
      BY <1>1, <1>4, <2>1, <2>2, InsideNext DEF Within, Phase, Without
    <2>3. CASE Head(todo[t]) = "leaveUnless"
      BY <1>1, <1>4, <2>3, InsideNext DEF Within, Phase, Idle, Leaving
    <2>4. QED
      BY <1>2, <1>4, <2>2, <2>3, InsideNext DEF Within
  <1>5. CASE Without(t)
    BY <1>2, <1>5, OutsideNext DEF Without
  <1>6. CASE InSelect(t)
    BY <1>2, <1>6, SelectingNext DEF InSelect
  <1>7. QED
    BY <1>2, <1>3, <1>4, <1>5, <1>6 DEF PhaseInv, Phase, Idle

LEMMA SkipPhase ==
    ASSUME TypeOK, PlaceInv, MonitorInv, PhaseInv, NEW t \in Threads, Skip(t)
    PROVE  Phase(t)'
  <1>1. /\ todo'[t] = Tail(todo[t]) /\ at'[t] = "begin" /\ was'[t] = was[t] /\ in'[t] = in[t]
        /\ InMonitor(t)' <=> InMonitor(t)
        /\ leaked' = leaked /\ todo[t] # <<>> /\ Undecided(t)
        /\ \/ Head(todo[t]) = "enterIf" /\ ~in[t]
           \/ Head(todo[t]) = "leaveUnless" /\ in[t]
    BY DEF TypeOK, PlaceInv, Skip, Done, InCall, Entering, Leaving, Undecided,
       InMonitor, monVars, Ats
  <1>2. CASE AsCalled(t)
    BY <1>1, <1>2, WholeNext DEF AsCalled
  <1>3. CASE Within(t)
    BY <1>1, <1>3, InsideNext DEF Within, Phase, Idle
  <1>4. CASE Without(t)
    <2>1. Head(todo[t]) = "enterIf" /\ ~was[t]
      BY <1>1, <1>4, OutsideNext DEF Without
    <2>2. CASE Tail(todo[t]) = <<>>
      BY <1>1, <1>4, <2>1, <2>2 DEF Without, Phase, Idle
    <2>3. CASE Tail(todo[t]) # <<>>
      <3>1. Tail(todo[t]) = <<"setHandle">> /\ ~InMonitor(t)
        BY <1>1, <1>4, <2>1, <2>3, OutsideNext DEF Without
      <3>2. QED
        BY <1>1, <2>1, <3>1, EarlyRests DEF Phase, AsCalled, Undecided
    <2>4. QED
      BY <2>2, <2>3
  <1>5. CASE InSelect(t)
    BY <1>1, <1>5, SelectingNext DEF InSelect
  <1>6. QED
    BY <1>1, <1>2, <1>3, <1>4, <1>5 DEF PhaseInv, Phase, Idle

LEMMA TestHeldPhase ==
    ASSUME TypeOK, PlaceInv, MonitorInv, PhaseInv, NEW t \in Threads, TestHeld(t)
    PROVE  Phase(t)'
  <1>1. /\ was' = was /\ leaked' = leaked /\ (InMonitor(t)' <=> InMonitor(t))
        /\ at[t] = "begin" /\ Undecided(t) /\ InCall(t)
    BY DEF TestHeld, InMonitor, monVars, Undecided, Entering, Leaving
  <1>2. ~held => ~InMonitor(t)
    BY <1>1 DEF MonitorInv, Changing
  <1>3. CASE held
    <2>1. todo' = todo /\ at'[t] = "holder" /\ in' = in
      BY <1>3 DEF TypeOK, TestHeld, GoOn
    <2>2. QED
      BY <1>1, <2>1, KeepPhase
  <1>4. CASE ~held /\ Entering(t)
    <2>1. todo' = todo /\ at'[t] = "mutex" /\ in' = in
      BY <1>4 DEF TypeOK, TestHeld, GoOn
    <2>2. QED
      BY <1>1, <1>2, <1>4, <2>1, KeepPhase
  <1>5. CASE ~held /\ ~Entering(t)
    <2>1. Done(t) /\ Save(t, FALSE) /\ Leaving(t)
      BY <1>5 DEF TestHeld
    <2>2. Head(todo[t]) # "enterSave"
      BY <1>5 DEF Entering, Leaving, TestHeld
    <2>3. /\ Head(todo[t]) = "leaveSave" => ~in'[t]
          /\ Head(todo[t]) # "leaveSave" => in'[t] = in[t]
      BY <2>1, <2>2, SaveHere
    <2>4. QED
      BY <1>1, <1>2, <1>5, <2>1, <2>3, LeftPhase
  <1>6. QED
    BY <1>3, <1>4, <1>5

LEMMA TestHolderPhase ==
    ASSUME TypeOK, PlaceInv, MonitorInv, PhaseInv, NEW t \in Threads, TestHolder(t)
    PROVE  Phase(t)'
  <1>1. /\ was' = was /\ leaked' = leaked /\ (InMonitor(t)' <=> InMonitor(t))
        /\ at[t] = "holder" /\ Undecided(t) /\ InCall(t)
    BY DEF TestHolder, InMonitor, Undecided, Entering, Leaving
  <1>2. InMonitor(t) <=> holder = t
    BY <1>1 DEF MonitorInv, Changing
  <1>3. CASE holder = t /\ Entering(t)
    <2>1. Done(t) /\ Save(t, TRUE)
      BY <1>3 DEF TestHolder
    <2>2. Head(todo[t]) # "leaveSave"
      BY <1>3 DEF Entering
    <2>3. /\ Head(todo[t]) = "enterSave" => in'[t]
          /\ Head(todo[t]) # "enterSave" => in'[t] = in[t]
      BY <2>1, <2>2, SaveHere
    <2>4. QED
      BY <1>1, <1>2, <1>3, <2>1, <2>3, EnteredPhase
  <1>4. CASE holder = t /\ ~Entering(t)
    <2>1. todo' = todo /\ at'[t] = "unlock" /\ in' = in
      BY <1>4 DEF TypeOK, TestHolder, GoOn
    <2>2. QED
      BY <1>1, <1>2, <1>4, <2>1, KeepPhase
  <1>5. CASE holder # t /\ Entering(t)
    <2>1. todo' = todo /\ at'[t] = "mutex" /\ in' = in
      BY <1>5 DEF TypeOK, TestHolder, GoOn
    <2>2. QED
      BY <1>1, <1>2, <1>5, <2>1, KeepPhase
  <1>6. CASE holder # t /\ ~Entering(t)
    <2>1. Done(t) /\ Save(t, FALSE) /\ Leaving(t)
      BY <1>6 DEF TestHolder
    <2>2. Head(todo[t]) # "enterSave"
      BY <1>6, <2>1 DEF Entering, Leaving
    <2>3. /\ Head(todo[t]) = "leaveSave" => ~in'[t]
          /\ Head(todo[t]) # "leaveSave" => in'[t] = in[t]
      BY <2>1, <2>2, SaveHere
    <2>4. QED
      BY <1>1, <1>2, <1>6, <2>1, <2>3, LeftPhase
  <1>7. QED
    BY <1>3, <1>4, <1>5, <1>6

LEMMA SetHeldPhase ==
    ASSUME TypeOK, PlaceInv, MonitorInv, PhaseInv, NEW t \in Threads, SetHeld(t)
    PROVE  Phase(t)'
  <1>1. /\ was' = was /\ leaked' = leaked /\ at[t] = "setHeld" /\ ~Undecided(t)
        /\ Entering(t) /\ Done(t) /\ Save(t, FALSE)
    BY DEF SetHeld, Undecided
  <1>2. InMonitor(t)'
    BY <1>1 DEF MonitorInv, Changing, InMonitor, SetHeld
  <1>3. Head(todo[t]) # "leaveSave"
    BY <1>1 DEF Entering
  <1>4. /\ Head(todo[t]) = "enterSave" => ~in'[t]
        /\ Head(todo[t]) # "enterSave" => in'[t] = in[t]
    BY <1>1, <1>3, SaveHere
  <1>5. QED
    BY <1>1, <1>2, <1>4, EnteredPhase

LEMMA MonitorUnlockPhase ==
    ASSUME TypeOK, PlaceInv, MonitorInv, PhaseInv, NEW t \in Threads, MonitorUnlock(t)
    PROVE  Phase(t)'
  <1>1. /\ was' = was /\ leaked' = leaked /\ at[t] = "unlock" /\ ~Undecided(t)
        /\ Leaving(t) /\ Done(t) /\ Save(t, TRUE)
    BY DEF MonitorUnlock, Undecided
  <1>2. ~InMonitor(t)'
    BY ThreadAssumption DEF TypeOK, InMonitor, MonitorUnlock, Locks
  <1>3. Head(todo[t]) # "enterSave"
    BY <1>1 DEF Leaving
  <1>4. /\ Head(todo[t]) = "leaveSave" => in'[t]
        /\ Head(todo[t]) # "leaveSave" => in'[t] = in[t]
    BY <1>1, <1>3, SaveHere
  <1>5. QED
    BY <1>1, <1>2, <1>4, LeftPhase

LEMMA CallPhase ==
    ASSUME TypeOK, PlaceInv, MonitorInv, PhaseInv, NEW t \in Threads, NEW c \in CallNames,
           Call(t, c)
    PROVE  Phase(t)'
  <1>1. /\ todo'[t] = Body[c] /\ at'[t] = "begin" /\ (InMonitor(t)' <=> InMonitor(t))
        /\ was'[t] <=> InMonitor(t)
    BY DEF TypeOK, PlaceInv, Call, InMonitor, monVars
  <1>2. Head(Body[c]) = "leave" => was'[t]
    <2>1. SUFFICES ASSUME c = "select" PROVE InMonitor(t)
      BY <1>1, BodyHead
    <2>2. t = Main
      BY <2>1, ThreadAssumption DEF Call
    <2>3. Phase(t) /\ todo[t] = <<>> /\ was[t]
      BY <2>2 DEF PhaseInv, Call, InCall
    <2>4. QED
      BY <2>3, WholeNext, InsideNext, OutsideNext, SelectingNext
         DEF Phase, Idle, AsCalled, Within, Without, InSelect
  <1>3. QED
    BY <1>1, <1>2, BodyWhole DEF Phase, AsCalled, Undecided

LEMMA MonitorMutexPhase ==
    ASSUME TypeOK, PlaceInv, MonitorInv, PhaseInv, NEW t \in Threads, MonitorMutex(t)
    PROVE  Phase(t)'
  <1>1. InCall(t) /\ todo[t] # <<>> /\ Phase(t)
    BY DEF MonitorMutex, Entering, Leaving, InCall, PhaseInv
  <1>2. CASE AsCalled(t)
    BY <1>1, <1>2, WholeNext, EarlyRests, SMTT(20)
       DEF TypeOK, PlaceInv, MonitorInv, Phase, Idle, AsCalled, Within, Without,
           InSelect, Undecided, Changing, InMonitor, Locks, MonitorMutex, GoOn,
           Entering, InCall, monVars
  <1>3. CASE Within(t)
    BY <1>1, <1>3, InsideNext, EarlyRests, SMTT(20)
       DEF TypeOK, PlaceInv, MonitorInv, Phase, Idle, AsCalled, Within, Without,
           InSelect, Undecided, Changing, InMonitor, Locks, MonitorMutex, GoOn,
           Entering, InCall, monVars
  <1>4. CASE Without(t)
    BY <1>1, <1>4, OutsideNext, EarlyRests, SMTT(20)
       DEF TypeOK, PlaceInv, MonitorInv, Phase, Idle, AsCalled, Within, Without,
           InSelect, Undecided, Changing, InMonitor, Locks, MonitorMutex, GoOn,
           Entering, InCall, monVars
  <1>5. CASE InSelect(t)
    BY <1>1, <1>5, SelectingNext, EarlyRests, SMTT(20)
       DEF TypeOK, PlaceInv, MonitorInv, Phase, Idle, AsCalled, Within, Without,
           InSelect, Undecided, Changing, InMonitor, Locks, MonitorMutex, GoOn,
           Entering, InCall, monVars
  <1>6. QED
    BY <1>1, <1>2, <1>3, <1>4, <1>5 DEF Phase, Idle

LEMMA SetHolderPhase ==
    ASSUME TypeOK, PlaceInv, MonitorInv, PhaseInv, NEW t \in Threads, SetHolder(t)
    PROVE  Phase(t)'
  <1>1. InCall(t) /\ todo[t] # <<>> /\ Phase(t)
    BY DEF SetHolder, Entering, Leaving, InCall, PhaseInv
  <1>2. CASE AsCalled(t)
    BY <1>1, <1>2, WholeNext, EarlyRests, SMTT(20)
       DEF TypeOK, PlaceInv, MonitorInv, Phase, Idle, AsCalled, Within, Without,
           InSelect, Undecided, Changing, InMonitor, Locks, SetHolder, GoOn,
           Entering, InCall, monVars
  <1>3. CASE Within(t)
    BY <1>1, <1>3, InsideNext, EarlyRests, SMTT(20)
       DEF TypeOK, PlaceInv, MonitorInv, Phase, Idle, AsCalled, Within, Without,
           InSelect, Undecided, Changing, InMonitor, Locks, SetHolder, GoOn,
           Entering, InCall, monVars
  <1>4. CASE Without(t)
    BY <1>1, <1>4, OutsideNext, EarlyRests, SMTT(20)
       DEF TypeOK, PlaceInv, MonitorInv, Phase, Idle, AsCalled, Within, Without,
           InSelect, Undecided, Changing, InMonitor, Locks, SetHolder, GoOn,
           Entering, InCall, monVars
  <1>5. CASE InSelect(t)
    BY <1>1, <1>5, SelectingNext, EarlyRests, SMTT(20)
       DEF TypeOK, PlaceInv, MonitorInv, Phase, Idle, AsCalled, Within, Without,
           InSelect, Undecided, Changing, InMonitor, Locks, SetHolder, GoOn,
           Entering, InCall, monVars
  <1>6. QED
    BY <1>1, <1>2, <1>3, <1>4, <1>5 DEF Phase, Idle

LEMMA FindPhase ==
    ASSUME TypeOK, PlaceInv, MonitorInv, PhaseInv, NEW t \in Threads, Find(t)
    PROVE  Phase(t)'
  <1>1. /\ Phase(t) /\ InCall(t) /\ at[t] \in {"begin", "asleep"}
        /\ Head(todo[t]) \notin Entries \cup Exits
    BY DEF PhaseInv, PlaceInv, Entering, Leaving, Entries, Exits, Find, At, InCall,
       TypeOK, Ats
  <1>2. /\ in' = in /\ was' = was /\ (InMonitor(t)' <=> InMonitor(t))
        /\ (leaked => leaked')
    BY DEF TypeOK, Find, InMonitor, monVars, callVars, Locks, LockOf
  <1>3. Within(t) /\ at[t] = "begin" /\ Undecided(t)
    <2>1. Head(todo[t]) = "find" /\ at[t] = "begin" /\ todo[t] # <<>>
      BY DEF Find, At, InCall
    <2>2. QED
      BY <1>1, <2>1, WholeNext, InsideNext, OutsideNext, SelectingNext
         DEF Phase, Idle, AsCalled, Within, Without, InSelect, Undecided
  <1>4. CASE Done(t)
    BY <1>1, <1>2, <1>4, DonePhase
  <1>5. CASE ReturnBy(t, <<"leaveUnless">>)
    <2>1. /\ todo'[t] = <<"leaveUnless">> /\ at'[t] = "begin" /\ in'[t] = in[t]
          /\ was'[t] = was[t]
      BY <1>2, <1>5 DEF TypeOK, ReturnBy
    <2>2. QED
      BY <1>2, <1>3, <1>5, <2>1, EarlyRests DEF Phase, Within, Undecided
  <1>6. CASE ReturnBy(t, <<>>) /\ leaked'
    <2>1. todo'[t] = <<>> /\ at'[t] = "begin" /\ in'[t] = in[t] /\ was'[t] = was[t]
      BY <1>2, <1>6 DEF TypeOK, ReturnBy
    <2>2. QED
      BY <1>2, <1>3, <1>6, <2>1, EarlyRests DEF Phase, Within, Idle, Undecided
  <1>7. QED
    BY <1>4, <1>5, <1>6 DEF Find

LEMMA AllocatePhase ==
    ASSUME TypeOK, PlaceInv, MonitorInv, PhaseInv, NEW t \in Threads, Allocate(t)
    PROVE  Phase(t)'
  <1>1. /\ Phase(t) /\ InCall(t) /\ at[t] \in {"begin", "asleep"}
        /\ Head(todo[t]) \notin Entries \cup Exits
    BY DEF PhaseInv, PlaceInv, Entering, Leaving, Entries, Exits, Allocate, At,
       InCall, TypeOK, Ats
  <1>2. /\ in' = in /\ was' = was /\ (InMonitor(t)' <=> InMonitor(t))
        /\ (leaked => leaked')
    BY DEF TypeOK, Allocate, InMonitor, monVars, callVars, Locks, LockOf
  <1>3. Without(t) /\ at[t] = "begin" /\ Undecided(t)
    <2>1. Head(todo[t]) = "allocate" /\ at[t] = "begin" /\ todo[t] # <<>>
      BY DEF Allocate, At, InCall
    <2>2. QED
      BY <1>1, <2>1, WholeNext, InsideNext, OutsideNext, SelectingNext
         DEF Phase, Idle, AsCalled, Within, Without, InSelect, Undecided
  <1>4. CASE Done(t)
    BY <1>1, <1>2, <1>4, DonePhase
  <1>5. CASE ReturnBy(t, <<"unlockTable", "enterIf">>)
    <2>1. /\ todo'[t] = <<"unlockTable", "enterIf">> /\ at'[t] = "begin"
          /\ in'[t] = in[t] /\ was'[t] = was[t]
      BY <1>2, <1>5 DEF TypeOK, ReturnBy
    <2>2. QED
      BY <1>2, <1>3, <1>5, <2>1, EarlyRests DEF Phase, Without, Undecided
  <1>6. QED
    BY <1>4, <1>5 DEF Allocate

LEMMA MallocPhase ==
    ASSUME TypeOK, PlaceInv, MonitorInv, PhaseInv, NEW t \in Threads, Malloc(t)
    PROVE  Phase(t)'
  <1>1. /\ Phase(t) /\ InCall(t) /\ at[t] \in {"begin", "asleep"}
        /\ Head(todo[t]) \notin Entries \cup Exits
    BY DEF PhaseInv, PlaceInv, Entering, Leaving, Entries, Exits, Malloc, At,
       InCall, TypeOK, Ats
  <1>2. /\ in' = in /\ was' = was /\ (InMonitor(t)' <=> InMonitor(t))
        /\ (leaked => leaked')
    BY DEF TypeOK, Malloc, InMonitor, monVars, callVars, Locks, LockOf
  <1>3. Within(t) /\ at[t] = "begin" /\ Undecided(t)
    <2>1. Head(todo[t]) = "malloc" /\ at[t] = "begin" /\ todo[t] # <<>>
      BY DEF Malloc, At, InCall
    <2>2. QED
      BY <1>1, <2>1, WholeNext, InsideNext, OutsideNext, SelectingNext
         DEF Phase, Idle, AsCalled, Within, Without, InSelect, Undecided
  <1>4. CASE Done(t)
    BY <1>1, <1>2, <1>4, DonePhase
  <1>5. CASE ReturnBy(t, <<"unlockTable", "enterIf">>) /\ leaked'
    <2>1. /\ todo'[t] = <<"unlockTable", "enterIf">> /\ at'[t] = "begin"
          /\ in'[t] = in[t] /\ was'[t] = was[t]
      BY <1>2, <1>5 DEF TypeOK, ReturnBy
    <2>2. QED
      BY <1>2, <1>3, <1>5, <2>1, EarlyRests DEF Phase, Within, Without, Undecided
  <1>6. QED
    BY <1>4, <1>5 DEF Malloc

LEMMA WaitTestPhase ==
    ASSUME TypeOK, PlaceInv, MonitorInv, PhaseInv, NEW t \in Threads, WaitTest(t)
    PROVE  Phase(t)'
  <1>1. /\ Phase(t) /\ InCall(t) /\ at[t] \in {"begin", "asleep"}
        /\ Head(todo[t]) \notin Entries \cup Exits
    BY DEF PhaseInv, PlaceInv, Entering, Leaving, Entries, Exits, WaitTest, At,
       InCall, TypeOK, Ats
  <1>2. /\ in' = in /\ was' = was /\ (InMonitor(t)' <=> InMonitor(t))
        /\ (leaked => leaked')
    BY DEF TypeOK, WaitTest, InMonitor, monVars, callVars, Locks, LockOf
  <1>3. CASE Done(t)
    BY <1>1, <1>2, <1>3, DonePhase
  <1>4. CASE GoOn(t, "asleep") \/ (todo' = todo /\ at' = at)
    BY <1>1, <1>2, <1>4
       DEF Phase, Idle, AsCalled, Within, Without, InSelect, Undecided, GoOn, TypeOK
  <1>5. QED
    BY <1>3, <1>4 DEF WaitTest, callVars

LEMMA WakePhase ==
    ASSUME TypeOK, PlaceInv, MonitorInv, PhaseInv, NEW t \in Threads, Wake(t)
    PROVE  Phase(t)'
  BY DEF PhaseInv, Phase, Idle, AsCalled, Within, Without, InSelect, Undecided,
     Wake, callVars, monVars, InMonitor

LEMMA PlainPhase ==
    ASSUME TypeOK, PlaceInv, PhaseInv, NEW t \in Threads,
           \/ Acquire(t) \/ Release(t) \/ Work(t) \/ WaitReturn(t) \/ Post(t)
           \/ Create(t) \/ SetHandle(t)
    PROVE  Phase(t)'
  <1>1. /\ InCall(t) /\ Done(t)
        /\ Head(todo[t]) \in {"lockTable", "lockEvent", "unlockTable", "unlockEvent",
                             "monWork", "tableWork", "outside", "wait", "post", "create",
                             "setHandle"}
    BY DEF Acquire, Release, Work, WaitReturn, Post, Create, SetHandle, At
  <1>2. /\ Phase(t) /\ at[t] \in {"begin", "asleep"}
        /\ Head(todo[t]) \notin Entries \cup Exits
    BY <1>1 DEF TypeOK, Ats, PhaseInv, PlaceInv, Entering, Leaving, Entries, Exits
  <1>3. in' = in /\ was' = was /\ leaked' = leaked
    BY DEF Acquire, Release, Work, WaitReturn, Post, Create, SetHandle
  <1>4. InMonitor(t)' <=> InMonitor(t)
    BY DEF TypeOK, InMonitor, monVars, Locks, LockOf,
           Acquire, Release, Work, WaitReturn, Post, Create, SetHandle
  <1>5. QED
    BY <1>1, <1>2, <1>3, <1>4, DonePhase

LEMMA PhaseStep ==
    TypeOK /\ PlaceInv /\ MonitorInv /\ PhaseInv /\ [Next]_vars => PhaseInv'
  <1> SUFFICES ASSUME TypeOK, PlaceInv, MonitorInv, PhaseInv, [Next]_vars PROVE PhaseInv'
    OBVIOUS
  <1>1. ASSUME NEW t \in Threads, ThreadStep(t) PROVE PhaseInv'
    <2>1. Phase(t)'
      BY <1>1, SkipPhase, TestHeldPhase, TestHolderPhase, MonitorMutexPhase,
         SetHolderPhase, SetHeldPhase, MonitorUnlockPhase, PlainPhase, FindPhase,
         AllocatePhase, MallocPhase, WaitTestPhase, WakePhase
         DEF ThreadStep
    <2>2. \A u \in Threads \ {t} : Phase(u)'
      BY <1>1, OthersKeepPlace, OthersKeepFlags, OthersKeepMonitor, LeaksAndMain,
         OthersKept
    <2>3. was'[Main]
      BY <1>1, LeaksAndMain DEF PhaseInv
    <2>4. QED
      BY <2>1, <2>2, <2>3 DEF PhaseInv
  <1>2. ASSUME NEW t \in Threads, NEW c \in CallNames, Call(t, c) PROVE PhaseInv'
    <2>1. Phase(t)'
      BY <1>2, CallPhase
    <2>2. /\ \A u \in Threads \ {t} : todo'[u] = todo[u] /\ at'[u] = at[u]
          /\ \A u \in Threads \ {t} : in'[u] = in[u] /\ was'[u] = was[u]
          /\ \A u \in Threads \ {t} : InMonitor(u)' <=> InMonitor(u)
          /\ leaked' = leaked
      BY <1>2 DEF TypeOK, Call, InMonitor, monVars
    <2>3. \A u \in Threads \ {t} : Phase(u)'
      BY <2>2, OthersKept
    <2>4. was'[Main]
      <3>1. CASE t = Main
        <4>1. Phase(t) /\ todo[t] = <<>> /\ was[t] /\ was'[t] = InMonitor(t)
          BY <1>2, <3>1 DEF TypeOK, PhaseInv, Call, InCall
        <4>2. InMonitor(t)
          BY <4>1, WholeNext, InsideNext, OutsideNext, SelectingNext
             DEF Phase, Idle, AsCalled, Within, Without, InSelect
        <4>3. QED
          BY <3>1, <4>1, <4>2
      <3>2. CASE t # Main
        BY <2>2, <3>2, ThreadAssumption DEF PhaseInv
      <3>3. QED
        BY <3>1, <3>2
    <2>5. QED
      BY <2>1, <2>3, <2>4 DEF PhaseInv
  <1>3. ASSUME ChildStart \/ ChildExit \/ UNCHANGED vars PROVE PhaseInv'
    BY <1>3
       DEF PhaseInv, Phase, Idle, AsCalled, Within, Without, InSelect, Undecided,
           InMonitor,
                ChildStart, ChildExit, vars, monVars, callVars
  <1>4. QED
    BY <1>1, <1>2, <1>3 DEF Next

-----------------------------------------------------------------------------
IInv == TypeOK /\ PlaceInv /\ MonitorInv /\ PhaseInv /\ LockInv

LEMMA InitIInv == Init => IInv
  <1> SUFFICES ASSUME Init PROVE IInv
    OBVIOUS
  <1> USE ThreadAssumption DEF Init
  <1>1. TypeOK
    BY EarlyType DEF TypeOK, Locks, Ats
  <1>2. PlaceInv
    BY DEF PlaceInv, InCall, Rests
  <1>3. MonitorInv
    BY DEF MonitorInv, InMonitor, Changing, Locks
  <1>4. PhaseInv
    BY DEF PhaseInv, Phase, Idle, InMonitor, Locks
  <1>5. LockInv
    BY DEF LockInv, Locks
  <1>6. QED
    BY <1>1, <1>2, <1>3, <1>4, <1>5 DEF IInv

LEMMA Inductive == Spec => []IInv
  <1>1. IInv /\ [Next]_vars => IInv'
    BY TypeStep, PlaceStep, MonitorStep, PhaseStep, LockStep DEF IInv
  <1>2. QED
    BY InitIInv, <1>1, PTL DEF Spec

\* Every variable keeps its type, for any threads and any calls offered to them.
THEOREM TypeCorrect == Spec => []TypeOK
  <1>1. IInv => TypeOK
    BY DEF IInv
  <1>2. QED
    BY Inductive, <1>1, PTL

\* Who works under the monitor owns it: the test in vmiope_enter_monitor of words
\* that others are writing never takes a thread for the holder that is not.
THEOREM MonitorIsOwnedCorrect == Spec => []MonitorIsOwned
  <1>1. ASSUME IInv, NEW t \in Threads, NEW s \in {"monWork", "find", "malloc"},
               At(t, s, "begin")
        PROVE  InMonitor(t) /\ holder = t
    <2>1. Phase(t) /\ Head(todo[t]) = s /\ todo[t] # <<>> /\ at[t] = "begin"
      BY <1>1 DEF IInv, PhaseInv, At, InCall
    <2>2. InMonitor(t)
      BY <2>1, WholeNext, InsideNext, OutsideNext, SelectingNext
         DEF Phase, Idle, AsCalled, Within, Without, InSelect, Undecided
    <2>3. QED
      BY <1>1, <2>1, <2>2 DEF IInv, MonitorInv, Changing
  <1>2. ASSUME IInv, NEW t \in Threads, At(t, "leaveUnless", "unlock")
        PROVE  InMonitor(t) /\ holder = t
    BY <1>2 DEF IInv, MonitorInv, Changing, At
  <1>3. IInv => MonitorIsOwned
    BY <1>1, <1>2 DEF MonitorIsOwned
  <1>4. QED
    BY Inductive, <1>3, PTL

\* A thread is outside, or asleep on an event, only without the monitor and
\* without any lock.
THEOREM NothingHeldOutsideCorrect == Spec => []NothingHeldOutside
  <1>1. ASSUME IInv, NEW t \in Threads,
               At(t, "outside", "begin") \/ At(t, "wait", "asleep"), NEW l \in Locks
        PROVE  owner[l] # t
    <2>1. /\ Phase(t) /\ Head(todo[t]) \in {"outside", "wait"} /\ todo[t] # <<>>
          /\ Undecided(t)
      BY <1>1 DEF IInv, PhaseInv, At, InCall, Undecided
    <2>2. ~InMonitor(t)
      BY <2>1, WholeNext, InsideNext, OutsideNext, SelectingNext
         DEF Phase, Idle, AsCalled, Within, Without, InSelect
    <2>3. owner["table"] # t /\ owner["event"] # t
      BY <1>1, <2>1 DEF IInv, LockInv, At
    <2>4. QED
      BY <2>2, <2>3 DEF InMonitor, Locks
  <1>2. IInv => NothingHeldOutside
    BY <1>1 DEF NothingHeldOutside
  <1>3. QED
    BY Inductive, <1>2, PTL

\* A thread that waits for one of the environment's mutexes holds none: they
\* cannot deadlock, however many threads there are.
THEOREM NoHoldAndWaitCorrect == Spec => []NoHoldAndWait
  <1>1. ASSUME IInv, NEW t \in Threads, NEW k \in Locks, NEW l \in Locks, Wants(t, l)
        PROVE  owner[k] # t
    <2>1. CASE l = "monitor"
      <3>1. at[t] = "mutex" /\ Entering(t)
        BY <1>1, <2>1 DEF Wants, Locks
      <3>2. owner["table"] # t /\ owner["event"] # t
        BY <1>1, <3>1 DEF IInv, LockInv, Entering
      <3>3. owner["monitor"] # t
        BY <1>1, <3>1 DEF IInv, MonitorInv, InMonitor
      <3>4. QED
        BY <3>2, <3>3 DEF Locks
    <2>2. CASE l # "monitor"
      <3>1. /\ Head(todo[t]) \in {"lockTable", "lockEvent", "wait"} /\ todo[t] # <<>>
            /\ Head(todo[t]) = "wait" => at[t] = "asleep"
            /\ Undecided(t) /\ Phase(t)
        BY <1>1, <2>2 DEF IInv, PhaseInv, Wants, At, InCall, Undecided
      <3>2. ~InMonitor(t)
        BY <3>1, WholeNext, InsideNext, OutsideNext, SelectingNext
           DEF Phase, Idle, AsCalled, Within, Without, InSelect
      <3>3. owner["table"] # t /\ owner["event"] # t
        BY <1>1, <3>1 DEF IInv, LockInv
      <3>4. QED
        BY <3>2, <3>3 DEF InMonitor, Locks
    <2>3. QED
      BY <2>1, <2>2
  <1>2. IInv => NoHoldAndWait
    BY <1>1 DEF NoHoldAndWait
  <1>3. QED
    BY Inductive, <1>2, PTL

\* A call returns to a thread that is in the monitor exactly if it was when it
\* made the call, unless a call has returned through an exit that forgets it.
THEOREM CallRestoresMonitorCorrect == Spec => []CallRestoresMonitor
  <1>1. ASSUME IInv, ~leaked, NEW t \in Threads, ~InCall(t)
        PROVE  InMonitor(t) <=> was[t]
    <2>1. Phase(t) /\ todo[t] = <<>>
      BY <1>1 DEF IInv, PhaseInv, InCall
    <2>2. QED
      BY <1>1, <2>1, WholeNext, InsideNext, OutsideNext, SelectingNext
         DEF Phase, Idle, AsCalled, Within, Without, InSelect
  <1>2. IInv => CallRestoresMonitor
    BY <1>1 DEF CallRestoresMonitor
  <1>3. QED
    BY Inductive, <1>2, PTL

\* A set event leaves nobody asleep, unless the post that set it woke only one.
THEOREM NobodySleepsCorrect == Spec => []NobodySleepsOnSetEvent
  <1>1. Init => NobodySleepsOnSetEvent
    BY DEF Init, NobodySleepsOnSetEvent
  <1>2. NobodySleepsOnSetEvent /\ [Next]_vars => NobodySleepsOnSetEvent'
    BY ZenonT(60) DEF NobodySleepsOnSetEvent, eventVars, vars, Next, ThreadStep, Skip,
       TestHeld, TestHolder, MonitorMutex, SetHolder, SetHeld, MonitorUnlock,
       Acquire, Release, Work, Find, Allocate, Malloc, WaitTest, Wake, WaitReturn,
       Post, Create, SetHandle, Call, ChildStart, ChildExit
  <1>3. QED
    BY <1>1, <1>2, PTL DEF Spec

=============================================================================
