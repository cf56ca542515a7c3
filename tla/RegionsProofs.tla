--------------------------- MODULE RegionsProofs ---------------------------
(***************************************************************************)
(* Proofs about Regions: for any regions, lengths and bases, and any       *)
(* spaces of the VGA and of the emulated device, every space is mapped     *)
(* once enable_io is over, every address Xen routes here has a space, a    *)
(* request reaches the owner of its address, and a region has a space of   *)
(* its own.                                                                *)
(*                                                                         *)
(* Find takes the first space that holds an address, but the argument is   *)
(* not about the order of a list: the spaces that are mapped are apart, as *)
(* Xen maps no address twice, so that at most one of them holds it.  Order *)
(* counts for enable_io only: what is not mapped yet lies ahead of it, or  *)
(* is at the head of its list and mapped by the call that put it there.    *)
(***************************************************************************)
EXTENDS Regions, TLAPS, FiniteSetTheorems, SequenceTheorems, WellFoundedInduction

Listed(k) == {spaces[k][i] : i \in DOMAIN spaces[k]}

\* The relocation's space is in the list.
Entered == call.at \in {"test", "map", "flag", "undo"}

\* Lists name a base once (demu_register_memory_space, demu_register_port_space).
ListsInv ==
    \A k \in Kinds :
        /\ \A i \in DOMAIN spaces[k] : spaces[k][i].start <= spaces[k][i].end
        /\ \A i, j \in DOMAIN spaces[k] : spaces[k][i].start = spaces[k][j].start => i = j

CallInv ==
    /\ call.at = "idle" <=> call = NoCall
    /\ call.at # "idle" => call.region \in Regions
    /\ call.at \in {"disable", "unmap"} => base[call.region] # NoBase
    /\ call.at = "insert" \/ Entered => call.to # NoBase
    /\ Entered => spaces[K] # <<>> /\ spaces[K][1].start = call.to
    /\ call.at \in {"map", "flag", "undo"} => ioUp

\* Where region r has its space.
Place(r) ==
    IF r # call.region \/ call.at = "disable" THEN base[r]
    ELSE IF Entered THEN call.to ELSE NoBase

OwnInv ==
    "slipped" \notin amiss =>
        /\ mpc # "aborted"
        /\ \A r \in Regions :
            /\ \A s \in Listed(Kind[r]) : s.owner = r => s.start = Place(r)
            /\ Place(r) # NoBase => \E s \in Listed(Kind[r]) : s.owner = r

\* Where the main thread's state may be.
MainInv ==
    /\ mpc = "aborted" \/ (mpc = "config" <=> ~ioUp)
    /\ mpc \in {"enable", "failed", "aborted"} \/ (walk = NoWalk /\ "walk" \notin dangling)
    /\ mpc = "enable" => walk.at # "over"
    /\ mpc = "enable" /\ "walk" \notin dangling => \E s \in Listed(walk.kind) : s.start = walk.start
    /\ req = NoReq \/ req.left > 0
    /\ mpc \in {"item", "callback"} => req.left > 0

\* Spaces that Xen has mapped, also when they are not marked yet.
Mapped(k, s) ==
    \/ s.init
    \/ call.at = "flag" /\ k = K /\ s.start = call.to
    \/ walk.at = "flag" /\ "walk" \notin dangling /\ k = walk.kind /\ s.start = walk.start

\* The range that Xen is about to take back.
Leaving == base[call.region] .. call.end

MappedInv ==
    /\ \A k \in Kinds : \A s \in Listed(k) : Mapped(k, s) => Extent(s) \subseteq server[k]
    /\ \A k \in Kinds : \A s, t \in Listed(k) :
           Mapped(k, s) /\ Mapped(k, t) /\ s # t => Extent(s) \cap Extent(t) = {}
    /\ call.at = "unmap" =>
           /\ Leaving \subseteq server[K]
           /\ \A s \in Listed(K) : Mapped(K, s) => Extent(s) \cap Leaving = {}

RouteInv ==
    "collided" \notin amiss /\ "walk" \notin dangling =>
        \A k \in Kinds : \A a \in server[k] :
            \/ \E s \in Listed(k) : Mapped(k, s) /\ Covers(s, a)
            \/ call.at = "unmap" /\ k = K /\ a \in Leaving

\* From w on, enable_io comes to place i of list k.
Ahead(w, k, i) ==
    \/ ListAfter(w.kind) < ListAfter(k)
    \/ k = w.kind /\ \E n \in 1 .. i : spaces[k][n].start = w.start

\* A space that is not marked lies ahead of enable_io or at the call.
WalkInv ==
    \A k \in Kinds : \A i \in DOMAIN spaces[k] :
        \/ spaces[k][i].init
        \/ Entered /\ k = K /\ i = 1
        \/ mpc \in {"config", "failed", "aborted"}
        \/ mpc = "enable" /\ ("walk" \in dangling \/ Ahead(walk, k, i))

\* The space of the request's owner, if it was not given up.
ReqInv ==
    req.left > 0 /\ ~req.moved =>
        \E s \in Listed(req.kind) : s.init /\ Covers(s, req.addr) /\ s.owner = req.owner

IInv ==
    /\ TypeOK /\ ListsInv /\ CallInv /\ OwnInv /\ MainInv
    /\ Orderly => MappedInv /\ RouteInv /\ WalkInv /\ ReqInv

-----------------------------------------------------------------------------
(* Lists.                                                                  *)

LEMMA MinIs ==
    ASSUME NEW S \in SUBSET Nat, S # {}
    PROVE  Min(S) \in S /\ \A n \in S : Min(S) <= n
<1>1. PICK m \in S : \A n \in S : ~(<<n, m>> \in OpToRel(<, Nat))
  BY NatLessThanWellFounded, WFMin, Zenon
<1>2. \A n \in S : ~(n < m)
  BY <1>1, Zenon DEF OpToRel
<1>3. \E x \in S : \A y \in S : x <= y
  BY <1>2
<1> QED
  BY <1>3, Zenon DEF Min

LEMMA ConstantsAre ==
    /\ Addrs \subseteq Nat /\ NoBase \notin Nat /\ NoBase \notin Owners
    /\ PortTop \in Nat /\ Top \in Nat /\ Regions \cap {"vga", "device"} = {}
    /\ \A r \in Regions : /\ Kind[r] \in Kinds /\ Length[r] \in Nat \ {0}
                          /\ \A a \in Bases[r] : a \in Addrs
BY RegionsAssumption DEF Addrs, Kinds

\* What the types say of the lists.
LEMMA ListIs ==
    ASSUME TypeOK, NEW k \in Kinds
    PROVE  /\ spaces[k] \in Seq(Space) /\ Len(spaces[k]) \in Nat
           /\ DOMAIN spaces[k] = 1 .. Len(spaces[k])
           /\ \A i \in DOMAIN spaces[k] :
                  /\ spaces[k][i] \in Space /\ spaces[k][i].start \in Addrs
                  /\ spaces[k][i].start \in Nat /\ spaces[k][i].end \in Nat
                  /\ spaces[k][i].init \in BOOLEAN /\ spaces[k][i].owner \in Owners
<1>1. spaces[k] \in Seq(Space)
  BY DEF TypeOK
<1>2. Len(spaces[k]) \in Nat /\ DOMAIN spaces[k] = 1 .. Len(spaces[k])
  BY <1>1
<1>3. \A i \in DOMAIN spaces[k] : spaces[k][i] \in Space
  BY <1>1, ElementOfSeq
<1> QED
  BY <1>1, <1>2, <1>3, ConstantsAre DEF Space

\* The first space that holds a (demu_find_space).
LEMMA FindIs ==
    ASSUME TypeOK, NEW k \in Kinds, NEW a
    PROVE  /\ Find(k, a) # 0 => Find(k, a) \in DOMAIN spaces[k] /\ Covers(spaces[k][Find(k, a)], a)
           /\ Find(k, a) = 0 => \A i \in DOMAIN spaces[k] : ~Covers(spaces[k][i], a)
<1> DEFINE I == {i \in 1 .. Len(spaces[k]) : Covers(spaces[k][i], a)}
<1>1. Find(k, a) = IF I # {} THEN Min(I) ELSE 0
  BY DEF Find, SelectInSeq
<1>2. DOMAIN spaces[k] = 1 .. Len(spaces[k]) /\ Len(spaces[k]) \in Nat
  BY ListIs
<1>3. CASE I # {}
  <2>1. I \in SUBSET Nat
    OBVIOUS
  <2>2. Min(I) \in I
    BY <1>3, <2>1, MinIs
  <2> QED
    BY <1>1, <1>2, <1>3, <2>2
<1>4. CASE I = {}
  BY <1>1, <1>2, <1>4
<1> QED
  BY <1>3, <1>4

\* The space that begins at a.
LEMMA ExactIs ==
    ASSUME TypeOK, ListsInv, NEW k \in Kinds, NEW a
    PROVE  /\ Exact(k, a) # 0 => Exact(k, a) \in DOMAIN spaces[k] /\ spaces[k][Exact(k, a)].start = a
           /\ \A i \in DOMAIN spaces[k] : spaces[k][i].start = a => Exact(k, a) = i
<1> DEFINE I == {i \in 1 .. Len(spaces[k]) : spaces[k][i].start = a}
<1>1. Exact(k, a) = IF I # {} THEN Min(I) ELSE 0
  BY DEF Exact, SelectInSeq
<1>2. DOMAIN spaces[k] = 1 .. Len(spaces[k]) /\ Len(spaces[k]) \in Nat
  BY ListIs
<1>3. CASE I # {}
  <2>1. I \in SUBSET Nat
    OBVIOUS
  <2>2. Min(I) \in I
    BY <1>3, <2>1, MinIs
  <2> QED
    BY <1>1, <1>2, <1>3, <2>2 DEF ListsInv
<1>4. CASE I = {}
  BY <1>1, <1>2, <1>4
<1> QED
  BY <1>3, <1>4

LEMMA SameSpace ==
    ASSUME ListsInv, NEW k \in Kinds, NEW s \in Listed(k), NEW t \in Listed(k), s.start = t.start
    PROVE  s = t
BY DEF ListsInv, Listed

\* Sequences.
LEMMA RemoveAtIs ==
    ASSUME NEW S, NEW q \in Seq(S), NEW j \in 1 .. Len(q)
    PROVE  /\ RemoveAt(q, j) \in Seq(S) /\ Len(RemoveAt(q, j)) = Len(q) - 1
           /\ \A i \in 1 .. Len(q) - 1 : RemoveAt(q, j)[i] = IF i < j THEN q[i] ELSE q[i + 1]
<1> DEFINE a == SubSeq(q, 1, j - 1)
           b == SubSeq(q, j + 1, Len(q))
<1>1. Len(q) \in Nat /\ j \in Nat /\ 1 <= j /\ j <= Len(q)
  OBVIOUS
<1>2. a \in Seq(S) /\ Len(a) = j - 1 /\ \A i \in 1 .. j - 1 : a[i] = q[i]
  <2>1. \A i \in 1 .. j - 1 : q[i] \in S
    BY <1>1, ElementOfSeq
  <2>2. /\ a \in Seq(S)
        /\ Len(a) = IF 1 <= j - 1 THEN j - 1 - 1 + 1 ELSE 0
        /\ \A i \in 1 .. j - 1 - 1 + 1 : a[i] = q[1 + i - 1]
    BY <1>1, <2>1, SubSeqProperties
  <2> QED
    BY <1>1, <2>2
<1>3. b \in Seq(S) /\ Len(b) = Len(q) - j /\ \A i \in 1 .. Len(q) - j : b[i] = q[i + j]
  <2>1. \A i \in j + 1 .. Len(q) : q[i] \in S
    BY <1>1, ElementOfSeq
  <2>2. /\ b \in Seq(S)
        /\ Len(b) = IF j + 1 <= Len(q) THEN Len(q) - (j + 1) + 1 ELSE 0
        /\ \A i \in 1 .. Len(q) - (j + 1) + 1 : b[i] = q[j + 1 + i - 1]
    BY <1>1, <2>1, SubSeqProperties
  <2> QED
    BY <1>1, <2>2
<1> HIDE DEF a, b
<1>4. /\ a \o b \in Seq(S) /\ Len(a \o b) = Len(q) - 1
      /\ \A i \in 1 .. Len(q) - 1 : (a \o b)[i] = IF i <= j - 1 THEN a[i] ELSE b[i - (j - 1)]
  <2>1. /\ a \o b \in Seq(S) /\ Len(a \o b) = Len(a) + Len(b)
        /\ \A i \in 1 .. Len(a) + Len(b) : (a \o b)[i] = IF i <= Len(a) THEN a[i] ELSE b[i - Len(a)]
    BY ONLY <1>2, <1>3, ConcatProperties
  <2>2. Len(a) = j - 1 /\ Len(a) + Len(b) = Len(q) - 1
    BY <1>1, <1>2, <1>3
  <2> QED
    BY <2>1, <2>2
<1>5. \A i \in 1 .. Len(q) - 1 : (a \o b)[i] = IF i < j THEN q[i] ELSE q[i + 1]
  <2>1. ASSUME NEW i \in 1 .. Len(q) - 1, i < j
        PROVE  (a \o b)[i] = q[i]
    BY <1>1, <1>2, <1>4, <2>1
  <2>2. ASSUME NEW i \in 1 .. Len(q) - 1, ~(i < j)
        PROVE  (a \o b)[i] = q[i + 1]
    <3>1. i - (j - 1) \in 1 .. Len(q) - j /\ i - (j - 1) + j = i + 1
      BY <1>1, <2>2
    <3>2. b[i - (j - 1)] = q[i + 1]
      BY <1>3, <3>1
    <3> QED
      BY <1>1, <1>4, <2>2, <3>2
  <2> QED
    BY <2>1, <2>2
<1>6. RemoveAt(q, j) = a \o b
  BY DEF RemoveAt, a, b
<1> QED
  BY <1>4, <1>5, <1>6

\* The lists' types.
Lists1 == DOMAIN spaces = Kinds /\ \A k \in Kinds : spaces[k] \in Seq(Space)

\* A step that changes list k only.
Changes(k) ==
    /\ Lists1' /\ ListsInv'
    /\ \A l \in Kinds : l # k => spaces'[l] = spaces[l]
    /\ \A l \in Kinds : l # k => Listed(l)' = Listed(l)

LEMMA ChangesIs ==
    ASSUME TypeOK, ListsInv, NEW k \in Kinds, NEW q \in Seq(Space),
           spaces' = [spaces EXCEPT ![k] = q],
           \A i \in DOMAIN q : q[i].start <= q[i].end,
           \A i, j \in DOMAIN q : q[i].start = q[j].start => i = j
    PROVE  Changes(k) /\ spaces'[k] = q
<1>1. DOMAIN spaces = Kinds /\ \A l \in Kinds : spaces[l] \in Seq(Space)
  BY DEF TypeOK
<1>2. /\ DOMAIN spaces' = Kinds /\ spaces'[k] = q
      /\ \A l \in Kinds : l # k => spaces'[l] = spaces[l]
  BY <1>1
<1>3. Lists1'
  BY <1>1, <1>2 DEF Lists1
<1>4. ListsInv'
  BY <1>2 DEF ListsInv
<1>5. \A l \in Kinds : l # k => Listed(l)' = Listed(l)
  BY <1>2 DEF Listed
<1> QED
  BY <1>2, <1>3, <1>4, <1>5 DEF Changes

\* demu_unlink_space.
LEMMA RemovedIs ==
    ASSUME TypeOK, ListsInv, NEW k \in Kinds, NEW j \in DOMAIN spaces[k],
           spaces' = [spaces EXCEPT ![k] = RemoveAt(@, j)]
    PROVE  /\ Changes(k) /\ Listed(k)' = Listed(k) \ {spaces[k][j]}
           /\ DOMAIN spaces'[k] = 1 .. Len(spaces[k]) - 1
           /\ \A i \in DOMAIN spaces'[k] :
                  spaces'[k][i] = IF i < j THEN spaces[k][i] ELSE spaces[k][i + 1]
<1> DEFINE p == spaces[k]
           q == RemoveAt(p, j)
<1>1. /\ p \in Seq(Space) /\ Len(p) \in Nat /\ DOMAIN p = 1 .. Len(p) /\ j \in 1 .. Len(p)
      /\ spaces' = [spaces EXCEPT ![k] = q]
  BY ListIs
<1>2. /\ q \in Seq(Space) /\ Len(q) = Len(p) - 1
      /\ \A i \in 1 .. Len(p) - 1 : q[i] = IF i < j THEN p[i] ELSE p[i + 1]
  BY <1>1, RemoveAtIs
<1>3. DOMAIN q = 1 .. Len(p) - 1
  BY <1>2
<1>4. /\ \A i \in DOMAIN p : p[i].start <= p[i].end
      /\ \A i, n \in DOMAIN p : p[i].start = p[n].start => i = n
  BY DEF ListsInv
<1> HIDE DEF p, q
<1>5. \A i \in DOMAIN q : \E o \in DOMAIN p :
          q[i] = p[o] /\ o # j /\ (o = IF i < j THEN i ELSE i + 1)
  <2>1. ASSUME NEW i \in DOMAIN q
        PROVE  \E o \in DOMAIN p : q[i] = p[o] /\ o # j /\ (o = IF i < j THEN i ELSE i + 1)
    <3>1. CASE i < j
      BY <1>1, <1>2, <1>3, <3>1
    <3>2. CASE ~(i < j)
      <4>1. i + 1 \in DOMAIN p /\ i + 1 # j /\ q[i] = p[i + 1]
        BY <1>1, <1>2, <1>3, <3>2
      <4> QED
        BY <3>2, <4>1
    <3> QED
      BY <3>1, <3>2
  <2> QED
    BY <2>1
<1>6. \A i \in DOMAIN q : q[i].start <= q[i].end
  BY <1>4, <1>5
<1>7. ASSUME NEW i \in DOMAIN q, NEW n \in DOMAIN q, q[i].start = q[n].start
      PROVE  i = n
  <2>1. PICK o \in DOMAIN p : q[i] = p[o] /\ o # j /\ (o = IF i < j THEN i ELSE i + 1)
    BY <1>5
  <2>2. PICK m \in DOMAIN p : q[n] = p[m] /\ m # j /\ (m = IF n < j THEN n ELSE n + 1)
    BY <1>5
  <2>3. o = m
    BY <1>4, <1>7, <2>1, <2>2
  <2>4. i \in Nat /\ n \in Nat /\ j \in Nat
    BY <1>1, <1>3
  <2> QED
    BY <2>1, <2>2, <2>3, <2>4
<1>8. Changes(k) /\ spaces'[k] = q
  BY <1>1, <1>2, <1>6, <1>7, ChangesIs
<1>9. {q[i] : i \in DOMAIN q} = {p[i] : i \in DOMAIN p} \ {p[j]}
  <2>1. \A i \in DOMAIN q : \E o \in DOMAIN p : q[i] = p[o] /\ p[o] # p[j]
    BY <1>1, <1>4, <1>5
  <2>2. ASSUME NEW o \in DOMAIN p, p[o] # p[j]
        PROVE  \E i \in DOMAIN q : q[i] = p[o]
    <3>1. CASE o < j
      BY <1>1, <1>2, <1>3, <3>1
    <3>2. CASE o > j
      <4>1. o - 1 \in DOMAIN q /\ ~(o - 1 < j) /\ o - 1 + 1 = o
        BY <1>1, <1>3, <3>2
      <4> QED
        BY <1>2, <1>3, <4>1
    <3> QED
      BY <1>1, <2>2, <3>1, <3>2
  <2> QED
    BY <2>1, <2>2
<1>10. Listed(k)' = Listed(k) \ {p[j]}
  BY <1>8, <1>9 DEF Listed, p
<1> QED
  BY <1>2, <1>3, <1>8, <1>10 DEF p

\* demu_link_space.
LEMMA PutIs ==
    ASSUME TypeOK, ListsInv, NEW k \in Kinds, NEW s \in Space,
           spaces' = [spaces EXCEPT ![k] = <<s>> \o @],
           s.start <= s.end, \A t \in Listed(k) : t.start # s.start
    PROVE  /\ Changes(k) /\ Listed(k)' = Listed(k) \cup {s}
           /\ DOMAIN spaces'[k] = 1 .. Len(spaces[k]) + 1 /\ spaces'[k][1] = s
           /\ \A i \in 2 .. Len(spaces[k]) + 1 : spaces'[k][i] = spaces[k][i - 1]
<1> DEFINE p == spaces[k]
           q == <<s>> \o p
<1>1. /\ p \in Seq(Space) /\ Len(p) \in Nat /\ DOMAIN p = 1 .. Len(p)
      /\ spaces' = [spaces EXCEPT ![k] = q]
  BY ListIs
<1>2. <<s>> \in Seq(Space) /\ Len(<<s>>) = 1 /\ <<s>>[1] = s
  OBVIOUS
<1>3. /\ q \in Seq(Space) /\ Len(q) = Len(p) + 1
      /\ \A i \in 1 .. Len(p) + 1 : q[i] = IF i <= 1 THEN <<s>>[i] ELSE p[i - 1]
  BY <1>1, <1>2, ConcatProperties
<1> HIDE DEF q
<1>4. DOMAIN q = 1 .. Len(p) + 1 /\ q[1] = s /\ \A i \in 2 .. Len(p) + 1 : q[i] = p[i - 1]
  BY <1>1, <1>2, <1>3
<1>5. /\ \A i \in DOMAIN p : p[i].start <= p[i].end /\ p[i].start # s.start
      /\ \A i, n \in DOMAIN p : p[i].start = p[n].start => i = n
  BY DEF ListsInv, Listed
<1> HIDE DEF p
<1>6. \A i \in DOMAIN q : i = 1 \/ (i \in 2 .. Len(p) + 1 /\ i - 1 \in DOMAIN p /\ q[i] = p[i - 1])
  BY <1>1, <1>4
<1>7. \A i \in DOMAIN q : q[i].start <= q[i].end
  BY <1>4, <1>5, <1>6
<1>8. ASSUME NEW i \in DOMAIN q, NEW n \in DOMAIN q, q[i].start = q[n].start
      PROVE  i = n
  <2>1. CASE i = 1 \/ n = 1
    BY <1>4, <1>5, <1>6, <1>8, <2>1
  <2>2. CASE i # 1 /\ n # 1
    <3>1. i - 1 = n - 1 /\ i \in 2 .. Len(p) + 1 /\ n \in 2 .. Len(p) + 1
      BY <1>5, <1>6, <1>8, <2>2
    <3> QED
      BY <1>1, <3>1
  <2> QED
    BY <2>1, <2>2
<1>9. Changes(k) /\ spaces'[k] = q
  BY <1>1, <1>3, <1>7, <1>8, ChangesIs
<1>10. {q[i] : i \in DOMAIN q} = {p[i] : i \in DOMAIN p} \cup {s}
  <2>1. \A i \in DOMAIN p : i + 1 \in DOMAIN q /\ q[i + 1] = p[i]
    BY <1>1, <1>4
  <2>2. 1 \in DOMAIN q /\ q[1] = s
    BY <1>1, <1>4
  <2>3. \A i \in DOMAIN q : q[i] = s \/ \E o \in DOMAIN p : q[i] = p[o]
    BY <1>4, <1>6
  <2>4. \A o \in DOMAIN p : \E i \in DOMAIN q : q[i] = p[o]
    BY <2>1
  <2> QED
    BY ONLY <2>2, <2>3, <2>4
<1>11. Listed(k)' = Listed(k) \cup {s}
  BY <1>9, <1>10 DEF Listed, p
<1> QED
  BY <1>4, <1>9, <1>11 DEF p

\* A space is marked as mapped.
LEMMA MarkedIs ==
    ASSUME TypeOK, ListsInv, NEW k \in Kinds, NEW j \in DOMAIN spaces[k],
           spaces' = [spaces EXCEPT ![k][j].init = TRUE]
    PROVE  /\ Changes(k)
           /\ DOMAIN spaces'[k] = DOMAIN spaces[k]
           /\ \A i \in DOMAIN spaces[k] :
                  /\ spaces'[k][i].start = spaces[k][i].start
                  /\ spaces'[k][i].end = spaces[k][i].end
                  /\ spaces'[k][i].owner = spaces[k][i].owner
                  /\ i # j => spaces'[k][i] = spaces[k][i]
           /\ spaces'[k][j].init
<1> DEFINE p == spaces[k]
           s == [p[j] EXCEPT !.init = TRUE]
           q == [p EXCEPT ![j] = s]
<1>1. /\ p \in Seq(Space) /\ p[j] \in Space /\ j \in DOMAIN p /\ j \in 1 .. Len(p)
      /\ spaces' = [spaces EXCEPT ![k] = q]
  BY ListIs
<1>2. /\ s \in Space /\ s.init
      /\ s.start = p[j].start /\ s.end = p[j].end /\ s.owner = p[j].owner
  BY <1>1 DEF Space
<1>3. /\ \A i \in DOMAIN p : p[i].start <= p[i].end
      /\ \A i, n \in DOMAIN p : p[i].start = p[n].start => i = n
  BY DEF ListsInv
<1> HIDE DEF s, p
<1>4. q \in Seq(Space)
  BY ONLY <1>1, <1>2, ExceptSeq
<1>5. DOMAIN q = DOMAIN p /\ q[j] = s /\ \A i \in DOMAIN p : i # j => q[i] = p[i]
  BY DEF p
<1> HIDE DEF q
<1>6. \A i \in DOMAIN p : q[i].start = p[i].start /\ q[i].end = p[i].end /\ q[i].owner = p[i].owner
  BY <1>2, <1>5
<1>7. \A i \in DOMAIN q : q[i].start <= q[i].end
  BY <1>3, <1>5, <1>6
<1>8. \A i, n \in DOMAIN q : q[i].start = q[n].start => i = n
  BY <1>3, <1>5, <1>6
<1>9. spaces' = [spaces EXCEPT ![k] = q]
  BY <1>1
<1>10. Changes(k) /\ spaces'[k] = q
  BY <1>4, <1>7, <1>8, <1>9, ChangesIs
<1> QED
  BY <1>2, <1>5, <1>6, <1>10 DEF p

-----------------------------------------------------------------------------
(* Steps that move no space.                                               *)

\* What is mapped stays so: no space, no range and no mark of enable_io's or
\* of the call's changes.
LEMMA SameMapped ==
    ASSUME UNCHANGED <<spaces, server>>, amiss \subseteq amiss',
           "walk" \in dangling <=> "walk" \in dangling',
           walk' = walk \/ (walk.at # "flag" /\ walk'.at # "flag"),
           \/ call' = call /\ base' = base
           \/ /\ call.at # "flag" /\ call'.at # "flag"
              /\ call.at # "unmap" /\ call'.at # "unmap"
    PROVE  (MappedInv => MappedInv') /\ (RouteInv => RouteInv')
<1>1. \A k : Listed(k)' = Listed(k)
  BY DEF Listed
<1>2. \A k, s : Mapped(k, s)' <=> Mapped(k, s)
  BY DEF Mapped, K
<1>3. call'.at = "unmap" => call.at = "unmap" /\ Leaving' = Leaving /\ K' = K
  BY DEF Leaving, K
<1>4. call.at = "unmap" => call'.at = "unmap"
  OBVIOUS
<1>5. ASSUME MappedInv PROVE MappedInv'
  BY <1>1, <1>2, <1>3, <1>5 DEF MappedInv
<1>6. ASSUME RouteInv PROVE RouteInv'
  BY <1>1, <1>2, <1>3, <1>4, <1>6 DEF RouteInv, Covers
<1> QED
  BY <1>5, <1>6

LEMMA SameLists ==
    ASSUME UNCHANGED spaces
    PROVE  /\ ListsInv => ListsInv'
           /\ \A k : Listed(k)' = Listed(k)
           /\ \A w, k, i : Ahead(w, k, i)' <=> Ahead(w, k, i)
<1>1. ListsInv => ListsInv'
  BY DEF ListsInv
<1>2. \A k : Listed(k)' = Listed(k)
  BY DEF Listed
<1>3. \A w, k, i : Ahead(w, k, i)' <=> Ahead(w, k, i)
  BY DEF Ahead
<1> QED
  BY <1>1, <1>2, <1>3

\* The call holds no region while it is idle.
LEMMA IdleIs == NoCall.region \notin Regions /\ NoCall.at = "idle"
BY ConstantsAre DEF NoCall, Owners

LEMMA RelocateKeeps ==
    ASSUME IInv, NEW r \in Regions, NEW to \in Bases[r] \cup {NoBase}, Relocate(r, to)
    PROVE  IInv'
<1>1. /\ call = NoCall /\ UNCHANGED <<spaces, server, base, dangling, mainVars, amiss>>
      /\ call' = [region |-> r, to |-> to, end |-> 0,
                  at |-> IF base[r] # NoBase THEN "disable" ELSE "insert"]
      /\ ~(base[r] = NoBase /\ to = NoBase)
  BY DEF Relocate
<1>2. TypeOK'
  <2>1. call' \in [region : Regions \cup {NoBase}, to : Addrs \cup {NoBase}, end : Nat,
                   at : {"idle", "disable", "unmap", "insert", "test", "map", "flag", "undo"}]
    BY <1>1, ConstantsAre
  <2> QED
    BY <1>1, <2>1 DEF IInv, TypeOK, mainVars
<1>3. ListsInv'
  BY <1>1, SameLists DEF IInv
<1>4. CallInv'
  BY <1>1, IdleIs DEF CallInv, NoCall, Entered
<1>5. OwnInv'
  <2>1. \A x \in Regions : Place(x)' = Place(x)
    BY <1>1, IdleIs DEF Place, Entered, NoCall
  <2> QED
    BY <1>1, <2>1, SameLists DEF IInv, OwnInv, mainVars
<1>6. MainInv'
  BY <1>1, SameLists DEF IInv, MainInv, mainVars
<1>7. ASSUME Orderly'
      PROVE  MappedInv' /\ RouteInv' /\ WalkInv' /\ ReqInv'
  <2>1. MappedInv /\ RouteInv /\ WalkInv /\ ReqInv
    BY <1>1, <1>7 DEF IInv, Orderly
  <2>2. MappedInv' /\ RouteInv'
    BY <1>1, <2>1, SameMapped DEF NoCall, mainVars
  <2>3. WalkInv'
    BY <1>1, <2>1, SameLists DEF WalkInv, Entered, NoCall, mainVars
  <2>4. ReqInv'
    BY <1>1, <2>1, SameLists DEF ReqInv, Covers, mainVars
  <2> QED
    BY <2>2, <2>3, <2>4
<1> QED
  BY <1>2, <1>3, <1>4, <1>5, <1>6, <1>7 DEF IInv

\* What the parts of a call's step do to its fields.
CallTypes ==
    [region : Regions \cup {NoBase}, to : Addrs \cup {NoBase}, end : Nat,
     at : {"idle", "disable", "unmap", "insert", "test", "map", "flag", "undo"}]

LEMMA CallIs ==
    ASSUME TypeOK, CallInv, call.at # "idle"
    PROVE  /\ call \in CallTypes /\ call # NoCall /\ call.region \in Regions
           /\ K \in Kinds /\ Length[call.region] \in Nat \ {0}
           /\ base \in [Regions -> Addrs \cup {NoBase}]
           /\ call.to \in Addrs \cup {NoBase} /\ call.end \in Nat
           /\ call.region \notin {NoBase, "vga", "device"}
BY ConstantsAre, IdleIs DEF TypeOK, CallInv, CallTypes, K, Owners

LEMMA GoIs ==
    ASSUME TypeOK, NEW at \in {"disable", "unmap", "insert", "test", "map", "flag", "undo"}, Go(at)
    PROVE  /\ call' \in CallTypes /\ call'.at = at /\ call'.region = call.region /\ K' = K
           /\ call'.to = call.to /\ call'.end = call.end /\ base' = base
           /\ base' \in [Regions -> Addrs \cup {NoBase}]
BY DEF TypeOK, Go, CallTypes, K

LEMMA ReturnIs ==
    ASSUME TypeOK, CallInv, call.at # "idle", NEW ok \in BOOLEAN, Return(ok)
    PROVE  /\ call' \in CallTypes /\ call' = NoCall
           /\ base' \in [Regions -> Addrs \cup {NoBase}]
           /\ \A r \in Regions : base'[r] = IF ok /\ r = call.region THEN call.to ELSE base[r]
<1>1. NoCall \in CallTypes
  BY DEF NoCall, CallTypes
<1>2. base \in [Regions -> Addrs \cup {NoBase}] /\ call.to \in Addrs \cup {NoBase}
  BY CallIs
<1> QED
  BY <1>1, <1>2 DEF Return

\* With the old range out of the way the call goes on or is over; either way
\* the region has no space.
LEMMA DisabledIs ==
    ASSUME TypeOK, CallInv, call.at \in {"disable", "unmap"}, Disabled
    PROVE  /\ call' \in CallTypes /\ call'.at \in {"idle", "insert"}
           /\ base' \in [Regions -> Addrs \cup {NoBase}]
           /\ CallInv'
           /\ \A r \in Regions : Place(r)' = IF r = call.region THEN NoBase ELSE Place(r)
<1>1. call.at # "idle"
  OBVIOUS
<1>2. CASE call.to = NoBase
  <2>1. Return(TRUE)
    BY <1>2 DEF Disabled
  <2>2. /\ call' \in CallTypes /\ call' = NoCall
        /\ base' \in [Regions -> Addrs \cup {NoBase}]
        /\ \A r \in Regions : base'[r] = IF r = call.region THEN NoBase ELSE base[r]
    BY <1>1, <1>2, <2>1, ReturnIs
  <2>3. CallInv'
    BY <2>2, IdleIs DEF CallInv, Entered
  <2>4. \A r \in Regions : Place(r)' = IF r = call.region THEN NoBase ELSE Place(r)
    BY <2>2, IdleIs DEF Place
  <2> QED
    BY <2>2, <2>3, <2>4, IdleIs
<1>3. CASE call.to # NoBase
  <2>1. Go("insert")
    BY <1>3 DEF Disabled
  <2>2. /\ call' \in CallTypes /\ call'.at = "insert" /\ call'.region = call.region
        /\ call'.to = call.to /\ base' = base
        /\ base' \in [Regions -> Addrs \cup {NoBase}]
    BY <2>1, GoIs
  <2>3. CallInv'
    BY <1>1, <1>3, <2>2, CallIs, IdleIs DEF CallInv, Entered
  <2>4. \A r \in Regions : Place(r)' = IF r = call.region THEN NoBase ELSE Place(r)
    BY <2>2 DEF Place, Entered
  <2> QED
    BY <2>2, <2>3, <2>4
<1> QED
  BY <1>2, <1>3

LEMMA DisableNothingKeeps ==
    ASSUME IInv, DisableNothing
    PROVE  IInv'
<1>1. /\ call.at = "disable" /\ Find(K, base[call.region]) = 0
      /\ Disabled /\ UNCHANGED <<spaces, server, dangling, mainVars, amiss>>
  BY DEF DisableNothing
<1>2. TypeOK /\ ListsInv /\ CallInv /\ OwnInv /\ MainInv
  BY DEF IInv
<1>3. /\ call' \in CallTypes /\ call'.at \in {"idle", "insert"} /\ CallInv'
      /\ base' \in [Regions -> Addrs \cup {NoBase}]
  BY <1>1, <1>2, DisabledIs
<1>4. TypeOK'
  BY <1>1, <1>2, <1>3 DEF TypeOK, mainVars, CallTypes
<1>5. ListsInv'
  BY <1>1, <1>2, SameLists
\* The region's space would have been found.
<1>6. "slipped" \in amiss
  <2>1. K \in Kinds /\ call.region \in Regions /\ base[call.region] # NoBase
    BY <1>1, <1>2, CallIs DEF CallInv
  <2>2. \A i \in DOMAIN spaces[K] : ~Covers(spaces[K][i], base[call.region])
    BY <1>1, <1>2, <2>1, FindIs
  <2>3. \A s \in Listed(K) : ~(s.start = base[call.region])
    BY <1>2, <2>1, <2>2, ListIs DEF ListsInv, Listed, Covers
  <2> QED
    BY <1>1, <1>2, <2>1, <2>3 DEF OwnInv, Place, K
<1>7. OwnInv'
  BY <1>1, <1>6 DEF OwnInv
<1>8. MainInv'
  BY <1>1, <1>2, SameLists DEF MainInv, mainVars
<1>9. ASSUME Orderly'
      PROVE  MappedInv' /\ RouteInv' /\ WalkInv' /\ ReqInv'
  <2>1. MappedInv /\ RouteInv /\ WalkInv /\ ReqInv
    BY <1>1, <1>9 DEF IInv, Orderly
  <2>2. MappedInv' /\ RouteInv'
    BY <1>1, <1>3, <2>1, SameMapped DEF mainVars
  <2>3. WalkInv'
    BY <1>1, <1>3, <2>1, SameLists DEF WalkInv, Entered, mainVars
  <2>4. ReqInv'
    BY <1>1, <2>1, SameLists DEF ReqInv, Covers, mainVars
  <2> QED
    BY <2>2, <2>3, <2>4
<1> QED
  BY <1>3, <1>4, <1>5, <1>7, <1>8, <1>9 DEF IInv

LEMMA DisableAssertsKeeps ==
    ASSUME IInv, DisableAsserts
    PROVE  IInv'
<1>1. /\ call.at = "disable" /\ Exact(K, base[call.region]) = 0
      /\ mpc' = "aborted" /\ UNCHANGED <<callVars, ioUp, walk, req, cur, amiss>>
  BY DEF DisableAsserts
<1>2. TypeOK /\ ListsInv /\ CallInv /\ OwnInv /\ MainInv
  BY DEF IInv
<1>3. TypeOK'
  BY <1>1, <1>2 DEF TypeOK, callVars
<1>4. ListsInv'
  BY <1>1, <1>2, SameLists DEF callVars
<1>5. CallInv'
  BY <1>1, <1>2 DEF CallInv, callVars, Entered, K
\* The region's space begins at its base.
<1>6. "slipped" \in amiss
  <2>1. K \in Kinds /\ call.region \in Regions /\ base[call.region] # NoBase
    BY <1>1, <1>2, CallIs DEF CallInv
  <2>2. \A i \in DOMAIN spaces[K] : spaces[K][i].start # base[call.region]
    BY <1>1, <1>2, <2>1, ExactIs, ListIs
  <2>3. \A s \in Listed(K) : s.start # base[call.region]
    BY <2>2 DEF Listed
  <2> QED
    BY <1>1, <1>2, <2>1, <2>3 DEF OwnInv, Place, K
<1>7. OwnInv'
  BY <1>1, <1>6 DEF OwnInv
<1>8. MainInv'
  BY <1>1, <1>2, SameLists DEF MainInv, callVars
<1>9. ASSUME Orderly'
      PROVE  MappedInv' /\ RouteInv' /\ WalkInv' /\ ReqInv'
  <2>1. MappedInv /\ RouteInv /\ WalkInv /\ ReqInv
    BY <1>1, <1>9 DEF IInv, Orderly
  <2>2. MappedInv' /\ RouteInv'
    BY <1>1, <2>1, SameMapped DEF callVars
  <2>3. WalkInv'
    BY <1>1, <2>1, SameLists DEF WalkInv, callVars
  <2>4. ReqInv'
    BY <1>1, <2>1, SameLists DEF ReqInv, Covers, callVars
  <2> QED
    BY <2>2, <2>3, <2>4
<1> QED
  BY <1>3, <1>4, <1>5, <1>7, <1>8, <1>9 DEF IInv

-----------------------------------------------------------------------------
(* A space is given up (demu_deregister_space).                            *)

\* The space at place j of list k is the one enable_io is at.
WalkHolds(k, j) == walk.kind = k /\ walk.start = spaces[k][j].start

LEMMA UnlinkIs ==
    ASSUME TypeOK, ListsInv, NEW k \in Kinds, NEW j \in DOMAIN spaces[k], Unlink(k, j)
    PROVE  /\ Changes(k) /\ Listed(k)' = Listed(k) \ {spaces[k][j]}
           /\ DOMAIN spaces'[k] = 1 .. Len(spaces[k]) - 1
           /\ \A i \in DOMAIN spaces'[k] :
                  spaces'[k][i] = IF i < j THEN spaces[k][i] ELSE spaces[k][i + 1]
           /\ "walk" \in dangling' <=> "walk" \in dangling \/ WalkHolds(k, j)
           /\ dangling' \subseteq {"walk", "cur"}
           /\ req'.left = req.left /\ (req = NoReq => req' = NoReq)
           /\ req' \in [kind : Kinds, addr : Nat, left : 0 .. 2, first : BOOLEAN,
                         owner : Owners \cup {NoBase}, moved : BOOLEAN]
           /\ \/ req.left > 0 /\ req.kind = k /\ Covers(spaces[k][j], req.addr) /\ req'.moved
              \/ req' = req /\ ~(req.left > 0 /\ req.kind = k /\ Covers(spaces[k][j], req.addr))
<1>1. spaces' = [spaces EXCEPT ![k] = RemoveAt(@, j)]
  BY DEF Unlink
<1>2. /\ Changes(k) /\ Listed(k)' = Listed(k) \ {spaces[k][j]}
      /\ DOMAIN spaces'[k] = 1 .. Len(spaces[k]) - 1
      /\ \A i \in DOMAIN spaces'[k] :
             spaces'[k][i] = IF i < j THEN spaces[k][i] ELSE spaces[k][i + 1]
  BY <1>1, RemovedIs
<1>3. /\ "walk" \in dangling' <=> "walk" \in dangling \/ WalkHolds(k, j)
      /\ dangling' \subseteq {"walk", "cur"}
  BY DEF Unlink, WalkHolds, TypeOK
<1>4. /\ req' = IF req.left > 0 /\ req.kind = k /\ Covers(spaces[k][j], req.addr)
                THEN [req EXCEPT !.moved = TRUE] ELSE req
      /\ req \in [kind : Kinds, addr : Nat, left : 0 .. 2, first : BOOLEAN,
                  owner : Owners \cup {NoBase}, moved : BOOLEAN]
  BY DEF Unlink, TypeOK
<1>5. NoReq.left = 0
  BY DEF NoReq
<1>6. req'.left = req.left /\ (req = NoReq => req' = NoReq)
  BY <1>4, <1>5
<1>7. req' \in [kind : Kinds, addr : Nat, left : 0 .. 2, first : BOOLEAN,
               owner : Owners \cup {NoBase}, moved : BOOLEAN]
  BY <1>4
<1>8. \/ req.left > 0 /\ req.kind = k /\ Covers(spaces[k][j], req.addr) /\ req'.moved
      \/ req' = req /\ ~(req.left > 0 /\ req.kind = k /\ Covers(spaces[k][j], req.addr))
  BY <1>4
<1> QED
  BY <1>2, <1>3, <1>6, <1>7, <1>8

\* What the walk and the request keep when the space goes.
LEMMA UnlinkKeeps ==
    ASSUME TypeOK, ListsInv, CallInv, MainInv,
           NEW k \in Kinds, NEW j \in DOMAIN spaces[k], Unlink(k, j),
           UNCHANGED <<ioUp, mpc, walk>>
    PROVE  /\ MainInv'
           /\ ReqInv => ReqInv'
           /\ WalkInv /\ (Entered => k = K /\ j = 1) => WalkInv'
<1>1. /\ Changes(k) /\ Listed(k)' = Listed(k) \ {spaces[k][j]}
      /\ DOMAIN spaces'[k] = 1 .. Len(spaces[k]) - 1
      /\ \A i \in DOMAIN spaces'[k] :
             spaces'[k][i] = IF i < j THEN spaces[k][i] ELSE spaces[k][i + 1]
      /\ "walk" \in dangling' <=> "walk" \in dangling \/ WalkHolds(k, j)
      /\ req'.left = req.left /\ (req = NoReq => req' = NoReq)
      /\ \/ req.left > 0 /\ req.kind = k /\ Covers(spaces[k][j], req.addr) /\ req'.moved
         \/ req' = req /\ ~(req.left > 0 /\ req.kind = k /\ Covers(spaces[k][j], req.addr))
  BY UnlinkIs
<1>2. \A l \in Kinds : l # k => spaces'[l] = spaces[l] /\ Listed(l)' = Listed(l)
  BY <1>1 DEF Changes
<1>3. DOMAIN spaces[k] = 1 .. Len(spaces[k]) /\ Len(spaces[k]) \in Nat /\ j \in Nat
  BY ListIs
<1>4. spaces[k][j] \in Listed(k) /\ spaces[k][j].start \in Nat
  BY ListIs DEF Listed
<1>5. walk.kind \in Kinds /\ req.kind \in Kinds
  BY DEF TypeOK
<1>6. MainInv'
  <2>1. mpc \in {"enable", "failed", "aborted"} \/ (walk = NoWalk /\ "walk" \notin dangling')
    BY <1>1, <1>4, ConstantsAre DEF MainInv, WalkHolds, NoWalk
  <2>2. ASSUME mpc = "enable", "walk" \notin dangling'
        PROVE  \E s \in Listed(walk.kind)' : s.start = walk.start
    <3>1. PICK s \in Listed(walk.kind) : s.start = walk.start
      BY <1>1, <2>2 DEF MainInv
    <3>2. ~WalkHolds(k, j)
      BY <1>1, <2>2
    <3>3. s \in Listed(walk.kind)'
      BY <1>1, <1>2, <1>5, <3>1, <3>2 DEF WalkHolds
    <3> QED
      BY <3>1, <3>3
  <2> QED
    BY <1>1, <2>1, <2>2 DEF MainInv
<1>7. ASSUME ReqInv
      PROVE  ReqInv'
  <2>1. SUFFICES ASSUME req'.left > 0, ~req'.moved
                 PROVE  \E s \in Listed(req.kind)' :
                            s.init /\ Covers(s, req.addr)' /\ s.owner = req'.owner
    BY DEF ReqInv, Covers
  <2>2. req' = req /\ ~(req.kind = k /\ Covers(spaces[k][j], req.addr))
    BY <1>1, <2>1
  <2>3. PICK s \in Listed(req.kind) : s.init /\ Covers(s, req.addr) /\ s.owner = req.owner
    BY <1>7, <2>1, <2>2 DEF ReqInv
  <2>4. s \in Listed(req.kind)'
    BY <1>1, <1>2, <1>5, <2>2, <2>3
  <2> QED
    BY <2>2, <2>3, <2>4 DEF Covers
<1>8. ASSUME WalkInv, Entered => k = K /\ j = 1
      PROVE  WalkInv'
  <2>1. SUFFICES ASSUME NEW l \in Kinds, NEW i \in DOMAIN spaces'[l]
                 PROVE  \/ spaces'[l][i].init
                        \/ mpc \in {"config", "failed", "aborted"}
                        \/ mpc = "enable" /\ ("walk" \in dangling' \/ Ahead(walk, l, i)')
    BY DEF WalkInv
  \* The space's place before.
  <2> DEFINE o == IF l = k /\ ~(i < j) THEN i + 1 ELSE i
  <2>2. o \in DOMAIN spaces[l] /\ spaces'[l][i] = spaces[l][o] /\ (l = k => o # j)
    BY <1>1, <1>2, <1>3
  <2>3. \/ spaces[l][o].init
        \/ mpc \in {"config", "failed", "aborted"}
        \/ mpc = "enable" /\ ("walk" \in dangling \/ Ahead(walk, l, o))
    <3> HIDE DEF o
    <3> QED
      BY <1>8, <2>1, <2>2 DEF WalkInv
  <2>4. ASSUME "walk" \notin dangling', Ahead(walk, l, o)
        PROVE  Ahead(walk, l, i)'
    <3>1. CASE ListAfter(walk.kind) < ListAfter(l)
      BY <3>1 DEF Ahead
    <3>2. CASE l = walk.kind /\ \E n \in 1 .. o : spaces[l][n].start = walk.start
      <4>1. PICK n \in 1 .. o : spaces[l][n].start = walk.start
        BY <3>2
      <4>2. l = k => n # j
        BY <1>1, <2>4, <3>2, <4>1 DEF WalkHolds
      <4> DEFINE m == IF l = k /\ ~(n < j) THEN n - 1 ELSE n
      <4>3. CASE l # k
        BY <1>2, <3>2, <4>1, <4>3 DEF Ahead
      <4>4. CASE l = k
        <5>1. i \in 1 .. Len(spaces[k]) - 1 /\ n \in 1 .. o /\ n # j /\ o # j
          BY <1>1, <2>1, <2>2, <4>1, <4>2, <4>4
        <5>2. m \in 1 .. i /\ m \in 1 .. Len(spaces[k]) - 1
          BY <1>3, <4>4, <5>1
        <5>3. (IF m < j THEN m ELSE m + 1) = n
          BY <1>3, <4>4, <5>1
        <5>4. spaces'[k][m] = spaces[k][n]
          BY <1>1, <5>2, <5>3
        <5> QED
          BY <3>2, <4>1, <4>4, <5>2, <5>4 DEF Ahead
      <4> QED
        BY <4>3, <4>4
    <3> QED
      BY <2>4, <3>1, <3>2 DEF Ahead
  <2> HIDE DEF o
  <2> QED
    BY <1>1, <2>2, <2>3, <2>4
<1> QED
  BY <1>6, <1>7, <1>8

LEMMA DisableKeeps ==
    ASSUME IInv, Disable
    PROVE  IInv'
<1>1. TypeOK /\ ListsInv /\ CallInv /\ OwnInv /\ MainInv /\ call.at = "disable"
  BY DEF IInv, Disable
<1>2. PICK k \in Kinds : k = K
  BY <1>1, CallIs
<1>3. PICK i : i = Find(k, base[call.region])
  OBVIOUS
<1>4. PICK j : j = Exact(k, base[call.region])
  OBVIOUS
<1>5. /\ i # 0 /\ j # 0 /\ Unlink(k, j) /\ UNCHANGED <<server, ioUp, mpc, walk, cur>>
      /\ IF spaces[k][i].init
         THEN /\ call' = [call EXCEPT !.at = "unmap", !.end = spaces[k][j].end]
              /\ UNCHANGED base
         ELSE Disabled
      /\ amiss' = IF i # j THEN amiss \cup {"crossed"} ELSE amiss
  BY <1>2, <1>3, <1>4 DEF Disable, Note
<1>6. /\ call.region \in Regions /\ base[call.region] # NoBase
      /\ call \in CallTypes /\ base \in [Regions -> Addrs \cup {NoBase}]
      /\ call.region \notin {"vga", "device"}
  BY <1>1, CallIs DEF CallInv
<1>7. /\ j \in DOMAIN spaces[k] /\ spaces[k][j].start = base[call.region]
      /\ \A n \in DOMAIN spaces[k] : spaces[k][n].start = base[call.region] => n = j
  BY <1>1, <1>4, <1>5, ExactIs
<1>8. PICK s \in Listed(k) : s = spaces[k][j]
  BY <1>7 DEF Listed
<1>9. s.start \in Nat /\ s.end \in Nat /\ s.init \in BOOLEAN /\ s.start = base[call.region]
  BY <1>1, <1>7, <1>8, ListIs
<1>10. /\ Changes(k) /\ Listed(k)' = Listed(k) \ {s}
       /\ "walk" \in dangling' <=> "walk" \in dangling \/ WalkHolds(k, j)
       /\ dangling' \subseteq {"walk", "cur"}
       /\ req' \in [kind : Kinds, addr : Nat, left : 0 .. 2, first : BOOLEAN,
                   owner : Owners \cup {NoBase}, moved : BOOLEAN]
  BY <1>1, <1>5, <1>7, <1>8, UnlinkIs
<1>11. /\ call' \in CallTypes /\ CallInv' /\ base' \in [Regions -> Addrs \cup {NoBase}]
       /\ call'.at \in {"idle", "insert", "unmap"}
       /\ \A r \in Regions : Place(r)' = IF r = call.region THEN NoBase ELSE Place(r)
       /\ call'.at = "unmap" => spaces[k][i].init /\ K' = k /\ Leaving' = s.start .. s.end
       /\ spaces[k][i].init => call'.at = "unmap"
  <2>1. CASE spaces[k][i].init
    <3>1. /\ call' = [call EXCEPT !.at = "unmap", !.end = s.end] /\ base' = base
          /\ call' \in CallTypes /\ call'.at = "unmap" /\ call'.end = s.end
          /\ call'.region = call.region
      BY <1>5, <1>6, <1>8, <1>9, <2>1 DEF CallTypes
    <3>2. K' = k /\ Leaving' = s.start .. s.end
      BY <1>2, <1>9, <3>1 DEF K, Leaving
    <3>3. CallInv'
      BY <1>6, <3>1, IdleIs DEF CallInv, Entered
    <3>4. \A r \in Regions : Place(r)' = IF r = call.region THEN NoBase ELSE Place(r)
      BY <3>1 DEF Place, Entered
    <3>5. /\ call'.at \in {"idle", "insert", "unmap"}
          /\ base' \in [Regions -> Addrs \cup {NoBase}]
      BY <1>6, <3>1
    <3> QED
      BY ONLY <2>1, <3>1, <3>2, <3>3, <3>4, <3>5
  <2>2. CASE ~spaces[k][i].init
    BY <1>1, <1>5, <2>2, DisabledIs
  <2> QED
    BY <2>1, <2>2
<1>12. TypeOK'
  BY <1>1, <1>5, <1>10, <1>11 DEF TypeOK, Changes, Lists1, CallTypes, Mishaps
<1>13. OwnInv'
  <2>1. SUFFICES ASSUME "slipped" \notin amiss, NEW r \in Regions
                 PROVE  /\ \A t \in Listed(Kind[r])' : t.owner = r => t.start = Place(r)'
                        /\ Place(r)' # NoBase => \E t \in Listed(Kind[r])' : t.owner = r
    BY <1>1, <1>5 DEF OwnInv
  <2>2. \A x \in Regions :
            /\ \A t \in Listed(Kind[x]) : t.owner = x => t.start = Place(x)
            /\ Place(x) # NoBase => \E t \in Listed(Kind[x]) : t.owner = x
    BY <1>1, <2>1 DEF OwnInv
  <2>3. Place(call.region) = base[call.region] /\ k = Kind[call.region]
    BY <1>1, <1>2 DEF Place, K
  \* The space given up is the region's own.
  <2>4. PICK u \in Listed(k) : u.owner = call.region
    BY <1>6, <2>2, <2>3
  <2>5. u = s /\ s.owner = call.region
    BY <1>1, <1>6, <1>9, <2>2, <2>3, <2>4, SameSpace
  <2>6. Kind[r] \in Kinds /\ \A l \in Kinds : l # k => Listed(l)' = Listed(l)
    BY <1>10, ConstantsAre DEF Changes
  <2>7. CASE r = call.region
    <3>1. \A t \in Listed(k) : t.owner = r => t = s
      BY <1>1, <1>6, <1>9, <2>2, <2>3, <2>7, SameSpace
    <3> QED
      BY <1>10, <1>11, <2>3, <2>7, <3>1
  <2>8. CASE r # call.region
    <3>1. Place(r)' = Place(r)
      BY <1>11, <2>8
    <3>2. \A t \in Listed(Kind[r])' : t \in Listed(Kind[r])
      BY <1>10, <2>6
    <3>3. \A t \in Listed(Kind[r]) : t.owner = r => t \in Listed(Kind[r])'
      BY <1>10, <2>5, <2>6, <2>8
    <3> QED
      BY <2>2, <3>1, <3>2, <3>3
  <2> QED
    BY <2>7, <2>8
<1>14. MainInv'
  BY <1>1, <1>5, <1>7, UnlinkKeeps
<1>15. ASSUME Orderly'
       PROVE  MappedInv' /\ RouteInv' /\ WalkInv' /\ ReqInv'
  <2>1. MappedInv /\ RouteInv /\ WalkInv /\ ReqInv /\ i = j
    BY <1>5, <1>15 DEF IInv, Orderly
  <2>2. WalkInv' /\ ReqInv'
    BY <1>1, <1>5, <1>7, <2>1, UnlinkKeeps DEF Entered
  <2>3. \A l \in Kinds : l # k => Listed(l)' = Listed(l)
    BY <1>10 DEF Changes
  <2>4. \A l \in Kinds : \A t \in Listed(l)' : t \in Listed(l) /\ (l = k => t # s)
    BY <1>10, <2>3
  <2>5. \A l \in Kinds : \A t \in Listed(l) : t \in Listed(l)' \/ (l = k /\ t = s)
    BY <1>10, <2>3
  <2>6. \A l, t : Mapped(l, t)' => Mapped(l, t)
    BY <1>5, <1>10, <1>11 DEF Mapped
  <2>7. \A l, t : Mapped(l, t) /\ "walk" \notin dangling' => Mapped(l, t)'
    BY <1>1, <1>5, <1>10 DEF Mapped
  <2>8. call'.at = "unmap" => s.init /\ K' = k /\ Leaving' = Extent(s)
    BY <1>8, <1>11, <2>1 DEF Extent
  <2>9. MappedInv'
    <3>1. \A l \in Kinds : \A t \in Listed(l)' : Mapped(l, t)' => Extent(t) \subseteq server'[l]
      BY <1>5, <2>1, <2>4, <2>6 DEF MappedInv
    <3>2. \A l \in Kinds : \A t, u \in Listed(l)' :
              Mapped(l, t)' /\ Mapped(l, u)' /\ t # u => Extent(t) \cap Extent(u) = {}
      BY <2>1, <2>4, <2>6 DEF MappedInv
    <3>3. ASSUME call'.at = "unmap"
          PROVE  /\ Leaving' \subseteq server'[k]
                 /\ \A t \in Listed(k)' : Mapped(k, t)' => Extent(t) \cap Leaving' = {}
      <4>1. Mapped(k, s)
        BY <2>8, <3>3 DEF Mapped
      <4> QED
        BY <1>5, <2>1, <2>4, <2>6, <2>8, <3>3, <4>1 DEF MappedInv
    <3>4. call'.at = "unmap" => K' = k
      BY <2>8
    <3> QED
      BY <3>1, <3>2, <3>3, <3>4 DEF MappedInv, Extent
  <2>10. RouteInv'
    <3>1. SUFFICES ASSUME "collided" \notin amiss, "walk" \notin dangling',
                          NEW l \in Kinds, NEW a \in server[l]
                   PROVE  \/ \E t \in Listed(l)' : Mapped(l, t)' /\ Covers(t, a)
                          \/ call'.at = "unmap" /\ l = K' /\ a \in Leaving'
      BY <1>5 DEF RouteInv, Covers
    <3>2. PICK t \in Listed(l) : Mapped(l, t) /\ Covers(t, a)
      BY <1>1, <1>10, <2>1, <3>1 DEF RouteInv
    <3>3. CASE l = k /\ t = s
      <4>1. ~WalkHolds(k, j)
        BY <1>10, <3>1
      <4>2. s.init
        BY <1>1, <1>8, <3>2, <3>3, <4>1 DEF Mapped, WalkHolds
      <4>3. a \in Nat
        BY <1>1, <3>1 DEF TypeOK
      <4>4. a \in Extent(s)
        BY <1>9, <3>2, <3>3, <4>3 DEF Covers, Extent
      <4> QED
        BY <1>8, <1>11, <2>1, <2>8, <3>3, <4>2, <4>4
    <3>4. CASE ~(l = k /\ t = s)
      BY <2>5, <2>7, <3>1, <3>2, <3>4
    <3> QED
      BY <3>3, <3>4
  <2> QED
    BY <2>2, <2>9, <2>10
<1> QED
  BY <1>10, <1>11, <1>12, <1>13, <1>14, <1>15 DEF IInv, Changes

LEMMA UnmapKeeps ==
    ASSUME IInv, Unmap
    PROVE  IInv'
<1>1. /\ TypeOK /\ ListsInv /\ CallInv /\ OwnInv /\ MainInv /\ call.at = "unmap"
      /\ Disabled /\ UNCHANGED <<spaces, dangling, mainVars, amiss>>
  BY DEF IInv, Unmap
<1>2. PICK k \in Kinds : k = K
  BY <1>1, CallIs
<1>3. server' = [server EXCEPT ![k] = @ \ Leaving]
  BY <1>2 DEF Unmap, Leaving
<1>4. /\ call' \in CallTypes /\ call'.at \in {"idle", "insert"} /\ CallInv'
      /\ base' \in [Regions -> Addrs \cup {NoBase}]
      /\ \A r \in Regions : Place(r)' = IF r = call.region THEN NoBase ELSE Place(r)
  BY <1>1, DisabledIs
<1>5. /\ DOMAIN server' = Kinds /\ server'[k] = server[k] \ Leaving
      /\ \A l \in Kinds : l # k => server'[l] = server[l]
      /\ \A l \in Kinds : server[l] \subseteq Nat
  BY <1>1, <1>3 DEF TypeOK
<1>6. TypeOK'
  <2>1. \A l \in Kinds : server'[l] \subseteq Nat
    BY <1>5
  <2> QED
    BY <1>1, <1>4, <1>5, <2>1 DEF TypeOK, mainVars, CallTypes
<1>7. ListsInv'
  BY <1>1, SameLists
<1>8. OwnInv'
  <2>1. \A r \in Regions : Place(r)' = Place(r)
    BY <1>1, <1>4 DEF Place, Entered
  <2> QED
    BY <1>1, <2>1, SameLists DEF OwnInv, mainVars
<1>9. MainInv'
  BY <1>1, SameLists DEF MainInv, mainVars
<1>10. ASSUME Orderly'
       PROVE  MappedInv' /\ RouteInv' /\ WalkInv' /\ ReqInv'
  <2>1. MappedInv /\ RouteInv /\ WalkInv /\ ReqInv
    BY <1>1, <1>10 DEF IInv, Orderly
  <2>2. \A l, t : Mapped(l, t)' <=> Mapped(l, t)
    BY <1>1, <1>4 DEF Mapped, mainVars
  <2>3. \A l : Listed(l)' = Listed(l)
    BY <1>1, SameLists
  <2>4. MappedInv'
    <3>1. ASSUME NEW l \in Kinds, NEW t \in Listed(l), Mapped(l, t)
          PROVE  Extent(t) \subseteq server'[l]
      <4>1. Extent(t) \subseteq server[l] /\ (l = k => Extent(t) \cap Leaving = {})
        BY <1>1, <1>2, <2>1, <3>1 DEF MappedInv
      <4> QED
        BY <1>5, <4>1
    <3> QED
      BY <1>4, <2>1, <2>2, <2>3, <3>1 DEF MappedInv, Extent
  <2>5. RouteInv'
    <3>1. SUFFICES ASSUME "collided" \notin amiss, "walk" \notin dangling,
                          NEW l \in Kinds, NEW a \in server'[l]
                   PROVE  \E t \in Listed(l) : Mapped(l, t) /\ Covers(t, a)
      BY <1>1, <2>2, <2>3 DEF RouteInv, Covers
    <3>2. a \in server[l] /\ (l = k => a \notin Leaving)
      BY <1>5, <3>1
    <3> QED
      BY <1>2, <2>1, <3>1, <3>2 DEF RouteInv
  <2>6. WalkInv'
    BY <1>1, <1>4, <2>1, SameLists DEF WalkInv, Entered, mainVars
  <2>7. ReqInv'
    BY <1>1, <2>1, <2>3 DEF ReqInv, Covers, mainVars
  <2> QED
    BY <2>4, <2>5, <2>6, <2>7
<1> QED
  BY <1>4, <1>6, <1>7, <1>8, <1>9, <1>10 DEF IInv

-----------------------------------------------------------------------------
(* A space is put up (demu_register_space).                                *)

LEMMA InsertKeeps ==
    ASSUME IInv, Insert, mpc \notin {"failed", "aborted"}
    PROVE  IInv'
<1>1. /\ TypeOK /\ ListsInv /\ CallInv /\ OwnInv /\ MainInv /\ call.at = "insert"
      /\ call.to # NoBase /\ UNCHANGED <<server, dangling, mainVars>>
  BY DEF IInv, Insert, CallInv
<1>2. PICK k \in Kinds : k = K
  BY <1>1, CallIs
<1>3. PICK r \in Regions : r = call.region
  BY <1>1, CallIs
<1>4. /\ k = Kind[r] /\ Length[r] \in Nat \ {0} /\ call.to \in Addrs /\ call.to \in Nat
      /\ base \in [Regions -> Addrs \cup {NoBase}]
  BY <1>1, <1>2, <1>3, CallIs, ConstantsAre DEF K
<1>5. CASE ~Fits
  <2>1. Return(FALSE) /\ Note("slipped", base[r] # NoBase) /\ spaces' = spaces
    BY <1>3, <1>5 DEF Insert
  <2>2. /\ call' \in CallTypes /\ call' = NoCall
        /\ base' \in [Regions -> Addrs \cup {NoBase}]
        /\ \A x \in Regions : base'[x] = base[x]
    BY <1>1, <2>1, ReturnIs
  <2>3. amiss' = IF base[r] # NoBase THEN amiss \cup {"slipped"} ELSE amiss
    BY <2>1 DEF Note
  <2>4. TypeOK'
    BY <1>1, <2>1, <2>2, <2>3 DEF TypeOK, mainVars, CallTypes, Mishaps
  <2>5. ListsInv'
    BY <1>1, <2>1, SameLists
  <2>6. CallInv'
    BY <2>2, IdleIs DEF CallInv, Entered
  <2>7. OwnInv'
    <3>1. SUFFICES ASSUME "slipped" \notin amiss'
                   PROVE  OwnInv'
      BY DEF OwnInv
    <3>2. base[r] = NoBase /\ "slipped" \notin amiss
      BY <2>3, <3>1
    <3>3. \A x \in Regions : Place(x)' = Place(x)
      BY <1>1, <1>3, <2>2, <3>2, IdleIs DEF Place, Entered
    <3> QED
      BY <1>1, <2>1, <3>2, <3>3, SameLists DEF OwnInv, mainVars
  <2>8. MainInv'
    BY <1>1, <2>1, SameLists DEF MainInv, mainVars
  <2>9. ASSUME Orderly'
        PROVE  MappedInv' /\ RouteInv' /\ WalkInv' /\ ReqInv'
    <3>1. MappedInv /\ RouteInv /\ WalkInv /\ ReqInv
      BY <2>3, <2>9 DEF IInv, Orderly
    <3>2. MappedInv' /\ RouteInv'
      BY <1>1, <2>1, <2>2, <2>3, <3>1, SameMapped, IdleIs DEF mainVars
    <3>3. WalkInv'
      BY <1>1, <2>1, <2>2, <3>1, SameLists DEF WalkInv, Entered, mainVars
    <3>4. ReqInv'
      BY <1>1, <2>1, <3>1, SameLists DEF ReqInv, Covers, mainVars
    <3> QED
      BY <3>2, <3>3, <3>4
  <2> QED
    BY <2>4, <2>5, <2>6, <2>7, <2>8, <2>9 DEF IInv
<1>6. CASE Fits
  <2>1. PICK s : s = [start |-> call.to, end |-> call.to + Length[r] - 1, owner |-> r, init |-> FALSE]
    OBVIOUS
  <2>2. /\ s \in Space /\ s.start = call.to /\ s.end = call.to + Length[r] - 1 /\ s.owner = r
        /\ ~s.init /\ s.start <= s.end
    BY <1>4, <2>1 DEF Space, Owners
  <2>3. spaces' = [spaces EXCEPT ![k] = <<s>> \o @] /\ Go("test") /\ amiss' = amiss
    BY <1>2, <1>3, <1>6, <2>1 DEF Insert
  \* No space holds the base.
  <2>4. \A t \in Listed(k) : t.start # call.to
    <3>1. \A i \in DOMAIN spaces[k] : ~Covers(spaces[k][i], call.to)
      BY <1>1, <1>2, <1>6, FindIs DEF Fits
    <3> QED
      BY <1>1, <1>4, <3>1, ListIs, SMTT(60) DEF ListsInv, Listed, Covers
  <2>5. /\ Changes(k) /\ Listed(k)' = Listed(k) \cup {s}
        /\ DOMAIN spaces'[k] = 1 .. Len(spaces[k]) + 1 /\ spaces'[k][1] = s
        /\ \A i \in 2 .. Len(spaces[k]) + 1 : spaces'[k][i] = spaces[k][i - 1]
    <3>1. /\ TypeOK /\ ListsInv /\ s \in Space /\ s.start <= s.end
          /\ \A t \in Listed(k) : t.start # s.start
      BY <1>1, <2>2, <2>4
    <3>2. spaces' = [spaces EXCEPT ![k] = <<s>> \o @]
      BY <2>3
    <3> QED
      BY ONLY <3>1, <3>2, PutIs
  <2>6. /\ call' \in CallTypes /\ call'.at = "test" /\ call'.region = r /\ K' = k
        /\ call'.to = call.to /\ base' = base
    BY <1>1, <1>2, <1>3, <2>3, GoIs
  <2>7. \A l \in Kinds : l # k => spaces'[l] = spaces[l] /\ Listed(l)' = Listed(l)
    BY <2>5 DEF Changes
  <2>8. Len(spaces[k]) \in Nat /\ DOMAIN spaces[k] = 1 .. Len(spaces[k])
    BY <1>1, ListIs
  <2>9. TypeOK'
    BY <1>1, <2>3, <2>5, <2>6 DEF TypeOK, Changes, Lists1, mainVars, CallTypes
  <2>10. CallInv'
    <3>1. spaces'[k] # <<>>
      BY <2>5, <2>8
    <3> QED
      BY <1>1, <2>2, <2>5, <2>6, <3>1, IdleIs DEF CallInv, Entered
  <2>11. OwnInv'
    <3>1. SUFFICES ASSUME "slipped" \notin amiss, NEW x \in Regions
                   PROVE  /\ \A t \in Listed(Kind[x])' : t.owner = x => t.start = Place(x)'
                          /\ Place(x)' # NoBase => \E t \in Listed(Kind[x])' : t.owner = x
      BY <1>1, <2>3 DEF OwnInv, mainVars
    <3>2. /\ \A t \in Listed(Kind[x]) : t.owner = x => t.start = Place(x)
          /\ Place(x) # NoBase => \E t \in Listed(Kind[x]) : t.owner = x
      BY <1>1, <3>1 DEF OwnInv
    <3>3. Place(x)' = IF x = r THEN call.to ELSE Place(x)
      BY <1>1, <1>3, <2>6 DEF Place, Entered
    <3>4. CASE x = r
      <4>1. \A t \in Listed(k) : t.owner # r
        BY <1>1, <1>2, <1>3, <1>4, <3>2, <3>4, ListIs, ConstantsAre DEF Place, Entered, Listed
      <4> QED
        BY <1>4, <2>2, <2>5, <3>3, <3>4, <4>1
    <3>5. CASE x # r
      <4>1. Kind[x] \in Kinds
        BY ConstantsAre
      <4> QED
        BY <2>2, <2>5, <2>7, <3>2, <3>3, <3>5, <4>1
    <3> QED
      BY <3>4, <3>5
  <2>12. MainInv'
    <3>1. \A l \in Kinds : Listed(l) \subseteq Listed(l)'
      BY <2>5, <2>7
    <3>2. walk.kind \in Kinds
      BY <1>1 DEF TypeOK
    <3> QED
      BY <1>1, <3>1, <3>2 DEF MainInv, mainVars
  <2>13. ASSUME Orderly'
         PROVE  MappedInv' /\ RouteInv' /\ WalkInv' /\ ReqInv'
    <3>1. MappedInv /\ RouteInv /\ WalkInv /\ ReqInv
      BY <2>3, <2>13 DEF IInv, Orderly
    <3>2. \A l, t : Mapped(l, t)' <=> Mapped(l, t)
      BY <1>1, <2>6 DEF Mapped, mainVars
    \* enable_io is not at the new space.
    <3>3. ~Mapped(k, s)
      BY <1>1, <2>2, <2>4 DEF Mapped, MainInv, NoWalk
    <3>4. \A l \in Kinds : \A t \in Listed(l)' : t \in Listed(l) \/ (l = k /\ t = s)
      BY <2>5, <2>7
    <3>5. \A l \in Kinds : \A t \in Listed(l) : t \in Listed(l)'
      BY <2>5, <2>7
    <3>6. MappedInv'
      BY <1>1, <2>6, <3>1, <3>2, <3>3, <3>4 DEF MappedInv, Extent
    <3>7. RouteInv'
      BY <1>1, <2>3, <3>1, <3>2, <3>5 DEF RouteInv, Covers
    <3>8. ReqInv'
      <4>1. req.kind \in Kinds
        BY <1>1 DEF TypeOK
      <4> QED
        BY <1>1, <3>1, <3>5, <4>1 DEF ReqInv, Covers, mainVars
    <3>9. WalkInv'
      <4>1. SUFFICES ASSUME NEW l \in Kinds, NEW i \in DOMAIN spaces'[l]
                     PROVE  \/ spaces'[l][i].init
                            \/ l = k /\ i = 1
                            \/ mpc = "config"
                            \/ mpc = "enable" /\ ("walk" \in dangling \/ Ahead(walk, l, i)')
        BY <1>1, <2>6 DEF WalkInv, Entered, mainVars
      <4>2. CASE l # k
        <5>1. Ahead(walk, l, i) => Ahead(walk, l, i)'
          BY <1>1, <2>7, <4>2 DEF Ahead, mainVars
        <5> QED
          BY <1>1, <2>7, <3>1, <4>1, <4>2, <5>1 DEF WalkInv, Entered
      <4>3. CASE l = k /\ i # 1
        <5>1. /\ i \in 2 .. Len(spaces[k]) + 1 /\ spaces'[l][i] = spaces[l][i - 1]
              /\ i - 1 \in DOMAIN spaces[l]
          BY <2>5, <2>8, <4>1, <4>3
        <5>2. ASSUME Ahead(walk, l, i - 1)
              PROVE  Ahead(walk, l, i)'
          <6>1. CASE ListAfter(walk.kind) < ListAfter(l)
            BY <1>1, <6>1 DEF Ahead, mainVars
          <6>2. CASE l = walk.kind /\ \E n \in 1 .. i - 1 : spaces[l][n].start = walk.start
            <7>1. PICK n \in 1 .. i - 1 : spaces[l][n].start = walk.start
              BY <6>2
            <7>2. n + 1 \in 2 .. Len(spaces[k]) + 1 /\ n + 1 - 1 = n /\ n + 1 \in 1 .. i
              BY <2>8, <5>1, <7>1
            <7>3. spaces'[l][n + 1] = spaces[l][n]
              BY <2>5, <4>3, <7>2
            <7> QED
              BY <1>1, <6>2, <7>1, <7>2, <7>3 DEF Ahead, mainVars
          <6> QED
            BY <5>2, <6>1, <6>2 DEF Ahead
        <5> QED
          BY <1>1, <3>1, <4>1, <5>1, <5>2 DEF WalkInv, Entered
      <4> QED
        BY <4>2, <4>3
    <3> QED
      BY <3>6, <3>7, <3>8, <3>9
  <2> QED
    BY <2>5, <2>9, <2>10, <2>11, <2>12, <2>13 DEF IInv, Changes
<1> QED
  BY <1>5, <1>6

LEMMA TestKeeps ==
    ASSUME IInv, Test, mpc \notin {"failed", "aborted"}
    PROVE  IInv'
<1>1. /\ TypeOK /\ ListsInv /\ CallInv /\ OwnInv /\ MainInv /\ call.at = "test"
      /\ IF ioUp THEN Go("map") ELSE Return(TRUE)
      /\ UNCHANGED <<spaces, server, dangling, mainVars, amiss>>
  BY DEF IInv, Test
<1>2. PICK k \in Kinds : k = K
  BY <1>1, CallIs
<1>3. spaces[k] # <<>> /\ spaces[k][1].start = call.to /\ call.to # NoBase /\ call.region \in Regions
  BY <1>1, <1>2 DEF CallInv, Entered
<1>4. /\ call' \in CallTypes /\ base' \in [Regions -> Addrs \cup {NoBase}]
      /\ CallInv' /\ call'.at \in {"idle", "map"}
      /\ \A r \in Regions : Place(r)' = Place(r)
      /\ call'.at = "map" => K' = k
      /\ call'.at = "idle" => ~ioUp
  <2>1. CASE ioUp
    <3>1. /\ call' \in CallTypes /\ call'.at = "map" /\ call'.region = call.region /\ K' = k
          /\ call'.to = call.to /\ base' = base /\ base' \in [Regions -> Addrs \cup {NoBase}]
      BY <1>1, <1>2, <2>1, GoIs
    <3>2. CallInv'
      BY <1>1, <1>3, <2>1, <3>1, IdleIs DEF CallInv, Entered, mainVars
    <3>3. \A r \in Regions : Place(r)' = Place(r)
      BY <1>1, <3>1 DEF Place, Entered
    <3> QED
      BY <3>1, <3>2, <3>3
  <2>2. CASE ~ioUp
    <3>1. /\ call' \in CallTypes /\ call' = NoCall
          /\ base' \in [Regions -> Addrs \cup {NoBase}]
          /\ \A r \in Regions : base'[r] = IF r = call.region THEN call.to ELSE base[r]
      BY <1>1, <2>2, ReturnIs
    <3>2. CallInv'
      BY <3>1, IdleIs DEF CallInv, Entered
    <3>3. \A r \in Regions : Place(r)' = Place(r)
      BY <1>1, <3>1, IdleIs DEF Place, Entered
    <3> QED
      BY <2>2, <3>1, <3>2, <3>3, IdleIs
  <2> QED
    BY <2>1, <2>2
<1>5. TypeOK'
  BY <1>1, <1>4 DEF TypeOK, mainVars, CallTypes
<1>6. ListsInv'
  BY <1>1, SameLists
<1>7. OwnInv'
  BY <1>1, <1>4, SameLists DEF OwnInv, mainVars
<1>8. MainInv'
  BY <1>1, SameLists DEF MainInv, mainVars
<1>9. ASSUME Orderly'
      PROVE  MappedInv' /\ RouteInv' /\ WalkInv' /\ ReqInv'
  <2>1. MappedInv /\ RouteInv /\ WalkInv /\ ReqInv
    BY <1>1, <1>9 DEF IInv, Orderly
  <2>2. MappedInv' /\ RouteInv'
    BY <1>1, <1>4, <2>1, SameMapped DEF mainVars
  \* Before enable_io is called a new space need not be mapped.
  <2>3. WalkInv'
    BY <1>1, <1>2, <1>4, <2>1, SameLists DEF WalkInv, Entered, MainInv, mainVars
  <2>4. ReqInv'
    BY <1>1, <2>1, SameLists DEF ReqInv, Covers, mainVars
  <2> QED
    BY <2>2, <2>3, <2>4
<1> QED
  BY <1>4, <1>5, <1>6, <1>7, <1>8, <1>9 DEF IInv

\* The call's space is the first of its list.
LEMMA HeadIs ==
    ASSUME TypeOK, ListsInv, CallInv, Entered, NEW k \in Kinds, k = K
    PROVE  /\ 1 \in DOMAIN spaces[k] /\ spaces[k][1].start = call.to /\ Exact(k, call.to) = 1
           /\ call.to \in Addrs /\ call.to # NoBase
<1>1. /\ spaces[k] # <<>> /\ spaces[k][1].start = call.to /\ call.to # NoBase
      /\ call.at # "idle"
  BY DEF CallInv, Entered
<1>2. 1 \in DOMAIN spaces[k]
  <2>1. spaces[k] \in Seq(Space) /\ Len(spaces[k]) \in Nat /\ DOMAIN spaces[k] = 1 .. Len(spaces[k])
    BY ListIs
  <2>2. Len(spaces[k]) # 0
    BY <1>1, <2>1, EmptySeq
  <2> QED
    BY <2>1, <2>2
<1>3. Exact(k, call.to) = 1
  BY <1>1, <1>2, ExactIs
<1>4. call.to \in Addrs
  BY <1>1, CallIs
<1> QED
  BY <1>1, <1>2, <1>3, <1>4

LEMMA MapKeeps ==
    ASSUME IInv, Map
    PROVE  IInv'
<1>1. /\ TypeOK /\ ListsInv /\ CallInv /\ OwnInv /\ MainInv /\ call.at = "map"
      /\ UNCHANGED <<spaces, dangling, mainVars, amiss>>
  BY DEF IInv, Map
<1>2. PICK k \in Kinds : k = K
  BY <1>1, CallIs
<1>3. /\ 1 \in DOMAIN spaces[k] /\ spaces[k][1].start = call.to /\ Exact(k, call.to) = 1
      /\ spaces[k] # <<>> /\ call.to # NoBase /\ call.region \in Regions
  BY <1>1, <1>2, HeadIs DEF Entered, CallInv
<1>4. PICK s \in Listed(k) : s = spaces[k][1]
  BY <1>3 DEF Listed
<1>5. /\ s.start = call.to /\ s.start <= s.end /\ s.start \in Nat /\ s.end \in Nat
  BY <1>1, <1>3, <1>4, ListIs DEF ListsInv
<1>6. \/ CanMap(k, s) /\ MapRange(k, s) /\ Go("flag")
      \/ Go("undo") /\ UNCHANGED server
  BY <1>2, <1>3, <1>4 DEF Map
<1>7. /\ call' \in CallTypes /\ call'.at \in {"flag", "undo"} /\ call'.region = call.region /\ K' = k
      /\ call'.to = call.to /\ base' = base /\ base' \in [Regions -> Addrs \cup {NoBase}]
      /\ call'.at = "flag" => CanMap(k, s) /\ MapRange(k, s)
      /\ call'.at = "undo" => server' = server
  <2>1. CASE Go("flag") /\ CanMap(k, s) /\ MapRange(k, s)
    BY <1>1, <1>2, <2>1, GoIs
  <2>2. CASE Go("undo") /\ server' = server
    BY <1>1, <1>2, <2>2, GoIs
  <2> QED
    BY <1>6, <2>1, <2>2
<1>8. /\ DOMAIN server = Kinds /\ \A l \in Kinds : server[l] \subseteq Nat
  BY <1>1 DEF TypeOK
<1>9. /\ DOMAIN server' = Kinds /\ \A l \in Kinds : server'[l] \subseteq Nat
      /\ \A l \in Kinds : server[l] \subseteq server'[l]
      /\ \A l \in Kinds : l # k => server'[l] = server[l]
      /\ call'.at = "flag" => server'[k] = server[k] \cup Extent(s)
  <2>1. CASE call'.at = "flag"
    <3>1. server' = [server EXCEPT ![k] = server[k] \cup Extent(s)]
      BY <1>7, <2>1 DEF MapRange
    <3>2. Extent(s) \subseteq Nat
      BY <1>5 DEF Extent
    <3> QED
      BY <1>8, <3>1, <3>2
  <2>2. CASE call'.at = "undo"
    BY <1>7, <1>8, <2>2
  <2> QED
    BY <1>7, <2>1, <2>2
<1>10. TypeOK'
  BY <1>1, <1>7, <1>9 DEF TypeOK, mainVars, CallTypes
<1>11. ListsInv'
  BY <1>1, SameLists
<1>12. CallInv'
  BY <1>1, <1>3, <1>7, IdleIs DEF CallInv, Entered, mainVars
<1>13. OwnInv'
  <2>1. \A r \in Regions : Place(r)' = Place(r)
    BY <1>1, <1>7 DEF Place, Entered
  <2> QED
    BY <1>1, <2>1, SameLists DEF OwnInv, mainVars
<1>14. MainInv'
  BY <1>1, SameLists DEF MainInv, mainVars
<1>15. ASSUME Orderly'
       PROVE  MappedInv' /\ RouteInv' /\ WalkInv' /\ ReqInv'
  <2>1. MappedInv /\ RouteInv /\ WalkInv /\ ReqInv
    BY <1>1, <1>15 DEF IInv, Orderly
  <2>2. WalkInv'
    BY <1>1, <1>2, <1>7, <2>1, SameLists DEF WalkInv, Entered, mainVars
  <2>3. ReqInv'
    BY <1>1, <2>1, SameLists DEF ReqInv, Covers, mainVars
  <2>4. CASE call'.at = "undo"
    <3>1. MappedInv' /\ RouteInv'
      BY <1>1, <1>7, <2>1, <2>4, SameMapped DEF mainVars
    <3> QED
      BY <2>2, <2>3, <3>1
  <2>5. CASE call'.at = "flag"
    <3>1. \A l : Listed(l)' = Listed(l)
      BY <1>1, SameLists
    \* Xen has mapped the new space and no other.
    <3>2. \A l \in Kinds : \A t \in Listed(l) : Mapped(l, t)' <=> Mapped(l, t) \/ (l = k /\ t = s)
      <4>1. \A t \in Listed(k) : t.start = call.to => t = s
        BY <1>1, <1>5, SameSpace
      <4> QED
        BY <1>1, <1>5, <1>7, <2>5, <4>1 DEF Mapped, mainVars
    <3>3. server[k] \cap Extent(s) = {}
      BY <1>7, <2>5 DEF CanMap
    <3>4. \A t \in Listed(k) : Mapped(k, t) => Extent(t) \cap Extent(s) = {}
      BY <2>1, <3>3 DEF MappedInv
    <3>5. MappedInv'
      <4>1. \A l \in Kinds : \A t \in Listed(l) : Mapped(l, t)' => Extent(t) \subseteq server'[l]
        BY <1>9, <2>1, <2>5, <3>2 DEF MappedInv
      <4>2. \A l \in Kinds : \A t, u \in Listed(l) :
                Mapped(l, t)' /\ Mapped(l, u)' /\ t # u => Extent(t) \cap Extent(u) = {}
        <5>1. \A l \in Kinds : \A t, u \in Listed(l) :
                  Mapped(l, t) /\ Mapped(l, u) /\ t # u => Extent(t) \cap Extent(u) = {}
          BY <2>1 DEF MappedInv
        <5> QED
          BY <3>2, <3>4, <5>1
      <4> QED
        BY <2>5, <3>1, <4>1, <4>2 DEF MappedInv, Extent
    <3>6. RouteInv'
      <4>1. SUFFICES ASSUME "collided" \notin amiss, "walk" \notin dangling,
                            NEW l \in Kinds, NEW a \in server'[l]
                     PROVE  \E t \in Listed(l) : Mapped(l, t)' /\ Covers(t, a)
        BY <1>1, <3>1 DEF RouteInv, Covers
      <4>2. CASE a \in server[l]
        BY <1>1, <2>1, <3>2, <4>1, <4>2 DEF RouteInv
      <4>3. CASE a \notin server[l]
        <5>1. l = k /\ a \in Extent(s)
          BY <1>9, <2>5, <4>1, <4>3
        <5>2. Covers(s, a)
          BY <1>5, <5>1 DEF Covers, Extent
        <5> QED
          BY <3>2, <5>1, <5>2
      <4> QED
        BY <4>2, <4>3
    <3> QED
      BY <2>2, <2>3, <3>5, <3>6
  <2> QED
    BY <1>7, <2>4, <2>5
<1> QED
  BY <1>10, <1>11, <1>12, <1>13, <1>14, <1>15 DEF IInv

-----------------------------------------------------------------------------
(* A mapped space is marked.                                               *)

\* The same space, before and after.
Twin(t, u) == u.start = t.start /\ u.end = t.end /\ u.owner = t.owner /\ (t.init => u.init)

LEMMA TwinsIs ==
    ASSUME TypeOK, ListsInv, NEW k \in Kinds, NEW j \in DOMAIN spaces[k],
           spaces' = [spaces EXCEPT ![k][j].init = TRUE]
    PROVE  /\ \A l \in Kinds : \A u \in Listed(l)' : \E t \in Listed(l) :
                  Twin(t, u) /\ (u.init => t.init \/ (l = k /\ t = spaces[k][j]))
           /\ \A l \in Kinds : \A t \in Listed(l) : \E u \in Listed(l)' : Twin(t, u)
           /\ \E u \in Listed(k)' : Twin(spaces[k][j], u) /\ u.init
           /\ \A w, l, i : l \in Kinds /\ i \in DOMAIN spaces[l] =>
                  (Ahead(w, l, i)' <=> Ahead(w, l, i))
<1>1. /\ Changes(k) /\ DOMAIN spaces'[k] = DOMAIN spaces[k]
      /\ \A i \in DOMAIN spaces[k] :
             /\ spaces'[k][i].start = spaces[k][i].start
             /\ spaces'[k][i].end = spaces[k][i].end
             /\ spaces'[k][i].owner = spaces[k][i].owner
             /\ i # j => spaces'[k][i] = spaces[k][i]
      /\ spaces'[k][j].init
  BY MarkedIs
<1>2. \A l \in Kinds : l # k => spaces'[l] = spaces[l]
  BY <1>1 DEF Changes
<1>3. \A l \in Kinds : DOMAIN spaces'[l] = DOMAIN spaces[l]
  BY <1>1, <1>2
<1>4. \A l \in Kinds : \A i \in DOMAIN spaces[l] :
          /\ Twin(spaces[l][i], spaces'[l][i])
          /\ spaces'[l][i].init => spaces[l][i].init \/ (l = k /\ i = j)
  BY <1>1, <1>2 DEF Twin
<1>5. \A l \in Kinds : \A u \in Listed(l)' : \E t \in Listed(l) :
          Twin(t, u) /\ (u.init => t.init \/ (l = k /\ t = spaces[k][j]))
  <2>1. SUFFICES ASSUME NEW l \in Kinds, NEW u \in Listed(l)'
                 PROVE  \E t \in Listed(l) :
                            Twin(t, u) /\ (u.init => t.init \/ (l = k /\ t = spaces[k][j]))
    OBVIOUS
  <2>2. PICK i \in DOMAIN spaces[l] : u = spaces'[l][i]
    BY <1>3 DEF Listed
  <2>3. spaces[l][i] \in Listed(l)
    BY DEF Listed
  <2>4. Twin(spaces[l][i], u) /\ (u.init => spaces[l][i].init \/ (l = k /\ i = j))
    BY <1>4, <2>2
  <2> QED
    BY <2>3, <2>4
<1>6. \A l \in Kinds : \A t \in Listed(l) : \E u \in Listed(l)' : Twin(t, u)
  BY <1>3, <1>4 DEF Listed
<1>7. \E u \in Listed(k)' : Twin(spaces[k][j], u) /\ u.init
  BY <1>1, <1>3, <1>4 DEF Listed
<1>8. ASSUME NEW w, NEW l \in Kinds, NEW i \in DOMAIN spaces[l]
      PROVE  Ahead(w, l, i)' <=> Ahead(w, l, i)
  <2>1. DOMAIN spaces[l] = 1 .. Len(spaces[l]) /\ Len(spaces[l]) \in Nat
    BY ListIs
  <2>2. \A n \in 1 .. i : n \in DOMAIN spaces[l]
    BY <2>1
  <2>3. \A n \in 1 .. i : spaces'[l][n].start = spaces[l][n].start
    BY <1>4, <2>2 DEF Twin
  <2> QED
    BY <2>3 DEF Ahead
<1> QED
  BY <1>5, <1>6, <1>7, <1>8

\* The marked space was mapped, so that what Xen routes and what the lists hold
\* match as before.
LEMMA MarkKeeps ==
    ASSUME TypeOK, ListsInv, CallInv, NEW k \in Kinds, NEW j \in DOMAIN spaces[k],
           spaces' = [spaces EXCEPT ![k][j].init = TRUE], UNCHANGED <<server, amiss>>,
           "walk" \in dangling <=> "walk" \in dangling',
           \/ call' = call /\ base' = base
           \/ call.at # "unmap" /\ call'.at # "unmap",
           \A l \in Kinds : \A t \in Listed(l) : \A u \in Listed(l)' :
               u.start = t.start => (Mapped(l, u)' <=> Mapped(l, t))
    PROVE  /\ MappedInv => MappedInv'
           /\ RouteInv => RouteInv'
           /\ ReqInv /\ req' = req => ReqInv'
           /\ OwnInv /\ (\A r \in Regions : Place(r)' = Place(r)) /\ mpc' # "aborted" => OwnInv'
           /\ ListsInv'
<1>1. /\ \A l \in Kinds : \A u \in Listed(l)' : \E t \in Listed(l) : Twin(t, u)
      /\ \A l \in Kinds : \A t \in Listed(l) : \E u \in Listed(l)' : Twin(t, u)
  BY ONLY TypeOK, ListsInv, k \in Kinds, j \in DOMAIN spaces[k],
          spaces' = [spaces EXCEPT ![k][j].init = TRUE], TwinsIs
<1>2. ListsInv'
  BY MarkedIs DEF Changes
<1>3. \A l \in Kinds : \A t \in Listed(l) : \A u \in Listed(l)' :
          Twin(t, u) => (Mapped(l, u)' <=> Mapped(l, t)) /\ Extent(u) = Extent(t)
  BY DEF Twin, Extent
<1>4. call'.at = "unmap" <=> call.at = "unmap"
  OBVIOUS
<1>5. call.at = "unmap" => Leaving' = Leaving /\ K' = K
  BY DEF Leaving, K
<1>6. ASSUME MappedInv
      PROVE  MappedInv'
  <2>1. ASSUME NEW l \in Kinds, NEW u \in Listed(l)', Mapped(l, u)'
        PROVE  Extent(u) \subseteq server'[l]
    <3>1. PICK t \in Listed(l) : Twin(t, u)
      BY <1>1
    <3> QED
      BY <1>3, <1>6, <2>1, <3>1 DEF MappedInv
  <2>2. ASSUME NEW l \in Kinds, NEW u \in Listed(l)', NEW v \in Listed(l)',
               Mapped(l, u)', Mapped(l, v)', u # v
        PROVE  Extent(u) \cap Extent(v) = {}
    <3>1. PICK t \in Listed(l) : Twin(t, u)
      BY <1>1
    <3>2. PICK x \in Listed(l) : Twin(x, v)
      BY <1>1
    <3>3. u.start # v.start
      <4>1. PICK i \in DOMAIN spaces'[l] : u = spaces'[l][i]
        BY DEF Listed
      <4>2. PICK n \in DOMAIN spaces'[l] : v = spaces'[l][n]
        BY DEF Listed
      <4> QED
        BY <1>2, <2>2, <4>1, <4>2 DEF ListsInv
    <3>4. t # x
      BY <3>1, <3>2, <3>3 DEF Twin
    <3> QED
      BY <1>3, <1>6, <2>2, <3>1, <3>2, <3>4 DEF MappedInv
  <2>3. ASSUME call.at = "unmap", NEW l \in Kinds, l = K
        PROVE  /\ Leaving \subseteq server[l]
               /\ \A u \in Listed(l)' : Mapped(l, u)' => Extent(u) \cap Leaving = {}
    <3>1. Leaving \subseteq server[l]
      BY <1>6, <2>3 DEF MappedInv
    <3>2. ASSUME NEW u \in Listed(l)', Mapped(l, u)'
          PROVE  Extent(u) \cap Leaving = {}
      <4>1. PICK t \in Listed(l) : Twin(t, u)
        BY <1>1
      <4> QED
        BY <1>3, <1>6, <2>3, <3>2, <4>1 DEF MappedInv
    <3> QED
      BY <3>1, <3>2
  <2>4. call.at = "unmap" => K \in Kinds
    BY CallIs
  <2> QED
    BY <1>4, <1>5, <2>1, <2>2, <2>3, <2>4 DEF MappedInv, Extent
<1>7. ASSUME RouteInv
      PROVE  RouteInv'
  <2>1. SUFFICES ASSUME "collided" \notin amiss, "walk" \notin dangling,
                        NEW l \in Kinds, NEW a \in server[l]
                 PROVE  \/ \E u \in Listed(l)' : Mapped(l, u)' /\ Covers(u, a)
                        \/ call'.at = "unmap" /\ l = K' /\ a \in Leaving'
    BY DEF RouteInv, Covers
  <2>2. CASE call.at = "unmap" /\ l = K /\ a \in Leaving
    BY <1>4, <1>5, <2>2
  <2>3. CASE \E t \in Listed(l) : Mapped(l, t) /\ Covers(t, a)
    <3>1. PICK t \in Listed(l) : Mapped(l, t) /\ Covers(t, a)
      BY <2>3
    <3>2. PICK u \in Listed(l)' : Twin(t, u)
      BY <1>1
    <3> QED
      BY <1>3, <3>1, <3>2 DEF Covers, Twin
  <2> QED
    BY <1>7, <2>1, <2>2, <2>3 DEF RouteInv
<1>8. ASSUME ReqInv, req' = req
      PROVE  ReqInv'
  <2>1. SUFFICES ASSUME req.left > 0, ~req.moved
                 PROVE  \E u \in Listed(req.kind)' :
                            u.init /\ Covers(u, req.addr)' /\ u.owner = req.owner
    BY <1>8 DEF ReqInv, Covers
  <2>2. PICK t \in Listed(req.kind) : t.init /\ Covers(t, req.addr) /\ t.owner = req.owner
    BY <1>8, <2>1 DEF ReqInv
  <2>3. PICK l \in Kinds : l = req.kind /\ l = req'.kind
    BY <1>8 DEF TypeOK
  <2>4. PICK u \in Listed(l)' : Twin(t, u)
    BY <1>1, <2>2, <2>3
  <2> QED
    BY <1>8, <2>2, <2>3, <2>4 DEF Covers, Twin
<1>9. ASSUME OwnInv, \A r \in Regions : Place(r)' = Place(r), mpc' # "aborted"
      PROVE  OwnInv'
  <2>1. SUFFICES ASSUME "slipped" \notin amiss, NEW r \in Regions
                 PROVE  /\ \A u \in Listed(Kind[r])' : u.owner = r => u.start = Place(r)'
                        /\ Place(r)' # NoBase => \E u \in Listed(Kind[r])' : u.owner = r
    BY <1>9 DEF OwnInv
  <2>2. /\ \A t \in Listed(Kind[r]) : t.owner = r => t.start = Place(r)
        /\ Place(r) # NoBase => \E t \in Listed(Kind[r]) : t.owner = r
    BY <1>9, <2>1 DEF OwnInv
  <2>3. Kind[r] \in Kinds
    BY ConstantsAre
  <2> QED
    BY <1>1, <1>9, <2>2, <2>3 DEF Twin
<1> QED
  BY <1>2, <1>6, <1>7, <1>8, <1>9

\* How the marks change.
LEMMA InitIs ==
    ASSUME TypeOK, ListsInv, NEW k \in Kinds, NEW j \in DOMAIN spaces[k],
           spaces' = [spaces EXCEPT ![k][j].init = TRUE],
           NEW l \in Kinds, NEW t \in Listed(l), NEW u \in Listed(l)', u.start = t.start
    PROVE  u.init <=> t.init \/ (l = k /\ t = spaces[k][j])
<1>1. /\ \A x \in Kinds : \A v \in Listed(x)' : \E y \in Listed(x) :
             Twin(y, v) /\ (v.init => y.init \/ (x = k /\ y = spaces[k][j]))
      /\ \E v \in Listed(k)' : Twin(spaces[k][j], v) /\ v.init
  BY ONLY TypeOK, ListsInv, k \in Kinds, j \in DOMAIN spaces[k],
          spaces' = [spaces EXCEPT ![k][j].init = TRUE], TwinsIs
<1>2. PICK y \in Listed(l) : Twin(y, u) /\ (u.init => y.init \/ (l = k /\ y = spaces[k][j]))
  BY <1>1
<1>3. y = t
  BY <1>2, SameSpace DEF Twin
<1>4. ASSUME l = k, t = spaces[k][j]
      PROVE  u.init
  <2>1. PICK v \in Listed(k)' : Twin(spaces[k][j], v) /\ v.init
    BY <1>1
  <2>2. u.start = v.start /\ ListsInv'
    BY <1>4, <2>1, MarkedIs DEF Twin, Changes
  <2>3. PICK i \in DOMAIN spaces'[k] : u = spaces'[k][i]
    BY <1>4 DEF Listed
  <2>4. PICK n \in DOMAIN spaces'[k] : v = spaces'[k][n]
    BY DEF Listed
  <2> QED
    BY <2>1, <2>2, <2>3, <2>4 DEF ListsInv
<1> QED
  BY <1>2, <1>3, <1>4 DEF Twin

LEMMA FlagKeeps ==
    ASSUME IInv, Flag, mpc \notin {"failed", "aborted"}
    PROVE  IInv'
<1>1. /\ TypeOK /\ ListsInv /\ CallInv /\ OwnInv /\ MainInv /\ call.at = "flag"
      /\ Return(TRUE) /\ UNCHANGED <<server, dangling, mainVars, amiss>>
  BY DEF IInv, Flag
<1>2. PICK k \in Kinds : k = K
  BY <1>1, CallIs
<1>3. spaces' = [spaces EXCEPT ![k][1].init = TRUE]
  BY <1>2 DEF Flag
<1>4. 1 \in DOMAIN spaces[k] /\ spaces[k][1].start = call.to
  BY <1>1, <1>2, HeadIs DEF Entered
<1>5. /\ call' \in CallTypes /\ call' = NoCall
      /\ base' \in [Regions -> Addrs \cup {NoBase}]
      /\ \A r \in Regions : base'[r] = IF r = call.region THEN call.to ELSE base[r]
  BY <1>1, ReturnIs
<1>6. /\ Changes(k)
      /\ DOMAIN spaces'[k] = DOMAIN spaces[k]
      /\ \A i \in DOMAIN spaces[k] : i # 1 => spaces'[k][i] = spaces[k][i]
      /\ spaces'[k][1].init
  <2>1. TypeOK /\ ListsInv
    BY <1>1
  <2> QED
    BY ONLY <1>3, <1>4, <2>1, MarkedIs, ZenonT(60)
<1>7. \A l \in Kinds : l # k => spaces'[l] = spaces[l]
  BY <1>6 DEF Changes
<1>8. \A w, l, i : l \in Kinds /\ i \in DOMAIN spaces[l] => (Ahead(w, l, i)' <=> Ahead(w, l, i))
  BY <1>1, <1>3, <1>4, TwinsIs
<1>9. \A l \in Kinds : \A t \in Listed(l) : \A u \in Listed(l)' :
          u.start = t.start => (Mapped(l, u)' <=> Mapped(l, t))
  <2>1. SUFFICES ASSUME NEW l \in Kinds, NEW t \in Listed(l), NEW u \in Listed(l)', u.start = t.start
                 PROVE  Mapped(l, u)' <=> Mapped(l, t)
    OBVIOUS
  <2>2. u.init <=> t.init \/ (l = k /\ t = spaces[k][1])
    <3>1. TypeOK /\ ListsInv
      BY <1>1
    <3> QED
      BY ONLY <1>3, <1>4, <2>1, <3>1, InitIs, ZenonT(60)
  <2>3. l = k => (t = spaces[k][1] <=> t.start = call.to)
    <3>1. spaces[k][1] \in Listed(k)
      BY <1>4 DEF Listed
    <3> QED
      BY <1>1, <1>4, <3>1, SameSpace
  <2> QED
    BY <1>1, <1>2, <1>5, <2>1, <2>2, <2>3, IdleIs DEF Mapped, mainVars
<1>10. \A r \in Regions : Place(r)' = Place(r)
  BY <1>1, <1>5, IdleIs DEF Place, Entered
<1>11. /\ MappedInv => MappedInv'
       /\ RouteInv => RouteInv'
       /\ ReqInv => ReqInv'
       /\ OwnInv /\ mpc' # "aborted" => OwnInv'
       /\ ListsInv'
  <2>1. call.at # "unmap" /\ call'.at # "unmap"
    BY <1>1, <1>5, IdleIs
  <2>2. req' = req
    BY <1>1 DEF mainVars
  <2> QED
    BY <1>1, <1>3, <1>4, <1>9, <1>10, <2>1, <2>2, MarkKeeps
<1>12. TypeOK'
  BY <1>1, <1>5, <1>6 DEF TypeOK, mainVars, CallTypes, Changes, Lists1
<1>13. CallInv'
  BY <1>5, IdleIs DEF CallInv, Entered
<1>14. OwnInv'
  BY <1>1, <1>11 DEF mainVars
<1>15. MainInv'
  <2>1. walk.kind \in Kinds
    BY <1>1 DEF TypeOK
  <2>2. \A t \in Listed(walk.kind) : \E u \in Listed(walk.kind)' : u.start = t.start
    <3>1. PICK l \in Kinds : l = walk.kind /\ l = walk'.kind
      BY <1>1, <2>1 DEF mainVars
    <3>2. \A t \in Listed(l) : \E u \in Listed(l)' : Twin(t, u)
      BY <1>1, <1>3, <1>4, TwinsIs
    <3> QED
      BY <3>1, <3>2 DEF Twin
  <2> QED
    BY <1>1, <2>2 DEF MainInv, mainVars
<1>16. ASSUME Orderly'
       PROVE  MappedInv' /\ RouteInv' /\ WalkInv' /\ ReqInv'
  <2>1. MappedInv /\ RouteInv /\ WalkInv /\ ReqInv
    BY <1>1, <1>16 DEF IInv, Orderly
  <2>2. WalkInv'
    <3>1. SUFFICES ASSUME NEW l \in Kinds, NEW i \in DOMAIN spaces'[l]
                   PROVE  \/ spaces'[l][i].init
                          \/ mpc \in {"config", "failed", "aborted"}
                          \/ mpc = "enable" /\ ("walk" \in dangling \/ Ahead(walk, l, i)')
      BY <1>1 DEF WalkInv, mainVars
    <3>2. i \in DOMAIN spaces[l]
      BY <1>6, <1>7, <3>1
    <3>3. Ahead(walk, l, i) => Ahead(walk, l, i)'
      <4>1. PICK w : w = walk /\ w = walk'
        BY <1>1 DEF mainVars
      <4>2. Ahead(w, l, i)' <=> Ahead(w, l, i)
        BY <1>8, <3>2
      <4> QED
        BY <4>1, <4>2
    <3>4. CASE l = k /\ i = 1
      BY <1>6, <3>4
    <3>5. CASE ~(l = k /\ i = 1)
      <4>1. spaces'[l][i] = spaces[l][i]
        BY <1>6, <1>7, <3>2, <3>5
      <4> QED
        BY <1>2, <2>1, <3>2, <3>3, <3>5, <4>1 DEF WalkInv
    <3> QED
      BY <3>4, <3>5
  <2> QED
    BY <1>11, <2>1, <2>2
<1> QED
  BY <1>11, <1>12, <1>13, <1>14, <1>15, <1>16 DEF IInv

-----------------------------------------------------------------------------
(* Xen refuses the range, and the space is taken back.                     *)

LEMMA UndoKeeps ==
    ASSUME IInv, Undo
    PROVE  IInv'
<1>1. /\ TypeOK /\ ListsInv /\ CallInv /\ OwnInv /\ MainInv /\ call.at = "undo"
      /\ Return(FALSE) /\ UNCHANGED <<server, ioUp, mpc, walk, cur>>
  BY DEF IInv, Undo
<1>2. PICK k \in Kinds : k = K
  BY <1>1, CallIs
<1>3. PICK r \in Regions : r = call.region
  BY <1>1, CallIs
<1>4. /\ 1 \in DOMAIN spaces[k] /\ spaces[k][1].start = call.to /\ Exact(k, call.to) = 1
      /\ call.to # NoBase
  BY <1>1, <1>2, HeadIs DEF Entered
<1>5. PICK s \in Listed(k) : s = spaces[k][1]
  BY <1>4 DEF Listed
<1>6. /\ Unlink(k, 1)
      /\ amiss' = amiss \cup (IF base[r] # NoBase THEN {"slipped"} ELSE {})
                       \cup (IF EnableMapped(k, s) THEN {"collided"} ELSE {})
  BY <1>2, <1>3, <1>4, <1>5 DEF Undo
<1>7. /\ Changes(k) /\ Listed(k)' = Listed(k) \ {s}
      /\ "walk" \in dangling' <=> "walk" \in dangling \/ WalkHolds(k, 1)
      /\ dangling' \subseteq {"walk", "cur"}
      /\ req' \in [kind : Kinds, addr : Nat, left : 0 .. 2, first : BOOLEAN,
                  owner : Owners \cup {NoBase}, moved : BOOLEAN]
  BY <1>1, <1>4, <1>5, <1>6, UnlinkIs
<1>8. /\ call' \in CallTypes /\ call' = NoCall
      /\ base' \in [Regions -> Addrs \cup {NoBase}]
      /\ \A x \in Regions : base'[x] = base[x]
  BY <1>1, ReturnIs
<1>9. \A l \in Kinds : l # k => Listed(l)' = Listed(l)
  BY <1>7 DEF Changes
<1>10. amiss \subseteq amiss' /\ amiss' \subseteq amiss \cup {"slipped", "collided"}
  BY <1>6
<1>11. TypeOK'
  BY <1>1, <1>7, <1>8, <1>10 DEF TypeOK, Changes, Lists1, CallTypes, Mishaps
<1>12. CallInv'
  BY <1>8, IdleIs DEF CallInv, Entered
<1>13. OwnInv'
  <2>1. SUFFICES ASSUME "slipped" \notin amiss', NEW x \in Regions
                 PROVE  /\ mpc # "aborted"
                        /\ \A t \in Listed(Kind[x])' : t.owner = x => t.start = Place(x)'
                        /\ Place(x)' # NoBase => \E t \in Listed(Kind[x])' : t.owner = x
    <3>1. "slipped" \notin amiss' => mpc # "aborted"
      BY <1>1, <1>10 DEF OwnInv
    <3> QED
      BY <1>1, <3>1 DEF OwnInv
  <2>2. /\ \A y \in Regions :
              /\ \A t \in Listed(Kind[y]) : t.owner = y => t.start = Place(y)
              /\ Place(y) # NoBase => \E t \in Listed(Kind[y]) : t.owner = y
        /\ base[r] = NoBase /\ mpc # "aborted"
    BY <1>1, <1>6, <2>1 DEF OwnInv
  <2>3. Place(r) = call.to /\ k = Kind[r]
    BY <1>1, <1>2, <1>3 DEF Place, K, Entered
  <2>4. PICK u \in Listed(k) : u.owner = r
    BY <1>4, <2>2, <2>3
  <2>5. \A t \in Listed(k) : t.owner = r => t = s
    BY <1>1, <1>4, <1>5, <2>2, <2>3, SameSpace
  <2>6. s.owner = r
    BY <2>4, <2>5
  <2>7. Kind[x] \in Kinds
    BY ConstantsAre
  <2>8. Place(x)' = base[x]
    BY <1>8, IdleIs DEF Place
  <2>9. CASE x = r
    BY <1>7, <2>2, <2>3, <2>5, <2>8, <2>9
  <2>10. CASE x # r
    <3>1. Place(x) = base[x]
      BY <1>3, <2>10 DEF Place
    <3>2. \A t \in Listed(Kind[x])' : t \in Listed(Kind[x])
      BY <1>7, <1>9, <2>7
    <3>3. \A t \in Listed(Kind[x]) : t.owner = x => t \in Listed(Kind[x])'
      BY <1>7, <1>9, <2>6, <2>7, <2>10
    <3> QED
      BY <2>2, <2>8, <3>1, <3>2, <3>3
  <2> QED
    BY <2>9, <2>10
<1>14. MainInv'
  BY <1>1, <1>4, <1>6, UnlinkKeeps
<1>15. ASSUME Orderly'
       PROVE  MappedInv' /\ RouteInv' /\ WalkInv' /\ ReqInv'
  <2>1. MappedInv /\ RouteInv /\ WalkInv /\ ReqInv
    BY <1>10, <1>15 DEF IInv, Orderly
  <2>2. WalkInv' /\ ReqInv'
    BY <1>1, <1>2, <1>4, <1>6, <2>1, UnlinkKeeps
  <2>3. \A l \in Kinds : \A t \in Listed(l)' : t \in Listed(l) /\ (l = k => t # s)
    BY <1>7, <1>9
  <2>4. \A l \in Kinds : \A t \in Listed(l) : t \in Listed(l)' \/ (l = k /\ t = s)
    BY <1>7, <1>9
  <2>5. \A l, t : Mapped(l, t)' => Mapped(l, t)
    BY <1>1, <1>7, <1>8, IdleIs DEF Mapped
  <2>6. \A l, t : Mapped(l, t) /\ "walk" \notin dangling' => Mapped(l, t)'
    BY <1>1, <1>7 DEF Mapped
  <2>7. MappedInv'
    BY <1>1, <1>8, <2>1, <2>3, <2>5, IdleIs DEF MappedInv, Extent
  <2>8. RouteInv'
    <3>1. SUFFICES ASSUME "collided" \notin amiss', "walk" \notin dangling',
                          NEW l \in Kinds, NEW a \in server[l]
                   PROVE  \E t \in Listed(l)' : Mapped(l, t)' /\ Covers(t, a)
      BY <1>1 DEF RouteInv, Covers
    <3>2. PICK t \in Listed(l) : Mapped(l, t) /\ Covers(t, a)
      BY <1>1, <1>7, <1>10, <2>1, <3>1 DEF RouteInv
    \* enable_io has not mapped the space taken back.
    <3>3. ~Mapped(k, s)
      BY <1>1, <1>6, <3>1 DEF Mapped, EnableMapped
    <3> QED
      BY <2>4, <2>6, <3>1, <3>2, <3>3
  <2> QED
    BY <2>2, <2>7, <2>8
<1> QED
  BY <1>7, <1>11, <1>12, <1>13, <1>14, <1>15 DEF IInv, Changes

-----------------------------------------------------------------------------
(* enable_io.                                                              *)

LEMMA ListAfterIs ==
    /\ ListAfter("pci") = 2 /\ ListAfter("mmio") = 3 /\ ListAfter("io") = 4
    /\ \A k \in Kinds : ListAfter(k) \in 2 .. 4 /\ Lists[ListAfter(k) - 1] = k
<1>1. Len(Lists) = 3 /\ Lists[1] = "pci" /\ Lists[2] = "mmio" /\ Lists[3] = "io"
  BY DEF Lists
<1>2. ASSUME NEW k, NEW n \in 1 .. 3, Lists[n] = k, \A m \in 1 .. 3 : Lists[m] = k => m = n
      PROVE  ListAfter(k) = 1 + n
  <2> DEFINE I == {i \in 1 .. Len(Lists) : Lists[i] = k}
  <2>1. I \in SUBSET Nat /\ I # {} /\ \A i \in I : i = n
    BY <1>1, <1>2
  <2>2. Min(I) \in I
    BY <2>1, MinIs
  <2>3. SelectInSeq(Lists, LAMBDA l : l = k) = Min(I)
    BY <2>1 DEF SelectInSeq
  <2> QED
    BY <2>1, <2>2, <2>3 DEF ListAfter
<1>3. ListAfter("pci") = 2 /\ ListAfter("mmio") = 3 /\ ListAfter("io") = 4
  BY <1>1, <1>2
<1> QED
  BY <1>1, <1>3 DEF Kinds

\* Where enable_io goes on, when it leaves a list.
LEMMA FirstFromIs ==
    ASSUME TypeOK, NEW n \in 1 .. 4
    PROVE  /\ FirstFrom(n) \in [kind : Kinds, start : Addrs \cup {NoBase}, at : {"look", "flag", "over"}]
           /\ FirstFrom(n).at = "look" \/ (FirstFrom(n) = NoWalk /\ FirstFrom(n).at = "over")
           /\ FirstFrom(n).at = "look" =>
                  \E s \in Listed(FirstFrom(n).kind) : s.start = FirstFrom(n).start
           /\ \A k \in Kinds : \A i \in DOMAIN spaces[k] :
                  n < ListAfter(k) => FirstFrom(n).at = "look" /\ Ahead(FirstFrom(n), k, i)
<1> DEFINE js == {j \in n .. Len(Lists) : spaces[Lists[j]] # <<>>}
           k == Lists[Min(js)]
           w == FirstFrom(n)
<1>1. w = IF js = {} THEN NoWalk ELSE [kind |-> k, start |-> spaces[k][1].start, at |-> "look"]
  BY DEF FirstFrom
<1>2. Len(Lists) = 3 /\ Lists[1] = "pci" /\ Lists[2] = "mmio" /\ Lists[3] = "io"
  BY DEF Lists
<1>3. js \in SUBSET Nat
  BY <1>2
<1>4. \A l \in Kinds : \A i \in DOMAIN spaces[l] :
          n < ListAfter(l) => ListAfter(l) - 1 \in js /\ Lists[ListAfter(l) - 1] = l
  <2>1. ASSUME NEW l \in Kinds, NEW i \in DOMAIN spaces[l], n < ListAfter(l)
        PROVE  ListAfter(l) - 1 \in js /\ Lists[ListAfter(l) - 1] = l
    <3>1. ListAfter(l) \in 2 .. 4 /\ Lists[ListAfter(l) - 1] = l
      BY ListAfterIs
    <3>2. spaces[l] # <<>>
      <4>1. DOMAIN spaces[l] = 1 .. Len(spaces[l]) /\ Len(spaces[l]) \in Nat
        BY ListIs
      <4>2. Len(spaces[l]) # 0
        BY <4>1, <2>1
      <4> QED
        BY <4>2
    <3> QED
      BY <1>2, <2>1, <3>1, <3>2
  <2> QED
    BY <2>1
<1>5. CASE js = {}
  <2>1. w = NoWalk /\ w \in [kind : Kinds, start : Addrs \cup {NoBase}, at : {"look", "flag", "over"}]
        /\ w.at = "over"
    BY <1>1, <1>5 DEF NoWalk, Kinds
  <2> HIDE DEF js, w
  <2>2. \A l \in Kinds : \A i \in DOMAIN spaces[l] : ~(n < ListAfter(l))
    BY <1>4, <1>5
  <2> QED
    BY <2>1, <2>2 DEF w
<1>6. CASE js # {}
  <2>1. Min(js) \in js /\ \A m \in js : Min(js) <= m
    BY <1>3, <1>6, MinIs
  <2>2. PICK m \in 1 .. 3 : m = Min(js) /\ spaces[k] # <<>> /\ k = Lists[m]
    BY <1>2, <2>1
  <2>3. k \in Kinds /\ ListAfter(k) = m + 1
    BY <1>2, <2>2, ListAfterIs DEF Kinds
  <2>4. 1 \in DOMAIN spaces[k]
    <3>1. spaces[k] \in Seq(Space) /\ DOMAIN spaces[k] = 1 .. Len(spaces[k]) /\ Len(spaces[k]) \in Nat
      BY <2>3, ListIs
    <3>2. Len(spaces[k]) # 0
      BY <2>2, <3>1, EmptySeq
    <3> QED
      BY <3>1, <3>2
  <2>5. spaces[k][1].start \in Addrs /\ spaces[k][1] \in Listed(k)
    BY <2>3, <2>4, ListIs DEF Listed
  <2>6. /\ w \in [kind : Kinds, start : Addrs \cup {NoBase}, at : {"look", "flag", "over"}]
        /\ w.at = "look" /\ w.kind = k /\ w.start = spaces[k][1].start
    <3>1. w = [kind |-> k, start |-> spaces[k][1].start, at |-> "look"]
      BY <1>1, <1>6
    <3> HIDE DEF k, w
    <3>2. k \in Kinds /\ spaces[k][1].start \in Addrs
      BY <2>3, <2>5
    <3> QED
      BY ONLY <3>1, <3>2
  <2> HIDE DEF k, w
  <2>7. ASSUME NEW l \in Kinds, NEW i \in DOMAIN spaces[l], n < ListAfter(l)
        PROVE  Ahead(w, l, i)
    <3>1. ListAfter(l) - 1 \in js /\ Lists[ListAfter(l) - 1] = l /\ ListAfter(l) \in 2 .. 4
      BY <1>4, <2>7, ListAfterIs
    <3>2. m <= ListAfter(l) - 1
      BY <2>1, <2>2, <3>1
    <3>3. CASE m = ListAfter(l) - 1
      <4>1. l = k
        BY <2>2, <3>1, <3>3
      <4>2. 1 \in 1 .. i
        BY <2>7, ListIs
      <4> QED
        BY <2>6, <4>1, <4>2 DEF Ahead
    <3>4. CASE m # ListAfter(l) - 1
      BY <2>3, <2>6, <3>1, <3>2, <3>4 DEF Ahead
    <3> QED
      BY <3>3, <3>4
  <2> HIDE DEF js
  <2> QED
    BY <2>5, <2>6, <2>7 DEF w
<1> QED
  BY <1>5, <1>6

WalkTypes == [kind : Kinds, start : Addrs \cup {NoBase}, at : {"look", "flag", "over"}]

\* Where enable_io goes on: to all that lay ahead, the space it is at apart.
LEMMA AfterIs ==
    ASSUME TypeOK, ListsInv, NEW k \in Kinds, walk.kind = k,
           NEW j \in DOMAIN spaces[k], spaces[k][j].start = walk.start
    PROVE  /\ After \in WalkTypes
           /\ After.at = "look" \/ (After = NoWalk /\ After.at = "over")
           /\ After.at = "look" => \E s \in Listed(After.kind) : s.start = After.start
           /\ \A l \in Kinds : \A i \in DOMAIN spaces[l] :
                  Ahead(walk, l, i) /\ ~(l = k /\ i = j) => After.at = "look" /\ Ahead(After, l, i)
<1>1. Exact(k, walk.start) = j
  BY ExactIs
<1>2. /\ DOMAIN spaces[k] = 1 .. Len(spaces[k]) /\ Len(spaces[k]) \in Nat
      /\ ListAfter(k) \in 1 .. 4
  BY ListIs, ListAfterIs
<1>3. walk \in WalkTypes
  BY DEF TypeOK, WalkTypes
\* In its own list, what lies ahead follows the space it is at.
<1>4. \A i \in DOMAIN spaces[k] : Ahead(walk, k, i) => j <= i
  <2>1. SUFFICES ASSUME NEW i \in DOMAIN spaces[k], Ahead(walk, k, i)
                 PROVE  j <= i
    OBVIOUS
  <2>2. PICK n \in 1 .. i : spaces[k][n].start = walk.start
    BY <1>2, <2>1 DEF Ahead
  <2>3. n \in DOMAIN spaces[k]
    BY <1>2, <2>1, <2>2
  <2>4. n = j
    BY <2>2, <2>3 DEF ListsInv
  <2> QED
    BY <1>2, <2>1, <2>2, <2>4
<1>5. CASE j < Len(spaces[k])
  <2>1. After = [walk EXCEPT !.start = spaces[k][j + 1].start, !.at = "look"]
    BY <1>1, <1>5 DEF After
  <2>2. j + 1 \in DOMAIN spaces[k]
    BY <1>2, <1>5
  <2>3. spaces[k][j + 1].start \in Addrs /\ spaces[k][j + 1] \in Listed(k)
    BY <2>2, ListIs DEF Listed
  <2>4. /\ After \in WalkTypes /\ After.at = "look" /\ After.kind = k
        /\ After.start = spaces[k][j + 1].start
    BY <1>3, <2>1, <2>3 DEF WalkTypes
  <2>5. ASSUME NEW l \in Kinds, NEW i \in DOMAIN spaces[l], Ahead(walk, l, i), ~(l = k /\ i = j)
        PROVE  Ahead(After, l, i)
    <3>1. CASE l = k
      <4>1. j <= i /\ i # j /\ i \in 1 .. Len(spaces[k])
        BY <1>2, <1>4, <2>5, <3>1
      <4>2. j + 1 \in 1 .. i
        BY <1>2, <4>1
      <4> QED
        BY <2>4, <3>1, <4>2 DEF Ahead
    <3>2. CASE l # k
      BY <2>4, <2>5, <3>2 DEF Ahead
    <3> QED
      BY <3>1, <3>2
  <2> QED
    BY <2>3, <2>4, <2>5
<1>6. CASE ~(j < Len(spaces[k]))
  <2>1. After = FirstFrom(ListAfter(k))
    BY <1>1, <1>6 DEF After
  <2>2. /\ After \in WalkTypes
        /\ After.at = "look" \/ (After = NoWalk /\ After.at = "over")
        /\ After.at = "look" => \E s \in Listed(After.kind) : s.start = After.start
        /\ \A l \in Kinds : \A i \in DOMAIN spaces[l] :
               ListAfter(k) < ListAfter(l) => After.at = "look" /\ Ahead(After, l, i)
    BY <1>2, <2>1, FirstFromIs DEF WalkTypes
  <2>3. \A l \in Kinds : \A i \in DOMAIN spaces[l] :
            Ahead(walk, l, i) /\ ~(l = k /\ i = j) => ListAfter(k) < ListAfter(l)
    <3>1. SUFFICES ASSUME NEW l \in Kinds, NEW i \in DOMAIN spaces[l], Ahead(walk, l, i),
                          ~(l = k /\ i = j)
                   PROVE  ListAfter(k) < ListAfter(l)
      OBVIOUS
    <3>2. l # k
      BY <1>2, <1>4, <1>6, <3>1
    <3> QED
      BY <3>1, <3>2 DEF Ahead
  <2> HIDE <2>1
  <2> QED
    BY <2>2, <2>3
<1> QED
  BY <1>5, <1>6

\* What a walk to w needs of the parts that are not about the spaces.
LEMMA WalkToIs ==
    ASSUME TypeOK, NEW w \in WalkTypes, WalkTo(w),
           w.at = "look" \/ (w = NoWalk /\ w.at = "over")
    PROVE  /\ walk' = w /\ w.at # "flag" /\ dangling' = dangling \ {"walk"}
           /\ dangling' \subseteq {"walk", "cur"} /\ "walk" \notin dangling'
           /\ w.at = "look" => mpc' = "enable"
           /\ w.at # "look" => mpc' = "select" /\ w = NoWalk
           /\ mpc' \in {"enable", "select"}
BY DEF WalkTo, TypeOK

LEMMA EnableStartKeeps ==
    ASSUME IInv, EnableStart
    PROVE  IInv'
<1>1. /\ TypeOK /\ ListsInv /\ CallInv /\ OwnInv /\ MainInv /\ mpc = "config" /\ call = NoCall
      /\ ioUp' = TRUE /\ WalkTo(FirstFrom(1))
      /\ UNCHANGED <<spaces, server, base, call, req, cur, amiss>>
  BY DEF IInv, EnableStart
<1>2. PICK w \in WalkTypes : w = FirstFrom(1)
  BY <1>1, FirstFromIs DEF WalkTypes
<1>3. /\ w.at = "look" \/ (w = NoWalk /\ w.at = "over")
      /\ w.at = "look" => \E s \in Listed(w.kind) : s.start = w.start
      /\ \A k \in Kinds : \A i \in DOMAIN spaces[k] :
             1 < ListAfter(k) => w.at = "look" /\ Ahead(w, k, i)
  BY <1>1, <1>2, FirstFromIs
<1>4. /\ walk' = w /\ w.at # "flag" /\ dangling' = dangling \ {"walk"}
      /\ dangling' \subseteq {"walk", "cur"} /\ "walk" \notin dangling'
      /\ w.at = "look" => mpc' = "enable"
      /\ w.at # "look" => mpc' = "select" /\ w = NoWalk
      /\ mpc' \in {"enable", "select"}
  <2>1. WalkTo(w)
    BY <1>1, <1>2
  <2> QED
    BY <1>1, <1>3, <2>1, WalkToIs
<1>5. walk = NoWalk /\ "walk" \notin dangling /\ walk.at # "flag" /\ req.left = req.left
  BY <1>1 DEF MainInv, NoWalk
<1>6. TypeOK'
  BY <1>1, <1>4 DEF TypeOK, WalkTypes
<1>7. ListsInv'
  BY <1>1, SameLists
<1>8. CallInv'
  BY <1>1, IdleIs DEF CallInv, Entered
<1>9. OwnInv'
  <2>1. \A r \in Regions : Place(r)' = Place(r)
    BY <1>1 DEF Place, Entered
  <2> QED
    BY <1>1, <1>4, <2>1, SameLists DEF OwnInv
<1>10. MainInv'
  BY <1>1, <1>3, <1>4, SameLists DEF MainInv
<1>11. ASSUME Orderly'
       PROVE  MappedInv' /\ RouteInv' /\ WalkInv' /\ ReqInv'
  <2>1. MappedInv /\ RouteInv /\ WalkInv /\ ReqInv
    BY <1>1, <1>11 DEF IInv, Orderly
  <2>2. MappedInv' /\ RouteInv'
    BY <1>1, <1>4, <1>5, <2>1, SameMapped
  <2>3. WalkInv'
    <3>1. \A k \in Kinds : 1 < ListAfter(k)
      BY ListAfterIs
    <3>2. \A k \in Kinds : \A i \in DOMAIN spaces[k] : mpc' = "enable" /\ Ahead(w, k, i)
      BY <1>3, <1>4, <3>1
    <3>3. \A k, i : Ahead(w, k, i)' <=> Ahead(w, k, i)
      BY <1>1, SameLists
    <3>4. \A k \in Kinds : \A i \in DOMAIN spaces'[k] : mpc' = "enable" /\ Ahead(walk, k, i)'
      BY <1>1, <1>4, <3>2, <3>3
    <3> QED
      BY <3>4 DEF WalkInv
  <2>4. ReqInv'
    BY <1>1, <2>1, SameLists DEF ReqInv, Covers
  <2> QED
    BY <2>2, <2>3, <2>4
<1> QED
  BY <1>6, <1>7, <1>8, <1>9, <1>10, <1>11 DEF IInv

LEMMA EnableFreedKeeps ==
    ASSUME IInv, EnableFreed
    PROVE  IInv'
<1>1. /\ TypeOK /\ ListsInv /\ CallInv /\ OwnInv /\ MainInv /\ mpc = "enable"
      /\ amiss' = amiss \cup {"strayed"}
      /\ UNCHANGED <<spaces, server, base, call, ioUp, req, cur>>
  BY DEF IInv, EnableFreed, Note
<1>2. \/ mpc' = "failed" /\ UNCHANGED <<walk, dangling>>
      \/ \E w \in WalkTypes :
            /\ WalkTo(w) /\ (w.at = "look" \/ (w = NoWalk /\ w.at = "over"))
            /\ w.at = "look" => \E s \in Listed(w.kind) : s.start = w.start
  <2>1. CASE \E i \in DOMAIN spaces[walk.kind] :
                WalkTo([walk EXCEPT !.start = spaces[walk.kind][i].start, !.at = "look"])
    <3>1. PICK i \in DOMAIN spaces[walk.kind] :
                WalkTo([walk EXCEPT !.start = spaces[walk.kind][i].start, !.at = "look"])
      BY <2>1
    <3>2. walk.kind \in Kinds
      BY <1>1 DEF TypeOK
    <3>3. spaces[walk.kind][i].start \in Addrs /\ spaces[walk.kind][i] \in Listed(walk.kind)
      BY <1>1, <3>2, ListIs DEF Listed
    <3>4. PICK w : w = [walk EXCEPT !.start = spaces[walk.kind][i].start, !.at = "look"]
      OBVIOUS
    <3>5. w \in WalkTypes /\ w.at = "look" /\ w.kind = walk.kind /\ w.start = spaces[walk.kind][i].start
      BY <1>1, <3>3, <3>4 DEF TypeOK, WalkTypes
    <3> QED
      BY <3>1, <3>3, <3>4, <3>5
  <2>2. CASE WalkTo(FirstFrom(ListAfter(walk.kind)))
    <3>1. ListAfter(walk.kind) \in 1 .. 4
      BY <1>1, ListAfterIs DEF TypeOK
    <3>2. /\ FirstFrom(ListAfter(walk.kind)) \in WalkTypes
          /\ FirstFrom(ListAfter(walk.kind)).at = "look"
                \/ (FirstFrom(ListAfter(walk.kind)) = NoWalk /\ FirstFrom(ListAfter(walk.kind)).at = "over")
          /\ FirstFrom(ListAfter(walk.kind)).at = "look" =>
                \E s \in Listed(FirstFrom(ListAfter(walk.kind)).kind) :
                    s.start = FirstFrom(ListAfter(walk.kind)).start
      BY <1>1, <3>1, FirstFromIs DEF WalkTypes
    <3> QED
      BY <2>2, <3>2
  <2> QED
    BY <2>1, <2>2 DEF EnableFreed
<1>3. /\ walk' \in WalkTypes /\ dangling' \subseteq {"walk", "cur"}
      /\ mpc' \in {"failed", "enable", "select"}
      /\ mpc' = "select" => walk' = NoWalk /\ "walk" \notin dangling'
      /\ mpc' = "enable" => walk'.at # "over" /\ \E s \in Listed(walk'.kind) : s.start = walk'.start
  <2>1. CASE mpc' = "failed" /\ UNCHANGED <<walk, dangling>>
    BY <1>1, <2>1 DEF TypeOK, WalkTypes
  <2>2. CASE \E w \in WalkTypes :
               /\ WalkTo(w) /\ (w.at = "look" \/ (w = NoWalk /\ w.at = "over"))
               /\ w.at = "look" => \E s \in Listed(w.kind) : s.start = w.start
    BY <1>1, <2>2, WalkToIs
  <2> QED
    BY <1>2, <2>1, <2>2
<1>4. TypeOK'
  BY <1>1, <1>3 DEF TypeOK, WalkTypes, Mishaps
<1>5. ListsInv'
  BY <1>1, SameLists
<1>6. CallInv'
  BY <1>1 DEF CallInv, Entered, K
<1>7. OwnInv'
  <2>1. \A r \in Regions : Place(r)' = Place(r)
    BY <1>1 DEF Place, Entered
  <2> QED
    BY <1>1, <1>3, <2>1, SameLists DEF OwnInv
<1>8. MainInv'
  <2>1. \A l : Listed(l)' = Listed(l)
    BY <1>1, SameLists
  <2>2. mpc' = "enable" => \E s \in Listed(walk.kind)' : s.start = walk'.start
    BY <1>3, <2>1
  <2> QED
    BY <1>1, <1>3, <2>2 DEF MainInv
<1>9. ~Orderly'
  BY <1>1 DEF Orderly
<1> QED
  BY <1>4, <1>5, <1>6, <1>7, <1>8, <1>9 DEF IInv

\* The space enable_io is at.
LEMMA WalkIs ==
    ASSUME TypeOK, ListsInv, MainInv, mpc = "enable", "walk" \notin dangling
    PROVE  \E k \in Kinds : \E j \in DOMAIN spaces[k] :
               /\ walk.kind = k /\ spaces[k][j].start = walk.start
               /\ Exact(k, walk.start) = j
<1>1. PICK k \in Kinds : k = walk.kind
  BY DEF TypeOK
<1>2. PICK j \in DOMAIN spaces[k] : spaces[k][j].start = walk.start
  BY <1>1 DEF MainInv, Listed
<1>3. Exact(k, walk.start) = j
  BY <1>2, ExactIs
<1> QED
  BY <1>1, <1>2, <1>3

LEMMA EnableLookKeeps ==
    ASSUME IInv, EnableLook
    PROVE  IInv'
<1>1. /\ TypeOK /\ ListsInv /\ CallInv /\ OwnInv /\ MainInv
      /\ mpc = "enable" /\ walk.at = "look" /\ "walk" \notin dangling
      /\ UNCHANGED <<spaces, base, call, ioUp, req, cur, amiss>>
  BY DEF IInv, EnableLook
<1>2. PICK k \in Kinds : \E j \in DOMAIN spaces[k] :
          walk.kind = k /\ spaces[k][j].start = walk.start /\ Exact(k, walk.start) = j
  BY <1>1, WalkIs
<1>3. PICK j \in DOMAIN spaces[k] :
          walk.kind = k /\ spaces[k][j].start = walk.start /\ Exact(k, walk.start) = j
  BY <1>2
<1>4. PICK s \in Listed(k) : s = spaces[k][j]
  BY <1>3 DEF Listed
<1>5. \/ s.init /\ WalkTo(After) /\ UNCHANGED server
      \/ /\ ~s.init /\ CanMap(k, s) /\ MapRange(k, s)
         /\ walk' = [walk EXCEPT !.at = "flag"] /\ UNCHANGED <<mpc, dangling>>
      \/ ~s.init /\ mpc' = "failed" /\ UNCHANGED <<server, walk, dangling>>
  BY <1>3, <1>4 DEF EnableLook
<1>6. /\ ListsInv' /\ CallInv'
      /\ \A r \in Regions : Place(r)' = Place(r)
      /\ \A l : Listed(l)' = Listed(l)
      /\ \A w, l, i : Ahead(w, l, i)' <=> Ahead(w, l, i)
  BY <1>1, SameLists DEF CallInv, Entered, K, Place
<1>7. OwnInv /\ mpc' # "aborted" => OwnInv'
  BY <1>1, <1>6 DEF OwnInv
<1>8. ASSUME Orderly'
      PROVE  MappedInv /\ RouteInv /\ WalkInv /\ ReqInv /\ ReqInv'
  <2>1. MappedInv /\ RouteInv /\ WalkInv /\ ReqInv
    BY <1>1, <1>8 DEF IInv, Orderly
  <2> QED
    BY <1>1, <1>6, <2>1 DEF ReqInv, Covers
\* It is marked already.
<1>9. CASE s.init /\ WalkTo(After) /\ server' = server
  <2>1. PICK w \in WalkTypes : w = After
    BY <1>1, <1>3, AfterIs
  <2>2. /\ w.at = "look" \/ (w = NoWalk /\ w.at = "over")
        /\ w.at = "look" => \E t \in Listed(w.kind) : t.start = w.start
        /\ \A l \in Kinds : \A i \in DOMAIN spaces[l] :
               Ahead(walk, l, i) /\ ~(l = k /\ i = j) => w.at = "look" /\ Ahead(w, l, i)
    BY <1>1, <1>3, <2>1, AfterIs
  <2>3. /\ walk' = w /\ w.at # "flag" /\ dangling' = dangling \ {"walk"}
        /\ dangling' \subseteq {"walk", "cur"} /\ "walk" \notin dangling'
        /\ w.at = "look" => mpc' = "enable"
        /\ w.at # "look" => mpc' = "select" /\ w = NoWalk
        /\ mpc' \in {"enable", "select"}
    <3>1. WalkTo(w)
      BY <1>9, <2>1
    <3> QED
      BY <1>1, <2>2, <3>1, WalkToIs
  <2>4. TypeOK'
    BY <1>1, <1>9, <2>3 DEF TypeOK, WalkTypes
  <2>5. MainInv'
    BY <1>1, <1>6, <2>2, <2>3 DEF MainInv
  <2>6. ASSUME Orderly'
        PROVE  MappedInv' /\ RouteInv' /\ WalkInv' /\ ReqInv'
    <3>1. MappedInv' /\ RouteInv'
      BY <1>1, <1>8, <1>9, <2>3, <2>6, SameMapped
    <3>2. WalkInv'
      <4>1. SUFFICES ASSUME NEW l \in Kinds, NEW i \in DOMAIN spaces[l]
                     PROVE  \/ spaces[l][i].init
                            \/ Entered /\ l = K /\ i = 1
                            \/ mpc' = "enable" /\ Ahead(w, l, i)
        BY <1>1, <1>6, <2>3 DEF WalkInv, Entered, K
      <4>2. spaces[l][i].init \/ (Entered /\ l = K /\ i = 1) \/ Ahead(walk, l, i)
        BY <1>1, <1>8, <2>6, <4>1 DEF WalkInv
      <4> QED
        BY <1>4, <1>9, <2>2, <2>3, <4>1, <4>2
    <3> QED
      BY <1>8, <2>6, <3>1, <3>2
  <2> QED
    BY <1>1, <1>6, <1>7, <2>3, <2>4, <2>5, <2>6 DEF IInv
\* It is mapped.
<1>10. CASE /\ ~s.init /\ CanMap(k, s) /\ MapRange(k, s)
           /\ walk' = [walk EXCEPT !.at = "flag"] /\ UNCHANGED <<mpc, dangling>>
  <2>1. walk' \in WalkTypes /\ walk'.at = "flag" /\ walk'.kind = k /\ walk'.start = walk.start
    BY <1>1, <1>3, <1>10 DEF TypeOK, WalkTypes
  <2>2. s.start = walk.start /\ s.start \in Nat /\ s.end \in Nat
    BY <1>1, <1>3, <1>4, ListIs
  <2>3. /\ DOMAIN server = Kinds /\ \A l \in Kinds : server[l] \subseteq Nat
    BY <1>1 DEF TypeOK
  <2>4. /\ DOMAIN server' = Kinds /\ server'[k] = server[k] \cup Extent(s)
        /\ \A l \in Kinds : l # k => server'[l] = server[l]
    BY <1>10, <2>3 DEF MapRange
  <2>5. \A l \in Kinds : server'[l] \subseteq Nat
    BY <2>2, <2>3, <2>4 DEF Extent
  <2>6. TypeOK'
    BY <1>1, <1>10, <2>1, <2>4, <2>5 DEF TypeOK, WalkTypes
  <2>7. MainInv'
    BY <1>1, <1>3, <1>4, <1>6, <1>10, <2>1, <2>2 DEF MainInv
  <2>8. ASSUME Orderly'
        PROVE  MappedInv' /\ RouteInv' /\ WalkInv'
    <3>1. \A l \in Kinds : \A t \in Listed(l) : Mapped(l, t)' <=> Mapped(l, t) \/ (l = k /\ t = s)
      <4>1. \A t \in Listed(k) : t.start = walk.start => t = s
        BY <1>1, <2>2, SameSpace
      <4> QED
        BY <1>1, <1>10, <2>1, <2>2, <4>1 DEF Mapped, K
    <3>2. \A t \in Listed(k) : Mapped(k, t) => Extent(t) \cap Extent(s) = {}
      BY <1>8, <1>10, <2>8 DEF MappedInv, CanMap
    <3>3. MappedInv'
      <4>1. \A l \in Kinds : \A t \in Listed(l) : Mapped(l, t)' => Extent(t) \subseteq server'[l]
        BY <1>8, <2>4, <2>8, <3>1 DEF MappedInv
      <4>2. \A l \in Kinds : \A t, u \in Listed(l) :
                Mapped(l, t)' /\ Mapped(l, u)' /\ t # u => Extent(t) \cap Extent(u) = {}
        <5>1. \A l \in Kinds : \A t, u \in Listed(l) :
                  Mapped(l, t) /\ Mapped(l, u) /\ t # u => Extent(t) \cap Extent(u) = {}
          BY <1>8, <2>8 DEF MappedInv
        <5> QED
          BY <3>1, <3>2, <5>1
      \* The new range was not one that Xen is about to take back.
      <4>3. ASSUME call.at = "unmap", NEW l \in Kinds, l = K
            PROVE  /\ Leaving \subseteq server'[l]
                   /\ \A t \in Listed(l) : Mapped(l, t)' => Extent(t) \cap Leaving = {}
        <5>1. /\ Leaving \subseteq server[l]
              /\ \A t \in Listed(l) : Mapped(l, t) => Extent(t) \cap Leaving = {}
          BY <1>8, <2>8, <4>3 DEF MappedInv
        <5>2. l = k => Extent(s) \cap Leaving = {}
          BY <1>10, <5>1 DEF CanMap
        <5> QED
          BY <2>4, <3>1, <5>1, <5>2
      <4>4. call.at = "unmap" => K \in Kinds
        BY <1>1, CallIs
      <4>5. K' = K /\ Leaving' = Leaving /\ call' = call
        BY <1>1 DEF K, Leaving
      <4> QED
        BY <1>6, <4>1, <4>2, <4>3, <4>4, <4>5 DEF MappedInv, Extent
    <3>4. RouteInv'
      <4>1. SUFFICES ASSUME "collided" \notin amiss, NEW l \in Kinds, NEW a \in server'[l]
                     PROVE  \/ \E t \in Listed(l) : Mapped(l, t)' /\ Covers(t, a)
                            \/ call.at = "unmap" /\ l = K /\ a \in Leaving
        <5>1. K' = K /\ Leaving' = Leaving /\ call' = call
          BY <1>1 DEF K, Leaving
        <5> QED
          BY <1>1, <1>6, <5>1 DEF RouteInv, Covers
      <4>2. CASE a \in server[l]
        BY <1>1, <1>8, <2>8, <3>1, <4>1, <4>2 DEF RouteInv
      <4>3. CASE a \notin server[l]
        <5>1. l = k /\ a \in Extent(s)
          BY <2>4, <4>1, <4>3
        <5>2. Covers(s, a)
          BY <2>2, <5>1 DEF Covers, Extent
        <5> QED
          BY <3>1, <5>1, <5>2
      <4> QED
        BY <4>2, <4>3
    <3>5. WalkInv'
      <4>1. \A l, i : Ahead(walk, l, i)' <=> Ahead(walk, l, i)
        BY <1>1, <1>3, <2>1 DEF Ahead
      <4> QED
        BY <1>1, <1>8, <1>10, <2>8, <4>1 DEF WalkInv, Entered, K
    <3> QED
      BY <3>3, <3>4, <3>5
  <2> QED
    BY <1>1, <1>6, <1>7, <1>8, <1>10, <2>6, <2>7, <2>8 DEF IInv
\* Xen refuses it, and enable_io stops.
<1>11. CASE ~s.init /\ mpc' = "failed" /\ UNCHANGED <<server, walk, dangling>>
  <2>1. TypeOK'
    BY <1>1, <1>11 DEF TypeOK
  <2>2. MainInv'
    BY <1>1, <1>11 DEF MainInv
  <2>3. ASSUME Orderly'
        PROVE  MappedInv' /\ RouteInv' /\ WalkInv'
    <3>1. MappedInv' /\ RouteInv'
      BY <1>1, <1>8, <1>11, <2>3, SameMapped
    <3>2. WalkInv'
      BY <1>11 DEF WalkInv
    <3> QED
      BY <3>1, <3>2
  <2> QED
    BY <1>1, <1>6, <1>7, <1>8, <1>11, <2>1, <2>2, <2>3 DEF IInv
<1> QED
  BY <1>5, <1>9, <1>10, <1>11

LEMMA EnableFlagKeeps ==
    ASSUME IInv, EnableFlag
    PROVE  IInv'
<1>1. /\ TypeOK /\ ListsInv /\ CallInv /\ OwnInv /\ MainInv
      /\ mpc = "enable" /\ walk.at = "flag" /\ "walk" \notin dangling
      /\ UNCHANGED <<server, base, call, ioUp, req, cur, amiss>>
  BY DEF IInv, EnableFlag
<1>2. PICK k \in Kinds : \E j \in DOMAIN spaces[k] :
          walk.kind = k /\ spaces[k][j].start = walk.start /\ Exact(k, walk.start) = j
  BY <1>1, WalkIs
<1>3. PICK j \in DOMAIN spaces[k] :
          walk.kind = k /\ spaces[k][j].start = walk.start /\ Exact(k, walk.start) = j
  BY <1>2
<1>4. spaces' = [spaces EXCEPT ![k][j].init = TRUE] /\ WalkTo(After)
  BY <1>3 DEF EnableFlag
<1>5. PICK w \in WalkTypes : w = After
  BY <1>1, <1>3, AfterIs
<1>6. /\ w.at = "look" \/ (w = NoWalk /\ w.at = "over")
      /\ w.at = "look" => \E t \in Listed(w.kind) : t.start = w.start
      /\ \A l \in Kinds : \A i \in DOMAIN spaces[l] :
             Ahead(walk, l, i) /\ ~(l = k /\ i = j) => w.at = "look" /\ Ahead(w, l, i)
  BY <1>1, <1>3, <1>5, AfterIs
<1>7. /\ walk' = w /\ w.at # "flag" /\ dangling' = dangling \ {"walk"}
      /\ dangling' \subseteq {"walk", "cur"} /\ "walk" \notin dangling'
      /\ w.at = "look" => mpc' = "enable"
      /\ w.at # "look" => mpc' = "select" /\ w = NoWalk
      /\ mpc' \in {"enable", "select"}
  <2>1. WalkTo(w)
    BY <1>4, <1>5
  <2> QED
    BY <1>1, <1>6, <2>1, WalkToIs
<1>8. /\ Changes(k)
      /\ DOMAIN spaces'[k] = DOMAIN spaces[k]
      /\ \A i \in DOMAIN spaces[k] :
             spaces'[k][i].start = spaces[k][i].start /\ (i # j => spaces'[k][i] = spaces[k][i])
      /\ spaces'[k][j].init
  <2>1. TypeOK /\ ListsInv /\ spaces' = [spaces EXCEPT ![k][j].init = TRUE]
    BY <1>1, <1>4
  <2> QED
    BY ONLY <2>1, MarkedIs, ZenonT(60)
<1>9. \A l \in Kinds : l # k => spaces'[l] = spaces[l]
  BY <1>8 DEF Changes
<1>10. /\ \A x, l, i : l \in Kinds /\ i \in DOMAIN spaces[l] => (Ahead(x, l, i)' <=> Ahead(x, l, i))
       /\ \A l \in Kinds : \A t \in Listed(l) : \E u \in Listed(l)' : Twin(t, u)
  BY <1>1, <1>4, TwinsIs
<1>11. \A l \in Kinds : \A t \in Listed(l) : \A u \in Listed(l)' :
           u.start = t.start => (Mapped(l, u)' <=> Mapped(l, t))
  <2>1. SUFFICES ASSUME NEW l \in Kinds, NEW t \in Listed(l), NEW u \in Listed(l)', u.start = t.start
                 PROVE  Mapped(l, u)' <=> Mapped(l, t)
    OBVIOUS
  <2>2. u.init <=> t.init \/ (l = k /\ t = spaces[k][j])
    BY <1>1, <1>4, <2>1, InitIs
  <2>3. l = k => (t = spaces[k][j] <=> t.start = walk.start)
    <3>1. spaces[k][j] \in Listed(k)
      BY DEF Listed
    <3> QED
      BY <1>1, <1>3, <3>1, SameSpace
  <2>4. K' = K
    BY <1>1 DEF K
  <2> QED
    BY <1>1, <1>3, <1>7, <2>1, <2>2, <2>3, <2>4 DEF Mapped
<1>12. \A r \in Regions : Place(r)' = Place(r)
  BY <1>1 DEF Place, Entered
<1>13. /\ MappedInv => MappedInv'
       /\ RouteInv => RouteInv'
       /\ ReqInv => ReqInv'
       /\ OwnInv' /\ ListsInv'
  <2>1. "walk" \in dangling <=> "walk" \in dangling'
    BY <1>1, <1>7
  <2>2. mpc' # "aborted"
    BY <1>7
  <2> QED
    BY <1>1, <1>4, <1>11, <1>12, <2>1, <2>2, MarkKeeps
<1>14. TypeOK'
  BY <1>1, <1>7, <1>8 DEF TypeOK, WalkTypes, Changes, Lists1
<1>15. CallInv'
  <2>1. Entered => K \in Kinds /\ 1 \in DOMAIN spaces[K] /\ spaces[K][1].start = call.to
    BY <1>1, CallIs, HeadIs DEF Entered
  <2>2. Entered => spaces'[K] # <<>> /\ spaces'[K][1].start = call.to
    <3>1. ASSUME Entered, NEW l \in Kinds, l = K
          PROVE  spaces'[l] # <<>> /\ spaces'[l][1].start = call.to
      <4>1. 1 \in DOMAIN spaces'[l]
        BY <1>8, <1>9, <2>1, <3>1
      <4>2. spaces'[l][1].start = call.to
        BY <1>8, <1>9, <2>1, <3>1
      <4> QED
        BY <4>1, <4>2
    <3> QED
      BY <2>1, <3>1
  <2>3. K' = K
    BY <1>1 DEF K
  <2> QED
    BY <1>1, <2>2, <2>3 DEF CallInv, Entered
<1>16. MainInv'
  <2>1. w.at = "look" => \E u \in Listed(walk.kind)' : u.start = w.start
    <3>1. SUFFICES ASSUME w.at = "look" PROVE \E u \in Listed(walk.kind)' : u.start = w.start
      OBVIOUS
    <3>2. PICK l \in Kinds : l = w.kind /\ l = walk'.kind
      BY <1>7 DEF WalkTypes
    <3>3. PICK t \in Listed(l) : t.start = w.start
      BY <1>6, <3>1, <3>2
    <3>4. PICK u \in Listed(l)' : Twin(t, u)
      BY <1>10
    <3> QED
      BY <3>2, <3>3, <3>4 DEF Twin
  <2> QED
    BY <1>1, <1>7, <2>1 DEF MainInv
<1>17. ASSUME Orderly'
       PROVE  MappedInv' /\ RouteInv' /\ WalkInv' /\ ReqInv'
  <2>1. MappedInv /\ RouteInv /\ WalkInv /\ ReqInv
    BY <1>1, <1>17 DEF IInv, Orderly
  <2>2. WalkInv'
    <3>1. SUFFICES ASSUME NEW l \in Kinds, NEW i \in DOMAIN spaces'[l]
                   PROVE  \/ spaces'[l][i].init
                          \/ Entered /\ l = K /\ i = 1
                          \/ mpc' = "enable" /\ Ahead(w, l, i)'
      BY <1>1, <1>7 DEF WalkInv, Entered, K, Ahead
    <3>2. i \in DOMAIN spaces[l]
      BY <1>8, <1>9, <3>1
    <3>3. Ahead(w, l, i)' <=> Ahead(w, l, i)
      BY <1>10, <3>2
    <3>4. CASE l = k /\ i = j
      BY <1>8, <3>4
    <3>5. CASE ~(l = k /\ i = j)
      <4>1. spaces'[l][i] = spaces[l][i]
        BY <1>8, <1>9, <3>2, <3>5
      <4>2. spaces[l][i].init \/ (Entered /\ l = K /\ i = 1) \/ Ahead(walk, l, i)
        BY <1>1, <2>1, <3>2 DEF WalkInv
      <4> QED
        BY <1>6, <1>7, <3>2, <3>3, <3>5, <4>1, <4>2
    <3> QED
      BY <3>4, <3>5
  <2> QED
    BY <1>13, <2>1, <2>2
<1> QED
  BY <1>13, <1>14, <1>15, <1>16, <1>17 DEF IInv

-----------------------------------------------------------------------------
(* Requests.                                                               *)

\* A step of the request's leaves the spaces, the ranges and the walk alone.
LEMMA RequestKeeps ==
    ASSUME IInv, UNCHANGED <<spaces, server, base, call, ioUp, walk, amiss>>,
           "walk" \in dangling <=> "walk" \in dangling',
           mpc \notin {"config", "enable", "failed", "aborted"},
           mpc' \notin {"config", "enable", "failed", "aborted"},
           TypeOK', req' = NoReq \/ req'.left > 0,
           mpc' \in {"item", "callback"} => req'.left > 0,
           Orderly /\ ReqInv => ReqInv'
    PROVE  IInv'
<1>1. ListsInv' /\ CallInv' /\ OwnInv'
  <2>1. \A r \in Regions : Place(r)' = Place(r)
    BY DEF Place, Entered
  <2> QED
    BY <2>1, SameLists DEF IInv, CallInv, OwnInv, Entered, K
<1>2. MainInv'
  BY DEF IInv, MainInv
<1>3. ASSUME Orderly'
      PROVE  MappedInv' /\ RouteInv' /\ WalkInv' /\ ReqInv'
  <2>1. MappedInv /\ RouteInv /\ WalkInv /\ ReqInv /\ Orderly
    BY <1>3 DEF IInv, Orderly
  <2>2. MappedInv' /\ RouteInv'
    BY <2>1, SameMapped
  <2>3. WalkInv'
    BY <2>1 DEF WalkInv, Entered, K
  <2> QED
    BY <2>1, <2>2, <2>3
<1> QED
  BY <1>1, <1>2, <1>3 DEF IInv

LEMMA NoneIs ==
    /\ NoReq \in [kind : Kinds, addr : Nat, left : 0 .. 2, first : BOOLEAN,
                  owner : Owners \cup {NoBase}, moved : BOOLEAN]
    /\ NoSpace \in [kind : Kinds, start : Addrs \cup {NoBase}, owner : Owners \cup {NoBase}]
    /\ NoReq.left = 0
BY DEF NoReq, NoSpace, Kinds

LEMMA AccessKeeps ==
    ASSUME IInv, NEW k \in Kinds, NEW a \in server[k], NEW n \in 1 .. 2, Access(k, a, n)
    PROVE  IInv'
<1> DEFINE is == {i \in DOMAIN spaces[k] : spaces[k][i].init /\ Covers(spaces[k][i], a)}
<1>1. /\ TypeOK /\ mpc \in {"select", "item", "callback"}
      /\ UNCHANGED <<callVars, ioUp, mpc, walk, cur, amiss>>
      /\ req' = [kind |-> k, addr |-> a, left |-> n, first |-> TRUE,
                 owner |-> IF is = {} THEN NoBase ELSE spaces[k][Min(is)].owner,
                 moved |-> is = {}]
  BY DEF IInv, Access
<1>2. is # {} => Min(is) \in is
  <2>1. is \in SUBSET Nat
    BY <1>1, ListIs
  <2> QED
    BY <2>1, MinIs
<1>3. is # {} => spaces[k][Min(is)].owner \in Owners /\ spaces[k][Min(is)] \in Listed(k)
  BY <1>1, <1>2, ListIs DEF Listed
<1>4. a \in Nat
  BY <1>1 DEF TypeOK
<1>5. /\ req' \in [kind : Kinds, addr : Nat, left : 0 .. 2, first : BOOLEAN,
                   owner : Owners \cup {NoBase}, moved : BOOLEAN]
      /\ req'.left > 0 /\ req'.kind = k /\ req'.addr = a
      /\ ~req'.moved => is # {} /\ req'.owner = spaces[k][Min(is)].owner
  <2>1. PICK o : o = IF is = {} THEN NoBase ELSE spaces[k][Min(is)].owner
    OBVIOUS
  <2>2. PICK m \in BOOLEAN : m <=> is = {}
    OBVIOUS
  <2>3. o \in Owners \cup {NoBase} /\ n \in 0 .. 2 /\ n > 0
    BY <1>3, <2>1
  <2>4. req' = [kind |-> k, addr |-> a, left |-> n, first |-> TRUE, owner |-> o, moved |-> m]
    BY <1>1, <2>1, <2>2
  <2> HIDE DEF is
  <2>5. /\ req'.left > 0 /\ req'.kind = k /\ req'.addr = a
        /\ ~req'.moved => is # {} /\ req'.owner = spaces[k][Min(is)].owner
    BY <2>1, <2>2, <2>3, <2>4
  <2>6. req' \in [kind : Kinds, addr : Nat, left : 0 .. 2, first : BOOLEAN,
                 owner : Owners \cup {NoBase}, moved : BOOLEAN]
    BY <1>4, <2>3, <2>4
  <2> QED
    BY <2>5, <2>6
<1>6. TypeOK'
  BY <1>1, <1>5 DEF TypeOK, callVars
<1>7. ReqInv'
  <2>1. SUFFICES ASSUME ~req'.moved
                 PROVE  \E s \in Listed(req.kind)' :
                            s.init /\ Covers(s, req.addr)' /\ s.owner = req'.owner
    BY DEF ReqInv, Covers
  <2>2. Listed(k)' = Listed(k)
    BY <1>1, SameLists DEF callVars
  <2>3. spaces[k][Min(is)].init /\ Covers(spaces[k][Min(is)], a)
    BY <1>2, <1>5, <2>1
  <2>4. spaces[k][Min(is)] \in Listed(k) /\ req'.owner = spaces[k][Min(is)].owner
    BY <1>3, <1>5, <2>1
  <2> HIDE DEF is
  <2>5. Listed(req.kind)' = Listed(k)
    BY <1>5, <2>2
  <2> QED
    BY <1>5, <2>3, <2>4, <2>5 DEF Covers
<1> HIDE DEF is
<1> QED
  BY <1>1, <1>5, <1>6, <1>7, RequestKeeps DEF callVars

LEMMA DispatchKeeps ==
    ASSUME IInv, Dispatch
    PROVE  IInv'
<1> DEFINE i == Find(req.kind, req.addr)
           s == spaces[req.kind][i]
<1>1. /\ TypeOK /\ MainInv /\ mpc = "select" /\ req # NoReq
      /\ dangling' = dangling \ {"cur"}
      /\ IF i = 0
         THEN req' = NoReq /\ UNCHANGED <<mpc, cur>>
         ELSE /\ mpc' = "item"
              /\ cur' = [kind |-> req.kind, start |-> s.start, owner |-> s.owner]
              /\ UNCHANGED req
      /\ UNCHANGED <<spaces, server, base, call, ioUp, walk, amiss>>
  BY DEF IInv, Dispatch
<1>2. req.kind \in Kinds /\ req.left > 0
  BY <1>1 DEF TypeOK, MainInv
<1>3. i # 0 => s.start \in Addrs /\ s.owner \in Owners
  BY <1>1, <1>2, FindIs, ListIs
<1> HIDE DEF i, s
<1>4. /\ req' \in [kind : Kinds, addr : Nat, left : 0 .. 2, first : BOOLEAN,
                   owner : Owners \cup {NoBase}, moved : BOOLEAN]
      /\ cur' \in [kind : Kinds, start : Addrs \cup {NoBase}, owner : Owners \cup {NoBase}]
      /\ mpc' \in {"select", "item"}
      /\ req' = NoReq \/ req' = req
      /\ mpc' = "item" => req' = req
  <2>1. CASE i = 0
    BY <1>1, <2>1, NoneIs DEF TypeOK
  <2>2. CASE i # 0
    BY <1>1, <1>2, <1>3, <2>2 DEF TypeOK
  <2> QED
    BY <2>1, <2>2
<1>5. TypeOK'
  BY <1>1, <1>4 DEF TypeOK
<1>6. ASSUME ReqInv
      PROVE  ReqInv'
  <2>1. CASE req' = NoReq
    BY <2>1 DEF ReqInv, NoReq
  <2>2. CASE req' = req
    BY <1>1, <1>6, <2>2, SameLists DEF ReqInv, Covers
  <2> QED
    BY <1>4, <2>1, <2>2
<1> QED
  BY <1>1, <1>2, <1>4, <1>5, <1>6, RequestKeeps

LEMMA ItemDoneIs ==
    ASSUME TypeOK, ItemDone, req.left > 0
    PROVE  /\ req' \in [kind : Kinds, addr : Nat, left : 0 .. 2, first : BOOLEAN,
                        owner : Owners \cup {NoBase}, moved : BOOLEAN]
           /\ cur' \in [kind : Kinds, start : Addrs \cup {NoBase}, owner : Owners \cup {NoBase}]
           /\ mpc' \in {"select", "item"}
           /\ \/ req' = NoReq /\ mpc' = "select"
              \/ /\ req'.left > 0 /\ req'.kind = req.kind /\ req'.addr = req.addr
                 /\ req'.owner = req.owner /\ req'.moved = req.moved
<1>1. CASE req.left = 1
  BY <1>1, NoneIs DEF ItemDone
<1>2. CASE req.left # 1
  <2>1. req.left = 2
    BY <1>2 DEF TypeOK
  <2>2. /\ req' = [req EXCEPT !.left = 1, !.first = FALSE] /\ mpc' = "item" /\ cur' = cur
    BY <1>2, <2>1 DEF ItemDone
  <2>3. /\ req \in [kind : Kinds, addr : Nat, left : 0 .. 2, first : BOOLEAN,
                    owner : Owners \cup {NoBase}, moved : BOOLEAN]
        /\ cur \in [kind : Kinds, start : Addrs \cup {NoBase}, owner : Owners \cup {NoBase}]
    BY DEF TypeOK
  <2>4. /\ req'.left = 1 /\ req'.kind = req.kind /\ req'.addr = req.addr
        /\ req'.owner = req.owner /\ req'.moved = req.moved
    BY <2>2, <2>3
  <2>5. 1 \in 0 .. 2
    OBVIOUS
  <2>6. req' \in [kind : Kinds, addr : Nat, left : 0 .. 2, first : BOOLEAN,
                 owner : Owners \cup {NoBase}, moved : BOOLEAN]
    BY ONLY <2>2, <2>3, <2>5
  <2> QED
    BY <2>2, <2>3, <2>4, <2>6
<1> QED
  BY <1>1, <1>2

LEMMA DoneKeepsReq ==
    ASSUME UNCHANGED spaces,
           \/ req' = NoReq
           \/ /\ req'.left > 0 /\ req'.kind = req.kind /\ req'.addr = req.addr
              /\ req'.owner = req.owner /\ req'.moved = req.moved,
           req.left > 0, ReqInv
    PROVE  ReqInv'
<1>1. CASE req' = NoReq
  BY <1>1 DEF ReqInv, NoReq
<1>2. CASE /\ req'.left > 0 /\ req'.kind = req.kind /\ req'.addr = req.addr
           /\ req'.owner = req.owner /\ req'.moved = req.moved
  BY <1>2, SameLists DEF ReqInv, Covers
<1> QED
  BY <1>1, <1>2

LEMMA ItemKeeps ==
    ASSUME IInv, Item \/ CallbackReturns
    PROVE  IInv'
<1>1. /\ TypeOK /\ MainInv /\ mpc \in {"item", "callback"}
      /\ ItemDone \/ (mpc' = "callback" /\ UNCHANGED <<req, cur>>)
      /\ UNCHANGED <<callVars, ioUp, walk, amiss>>
  BY DEF IInv, Item, CallbackReturns
<1>2. req.left > 0
  BY <1>1 DEF MainInv
<1>3. CASE ItemDone
  <2>1. /\ req' \in [kind : Kinds, addr : Nat, left : 0 .. 2, first : BOOLEAN,
                     owner : Owners \cup {NoBase}, moved : BOOLEAN]
        /\ cur' \in [kind : Kinds, start : Addrs \cup {NoBase}, owner : Owners \cup {NoBase}]
        /\ mpc' \in {"select", "item"}
        /\ \/ req' = NoReq /\ mpc' = "select"
           \/ /\ req'.left > 0 /\ req'.kind = req.kind /\ req'.addr = req.addr
              /\ req'.owner = req.owner /\ req'.moved = req.moved
    BY <1>1, <1>2, <1>3, ItemDoneIs
  <2>2. TypeOK'
    BY <1>1, <2>1 DEF TypeOK, callVars
  <2>3. ReqInv => ReqInv'
    BY <1>1, <1>2, <2>1, DoneKeepsReq DEF callVars
  <2> QED
    BY <1>1, <2>1, <2>2, <2>3, RequestKeeps DEF callVars
<1>4. CASE mpc' = "callback" /\ UNCHANGED <<req, cur>>
  <2>1. TypeOK'
    BY <1>1, <1>4 DEF TypeOK, callVars
  <2>2. ReqInv => ReqInv'
    BY <1>1, <1>4, SameLists DEF ReqInv, Covers, callVars
  <2> QED
    BY <1>1, <1>2, <1>4, <2>1, <2>2, RequestKeeps DEF callVars
<1> QED
  BY <1>1, <1>3, <1>4

-----------------------------------------------------------------------------
(* The theorems.                                                           *)

LEMMA InitInv == Init => IInv
<1> SUFFICES ASSUME Init PROVE IInv
  OBVIOUS
<1>1. /\ spaces = Builtin /\ server = [k \in Kinds |-> {}] /\ ioUp = FALSE
      /\ base = [r \in Regions |-> NoBase] /\ call = NoCall
      /\ mpc = "config" /\ walk = NoWalk /\ req = NoReq /\ cur = NoSpace
      /\ dangling = {} /\ amiss = {}
  BY DEF Init
<1>2. \A k \in Kinds : \A s \in Listed(k) :
          s.start <= s.end /\ s.owner \notin Regions /\ ~s.init
  BY <1>1, BuiltinAssumption DEF Listed
<1>3. TypeOK
  <2>1. call \in CallTypes /\ walk \in WalkTypes
    BY <1>1 DEF NoCall, NoWalk, CallTypes, WalkTypes, Kinds
  <2> QED
    BY <1>1, <2>1, NoneIs, RegionsAssumption DEF TypeOK, CallTypes, WalkTypes
<1>4. ListsInv
  BY <1>1, BuiltinAssumption DEF ListsInv
<1>5. CallInv
  BY <1>1, IdleIs DEF CallInv, Entered
<1>6. OwnInv
  <2>1. \A r \in Regions : Place(r) = NoBase
    BY <1>1, IdleIs DEF Place
  <2> QED
    BY <1>1, <1>2, <2>1, ConstantsAre DEF OwnInv
<1>7. MainInv
  BY <1>1 DEF MainInv
<1>8. \A k \in Kinds : \A s \in Listed(k) : ~Mapped(k, s)
  BY <1>1, <1>2 DEF Mapped, NoCall, NoWalk
<1>9. \A k \in Kinds : server[k] = {}
  BY <1>1
<1>10. MappedInv /\ RouteInv /\ WalkInv /\ ReqInv
  BY <1>1, <1>8, <1>9, IdleIs, NoneIs DEF MappedInv, RouteInv, WalkInv, ReqInv
<1> QED
  BY <1>3, <1>4, <1>5, <1>6, <1>7, <1>10 DEF IInv

LEMMA NextInv == IInv /\ [Next]_vars => IInv'
<1> SUFFICES ASSUME IInv, [Next]_vars PROVE IInv'
  OBVIOUS
<1>1. ASSUME NEW r \in Regions, NEW to \in Bases[r] \cup {NoBase}, Relocate(r, to)
      PROVE  IInv'
  BY <1>1, RelocateKeeps
<1>2. CASE mpc \notin {"failed", "aborted"} /\ CallStep
  BY <1>2, DisableNothingKeeps, DisableKeeps, DisableAssertsKeeps, UnmapKeeps, InsertKeeps,
     TestKeeps, MapKeeps, FlagKeeps, UndoKeeps DEF CallStep
<1>3. CASE EnableStart \/ EnableLook \/ EnableFlag \/ EnableFreed
  BY <1>3, EnableStartKeeps, EnableLookKeeps, EnableFlagKeeps, EnableFreedKeeps
<1>4. ASSUME NEW k \in Kinds, NEW a \in server[k], NEW n \in 1 .. 2, Access(k, a, n)
      PROVE  IInv'
  BY <1>4, AccessKeeps
<1>5. CASE Dispatch \/ Item \/ CallbackReturns
  BY <1>5, DispatchKeeps, ItemKeeps
<1>6. CASE UNCHANGED vars
  <2>1. /\ UNCHANGED <<spaces, server, base, call, ioUp, mpc, walk, req, cur, dangling, amiss>>
    BY <1>6 DEF vars, callVars, mainVars
  <2>2. TypeOK /\ ListsInv /\ CallInv /\ OwnInv /\ MainInv
    BY DEF IInv
  <2>3. TypeOK' /\ ListsInv' /\ CallInv'
    BY <2>1, <2>2, SameLists DEF TypeOK, CallInv, Entered, K
  <2>4. OwnInv' /\ MainInv'
    <3>1. \A r \in Regions : Place(r)' = Place(r)
      BY <2>1 DEF Place, Entered
    <3> QED
      BY <2>1, <2>2, <3>1, SameLists DEF OwnInv, MainInv
  <2>5. ASSUME Orderly'
        PROVE  MappedInv' /\ RouteInv' /\ WalkInv' /\ ReqInv'
    <3>1. MappedInv /\ RouteInv /\ WalkInv /\ ReqInv
      BY <2>1, <2>5 DEF IInv, Orderly
    <3>2. MappedInv' /\ RouteInv'
      BY <2>1, <3>1, SameMapped
    <3>3. WalkInv' /\ ReqInv'
      BY <2>1, <3>1, SameLists DEF WalkInv, ReqInv, Entered, K, Covers
    <3> QED
      BY <3>2, <3>3
  <2> QED
    BY <2>3, <2>4, <2>5 DEF IInv
<1> QED
  BY <1>1, <1>2, <1>3, <1>4, <1>5, <1>6 DEF Next

LEMMA AlwaysInv == Spec => []IInv
BY InitInv, NextInv, PTL DEF Spec

\* The lists, the call and the main thread keep their types.
THEOREM TypeCorrect == Spec => []TypeOK
<1>1. IInv => TypeOK
  BY DEF IInv
<1> QED
  BY <1>1, AlwaysInv, PTL

\* With no call in progress and enable_io over, nothing is passed over: what
\* was not mapped would lie ahead of a walk that has ended.
THEOREM EverySpaceIsMappedCorrect == Spec => []EverySpaceIsMapped
<1>1. IInv => EverySpaceIsMapped
  <2>1. SUFFICES ASSUME IInv, Quiet, Orderly, NEW k \in Kinds, NEW i \in DOMAIN spaces[k]
                 PROVE  spaces[k][i].init /\ Extent(spaces[k][i]) \subseteq server[k]
    BY DEF EverySpaceIsMapped
  <2>2. mpc \in {"select", "item", "callback"} /\ call.at = "idle"
    BY <2>1, IdleIs DEF Quiet, Running
  <2>3. spaces[k][i].init
    BY <2>1, <2>2 DEF IInv, WalkInv, Entered
  <2>4. spaces[k][i] \in Listed(k) /\ Mapped(k, spaces[k][i])
    BY <2>3 DEF Listed, Mapped
  <2> QED
    BY <2>1, <2>3, <2>4 DEF IInv, MappedInv
<1> QED
  BY <1>1, AlwaysInv, PTL

\* Xen routes nothing here that could not be given up.
THEOREM EveryRouteHasSpaceCorrect == Spec => []EveryRouteHasSpace
<1>1. IInv => EveryRouteHasSpace
  <2>1. SUFFICES ASSUME IInv, Quiet, Orderly, "collided" \notin amiss,
                        NEW k \in Kinds, NEW a \in server[k]
                 PROVE  \E i \in DOMAIN spaces[k] : spaces[k][i].init /\ Covers(spaces[k][i], a)
    BY DEF EveryRouteHasSpace
  <2>2. mpc \in {"select", "item", "callback"} /\ call.at = "idle"
    BY <2>1, IdleIs DEF Quiet, Running
  <2>3. walk = NoWalk /\ "walk" \notin dangling
    BY <2>1, <2>2 DEF IInv, MainInv
  <2>4. PICK s \in Listed(k) : Mapped(k, s) /\ Covers(s, a)
    BY <2>1, <2>2, <2>3 DEF IInv, RouteInv
  <2>5. s.init
    BY <2>2, <2>3, <2>4 DEF Mapped, NoWalk
  <2> QED
    BY <2>4, <2>5 DEF Listed
<1> QED
  BY <1>1, AlwaysInv, PTL

\* The mapped spaces are apart, so that the first one that holds the address
\* is the one of the owner the guest reached.
THEOREM RequestReachesOwnerCorrect == Spec => []RequestReachesOwner
<1>1. IInv => RequestReachesOwner
  <2> DEFINE i == Find(req.kind, req.addr)
  <2>1. SUFFICES ASSUME IInv, mpc = "select", call = NoCall, Orderly, req # NoReq, ~req.moved
                 PROVE  i # 0 /\ spaces[req.kind][i].owner = req.owner
    BY DEF RequestReachesOwner
  <2>2. /\ TypeOK /\ ListsInv /\ CallInv /\ MainInv
        /\ MappedInv /\ WalkInv /\ ReqInv /\ call.at = "idle"
    BY <2>1, IdleIs DEF IInv
  <2>3. PICK k \in Kinds : k = req.kind
    BY <2>2 DEF TypeOK
  <2>4. req.addr \in Nat /\ req.left > 0
    BY <2>1, <2>2 DEF TypeOK, MainInv
  <2>5. PICK s \in Listed(k) : s.init /\ Covers(s, req.addr) /\ s.owner = req.owner
    BY <2>1, <2>2, <2>3, <2>4 DEF ReqInv
  <2>6. i # 0
    <3>1. i = 0 => \A n \in DOMAIN spaces[k] : ~Covers(spaces[k][n], req.addr)
      BY <2>2, <2>3, FindIs
    <3> QED
      BY <2>5, <3>1 DEF Listed
  <2>7. i \in DOMAIN spaces[k] /\ Covers(spaces[k][i], req.addr)
    BY <2>2, <2>3, <2>6, FindIs
  <2> HIDE DEF i
  <2>8. PICK t \in Listed(k) : t = spaces[k][i]
    BY <2>7 DEF Listed
  <2>9. t.init
    BY <2>1, <2>2, <2>7, <2>8 DEF WalkInv, Entered
  <2>10. t.start \in Nat /\ t.end \in Nat /\ s.start \in Nat /\ s.end \in Nat
    BY <2>2, ListIs DEF Listed
  <2>11. req.addr \in Extent(s) /\ req.addr \in Extent(t)
    BY <2>4, <2>5, <2>7, <2>8, <2>10 DEF Covers, Extent
  <2>12. t = s
    BY <2>2, <2>5, <2>9, <2>11 DEF MappedInv, Mapped
  <2> QED
    BY <2>3, <2>5, <2>6, <2>8, <2>12
<1> QED
  BY <1>1, AlwaysInv, PTL

\* Whatever the guest and the plugins do, a region and its space agree.
THEOREM RegionHasItsSpaceCorrect == Spec => []RegionHasItsSpace
<1>1. IInv => RegionHasItsSpace
  <2>1. SUFFICES ASSUME IInv, "slipped" \notin amiss
                 PROVE  /\ mpc # "aborted"
                        /\ \A r \in Regions : r # call.region =>
                            LET own == {i \in DOMAIN spaces[Kind[r]] : spaces[Kind[r]][i].owner = r} IN
                            IF base[r] = NoBase THEN own = {}
                            ELSE \E i \in own : own = {i} /\ spaces[Kind[r]][i].start = base[r]
    BY DEF RegionHasItsSpace
  <2>2. TypeOK /\ ListsInv /\ OwnInv
    BY <2>1 DEF IInv
  <2>3. ASSUME NEW r \in Regions, r # call.region
        PROVE  LET own == {i \in DOMAIN spaces[Kind[r]] : spaces[Kind[r]][i].owner = r} IN
               IF base[r] = NoBase THEN own = {}
               ELSE \E i \in own : own = {i} /\ spaces[Kind[r]][i].start = base[r]
    <3> DEFINE own == {i \in DOMAIN spaces[Kind[r]] : spaces[Kind[r]][i].owner = r}
    <3>1. Place(r) = base[r] /\ Kind[r] \in Kinds
      BY <2>3, ConstantsAre DEF Place
    <3>2. \A i \in own : spaces[Kind[r]][i].start = base[r]
      BY <2>1, <2>2, <3>1 DEF OwnInv, Listed
    <3>3. \A i, j \in own : i = j
      BY <2>2, <3>1, <3>2 DEF ListsInv
    <3>4. CASE base[r] = NoBase
      <4>1. own = {}
        <5>1. \A i \in own : spaces[Kind[r]][i].start \in Nat
          BY <2>2, <3>1, ListIs
        <5> QED
          BY <3>2, <3>4, <5>1, ConstantsAre
      <4> QED
        BY <3>4, <4>1
    <3>5. CASE base[r] # NoBase
      <4>1. \E i \in DOMAIN spaces[Kind[r]] : spaces[Kind[r]][i].owner = r
        BY <2>1, <2>2, <3>1, <3>5 DEF OwnInv, Listed
      <4>2. PICK i \in own : TRUE
        BY <4>1
      <4>3. own = {i}
        BY <3>3, <4>2
      <4> QED
        BY <3>2, <3>5, <4>3
    <3> QED
      BY <3>4, <3>5
  <2> QED
    BY <2>1, <2>2, <2>3 DEF OwnInv
<1> QED
  BY <1>1, AlwaysInv, PTL

=============================================================================
