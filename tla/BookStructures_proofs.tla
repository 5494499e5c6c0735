----------------------- MODULE BookStructures_proofs -----------------------
(***************************************************************************)
(* The lookup tables and the price ladder of the order book, each alone,   *)
(* and then the whole book they make up.                                   *)
(*                                                                         *)
(* For every table size, every hash function and every history of          *)
(* insertions and erasures, both lookup tables of the order book find what *)
(* was last inserted, and the order table never refuses a key while an     *)
(* order slot is free.  FindAgrees speaks of where a search ends, which an *)
(* insertion under another key could move.  The invariant says why it does *)
(* not: a key that is held is held once (HeldOnce, NothingElse) and no     *)
(* slot between its home and its place is empty (Reachable), so the search *)
(* for it passes over whatever else lies there.                            *)
(*                                                                         *)
(* For every number of levels and every history of pushes and removals,    *)
(* the ladder of a side is a heap whose back-pointers are right.  A sift   *)
(* is a loop, and its proof the loop's: only the level at pos may be out   *)
(* of place, and its children belong below its parent (RisesAt, FallsAt).  *)
(* After a removal the level that fills the hole may have to go either     *)
(* way; FallsAt allows both while it is still at the hole, and becomes     *)
(* RisesAt when the loop going down has ended.                             *)
(*                                                                         *)
(* For every capacity, hash and stream of calls, the structures of a book  *)
(* agree (StructureOK).  Good(b, act, lv) says what they agree on: the set *)
(* act of order slots in use and the set lv of levels.  The free lists run *)
(* through the other slots, the order table stands for the ids of act and  *)
(* the level table for the sides and prices of lv, the ladders hold lv,    *)
(* each level's list is its orders by priority with their count and total, *)
(* no level is without an order and no priority is used twice.  Taken one  *)
(* by one these are not inductive: unlink needs the list to know the       *)
(* neighbours, the count to know when the level is empty, the table and    *)
(* the ladder to remove it.  submit is several steps, and MatchInv adds    *)
(* where its loop stands between two fills: on an active order of the      *)
(* level it is taking from.                                                *)
(***************************************************************************)
EXTENDS OrderBook, LookupChurn, LadderChurn, Sums_proofs

N == next_power_of_two(max_orders * 2)

(* The slot of the i-th probe for a key in a table of n slots. *)
At(n, h, key, i) == (h[key] + i) % n

(* A table t of n slots, h giving each key its hash, that stands for the   *)
(* map c: every entry is one of c's (NothingElse), every key of c is in a  *)
(* slot that its search reaches, and no key is held twice.                 *)
TableType(n, h, t, c) ==
  /\ n \in Nat \ {0}
  /\ t = [s \in 0 .. n - 1 |-> t[s]]
  /\ \A key \in DOMAIN h : h[key] \in Nat
  /\ IsFiniteSet(DOMAIN c) /\ DOMAIN c \subseteq DOMAIN h

NothingElse(n, t, c) ==
  \A s \in 0 .. n - 1 : \/ t[s] = Empty \/ t[s] = Tombstone
                        \/ \E key \in DOMAIN c : t[s] = Occupied(key, c[key])

Reachable(n, h, t, c) ==
  \A key \in DOMAIN c : \E m \in 0 .. n - 1 :
    /\ t[At(n, h, key, m)] = Occupied(key, c[key])
    /\ \A i \in 0 .. m - 1 : t[At(n, h, key, i)] # Empty

HeldOnce(n, t) ==
  \A a, b \in 0 .. n - 1 :
    t[a].state = "Occupied" /\ t[b].state = "Occupied" /\ t[a].key = t[b].key => a = b

TableOf(n, h, t, c) ==
  TableType(n, h, t, c) /\ NothingElse(n, t, c) /\ Reachable(n, h, t, c) /\ HeldOnce(n, t)

-----------------------------------------------------------------------------
(* The size of the table. *)

Doubles(n, h) == h = [k \in 0 .. n |-> IF k = 0 THEN 1 ELSE 2 * h[k - 1]]

(* The doubling loop has a result for every number of rounds. *)
LEMMA DoublesExist ==
  ASSUME NEW value \in Nat
  PROVE  \E h : Doubles(value, h)
<1> DEFINE T == {n \in Nat : \E h : Doubles(n, h)}
<1>1. 0 \in T
  <2>1. Doubles(0, [k \in 0 .. 0 |-> 1])
    BY DEF Doubles
  <2> QED  BY <2>1
<1>2. ASSUME NEW n \in Nat, n \in T PROVE n + 1 \in T
  <2>1. PICK h : Doubles(n, h)
    BY <1>2
  <2> DEFINE g == [k \in 0 .. n + 1 |-> IF k = n + 1 THEN 2 * h[n] ELSE h[k]]
  <2>2. \A k \in 0 .. n : h[k] = IF k = 0 THEN 1 ELSE 2 * h[k - 1]
    BY <2>1 DEF Doubles
  <2>3. (\A k \in 0 .. n : g[k] = h[k]) /\ g[n + 1] = 2 * h[n]
    BY SMT
  <2>4. g = [k \in 0 .. n + 1 |-> g[k]]
    OBVIOUS
  <2> HIDE DEF g
  <2>5. \A k \in 0 .. n + 1 : g[k] = IF k = 0 THEN 1 ELSE 2 * g[k - 1]
    <3> SUFFICES ASSUME NEW k \in 0 .. n + 1
                 PROVE  g[k] = IF k = 0 THEN 1 ELSE 2 * g[k - 1]
      OBVIOUS
    <3>1. CASE k = n + 1
      <4>1. g[k - 1] = h[n] /\ k # 0
        BY <2>3, <3>1
      <4> QED  BY <2>3, <3>1, <4>1
    <3>2. CASE k \in 0 .. n
      <4>1. k # 0 => g[k - 1] = h[k - 1]
        BY <2>3, <3>2
      <4> QED  BY <2>2, <2>3, <3>2, <4>1
    <3> QED  BY <3>1, <3>2
  <2>6. Doubles(n + 1, g)
    BY <2>4, <2>5 DEF Doubles
  <2> QED  BY <2>6
<1>3. Nat \subseteq T
  <2> HIDE DEF T
  <2> QED  BY <1>1, <1>2, Induction
<1> QED  BY <1>3

(* next_power_of_two is at least its argument. *)
LEMMA PowerIsEnough ==
  ASSUME NEW value \in Nat
  PROVE  next_power_of_two(value) \in Nat /\ next_power_of_two(value) >= value
<1> DEFINE d == Doubled(value)
           T == {n \in Nat : n <= value => d[n] \in Nat /\ d[n] > n}
           E == {k \in 0 .. value : d[k] >= value}
<1>1. d = CHOOSE h : Doubles(value, h)
  BY Zenon DEF Doubled, Doubles
<1>2. Doubles(value, d)
  BY <1>1, DoublesExist, Zenon
<1> HIDE DEF d
<1>3. \A k \in 0 .. value : d[k] = IF k = 0 THEN 1 ELSE 2 * d[k - 1]
  BY <1>2 DEF Doubles
<1>4. 0 \in T
  BY <1>3
<1>5. ASSUME NEW n \in Nat, n \in T PROVE n + 1 \in T
  <2> SUFFICES ASSUME n + 1 <= value PROVE d[n + 1] \in Nat /\ d[n + 1] > n + 1
    OBVIOUS
  <2>1. d[n] \in Nat /\ d[n] > n /\ d[n + 1] = 2 * d[n]
    BY <1>3, <1>5
  <2> QED  BY <2>1
<1>6. Nat \subseteq T
  <2> HIDE DEF T
  <2> QED  BY <1>4, <1>5, Induction
<1>7. \A k \in 0 .. value : d[k] \in Nat /\ d[k] > k
  BY <1>6
<1>8. value \in E /\ E \subseteq Nat
  BY <1>7
<1>9. Min(E) \in E
  <2> HIDE DEF E
  <2>1. \E m \in E : \A k \in E : m <= k
    BY <1>8, Least
  <2> QED  BY <2>1, Zenon DEF Min
<1>10. next_power_of_two(value) = d[Min(E)]
  BY DEF next_power_of_two, d
<1> QED  BY <1>7, <1>9, <1>10

(* There are at least two table slots for every order. *)
LEMMA TableHasRoom == N \in Nat /\ N >= 2 * max_orders /\ N > max_orders
<1>1. max_orders * 2 \in Nat /\ max_orders \in Nat /\ max_orders > 0
  BY LookupAssumption
<1>2. N \in Nat /\ N >= max_orders * 2
  BY <1>1, PowerIsEnough DEF N
<1> QED  BY <1>1, <1>2

-----------------------------------------------------------------------------
(* Probing. *)

(* What a number is modulo another, one round further. *)
LEMMA ModWraps ==
  ASSUME NEW n \in Nat \ {0}, NEW h \in Nat, NEW i \in 0 .. n - 1
  PROVE  /\ h % n \in 0 .. n - 1
         /\ (h + i) % n = IF (h % n) + i < n THEN (h % n) + i ELSE (h % n) + i - n
<1> DEFINE q == h \div n
           r == h % n
<1>1. q \in Nat /\ r \in 0 .. n - 1 /\ h = (n * q) + r
  OBVIOUS
<1>2. \A p \in Nat, k \in 0 .. n - 1 : ((n * p) + k) % n = k
  OBVIOUS
<1> HIDE DEF q, r
<1>3. CASE r + i < n
  <2>1. r + i \in 0 .. n - 1 /\ h + i = (n * q) + (r + i)
    BY <1>1, <1>3
  <2>2. ((n * q) + (r + i)) % n = r + i
    BY <1>1, <1>2, <2>1
  <2> QED  BY <1>1, <1>3, <2>1, <2>2 DEF r
<1>4. CASE ~(r + i < n)
  <2>1. r + i - n \in 0 .. n - 1 /\ h + i = (n * (q + 1)) + (r + i - n) /\ q + 1 \in Nat
    BY <1>1, <1>4
  <2>2. ((n * (q + 1)) + (r + i - n)) % n = r + i - n
    BY <1>2, <2>1
  <2> QED  BY <1>1, <1>4, <2>1, <2>2 DEF r
<1> QED  BY <1>3, <1>4

(* A probe is a slot, and every slot is a probe from every home. *)
LEMMA ProbesCover ==
  ASSUME NEW n \in Nat \ {0}, NEW h \in Nat
  PROVE  /\ \A i \in 0 .. n - 1 : (h + i) % n \in 0 .. n - 1
         /\ \A s \in 0 .. n - 1 : \E i \in 0 .. n - 1 : (h + i) % n = s
<1> DEFINE r == h % n
<1>1. r \in 0 .. n - 1
  OBVIOUS
<1>2. \A i \in 0 .. n - 1 : (h + i) % n = IF r + i < n THEN r + i ELSE r + i - n
  BY ModWraps
<1> HIDE DEF r
<1>3. ASSUME NEW s \in 0 .. n - 1 PROVE \E i \in 0 .. n - 1 : (h + i) % n = s
  <2>1. CASE s >= r
    <3>1. s - r \in 0 .. n - 1 /\ r + (s - r) = s /\ r + (s - r) < n
      BY <1>1, <2>1
    <3> QED  BY <1>2, <3>1
  <2>2. CASE s < r
    <3>1. s - r + n \in 0 .. n - 1 /\ r + (s - r + n) - n = s /\ ~(r + (s - r + n) < n)
      BY <1>1, <2>2
    <3> QED  BY <1>2, <3>1
  <2> QED  BY <1>1, <2>1, <2>2
<1>4. ASSUME NEW i \in 0 .. n - 1 PROVE (h + i) % n \in 0 .. n - 1
  BY <1>1, <1>2
<1> QED  BY <1>3, <1>4

(* The three sorts of entry. *)
LEMMA EntrySorts ==
  /\ Empty.state = "Empty" /\ Tombstone.state = "Tombstone"
  /\ Empty # Tombstone
  /\ \A k, v : /\ Occupied(k, v).state = "Occupied" /\ Occupied(k, v).key = k
               /\ Occupied(k, v).value = v
               /\ Occupied(k, v) # Empty /\ Occupied(k, v) # Tombstone
  BY DEF Empty, Tombstone, Occupied

(* The probes for a key, by number. *)
LEMMA AtProbe ==
  ASSUME NEW n, NEW h, NEW t, NEW c, TableType(n, h, t, c), NEW key \in DOMAIN h
  PROVE  /\ n \in Nat \ {0} /\ Cardinality(DOMAIN t) = n /\ DOMAIN t = 0 .. n - 1
         /\ \A i \in 0 .. n - 1 : /\ At(n, h, key, i) \in 0 .. n - 1
                                  /\ Probe(t, h[key], i) = At(n, h, key, i)
<1>1. n \in Nat \ {0} /\ DOMAIN t = 0 .. n - 1 /\ h[key] \in Nat
  BY DEF TableType
<1>2. Cardinality(DOMAIN t) = n
  BY <1>1, FS_Interval
<1>3. \A i \in 0 .. n - 1 : At(n, h, key, i) \in 0 .. n - 1
  BY <1>1, ProbesCover DEF At
<1> QED  BY <1>1, <1>2, <1>3 DEF Probe, At

(* The least of the probes with some property. *)
LEMMA FirstProbe ==
  ASSUME NEW n \in Nat, NEW E, E \subseteq 0 .. n - 1, E # {}
  PROVE  /\ Min(E) \in E /\ Min(E) \in 0 .. n - 1
         /\ \A i \in 0 .. Min(E) - 1 : i \in 0 .. n - 1 /\ i \notin E
<1>1. E \subseteq Nat
  OBVIOUS
<1>2. \E m \in E : \A k \in E : m <= k
  BY <1>1, Least
<1>3. Min(E) \in E /\ \A k \in E : Min(E) <= k
  BY <1>2, Zenon DEF Min
<1> DEFINE m == Min(E)
<1>4. m \in E /\ \A k \in E : m <= k
  BY <1>3
<1> HIDE DEF m
<1>5. m \in 0 .. n - 1 /\ \A i \in 0 .. m - 1 : i \in 0 .. n - 1 /\ i \notin E
  BY <1>1, <1>4
<1> QED  BY <1>4, <1>5 DEF m

(* Where the search for a key ends. *)
EndsAt(t, key, s) == t[s] = Empty \/ Holds(t[s], key)

(* A search ends at the first probe that is empty or holds the key, or     *)
(* nowhere when there is none.                                             *)
LEMMA SearchEnds ==
  ASSUME NEW n, NEW h, NEW t, NEW c, TableType(n, h, t, c), NEW key \in DOMAIN h
  PROVE  \/ /\ SearchEnd(t, h[key], key) = npos
            /\ \A i \in 0 .. n - 1 : ~EndsAt(t, key, At(n, h, key, i))
         \/ \E m \in 0 .. n - 1 :
              /\ SearchEnd(t, h[key], key) = At(n, h, key, m)
              /\ EndsAt(t, key, At(n, h, key, m))
              /\ \A i \in 0 .. m - 1 : ~EndsAt(t, key, At(n, h, key, i))
<1> DEFINE E == {i \in 0 .. n - 1 : EndsAt(t, key, At(n, h, key, i))}
           P == Probes(t, h[key], LAMBDA e : e = Empty \/ Holds(e, key))
<1>1. /\ n \in Nat \ {0} /\ Cardinality(DOMAIN t) = n
      /\ \A i \in 0 .. n - 1 : Probe(t, h[key], i) = At(n, h, key, i)
  BY AtProbe
<1>2. P = E
  BY <1>1, Zenon DEF Probes, EndsAt
<1>3. SearchEnd(t, h[key], key) = IF E = {} THEN npos ELSE Probe(t, h[key], Min(E))
  BY <1>2, Zenon DEF SearchEnd
<1>4. CASE E = {}
  BY <1>3, <1>4
<1>5. CASE E # {}
  <2> DEFINE m == Min(E)
  <2>1. /\ m \in E /\ m \in 0 .. n - 1
        /\ \A i \in 0 .. m - 1 : i \in 0 .. n - 1 /\ i \notin E
    <3> HIDE DEF m
    <3>1. E \subseteq 0 .. n - 1 /\ n \in Nat
      BY <1>1
    <3> HIDE DEF E
    <3> QED  BY <1>5, <3>1, FirstProbe DEF m
  <2>2. SearchEnd(t, h[key], key) = At(n, h, key, m)
    BY <1>1, <1>3, <1>5, <2>1
  <2> HIDE DEF m
  <2>3. \A i \in 0 .. m - 1 : ~EndsAt(t, key, At(n, h, key, i))
    BY <2>1
  <2> QED  BY <2>1, <2>2, <2>3
<1> QED  BY <1>4, <1>5

(* The probes an insertion may use, and the slot it takes. *)
Vacant(n, h, t, key, reclaim) ==
  LET E == {i \in 0 .. n - 1 : t[At(n, h, key, i)] = Empty}
      T == {i \in 0 .. n - 1 : t[At(n, h, key, i)] = Tombstone}
  IN  IF E = {} THEN (IF reclaim THEN T ELSE {}) ELSE T \cup E

LEMMA InsertTakes ==
  ASSUME NEW n, NEW h, NEW t, NEW c, TableType(n, h, t, c), NEW key \in DOMAIN h,
         NEW reclaim
  PROVE  InsertSlot(t, h[key], reclaim) =
           IF Vacant(n, h, t, key, reclaim) = {} THEN npos
           ELSE Probe(t, h[key], Min(Vacant(n, h, t, key, reclaim)))
<1> DEFINE E == {i \in 0 .. n - 1 : t[At(n, h, key, i)] = Empty}
           T == {i \in 0 .. n - 1 : t[At(n, h, key, i)] = Tombstone}
<1>1. /\ Cardinality(DOMAIN t) = n
      /\ \A i \in 0 .. n - 1 : Probe(t, h[key], i) = At(n, h, key, i)
  BY AtProbe
<1>2. /\ Probes(t, h[key], LAMBDA e : e = Empty) = E
      /\ Probes(t, h[key], LAMBDA e : e = Tombstone) = T
  BY <1>1, Zenon DEF Probes
<1> QED  BY <1>2, Zenon DEF InsertSlot, Vacant

(* An insertion goes to a slot that is empty or a tombstone, and passes no *)
(* empty slot on the way.                                                  *)
LEMMA InsertsAt ==
  ASSUME NEW n, NEW h, NEW t, NEW c, TableType(n, h, t, c), NEW key \in DOMAIN h,
         NEW reclaim, CanInsert(t, h[key], reclaim)
  PROVE  \E m \in 0 .. n - 1 :
           /\ InsertSlot(t, h[key], reclaim) = At(n, h, key, m)
           /\ t[At(n, h, key, m)] \in {Empty, Tombstone}
           /\ \A i \in 0 .. m - 1 : t[At(n, h, key, i)] # Empty
<1> DEFINE U == Vacant(n, h, t, key, reclaim)
<1>1. /\ n \in Nat \ {0}
      /\ \A i \in 0 .. n - 1 : Probe(t, h[key], i) = At(n, h, key, i)
  BY AtProbe
<1>2. InsertSlot(t, h[key], reclaim) = IF U = {} THEN npos ELSE Probe(t, h[key], Min(U))
  BY InsertTakes
<1>3. U # {}
  BY <1>2 DEF CanInsert
<1>4. /\ U \subseteq 0 .. n - 1 /\ \A i \in U : t[At(n, h, key, i)] \in {Empty, Tombstone}
      /\ \A i \in 0 .. n - 1 : t[At(n, h, key, i)] = Empty => i \in U
  BY DEF Vacant
<1> HIDE DEF U
<1> DEFINE m == Min(U)
<1>5. /\ m \in U /\ m \in 0 .. n - 1
      /\ \A i \in 0 .. m - 1 : i \in 0 .. n - 1 /\ i \notin U
  BY <1>1, <1>3, <1>4, FirstProbe
<1>6. InsertSlot(t, h[key], reclaim) = At(n, h, key, m)
  BY <1>1, <1>2, <1>3, <1>5
<1> HIDE DEF m
<1> QED  BY <1>4, <1>5, <1>6

(* The search for a key that is held ends at its one entry; the search for *)
(* any other key ends at an empty slot or nowhere.                         *)
LEMMA SearchFinds ==
  ASSUME NEW n, NEW h, NEW t, NEW c, TableOf(n, h, t, c), NEW key \in DOMAIN h
  PROVE  /\ key \in DOMAIN c =>
              /\ SearchEnd(t, h[key], key) \in 0 .. n - 1
              /\ t[SearchEnd(t, h[key], key)] = Occupied(key, c[key])
         /\ key \notin DOMAIN c =>
              \/ SearchEnd(t, h[key], key) = npos
              \/ t[SearchEnd(t, h[key], key)] = Empty
<1> DEFINE end == SearchEnd(t, h[key], key)
           place(i) == At(n, h, key, i)
<1>1. TableType(n, h, t, c) /\ NothingElse(n, t, c) /\ Reachable(n, h, t, c) /\ HeldOnce(n, t)
  BY DEF TableOf
<1>2. n \in Nat \ {0} /\ \A i \in 0 .. n - 1 : place(i) \in 0 .. n - 1
  BY <1>1, AtProbe
<1>3. \/ end = npos /\ \A i \in 0 .. n - 1 : ~EndsAt(t, key, place(i))
      \/ \E m \in 0 .. n - 1 : /\ end = place(m) /\ EndsAt(t, key, place(m))
                               /\ \A i \in 0 .. m - 1 : ~EndsAt(t, key, place(i))
  BY <1>1, SearchEnds
<1> HIDE DEF end
<1>4. ASSUME key \in DOMAIN c
      PROVE  end \in 0 .. n - 1 /\ t[end] = Occupied(key, c[key])
  <2>1. PICK m \in 0 .. n - 1 : /\ t[place(m)] = Occupied(key, c[key])
                                /\ \A i \in 0 .. m - 1 : t[place(i)] # Empty
    BY <1>1, <1>4 DEF Reachable
  <2> HIDE DEF place
  <2>2. EndsAt(t, key, place(m))
    BY <2>1, EntrySorts DEF EndsAt, Holds
  <2>3. PICK k \in 0 .. n - 1 : /\ end = place(k) /\ EndsAt(t, key, place(k))
                                /\ \A i \in 0 .. k - 1 : ~EndsAt(t, key, place(i))
    BY <1>3, <2>2
  <2>4. k <= m
    BY <1>2, <2>2, <2>3
  <2>5. CASE k = m
    BY <1>2, <2>1, <2>3, <2>5
  <2>6. CASE k # m
    <3>1. k \in 0 .. m - 1
      BY <1>2, <2>4, <2>6
    <3>2. t[place(k)] # Empty
      BY <2>1, <3>1
    <3>3. Holds(t[place(k)], key)
      BY <2>3, <3>2 DEF EndsAt
    <3>4. place(k) = place(m)
      BY <1>1, <1>2, <2>1, <3>3, EntrySorts DEF HeldOnce, Holds
    <3> QED  BY <1>2, <2>1, <2>3, <3>4
  <2> QED  BY <2>5, <2>6
<1>5. ASSUME key \notin DOMAIN c, end # npos PROVE t[end] = Empty
  <2>1. PICK m \in 0 .. n - 1 : end = place(m) /\ EndsAt(t, key, place(m))
    BY <1>3, <1>5
  <2>2. ~Holds(t[place(m)], key)
    <3>1. place(m) \in 0 .. n - 1
      BY <1>2
    <3> HIDE DEF place
    <3> QED  BY <1>1, <1>5, <3>1, EntrySorts DEF NothingElse, Holds
  <2> QED  BY <2>1, <2>2 DEF EndsAt
<1> QED  BY <1>4, <1>5 DEF end

(* find returns what the map has, npos for what it has not.                *)
LEMMA FindIs ==
  ASSUME NEW n, NEW h, NEW t, NEW c, TableOf(n, h, t, c), NEW key \in DOMAIN h
  PROVE  find(t, h[key], key) = IF key \in DOMAIN c THEN c[key] ELSE npos
<1> DEFINE s == SearchEnd(t, h[key], key)
<1>1. n \in Nat
  BY DEF TableOf, TableType
<1>2. CASE key \in DOMAIN c
  <2>1. s \in 0 .. n - 1 /\ t[s] = Occupied(key, c[key])
    BY <1>2, SearchFinds
  <2>2. s # npos /\ t[s] # Empty /\ t[s].value = c[key]
    BY <1>1, <2>1, EntrySorts DEF npos
  <2> QED  BY <1>2, <2>2 DEF find
<1>3. CASE key \notin DOMAIN c
  BY <1>3, SearchFinds DEF find
<1> QED  BY <1>2, <1>3

-----------------------------------------------------------------------------
(* Insertion and erasure. *)

(* An empty table holds nothing. *)
LEMMA EmptyTable ==
  ASSUME NEW n \in Nat \ {0}, NEW h, \A key \in DOMAIN h : h[key] \in Nat,
         NEW c, DOMAIN c = {}
  PROVE  TableOf(n, h, [s \in 0 .. n - 1 |-> Empty], c)
<1> DEFINE t == [s \in 0 .. n - 1 |-> Empty]
<1>1. t = [s \in 0 .. n - 1 |-> t[s]] /\ \A s \in 0 .. n - 1 : t[s] = Empty
  OBVIOUS
<1> HIDE DEF t
<1>2. TableType(n, h, t, c)
  BY <1>1, FS_EmptySet DEF TableType
<1>3. \A s \in 0 .. n - 1 : t[s].state # "Occupied"
  BY <1>1, EntrySorts
<1>4. NothingElse(n, t, c) /\ Reachable(n, h, t, c) /\ HeldOnce(n, t)
  BY <1>1, <1>3 DEF NothingElse, Reachable, HeldOnce
<1> QED  BY <1>2, <1>4 DEF TableOf, t

(* The map after an insertion and after an erasure. *)
With(c, key, value) == [k \in DOMAIN c \cup {key} |-> IF k = key THEN value ELSE c[k]]
Without(c, key) == [k \in DOMAIN c \ {key} |-> c[k]]

(* Insertion keeps the invariant: it makes no slot empty, so every search  *)
(* still passes, and it stops before the first empty slot, so its own key  *)
(* is reachable.                                                           *)
LEMMA InsertOK ==
  ASSUME NEW n, NEW h, NEW t, NEW c, TableOf(n, h, t, c), NEW key \in DOMAIN h,
         key \notin DOMAIN c, NEW value, NEW reclaim, CanInsert(t, h[key], reclaim)
  PROVE  TableOf(n, h, insert(t, h[key], key, value, reclaim), With(c, key, value))
<1> DEFINE u == insert(t, h[key], key, value, reclaim)
           d == With(c, key, value)
<1>1. TableType(n, h, t, c) /\ NothingElse(n, t, c) /\ Reachable(n, h, t, c) /\ HeldOnce(n, t)
  BY DEF TableOf
<1>2. PICK m \in 0 .. n - 1 :
         /\ InsertSlot(t, h[key], reclaim) = At(n, h, key, m)
         /\ t[At(n, h, key, m)] \in {Empty, Tombstone}
         /\ \A i \in 0 .. m - 1 : t[At(n, h, key, i)] # Empty
  BY <1>1, InsertsAt
<1> DEFINE s == At(n, h, key, m)
<1>3. u = [t EXCEPT ![s] = Occupied(key, value)]
  BY <1>2 DEF insert
<1>4. n \in Nat \ {0} /\ s \in 0 .. n - 1 /\ DOMAIN t = 0 .. n - 1
  BY <1>1, AtProbe
<1>5. t[s].state # "Occupied"
  BY <1>2, EntrySorts
<1>6. /\ u = [a \in 0 .. n - 1 |-> u[a]] /\ u[s] = Occupied(key, value)
      /\ \A a \in 0 .. n - 1 : a # s => u[a] = t[a]
  BY <1>3, <1>4
<1>7. /\ DOMAIN d = DOMAIN c \cup {key} /\ d[key] = value
      /\ \A k \in DOMAIN c : d[k] = c[k]
  BY DEF With
<1> HIDE DEF s, u, d
<1>8. \A a \in 0 .. n - 1 : t[a] # Empty => u[a] # Empty
  BY <1>6, EntrySorts
<1>9. TableType(n, h, u, d)
  <2>1. IsFiniteSet(DOMAIN c) /\ DOMAIN c \subseteq DOMAIN h
    BY <1>1 DEF TableType
  <2>2. IsFiniteSet(DOMAIN c \cup {key})
    BY <2>1, FS_AddElement
  <2> QED  BY <1>1, <1>6, <1>7, <2>1, <2>2 DEF TableType
<1>10. NothingElse(n, u, d)
  <2> SUFFICES ASSUME NEW a \in 0 .. n - 1
               PROVE  \/ u[a] = Empty \/ u[a] = Tombstone
                      \/ \E k \in DOMAIN d : u[a] = Occupied(k, d[k])
    BY DEF NothingElse
  <2>1. CASE a = s
    BY <1>6, <1>7, <2>1
  <2>2. CASE a # s
    <3>1. u[a] = t[a]
      BY <1>6, <2>2
    <3>2. \/ t[a] = Empty \/ t[a] = Tombstone
          \/ \E k \in DOMAIN c : t[a] = Occupied(k, c[k])
      BY <1>1 DEF NothingElse
    <3> QED  BY <1>7, <3>1, <3>2
  <2> QED  BY <2>1, <2>2
<1>11. Reachable(n, h, u, d)
  <2> SUFFICES ASSUME NEW k \in DOMAIN d
               PROVE  \E j \in 0 .. n - 1 :
                        /\ u[At(n, h, k, j)] = Occupied(k, d[k])
                        /\ \A i \in 0 .. j - 1 : u[At(n, h, k, i)] # Empty
    BY DEF Reachable
  <2>1. k \in DOMAIN h
    BY <1>9 DEF TableType
  <2>2. \A i \in 0 .. n - 1 : At(n, h, k, i) \in 0 .. n - 1
    BY <1>1, <2>1, AtProbe
  <2>3. \A j \in 0 .. n - 1 : \A i \in 0 .. j - 1 : i \in 0 .. n - 1
    BY <1>4
  <2>4. CASE k = key
    <3>1. \A i \in 0 .. m - 1 : u[At(n, h, k, i)] # Empty
      BY <1>2, <1>8, <2>2, <2>3, <2>4
    <3> QED  BY <1>6, <1>7, <2>4, <3>1 DEF s
  <2>5. CASE k # key
    <3>1. k \in DOMAIN c
      BY <1>7, <2>5
    <3>2. PICK j \in 0 .. n - 1 : /\ t[At(n, h, k, j)] = Occupied(k, c[k])
                                  /\ \A i \in 0 .. j - 1 : t[At(n, h, k, i)] # Empty
      BY <1>1, <3>1 DEF Reachable
    <3>3. At(n, h, k, j) # s
      BY <1>5, <3>2, EntrySorts
    <3>4. u[At(n, h, k, j)] = Occupied(k, d[k])
      BY <1>6, <1>7, <2>2, <3>1, <3>2, <3>3
    <3>5. \A i \in 0 .. j - 1 : u[At(n, h, k, i)] # Empty
      BY <1>8, <2>2, <2>3, <3>2
    <3> QED  BY <3>4, <3>5
  <2> QED  BY <2>4, <2>5
<1>12. HeldOnce(n, u)
  <2>1. \A a \in 0 .. n - 1 : a # s /\ u[a].state = "Occupied" => u[a].key # key
    BY <1>1, <1>6, EntrySorts DEF NothingElse
  <2>2. u[s].key = key
    BY <1>6, EntrySorts
  <2> SUFFICES ASSUME NEW a \in 0 .. n - 1, NEW b \in 0 .. n - 1,
                      u[a].state = "Occupied", u[b].state = "Occupied",
                      u[a].key = u[b].key
               PROVE  a = b
    BY DEF HeldOnce
  <2>3. CASE a # s /\ b # s
    BY <1>1, <1>6, <2>3 DEF HeldOnce
  <2>4. CASE a = s \/ b = s
    BY <2>1, <2>2, <2>4
  <2> QED  BY <2>3, <2>4
<1> QED  BY <1>9, <1>10, <1>11, <1>12 DEF TableOf, u, d

(* Erasure keeps the invariant: the tombstone it leaves is not empty, so   *)
(* every search that went past the slot still does.                        *)
LEMMA EraseOK ==
  ASSUME NEW n, NEW h, NEW t, NEW c, TableOf(n, h, t, c), NEW key \in DOMAIN c
  PROVE  TableOf(n, h, erase(t, h[key], key), Without(c, key))
<1> DEFINE u == erase(t, h[key], key)
           d == Without(c, key)
           s == SearchEnd(t, h[key], key)
<1>1. TableType(n, h, t, c) /\ NothingElse(n, t, c) /\ Reachable(n, h, t, c) /\ HeldOnce(n, t)
  BY DEF TableOf
<1>2. n \in Nat \ {0} /\ DOMAIN t = 0 .. n - 1 /\ key \in DOMAIN h
  BY <1>1 DEF TableType
<1>3. s \in 0 .. n - 1 /\ t[s] = Occupied(key, c[key])
  BY <1>2, SearchFinds
<1>4. u = [t EXCEPT ![s] = Tombstone]
  <2>1. s # npos /\ t[s] # Empty
    BY <1>2, <1>3, EntrySorts DEF npos
  <2> QED  BY <2>1 DEF erase
<1>5. /\ DOMAIN d = DOMAIN c \ {key} /\ \A k \in DOMAIN d : d[k] = c[k]
  BY DEF Without
<1> HIDE DEF s, u, d
<1>6. /\ u = [a \in 0 .. n - 1 |-> u[a]] /\ u[s] = Tombstone
      /\ \A a \in 0 .. n - 1 : a # s => u[a] = t[a]
  BY <1>2, <1>3, <1>4
<1>7. \A a \in 0 .. n - 1 : t[a] # Empty => u[a] # Empty
  BY <1>6, EntrySorts
<1>8. TableType(n, h, u, d)
  <2>1. IsFiniteSet(DOMAIN c) /\ DOMAIN c \subseteq DOMAIN h
    BY <1>1 DEF TableType
  <2>2. IsFiniteSet(DOMAIN c \ {key})
    BY <2>1, FS_RemoveElement
  <2> QED  BY <1>1, <1>5, <1>6, <2>1, <2>2 DEF TableType
<1>9. \A a \in 0 .. n - 1 : a # s /\ t[a].state = "Occupied" => t[a].key # key
  BY <1>1, <1>3, EntrySorts DEF HeldOnce
<1>10. NothingElse(n, u, d)
  <2> SUFFICES ASSUME NEW a \in 0 .. n - 1
               PROVE  \/ u[a] = Empty \/ u[a] = Tombstone
                      \/ \E k \in DOMAIN d : u[a] = Occupied(k, d[k])
    BY DEF NothingElse
  <2>1. CASE a = s
    BY <1>6, <2>1
  <2>2. CASE a # s
    <3>1. u[a] = t[a]
      BY <1>6, <2>2
    <3>2. \/ t[a] = Empty \/ t[a] = Tombstone
          \/ \E k \in DOMAIN c : t[a] = Occupied(k, c[k])
      BY <1>1 DEF NothingElse
    <3>3. ASSUME NEW k \in DOMAIN c, t[a] = Occupied(k, c[k]) PROVE k \in DOMAIN d
      BY <1>5, <1>9, <2>2, <3>3, EntrySorts
    <3> QED  BY <1>5, <3>1, <3>2, <3>3
  <2> QED  BY <2>1, <2>2
<1>11. Reachable(n, h, u, d)
  <2> SUFFICES ASSUME NEW k \in DOMAIN d
               PROVE  \E j \in 0 .. n - 1 :
                        /\ u[At(n, h, k, j)] = Occupied(k, d[k])
                        /\ \A i \in 0 .. j - 1 : u[At(n, h, k, i)] # Empty
    BY DEF Reachable
  <2>1. k \in DOMAIN c /\ k # key /\ k \in DOMAIN h /\ d[k] = c[k]
    BY <1>1, <1>5 DEF TableType
  <2>2. \A i \in 0 .. n - 1 : At(n, h, k, i) \in 0 .. n - 1
    BY <1>1, <2>1, AtProbe
  <2>3. PICK j \in 0 .. n - 1 : /\ t[At(n, h, k, j)] = Occupied(k, c[k])
                                /\ \A i \in 0 .. j - 1 : t[At(n, h, k, i)] # Empty
    BY <1>1, <2>1 DEF Reachable
  <2>4. At(n, h, k, j) # s
    BY <1>3, <2>1, <2>3, EntrySorts
  <2>5. u[At(n, h, k, j)] = Occupied(k, d[k])
    BY <1>6, <2>1, <2>2, <2>3, <2>4
  <2>6. \A i \in 0 .. j - 1 : i \in 0 .. n - 1
    BY <1>2
  <2>7. \A i \in 0 .. j - 1 : u[At(n, h, k, i)] # Empty
    BY <1>7, <2>2, <2>3, <2>6
  <2> QED  BY <2>5, <2>7
<1>12. HeldOnce(n, u)
  <2>1. u[s].state # "Occupied"
    BY <1>6, EntrySorts
  <2> QED  BY <1>1, <1>6, <2>1 DEF HeldOnce
<1> QED  BY <1>8, <1>10, <1>11, <1>12 DEF TableOf, u, d

(* The table that reclaims tombstones has a place for one key more as long *)
(* as it has more slots than keys: a probe visits every slot, and a slot   *)
(* without a key is empty or a tombstone.                                  *)
LEMMA RoomToInsert ==
  ASSUME NEW n, NEW h, NEW t, NEW c, TableOf(n, h, t, c), NEW key \in DOMAIN h,
         Cardinality(DOMAIN c) < n
  PROVE  CanInsert(t, h[key], TRUE)
<1>1. TableType(n, h, t, c) /\ NothingElse(n, t, c) /\ HeldOnce(n, t)
  BY DEF TableOf
<1>2. /\ n \in Nat \ {0} /\ h[key] \in Nat
      /\ \A i \in 0 .. n - 1 : /\ At(n, h, key, i) \in 0 .. n - 1
                               /\ Probe(t, h[key], i) = At(n, h, key, i)
  BY <1>1, AtProbe, SMTT(30) DEF TableType
<1>3. PICK s \in 0 .. n - 1 : t[s].state # "Occupied"
  <2> SUFFICES ASSUME \A s \in 0 .. n - 1 : t[s].state = "Occupied" PROVE FALSE
    OBVIOUS
  <2> DEFINE f == [s \in 0 .. n - 1 |-> t[s].key]
  <2>1. \A s \in 0 .. n - 1 : t[s].key \in DOMAIN c
    BY <1>1, EntrySorts DEF NothingElse
  <2>2. f \in [0 .. n - 1 -> DOMAIN c]
    BY <2>1
  <2>3. \A a, b \in 0 .. n - 1 : f[a] = f[b] => a = b
    BY <1>1 DEF HeldOnce
  <2>4. f \in Injection(0 .. n - 1, DOMAIN c)
    BY <2>2, <2>3 DEF Injection, IsInjective
  <2>5. IsFiniteSet(DOMAIN c)
    BY <1>1 DEF TableType
  <2>6. Cardinality(0 .. n - 1) <= Cardinality(DOMAIN c)
    BY <2>4, <2>5, FS_Injection
  <2>7. Cardinality(0 .. n - 1) = n
    <3>1. n \in Nat \ {0}
      BY <1>2
    <3> QED  BY ONLY <3>1, FS_Interval
  <2>8. Cardinality(DOMAIN c) \in Nat
    BY <2>5, FS_CardinalityType
  <2> QED  BY <1>2, <2>6, <2>7, <2>8
<1>4. PICK i \in 0 .. n - 1 : At(n, h, key, i) = s
  BY <1>2, ProbesCover DEF At
<1>5. t[At(n, h, key, i)] \in {Empty, Tombstone}
  BY <1>1, <1>3, <1>4, EntrySorts DEF NothingElse
<1> DEFINE U == Vacant(n, h, t, key, TRUE)
<1>6. U # {} /\ U \subseteq 0 .. n - 1
  BY <1>5 DEF Vacant
<1>7. InsertSlot(t, h[key], TRUE) = IF U = {} THEN npos ELSE Probe(t, h[key], Min(U))
  BY <1>1, InsertTakes
<1> HIDE DEF U
<1>8. Min(U) \in 0 .. n - 1
  BY <1>2, <1>6, FirstProbe
<1>9. InsertSlot(t, h[key], TRUE) \in 0 .. n - 1
  BY <1>2, <1>6, <1>7, <1>8
<1>10. npos \notin 0 .. n - 1
  BY <1>2 DEF npos
<1> QED  BY <1>9, <1>10 DEF CanInsert

-----------------------------------------------------------------------------
(* Insertions and erasures in any order. *)

TableInv ==
  /\ TableOf(N, home, table, contents)
  /\ home \in [Key -> 0 .. N - 1] /\ reclaims \in BOOLEAN
  /\ Cardinality(DOMAIN contents) <= max_orders

(* For every size of the table and every hash function, insertions and     *)
(* erasures keep each key of the map in exactly one slot that its search   *)
(* reaches, and nothing else in the table.                                 *)
THEOREM TableInvariant == LookupSpec => []TableInv
<1>1. N \in Nat \ {0} /\ N > max_orders /\ max_orders \in Nat
  BY TableHasRoom, LookupAssumption
<1>2. LookupInit => TableInv
  <2> SUFFICES ASSUME LookupInit PROVE TableInv
    OBVIOUS
  <2>1. /\ table = [s \in 0 .. N - 1 |-> Empty] /\ home \in [Key -> 0 .. N - 1]
        /\ reclaims \in BOOLEAN /\ DOMAIN contents = {}
    BY DEF LookupInit, LookupSlots, N
  <2>2. DOMAIN home = Key /\ \A key \in DOMAIN home : home[key] \in Nat
    BY <1>1, <2>1
  <2>3. TableOf(N, home, table, contents)
    <3> HIDE DEF N
    <3> QED  BY <1>1, <2>1, <2>2, EmptyTable
  <2>4. Cardinality(DOMAIN contents) <= max_orders
    BY <1>1, <2>1, FS_EmptySet
  <2> QED  BY <2>1, <2>3, <2>4 DEF TableInv
<1>3. ASSUME TableInv PROVE /\ DOMAIN home = Key /\ IsFiniteSet(DOMAIN contents)
                            /\ Cardinality(DOMAIN contents) \in Nat
  BY <1>3, FS_CardinalityType DEF TableInv, TableOf, TableType
<1>4. ASSUME TableInv, NEW key \in Key, Erase(key) PROVE TableInv'
  <2>1. /\ key \in DOMAIN contents /\ table' = erase(table, home[key], key)
        /\ contents' = Without(contents, key) /\ home' = home /\ reclaims' = reclaims
    BY <1>4 DEF Erase, Without
  <2>2. TableOf(N, home, table', contents')
    BY <1>4, <2>1, EraseOK DEF TableInv
  <2>3. /\ Cardinality(DOMAIN contents \ {key}) = Cardinality(DOMAIN contents) - 1
        /\ DOMAIN contents' = DOMAIN contents \ {key}
    BY <1>3, <1>4, <2>1, FS_RemoveElement DEF Without
  <2>4. Cardinality(DOMAIN contents') <= max_orders
    BY <1>1, <1>3, <1>4, <2>3 DEF TableInv
  <2> QED  BY <1>4, <2>1, <2>2, <2>4 DEF TableInv, N
<1>5. ASSUME TableInv, NEW key \in Key, NEW value \in Value, Insert(key, value)
      PROVE  TableInv'
  <2>1. /\ key \notin DOMAIN contents /\ Cardinality(DOMAIN contents) < max_orders
        /\ table' = insert(table, home[key], key, value, reclaims)
        /\ home' = home /\ reclaims' = reclaims
    BY <1>5 DEF Insert
  <2>2. CASE ~CanInsert(table, home[key], reclaims)
    <3>1. table' = table /\ contents' = contents
      BY <1>5, <2>1, <2>2 DEF Insert, insert
    <3> QED  BY <1>5, <2>1, <3>1 DEF TableInv, N
  <2>3. CASE CanInsert(table, home[key], reclaims)
    <3>1. contents' = With(contents, key, value)
      BY <1>5, <2>3 DEF Insert, With
    <3>2. TableOf(N, home, table', contents')
      <4>1. key \in DOMAIN home /\ TableOf(N, home, table, contents)
        BY <1>3, <1>5 DEF TableInv
      <4> QED  BY <2>1, <2>3, <3>1, <4>1, InsertOK, Zenon
    <3>3. /\ Cardinality(DOMAIN contents \cup {key}) = Cardinality(DOMAIN contents) + 1
          /\ DOMAIN contents' = DOMAIN contents \cup {key}
      BY <1>3, <1>5, <2>1, <3>1, FS_AddElement DEF With
    <3>4. Cardinality(DOMAIN contents') <= max_orders
      BY <1>1, <1>3, <1>5, <2>1, <3>3
    <3> QED  BY <1>5, <2>1, <3>2, <3>4 DEF TableInv, N
  <2> QED  BY <2>2, <2>3
<1>6. TableInv /\ [LookupNext]_lookup_vars => TableInv'
  <2> SUFFICES ASSUME TableInv, [LookupNext]_lookup_vars PROVE TableInv'
    OBVIOUS
  <2>1. CASE LookupNext
    BY <1>4, <1>5, <2>1 DEF LookupNext
  <2>2. CASE UNCHANGED lookup_vars
    BY <2>2 DEF lookup_vars, TableInv, N
  <2> QED  BY <2>1, <2>2
<1> QED  BY <1>2, <1>6, PTL DEF LookupSpec

(* find_order_index and find_level_index return the value last inserted    *)
(* under the key and nothing for a key that is not held, whichever keys    *)
(* collide and whatever was erased before.                                 *)
THEOREM FindCorrect == LookupSpec => []FindAgrees
<1>1. TableInv => FindAgrees
  BY FindIs DEF TableInv, FindAgrees
<1> QED  BY <1>1, TableInvariant, PTL

(* insert_order_lookup never fails while an order slot is free, so         *)
(* rest_order never has to report CapacityExhausted after it has linked    *)
(* the order.                                                              *)
THEOREM NeverRefuses == LookupSpec => []OrderTableNeverRefuses
<1>1. TableInv => OrderTableNeverRefuses
  <2> SUFFICES ASSUME TableInv, reclaims, Cardinality(DOMAIN contents) < max_orders,
                      NEW key \in Key
               PROVE  CanInsert(table, home[key], reclaims)
    BY DEF OrderTableNeverRefuses
  <2>1. N \in Nat /\ N > max_orders /\ max_orders \in Nat
    BY TableHasRoom, LookupAssumption
  <2>2. /\ TableOf(N, home, table, contents) /\ key \in DOMAIN home
        /\ reclaims = TRUE /\ Cardinality(DOMAIN contents) \in Nat
    BY FS_CardinalityType DEF TableInv, TableOf, TableType
  <2>3. Cardinality(DOMAIN contents) < N
    BY <2>1, <2>2
  <2> QED  BY <2>2, <2>3, RoomToInsert
<1> QED  BY <1>1, TableInvariant, PTL

-----------------------------------------------------------------------------
(* The price ladder. *)

Parent(p) == (p - 1) \div 2

(* ladder_before orders the levels on: of two one comes first. *)
Ordered(sd, pr, on) ==
  /\ \A a, b \in on :
       a = b \/ ladder_before(sd, pr, a, b) \/ ladder_before(sd, pr, b, a)
  /\ \A a, b, c \in on :
       ladder_before(sd, pr, a, b) /\ ladder_before(sd, pr, b, c)
         => ladder_before(sd, pr, a, c)

(* A ladder of n levels, on, with their positions. *)
Shape(l, on, n) ==
  /\ l.heap \in [0 .. n - 1 -> on]
  /\ l.heap_pos \in [on -> 0 .. n - 1]
  /\ \A x \in on : l.heap[l.heap_pos[x]] = x
  /\ \A p \in 0 .. n - 1 : l.heap_pos[l.heap[p]] = p

(* The level at p is where it belongs with respect to its parent. *)
Edge(sd, pr, h, p) == ladder_before(sd, pr, h[Parent(p)], h[p])

Heap(sd, pr, h, n) == \A p \in 1 .. n - 1 : Edge(sd, pr, h, p)

(* The levels around pos belong where they are without the one at pos. *)
Bridged(sd, pr, h, n, pos) ==
  pos > 0 => \A c \in 1 .. n - 1 :
               Parent(c) = pos => ladder_before(sd, pr, h[Parent(pos)], h[c])

(* Only the level at pos may have to go up. *)
RisesAt(sd, pr, h, n, pos) ==
  /\ \A p \in 1 .. n - 1 : p # pos => Edge(sd, pr, h, p)
  /\ Bridged(sd, pr, h, n, pos)

(* Only the level at pos may have to go down, or up while it is at start. *)
FallsAt(sd, pr, h, n, pos, start) ==
  /\ \A p \in 1 .. n - 1 :
       Parent(p) # pos /\ (p # pos \/ pos # start) => Edge(sd, pr, h, p)
  /\ Bridged(sd, pr, h, n, pos)

-----------------------------------------------------------------------------
(* Position p is the left or the right child of its parent. *)
LEMMA ParentIs ==
  ASSUME NEW p \in Nat \ {0}
  PROVE  Parent(p) \in Nat /\ (p = 2 * Parent(p) + 1 \/ p = 2 * Parent(p) + 2)
  BY DEF Parent

(* The ladder's size is the number of its positions. *)
LEMMA SizeIs ==
  ASSUME NEW n \in Nat, NEW l, DOMAIN l.heap = 0 .. n - 1
  PROVE  Size(l) = n
  BY FS_Interval DEF Size

(* t is the ladder l with the levels at p and q in each other's place. *)
Swapped(l, p, q, t) ==
  /\ DOMAIN t.heap = DOMAIN l.heap
  /\ t.heap[p] = l.heap[q] /\ t.heap[q] = l.heap[p]
  /\ \A i \in DOMAIN l.heap : i # p /\ i # q => t.heap[i] = l.heap[i]

(* A swap keeps the levels and their positions in step. *)
LEMMA SwapOK ==
  ASSUME NEW n \in Nat, NEW on, NEW l, Shape(l, on, n),
         NEW p \in 0 .. n - 1, NEW q \in 0 .. n - 1, p # q
  PROVE  Swapped(l, p, q, Swap(l, p, q)) /\ Shape(Swap(l, p, q), on, n)
<1> DEFINE t == Swap(l, p, q)
           x == l.heap[p]
           y == l.heap[q]
<1>1. /\ x \in on /\ y \in on /\ l.heap_pos[x] = p /\ l.heap_pos[y] = q
      /\ DOMAIN l.heap = 0 .. n - 1 /\ DOMAIN l.heap_pos = on
  BY DEF Shape
<1>2. t.heap = [i \in 0 .. n - 1 |-> IF i = q THEN x ELSE IF i = p THEN y ELSE l.heap[i]]
  BY <1>1 DEF Swap, Place
<1>3. t.heap_pos = [z \in on |-> IF z = x THEN q ELSE IF z = y THEN p ELSE l.heap_pos[z]]
  BY <1>1 DEF Swap, Place
<1> HIDE DEF t, x, y
<1>4. Swapped(l, p, q, t)
  BY <1>1, <1>2 DEF Swapped, x, y
<1>5. t.heap \in [0 .. n - 1 -> on] /\ t.heap_pos \in [on -> 0 .. n - 1]
  BY <1>1, <1>2, <1>3 DEF Shape
<1>6. ASSUME NEW z \in on PROVE t.heap[t.heap_pos[z]] = z
  <2>1. CASE z = x
    BY <1>2, <1>3, <2>1
  <2>2. CASE z = y /\ z # x
    BY <1>2, <1>3, <2>2
  <2>3. CASE z # x /\ z # y
    <3> DEFINE i == l.heap_pos[z]
    <3>1. i \in 0 .. n - 1 /\ l.heap[i] = z
      BY DEF Shape
    <3>2. i # p /\ i # q
      BY <2>3, <3>1 DEF x, y
    <3>3. t.heap_pos[z] = i
      BY <1>3, <2>3
    <3> HIDE DEF i
    <3> QED  BY <1>2, <3>1, <3>2, <3>3
  <2> QED  BY <2>1, <2>2, <2>3
<1>7. ASSUME NEW i \in 0 .. n - 1 PROVE t.heap_pos[t.heap[i]] = i
  <2>1. x # y
    BY <1>1
  <2>2. CASE i = q
    BY <1>1, <1>2, <1>3, <2>2
  <2>3. CASE i = p
    BY <1>1, <1>2, <1>3, <2>1, <2>3
  <2>4. CASE i # p /\ i # q
    <3> DEFINE z == l.heap[i]
    <3>1. z \in on /\ l.heap_pos[z] = i
      BY DEF Shape
    <3>2. z # x /\ z # y
      BY <1>1, <2>4, <3>1
    <3>3. t.heap[i] = z
      BY <1>2, <2>4
    <3> HIDE DEF z
    <3> QED  BY <1>3, <3>1, <3>2, <3>3
  <2> QED  BY <2>2, <2>3, <2>4
<1>8. Shape(t, on, n)
  BY <1>5, <1>6, <1>7 DEF Shape
<1> QED  BY <1>4, <1>8 DEF t

-----------------------------------------------------------------------------
(* The loop of ladder_sift_up. *)

UpState(sd, pr, on, n, s) ==
  /\ Shape(s.ladder, on, n) /\ s.pos \in 0 .. n - 1
  /\ RisesAt(sd, pr, s.ladder.heap, n, s.pos)

(* t is s with the level lifted, or there is none to lift. *)
LiftedTo(sd, pr, on, n, s, t) ==
  /\ UpState(sd, pr, on, n, t)
  /\ t.pos < s.pos \/ (t = s /\ Heap(sd, pr, s.ladder.heap, n))

(* A turn lifts the level that has to go up, or there is none. *)
LEMMA UpTurn ==
  ASSUME NEW sd, NEW pr, NEW on, NEW n \in Nat, NEW s,
         Ordered(sd, pr, on), UpState(sd, pr, on, n, s)
  PROVE  LiftedTo(sd, pr, on, n, s, SiftUpTurn(sd, pr, s))
<1> DEFINE t == SiftUpTurn(sd, pr, s)
           h == s.ladder.heap
           pos == s.pos
           parent == Parent(pos)
<1>1. /\ Shape(s.ladder, on, n) /\ pos \in 0 .. n - 1 /\ h \in [0 .. n - 1 -> on]
      /\ \A p \in 1 .. n - 1 : p # pos => Edge(sd, pr, h, p)
      /\ Bridged(sd, pr, h, n, pos)
  BY DEF UpState, RisesAt, Shape
<1>2. \A p \in 1 .. n - 1 : /\ Parent(p) \in 0 .. n - 1
                            /\ p = 2 * Parent(p) + 1 \/ p = 2 * Parent(p) + 2
  BY ParentIs
<1>3. CASE pos > 0 /\ ladder_before(sd, pr, h[pos], h[parent])
  <2>1. parent \in 0 .. n - 1 /\ parent < pos /\ pos # parent
    BY <1>1, <1>2, <1>3
  <2>2. t = [ladder |-> Swap(s.ladder, pos, parent), pos |-> parent]
    BY <1>3 DEF SiftUpTurn, Parent
  <2> DEFINE l == Swap(s.ladder, pos, parent)
             g == l.heap
  <2>3. Swapped(s.ladder, pos, parent, l) /\ Shape(l, on, n)
    BY <1>1, <2>1, SwapOK, Zenon
  <2>4. t.ladder = l /\ t.pos = parent
    BY <2>2
  <2> HIDE DEF t, l
  <2>5. /\ g[pos] = h[parent] /\ g[parent] = h[pos]
        /\ \A i \in 0 .. n - 1 : i # pos /\ i # parent => g[i] = h[i]
    BY <1>1, <2>3 DEF Swapped
  <2> HIDE DEF g, h, parent, pos
  <2>6. ASSUME NEW p \in 1 .. n - 1, p # parent PROVE Edge(sd, pr, g, p)
    <3>1. CASE p = pos
      BY <1>3, <2>5, <3>1 DEF Edge, parent
    <3>2. CASE p # pos /\ Parent(p) = pos
      <4>1. ladder_before(sd, pr, h[parent], h[p])
        BY <1>1, <1>3, <3>2 DEF Bridged, parent
      <4> QED  BY <2>5, <2>6, <3>2, <4>1 DEF Edge
    <3>3. CASE p # pos /\ Parent(p) = parent
      <4>1. ladder_before(sd, pr, h[parent], h[p]) /\ g[p] = h[p]
        BY <1>1, <2>5, <2>6, <3>3 DEF Edge
      <4>2. h[parent] \in on /\ h[p] \in on /\ h[pos] \in on
        BY <1>1, <2>1
      <4>3. ladder_before(sd, pr, h[pos], h[p])
        BY <1>3, <4>1, <4>2 DEF Ordered
      <4> QED  BY <2>5, <3>3, <4>1, <4>3 DEF Edge
    <3>4. CASE p # pos /\ Parent(p) # pos /\ Parent(p) # parent
      <4>1. g[p] = h[p] /\ g[Parent(p)] = h[Parent(p)]
        BY <1>2, <2>5, <2>6, <3>4
      <4> QED  BY <1>1, <3>4, <4>1 DEF Edge
    <3> QED  BY <3>1, <3>2, <3>3, <3>4
  <2>7. Bridged(sd, pr, g, n, parent)
    <3> SUFFICES ASSUME parent > 0, NEW c \in 1 .. n - 1, Parent(c) = parent
                 PROVE  ladder_before(sd, pr, g[Parent(parent)], g[c])
      BY DEF Bridged
    <3>1. /\ Parent(parent) \in 0 .. n - 1 /\ Parent(parent) < parent
          /\ parent \in 1 .. n - 1
      BY <1>2, <2>1
    <3>2. ladder_before(sd, pr, h[Parent(parent)], h[parent])
      BY <1>1, <2>1, <3>1 DEF Edge
    <3>3. g[Parent(parent)] = h[Parent(parent)]
      BY <2>1, <2>5, <3>1
    <3>4. CASE c = pos
      BY <2>5, <3>2, <3>3, <3>4
    <3>5. CASE c # pos
      <4>1. ladder_before(sd, pr, h[parent], h[c])
        BY <1>1, <3>5 DEF Edge
      <4>2. g[c] = h[c]
        BY <1>2, <2>5, <3>5
      <4>3. h[parent] \in on /\ h[c] \in on /\ h[Parent(parent)] \in on
        BY <1>1, <2>1, <3>1
      <4> QED  BY <3>2, <3>3, <4>1, <4>2, <4>3 DEF Ordered
    <3> QED  BY <3>4, <3>5
  <2>8. UpState(sd, pr, on, n, t)
    BY <2>1, <2>3, <2>4, <2>6, <2>7 DEF UpState, RisesAt, g
  <2> QED  BY <2>1, <2>4, <2>8 DEF t, pos, LiftedTo
<1>4. CASE ~(pos > 0 /\ ladder_before(sd, pr, h[pos], h[parent]))
  <2>1. t = s
    BY <1>4 DEF SiftUpTurn, Parent
  <2>2. ASSUME pos > 0 PROVE Edge(sd, pr, h, pos)
    <3>1. parent \in 0 .. n - 1 /\ parent # pos
      BY <1>1, <1>2, <2>2
    <3>2. h[parent] # h[pos]
      BY <1>1, <3>1 DEF Shape
    <3>3. h[parent] \in on /\ h[pos] \in on
      BY <1>1, <3>1
    <3> QED  BY <1>4, <2>2, <3>2, <3>3 DEF Ordered, Edge
  <2>3. Heap(sd, pr, h, n)
    BY <1>1, <2>2 DEF Heap
  <2> QED  BY <2>1, <2>3 DEF LiftedTo
<1> QED  BY <1>3, <1>4

-----------------------------------------------------------------------------
(* The loop of ladder_sift_down. *)

Better(sd, pr, h, n, p, q) ==
  IF p < n /\ ladder_before(sd, pr, h[p], h[q]) THEN p ELSE q

Best(sd, pr, h, n, pos) ==
  Better(sd, pr, h, n, 2 * pos + 2, Better(sd, pr, h, n, 2 * pos + 1, pos))

(* b is the child of pos that comes before pos and its other child. *)
BestChild(sd, pr, h, n, pos, b) ==
  /\ b \in 1 .. n - 1 /\ Parent(b) = pos /\ b > pos
  /\ ladder_before(sd, pr, h[b], h[pos])
  /\ \A c \in 1 .. n - 1 : Parent(c) = pos /\ c # b => ladder_before(sd, pr, h[b], h[c])

(* The level of greatest priority among pos and its children. *)
LEMMA BestIs ==
  ASSUME NEW sd, NEW pr, NEW on, NEW n \in Nat, NEW h \in [0 .. n - 1 -> on],
         Ordered(sd, pr, on), NEW pos \in 0 .. n - 1,
         \A i, j \in 0 .. n - 1 : h[i] = h[j] => i = j
  PROVE  /\ Best(sd, pr, h, n, pos) # pos
              => BestChild(sd, pr, h, n, pos, Best(sd, pr, h, n, pos))
         /\ Best(sd, pr, h, n, pos) = pos
              => \A c \in 1 .. n - 1 : Parent(c) = pos => Edge(sd, pr, h, c)
<1> DEFINE left == 2 * pos + 1
           right == 2 * pos + 2
           b1 == Better(sd, pr, h, n, left, pos)
           b == Better(sd, pr, h, n, right, b1)
<1>1. /\ left \in Nat \ {0} /\ right \in Nat \ {0} /\ left # right
      /\ left > pos /\ right > pos /\ left < right
  OBVIOUS
<1>2. Parent(left) = pos /\ Parent(right) = pos
  BY <1>1 DEF Parent
<1>3. \A c \in 1 .. n - 1 : Parent(c) = pos => c = left \/ c = right
  BY ParentIs
<1>4. Best(sd, pr, h, n, pos) = b
  BY DEF Best
<1>5. \A i, j \in 0 .. n - 1 :
        i # j => ladder_before(sd, pr, h[i], h[j]) \/ ladder_before(sd, pr, h[j], h[i])
  <2> TAKE i, j \in 0 .. n - 1
  <2> HAVE i # j
  <2>1. h[i] \in on /\ h[j] \in on /\ h[i] # h[j]
    OBVIOUS
  <2> QED  BY <2>1 DEF Ordered
<1>6. \A i, j, k \in 0 .. n - 1 :
        ladder_before(sd, pr, h[i], h[j]) /\ ladder_before(sd, pr, h[j], h[k])
          => ladder_before(sd, pr, h[i], h[k])
  <2> TAKE i, j, k \in 0 .. n - 1
  <2>1. h[i] \in on /\ h[j] \in on /\ h[k] \in on
    OBVIOUS
  <2> QED  BY <2>1 DEF Ordered
<1> HIDE DEF left, right
<1>7. CASE left < n /\ ladder_before(sd, pr, h[left], h[pos])
  <2>1. b1 = left /\ left \in 0 .. n - 1
    BY <1>1, <1>7 DEF Better
  <2>2. CASE right < n /\ ladder_before(sd, pr, h[right], h[left])
    <3>1. b = right /\ right \in 1 .. n - 1
      BY <1>1, <2>1, <2>2 DEF Better
    <3>2. ladder_before(sd, pr, h[right], h[pos])
      BY <1>6, <1>7, <2>1, <2>2, <3>1
    <3>3. BestChild(sd, pr, h, n, pos, right)
      BY <1>1, <1>2, <1>3, <2>2, <3>1, <3>2 DEF BestChild
    <3> QED  BY <1>1, <1>4, <3>1, <3>3
  <2>3. CASE ~(right < n /\ ladder_before(sd, pr, h[right], h[left]))
    <3>1. b = left
      BY <2>1, <2>3 DEF Better
    <3>2. right < n => ladder_before(sd, pr, h[left], h[right])
      BY <1>1, <1>5, <2>1, <2>3
    <3>3. BestChild(sd, pr, h, n, pos, left)
      BY <1>1, <1>2, <1>3, <1>7, <2>1, <3>2 DEF BestChild
    <3> QED  BY <1>1, <1>4, <3>1, <3>3
  <2> QED  BY <2>2, <2>3
<1>8. CASE ~(left < n /\ ladder_before(sd, pr, h[left], h[pos]))
  <2>1. b1 = pos
    BY <1>8 DEF Better
  <2>2. left < n => ladder_before(sd, pr, h[pos], h[left])
    BY <1>1, <1>5, <1>8
  <2>3. CASE right < n /\ ladder_before(sd, pr, h[right], h[pos])
    <3>1. b = right /\ right \in 1 .. n - 1 /\ left \in 0 .. n - 1
      BY <1>1, <2>1, <2>3 DEF Better
    <3>2. ladder_before(sd, pr, h[right], h[left])
      BY <1>6, <2>2, <2>3, <3>1
    <3>3. BestChild(sd, pr, h, n, pos, right)
      BY <1>1, <1>2, <1>3, <2>3, <3>1, <3>2 DEF BestChild
    <3> QED  BY <1>1, <1>4, <3>1, <3>3
  <2>4. CASE ~(right < n /\ ladder_before(sd, pr, h[right], h[pos]))
    <3>1. b = pos
      BY <2>1, <2>4 DEF Better
    <3>2. right < n => ladder_before(sd, pr, h[pos], h[right])
      BY <1>1, <1>5, <2>4
    <3>3. \A c \in 1 .. n - 1 : Parent(c) = pos => Edge(sd, pr, h, c)
      BY <1>2, <1>3, <2>2, <3>2 DEF Edge
    <3> QED  BY <1>4, <3>1, <3>3
  <2> QED  BY <2>3, <2>4
<1> QED  BY <1>7, <1>8

DownState(sd, pr, on, n, start, s) ==
  /\ Shape(s.ladder, on, n) /\ s.pos \in start .. n - 1
  /\ FallsAt(sd, pr, s.ladder.heap, n, s.pos, start)

(* t is s with the level lowered, or there is none to lower. *)
LoweredTo(sd, pr, on, n, start, s, t) ==
  /\ DownState(sd, pr, on, n, start, t)
  /\ t.pos > s.pos \/ (t = s /\ RisesAt(sd, pr, s.ladder.heap, n, start))

(* A turn lowers the level that has to go down, or there is none. *)
LEMMA DownTurn ==
  ASSUME NEW sd, NEW pr, NEW on, NEW n \in Nat, NEW s, NEW start \in Nat,
         Ordered(sd, pr, on), DownState(sd, pr, on, n, start, s)
  PROVE  LoweredTo(sd, pr, on, n, start, s, SiftDownTurn(sd, pr, s))
<1> DEFINE t == SiftDownTurn(sd, pr, s)
           h == s.ladder.heap
           pos == s.pos
           best == Best(sd, pr, h, n, pos)
<1>1. /\ Shape(s.ladder, on, n) /\ pos \in 0 .. n - 1 /\ pos >= start
      /\ h \in [0 .. n - 1 -> on]
      /\ \A p \in 1 .. n - 1 :
           Parent(p) # pos /\ (p # pos \/ pos # start) => Edge(sd, pr, h, p)
      /\ Bridged(sd, pr, h, n, pos)
  BY DEF DownState, FallsAt, Shape
<1>2. \A p \in 1 .. n - 1 : Parent(p) \in 0 .. n - 1 /\ Parent(p) < p
  BY ParentIs
<1>3. \A i, j \in 0 .. n - 1 : h[i] = h[j] => i = j
  BY <1>1 DEF Shape
<1>4. Size(s.ladder) = n
  BY <1>1, SizeIs
<1>5. t = IF best = pos THEN s ELSE [ladder |-> Swap(s.ladder, pos, best), pos |-> best]
  BY <1>4 DEF SiftDownTurn, Best, Better
<1>6. /\ best # pos => BestChild(sd, pr, h, n, pos, best)
      /\ best = pos => \A c \in 1 .. n - 1 : Parent(c) = pos => Edge(sd, pr, h, c)
  BY <1>1, <1>3, BestIs
<1> HIDE DEF best
<1>7. CASE best # pos
  <2>1. /\ best \in 1 .. n - 1 /\ Parent(best) = pos /\ best > pos
        /\ best \in 0 .. n - 1 /\ pos # best
        /\ ladder_before(sd, pr, h[best], h[pos])
        /\ \A c \in 1 .. n - 1 :
             Parent(c) = pos /\ c # best => ladder_before(sd, pr, h[best], h[c])
    BY <1>6, <1>7 DEF BestChild
  <2> DEFINE l == Swap(s.ladder, pos, best)
             g == l.heap
  <2>2. Swapped(s.ladder, pos, best, l) /\ Shape(l, on, n)
    BY <1>1, <2>1, SwapOK, Zenon
  <2>3. t.ladder = l /\ t.pos = best
    BY <1>5, <1>7
  <2> HIDE DEF t, l
  <2>4. /\ g[pos] = h[best] /\ g[best] = h[pos]
        /\ \A i \in 0 .. n - 1 : i # pos /\ i # best => g[i] = h[i]
    BY <1>1, <2>2 DEF Swapped
  <2> HIDE DEF g, h, pos
  <2>5. ASSUME NEW p \in 1 .. n - 1, Parent(p) # best PROVE Edge(sd, pr, g, p)
    <3>1. CASE p = best
      BY <2>1, <2>4, <3>1 DEF Edge
    <3>2. CASE p # best /\ Parent(p) = pos
      <4>1. p # pos
        BY <1>2, <3>2
      <4> QED  BY <2>1, <2>4, <3>2, <4>1 DEF Edge
    <3>3. CASE p = pos
      <4>1. ladder_before(sd, pr, h[Parent(pos)], h[best])
        BY <1>1, <2>1, <3>3 DEF Bridged
      <4>2. g[Parent(pos)] = h[Parent(pos)]
        BY <1>2, <2>1, <2>4, <3>3
      <4> QED  BY <2>4, <3>3, <4>1, <4>2 DEF Edge
    <3>4. CASE p # best /\ p # pos /\ Parent(p) # pos
      <4>1. g[p] = h[p] /\ g[Parent(p)] = h[Parent(p)]
        BY <1>2, <2>4, <2>5, <3>4
      <4> QED  BY <1>1, <3>4, <4>1 DEF Edge
    <3> QED  BY <3>1, <3>2, <3>3, <3>4
  <2>6. Bridged(sd, pr, g, n, best)
    <3> SUFFICES ASSUME NEW c \in 1 .. n - 1, Parent(c) = best
                 PROVE  ladder_before(sd, pr, g[pos], g[c])
      BY <2>1 DEF Bridged
    <3>1. c # pos /\ c # best
      BY <1>2, <2>1
    <3>2. ladder_before(sd, pr, h[best], h[c])
      BY <1>1, <2>1, <3>1 DEF Edge
    <3> QED  BY <2>4, <3>1, <3>2
  <2>7. FallsAt(sd, pr, g, n, best, start)
    BY <2>5, <2>6 DEF FallsAt
  <2>8. DownState(sd, pr, on, n, start, t)
    BY <1>1, <2>1, <2>2, <2>3, <2>7 DEF DownState, g
  <2> QED  BY <2>1, <2>3, <2>8 DEF t, pos, LoweredTo
<1>8. CASE best = pos
  <2>1. t = s
    BY <1>5, <1>8
  <2>2. \A p \in 1 .. n - 1 : p # start => Edge(sd, pr, h, p)
    BY <1>1, <1>6, <1>8
  <2>3. Bridged(sd, pr, h, n, start)
    <3>1. CASE pos = start
      BY <1>1, <3>1
    <3>2. CASE pos # start
      <4> SUFFICES ASSUME start > 0, NEW c \in 1 .. n - 1, Parent(c) = start
                   PROVE  ladder_before(sd, pr, h[Parent(start)], h[c])
        BY DEF Bridged
      <4>1. start \in 1 .. n - 1 /\ c # start
        BY <1>1, <1>2
      <4>2. ladder_before(sd, pr, h[Parent(start)], h[start])
        <5>1. Edge(sd, pr, h, start)
          BY <1>1, <1>6, <1>8, <3>2, <4>1
        <5> QED  BY <5>1 DEF Edge
      <4>3. ladder_before(sd, pr, h[start], h[c])
        BY <2>2, <4>1 DEF Edge
      <4>4. h[start] \in on /\ h[c] \in on /\ h[Parent(start)] \in on
        BY <1>1, <1>2, <4>1
      <4> QED  BY <4>2, <4>3, <4>4 DEF Ordered
    <3> QED  BY <3>1, <3>2
  <2> QED  BY <2>1, <2>2, <2>3 DEF RisesAt, LoweredTo
<1> QED  BY <1>7, <1>8

-----------------------------------------------------------------------------
(* The loops end. *)

(* One turn of either loop. *)
Turn(up, sd, pr, s) == IF up THEN SiftUpTurn(sd, pr, s) ELSE SiftDownTurn(sd, pr, s)

(* f holds the states of the loop after 0 .. n turns. *)
Turns(up, sd, pr, s, n, f) ==
  f = [k \in 0 .. n |-> IF k = 0 THEN s ELSE Turn(up, sd, pr, f[k - 1])]

(* Every number of turns can be made. *)
LEMMA TurnsExist ==
  ASSUME NEW up, NEW sd, NEW pr, NEW s, NEW n \in Nat
  PROVE  \E f : Turns(up, sd, pr, s, n, f)
<1> DEFINE T == {m \in Nat : \E f : Turns(up, sd, pr, s, m, f)}
<1>1. 0 \in T
  <2>1. Turns(up, sd, pr, s, 0, [k \in 0 .. 0 |-> s])
    BY DEF Turns
  <2> QED  BY <2>1
<1>2. ASSUME NEW m \in Nat, m \in T PROVE m + 1 \in T
  <2>1. PICK f : Turns(up, sd, pr, s, m, f)
    BY <1>2
  <2> DEFINE next == Turn(up, sd, pr, f[m])
             g == [k \in 0 .. m + 1 |-> IF k = m + 1 THEN next ELSE f[k]]
  <2>2. \A k \in 0 .. m : f[k] = IF k = 0 THEN s ELSE Turn(up, sd, pr, f[k - 1])
    BY <2>1 DEF Turns
  <2>3. (\A k \in 0 .. m : g[k] = f[k]) /\ g[m + 1] = next
    <3> HIDE DEF next
    <3> QED  BY SMT
  <2>4. g = [k \in 0 .. m + 1 |-> g[k]]
    OBVIOUS
  <2> HIDE DEF g
  <2>5. ASSUME NEW k \in 0 .. m + 1
        PROVE  g[k] = IF k = 0 THEN s ELSE Turn(up, sd, pr, g[k - 1])
    <3>1. CASE k = m + 1
      <4>1. g[k - 1] = f[m] /\ k # 0
        BY <2>3, <3>1
      <4> QED  BY <2>3, <3>1, <4>1
    <3>2. CASE k \in 0 .. m
      <4>1. k # 0 => g[k - 1] = f[k - 1]
        BY <2>3, <3>2
      <4> QED  BY <2>2, <2>3, <3>2, <4>1
    <3> QED  BY <3>1, <3>2
  <2>6. Turns(up, sd, pr, s, m + 1, g)
    BY <2>4, <2>5 DEF Turns
  <2> QED  BY <2>6
<1>3. Nat \subseteq T
  <2> HIDE DEF T
  <2> QED  BY <1>1, <1>2, Induction
<1> QED  BY <1>3

Start(l, pos) == [ladder |-> l, pos |-> pos]

(* What holds after k turns of the loop that goes up from pos. *)
UpAfter(sd, pr, on, n, pos, k, s) ==
  /\ UpState(sd, pr, on, n, s)
  /\ \/ s.pos <= pos - k
     \/ SiftUpTurn(sd, pr, s) = s /\ Heap(sd, pr, s.ladder.heap, n)

(* ladder_sift_up makes a heap of a ladder in which one level has to go up. *)
LEMMA SiftUpOK ==
  ASSUME NEW sd, NEW pr, NEW on, NEW n \in Nat, NEW l, NEW pos \in 0 .. n - 1,
         Ordered(sd, pr, on), Shape(l, on, n), RisesAt(sd, pr, l.heap, n, pos)
  PROVE  /\ Shape(ladder_sift_up(sd, pr, l, pos), on, n)
         /\ Heap(sd, pr, ladder_sift_up(sd, pr, l, pos).heap, n)
<1> DEFINE f == CHOOSE f : Turns(TRUE, sd, pr, Start(l, pos), pos, f)
           T == {k \in Nat : k <= pos => UpAfter(sd, pr, on, n, pos, k, f[k])}
<1>0. pos \in Nat
  OBVIOUS
<1>1. ladder_sift_up(sd, pr, l, pos) = f[pos].ladder
  BY Zenon DEF ladder_sift_up, Turns, Turn, Start
<1>2. Turns(TRUE, sd, pr, Start(l, pos), pos, f)
  BY <1>0, TurnsExist, Zenon
<1> HIDE DEF f
<1>3. \A k \in 0 .. pos : f[k] = IF k = 0 THEN Start(l, pos) ELSE SiftUpTurn(sd, pr, f[k - 1])
  BY <1>2 DEF Turns, Turn
<1>4. 0 \in T
  <2>1. f[0] = Start(l, pos) /\ f[0].ladder = l /\ f[0].pos = pos
    BY <1>3 DEF Start
  <2>2. UpState(sd, pr, on, n, f[0])
    BY <2>1 DEF UpState
  <2>3. UpAfter(sd, pr, on, n, pos, 0, f[0])
    BY <2>1, <2>2 DEF UpAfter
  <2> QED  BY <2>3
<1>5. ASSUME NEW k \in Nat, k \in T PROVE k + 1 \in T
  <2> SUFFICES ASSUME k + 1 <= pos PROVE UpAfter(sd, pr, on, n, pos, k + 1, f[k + 1])
    OBVIOUS
  <2> DEFINE Fixed(s) == SiftUpTurn(sd, pr, s) = s /\ Heap(sd, pr, s.ladder.heap, n)
  <2>1. f[k + 1] = SiftUpTurn(sd, pr, f[k])
    BY <1>3
  <2>2. UpState(sd, pr, on, n, f[k]) /\ (f[k].pos <= pos - k \/ Fixed(f[k]))
    <3>1. UpAfter(sd, pr, on, n, pos, k, f[k])
      BY <1>5
    <3> QED  BY <3>1 DEF UpAfter
  <2>3. /\ UpState(sd, pr, on, n, f[k + 1])
        /\ f[k + 1].pos < f[k].pos
           \/ (f[k + 1] = f[k] /\ Heap(sd, pr, f[k].ladder.heap, n))
    <3>1. LiftedTo(sd, pr, on, n, f[k], f[k + 1])
      BY <2>1, <2>2, UpTurn
    <3> QED  BY <3>1 DEF LiftedTo
  <2>4. f[k].pos \in Nat /\ f[k + 1].pos \in Nat
    BY <2>2, <2>3 DEF UpState
  <2>5. CASE Fixed(f[k])
    BY <2>1, <2>3, <2>5 DEF UpAfter
  <2>6. CASE f[k + 1] = f[k] /\ Heap(sd, pr, f[k].ladder.heap, n)
    BY <2>1, <2>3, <2>6 DEF UpAfter
  <2>7. CASE f[k].pos <= pos - k /\ f[k + 1].pos < f[k].pos
    BY <2>3, <2>4, <2>7 DEF UpAfter
  <2> QED  BY <2>2, <2>3, <2>5, <2>6, <2>7
<1>6. Nat \subseteq T
  <2> HIDE DEF T
  <2> QED  BY <1>4, <1>5, Induction
<1>7. /\ UpState(sd, pr, on, n, f[pos])
      /\ f[pos].pos <= 0 \/ Heap(sd, pr, f[pos].ladder.heap, n)
  <2>1. UpAfter(sd, pr, on, n, pos, pos, f[pos])
    BY <1>0, <1>6
  <2> QED  BY <1>0, <2>1 DEF UpAfter
<1>8. ASSUME f[pos].pos <= 0 PROVE Heap(sd, pr, f[pos].ladder.heap, n)
  <2>1. f[pos].pos = 0
    BY <1>7, <1>8 DEF UpState
  <2> QED  BY <1>7, <2>1 DEF UpState, RisesAt, Heap
<1>9. Shape(f[pos].ladder, on, n) /\ Heap(sd, pr, f[pos].ladder.heap, n)
  BY <1>7, <1>8 DEF UpState
<1> QED  BY <1>1, <1>9

(* What holds after k turns of the loop that goes down from pos. *)
DownAfter(sd, pr, on, n, pos, k, s) ==
  /\ DownState(sd, pr, on, n, pos, s)
  /\ \/ s.pos >= pos + k
     \/ SiftDownTurn(sd, pr, s) = s /\ RisesAt(sd, pr, s.ladder.heap, n, pos)

(* After ladder_sift_down only the level at its start may have to go up. *)
LEMMA SiftDownOK ==
  ASSUME NEW sd, NEW pr, NEW on, NEW n \in Nat, NEW l, NEW pos \in 0 .. n - 1,
         Ordered(sd, pr, on), Shape(l, on, n), FallsAt(sd, pr, l.heap, n, pos, pos)
  PROVE  /\ Shape(ladder_sift_down(sd, pr, l, pos), on, n)
         /\ RisesAt(sd, pr, ladder_sift_down(sd, pr, l, pos).heap, n, pos)
<1> DEFINE f == CHOOSE f : Turns(FALSE, sd, pr, Start(l, pos), n, f)
           T == {k \in Nat : k <= n => DownAfter(sd, pr, on, n, pos, k, f[k])}
<1>0. pos \in Nat
  OBVIOUS
<1>1. ladder_sift_down(sd, pr, l, pos) = f[n].ladder
  <2>1. Size(l) = n
    BY SizeIs DEF Shape
  <2> QED  BY <2>1, Zenon DEF ladder_sift_down, Turns, Turn, Start
<1>2. Turns(FALSE, sd, pr, Start(l, pos), n, f)
  BY <1>0, TurnsExist, Zenon
<1> HIDE DEF f
<1>3. \A k \in 0 .. n : f[k] = IF k = 0 THEN Start(l, pos) ELSE SiftDownTurn(sd, pr, f[k - 1])
  BY <1>2 DEF Turns, Turn
<1>4. 0 \in T
  <2>1. f[0] = Start(l, pos) /\ f[0].ladder = l /\ f[0].pos = pos
    BY <1>3 DEF Start
  <2>2. DownState(sd, pr, on, n, pos, f[0])
    BY <2>1 DEF DownState
  <2>3. DownAfter(sd, pr, on, n, pos, 0, f[0])
    BY <2>1, <2>2 DEF DownAfter
  <2> QED  BY <2>3
<1>5. ASSUME NEW k \in Nat, k \in T PROVE k + 1 \in T
  <2> SUFFICES ASSUME k + 1 <= n PROVE DownAfter(sd, pr, on, n, pos, k + 1, f[k + 1])
    OBVIOUS
  <2> DEFINE Fixed(s) == /\ SiftDownTurn(sd, pr, s) = s
                         /\ RisesAt(sd, pr, s.ladder.heap, n, pos)
  <2>1. f[k + 1] = SiftDownTurn(sd, pr, f[k])
    BY <1>3
  <2>2. DownState(sd, pr, on, n, pos, f[k]) /\ (f[k].pos >= pos + k \/ Fixed(f[k]))
    <3>1. DownAfter(sd, pr, on, n, pos, k, f[k])
      BY <1>5
    <3> QED  BY <3>1 DEF DownAfter
  <2>3. /\ DownState(sd, pr, on, n, pos, f[k + 1])
        /\ f[k + 1].pos > f[k].pos
           \/ (f[k + 1] = f[k] /\ RisesAt(sd, pr, f[k].ladder.heap, n, pos))
    <3>1. LoweredTo(sd, pr, on, n, pos, f[k], f[k + 1])
      BY <1>0, <2>1, <2>2, DownTurn
    <3> QED  BY <3>1 DEF LoweredTo
  <2>4. f[k].pos \in Nat /\ f[k + 1].pos \in Nat
    BY <2>2, <2>3 DEF DownState
  <2>5. CASE Fixed(f[k])
    BY <2>1, <2>3, <2>5 DEF DownAfter
  <2>6. CASE f[k + 1] = f[k] /\ RisesAt(sd, pr, f[k].ladder.heap, n, pos)
    BY <2>1, <2>3, <2>6 DEF DownAfter
  <2>7. CASE f[k].pos >= pos + k /\ f[k + 1].pos > f[k].pos
    BY <2>3, <2>4, <2>7 DEF DownAfter
  <2> QED  BY <2>2, <2>3, <2>5, <2>6, <2>7
<1>6. Nat \subseteq T
  <2> HIDE DEF T
  <2> QED  BY <1>4, <1>5, Induction
<1>7. /\ DownState(sd, pr, on, n, pos, f[n])
      /\ f[n].pos >= pos + n \/ RisesAt(sd, pr, f[n].ladder.heap, n, pos)
  <2>1. DownAfter(sd, pr, on, n, pos, n, f[n])
    BY <1>6
  <2> QED  BY <2>1 DEF DownAfter
<1>8. ~(f[n].pos >= pos + n)
  BY <1>7 DEF DownState
<1>9. Shape(f[n].ladder, on, n) /\ RisesAt(sd, pr, f[n].ladder.heap, n, pos)
  BY <1>7, <1>8 DEF DownState
<1> QED  BY <1>1, <1>9

-----------------------------------------------------------------------------
(* Pushing and removing a level. *)

(* l is a ladder of the n levels on, in heap order. *)
GoodLadder(sd, pr, l, on, n) == Shape(l, on, n) /\ Heap(sd, pr, l.heap, n)

(* ladder_push adds the level. *)
LEMMA PushOK ==
  ASSUME NEW sd, NEW pr, NEW on, NEW n \in Nat, NEW l, NEW x, x \notin on,
         Ordered(sd, pr, on \cup {x}), GoodLadder(sd, pr, l, on, n)
  PROVE  GoodLadder(sd, pr, ladder_push(sd, pr, l, x), on \cup {x}, n + 1)
<1> DEFINE t == Place(l, n, x)
           more == on \cup {x}
<1>1. /\ l.heap \in [0 .. n - 1 -> on] /\ l.heap_pos \in [on -> 0 .. n - 1]
      /\ \A z \in on : l.heap[l.heap_pos[z]] = z
      /\ \A p \in 0 .. n - 1 : l.heap_pos[l.heap[p]] = p
      /\ \A p \in 1 .. n - 1 : Edge(sd, pr, l.heap, p)
  BY DEF GoodLadder, Shape, Heap
<1>2. Size(l) = n
  BY <1>1, SizeIs
<1>3. /\ t.heap = [p \in 0 .. n |-> IF p = n THEN x ELSE l.heap[p]]
      /\ t.heap_pos = [z \in more |-> IF z = x THEN n ELSE l.heap_pos[z]]
  <2>1. DOMAIN l.heap \cup {n} = 0 .. n /\ DOMAIN l.heap_pos = on
    BY <1>1
  <2> QED  BY <2>1 DEF Place
<1> HIDE DEF t, more
<1>4. \A z \in more : z = x \/ (z \in on /\ z # x)
  BY DEF more
<1>5. x \in more /\ on \subseteq more
  BY DEF more
<1>6. Shape(t, more, n + 1)
  <2>1. t.heap \in [0 .. n -> more]
    BY <1>1, <1>3, <1>5
  <2>2. t.heap_pos \in [more -> 0 .. n]
    <3> SUFFICES ASSUME NEW z \in more
                 PROVE  (IF z = x THEN n ELSE l.heap_pos[z]) \in 0 .. n
      BY <1>3
    <3> QED  BY <1>1, <1>4
  <2>3. ASSUME NEW z \in more PROVE t.heap[t.heap_pos[z]] = z
    <3>1. CASE z = x
      BY <1>3, <3>1
    <3>2. CASE z \in on /\ z # x
      <4> DEFINE i == l.heap_pos[z]
      <4>1. t.heap_pos[z] = i /\ i \in 0 .. n - 1 /\ l.heap[i] = z
        BY <1>1, <1>3, <3>2
      <4> HIDE DEF i
      <4> QED  BY <1>3, <4>1
    <3> QED  BY <1>4, <3>1, <3>2
  <2>4. ASSUME NEW p \in 0 .. n PROVE t.heap_pos[t.heap[p]] = p
    <3>1. CASE p = n
      BY <1>3, <1>5, <3>1
    <3>2. CASE p \in 0 .. n - 1
      <4> DEFINE z == l.heap[p]
      <4>1. t.heap[p] = z /\ z \in on /\ z # x /\ l.heap_pos[z] = p
        BY <1>1, <1>3, <3>2
      <4> HIDE DEF z
      <4> QED  BY <1>3, <1>5, <4>1
    <3> QED  BY <3>1, <3>2
  <2>5. 0 .. (n + 1) - 1 = 0 .. n
    OBVIOUS
  <2> QED  BY <2>1, <2>2, <2>3, <2>4, <2>5 DEF Shape
<1>7. RisesAt(sd, pr, t.heap, n + 1, n)
  <2>1. \A p \in 1 .. (n + 1) - 1 : Parent(p) \in 0 .. n /\ Parent(p) < p
    <3> TAKE p \in 1 .. (n + 1) - 1
    <3>1. Parent(p) \in Nat /\ (p = 2 * Parent(p) + 1 \/ p = 2 * Parent(p) + 2)
      BY ParentIs
    <3> QED  BY <3>1
  <2>2. ASSUME NEW p \in 1 .. (n + 1) - 1, p # n PROVE Edge(sd, pr, t.heap, p)
    <3>1. p \in 1 .. n - 1 /\ Parent(p) \in 0 .. n - 1
      BY <2>1, <2>2
    <3>2. t.heap[p] = l.heap[p] /\ t.heap[Parent(p)] = l.heap[Parent(p)]
      BY <1>3, <3>1
    <3> QED  BY <1>1, <3>1, <3>2 DEF Edge
  <2>3. \A c \in 1 .. (n + 1) - 1 : Parent(c) # n
    BY <2>1
  <2> QED  BY <2>2, <2>3 DEF RisesAt, Bridged
<1>8. ladder_push(sd, pr, l, x) = ladder_sift_up(sd, pr, t, n)
  BY <1>2 DEF ladder_push, t
<1>9. /\ Shape(ladder_sift_up(sd, pr, t, n), more, n + 1)
      /\ Heap(sd, pr, ladder_sift_up(sd, pr, t, n).heap, n + 1)
  <2>1. n + 1 \in Nat /\ n \in 0 .. (n + 1) - 1 /\ Ordered(sd, pr, more)
    BY DEF more
  <2> QED  BY <1>6, <1>7, <2>1, SiftUpOK, Zenon
<1> QED  BY <1>8, <1>9 DEF GoodLadder, more

(* What is left is in the same order. *)
LEMMA OrderedSubset ==
  ASSUME NEW sd, NEW pr, NEW on, NEW rest, rest \subseteq on, Ordered(sd, pr, on)
  PROVE  Ordered(sd, pr, rest)
  BY DEF Ordered

(* ladder_remove takes the level away. *)
LEMMA RemoveOK ==
  ASSUME NEW sd, NEW pr, NEW on, NEW n \in Nat, NEW l, NEW x \in on,
         Ordered(sd, pr, on), GoodLadder(sd, pr, l, on, n)
  PROVE  n > 0 /\ GoodLadder(sd, pr, ladder_remove(sd, pr, l, x), on \ {x}, n - 1)
<1> DEFINE pos == l.heap_pos[x]
           last == n - 1
           y == l.heap[last]
           less == on \ {x}
           shrunk == [heap |-> [p \in 0 .. last - 1 |-> l.heap[p]],
                      heap_pos |-> [z \in less |-> l.heap_pos[z]]]
           filled == Place(shrunk, pos, y)
<1>1. /\ l.heap \in [0 .. n - 1 -> on] /\ l.heap_pos \in [on -> 0 .. n - 1]
      /\ \A z \in on : l.heap[l.heap_pos[z]] = z
      /\ \A p \in 0 .. n - 1 : l.heap_pos[l.heap[p]] = p
      /\ \A p \in 1 .. n - 1 : Edge(sd, pr, l.heap, p)
  BY DEF GoodLadder, Shape, Heap
<1>2. Size(l) = n
  BY <1>1, SizeIs
<1>3. pos \in 0 .. last /\ n > 0 /\ l.heap[pos] = x /\ last \in Nat
  BY <1>1
<1>4. ladder_remove(sd, pr, l, x) =
        IF pos = last THEN shrunk
        ELSE ladder_sift_up(sd, pr, ladder_sift_down(sd, pr, filled, pos), pos)
  BY <1>1, <1>2 DEF ladder_remove
<1>5. /\ shrunk.heap = [p \in 0 .. last - 1 |-> l.heap[p]]
      /\ shrunk.heap_pos = [z \in less |-> l.heap_pos[z]]
  OBVIOUS
<1> HIDE DEF shrunk
<1>6. \A p \in 1 .. last - 1 : Parent(p) \in 0 .. last - 1 /\ Parent(p) < p
  BY <1>3, ParentIs
<1>7. CASE pos = last
  <2>1. ASSUME NEW p \in 0 .. last - 1 PROVE l.heap[p] \in less
    BY <1>1, <1>3, <1>7, <2>1
  <2>2. ASSUME NEW z \in less PROVE l.heap_pos[z] \in 0 .. last - 1
    <3>1. l.heap_pos[z] # last /\ l.heap_pos[z] \in 0 .. n - 1
      BY <1>1, <1>3, <1>7, <2>2
    <3> QED  BY <1>3, <3>1
  <2>3. Shape(shrunk, less, last)
    BY <1>1, <1>3, <1>5, <2>1, <2>2 DEF Shape
  <2>4. Heap(sd, pr, shrunk.heap, last)
    BY <1>1, <1>3, <1>5, <1>6 DEF Heap, Edge
  <2> QED  BY <1>3, <1>4, <1>7, <2>3, <2>4 DEF GoodLadder
<1>8. CASE pos # last
  <2>1. /\ pos \in 0 .. last - 1 /\ y \in less /\ l.heap_pos[y] = last
        /\ last \in 0 .. n - 1
    BY <1>1, <1>3, <1>8
  <2>2. /\ filled.heap = [p \in 0 .. last - 1 |-> IF p = pos THEN y ELSE l.heap[p]]
        /\ filled.heap_pos = [z \in less |-> IF z = y THEN pos ELSE l.heap_pos[z]]
    <3>1. DOMAIN shrunk.heap \cup {pos} = 0 .. last - 1 /\ DOMAIN shrunk.heap_pos \cup {y} = less
      BY <1>5, <2>1
    <3>2. /\ filled.heap = [p \in 0 .. last - 1 |-> IF p = pos THEN y ELSE shrunk.heap[p]]
          /\ filled.heap_pos = [z \in less |-> IF z = y THEN pos ELSE shrunk.heap_pos[z]]
      <4> HIDE DEF pos, y, last, less
      <4> QED  BY <3>1 DEF Place
    <3> HIDE DEF pos, y, last, less, filled
    <3> QED  BY <1>5, <3>2
  <2> HIDE DEF filled
  <2>3. \A z \in less : z \in on /\ z # x
    OBVIOUS
  <2>4. \A z \in on : z # x => z \in less
    OBVIOUS
  <2> HIDE DEF less
  <2>5. Shape(filled, less, last)
    <3>1. ASSUME NEW p \in 0 .. last - 1, p # pos
          PROVE  /\ l.heap[p] \in less /\ l.heap[p] # y
                 /\ l.heap_pos[l.heap[p]] = p
      <4>1. p \in 0 .. n - 1 /\ p # last
        BY <1>3, <3>1
      <4>2. l.heap[p] \in on /\ l.heap_pos[l.heap[p]] = p
        BY <1>1, <4>1
      <4>3. l.heap[p] # x /\ l.heap[p] # y
        BY <2>1, <3>1, <4>1, <4>2
      <4> QED  BY <2>4, <4>2, <4>3
    <3>2. ASSUME NEW z \in less, z # y
          PROVE  /\ l.heap_pos[z] \in 0 .. last - 1 /\ l.heap_pos[z] # pos
                 /\ l.heap[l.heap_pos[z]] = z
      <4>1. l.heap_pos[z] \in 0 .. n - 1 /\ l.heap[l.heap_pos[z]] = z /\ z # x
        BY <1>1, <2>3, <3>2
      <4>2. l.heap_pos[z] # pos /\ l.heap_pos[z] # last
        BY <1>3, <3>2, <4>1
      <4> QED  BY <1>3, <4>1, <4>2
    <3> HIDE DEF pos, y, last
    <3>3. filled.heap \in [0 .. last - 1 -> less]
      BY <2>1, <2>2, <3>1
    <3>4. filled.heap_pos \in [less -> 0 .. last - 1]
      BY <2>1, <2>2, <3>2
    <3>5. ASSUME NEW z \in less PROVE filled.heap[filled.heap_pos[z]] = z
      BY <2>1, <2>2, <3>2, <3>5
    <3>6. ASSUME NEW p \in 0 .. last - 1 PROVE filled.heap_pos[filled.heap[p]] = p
      BY <2>1, <2>2, <3>1, <3>6
    <3> QED  BY <3>3, <3>4, <3>5, <3>6 DEF Shape
  <2>6. FallsAt(sd, pr, filled.heap, last, pos, pos)
    <3>1. \A p \in 0 .. last - 1 : p # pos => filled.heap[p] = l.heap[p]
      <4> HIDE DEF pos, y, last
      <4> QED  BY <2>2
    <3>2. \A p \in 1 .. last - 1 : p \in 1 .. n - 1 /\ p \in 0 .. last - 1
      BY <1>3
    <3>3. ASSUME NEW p \in 1 .. last - 1, Parent(p) # pos, p # pos
          PROVE  Edge(sd, pr, filled.heap, p)
      <4>1. filled.heap[p] = l.heap[p] /\ filled.heap[Parent(p)] = l.heap[Parent(p)]
        BY <1>6, <3>1, <3>2, <3>3
      <4> QED  BY <1>1, <3>2, <4>1 DEF Edge
    <3>4. ASSUME pos > 0, NEW c \in 1 .. last - 1, Parent(c) = pos
          PROVE  ladder_before(sd, pr, filled.heap[Parent(pos)], filled.heap[c])
      <4>1. /\ pos \in 1 .. last - 1 /\ c # pos /\ Parent(pos) # pos
            /\ Parent(pos) \in 0 .. last - 1
        BY <1>6, <2>1, <3>4
      <4>2. filled.heap[c] = l.heap[c] /\ filled.heap[Parent(pos)] = l.heap[Parent(pos)]
        BY <3>1, <3>2, <4>1
      <4>3. /\ ladder_before(sd, pr, l.heap[Parent(pos)], l.heap[pos])
            /\ ladder_before(sd, pr, l.heap[pos], l.heap[c])
        <5>1. Edge(sd, pr, l.heap, pos) /\ Edge(sd, pr, l.heap, c)
          BY <1>1, <3>2, <4>1
        <5> HIDE DEF pos
        <5> QED  BY <3>4, <5>1 DEF Edge
      <4>4. l.heap[Parent(pos)] \in on /\ l.heap[pos] \in on /\ l.heap[c] \in on
        <5>1. \A p \in 0 .. last - 1 : p \in 0 .. n - 1
          BY <1>3
        <5> HIDE DEF pos, last
        <5> QED  BY <1>1, <2>1, <3>2, <4>1, <5>1
      <4> HIDE DEF pos
      <4> QED  BY <4>2, <4>3, <4>4 DEF Ordered
    <3> HIDE DEF pos, last
    <3> QED  BY <3>3, <3>4 DEF FallsAt, Bridged
  <2>7. Ordered(sd, pr, less)
    BY <2>3, OrderedSubset
  <2> DEFINE down == ladder_sift_down(sd, pr, filled, pos)
  <2> HIDE DEF pos, last
  <2>8. Shape(down, less, last) /\ RisesAt(sd, pr, down.heap, last, pos)
    BY <1>3, <2>1, <2>5, <2>6, <2>7, SiftDownOK, Zenon
  <2> HIDE DEF down
  <2>9. /\ Shape(ladder_sift_up(sd, pr, down, pos), less, last)
        /\ Heap(sd, pr, ladder_sift_up(sd, pr, down, pos).heap, last)
    BY <1>3, <2>1, <2>7, <2>8, SiftUpOK, Zenon
  <2> QED  BY <1>3, <1>4, <1>8, <2>9 DEF GoodLadder, down, less, last
<1> QED  BY <1>7, <1>8

(* The top of a heap comes before every other level. *)
LEMMA TopFirst ==
  ASSUME NEW sd, NEW pr, NEW on, NEW n \in Nat, NEW l,
         Ordered(sd, pr, on), GoodLadder(sd, pr, l, on, n)
  PROVE  \A z \in on : z = l.heap[0] \/ ladder_before(sd, pr, l.heap[0], z)
<1> DEFINE h == l.heap
           Bad == {p \in 1 .. n - 1 : ~ladder_before(sd, pr, h[0], h[p])}
<1>1. /\ h \in [0 .. n - 1 -> on]
      /\ \A z \in on : l.heap_pos[z] \in 0 .. n - 1 /\ h[l.heap_pos[z]] = z
      /\ \A p \in 1 .. n - 1 : Edge(sd, pr, h, p)
  BY DEF GoodLadder, Shape, Heap
<1>2. Bad = {}
  <2> SUFFICES ASSUME Bad # {} PROVE FALSE
    OBVIOUS
  <2>1. PICK p \in Bad : \A k \in Bad : p <= k
    <3>1. Bad \subseteq Nat
      OBVIOUS
    <3> HIDE DEF Bad
    <3> QED  BY <3>1, Least
  <2> DEFINE q == Parent(p)
  <2>2. p \in 1 .. n - 1 /\ q \in 0 .. n - 1 /\ q < p
    BY ParentIs
  <2>3. ladder_before(sd, pr, h[q], h[p])
    BY <1>1, <2>2 DEF Edge
  <2> HIDE DEF q
  <2>4. q # 0
    BY <2>3
  <2>5. q \notin Bad
    BY <2>1, <2>2
  <2>6. ladder_before(sd, pr, h[0], h[q])
    BY <2>2, <2>4, <2>5
  <2>7. h[0] \in on /\ h[q] \in on /\ h[p] \in on
    BY <1>1, <2>2
  <2>8. ladder_before(sd, pr, h[0], h[p])
    BY <2>3, <2>6, <2>7 DEF Ordered
  <2> QED  BY <2>8
<1>3. ASSUME NEW z \in on PROVE z = h[0] \/ ladder_before(sd, pr, h[0], z)
  <2> DEFINE i == l.heap_pos[z]
  <2>1. i \in 0 .. n - 1 /\ h[i] = z
    BY <1>1
  <2> HIDE DEF i
  <2> QED  BY <1>2, <2>1
<1> QED  BY <1>3

-----------------------------------------------------------------------------
(* Pushes and removals in any order. *)

Count == Cardinality(OnLadder)

LadderInv ==
  /\ side \in {"Buy", "Sell"}
  /\ OnLadder \subseteq Levels /\ IsFiniteSet(OnLadder)
  /\ GoodLadder(side, price, ladder, OnLadder, Count)

(* Prices order the levels: a level stands for its price. *)
LEMMA PricesOrder ==
  ASSUME NEW sd \in {"Buy", "Sell"}, NEW S, S \subseteq Levels
  PROVE  /\ Ordered(sd, price, S)
         /\ \A a, b \in S : ladder_before(sd, price, a, b) <=>
                             IF sd = "Buy" THEN a > b ELSE a < b
<1>1. \A a \in S : a \in Int /\ price[a] = a
  BY LevelsAssumption DEF price
<1> QED  BY <1>1 DEF Ordered, ladder_before

(* An empty ladder is in order. *)
LEMMA LadderInvInit == LadderInit => LadderInv
<1> SUFFICES ASSUME LadderInit PROVE LadderInv
  OBVIOUS
<1>1. ladder = EmptyLadder /\ side \in {"Buy", "Sell"}
  BY DEF LadderInit
<1>2. OnLadder = {} /\ ladder.heap = <<>> /\ ladder.heap_pos = <<>>
  BY <1>1 DEF OnLadder, EmptyLadder
<1>3. Count = 0 /\ IsFiniteSet(OnLadder)
  BY <1>2, FS_EmptySet DEF Count
<1>4. Shape(ladder, {}, 0) /\ Heap(side, price, ladder.heap, 0)
  BY <1>2 DEF Shape, Heap
<1> QED  BY <1>1, <1>2, <1>3, <1>4 DEF LadderInv, GoodLadder

(* Every push and every removal keeps it so, and does what it says. *)
LEMMA LadderStep ==
  ASSUME LadderInv, NEW level \in Levels, Push(level) \/ Remove(level)
  PROVE  LadderInv' /\ (OnLadder' = OnLadder \cup {level} \/ OnLadder' = OnLadder \ {level})
<1>1. /\ side' = side /\ side \in {"Buy", "Sell"} /\ Count \in Nat
      /\ OnLadder \subseteq Levels /\ IsFiniteSet(OnLadder)
      /\ GoodLadder(side, price, ladder, OnLadder, Count)
  BY FS_CardinalityType DEF LadderInv, Push, Remove, Count
<1>2. ASSUME NEW on, NEW n, GoodLadder(side, price, ladder', on, n)
      PROVE  OnLadder' = on
  BY <1>2 DEF GoodLadder, Shape, OnLadder
<1>3. CASE Push(level)
  <2> DEFINE on == OnLadder \cup {level}
  <2>1. level \notin OnLadder /\ ladder' = ladder_push(side, price, ladder, level)
    BY <1>3 DEF Push
  <2>2. on \subseteq Levels /\ Ordered(side, price, on)
    BY <1>1, PricesOrder
  <2>3. GoodLadder(side, price, ladder', on, Count + 1)
    BY <1>1, <2>1, <2>2, PushOK
  <2>4. IsFiniteSet(on) /\ Cardinality(on) = Count + 1
    BY <1>1, <2>1, FS_AddElement DEF Count
  <2>5. OnLadder' = on
    BY <1>2, <2>3
  <2>6. Count' = Count + 1
    BY <2>4, <2>5 DEF Count
  <2> HIDE DEF on
  <2>7. LadderInv'
    BY <1>1, <2>2, <2>3, <2>4, <2>5, <2>6 DEF LadderInv, price
  <2> QED  BY <2>5, <2>7 DEF on
<1>4. CASE Remove(level)
  <2> DEFINE on == OnLadder \ {level}
  <2>1. level \in OnLadder /\ ladder' = ladder_remove(side, price, ladder, level)
    BY <1>4 DEF Remove
  <2>2. on \subseteq Levels /\ Ordered(side, price, OnLadder)
    BY <1>1, PricesOrder
  <2>3. GoodLadder(side, price, ladder', on, Count - 1)
    BY <1>1, <2>1, <2>2, RemoveOK
  <2>4. IsFiniteSet(on) /\ Cardinality(on) = Count - 1
    BY <1>1, <2>1, FS_RemoveElement DEF Count
  <2>5. OnLadder' = on
    BY <1>2, <2>3
  <2>6. Count' = Count - 1
    BY <2>4, <2>5 DEF Count
  <2> HIDE DEF on
  <2>7. LadderInv'
    BY <1>1, <2>2, <2>3, <2>4, <2>5, <2>6 DEF LadderInv, price
  <2> QED  BY <2>5, <2>7 DEF on
<1> QED  BY <1>3, <1>4

(* The heap of one side keeps its shape and its order. *)
THEOREM LadderInvariant == LadderSpec => []LadderInv
<1>1. LadderInv /\ [LadderNext]_ladder_vars => LadderInv'
  <2> SUFFICES ASSUME LadderInv, [LadderNext]_ladder_vars PROVE LadderInv'
    OBVIOUS
  <2>1. CASE LadderNext
    BY <2>1, LadderStep DEF LadderNext
  <2>2. CASE UNCHANGED ladder_vars
    BY <2>2 DEF LadderInv, ladder_vars, OnLadder, Count, price
  <2> QED  BY <2>1, <2>2
<1> QED  BY <1>1, LadderInvInit, PTL DEF LadderSpec

(* Whatever is pushed and removed, from the middle of the heap too, the    *)
(* heap is an array without holes, heap_pos is its inverse and no level is *)
(* above a better one.                                                     *)
THEOREM LadderSound == LadderSpec => []LadderOK
<1>1. LadderInv => LadderOK
  <2> SUFFICES ASSUME LadderInv PROVE LadderOK
    OBVIOUS
  <2>1. Count \in Nat /\ GoodLadder(side, price, ladder, OnLadder, Count)
    BY FS_CardinalityType DEF LadderInv, Count
  <2>2. /\ DOMAIN ladder.heap = 0 .. Count - 1
        /\ \A l \in OnLadder : /\ ladder.heap_pos[l] \in 0 .. Count - 1
                               /\ ladder.heap[ladder.heap_pos[l]] = l
        /\ \A p \in 1 .. Count - 1 : Edge(side, price, ladder.heap, p)
    BY <2>1 DEF GoodLadder, Shape, Heap
  <2>3. \A p \in (0 .. Count - 1) \ {0} : p \in 1 .. Count - 1
    BY <2>1
  <2> QED  BY <2>2, <2>3 DEF LadderOK, Edge, Parent, Count
<1> QED  BY <1>1, LadderInvariant, PTL

(* Position 0 holds the best of the levels pushed and not removed, which   *)
(* is what best_bid and best_ask return.                                   *)
THEOREM TopAlwaysBest == LadderSpec => TopIsBest
<1>1. ASSUME LadderInv, LadderNext
      PROVE  /\ \E l \in Levels : OnLadder' = OnLadder \cup {l} \/ OnLadder' = OnLadder \ {l}
             /\ OnLadder' # {} =>
                  ladder'.heap[0] = IF side = "Buy" THEN Max(OnLadder') ELSE Min(OnLadder')
  <2>1. PICK level \in Levels : Push(level) \/ Remove(level)
    BY <1>1 DEF LadderNext
  <2>2. LadderInv' /\ (OnLadder' = OnLadder \cup {level} \/ OnLadder' = OnLadder \ {level})
    BY <1>1, <2>1, LadderStep
  <2> DEFINE on == OnLadder'
             top == ladder'.heap[0]
             n == Cardinality(on)
  <2>3. /\ side' = side /\ side \in {"Buy", "Sell"} /\ on \subseteq Levels
        /\ IsFiniteSet(on) /\ GoodLadder(side, price, ladder', on, n)
    BY <1>1, <2>1, <2>2 DEF LadderInv, Push, Remove, Count, price
  <2>4. n \in Nat /\ Ordered(side, price, on)
    BY <2>3, FS_CardinalityType, PricesOrder
  <2> HIDE DEF on
  <2>5. ASSUME on # {} PROVE top = IF side = "Buy" THEN Max(on) ELSE Min(on)
    <3>1. top \in on
      <4>1. n # 0
        BY <2>3, <2>5, FS_EmptySet
      <4> HIDE DEF n
      <4> QED  BY <2>3, <2>4, <4>1 DEF GoodLadder, Shape
    <3>2. \A z \in on : z = top \/ ladder_before(side, price, top, z)
      BY <2>3, <2>4, TopFirst
    <3> HIDE DEF top
    <3>3. \A z \in on : z = top \/ IF side = "Buy" THEN top > z ELSE top < z
      BY <2>3, <3>1, <3>2, PricesOrder
    <3>4. \A z \in on : z \in Int
      BY <2>3, LevelsAssumption
    <3>5. CASE side = "Buy"
      <4>1. \A y \in on : top >= y
        BY <3>1, <3>3, <3>4, <3>5
      <4>2. \A x \in on : (\A y \in on : x >= y) => x = top
        BY <3>1, <3>4, <4>1
      <4>3. Max(on) = top
        BY <3>1, <4>1, <4>2 DEF Max
      <4> QED  BY <3>5, <4>3
    <3>6. CASE side = "Sell"
      <4>1. \A y \in on : top <= y
        BY <3>1, <3>3, <3>4, <3>6
      <4>2. \A x \in on : (\A y \in on : x <= y) => x = top
        BY <3>1, <3>4, <4>1
      <4>3. Min(on) = top
        BY <3>1, <4>1, <4>2 DEF Min
      <4> QED  BY <3>6, <4>3
    <3> QED  BY <2>3, <3>5, <3>6
  <2> QED  BY <2>2, <2>5 DEF on
<1> DEFINE A == /\ \E l \in Levels : OnLadder' = OnLadder \cup {l} \/ OnLadder' = OnLadder \ {l}
                /\ OnLadder' # {} =>
                     ladder'.heap[0] = IF side = "Buy" THEN Max(OnLadder') ELSE Min(OnLadder')
<1>2. LadderInv /\ [LadderNext]_ladder_vars => [A]_ladder_vars
  BY <1>1
<1> QED  BY <1>2, LadderInvariant, PTL DEF LadderSpec, TopIsBest

-----------------------------------------------------------------------------
(* The order book: the intrusive lists of the levels in time priority. *)

(* The record of class OrderBook's members. *)
IsBook(b) ==
  b = [orders_ |-> b.orders_, levels_ |-> b.levels_,
       order_lookup_ |-> b.order_lookup_, level_lookup_ |-> b.level_lookup_,
       ladder |-> b.ladder, free_order_ |-> b.free_order_,
       free_level_ |-> b.free_level_, active_orders_ |-> b.active_orders_,
       next_priority_ |-> b.next_priority_, fill_sequence_ |-> b.fill_sequence_]

OptSlot == Slots \cup {npos}

OrderRec == [id : OrderId, price : Price, quantity : Nat \ {0}, priority : Nat,
             level : Slots, side : Side, active : {TRUE}, prev : OptSlot, next : OptSlot]

FreeRec == [active : {FALSE}, next_free : OptSlot]

LevelRec == [price : Price, side : Side, active : {TRUE}, total_quantity : Int,
             order_count : Int, head : OptSlot, tail : OptSlot]

(* The orders act are active and no others; likewise the levels lv. *)
OrdersType(o, act) ==
  /\ o = [i \in Slots |-> o[i]] /\ act \subseteq Slots
  /\ \A i \in act : o[i] \in OrderRec
  /\ \A i \in Slots \ act : o[i] \in FreeRec

LevelsType(v, lv) ==
  /\ v = [l \in Slots |-> v[l]] /\ lv \subseteq Slots
  /\ \A l \in lv : v[l] \in LevelRec
  /\ \A l \in Slots \ lv : v[l] \in FreeRec

-----------------------------------------------------------------------------
(* The orders of a level, and those of them behind and in front of one. *)
OnLevel(o, on, l) == {i \in on : o[i].level = l}
After(o, on, i) ==
  {j \in on : o[j].level = o[i].level /\ o[j].priority > o[i].priority}
Before(o, on, i) ==
  {j \in on : o[j].level = o[i].level /\ o[j].priority < o[i].priority}

(* x is the first, the last of the orders S in time; npos if there is none. *)
FirstOf(o, S, x) ==
  \/ S = {} /\ x = npos
  \/ x \in S /\ \A j \in S : o[x].priority <= o[j].priority
LastOf(o, S, x) ==
  \/ S = {} /\ x = npos
  \/ x \in S /\ \A j \in S : o[x].priority >= o[j].priority

(* The orders on are in lists: their links are those of time priority.     *)
InTime(o, on) ==
  /\ \A i \in on : o[i].priority \in Nat
  /\ \A i, j \in on : o[i].priority = o[j].priority => i = j
Chained(o, on) ==
  \A i \in on : /\ FirstOf(o, After(o, on, i), o[i].next)
                /\ LastOf(o, Before(o, on, i), o[i].prev)
Ends(o, on, l, head, tail) ==
  /\ FirstOf(o, OnLevel(o, on, l), head)
  /\ LastOf(o, OnLevel(o, on, l), tail)

(* The same orders in the same places. *)
SamePlaces(o, p, S) ==
  \A i \in S : p[i].priority = o[i].priority /\ p[i].level = o[i].level

(* The links of p are those of o but that x comes behind last.             *)
LinkedLast(o, p, on, x, last) ==
  /\ p[x].prev = last /\ p[x].next = npos
  /\ \A i \in on : /\ p[i].next = IF i = last THEN x ELSE o[i].next
                   /\ p[i].prev = o[i].prev
Latest(o, on, x) ==
  o[x].priority \in Nat /\ \A j \in on : o[x].priority > o[j].priority

EndsBehind(o, p, on, x, l, last) ==
  /\ \A head, tail : Ends(o, on, l, head, tail) =>
       Ends(p, on \cup {x}, l, IF last = npos THEN x ELSE head, x)
  /\ \A k, head, tail : k # l /\ Ends(o, on, k, head, tail) =>
       Ends(p, on \cup {x}, k, head, tail)

(* An order is appended to the list of its level. *)
LEMMA AppendToList ==
  ASSUME NEW o, NEW p, NEW on, NEW x, x \notin on, NEW last, NEW l, l = o[x].level,
         npos \notin on,
         SamePlaces(o, p, on \cup {x}), InTime(o, on), Chained(o, on), Latest(o, on, x),
         LastOf(o, OnLevel(o, on, l), last), LinkedLast(o, p, on, x, last)
  PROVE  /\ InTime(p, on \cup {x}) /\ Chained(p, on \cup {x})
         /\ EndsBehind(o, p, on, x, l, last)
<1> USE DEF Latest, LinkedLast
<1> DEFINE all == on \cup {x}
<1>1. InTime(p, all)
  BY DEF InTime, SamePlaces
<1>0. /\ p[x].priority \in Nat /\ o[x].priority = p[x].priority
      /\ \A j \in on : /\ p[j].priority \in Nat /\ p[x].priority > p[j].priority
                       /\ o[j].priority = p[j].priority
  BY DEF InTime, SamePlaces
<1>2. /\ After(p, all, x) = {} /\ Before(p, all, x) = OnLevel(o, on, l)
  BY DEF After, Before, OnLevel, SamePlaces, InTime
<1>3. ASSUME NEW i \in on
      PROVE  /\ Before(p, all, i) = Before(o, on, i)
             /\ After(p, all, i) = IF o[i].level = l THEN After(o, on, i) \cup {x}
                                   ELSE After(o, on, i)
  BY DEF After, Before, SamePlaces, InTime
<1>4. ASSUME NEW i \in on PROVE i = last <=> o[i].level = l /\ After(o, on, i) = {}
  BY DEF LastOf, OnLevel, After, InTime
<1>5. ASSUME NEW i \in on
      PROVE  FirstOf(p, After(p, all, i), p[i].next) /\ LastOf(p, Before(p, all, i), p[i].prev)
  <2>1. LastOf(p, Before(p, all, i), p[i].prev)
    <3>1. LastOf(o, Before(o, on, i), p[i].prev) /\ Before(o, on, i) \subseteq on
      BY DEF Chained, Before
    <3> QED  BY <1>3, <3>1 DEF LastOf, SamePlaces
  <2>2. FirstOf(o, After(o, on, i), o[i].next) /\ After(o, on, i) \subseteq on
    BY DEF Chained, After
  <2>3. CASE i = last
    <3>1. After(p, all, i) = {x} /\ p[i].next = x
      BY <1>3, <1>4, <2>3
    <3>2. FirstOf(p, {x}, x)
      BY <1>0 DEF FirstOf
    <3> QED  BY <2>1, <3>1, <3>2
  <2>4. CASE i # last
    <3>1. p[i].next = o[i].next
      BY <2>4
    <3>2. CASE o[i].level = l
      <4>1. After(o, on, i) # {} /\ After(p, all, i) = After(o, on, i) \cup {x}
        BY <1>3, <1>4, <2>4, <3>2
      <4>2. FirstOf(p, After(o, on, i) \cup {x}, o[i].next)
        BY <1>0, <2>2, <4>1 DEF FirstOf
      <4> QED  BY <2>1, <3>1, <4>1, <4>2
    <3>3. CASE o[i].level # l
      <4>1. After(p, all, i) = After(o, on, i)
        BY <1>3, <3>3
      <4> QED  BY <2>1, <2>2, <3>1, <4>1 DEF FirstOf, SamePlaces
    <3> QED  BY <3>2, <3>3
  <2> QED  BY <2>3, <2>4
<1>6. FirstOf(p, After(p, all, x), p[x].next) /\ LastOf(p, Before(p, all, x), p[x].prev)
  BY <1>2 DEF FirstOf, LastOf, SamePlaces, OnLevel
<1>7. Chained(p, all)
  BY <1>5, <1>6 DEF Chained
<1>8. OnLevel(p, all, l) = OnLevel(o, on, l) \cup {x}
  BY DEF OnLevel, SamePlaces
<1>9. ASSUME NEW head, NEW tail, Ends(o, on, l, head, tail)
      PROVE  Ends(p, all, l, IF last = npos THEN x ELSE head, x)
  <2>1. /\ OnLevel(o, on, l) \subseteq on /\ FirstOf(o, OnLevel(o, on, l), head)
        /\ (last = npos <=> OnLevel(o, on, l) = {})
    BY <1>9 DEF Ends, OnLevel, LastOf
  <2> DEFINE A == OnLevel(o, on, l)
             first == IF last = npos THEN x ELSE head
  <2> HIDE DEF A
  <2>2. A \subseteq on /\ FirstOf(o, A, head) /\ (last = npos <=> A = {})
    BY <2>1 DEF A
  <2>3. LastOf(p, A \cup {x}, x)
    BY <1>0, <2>2 DEF LastOf
  <2>4. FirstOf(p, A \cup {x}, first)
    BY <1>0, <2>2 DEF FirstOf
  <2> QED  BY <1>8, <2>3, <2>4 DEF Ends, A
<1>10. ASSUME NEW k, NEW head, NEW tail, k # l, Ends(o, on, k, head, tail)
       PROVE  Ends(p, all, k, head, tail)
  <2>1. OnLevel(p, all, k) = OnLevel(o, on, k) /\ OnLevel(o, on, k) \subseteq on
    BY <1>10 DEF OnLevel, SamePlaces
  <2> QED  BY <1>10, <2>1 DEF Ends, FirstOf, LastOf, SamePlaces
<1> QED  BY <1>1, <1>7, <1>9, <1>10 DEF EndsBehind

(* Next and previous are each other's inverse. *)
LEMMA LinksMatch ==
  ASSUME NEW o, NEW on, npos \notin on, InTime(o, on), Chained(o, on), NEW x \in on
  PROVE  /\ \A i \in on : o[i].next = x <=> o[x].prev = i
         /\ \A i \in on : o[i].prev = x <=> o[x].next = i
         /\ o[x].next \in on => o[x].next # o[x].prev
<1>1. ASSUME NEW i \in on, NEW j \in on, o[i].next = j PROVE o[j].prev = i
  <2>1. j \in After(o, on, i) /\ \A k \in After(o, on, i) : o[j].priority <= o[k].priority
    BY <1>1 DEF Chained, FirstOf
  <2>2. i \in Before(o, on, j) /\ \A k \in Before(o, on, j) : o[k].priority <= o[i].priority
    BY <2>1 DEF After, Before, InTime
  <2>3. /\ o[j].prev \in Before(o, on, j)
        /\ \A k \in Before(o, on, j) : o[o[j].prev].priority >= o[k].priority
    BY <2>2 DEF Chained, LastOf
  <2>4. o[j].prev \in on /\ o[o[j].prev].priority = o[i].priority
    BY <2>2, <2>3 DEF Before, InTime
  <2> QED  BY <2>4 DEF InTime
<1>2. ASSUME NEW i \in on, NEW j \in on, o[j].prev = i PROVE o[i].next = j
  <2>1. i \in Before(o, on, j) /\ \A k \in Before(o, on, j) : o[i].priority >= o[k].priority
    BY <1>2 DEF Chained, LastOf
  <2>2. j \in After(o, on, i) /\ \A k \in After(o, on, i) : o[k].priority >= o[j].priority
    BY <2>1 DEF After, Before, InTime
  <2>3. /\ o[i].next \in After(o, on, i)
        /\ \A k \in After(o, on, i) : o[o[i].next].priority <= o[k].priority
    BY <2>2 DEF Chained, FirstOf
  <2>4. o[i].next \in on /\ o[o[i].next].priority = o[j].priority
    BY <2>2, <2>3 DEF After, InTime
  <2> QED  BY <2>4 DEF InTime
<1>3. ASSUME o[x].next \in on, o[x].next = o[x].prev PROVE FALSE
  <2>1. o[x].next \in After(o, on, x) /\ o[x].prev \in Before(o, on, x)
    BY <1>3 DEF Chained, FirstOf, LastOf
  <2> QED  BY <1>3, <2>1 DEF After, Before, InTime
<1> QED  BY <1>1, <1>2, <1>3

(* An order is taken out of the list of its level. *)
LEMMA RemoveFromList ==
  ASSUME NEW o, NEW p, NEW on, NEW x \in on, NEW l, l = o[x].level, npos \notin on,
         SamePlaces(o, p, on), InTime(o, on), Chained(o, on),
         \A i \in on \ {x} : /\ p[i].next = IF i = o[x].prev THEN o[x].next ELSE o[i].next
                             /\ p[i].prev = IF i = o[x].next THEN o[x].prev ELSE o[i].prev
  PROVE  /\ InTime(p, on \ {x}) /\ Chained(p, on \ {x})
         /\ \A head, tail : Ends(o, on, l, head, tail) =>
              Ends(p, on \ {x}, l, IF o[x].prev = npos THEN o[x].next ELSE head,
                                   IF o[x].next = npos THEN o[x].prev ELSE tail)
         /\ \A k, head, tail : k # l /\ Ends(o, on, k, head, tail) =>
              Ends(p, on \ {x}, k, head, tail)
<1> DEFINE rest == on \ {x}
           next == o[x].next
           prev == o[x].prev
<1>0. \A i \in on : p[i].priority = o[i].priority /\ p[i].level = o[i].level /\ o[i].priority \in Nat
  BY DEF SamePlaces, InTime
<1>00. \A i, j \in on : o[i].priority = o[j].priority => i = j
  BY DEF InTime
<1>1. InTime(p, rest)
  BY <1>0, <1>00 DEF InTime
<1>2. /\ FirstOf(o, After(o, on, x), next) /\ LastOf(o, Before(o, on, x), prev)
  BY DEF Chained
<1>3. /\ \A i \in on : o[i].next = x <=> prev = i
      /\ \A i \in on : o[i].prev = x <=> next = i
  BY LinksMatch
<1>4. ASSUME NEW i \in rest PROVE FirstOf(p, After(p, rest, i), p[i].next)
  <2>1. FirstOf(o, After(o, on, i), o[i].next) /\ After(o, on, i) \subseteq on
    BY DEF Chained, After
  <2>2. After(p, rest, i) = After(o, on, i) \ {x}
    BY <1>0 DEF After
  <2>3. CASE i # prev
    <3>1. p[i].next = o[i].next /\ o[i].next # x
      BY <1>3, <2>3
    <3>2. FirstOf(p, After(o, on, i) \ {x}, o[i].next)
      BY <1>0, <2>1, <3>1 DEF FirstOf
    <3> QED  BY <2>2, <3>1, <3>2
  <2>4. CASE i = prev
    <3>1. p[i].next = next /\ o[i].next = x
      BY <1>3, <2>4
    <3>2. x \in After(o, on, i) /\ \A j \in After(o, on, i) : o[x].priority <= o[j].priority
      BY <2>1, <3>1 DEF FirstOf
    <3>3. After(o, on, i) \ {x} = After(o, on, x)
      BY <1>0, <1>00, <3>2 DEF After
    <3>4. After(o, on, x) \subseteq on
      BY DEF After
    <3>5. FirstOf(p, After(o, on, x), next)
      BY <1>0, <1>2, <3>4 DEF FirstOf
    <3> QED  BY <2>2, <3>1, <3>3, <3>5
  <2> QED  BY <2>3, <2>4
<1>5. ASSUME NEW i \in rest PROVE LastOf(p, Before(p, rest, i), p[i].prev)
  <2>1. LastOf(o, Before(o, on, i), o[i].prev) /\ Before(o, on, i) \subseteq on
    BY DEF Chained, Before
  <2>2. Before(p, rest, i) = Before(o, on, i) \ {x}
    BY <1>0 DEF Before
  <2>3. CASE i # next
    <3>1. p[i].prev = o[i].prev /\ o[i].prev # x
      BY <1>3, <2>3
    <3>2. LastOf(p, Before(o, on, i) \ {x}, o[i].prev)
      BY <1>0, <2>1, <3>1 DEF LastOf
    <3> QED  BY <2>2, <3>1, <3>2
  <2>4. CASE i = next
    <3>1. p[i].prev = prev /\ o[i].prev = x
      BY <1>3, <2>4
    <3>2. x \in Before(o, on, i) /\ \A j \in Before(o, on, i) : o[x].priority >= o[j].priority
      BY <2>1, <3>1 DEF LastOf
    <3>3. Before(o, on, i) \ {x} = Before(o, on, x)
      BY <1>0, <1>00, <3>2 DEF Before
    <3>4. Before(o, on, x) \subseteq on
      BY DEF Before
    <3>5. LastOf(p, Before(o, on, x), prev)
      BY <1>0, <1>2, <3>4 DEF LastOf
    <3> QED  BY <2>2, <3>1, <3>3, <3>5
  <2> QED  BY <2>3, <2>4
<1>6. Chained(p, rest)
  BY <1>4, <1>5 DEF Chained
<1>7. ASSUME NEW head, NEW tail, Ends(o, on, l, head, tail)
      PROVE  Ends(p, rest, l, IF prev = npos THEN next ELSE head, IF next = npos THEN prev ELSE tail)
  <2> DEFINE A == OnLevel(o, on, l)
             first == IF prev = npos THEN next ELSE head
             final == IF next = npos THEN prev ELSE tail
  <2>1. OnLevel(p, rest, l) = A \ {x}
    BY <1>0 DEF OnLevel
  <2>2. A \subseteq on /\ x \in A /\ FirstOf(o, A, head) /\ LastOf(o, A, tail)
    BY <1>7 DEF OnLevel, Ends
  <2>3. /\ After(o, on, x) = {j \in A : o[j].priority > o[x].priority}
        /\ Before(o, on, x) = {j \in A : o[j].priority < o[x].priority}
    BY DEF After, Before, OnLevel
  <2> HIDE DEF A
  <2>4. FirstOf(p, A \ {x}, first)
    <3>1. CASE prev = npos
      <4>1. Before(o, on, x) = {}
        BY <1>2, <2>2, <2>3, <3>1 DEF LastOf
      <4>2. A \ {x} = After(o, on, x)
        BY <1>0, <1>00, <2>2, <2>3, <4>1
      <4>3. FirstOf(p, After(o, on, x), next)
        BY <1>0, <1>2, <2>2, <4>2 DEF FirstOf
      <4> QED  BY <3>1, <4>2, <4>3
    <3>2. CASE prev # npos
      <4>1. prev \in A /\ o[prev].priority < o[x].priority
        BY <1>2, <2>3, <3>2 DEF LastOf
      <4>2. head \in A /\ \A j \in A : o[head].priority <= o[j].priority
        BY <2>2 DEF FirstOf
      <4>3. head # x
        BY <1>0, <2>2, <4>1, <4>2
      <4> QED  BY <1>0, <2>2, <3>2, <4>2, <4>3 DEF FirstOf
    <3> QED  BY <3>1, <3>2
  <2>5. LastOf(p, A \ {x}, final)
    <3>1. CASE next = npos
      <4>1. After(o, on, x) = {}
        BY <1>2, <2>2, <2>3, <3>1 DEF FirstOf
      <4>2. A \ {x} = Before(o, on, x)
        BY <1>0, <1>00, <2>2, <2>3, <4>1
      <4>3. LastOf(p, Before(o, on, x), prev)
        BY <1>0, <1>2, <2>2, <4>2 DEF LastOf
      <4> QED  BY <3>1, <4>2, <4>3
    <3>2. CASE next # npos
      <4>1. next \in A /\ o[next].priority > o[x].priority
        BY <1>2, <2>3, <3>2 DEF FirstOf
      <4>2. tail \in A /\ \A j \in A : o[tail].priority >= o[j].priority
        BY <2>2 DEF LastOf
      <4>3. tail # x
        BY <1>0, <2>2, <4>1, <4>2
      <4> QED  BY <1>0, <2>2, <3>2, <4>2, <4>3 DEF LastOf
    <3> QED  BY <3>1, <3>2
  <2> QED  BY <2>1, <2>4, <2>5 DEF Ends
<1>8. ASSUME NEW k, NEW head, NEW tail, k # l, Ends(o, on, k, head, tail)
      PROVE  Ends(p, rest, k, head, tail)
  <2>1. OnLevel(p, rest, k) = OnLevel(o, on, k) /\ OnLevel(o, on, k) \subseteq on
    BY <1>0, <1>8 DEF OnLevel
  <2> QED  BY <1>0, <1>8, <2>1 DEF Ends, FirstOf, LastOf
<1> QED  BY <1>1, <1>6, <1>7, <1>8

(* The count and the total of a level. *)
Qty(o) == [i \in Slots |-> o[i].quantity]

Tally(o, on, l, count, total) ==
  /\ count = Cardinality(OnLevel(o, on, l))
  /\ total = SumFunctionOnSet(Qty(o), OnLevel(o, on, l))

(* The same orders with the same quantities. *)
SameOrders(o, p, S) ==
  \A i \in S : p[i].quantity = o[i].quantity /\ p[i].level = o[i].level

(* The slots of a pool are finitely many, and npos is none of them. *)
LEMMA SlotsFinite ==
  /\ IsFiniteSet(Slots) /\ Cardinality(Slots) = Capacity /\ Capacity \in Nat \ {0}
  /\ npos \notin Slots
  /\ \A S \in SUBSET Slots : IsFiniteSet(S) /\ Cardinality(S) \in Nat
<1>1. Capacity \in Nat \ {0}
  BY OrderBookAssumption
<1>2. IsFiniteSet(Slots) /\ Cardinality(Slots) = Capacity
  BY <1>1, FS_Interval DEF Slots
<1>3. \A S \in SUBSET Slots : IsFiniteSet(S) /\ Cardinality(S) \in Nat
  BY <1>2, FS_Subset, FS_CardinalityType
<1> QED  BY <1>1, <1>2, <1>3 DEF npos, Slots

(* Count and total of a level whose orders stay what they are. *)
LEMMA TallySame ==
  ASSUME NEW o, NEW p, NEW on, NEW all, on \subseteq Slots, all \subseteq Slots, NEW k,
         NEW count, NEW total, Tally(o, on, k, count, total),
         SameOrders(o, p, OnLevel(o, on, k)), OnLevel(p, all, k) = OnLevel(o, on, k)
  PROVE  Tally(p, all, k, count, total)
<1> DEFINE A == OnLevel(o, on, k)
<1>1. A \subseteq Slots
  BY DEF OnLevel
<1>2. IsFiniteSet(A) /\ \A i \in A : Qty(o)[i] = Qty(p)[i]
  BY <1>1, SlotsFinite DEF Qty, SameOrders
<1> HIDE DEF A
<1>3. SumFunctionOnSet(Qty(o), A) = SumFunctionOnSet(Qty(p), A)
  BY <1>2, SumCong
<1> QED  BY <1>3 DEF Tally, A

(* Count and total of the levels when an order joins one of them. *)
LEMMA TallyAdd ==
  ASSUME NEW o, NEW p, NEW on, on \subseteq Slots, NEW x \in Slots \ on,
         SameOrders(o, p, on \cup {x}),
         \A i \in on \cup {x} : o[i].quantity \in Nat,
         NEW l, NEW count, NEW total, Tally(o, on, l, count, total)
  PROVE  /\ l = o[x].level => Tally(p, on \cup {x}, l, count + 1, total + o[x].quantity)
         /\ l # o[x].level => Tally(p, on \cup {x}, l, count, total)
<1> DEFINE all == on \cup {x}
           A == OnLevel(o, on, l)
<1>1. A \subseteq Slots /\ x \notin A /\ A \subseteq on
  BY DEF OnLevel
<1>2. CASE l # o[x].level
  <2>1. OnLevel(p, all, l) = A
    BY <1>2 DEF OnLevel, SameOrders
  <2>2. SameOrders(o, p, A)
    BY <1>1 DEF SameOrders
  <2> QED  BY <1>2, <2>1, <2>2, TallySame
<1>3. CASE l = o[x].level
  <2>1. OnLevel(p, all, l) = A \cup {x}
    BY <1>3 DEF OnLevel, SameOrders
  <2> HIDE DEF A
  <2>2. IsFiniteSet(A) /\ IsFiniteSet(A \cup {x})
    BY <1>1, SlotsFinite, FS_AddElement
  <2>3. Cardinality(A \cup {x}) = Cardinality(A) + 1
    BY <1>1, <2>2, FS_AddElement
  <2>4. \A i \in A \cup {x} : Qty(o)[i] = Qty(p)[i] /\ Qty(p)[i] \in Int
    BY <1>1 DEF Qty, SameOrders
  <2>5. SumFunctionOnSet(Qty(o), A) = SumFunctionOnSet(Qty(p), A)
    BY <2>2, <2>4, SumCong
  <2>6. SumFunctionOnSet(Qty(p), A \cup {x}) = Qty(p)[x] + SumFunctionOnSet(Qty(p), A)
    BY <1>1, <2>2, <2>4, SumAdd
  <2>7. SumFunctionOnSet(Qty(p), A) \in Int /\ Qty(p)[x] = o[x].quantity /\ o[x].quantity \in Int
    BY <2>2, <2>4, SumInt DEF Qty
  <2>8. count = Cardinality(A) /\ total = SumFunctionOnSet(Qty(o), A)
    BY DEF Tally, A
  <2>9. total + o[x].quantity = SumFunctionOnSet(Qty(p), A \cup {x})
    BY <2>5, <2>6, <2>7, <2>8
  <2>10. Tally(p, all, l, count + 1, total + o[x].quantity)
    BY <2>1, <2>3, <2>8, <2>9 DEF Tally
  <2> QED  BY <1>3, <2>10
<1> QED  BY <1>2, <1>3

(* Count and total of the levels when an order leaves one of them. *)
LEMMA TallyRemove ==
  ASSUME NEW o, NEW p, NEW on, on \subseteq Slots, NEW x \in on,
         SameOrders(o, p, on \ {x}),
         \A i \in on : o[i].quantity \in Nat,
         NEW l, NEW count, NEW total, Tally(o, on, l, count, total)
  PROVE  /\ l = o[x].level => Tally(p, on \ {x}, l, count - 1, total - o[x].quantity)
         /\ l # o[x].level => Tally(p, on \ {x}, l, count, total)
<1> DEFINE rest == on \ {x}
           A == OnLevel(o, on, l)
<1>1. A \subseteq Slots /\ A \subseteq on
  BY DEF OnLevel
<1>2. CASE l # o[x].level
  <2>1. OnLevel(p, rest, l) = A /\ x \notin A
    BY <1>2 DEF OnLevel, SameOrders
  <2>2. SameOrders(o, p, A)
    BY <1>1, <2>1 DEF SameOrders
  <2>3. rest \subseteq Slots
    OBVIOUS
  <2> QED  BY <1>2, <2>1, <2>2, <2>3, TallySame
<1>3. CASE l = o[x].level
  <2>1. OnLevel(p, rest, l) = A \ {x} /\ x \in A
    BY <1>3 DEF OnLevel, SameOrders
  <2> HIDE DEF A
  <2>2. IsFiniteSet(A) /\ IsFiniteSet(A \ {x})
    BY <1>1, SlotsFinite, FS_RemoveElement
  <2>3. Cardinality(A \ {x}) = Cardinality(A) - 1
    BY <2>1, <2>2, FS_RemoveElement
  <2>4. /\ \A i \in A : Qty(o)[i] \in Int
        /\ \A i \in A \ {x} : Qty(o)[i] = Qty(p)[i]
    BY <1>1 DEF Qty, SameOrders
  <2>5. SumFunctionOnSet(Qty(o), A \ {x}) = SumFunctionOnSet(Qty(p), A \ {x})
    BY <2>2, <2>4, SumCong
  <2>6. SumFunctionOnSet(Qty(o), A) = Qty(o)[x] + SumFunctionOnSet(Qty(o), A \ {x})
    BY <2>1, <2>2, <2>4, SumSplit
  <2>7. SumFunctionOnSet(Qty(o), A \ {x}) \in Int /\ Qty(o)[x] = o[x].quantity /\ o[x].quantity \in Int
    BY <1>1, <2>1, <2>2, <2>4, SumInt DEF Qty
  <2>8. count = Cardinality(A) /\ total = SumFunctionOnSet(Qty(o), A)
    BY DEF Tally, A
  <2>9. total - o[x].quantity = SumFunctionOnSet(Qty(p), A \ {x})
    BY <2>5, <2>6, <2>7, <2>8
  <2>10. Tally(p, rest, l, count - 1, total - o[x].quantity)
    BY <2>1, <2>3, <2>8, <2>9 DEF Tally
  <2> QED  BY <1>3, <2>10
<1> QED  BY <1>2, <1>3

(* Count and total of the levels when the quantity of an order changes. *)
LEMMA TallyChange ==
  ASSUME NEW o, NEW p, NEW on, on \subseteq Slots, NEW x \in on,
         SameOrders(o, p, on \ {x}), p[x].level = o[x].level,
         \A i \in on : o[i].quantity \in Nat /\ p[i].quantity \in Nat,
         NEW l, NEW count, NEW total, Tally(o, on, l, count, total)
  PROVE  /\ l = o[x].level => Tally(p, on, l, count, total - o[x].quantity + p[x].quantity)
         /\ l # o[x].level => Tally(p, on, l, count, total)
<1> DEFINE A == OnLevel(o, on, l)
<1>1. A \subseteq Slots /\ A \subseteq on /\ OnLevel(p, on, l) = A
  BY DEF OnLevel, SameOrders
<1>2. CASE l # o[x].level
  <2>1. SameOrders(o, p, A)
    BY <1>2 DEF SameOrders, OnLevel
  <2> QED  BY <1>1, <1>2, <2>1, TallySame
<1>3. CASE l = o[x].level
  <2>1. x \in A
    BY <1>3 DEF OnLevel
  <2> HIDE DEF A
  <2>2. IsFiniteSet(A)
    BY <1>1, SlotsFinite
  <2>3. /\ \A i \in A : Qty(o)[i] \in Int /\ Qty(p)[i] \in Int
        /\ \A i \in A \ {x} : Qty(o)[i] = Qty(p)[i]
    BY <1>1 DEF Qty, SameOrders
  <2>4. SumFunctionOnSet(Qty(p), A) = SumFunctionOnSet(Qty(o), A) - Qty(o)[x] + Qty(p)[x]
    BY <2>1, <2>2, <2>3, SumChange
  <2>5. Qty(o)[x] = o[x].quantity /\ Qty(p)[x] = p[x].quantity
    BY DEF Qty
  <2>6. Tally(p, on, l, count, total - o[x].quantity + p[x].quantity)
    BY <1>1, <2>4, <2>5 DEF Tally, A
  <2> QED  BY <1>3, <2>6
<1> QED  BY <1>2, <1>3

-----------------------------------------------------------------------------
(* The free lists of the two pools. *)

(* The free list of a pool, each slot once. *)
Runs(pool, first, S, n, list) ==
  /\ list \in [1 .. n -> S]
  /\ \A i, j \in 1 .. n : list[i] = list[j] => i = j
  /\ \A i \in 0 .. n :
       (IF i = 0 THEN first ELSE pool[list[i]].next_free) =
         IF i = n THEN npos ELSE list[i + 1]

Chain(pool, first, S) == \E list : Runs(pool, first, S, Cardinality(S), list)

(* A free list is at its end exactly when no slot is free. *)
LEMMA ChainFirst ==
  ASSUME NEW pool, NEW first, NEW S \in SUBSET Slots, Chain(pool, first, S)
  PROVE  /\ first = npos <=> S = {}
         /\ first # npos => first \in S /\ pool[first].next_free \in OptSlot
<1> DEFINE n == Cardinality(S)
<1>1. n \in Nat /\ IsFiniteSet(S) /\ npos \notin S
  BY SlotsFinite
<1>2. n = 0 <=> S = {}
  BY <1>1, FS_EmptySet
<1>3. PICK list : Runs(pool, first, S, n, list)
  BY DEF Chain
<1> HIDE DEF n
<1>4. CASE n = 0
  BY <1>1, <1>2, <1>3, <1>4 DEF Runs
<1>5. CASE n # 0
  <2>1. first = list[1] /\ list[1] \in S
    BY <1>1, <1>3, <1>5 DEF Runs
  <2>2. pool[list[1]].next_free = IF 1 = n THEN npos ELSE list[1 + 1]
    BY <1>1, <1>3, <1>5 DEF Runs
  <2>3. 1 # n => list[1 + 1] \in S
    BY <1>1, <1>3, <1>5 DEF Runs
  <2> QED  BY <1>1, <1>2, <1>5, <2>1, <2>2, <2>3 DEF OptSlot
<1> QED  BY <1>4, <1>5

(* The first free slot is taken: the list runs through the others. *)
LEMMA ChainPop ==
  ASSUME NEW pool, NEW first, NEW S \in SUBSET Slots, Chain(pool, first, S), first # npos,
         NEW after, \A i \in S \ {first} : after[i].next_free = pool[i].next_free
  PROVE  Chain(after, pool[first].next_free, S \ {first})
<1> DEFINE n == Cardinality(S)
           R == S \ {first}
           second == pool[first].next_free
<1>1. n \in Nat /\ IsFiniteSet(S) /\ first \in S
  BY SlotsFinite, ChainFirst
<1>2. Cardinality(R) = n - 1
  BY <1>1, FS_RemoveElement
<1>3. PICK list : Runs(pool, first, S, n, list)
  BY DEF Chain
<1>4. n # 0
  BY <1>1, FS_EmptySet
<1> HIDE DEF n
<1>5. first = list[1]
  BY <1>1, <1>3, <1>4 DEF Runs
<1> DEFINE m == n - 1
           rest == [i \in 1 .. m |-> list[i + 1]]
<1>6. m \in Nat /\ n = m + 1
  BY <1>1, <1>4
<1>7. \A i \in 1 .. m : rest[i] = list[i + 1] /\ i + 1 \in 1 .. n /\ i + 1 # 1
  BY <1>6
<1>8. \A i \in 1 .. m : list[i + 1] \in S /\ list[i + 1] # first
  BY <1>3, <1>4, <1>5, <1>6, <1>7 DEF Runs
<1>9. rest \in [1 .. m -> R]
  BY <1>8
<1> HIDE DEF rest, m
<1>10. \A i, j \in 1 .. m : rest[i] = rest[j] => i = j
  <2> SUFFICES ASSUME NEW i \in 1 .. m, NEW j \in 1 .. m, rest[i] = rest[j] PROVE i = j
    OBVIOUS
  <2>1. list[i + 1] = list[j + 1] /\ i + 1 \in 1 .. n /\ j + 1 \in 1 .. n
    BY <1>7
  <2>2. i + 1 = j + 1
    BY <1>3, <2>1 DEF Runs
  <2> QED  BY <2>2
<1>11. \A i \in 0 .. m : (IF i = 0 THEN second ELSE after[rest[i]].next_free) =
                           IF i = m THEN npos ELSE rest[i + 1]
  <2> SUFFICES ASSUME NEW i \in 0 .. m
               PROVE  (IF i = 0 THEN second ELSE after[rest[i]].next_free) =
                        IF i = m THEN npos ELSE rest[i + 1]
    OBVIOUS
  <2>1. i + 1 \in 0 .. n /\ i + 1 # 0 /\ (i + 1 = n <=> i = m)
    BY <1>6
  <2>2. pool[list[i + 1]].next_free = IF i + 1 = n THEN npos ELSE list[(i + 1) + 1]
    BY <1>3, <2>1 DEF Runs
  <2>3. i # m => rest[i + 1] = list[(i + 1) + 1]
    BY <1>6, <1>7
  <2>4. CASE i = 0
    <3>1. list[i + 1] = first
      BY <1>5, <2>4
    <3> QED  BY <2>1, <2>2, <2>3, <2>4, <3>1
  <2>5. CASE i # 0
    <3>1. i \in 1 .. m
      BY <1>6, <2>5
    <3>2. rest[i] = list[i + 1] /\ rest[i] \in S \ {first}
      BY <1>7, <1>8, <3>1
    <3>3. after[rest[i]].next_free = pool[rest[i]].next_free
      BY <3>2
    <3> QED  BY <2>1, <2>2, <2>3, <2>5, <3>2, <3>3
  <2> QED  BY <2>4, <2>5
<1>12. Runs(after, second, R, m, rest)
  BY <1>9, <1>10, <1>11 DEF Runs
<1> QED  BY <1>2, <1>12 DEF Chain, m

(* A slot is freed: it is the first of the list. *)
LEMMA ChainPush ==
  ASSUME NEW pool, NEW first, NEW S \in SUBSET Slots, Chain(pool, first, S),
         NEW x \in Slots \ S, NEW after, after[x].next_free = first,
         \A i \in S : after[i].next_free = pool[i].next_free
  PROVE  Chain(after, x, S \cup {x})
<1> DEFINE n == Cardinality(S)
           R == S \cup {x}
<1>1. n \in Nat /\ IsFiniteSet(S) /\ x \notin S
  BY SlotsFinite
<1>2. Cardinality(R) = n + 1
  BY <1>1, FS_AddElement
<1>3. PICK list : Runs(pool, first, S, n, list)
  BY DEF Chain
<1> HIDE DEF n
<1> DEFINE m == n + 1
           more == [i \in 1 .. m |-> IF i = 1 THEN x ELSE list[i - 1]]
<1>4. m \in Nat /\ n = m - 1
  BY <1>1
<1>5. \A i \in 1 .. m : more[i] = IF i = 1 THEN x ELSE list[i - 1]
  OBVIOUS
<1>6. \A i \in 1 .. m : i # 1 => i - 1 \in 1 .. n /\ list[i - 1] \in S
  BY <1>1, <1>3 DEF Runs
<1>7. more \in [1 .. m -> R]
  BY <1>6
<1>8. 1 \in 1 .. m /\ more[1] = x
  BY <1>1
<1> HIDE DEF more, m
<1>9. \A i, j \in 1 .. m : more[i] = more[j] => i = j
  <2> SUFFICES ASSUME NEW i \in 1 .. m, NEW j \in 1 .. m, more[i] = more[j] PROVE i = j
    OBVIOUS
  <2>1. CASE i = 1 \/ j = 1
    BY <1>1, <1>5, <1>6, <2>1
  <2>2. CASE i # 1 /\ j # 1
    <3>1. list[i - 1] = list[j - 1] /\ i - 1 \in 1 .. n /\ j - 1 \in 1 .. n
      BY <1>5, <1>6, <2>2
    <3>2. i - 1 = j - 1
      BY <1>3, <3>1 DEF Runs
    <3> QED  BY <3>2
  <2> QED  BY <2>1, <2>2
<1>10. \A i \in 0 .. m : (IF i = 0 THEN x ELSE after[more[i]].next_free) =
                           IF i = m THEN npos ELSE more[i + 1]
  <2> SUFFICES ASSUME NEW i \in 0 .. m
               PROVE  (IF i = 0 THEN x ELSE after[more[i]].next_free) =
                        IF i = m THEN npos ELSE more[i + 1]
    OBVIOUS
  <2>1. CASE i = 0
    BY <1>1, <1>4, <1>8, <2>1
  <2>2. CASE i # 0
    <3> DEFINE k == i - 1
    <3>1. k \in 0 .. n /\ i = k + 1 /\ i \in 1 .. m /\ (k = n <=> i = m)
      BY <1>4, <2>2
    <3>2. (IF k = 0 THEN first ELSE pool[list[k]].next_free) = IF k = n THEN npos ELSE list[k + 1]
      BY <1>3, <3>1 DEF Runs
    <3>3. i # m => more[i + 1] = list[k + 1]
      <4> SUFFICES ASSUME i # m PROVE more[i + 1] = list[k + 1]
        OBVIOUS
      <4>1. i + 1 \in 1 .. m /\ i + 1 # 1 /\ (i + 1) - 1 = k + 1
        BY <1>4, <3>1
      <4> QED  BY <1>5, <4>1
    <3>4. after[more[i]].next_free = IF k = 0 THEN first ELSE pool[list[k]].next_free
      <4>1. CASE k = 0
        BY <1>8, <3>1, <4>1
      <4>2. CASE k # 0
        <5>1. more[i] = list[k] /\ list[k] \in S
          BY <1>5, <1>6, <3>1, <4>2
        <5> QED  BY <4>2, <5>1
      <4> QED  BY <4>1, <4>2
    <3> HIDE DEF k
    <3> QED  BY <2>2, <3>1, <3>2, <3>3, <3>4
  <2> QED  BY <2>1, <2>2
<1>11. Runs(after, x, R, m, more)
  BY <1>7, <1>9, <1>10 DEF Runs
<1> QED  BY <1>2, <1>11 DEF Chain, m

(* A pool whose free slots did not change. *)
LEMMA ChainSame ==
  ASSUME NEW pool, NEW first, NEW S \in SUBSET Slots, Chain(pool, first, S),
         NEW after, \A i \in S : after[i].next_free = pool[i].next_free
  PROVE  Chain(after, first, S)
<1> DEFINE n == Cardinality(S)
<1>1. PICK list : Runs(pool, first, S, n, list)
  BY DEF Chain
<1>2. n \in Nat
  BY SlotsFinite
<1> HIDE DEF n
<1>3. \A i \in 1 .. n : list[i] \in S
  BY <1>1 DEF Runs
<1>4. \A i \in 0 .. n : i # 0 => i \in 1 .. n
  BY <1>2
<1>5. Runs(after, first, S, n, list)
  BY <1>1, <1>3, <1>4 DEF Runs
<1> QED  BY <1>5 DEF Chain, n

-----------------------------------------------------------------------------
(* The book as a record: link_tail and unlink, member by member. *)

(* What link_tail and unlink leave of an order and of a level. *)
SameButLinks(o, p, S) ==
  \A i \in S : /\ p[i].id = o[i].id /\ p[i].side = o[i].side /\ p[i].price = o[i].price
               /\ p[i].quantity = o[i].quantity /\ p[i].priority = o[i].priority
               /\ p[i].level = o[i].level
SameFields(b, c) ==
  /\ c.order_lookup_ = b.order_lookup_ /\ c.level_lookup_ = b.level_lookup_
  /\ c.ladder = b.ladder /\ c.free_order_ = b.free_order_ /\ c.free_level_ = b.free_level_
  /\ c.active_orders_ = b.active_orders_ /\ c.next_priority_ = b.next_priority_
  /\ c.fill_sequence_ = b.fill_sequence_

(* The book b with other pools. *)
WithPools(b, o, v) ==
  [orders_ |-> o, levels_ |-> v,
   order_lookup_ |-> b.order_lookup_, level_lookup_ |-> b.level_lookup_,
   ladder |-> b.ladder, free_order_ |-> b.free_order_,
   free_level_ |-> b.free_level_, active_orders_ |-> b.active_orders_,
   next_priority_ |-> b.next_priority_, fill_sequence_ |-> b.fill_sequence_]

(* The level v with another list. *)
WithList(v, head, tail, count, total) ==
  [price |-> v.price, side |-> v.side, active |-> v.active, total_quantity |-> total,
   order_count |-> count, head |-> head, tail |-> tail]

(* What the record of a book, of a level and of an order is after an       *)
(* assignment to one of its members.                                       *)
LEMMA WithPoolsIs ==
  ASSUME NEW b, NEW o, NEW v
  PROVE  /\ IsBook(WithPools(b, o, v)) /\ SameFields(b, WithPools(b, o, v))
         /\ WithPools(b, o, v).orders_ = o /\ WithPools(b, o, v).levels_ = v
  BY DEF IsBook, SameFields, WithPools

(* A book is the record of its members. *)
LEMMA BookIs ==
  ASSUME NEW b, IsBook(b)
  PROVE  b = WithPools(b, b.orders_, b.levels_)
  BY DEF IsBook, WithPools

(* A level is the record of its members. *)
LEMMA LevelIs ==
  ASSUME NEW r \in LevelRec
  PROVE  r = WithList(r, r.head, r.tail, r.order_count, r.total_quantity)
  BY DEF WithList, LevelRec

(* What an assignment to one member of a level makes of it. *)
LEMMA LevelSet ==
  ASSUME NEW r, NEW v, NEW c, NEW d, NEW e, NEW f, r = WithList(v, c, d, e, f), NEW h
  PROVE  /\ [r EXCEPT !.head = h] = WithList(v, h, d, e, f)
         /\ [r EXCEPT !.tail = h] = WithList(v, c, h, e, f)
         /\ [r EXCEPT !.order_count = h] = WithList(v, c, d, h, f)
         /\ [r EXCEPT !.total_quantity = h] = WithList(v, c, d, e, h)
         /\ r.head = c /\ r.tail = d /\ r.order_count = e /\ r.total_quantity = f
  BY DEF WithList

(* The four assignments to a level by which its list gets longer or        *)
(* shorter.                                                                *)
JoinedBy(r, c, x, q) ==
  [r EXCEPT !.head = IF c = npos THEN x ELSE @, !.tail = x,
            !.total_quantity = @ + q, !.order_count = @ + 1]
LeftBy(r, c, x, d, y, q) ==
  [r EXCEPT !.head = IF c = npos THEN x ELSE @, !.tail = IF d = npos THEN y ELSE @,
            !.total_quantity = @ - q, !.order_count = @ - 1]

(* The four assignments, one after the other. *)
LEMMA RelistedIs ==
  ASSUME NEW r \in LevelRec, NEW c, NEW x, NEW d, NEW y, NEW q
  PROVE  /\ JoinedBy(r, c, x, q)
           = WithList(r, IF c = npos THEN x ELSE r.head, x, r.order_count + 1, r.total_quantity + q)
         /\ LeftBy(r, c, x, d, y, q)
           = WithList(r, IF c = npos THEN x ELSE r.head, IF d = npos THEN y ELSE r.tail,
                      r.order_count - 1, r.total_quantity - q)
<1> DEFINE h == IF c = npos THEN x ELSE r.head
           t == IF d = npos THEN y ELSE r.tail
           r1 == [r EXCEPT !.head = IF c = npos THEN x ELSE @]
<1>1. r1 = WithList(r, h, r.tail, r.order_count, r.total_quantity)
  <2>1. r1 = [r EXCEPT !.head = h]
    OBVIOUS
  <2> HIDE DEF h, r1
  <2> QED  BY <2>1 DEF LevelRec, WithList
<1>2. ASSUME NEW z, NEW a, NEW n
      PROVE  [[[r1 EXCEPT !.tail = z] EXCEPT !.total_quantity = a] EXCEPT !.order_count = n]
             = WithList(r, h, z, n, a)
  <2> HIDE DEF h, r1
  <2> DEFINE r2 == [r1 EXCEPT !.tail = z]
             r3 == [r2 EXCEPT !.total_quantity = a]
  <2>1. r2 = WithList(r, h, z, r.order_count, r.total_quantity)
    BY <1>1, LevelSet
  <2> HIDE DEF r2
  <2>2. r3 = WithList(r, h, z, r.order_count, a)
    BY <2>1, LevelSet
  <2> HIDE DEF r3
  <2>3. [r3 EXCEPT !.order_count = n] = WithList(r, h, z, n, a)
    BY <2>2, LevelSet
  <2> QED  BY <2>3 DEF r2, r3
<1>3. ASSUME NEW z, NEW a
      PROVE  /\ r1.tail = r.tail
             /\ [r1 EXCEPT !.tail = z].total_quantity = r.total_quantity
             /\ [[r1 EXCEPT !.tail = z] EXCEPT !.total_quantity = a].order_count = r.order_count
  <2> HIDE DEF h, r1
  <2> DEFINE r2 == [r1 EXCEPT !.tail = z]
             r3 == [r2 EXCEPT !.total_quantity = a]
  <2>1. r2 = WithList(r, h, z, r.order_count, r.total_quantity) /\ r1.tail = r.tail
    BY <1>1, LevelSet
  <2> HIDE DEF r2
  <2>2. r3 = WithList(r, h, z, r.order_count, a) /\ r2.total_quantity = r.total_quantity
    BY <2>1, LevelSet
  <2> HIDE DEF r3
  <2>3. r3.order_count = r.order_count
    BY <2>2, LevelSet
  <2> QED  BY <2>1, <2>2, <2>3 DEF r2, r3
<1> HIDE DEF r1
<1>4. ASSUME NEW z
      PROVE  /\ [[[r1 EXCEPT !.tail = z] EXCEPT !.total_quantity = @ + q] EXCEPT !.order_count = @ + 1]
               = WithList(r, h, z, r.order_count + 1, r.total_quantity + q)
             /\ [[[r1 EXCEPT !.tail = z] EXCEPT !.total_quantity = @ - q] EXCEPT !.order_count = @ - 1]
               = WithList(r, h, z, r.order_count - 1, r.total_quantity - q)
  <2> DEFINE r2 == [r1 EXCEPT !.tail = z]
             r3 == [r2 EXCEPT !.total_quantity = r.total_quantity + q]
             s3 == [r2 EXCEPT !.total_quantity = r.total_quantity - q]
  <2>1. r2.total_quantity = r.total_quantity /\ r3.order_count = r.order_count /\ s3.order_count = r.order_count
    BY <1>3
  <2>2. /\ [r3 EXCEPT !.order_count = r.order_count + 1] = WithList(r, h, z, r.order_count + 1, r.total_quantity + q)
        /\ [s3 EXCEPT !.order_count = r.order_count - 1] = WithList(r, h, z, r.order_count - 1, r.total_quantity - q)
    <3> HIDE DEF h
    <3> QED  BY <1>2
  <2> HIDE DEF r2, h
  <2>3. r3 = [r2 EXCEPT !.total_quantity = @ + q] /\ s3 = [r2 EXCEPT !.total_quantity = @ - q]
    BY <2>1
  <2> HIDE DEF r3, s3
  <2>4. /\ [r3 EXCEPT !.order_count = @ + 1] = WithList(r, h, z, r.order_count + 1, r.total_quantity + q)
        /\ [s3 EXCEPT !.order_count = @ - 1] = WithList(r, h, z, r.order_count - 1, r.total_quantity - q)
    BY <2>1, <2>2, SMTT(30)
  <2> QED  BY <2>3, <2>4 DEF r2
<1>5. [[[r1 EXCEPT !.tail = t] EXCEPT !.total_quantity = @ - q] EXCEPT !.order_count = @ - 1]
      = WithList(r, h, t, r.order_count - 1, r.total_quantity - q)
  <2> HIDE DEF t, h
  <2> QED  BY <1>4
<1>6. [r1 EXCEPT !.tail = IF d = npos THEN y ELSE @] = [r1 EXCEPT !.tail = t]
  BY <1>3
<1>7. [[[r1 EXCEPT !.tail = IF d = npos THEN y ELSE @] EXCEPT !.total_quantity = @ - q] EXCEPT !.order_count = @ - 1]
      = WithList(r, h, t, r.order_count - 1, r.total_quantity - q)
  <2> HIDE DEF t
  <2> QED  BY <1>5, <1>6
<1>8. [[[r1 EXCEPT !.tail = x] EXCEPT !.total_quantity = @ + q] EXCEPT !.order_count = @ + 1]
      = WithList(r, h, x, r.order_count + 1, r.total_quantity + q)
  <2> HIDE DEF h
  <2> QED  BY <1>4
<1> QED  BY <1>7, <1>8 DEF r1, JoinedBy, LeftBy

(* Joined, member by member. *)
LEMMA JoinedIs ==
  ASSUME NEW r \in LevelRec, NEW x, NEW z
  PROVE  Joined(r, x, z) = WithList(r, IF r.tail = npos THEN x ELSE r.head, x,
                                    r.order_count + 1, r.total_quantity + z.quantity)
<1>1. Joined(r, x, z) = JoinedBy(r, r.tail, x, z.quantity)
  BY DEF Joined, JoinedBy
<1> QED  BY <1>1, RelistedIs

(* Left, member by member. *)
LEMMA LeftIs ==
  ASSUME NEW r \in LevelRec, NEW z
  PROVE  Left(r, z) = WithList(r, IF z.prev = npos THEN z.next ELSE r.head,
                               IF z.next = npos THEN z.prev ELSE r.tail,
                               r.order_count - 1, r.total_quantity - z.quantity)
<1>1. Left(r, z) = LeftBy(r, z.prev, z.next, z.next, z.prev, z.quantity)
  BY DEF Left, LeftBy
<1> QED  BY <1>1, RelistedIs

(* link_tail, member by member. *)
Appended(o, x, last) ==
  LET linked == [o EXCEPT ![x].prev = last, ![x].next = npos]
  IN  IF last = npos THEN linked ELSE [linked EXCEPT ![last].next = x]

(* link_tail assigns to the two pools only. *)
LEMMA LinkTailIs ==
  ASSUME NEW b, IsBook(b), NEW l, NEW x
  PROVE  link_tail(b, x, l) =
           WithPools(b, Appended(b.orders_, x, b.levels_[l].tail),
                     [b.levels_ EXCEPT ![l] = Joined(b.levels_[l], x, b.orders_[x])])
<1> DEFINE last == b.levels_[l].tail
           o == Appended(b.orders_, x, last)
           z == b.orders_[x]
<1>1. link_tail(b, x, l) = [b EXCEPT !.orders_ = o, !.levels_[l] = Joined(@, x, z)]
  BY DEF link_tail, Appended
<1> DEFINE c == [b EXCEPT !.orders_ = o]
           v == b.levels_
<1> HIDE DEF o, z
<1>2. c = WithPools(b, o, v)
  BY DEF IsBook, WithPools
<1> HIDE DEF c, v
<1>3. [c EXCEPT !.levels_[l] = Joined(@, x, z)] = WithPools(b, o, [v EXCEPT ![l] = Joined(v[l], x, z)])
  BY <1>2 DEF WithPools
<1> QED  BY <1>1, <1>3 DEF c, v, o, z

(* The lists of the levels lv of v hold the orders on of o, in time        *)
(* priority, with their counts and totals.                                 *)
Placed(o, v, on, lv) ==
  \A i \in on : /\ o[i].level \in lv
                /\ o[i].side = v[o[i].level].side /\ o[i].price = v[o[i].level].price
Listed(o, v, on, lv) ==
  \A l \in lv : /\ Ends(o, on, l, v[l].head, v[l].tail)
                /\ Tally(o, on, l, v[l].order_count, v[l].total_quantity)
Lists(o, v, on, lv) ==
  InTime(o, on) /\ Chained(o, on) /\ Placed(o, v, on, lv) /\ Listed(o, v, on, lv)

(* Slots that are free in both pools, and levels that are the same level.  *)
SameLevels(v, w, lv) ==
  \A l \in lv : w[l].side = v[l].side /\ w[l].price = v[l].price
SameFree(o, p, S) == \A i \in Slots \ S : p[i] = o[i]

Relinked(b, c, act, lv) ==
  /\ IsBook(c) /\ SameFields(b, c)
  /\ OrdersType(c.orders_, act) /\ LevelsType(c.levels_, lv)
  /\ SameButLinks(b.orders_, c.orders_, act) /\ SameLevels(b.levels_, c.levels_, lv)
  /\ SameFree(b.orders_, c.orders_, act) /\ SameFree(b.levels_, c.levels_, lv)

(* An order joins the list of its level. *)
LEMMA ListsJoin ==
  ASSUME NEW o, NEW p, NEW v, NEW w, NEW on, on \subseteq Slots, NEW lv, NEW x \in Slots \ on,
         NEW l \in lv, l = o[x].level, Lists(o, v, on, lv),
         SameButLinks(o, p, on \cup {x}), SameLevels(v, w, lv),
         o[x].side = v[l].side, o[x].price = v[l].price,
         o[x].priority \in Nat, \A j \in on : o[x].priority > o[j].priority,
         \A i \in on \cup {x} : o[i].quantity \in Nat,
         p[x].prev = v[l].tail, p[x].next = npos,
         \A i \in on : /\ p[i].next = IF i = v[l].tail THEN x ELSE o[i].next
                       /\ p[i].prev = o[i].prev,
         \A k \in lv \ {l} : w[k] = v[k],
         w[l].head = IF v[l].tail = npos THEN x ELSE v[l].head, w[l].tail = x,
         w[l].order_count = v[l].order_count + 1,
         w[l].total_quantity = v[l].total_quantity + o[x].quantity
  PROVE  Lists(p, w, on \cup {x}, lv)
<1> DEFINE all == on \cup {x}
           last == v[l].tail
<1>1. SamePlaces(o, p, all) /\ SameOrders(o, p, all) /\ npos \notin on
  BY SlotsFinite DEF SamePlaces, SameOrders, SameButLinks
<1>2. InTime(o, on) /\ Chained(o, on) /\ LastOf(o, OnLevel(o, on, l), last)
  BY DEF Lists, Listed, Ends
<1>3. /\ InTime(p, all) /\ Chained(p, all)
      /\ \A head, tail : Ends(o, on, l, head, tail) =>
           Ends(p, all, l, IF last = npos THEN x ELSE head, x)
      /\ \A k, head, tail : k # l /\ Ends(o, on, k, head, tail) =>
           Ends(p, all, k, head, tail)
  <2>1. LinkedLast(o, p, on, x, last) /\ Latest(o, on, x) /\ x \notin on
    BY DEF LinkedLast, Latest
  <2> HIDE DEF last
  <2>2. InTime(p, all) /\ Chained(p, all) /\ EndsBehind(o, p, on, x, l, last)
    BY <1>1, <1>2, <2>1, AppendToList
  <2> QED  BY <2>2 DEF EndsBehind
<1>4. Placed(p, w, all, lv)
  BY DEF Placed, Lists, SameButLinks, SameLevels
<1>5. ASSUME NEW k \in lv
      PROVE  /\ Ends(p, all, k, w[k].head, w[k].tail)
             /\ Tally(p, all, k, w[k].order_count, w[k].total_quantity)
  <2>1. /\ Ends(o, on, k, v[k].head, v[k].tail)
        /\ Tally(o, on, k, v[k].order_count, v[k].total_quantity)
    BY DEF Lists, Listed
  <2>2. CASE k = l
    <3>1. Ends(p, all, l, w[l].head, w[l].tail)
      BY <1>3, <2>1, <2>2, ZenonT(30)
    <3>2. Tally(p, all, l, v[l].order_count + 1, v[l].total_quantity + o[x].quantity)
      BY <1>1, <2>1, <2>2, TallyAdd
    <3> QED  BY <2>2, <3>1, <3>2
  <2>3. CASE k # l
    <3>1. w[k] = v[k]
      BY <2>3
    <3>2. Ends(p, all, k, v[k].head, v[k].tail)
      BY <1>3, <2>1, <2>3
    <3>3. Tally(p, all, k, v[k].order_count, v[k].total_quantity)
      BY <1>1, <2>1, <2>3, TallyAdd
    <3> QED  BY <3>1, <3>2, <3>3
  <2> QED  BY <2>2, <2>3
<1> QED  BY <1>3, <1>4, <1>5 DEF Lists, Listed

(* An order leaves the list of its level. *)
LEMMA ListsLeave ==
  ASSUME NEW o, NEW p, NEW v, NEW w, NEW on, on \subseteq Slots, NEW lv, NEW x \in on,
         NEW l \in lv, l = o[x].level, Lists(o, v, on, lv),
         SameButLinks(o, p, on), SameLevels(v, w, lv),
         \A i \in on : o[i].quantity \in Nat,
         \A i \in on \ {x} : /\ p[i].next = IF i = o[x].prev THEN o[x].next ELSE o[i].next
                             /\ p[i].prev = IF i = o[x].next THEN o[x].prev ELSE o[i].prev,
         \A k \in lv \ {l} : w[k] = v[k],
         w[l].head = IF o[x].prev = npos THEN o[x].next ELSE v[l].head,
         w[l].tail = IF o[x].next = npos THEN o[x].prev ELSE v[l].tail,
         w[l].order_count = v[l].order_count - 1,
         w[l].total_quantity = v[l].total_quantity - o[x].quantity
  PROVE  Lists(p, w, on \ {x}, lv)
<1> DEFINE rest == on \ {x}
<1>1. SamePlaces(o, p, on) /\ SameOrders(o, p, rest) /\ npos \notin on
  BY SlotsFinite DEF SamePlaces, SameOrders, SameButLinks
<1>2. InTime(o, on) /\ Chained(o, on)
  BY DEF Lists
<1>3. /\ InTime(p, rest) /\ Chained(p, rest)
      /\ \A head, tail : Ends(o, on, l, head, tail) =>
           Ends(p, rest, l, IF o[x].prev = npos THEN o[x].next ELSE head,
                            IF o[x].next = npos THEN o[x].prev ELSE tail)
      /\ \A k, head, tail : k # l /\ Ends(o, on, k, head, tail) =>
           Ends(p, rest, k, head, tail)
  BY <1>1, <1>2, RemoveFromList
<1>4. Placed(p, w, rest, lv)
  BY DEF Placed, Lists, SameButLinks, SameLevels
<1>5. ASSUME NEW k \in lv
      PROVE  /\ Ends(p, rest, k, w[k].head, w[k].tail)
             /\ Tally(p, rest, k, w[k].order_count, w[k].total_quantity)
  <2>1. /\ Ends(o, on, k, v[k].head, v[k].tail)
        /\ Tally(o, on, k, v[k].order_count, v[k].total_quantity)
    BY DEF Lists, Listed
  <2>2. CASE k = l
    <3>1. Ends(p, rest, l, w[l].head, w[l].tail)
      BY <1>3, <2>1, <2>2
    <3>2. Tally(p, rest, l, v[l].order_count - 1, v[l].total_quantity - o[x].quantity)
      BY <1>1, <2>1, <2>2, TallyRemove
    <3> QED  BY <2>2, <3>1, <3>2
  <2>3. CASE k # l
    <3>1. w[k] = v[k]
      BY <2>3
    <3>2. Ends(p, rest, k, v[k].head, v[k].tail)
      BY <1>3, <2>1, <2>3
    <3>3. Tally(p, rest, k, v[k].order_count, v[k].total_quantity)
      BY <1>1, <2>1, <2>3, TallyRemove
    <3> QED  BY <3>1, <3>2, <3>3
  <2> QED  BY <2>2, <2>3
<1> QED  BY <1>3, <1>4, <1>5 DEF Lists, Listed

(* The order z with other links. *)
WithLinks(z, prev, next) ==
  [id |-> z.id, price |-> z.price, quantity |-> z.quantity, priority |-> z.priority,
   level |-> z.level, side |-> z.side, active |-> z.active, prev |-> prev, next |-> next]

(* What an assignment to a link of an order makes of it. *)
LEMMA OrderSet ==
  ASSUME NEW z \in OrderRec, NEW c, NEW d
  PROVE  /\ [z EXCEPT !.prev = c] = WithLinks(z, c, z.next)
         /\ [z EXCEPT !.next = d] = WithLinks(z, z.prev, d)
<1>1. z = WithLinks(z, z.prev, z.next)
  BY DEF OrderRec, WithLinks
<1>2. [z EXCEPT !.prev = c] = WithLinks(z, c, z.next)
  BY <1>1 DEF WithLinks
<1>3. [z EXCEPT !.next = d] = WithLinks(z, z.prev, d)
  BY <1>1 DEF WithLinks
<1> QED  BY <1>2, <1>3

(* An order with other links is an order, the same but for them. *)
LEMMA WithLinksIs ==
  ASSUME NEW z \in OrderRec, NEW c \in OptSlot, NEW d \in OptSlot
  PROVE  /\ WithLinks(z, c, d) \in OrderRec
         /\ WithLinks(z, c, d).prev = c /\ WithLinks(z, c, d).next = d
         /\ WithLinks(z, c, d).id = z.id /\ WithLinks(z, c, d).side = z.side
         /\ WithLinks(z, c, d).price = z.price /\ WithLinks(z, c, d).quantity = z.quantity
         /\ WithLinks(z, c, d).priority = z.priority /\ WithLinks(z, c, d).level = z.level
  BY DEF WithLinks, OrderRec

(* A level with another list is a level, of the same side and price. *)
LEMMA WithListIs ==
  ASSUME NEW r \in LevelRec, NEW h \in OptSlot, NEW t \in OptSlot, NEW n \in Int, NEW q \in Int
  PROVE  /\ WithList(r, h, t, n, q) \in LevelRec
         /\ WithList(r, h, t, n, q).side = r.side /\ WithList(r, h, t, n, q).price = r.price
         /\ WithList(r, h, t, n, q).head = h /\ WithList(r, h, t, n, q).tail = t
         /\ WithList(r, h, t, n, q).order_count = n /\ WithList(r, h, t, n, q).total_quantity = q
  BY DEF WithList, LevelRec

(* link_tail puts an order with the latest priority on the list of its     *)
(* level: the lists are those of the orders before and of this one.        *)
LEMMA LinkTailOK ==
  ASSUME NEW b, IsBook(b), NEW act, NEW lv, OrdersType(b.orders_, act),
         LevelsType(b.levels_, lv), NEW on, on \subseteq act, NEW x \in act, x \notin on,
         NEW l \in lv, l = b.orders_[x].level, Lists(b.orders_, b.levels_, on, lv),
         b.orders_[x].side = b.levels_[l].side, b.orders_[x].price = b.levels_[l].price,
         Latest(b.orders_, on, x)
  PROVE  /\ Relinked(b, link_tail(b, x, l), act, lv)
         /\ Lists(link_tail(b, x, l).orders_, link_tail(b, x, l).levels_, on \cup {x}, lv)
<1> DEFINE o == b.orders_
           v == b.levels_
           last == v[l].tail
           linked == [o EXCEPT ![x].prev = last, ![x].next = npos]
           p == Appended(o, x, last)
           w == [v EXCEPT ![l] = Joined(v[l], x, o[x])]
           c == link_tail(b, x, l)
<1>1. c = WithPools(b, p, w)
  BY LinkTailIs
<1>2. IsBook(c) /\ SameFields(b, c) /\ c.orders_ = p /\ c.levels_ = w
  <2> HIDE DEF p, w, c
  <2> QED  BY <1>1, WithPoolsIs
<1>3. /\ o = [i \in Slots |-> o[i]] /\ act \subseteq Slots
      /\ \A i \in act : o[i] \in OrderRec
      /\ \A i \in Slots \ act : o[i] \in FreeRec
  BY DEF OrdersType
<1>4. /\ v = [k \in Slots |-> v[k]] /\ lv \subseteq Slots
      /\ \A k \in lv : v[k] \in LevelRec
      /\ \A k \in Slots \ lv : v[k] \in FreeRec
  BY SMTT(30) DEF LevelsType
<1>5. last \in on \cup {npos} /\ x # npos /\ x \in Slots /\ npos \notin Slots
  BY <1>3, SlotsFinite DEF Lists, Listed, Ends, LastOf, OnLevel
<1> HIDE DEF o, v, last, c
<1>6. /\ linked[x] = WithLinks(o[x], last, npos) /\ linked = [i \in Slots |-> linked[i]]
      /\ \A i \in Slots \ {x} : linked[i] = o[i]
  <2>1. linked = [o EXCEPT ![x] = [o[x] EXCEPT !.prev = last, !.next = npos]]
    <3>1. o = [i \in Slots |-> o[i]] /\ x \in Slots
      BY <1>3, <1>5
    <3> QED  BY ONLY <3>1
  <2>2. [o[x] EXCEPT !.prev = last, !.next = npos] = WithLinks(o[x], last, npos)
    <3> DEFINE z == o[x]
    <3>1. z \in OrderRec
      BY <1>3
    <3> HIDE DEF z
    <3> DEFINE y == [z EXCEPT !.prev = last]
    <3>2. y = WithLinks(z, last, z.next)
      BY <3>1, OrderSet
    <3> HIDE DEF y
    <3>3. [y EXCEPT !.next = npos] = WithLinks(z, last, npos)
      BY <3>2 DEF WithLinks
    <3> QED  BY <3>3 DEF y, z
  <2> HIDE DEF linked
  <2> QED  BY <1>3, <1>5, <2>1, <2>2
<1>66. p = IF last = npos THEN linked ELSE [linked EXCEPT ![last].next = x]
  BY DEF Appended
<1> HIDE DEF linked
<1>7. /\ p = [i \in Slots |-> p[i]] /\ p[x] = WithLinks(o[x], last, npos)
      /\ \A i \in Slots \ {x, last} : p[i] = o[i]
      /\ last # npos => p[last] = WithLinks(o[last], o[last].prev, x)
  <2>1. CASE last = npos
    BY <1>5, <1>6, <1>66, <2>1
  <2>2. CASE last # npos
    <3>1. last \in on /\ last # x /\ last \in Slots /\ o[last] \in OrderRec
      BY <1>3, <1>5, <2>2
    <3>2. p = [linked EXCEPT ![last] = [o[last] EXCEPT !.next = x]]
      BY <1>6, <1>66, <2>2, <3>1
    <3>3. [o[last] EXCEPT !.next = x] = WithLinks(o[last], o[last].prev, x)
      BY <3>1, OrderSet
    <3> HIDE DEF p
    <3> QED  BY <1>5, <1>6, <2>2, <3>1, <3>2, <3>3
  <2> QED  BY <2>1, <2>2
<1> HIDE DEF p
<1>8. /\ p[x] \in OrderRec /\ p[x].prev = last /\ p[x].next = npos
      /\ p[x].id = o[x].id /\ p[x].side = o[x].side /\ p[x].price = o[x].price
      /\ p[x].quantity = o[x].quantity /\ p[x].priority = o[x].priority /\ p[x].level = o[x].level
  <2>1. last \in OptSlot /\ npos \in OptSlot /\ o[x] \in OrderRec
    BY <1>3, <1>5 DEF OptSlot
  <2> QED  BY <1>7, <2>1, WithLinksIs
<1>9. ASSUME NEW i \in act, i # x
      PROVE  /\ p[i] \in OrderRec /\ p[i].prev = o[i].prev
             /\ p[i].next = IF i = last THEN x ELSE o[i].next
             /\ p[i].id = o[i].id /\ p[i].side = o[i].side /\ p[i].price = o[i].price
             /\ p[i].quantity = o[i].quantity /\ p[i].priority = o[i].priority /\ p[i].level = o[i].level
  <2>1. o[i] \in OrderRec /\ i \in Slots /\ o[i].prev \in OptSlot /\ x \in OptSlot
    BY <1>3, <1>5 DEF OrderRec, OptSlot
  <2>2. CASE i # last
    BY <1>7, <1>9, <2>1, <2>2
  <2>3. CASE i = last
    <3>1. p[i] = WithLinks(o[i], o[i].prev, x)
      BY <1>3, <1>5, <1>7, <2>3
    <3> QED  BY <2>1, <2>3, <3>1, WithLinksIs
  <2> QED  BY <2>2, <2>3
<1>10. OrdersType(p, act) /\ SameButLinks(o, p, act) /\ SameFree(o, p, act)
  <2>1. \A i \in Slots \ act : p[i] = o[i]
    BY <1>3, <1>5, <1>7
  <2>2. \A i \in act : p[i] \in OrderRec
    BY <1>8, <1>9, SMTT(30)
  <2>3. OrdersType(p, act)
    BY <1>3, <1>7, <2>1, <2>2 DEF OrdersType
  <2>4. SameButLinks(o, p, act)
    BY <1>8, <1>9, SMTT(30) DEF SameButLinks
  <2> QED  BY <2>1, <2>3, <2>4 DEF SameFree
<1>11. /\ w = [k \in Slots |-> w[k]] /\ \A k \in Slots \ {l} : w[k] = v[k]
       /\ w[l] = WithList(v[l], IF last = npos THEN x ELSE v[l].head, x, v[l].order_count + 1,
                          v[l].total_quantity + o[x].quantity)
  <2>1. Joined(v[l], x, o[x]) = WithList(v[l], IF last = npos THEN x ELSE v[l].head, x,
                                         v[l].order_count + 1, v[l].total_quantity + o[x].quantity)
    BY <1>4, JoinedIs DEF last
  <2> QED  BY <1>4, <2>1
<1>12. /\ w[l] \in LevelRec /\ w[l].side = v[l].side /\ w[l].price = v[l].price
       /\ w[l].head = IF last = npos THEN x ELSE v[l].head
       /\ w[l].tail = x /\ w[l].order_count = v[l].order_count + 1
       /\ w[l].total_quantity = v[l].total_quantity + o[x].quantity
  <2> DEFINE h == IF last = npos THEN x ELSE v[l].head
             n == v[l].order_count + 1
             q == v[l].total_quantity + o[x].quantity
  <2>1. v[l] \in LevelRec /\ h \in OptSlot /\ x \in OptSlot /\ n \in Int /\ q \in Int
    <3>1. o[x].quantity \in Nat
      BY <1>3 DEF OrderRec
    <3>2. v[l] \in LevelRec /\ v[l].head \in OptSlot /\ v[l].order_count \in Int /\ v[l].total_quantity \in Int
      BY <1>4 DEF LevelRec
    <3> QED  BY <1>5, <3>1, <3>2 DEF OptSlot
  <2> HIDE DEF h, n, q, w
  <2>2. w[l] = WithList(v[l], h, x, n, q)
    BY <1>11 DEF h, n, q
  <2>3. /\ w[l] \in LevelRec /\ w[l].side = v[l].side /\ w[l].price = v[l].price
        /\ w[l].head = h /\ w[l].tail = x /\ w[l].order_count = n /\ w[l].total_quantity = q
    BY <2>1, <2>2, WithListIs, SMTT(30)
  <2> QED  BY <2>3 DEF h, n, q
<1> HIDE DEF w
<1>13. LevelsType(w, lv) /\ SameLevels(v, w, lv) /\ SameFree(v, w, lv)
  BY <1>4, <1>11, <1>12 DEF LevelsType, SameLevels, SameFree
<1>14. Lists(p, w, on \cup {x}, lv)
  <2>1. /\ on \subseteq Slots /\ x \in Slots \ on /\ l = o[x].level /\ Lists(o, v, on, lv)
        /\ o[x].side = v[l].side /\ o[x].price = v[l].price
        /\ o[x].priority \in Nat /\ \A j \in on : o[x].priority > o[j].priority
    BY <1>3 DEF o, v, Latest
  <2>2. SameButLinks(o, p, on \cup {x}) /\ SameLevels(v, w, lv)
    BY <1>10, <1>13 DEF SameButLinks
  <2>3. \A i \in on \cup {x} : o[i].quantity \in Nat
    BY <1>3 DEF OrderRec
  <2>4. /\ p[x].prev = v[l].tail /\ p[x].next = npos
        /\ \A i \in on : /\ p[i].next = IF i = v[l].tail THEN x ELSE o[i].next
                         /\ p[i].prev = o[i].prev
    BY <1>8, <1>9 DEF last
  <2>5. /\ \A k \in lv \ {l} : w[k] = v[k]
        /\ w[l].head = IF v[l].tail = npos THEN x ELSE v[l].head
        /\ w[l].tail = x
        /\ w[l].order_count = v[l].order_count + 1
        /\ w[l].total_quantity = v[l].total_quantity + o[x].quantity
    BY <1>4, <1>11, <1>12 DEF last
  <2> QED  BY ONLY <2>1, <2>2, <2>3, <2>4, <2>5, ListsJoin, SMTT(30)
<1> QED  BY <1>2, <1>10, <1>13, <1>14 DEF Relinked, o, v, c

(* unlink before the test whether the level is empty. *)
Bypassed(o, x) ==
  [i \in Slots |->
     IF i = x THEN [o[x] EXCEPT !.prev = npos, !.next = npos]
     ELSE IF i = o[x].prev THEN [o[i] EXCEPT !.next = o[x].next]
     ELSE IF i = o[x].next THEN [o[i] EXCEPT !.prev = o[x].prev]
     ELSE o[i]]

Unlinked(b, x) ==
  WithPools(b, Bypassed(b.orders_, x),
            [b.levels_ EXCEPT ![b.orders_[x].level] =
               Left(b.levels_[b.orders_[x].level], b.orders_[x])])

OrderWith(z, r, prev, next) ==
  /\ r \in OrderRec /\ r.prev = prev /\ r.next = next
  /\ r.id = z.id /\ r.side = z.side /\ r.price = z.price
  /\ r.quantity = z.quantity /\ r.priority = z.priority /\ r.level = z.level

(* WithLinksIs as one fact. *)
LEMMA WithLinksOK ==
  ASSUME NEW z \in OrderRec, NEW c \in OptSlot, NEW d \in OptSlot, NEW r, r = WithLinks(z, c, d)
  PROVE  OrderWith(z, r, c, d)
  BY WithLinksIs DEF OrderWith

(* unlink takes the order off its list and then frees the level if it is   *)
(* empty.                                                                  *)
LEMMA UnlinkIs ==
  ASSUME NEW b, IsBook(b), NEW x
  PROVE  unlink(b, x) =
           IF Unlinked(b, x).levels_[b.orders_[x].level].order_count = 0
             THEN release_level(Unlinked(b, x), b.orders_[x].level)
             ELSE Unlinked(b, x)
<1> DEFINE z == b.orders_[x]
           l == z.level
           o == Bypassed(b.orders_, x)
           u == [b EXCEPT !.orders_ = o, !.levels_[l] = Left(@, z)]
           c == [b EXCEPT !.orders_ = o]
           v == b.levels_
<1>1. unlink(b, x) = IF u.levels_[l].order_count = 0 THEN release_level(u, l) ELSE u
  BY DEF unlink, Bypassed
<1> HIDE DEF o, z, l
<1>2. c = WithPools(b, o, v)
  BY DEF IsBook, WithPools
<1> HIDE DEF c, v
<1>3. [c EXCEPT !.levels_[l] = Left(@, z)] = WithPools(b, o, [v EXCEPT ![l] = Left(v[l], z)])
  BY <1>2 DEF WithPools
<1>4. u = Unlinked(b, x)
  BY <1>3 DEF c, v, o, z, l, Unlinked
<1> HIDE DEF u
<1> QED  BY <1>1, <1>4 DEF l, z

(* The lists without the order. *)
LEMMA UnlinkedOK ==
  ASSUME NEW b, IsBook(b), NEW act, NEW lv, OrdersType(b.orders_, act),
         LevelsType(b.levels_, lv), NEW on, on \subseteq act, NEW x \in on,
         Lists(b.orders_, b.levels_, on, lv)
  PROVE  /\ Relinked(b, Unlinked(b, x), act, lv)
         /\ Lists(Unlinked(b, x).orders_, Unlinked(b, x).levels_, on \ {x}, lv)
         /\ Unlinked(b, x).orders_[x].prev = npos /\ Unlinked(b, x).orders_[x].next = npos
<1> DEFINE o == b.orders_
           v == b.levels_
           z == o[x]
           l == z.level
           p == Bypassed(o, x)
           w == [v EXCEPT ![l] = Left(v[l], z)]
           c == Unlinked(b, x)
<1>1. c = WithPools(b, p, w)
  BY DEF Unlinked
<1>2. IsBook(c) /\ SameFields(b, c) /\ c.orders_ = p /\ c.levels_ = w
  <2> HIDE DEF p, w, c
  <2> QED  BY <1>1, WithPoolsIs
<1>3. /\ o = [i \in Slots |-> o[i]] /\ act \subseteq Slots
      /\ \A i \in act : o[i] \in OrderRec
      /\ \A i \in Slots \ act : o[i] \in FreeRec
  BY DEF OrdersType
<1>4. /\ v = [k \in Slots |-> v[k]] /\ lv \subseteq Slots
      /\ \A k \in lv : v[k] \in LevelRec
      /\ \A k \in Slots \ lv : v[k] \in FreeRec
  BY SMTT(30) DEF LevelsType
<1>5. /\ z \in OrderRec /\ x \in Slots /\ npos \notin Slots /\ l \in lv /\ l \in Slots
      /\ Lists(o, v, on, lv) /\ InTime(o, on) /\ Chained(o, on) /\ npos \notin on
  BY <1>3, <1>4, SlotsFinite DEF Lists, Placed
<1>55. z.prev \in on \cup {npos} /\ z.next \in on \cup {npos}
  BY <1>5 DEF Chained, FirstOf, LastOf, After, Before
<1>56. /\ z.prev \in OptSlot /\ z.next \in OptSlot /\ npos \in OptSlot
  BY <1>5 DEF OrderRec, OptSlot
<1>6. (z.next \in on => z.next # z.prev) /\ z.next # x /\ z.prev # x
  <2>1. (z.next \in on => z.next # z.prev)
    BY <1>5, LinksMatch
  <2>2. z.next # x /\ z.prev # x
    <3>1. o[x].priority \in Nat /\ x # npos
      BY <1>5 DEF InTime
    <3>2. x \notin After(o, on, x) /\ x \notin Before(o, on, x)
      BY <3>1 DEF After, Before
    <3>3. FirstOf(o, After(o, on, x), z.next) /\ LastOf(o, Before(o, on, x), z.prev)
      BY <1>5 DEF Chained
    <3> QED  BY <3>1, <3>2, <3>3 DEF FirstOf, LastOf
  <2> QED  BY <2>1, <2>2
<1>66. x \in on /\ on \subseteq act
  OBVIOUS
<1> HIDE DEF o, v, c
<1>7. /\ p = [i \in Slots |-> p[i]]
      /\ p[x] = [z EXCEPT !.prev = npos, !.next = npos]
      /\ \A i \in Slots \ {x} :
           p[i] = IF i = z.prev THEN [o[i] EXCEPT !.next = z.next]
                  ELSE IF i = z.next THEN [o[i] EXCEPT !.prev = z.prev]
                  ELSE o[i]
  BY <1>5 DEF Bypassed
<1> HIDE DEF p, z
<1>8. p[x] = WithLinks(z, npos, npos)
  <2> DEFINE y == [z EXCEPT !.prev = npos]
  <2>1. y = WithLinks(z, npos, z.next)
    BY <1>5, OrderSet
  <2> HIDE DEF y
  <2>2. [y EXCEPT !.next = npos] = WithLinks(z, npos, npos)
    BY <2>1 DEF WithLinks
  <2> QED  BY <1>7, <2>2 DEF y
<1>9. /\ p[x] \in OrderRec /\ p[x].prev = npos /\ p[x].next = npos
      /\ p[x].id = z.id /\ p[x].side = z.side /\ p[x].price = z.price
      /\ p[x].quantity = z.quantity /\ p[x].priority = z.priority /\ p[x].level = z.level
  BY <1>5, <1>56, <1>8, WithLinksIs
<1>10. ASSUME NEW i \in act, i # x
       PROVE  /\ p[i] \in OrderRec
              /\ p[i].prev = IF i = z.next /\ i # z.prev THEN z.prev ELSE o[i].prev
              /\ p[i].next = IF i = z.prev THEN z.next ELSE o[i].next
              /\ p[i].id = o[i].id /\ p[i].side = o[i].side /\ p[i].price = o[i].price
              /\ p[i].quantity = o[i].quantity /\ p[i].priority = o[i].priority /\ p[i].level = o[i].level
  <2>1. o[i] \in OrderRec /\ i \in Slots \ {x} /\ o[i].prev \in OptSlot /\ o[i].next \in OptSlot
    BY <1>3, <1>10 DEF OrderRec
  <2> DEFINE y == o[i]
  <2> HIDE DEF y
  <2>2. CASE i = z.prev
    <3>1. p[i] = WithLinks(y, y.prev, z.next)
      BY <1>7, <2>1, <2>2, OrderSet DEF y
    <3>2. y \in OrderRec /\ y.prev \in OptSlot
      BY <2>1 DEF y
    <3>3. OrderWith(y, p[i], y.prev, z.next)
      BY <1>56, <3>1, <3>2, WithLinksOK
    <3> QED  BY <2>2, <3>3 DEF y, OrderWith
  <2>3. CASE i # z.prev /\ i = z.next
    <3>1. p[i] = WithLinks(y, z.prev, y.next)
      BY <1>7, <2>1, <2>3, OrderSet DEF y
    <3>2. y \in OrderRec /\ y.next \in OptSlot
      BY <2>1 DEF y
    <3>3. OrderWith(y, p[i], z.prev, y.next)
      BY <1>56, <3>1, <3>2, WithLinksOK
    <3> QED  BY <2>3, <3>3 DEF y, OrderWith
  <2>4. CASE i # z.prev /\ i # z.next
    BY <1>7, <2>1, <2>4
  <2> QED  BY <2>2, <2>3, <2>4
<1>11. OrdersType(p, act) /\ SameButLinks(o, p, act) /\ SameFree(o, p, act)
  <2>1. \A i \in Slots \ act : p[i] = o[i]
    BY <1>5, <1>55, <1>66, <1>7
  <2>2. \A i \in act : p[i] \in OrderRec
    BY <1>9, <1>10
  <2>3. OrdersType(p, act)
    BY <1>3, <1>7, <2>1, <2>2 DEF OrdersType
  <2>4. SameButLinks(o, p, act)
    BY <1>9, <1>10 DEF SameButLinks, z
  <2> QED  BY <2>1, <2>3, <2>4 DEF SameFree
<1> DEFINE h == IF z.prev = npos THEN z.next ELSE v[l].head
           t == IF z.next = npos THEN z.prev ELSE v[l].tail
           n == v[l].order_count - 1
           q == v[l].total_quantity - z.quantity
<1>12. /\ w[l] \in LevelRec /\ w[l].side = v[l].side /\ w[l].price = v[l].price
       /\ w[l].head = h /\ w[l].tail = t /\ w[l].order_count = n /\ w[l].total_quantity = q
       /\ w = [k \in Slots |-> w[k]] /\ \A k \in Slots \ {l} : w[k] = v[k]
  <2>1. v[l] \in LevelRec /\ h \in OptSlot /\ t \in OptSlot /\ n \in Int /\ q \in Int
    <3>1. z.quantity \in Nat
      BY <1>5 DEF OrderRec
    <3>2. v[l] \in LevelRec /\ v[l].head \in OptSlot /\ v[l].tail \in OptSlot /\ v[l].order_count \in Int /\ v[l].total_quantity \in Int
      BY <1>4, <1>5 DEF LevelRec
    <3> QED  BY <1>56, <3>1, <3>2
  <2>2. Left(v[l], z) = WithList(v[l], h, t, n, q)
    BY <2>1, LeftIs
  <2> HIDE DEF h, n, q, t, l
  <2>3. w[l] = WithList(v[l], h, t, n, q) /\ w = [k \in Slots |-> w[k]] /\ \A k \in Slots \ {l} : w[k] = v[k]
    BY <1>4, <1>5, <2>2
  <2> HIDE DEF w
  <2> QED  BY <2>1, <2>3, WithListIs
<1> HIDE DEF w
<1>13. LevelsType(w, lv) /\ SameLevels(v, w, lv) /\ SameFree(v, w, lv)
  BY <1>4, <1>5, <1>12 DEF LevelsType, SameLevels, SameFree
<1>14. Lists(p, w, on \ {x}, lv)
  <2>1. /\ on \subseteq Slots /\ l = o[x].level /\ Lists(o, v, on, lv) /\ l \in lv
    BY <1>3, <1>5 DEF z
  <2>2. SameButLinks(o, p, on) /\ SameLevels(v, w, lv)
    BY <1>11, <1>13 DEF SameButLinks
  <2>3. \A i \in on : o[i].quantity \in Nat
    BY <1>3 DEF OrderRec
  <2>4. \A i \in on \ {x} : /\ p[i].next = IF i = o[x].prev THEN o[x].next ELSE o[i].next
                            /\ p[i].prev = IF i = o[x].next THEN o[x].prev ELSE o[i].prev
    BY <1>6, <1>10 DEF z
  <2>5. /\ \A k \in lv \ {l} : w[k] = v[k]
        /\ w[l].head = IF o[x].prev = npos THEN o[x].next ELSE v[l].head
        /\ w[l].tail = IF o[x].next = npos THEN o[x].prev ELSE v[l].tail
        /\ w[l].order_count = v[l].order_count - 1
        /\ w[l].total_quantity = v[l].total_quantity - o[x].quantity
    BY <1>4, <1>12 DEF z
  <2> HIDE DEF l
  <2> QED  BY ONLY <1>66, <2>1, <2>2, <2>3, <2>4, <2>5, ListsLeave
<1> QED  BY <1>2, <1>9, <1>11, <1>13, <1>14 DEF Relinked, o, v, c

-----------------------------------------------------------------------------
(* The level structures: pool, table, ladders. *)

TS == next_power_of_two(Capacity * 2)

(* The levels lv are in the pool v, in the table t by side and price, and  *)
(* on the ladder of their side; all other slots of the pool are free.      *)
Prices(v) == [l \in {k \in Slots : v[k].active} |-> v[l].price]

OfSide(v, lv, sd) == {l \in lv : v[l].side = sd}

LevelIndex(v, lv, c) ==
  /\ DOMAIN c = {<<v[l].side, v[l].price>> : l \in lv}
  /\ \A l \in lv : c[<<v[l].side, v[l].price>>] = l

OnLadders(v, lad, lv) ==
  /\ lad = [sd \in Side |-> lad[sd]]
  /\ \A sd \in Side : GoodLadder(sd, Prices(v), lad[sd], OfSide(v, lv, sd),
                                 Cardinality(OfSide(v, lv, sd)))

LevelsHeld(v, first, t, lad, lv) ==
  /\ LevelsType(v, lv) /\ Chain(v, first, Slots \ lv)
  /\ \E c : TableOf(TS, LevelHash, t, c) /\ LevelIndex(v, lv, c)
  /\ OnLadders(v, lad, lv)

(* The tables have more slots than the pools. *)
LEMMA TableSlotsIs == TS \in Nat \ {0} /\ TS > Capacity /\ TableSlots = 0 .. TS - 1
<1>1. Capacity * 2 \in Nat /\ Capacity \in Nat /\ Capacity > 0
  BY OrderBookAssumption
<1>2. TS \in Nat /\ TS >= Capacity * 2
  BY <1>1, PowerIsEnough DEF TS
<1> QED  BY <1>1, <1>2 DEF TableSlots, TS

(* The prices the ladders compare are those of the active levels. *)
LEMMA PricesOf ==
  ASSUME NEW v, NEW lv, LevelsType(v, lv)
  PROVE  /\ Prices(v) = [l \in lv |-> v[l].price]
         /\ \A l \in lv : Prices(v)[l] = v[l].price /\ v[l].price \in Int /\ v[l].side \in Side
                          /\ v[l].price \in Price
         /\ {k \in Slots : v[k].active} = lv
<1>1. /\ lv \subseteq Slots /\ \A l \in lv : v[l] \in LevelRec
      /\ \A l \in Slots \ lv : v[l] \in FreeRec
  BY DEF LevelsType
<1>2. \A l \in lv : v[l].active = TRUE /\ v[l].price \in Price /\ v[l].side \in Side
  BY <1>1 DEF LevelRec
<1>3. \A l \in Slots \ lv : v[l].active = FALSE
  BY <1>1 DEF FreeRec
<1>4. {k \in Slots : v[k].active} = lv
  BY <1>1, <1>2, <1>3
<1>5. Prices(v) = [l \in lv |-> v[l].price]
  BY <1>4 DEF Prices
<1> QED  BY <1>2, <1>4, <1>5, InputAssumption

(* No two levels have the same side and price. *)
LEMMA LevelsDistinct ==
  ASSUME NEW v, NEW first, NEW t, NEW lad, NEW lv, LevelsHeld(v, first, t, lad, lv)
  PROVE  \A l, k \in lv : v[l].side = v[k].side /\ v[l].price = v[k].price => l = k
<1>1. PICK c : LevelIndex(v, lv, c)
  BY DEF LevelsHeld
<1> QED  BY <1>1 DEF LevelIndex

(* Prices order the levels of one side: no two have the same.              *)
LEMMA LevelsOrdered ==
  ASSUME NEW sd, NEW pr, NEW S, \A l \in S : pr[l] \in Int,
         \A l, k \in S : pr[l] = pr[k] => l = k
  PROVE  Ordered(sd, pr, S)
  BY DEF Ordered, ladder_before

(* A ladder is in order as long as the prices of its levels do not change. *)
LEMMA LadderSame ==
  ASSUME NEW sd, NEW pr, NEW qr, NEW S, NEW n \in Nat, NEW l, GoodLadder(sd, pr, l, S, n),
         \A k \in S : qr[k] = pr[k]
  PROVE  GoodLadder(sd, qr, l, S, n)
<1>1. \A p \in 0 .. n - 1 : l.heap[p] \in S
  BY DEF GoodLadder, Shape
<1>2. \A p \in 1 .. n - 1 : Parent(p) \in 0 .. n - 1 /\ p \in 0 .. n - 1
  BY ParentIs
<1>3. Heap(sd, qr, l.heap, n)
  BY <1>1, <1>2 DEF GoodLadder, Heap, Edge, ladder_before
<1> QED  BY <1>3 DEF GoodLadder

(* Nothing of this changes with the lists of the levels. *)
LEMMA LevelsSame ==
  ASSUME NEW v, NEW w, NEW first, NEW t, NEW lad, NEW lv, LevelsHeld(v, first, t, lad, lv),
         LevelsType(w, lv), SameLevels(v, w, lv), SameFree(v, w, lv)
  PROVE  LevelsHeld(w, first, t, lad, lv)
<1>1. Chain(w, first, Slots \ lv)
  <2>1. \A i \in Slots \ lv : w[i].next_free = v[i].next_free
    BY DEF SameFree
  <2>2. Chain(v, first, Slots \ lv) /\ Slots \ lv \in SUBSET Slots
    BY DEF LevelsHeld
  <2> QED  BY <2>1, <2>2, ChainSame
<1>2. PICK c : TableOf(TS, LevelHash, t, c) /\ LevelIndex(v, lv, c)
  BY DEF LevelsHeld
<1>3. LevelIndex(w, lv, c)
  BY <1>2 DEF LevelIndex, SameLevels
<1>4. \A l \in lv : Prices(w)[l] = Prices(v)[l]
  <2>1. LevelsType(v, lv)
    BY DEF LevelsHeld
  <2> QED  BY <2>1, PricesOf DEF SameLevels
<1>5. ASSUME NEW sd \in Side
      PROVE  GoodLadder(sd, Prices(w), lad[sd], OfSide(w, lv, sd), Cardinality(OfSide(w, lv, sd)))
  <2>1. OfSide(w, lv, sd) = OfSide(v, lv, sd) /\ OfSide(v, lv, sd) \subseteq lv
    BY DEF OfSide, SameLevels
  <2> DEFINE S == OfSide(v, lv, sd)
             n == Cardinality(S)
  <2>2. GoodLadder(sd, Prices(v), lad[sd], S, n)
    BY DEF LevelsHeld, OnLadders
  <2>3. S \in SUBSET Slots
    BY <2>1 DEF LevelsType
  <2> HIDE DEF S
  <2>4. n \in Nat
    BY <2>3, SlotsFinite
  <2>5. \A k \in S : Prices(w)[k] = Prices(v)[k]
    BY <1>4, <2>1 DEF S
  <2>6. GoodLadder(sd, Prices(w), lad[sd], S, n)
    <3> QED  BY <2>2, <2>4, <2>5, LadderSame
  <2> QED  BY <2>1, <2>6 DEF S
<1>6. OnLadders(w, lad, lv)
  BY <1>5 DEF OnLadders, LevelsHeld
<1> QED  BY <1>1, <1>2, <1>3, <1>6 DEF LevelsHeld

(* f is the level of a side and price; npos if there is none. *)
LevelFound(v, lv, sd, pr, f) ==
  /\ f # npos => f \in lv /\ v[f].side = sd /\ v[f].price = pr
  /\ f = npos => \A l \in lv : ~(v[l].side = sd /\ v[l].price = pr)

(* find_level_index finds the level of a side and price if there is one.   *)
LEMMA FindLevel ==
  ASSUME NEW v, NEW first, NEW t, NEW lad, NEW lv, LevelsHeld(v, first, t, lad, lv),
         NEW sd \in Side, NEW pr \in Price
  PROVE  LevelFound(v, lv, sd, pr, find(t, LevelHash[sd, pr], <<sd, pr>>))
<1> USE DEF LevelFound
<1>1. PICK c : TableOf(TS, LevelHash, t, c) /\ LevelIndex(v, lv, c)
  BY DEF LevelsHeld
<1> DEFINE key == <<sd, pr>>
           f == find(t, LevelHash[key], key)
<1>2. key \in DOMAIN LevelHash
  BY OrderBookAssumption
<1>3. f = IF key \in DOMAIN c THEN c[key] ELSE npos
  <2> HIDE DEF key
  <2> QED  BY <1>1, <1>2, FindIs
<1>4. npos \notin lv
  BY SlotsFinite DEF LevelsHeld, LevelsType
<1>5. CASE key \in DOMAIN c
  <2>1. PICK l \in lv : key = <<v[l].side, v[l].price>>
    BY <1>1, <1>5 DEF LevelIndex
  <2>2. f = l
    BY <1>1, <1>3, <1>5, <2>1 DEF LevelIndex
  <2>3. v[l].side = sd /\ v[l].price = pr
    BY <2>1
  <2> QED  BY <1>4, <2>2, <2>3
<1>6. CASE key \notin DOMAIN c
  <2>1. \A l \in lv : <<v[l].side, v[l].price>> # key
    BY <1>1, <1>6 DEF LevelIndex
  <2>2. \A l \in lv : ~(v[l].side = sd /\ v[l].price = pr)
    BY <2>1
  <2> QED  BY <1>3, <1>6, <2>2
<1> QED  BY <1>5, <1>6

(* w is the pool v with the level r of a new side and price in the first   *)
(* free slot.                                                              *)
CanAdd(v, first, t, lad, lv, sd, pr, key, r, w) ==
  /\ LevelsHeld(v, first, t, lad, lv) /\ first # npos
  /\ sd \in Side /\ pr \in Price
  /\ \A l \in lv : ~(v[l].side = sd /\ v[l].price = pr)
  /\ key = <<sd, pr>> /\ CanInsert(t, LevelHash[key], FALSE)
  /\ r \in LevelRec /\ r.side = sd /\ r.price = pr
  /\ w = [v EXCEPT ![first] = r]

(* acquire_level takes a free slot for a new side and price.               *)
LEMMA LevelAdded ==
  ASSUME NEW v, NEW first, NEW t, NEW lad, NEW lv, NEW sd, NEW pr, NEW key, NEW r, NEW w,
         CanAdd(v, first, t, lad, lv, sd, pr, key, r, w)
  PROVE  /\ first \in Slots \ lv
         /\ LevelsHeld(w, v[first].next_free, insert(t, LevelHash[key], key, first, FALSE),
                       [lad EXCEPT ![sd] = ladder_push(sd, Prices(w), lad[sd], first)],
                       lv \cup {first})
<1> USE DEF CanAdd
<1> DEFINE more == lv \cup {first}
           lad2 == [lad EXCEPT ![sd] = ladder_push(sd, Prices(w), lad[sd], first)]
           u == insert(t, LevelHash[key], key, first, FALSE)
<1>1. /\ LevelsType(v, lv) /\ Chain(v, first, Slots \ lv) /\ OnLadders(v, lad, lv)
      /\ lv \subseteq Slots /\ v = [k \in Slots |-> v[k]]
      /\ \A l \in lv : v[l] \in LevelRec
      /\ \A l \in Slots \ lv : v[l] \in FreeRec
  BY DEF LevelsHeld, LevelsType
<1>2. first \in Slots \ lv
  <2>1. Slots \ lv \in SUBSET Slots
    OBVIOUS
  <2> QED  BY <1>1, <2>1, ChainFirst
<1>3. /\ w = [k \in Slots |-> w[k]] /\ w[first] = r /\ \A k \in Slots \ {first} : w[k] = v[k]
  BY <1>1, <1>2
<1>4. LevelsType(w, more)
  BY <1>1, <1>2, <1>3 DEF LevelsType
<1>5. Chain(w, v[first].next_free, Slots \ more)
  <2> DEFINE S == Slots \ lv
  <2>1. S \in SUBSET Slots /\ S \ {first} = Slots \ more
    BY <1>2
  <2>2. \A i \in S \ {first} : w[i].next_free = v[i].next_free
    BY <1>3
  <2>3. Chain(v, first, S)
    BY <1>1
  <2> HIDE DEF S
  <2>4. Chain(w, v[first].next_free, S \ {first})
    BY <2>1, <2>2, <2>3, ChainPop
  <2> QED  BY <2>1, <2>4
<1>6. \E c : TableOf(TS, LevelHash, u, c) /\ LevelIndex(w, more, c)
  <2>1. PICK c : TableOf(TS, LevelHash, t, c) /\ LevelIndex(v, lv, c)
    BY DEF LevelsHeld
  <2>2. key \in DOMAIN LevelHash
    BY OrderBookAssumption
  <2>3. \A l \in lv : key # <<v[l].side, v[l].price>>
    OBVIOUS
  <2>4. key \notin DOMAIN c
    BY <2>1, <2>3 DEF LevelIndex
  <2>5. TableOf(TS, LevelHash, u, With(c, key, first))
    BY <2>1, <2>2, <2>4, InsertOK
  <2>6. LevelIndex(w, more, With(c, key, first))
    <3> DEFINE d == With(c, key, first)
    <3>1. DOMAIN d = DOMAIN c \cup {key} /\ \A k \in DOMAIN d : d[k] = IF k = key THEN first ELSE c[k]
      BY DEF With
    <3>2. \A l \in lv : w[l].side = v[l].side /\ w[l].price = v[l].price
      BY <1>1, <1>2, <1>3
    <3>3. <<w[first].side, w[first].price>> = key
      BY <1>3
    <3> HIDE DEF d
    <3>4. DOMAIN d = {<<w[l].side, w[l].price>> : l \in more}
      BY <2>1, <3>1, <3>2, <3>3 DEF LevelIndex
    <3>5. \A l \in lv : d[<<w[l].side, w[l].price>>] = l
      BY <2>1, <2>3, <3>1, <3>2 DEF LevelIndex
    <3>6. d[<<w[first].side, w[first].price>>] = first
      BY <3>1, <3>3
    <3> QED  BY <3>4, <3>5, <3>6 DEF LevelIndex, d
  <2> QED  BY <2>5, <2>6
<1>7. OnLadders(w, lad2, more)
  <2>1. \A l \in lv : Prices(w)[l] = Prices(v)[l] /\ w[l].side = v[l].side /\ w[l].price = v[l].price
    <3>1. \A l \in lv : w[l] = v[l]
      BY <1>1, <1>2, <1>3
    <3> QED  BY <1>1, <1>4, <3>1, PricesOf
  <2>2. /\ lad2 = [z \in Side |-> lad2[z]] /\ lad2[sd] = ladder_push(sd, Prices(w), lad[sd], first)
        /\ \A z \in Side \ {sd} : lad2[z] = lad[z]
    BY <1>1 DEF OnLadders
  <2> HIDE DEF lad2
  <2>3. ASSUME NEW z \in Side
        PROVE  GoodLadder(z, Prices(w), lad2[z], OfSide(w, more, z), Cardinality(OfSide(w, more, z)))
    <3> DEFINE S == OfSide(v, lv, z)
               n == Cardinality(S)
    <3>1. S \subseteq lv /\ S \in SUBSET Slots /\ first \notin S
      BY <1>1, <1>2 DEF OfSide
    <3>2. GoodLadder(z, Prices(v), lad[z], S, n) /\ n \in Nat /\ IsFiniteSet(S)
      BY <1>1, <3>1, SlotsFinite DEF OnLadders
    <3>3. GoodLadder(z, Prices(w), lad[z], S, n)
      <4>1. \A k \in S : Prices(w)[k] = Prices(v)[k]
        BY <2>1, <3>1
      <4> HIDE DEF S, n
      <4> QED  BY <3>2, <4>1, LadderSame
    <3>4. CASE z # sd
      <4>1. OfSide(w, more, z) = S
        BY <1>3, <2>1, <3>4 DEF OfSide
      <4> QED  BY <2>2, <3>3, <3>4, <4>1
    <3>5. CASE z = sd
      <4>1. OfSide(w, more, z) = S \cup {first}
        BY <1>3, <2>1, <3>5 DEF OfSide
      <4>2. Ordered(z, Prices(w), S \cup {first})
        <5>1. \A l \in S \cup {first} : Prices(w)[l] = w[l].price /\ w[l].price \in Int
          <6>1. S \cup {first} \subseteq more
            BY <3>1
          <6> HIDE DEF more, S
          <6>2. \A l \in more : Prices(w)[l] = w[l].price /\ w[l].price \in Int
            BY <1>4, PricesOf
          <6> QED  BY <6>1, <6>2
        <5>2. \A l, k \in lv : v[l].side = v[k].side /\ v[l].price = v[k].price => l = k
          BY LevelsDistinct
        <5>3. \A l \in S : w[l].price = v[l].price /\ v[l].side = sd /\ l \in lv
          BY <2>1, <3>5 DEF OfSide
        <5>4. w[first].price = pr
          BY <1>3
        <5> HIDE DEF S
        <5>6. \A l \in S : w[l].price # pr
          <6>1. \A l \in lv : ~(v[l].side = sd /\ v[l].price = pr)
            OBVIOUS
          <6> QED  BY ONLY <5>3, <6>1
        <5>7. \A l, k \in S : w[l].price = w[k].price => l = k
          BY <5>2, <5>3
        <5>5. \A l, k \in S \cup {first} : w[l].price = w[k].price => l = k
          BY <5>4, <5>6, <5>7
        <5> QED  BY <5>1, <5>5, LevelsOrdered
      <4>3. Cardinality(S \cup {first}) = n + 1
        BY <3>1, <3>2, FS_AddElement
      <4> HIDE DEF S, n
      <4>4. GoodLadder(z, Prices(w), ladder_push(z, Prices(w), lad[z], first), S \cup {first}, n + 1)
        BY <3>1, <3>2, <3>3, <4>2, PushOK
      <4> QED  BY <2>2, <3>5, <4>1, <4>3, <4>4
    <3> QED  BY <3>4, <3>5
  <2> QED  BY <2>2, <2>3 DEF OnLadders
<1> QED  BY <1>2, <1>4, <1>5, <1>6, <1>7 DEF LevelsHeld

(* release_level gives the slot back. *)
LEMMA LevelDropped ==
  ASSUME NEW v, NEW first, NEW t, NEW lad, NEW lv, LevelsHeld(v, first, t, lad, lv),
         NEW x \in lv, NEW sd, sd = v[x].side, NEW key, key = <<sd, v[x].price>>,
         NEW w, w = [v EXCEPT ![x] = FreeSlot(first)]
  PROVE  LevelsHeld(w, x, erase(t, LevelHash[key], key),
                    [lad EXCEPT ![sd] = ladder_remove(sd, Prices(v), lad[sd], x)], lv \ {x})
<1> DEFINE less == lv \ {x}
           lad2 == [lad EXCEPT ![sd] = ladder_remove(sd, Prices(v), lad[sd], x)]
           u == erase(t, LevelHash[key], key)
<1>1. /\ LevelsType(v, lv) /\ Chain(v, first, Slots \ lv) /\ OnLadders(v, lad, lv)
      /\ lv \subseteq Slots /\ v = [k \in Slots |-> v[k]]
      /\ \A l \in lv : v[l] \in LevelRec
      /\ \A l \in Slots \ lv : v[l] \in FreeRec
  BY DEF LevelsHeld, LevelsType
<1>2. x \in Slots /\ Slots \ lv \in SUBSET Slots /\ first \in OptSlot /\ sd \in Side
  <2>1. Slots \ lv \in SUBSET Slots
    OBVIOUS
  <2>2. first # npos => first \in Slots
    BY <1>1, <2>1, ChainFirst
  <2> QED  BY <1>1, <2>1, <2>2 DEF OptSlot, LevelRec
<1>3. /\ w = [k \in Slots |-> w[k]] /\ w[x] = FreeSlot(first) /\ \A k \in Slots \ {x} : w[k] = v[k]
  BY <1>1, <1>2
<1>4. w[x] \in FreeRec /\ w[x].next_free = first
  BY <1>2, <1>3 DEF FreeSlot, FreeRec
<1>5. LevelsType(w, less)
  BY <1>1, <1>2, <1>3, <1>4 DEF LevelsType
<1>6. Chain(w, x, Slots \ less)
  <2> DEFINE S == Slots \ lv
  <2>1. S \in SUBSET Slots /\ x \in Slots \ S /\ S \cup {x} = Slots \ less
    BY <1>2
  <2>2. \A i \in S : w[i].next_free = v[i].next_free
    BY <1>3
  <2>3. Chain(v, first, S)
    BY <1>1
  <2> HIDE DEF S
  <2>4. Chain(w, x, S \cup {x})
    BY <1>4, <2>1, <2>2, <2>3, ChainPush
  <2> QED  BY <2>1, <2>4
<1>7. \E c : TableOf(TS, LevelHash, u, c) /\ LevelIndex(w, less, c)
  <2>1. PICK c : TableOf(TS, LevelHash, t, c) /\ LevelIndex(v, lv, c)
    BY DEF LevelsHeld
  <2>2. key \in DOMAIN c
    BY <2>1 DEF LevelIndex
  <2>3. TableOf(TS, LevelHash, u, Without(c, key))
    BY <2>1, <2>2, EraseOK
  <2>4. LevelIndex(w, less, Without(c, key))
    <3> DEFINE d == Without(c, key)
    <3>1. DOMAIN d = DOMAIN c \ {key} /\ \A k \in DOMAIN d : d[k] = c[k]
      BY DEF Without
    <3>2. \A l \in less : w[l].side = v[l].side /\ w[l].price = v[l].price
      BY <1>1, <1>3
    <3>3. \A l \in less : <<v[l].side, v[l].price>> # key
      BY <2>1 DEF LevelIndex
    <3> HIDE DEF d
    <3>4. DOMAIN d = {<<w[l].side, w[l].price>> : l \in less}
      BY <2>1, <3>1, <3>2, <3>3 DEF LevelIndex
    <3>5. \A l \in less : d[<<w[l].side, w[l].price>>] = l
      BY <2>1, <3>1, <3>2, <3>4 DEF LevelIndex
    <3> QED  BY <3>4, <3>5 DEF LevelIndex, d
  <2> QED  BY <2>3, <2>4
<1>8. OnLadders(w, lad2, less)
  <2>1. \A l \in less : Prices(w)[l] = Prices(v)[l] /\ w[l].side = v[l].side /\ w[l].price = v[l].price
    <3>1. \A l \in less : w[l] = v[l]
      BY <1>1, <1>3
    <3> QED  BY <1>1, <1>5, <3>1, PricesOf
  <2>2. /\ lad2 = [z \in Side |-> lad2[z]] /\ lad2[sd] = ladder_remove(sd, Prices(v), lad[sd], x)
        /\ \A z \in Side \ {sd} : lad2[z] = lad[z]
    BY <1>1, <1>2 DEF OnLadders
  <2> HIDE DEF lad2
  <2>3. ASSUME NEW z \in Side
        PROVE  GoodLadder(z, Prices(w), lad2[z], OfSide(w, less, z), Cardinality(OfSide(w, less, z)))
    <3> DEFINE S == OfSide(v, lv, z)
               n == Cardinality(S)
    <3>1. S \subseteq lv /\ S \in SUBSET Slots
      BY <1>1 DEF OfSide
    <3>2. GoodLadder(z, Prices(v), lad[z], S, n) /\ n \in Nat /\ IsFiniteSet(S)
      BY <1>1, <3>1, SlotsFinite DEF OnLadders
    <3>4. CASE z # sd
      <4>1. OfSide(w, less, z) = S /\ S \subseteq less
        BY <2>1, <3>4 DEF OfSide
      <4>2. \A k \in S : Prices(w)[k] = Prices(v)[k]
        BY <2>1, <4>1
      <4>3. GoodLadder(z, Prices(w), lad[z], S, n)
        <5> HIDE DEF S, n
        <5> QED  BY <3>2, <4>2, LadderSame
      <4> QED  BY <2>2, <3>4, <4>1, <4>3
    <3>5. CASE z = sd
      <4>1. OfSide(w, less, z) = S \ {x} /\ x \in S
        BY <2>1, <3>5 DEF OfSide
      <4>2. Ordered(z, Prices(v), S)
        <5>1. \A l \in S : Prices(v)[l] = v[l].price /\ v[l].price \in Int
          BY <1>1, <3>1, PricesOf
        <5>2. \A l, k \in lv : v[l].side = v[k].side /\ v[l].price = v[k].price => l = k
          BY LevelsDistinct
        <5>3. \A l, k \in S : v[l].price = v[k].price => l = k
          BY <5>2 DEF OfSide
        <5> HIDE DEF S
        <5> QED  BY <5>1, <5>3, LevelsOrdered
      <4>3. Cardinality(S \ {x}) = n - 1
        BY <3>2, <4>1, FS_RemoveElement
      <4>5. \A k \in S \ {x} : Prices(w)[k] = Prices(v)[k]
        BY <2>1, <3>1
      <4> HIDE DEF S, n
      <4>4. n > 0 /\ GoodLadder(z, Prices(v), ladder_remove(z, Prices(v), lad[z], x), S \ {x}, n - 1)
        BY <3>2, <4>1, <4>2, RemoveOK
      <4>6. GoodLadder(z, Prices(w), ladder_remove(z, Prices(v), lad[z], x), S \ {x}, n - 1)
        <5> DEFINE R == S \ {x}
                   m == n - 1
                   rl == ladder_remove(z, Prices(v), lad[z], x)
        <5>1. m \in Nat
          BY <3>2, <4>4
        <5>2. GoodLadder(z, Prices(v), rl, R, m) /\ \A k \in R : Prices(w)[k] = Prices(v)[k]
          BY <4>4, <4>5
        <5> HIDE DEF R, m, rl
        <5>3. GoodLadder(z, Prices(w), rl, R, m)
          BY <5>1, <5>2, LadderSame
        <5> QED  BY <5>3 DEF R, m, rl
      <4> QED  BY <2>2, <3>5, <4>1, <4>3, <4>6
    <3> QED  BY <3>4, <3>5
  <2> QED  BY <2>2, <2>3 DEF OnLadders
<1> QED  BY <1>5, <1>6, <1>7, <1>8 DEF LevelsHeld

(* The book b with other level structures. *)
WithLevels(b, v, t, lad, first) ==
  [orders_ |-> b.orders_, levels_ |-> v,
   order_lookup_ |-> b.order_lookup_, level_lookup_ |-> t,
   ladder |-> lad, free_order_ |-> b.free_order_,
   free_level_ |-> first, active_orders_ |-> b.active_orders_,
   next_priority_ |-> b.next_priority_, fill_sequence_ |-> b.fill_sequence_]

SameOrderFields(b, c) ==
  /\ c.order_lookup_ = b.order_lookup_ /\ c.free_order_ = b.free_order_
  /\ c.active_orders_ = b.active_orders_ /\ c.next_priority_ = b.next_priority_
  /\ c.fill_sequence_ = b.fill_sequence_

LEMMA SameOrderTrans ==
  ASSUME NEW a, NEW b, NEW c, SameOrderFields(a, b), SameOrderFields(b, c)
  PROVE  SameOrderFields(a, c)
BY DEF SameOrderFields

(* The members of a book with other level structures. *)
LEMMA WithLevelsIs ==
  ASSUME NEW b, NEW v, NEW t, NEW lad, NEW first, NEW c, c = WithLevels(b, v, t, lad, first)
  PROVE  /\ IsBook(c) /\ SameOrderFields(b, c) /\ c.orders_ = b.orders_
         /\ c.levels_ = v /\ c.level_lookup_ = t /\ c.ladder = lad /\ c.free_level_ = first
  BY DEF IsBook, SameOrderFields, WithLevels

BookLevels(b, lv) ==
  LevelsHeld(b.levels_, b.free_level_, b.level_lookup_, b.ladder, lv)

(* A new level has no orders; it and an empty one may come and go.         *)
LEMMA ListsMoreLevels ==
  ASSUME NEW o, NEW v, NEW w, NEW on, NEW lv, Lists(o, v, on, lv), NEW x, x \notin lv,
         \A k \in lv : w[k] = v[k], w[x].head = npos, w[x].tail = npos,
         w[x].order_count = 0, w[x].total_quantity = 0
  PROVE  Lists(o, w, on, lv \cup {x})
<1>1. OnLevel(o, on, x) = {}
  BY DEF OnLevel, Lists, Placed
<1>2. Ends(o, on, x, npos, npos)
  BY <1>1 DEF Ends, FirstOf, LastOf
<1>3. Tally(o, on, x, 0, 0)
  BY <1>1, FS_EmptySet, SumEmpty DEF Tally
<1>4. Listed(o, w, on, lv \cup {x})
  BY <1>2, <1>3 DEF Lists, Listed
<1>5. Placed(o, w, on, lv \cup {x})
  BY DEF Lists, Placed
<1> QED  BY <1>4, <1>5 DEF Lists

(* A level without orders may go. *)
LEMMA ListsFewerLevels ==
  ASSUME NEW o, NEW v, NEW w, NEW on, NEW lv, Lists(o, v, on, lv), NEW x,
         OnLevel(o, on, x) = {}, \A k \in lv \ {x} : w[k] = v[k]
  PROVE  Lists(o, w, on, lv \ {x})
<1>1. Listed(o, w, on, lv \ {x})
  BY DEF Lists, Listed
<1>2. Placed(o, w, on, lv \ {x})
  BY DEF Lists, Placed, OnLevel
<1> QED  BY <1>1, <1>2 DEF Lists

(* acquire_level, member by member. *)
NewLevel(sd, pr) ==
  [price |-> pr, side |-> sd, active |-> TRUE, total_quantity |-> 0,
   order_count |-> 0, head |-> npos, tail |-> npos]

AcquiredBook(b, sd, pr) ==
  LET v == [b.levels_ EXCEPT ![b.free_level_] = NewLevel(sd, pr)]
      key == <<sd, pr>>
  IN  WithLevels(b, v, insert(b.level_lookup_, LevelHash[key], key, b.free_level_, FALSE),
                 [b.ladder EXCEPT ![sd] = ladder_push(sd, Prices(v), b.ladder[sd], b.free_level_)],
                 b.levels_[b.free_level_].next_free)

(* acquire_level returns a level that is there, or none, or a new one. *)
LEMMA AcquireIs ==
  ASSUME NEW b, IsBook(b), NEW sd, NEW pr
  PROVE  acquire_level(b, sd, pr) =
           LET found == find_level_index(b, sd, pr) IN
           IF found # npos THEN [level |-> found, book |-> b]
           ELSE IF b.free_level_ = npos \/ ~CanInsert(b.level_lookup_, LevelHash[<<sd, pr>>], FALSE)
             THEN [level |-> npos, book |-> b]
           ELSE [level |-> b.free_level_, book |-> AcquiredBook(b, sd, pr)]
<1> DEFINE index == b.free_level_
           key == <<sd, pr>>
           new == NewLevel(sd, pr)
           after == b.levels_[index].next_free
           popped == [b EXCEPT !.free_level_ = after, !.levels_[index] = new,
                               !.level_lookup_ = insert(@, LevelHash[key], key, index, FALSE)]
           done == [popped EXCEPT !.ladder[sd] = ladder_push(sd, LevelPrice(popped), @, index)]
<1>1. acquire_level(b, sd, pr) =
           LET found == find_level_index(b, sd, pr) IN
           IF found # npos THEN [level |-> found, book |-> b]
           ELSE IF index = npos THEN [level |-> npos, book |-> b]
           ELSE IF ~CanInsert(b.level_lookup_, LevelHash[key], FALSE)
             THEN [level |-> npos, book |-> b]
           ELSE [level |-> index, book |-> done]
  BY DEF acquire_level, NewLevel
<1> DEFINE v == b.levels_
           t == b.level_lookup_
           lad == b.ladder
           v2 == [v EXCEPT ![index] = new]
           t2 == insert(t, LevelHash[key], key, index, FALSE)
           b1 == [b EXCEPT !.free_level_ = after]
           b2 == [b1 EXCEPT !.levels_[index] = new]
           b3 == [b2 EXCEPT !.level_lookup_ = insert(@, LevelHash[key], key, index, FALSE)]
<1> HIDE DEF after, new, index, key
<1>2. b1 = WithLevels(b, v, t, lad, after)
  BY DEF IsBook, WithLevels
<1> HIDE DEF b1, v, t, lad
<1>3. b2 = WithLevels(b, v2, t, lad, after)
  BY <1>2 DEF WithLevels
<1> HIDE DEF b2, v2
<1>4. b3 = WithLevels(b, v2, t2, lad, after)
  <2>1. b2.level_lookup_ = t
    BY <1>3 DEF WithLevels
  <2>2. b3 = [b2 EXCEPT !.level_lookup_ = t2]
    BY <2>1, Zenon
  <2> HIDE DEF b3, t2
  <2> QED  BY <1>3, <2>2 DEF WithLevels
<1>5. popped = b3
  BY DEF b1, b2
<1> HIDE DEF b3, popped, t2
<1>6. popped.levels_ = v2 /\ popped.ladder = lad
  BY <1>4, <1>5 DEF WithLevels
<1>7. LevelPrice(popped) = Prices(v2)
  BY <1>6 DEF LevelPrice, Prices
<1> DEFINE lad2 == [lad EXCEPT ![sd] = ladder_push(sd, Prices(v2), lad[sd], index)]
<1>8. done = WithLevels(b, v2, t2, lad2, after)
  BY <1>4, <1>5, <1>7 DEF WithLevels
<1>9. done = AcquiredBook(b, sd, pr)
  <2> HIDE DEF done
  <2> QED  BY <1>8 DEF AcquiredBook, v2, t2, v, t, lad, after, new, index, key
<1> HIDE DEF done
<1> QED  BY <1>1, <1>9 DEF index, key

Acquired(b, lv, on, sd, pr, r) ==
  /\ r.level \in Slots /\ r.level # npos
  /\ IsBook(r.book) /\ SameOrderFields(b, r.book) /\ r.book.orders_ = b.orders_
  /\ BookLevels(r.book, lv \cup {r.level})
  /\ Lists(b.orders_, r.book.levels_, on, lv \cup {r.level})
  /\ r.book.levels_[r.level].side = sd /\ r.book.levels_[r.level].price = pr

(* acquire_level fails and changes nothing, or returns the level of the    *)
(* side and price, in a book with that level and the same lists.           *)
LEMMA AcquireOK ==
  ASSUME NEW b, IsBook(b), NEW lv, BookLevels(b, lv), NEW on, Lists(b.orders_, b.levels_, on, lv),
         NEW sd \in Side, NEW pr \in Price
  PROVE  \/ acquire_level(b, sd, pr).level = npos /\ acquire_level(b, sd, pr).book = b
         \/ Acquired(b, lv, on, sd, pr, acquire_level(b, sd, pr))
<1> DEFINE r == acquire_level(b, sd, pr)
           found == find_level_index(b, sd, pr)
           key == <<sd, pr>>
           x == b.free_level_
<1>1. /\ found # npos => found \in lv /\ b.levels_[found].side = sd /\ b.levels_[found].price = pr
      /\ found = npos => \A l \in lv : ~(b.levels_[l].side = sd /\ b.levels_[l].price = pr)
  <2>1. LevelFound(b.levels_, lv, sd, pr, found)
    BY FindLevel DEF find_level_index, BookLevels
  <2> QED  BY <2>1 DEF LevelFound
<1>2. lv \subseteq Slots
  BY DEF BookLevels, LevelsHeld, LevelsType
<1>3. r = IF found # npos THEN [level |-> found, book |-> b]
          ELSE IF x = npos \/ ~CanInsert(b.level_lookup_, LevelHash[key], FALSE)
            THEN [level |-> npos, book |-> b]
          ELSE [level |-> x, book |-> AcquiredBook(b, sd, pr)]
  BY AcquireIs
<1> HIDE DEF r, found, key
<1>4. CASE found # npos
  <2>1. r.level = found /\ r.book = b /\ lv \cup {found} = lv
    BY <1>1, <1>3, <1>4
  <2> QED  BY <1>1, <1>2, <1>4, <2>1 DEF Acquired, SameOrderFields, r
<1>5. CASE found = npos /\ (x = npos \/ ~CanInsert(b.level_lookup_, LevelHash[key], FALSE))
  <2>1. r.level = npos /\ r.book = b
    BY <1>3, <1>5
  <2> QED  BY <2>1 DEF r
<1>6. CASE found = npos /\ x # npos /\ CanInsert(b.level_lookup_, LevelHash[key], FALSE)
  <2> DEFINE v == b.levels_
             new == NewLevel(sd, pr)
             w == [v EXCEPT ![x] = new]
             t2 == insert(b.level_lookup_, LevelHash[key], key, x, FALSE)
             lad2 == [b.ladder EXCEPT ![sd] = ladder_push(sd, Prices(w), b.ladder[sd], x)]
             c == AcquiredBook(b, sd, pr)
  <2>1. r.level = x /\ r.book = c
    <3> HIDE DEF c
    <3>1. r = [level |-> x, book |-> c]
      BY <1>3, <1>6, Zenon DEF c
    <3> QED  BY <3>1
  <2>2. new \in LevelRec /\ new.side = sd /\ new.price = pr /\ new.head = npos /\ new.tail = npos
        /\ new.order_count = 0 /\ new.total_quantity = 0
    BY DEF NewLevel, LevelRec, OptSlot
  <2>3. c = WithLevels(b, w, t2, lad2, v[x].next_free)
    BY DEF AcquiredBook, key
  <2>4. /\ IsBook(c) /\ SameOrderFields(b, c) /\ c.orders_ = b.orders_
        /\ c.levels_ = w /\ c.level_lookup_ = t2 /\ c.ladder = lad2 /\ c.free_level_ = v[x].next_free
    <3> HIDE DEF c, w, t2, lad2
    <3> QED  BY <2>3, WithLevelsIs
  <2>5. key = <<sd, pr>> /\ w = [v EXCEPT ![x] = new]
    BY DEF key
  <2>6. x \in Slots \ lv /\ LevelsHeld(w, v[x].next_free, t2, lad2, lv \cup {x})
    <3>1. LevelsHeld(v, x, b.level_lookup_, b.ladder, lv)
      BY DEF BookLevels
    <3>2. \A l \in lv : ~(v[l].side = sd /\ v[l].price = pr)
      BY <1>1, <1>6
    <3> DEFINE t == b.level_lookup_
               lad == b.ladder
    <3> HIDE DEF new, w, x, v
    <3>3. LevelsHeld(v, x, t, lad, lv) /\ CanInsert(t, LevelHash[key], FALSE) /\ x # npos
      BY <1>6, <3>1
    <3>5. CanAdd(v, x, t, lad, lv, sd, pr, key, new, w)
      <4> HIDE DEF t, lad
      <4> QED  BY ONLY <2>2, <2>5, <3>2, <3>3, sd \in Side, pr \in Price, Zenon DEF CanAdd
    <3> HIDE DEF t, lad
    <3>4. /\ x \in Slots \ lv
          /\ LevelsHeld(w, v[x].next_free, insert(t, LevelHash[key], key, x, FALSE),
                        [lad EXCEPT ![sd] = ladder_push(sd, Prices(w), lad[sd], x)], lv \cup {x})
      BY ONLY <3>5, LevelAdded
    <3> QED  BY <3>4 DEF t, lad
  <2>7. w[x] = new /\ \A k \in lv : w[k] = v[k]
    <3>1. v = [k \in Slots |-> v[k]]
      BY DEF BookLevels, LevelsHeld, LevelsType
    <3> HIDE DEF v, new
    <3> QED  BY <1>2, <2>6, <3>1
  <2>8. Lists(b.orders_, w, on, lv \cup {x})
    <3> HIDE DEF w, x, new
    <3> QED  BY <2>2, <2>6, <2>7, ListsMoreLevels
  <2>9. BookLevels(c, lv \cup {x})
    BY <2>4, <2>6 DEF BookLevels
  <2>10. w[x].side = sd /\ w[x].price = pr
    BY <2>2, <2>7
  <2> HIDE DEF c, w, x
  <2>11. x # npos
    BY <1>6
  <2> QED  BY <2>1, <2>4, <2>6, <2>8, <2>9, <2>10, <2>11 DEF Acquired, r
<1> QED  BY <1>4, <1>5, <1>6

(* release_level, member by member. *)
Released(b, x, sd, key) ==
  WithLevels(b, [b.levels_ EXCEPT ![x] = FreeSlot(b.free_level_)],
             erase(b.level_lookup_, LevelHash[key], key),
             [b.ladder EXCEPT ![sd] = ladder_remove(sd, Prices(b.levels_), b.ladder[sd], x)], x)

(* release_level assigns to the level structures only. *)
LEMMA ReleaseIs ==
  ASSUME NEW b, IsBook(b), NEW x, NEW sd, sd = b.levels_[x].side,
         NEW key, key = <<sd, b.levels_[x].price>>
  PROVE  release_level(b, x) = Released(b, x, sd, key)
<1> DEFINE v == b.levels_
           t == b.level_lookup_
           lad == b.ladder
           first == b.free_level_
           slot == FreeSlot(first)
           lad2 == [lad EXCEPT ![sd] = ladder_remove(sd, Prices(v), lad[sd], x)]
           t2 == erase(t, LevelHash[key], key)
           v2 == [v EXCEPT ![x] = slot]
           b1 == [b EXCEPT !.ladder[sd] = ladder_remove(sd, LevelPrice(b), @, x)]
           b2 == [b1 EXCEPT !.level_lookup_ = erase(@, LevelHash[key], key)]
           b3 == [b2 EXCEPT !.levels_[x] = slot]
           b4 == [b3 EXCEPT !.free_level_ = x]
<1>1. release_level(b, x) = b4
  BY DEF release_level
<1>2. LevelPrice(b) = Prices(v)
  BY DEF LevelPrice, Prices
<1>3. b1 = [b EXCEPT !.ladder = lad2]
  BY <1>2
<1> HIDE DEF b1, lad2, slot
<1>4. b1 = WithLevels(b, v, t, lad2, first)
  BY <1>3 DEF IsBook, WithLevels
<1> HIDE DEF v, t, first, lad
<1>5. b2 = WithLevels(b, v, t2, lad2, first)
  BY <1>4 DEF WithLevels
<1> HIDE DEF b2, t2
<1>6. b3 = WithLevels(b, v2, t2, lad2, first)
  BY <1>5 DEF WithLevels
<1> HIDE DEF b3, v2
<1>7. b4 = WithLevels(b, v2, t2, lad2, x)
  BY <1>6 DEF WithLevels
<1> HIDE DEF b4
<1> QED  BY <1>1, <1>7 DEF Released, v2, t2, lad2, v, t, lad, first, slot

(* Every level has an order: lv are the levels of the orders on. *)
Used(o, on, lv) == lv = {o[i].level : i \in on}

(* c is the book b with the order x taken off its list, in the levels lv.  *)
TakenOff(b, c, act, on, x, lv) ==
  /\ IsBook(c) /\ SameOrderFields(b, c)
  /\ OrdersType(c.orders_, act) /\ SameButLinks(b.orders_, c.orders_, act)
  /\ SameFree(b.orders_, c.orders_, act)
  /\ BookLevels(c, lv) /\ Lists(c.orders_, c.levels_, on \ {x}, lv)
  /\ Used(c.orders_, on \ {x}, lv)

(* unlink takes the order off its list and leaves no level without orders. *)
LEMMA UnlinkOK ==
  ASSUME NEW b, IsBook(b), NEW act, NEW lv, OrdersType(b.orders_, act), BookLevels(b, lv),
         NEW on, on \subseteq act, NEW x \in on,
         Lists(b.orders_, b.levels_, on, lv), Used(b.orders_, on, lv)
  PROVE  \E rest : TakenOff(b, unlink(b, x), act, on, x, rest)
<1> DEFINE u == Unlinked(b, x)
           l == b.orders_[x].level
           less == on \ {x}
<1>1. LevelsType(b.levels_, lv) /\ act \subseteq Slots
  BY DEF BookLevels, LevelsHeld, OrdersType
<1>2. Relinked(b, u, act, lv) /\ Lists(u.orders_, u.levels_, less, lv)
  BY <1>1, UnlinkedOK
<1>3. unlink(b, x) = IF u.levels_[l].order_count = 0 THEN release_level(u, l) ELSE u
  BY UnlinkIs
<1> HIDE DEF u
<1>4. BookLevels(u, lv)
  <2>1. LevelsHeld(u.levels_, b.free_level_, b.level_lookup_, b.ladder, lv)
    BY <1>2, LevelsSame DEF BookLevels, Relinked
  <2> QED  BY <1>2, <2>1 DEF BookLevels, Relinked, SameFields
<1>5. /\ IsBook(u) /\ SameOrderFields(b, u) /\ OrdersType(u.orders_, act)
      /\ SameButLinks(b.orders_, u.orders_, act) /\ SameFree(b.orders_, u.orders_, act)
  BY <1>2 DEF Relinked, SameFields, SameOrderFields
<1>6. l \in lv /\ \A i \in on : u.orders_[i].level = b.orders_[i].level
  BY <1>5 DEF Used, SameButLinks
<1>7. u.levels_[l].order_count = Cardinality(OnLevel(u.orders_, less, l))
  BY <1>2, <1>6 DEF Lists, Listed, Tally
<1>8. u.levels_[l].order_count = 0 <=> OnLevel(u.orders_, less, l) = {}
  <2>1. OnLevel(u.orders_, less, l) \in SUBSET Slots
    BY <1>1 DEF OnLevel
  <2> QED  BY <1>7, <2>1, SlotsFinite, FS_EmptySet
<1>9. \A k \in lv \ {l} : \E i \in less : u.orders_[i].level = k
  BY <1>6 DEF Used
<1>10. \A i \in less : u.orders_[i].level \in lv
  BY <1>6 DEF Used
<1>11. CASE u.levels_[l].order_count # 0
  <2>1. Used(u.orders_, less, lv)
    <3>1. \E i \in less : u.orders_[i].level = l
      BY <1>8, <1>11 DEF OnLevel
    <3> QED  BY <1>9, <1>10, <3>1 DEF Used
  <2>2. unlink(b, x) = u
    BY <1>3, <1>11
  <2>3. TakenOff(b, u, act, on, x, lv)
    BY <1>2, <1>4, <1>5, <2>1 DEF TakenOff
  <2> QED  BY <2>2, <2>3
<1>12. CASE u.levels_[l].order_count = 0
  <2> DEFINE c == release_level(u, l)
             v == u.levels_
             sd == v[l].side
             key == <<sd, v[l].price>>
             w == [v EXCEPT ![l] = FreeSlot(u.free_level_)]
             t2 == erase(u.level_lookup_, LevelHash[key], key)
             lad2 == [u.ladder EXCEPT ![sd] = ladder_remove(sd, Prices(v), u.ladder[sd], l)]
             rest == lv \ {l}
  <2>1. c = Released(u, l, sd, key)
    BY <1>5, ReleaseIs, SMTT(30)
  <2>2. c = WithLevels(u, w, t2, lad2, l)
    <3> HIDE DEF c
    <3> QED  BY <2>1 DEF Released
  <2>3. /\ IsBook(c) /\ SameOrderFields(u, c) /\ c.orders_ = u.orders_
        /\ c.levels_ = w /\ c.level_lookup_ = t2 /\ c.ladder = lad2 /\ c.free_level_ = l
    <3> HIDE DEF c, w, t2, lad2, l
    <3> QED  BY <2>2, WithLevelsIs
  <2>4. LevelsHeld(w, l, t2, lad2, rest)
    <3> DEFINE first == u.free_level_
               t == u.level_lookup_
               lad == u.ladder
    <3>1. LevelsHeld(v, first, t, lad, lv) /\ w = [v EXCEPT ![l] = FreeSlot(first)]
      BY <1>4 DEF BookLevels
    <3>2. sd = v[l].side /\ key = <<sd, v[l].price>> /\ l \in lv
      BY <1>6
    <3> HIDE DEF w, v, sd, key, first, t, lad, l
    <3>3. LevelsHeld(w, l, erase(t, LevelHash[key], key),
                    [lad EXCEPT ![sd] = ladder_remove(sd, Prices(v), lad[sd], l)], lv \ {l})
      BY <3>1, <3>2, LevelDropped
    <3> QED  BY <3>3 DEF t, lad
  <2>5. BookLevels(c, rest)
    <3> HIDE DEF c, w, t2, lad2
    <3> QED  BY <2>3, <2>4 DEF BookLevels
  <2>6. OnLevel(u.orders_, less, l) = {}
    BY <1>8, <1>12
  <2>7. \A k \in lv \ {l} : w[k] = v[k]
    <3>1. v = [k \in Slots |-> v[k]] /\ lv \subseteq Slots
      BY <1>4 DEF BookLevels, LevelsHeld, LevelsType
    <3> HIDE DEF v, l
    <3> QED  BY <3>1
  <2>8. Lists(u.orders_, w, less, rest)
    <3> HIDE DEF w, less, l
    <3> QED  BY <1>2, <2>6, <2>7, ListsFewerLevels
  <2>9. Used(u.orders_, less, rest)
    <3> HIDE DEF l, less
    <3>1. \A i \in less : u.orders_[i].level \in lv \ {l}
      BY <1>10, <2>6 DEF OnLevel
    <3>2. {u.orders_[i].level : i \in less} = lv \ {l}
      BY <1>9, <3>1, SMTT(30)
    <3> QED  BY <3>2 DEF Used
  <2>10. SameOrderFields(b, c)
    <3> HIDE DEF c
    <3> QED  BY <1>5, <2>3, SameOrderTrans, Zenon
  <2>11. TakenOff(b, c, act, on, x, rest)
    <3> HIDE DEF c, w, rest
    <3> QED  BY <1>5, <2>3, <2>5, <2>8, <2>9, <2>10 DEF TakenOff
  <2>12. unlink(b, x) = c
    <3> HIDE DEF c
    <3> QED  BY <1>3, <1>12 DEF c
  <2> QED  BY <2>11, <2>12
<1> QED  BY <1>11, <1>12

-----------------------------------------------------------------------------
(* The order structures: pool and table. *)

(* The orders act are in the pool o and in the table t by id; all other    *)
(* slots of the pool are free, and n counts the orders.                    *)
OrderIndex(o, act, c) ==
  DOMAIN c = {o[i].id : i \in act} /\ \A i \in act : c[o[i].id] = i

OrdersHeld(o, first, t, n, act) ==
  /\ OrdersType(o, act) /\ Chain(o, first, Slots \ act)
  /\ \E c : TableOf(TS, OrderHash, t, c) /\ OrderIndex(o, act, c)
  /\ n = Cardinality(act)

SameIds(o, p, S) == \A i \in S : p[i].id = o[i].id

(* f is the order of an id; npos if there is none. *)
OrderFound(o, act, id, f) ==
  /\ f # npos => f \in act /\ o[f].id = id
  /\ f = npos => \A i \in act : o[i].id # id

(* find_order_index finds the order of an id if there is one. *)
LEMMA FindOrder ==
  ASSUME NEW o, NEW first, NEW t, NEW n, NEW act, OrdersHeld(o, first, t, n, act), NEW id \in OrderId
  PROVE  OrderFound(o, act, id, find(t, OrderHash[id], id))
<1>1. PICK c : TableOf(TS, OrderHash, t, c) /\ OrderIndex(o, act, c)
  BY DEF OrdersHeld
<1>2. id \in DOMAIN OrderHash
  BY OrderBookAssumption
<1>3. find(t, OrderHash[id], id) = IF id \in DOMAIN c THEN c[id] ELSE npos
  BY <1>1, <1>2, FindIs
<1>4. npos \notin act
  BY SlotsFinite DEF OrdersHeld, OrdersType
<1> QED  BY <1>1, <1>3, <1>4 DEF OrderIndex, OrderFound

(* Two orders have two ids. *)
LEMMA IdsDistinct ==
  ASSUME NEW o, NEW first, NEW t, NEW n, NEW act, OrdersHeld(o, first, t, n, act)
  PROVE  \A i, j \in act : o[i].id = o[j].id => i = j
<1>1. PICK c : OrderIndex(o, act, c)
  BY DEF OrdersHeld
<1> QED  BY <1>1 DEF OrderIndex

(* Nothing of this changes with the links, places or quantities of the     *)
(* orders.                                                                 *)
LEMMA OrdersSame ==
  ASSUME NEW o, NEW p, NEW first, NEW t, NEW n, NEW act, OrdersHeld(o, first, t, n, act),
         OrdersType(p, act), SameIds(o, p, act), SameFree(o, p, act)
  PROVE  OrdersHeld(p, first, t, n, act)
<1>1. Chain(p, first, Slots \ act)
  <2>1. \A i \in Slots \ act : p[i].next_free = o[i].next_free
    BY DEF SameFree
  <2>2. Chain(o, first, Slots \ act) /\ Slots \ act \in SUBSET Slots
    BY DEF OrdersHeld
  <2> QED  BY <2>1, <2>2, ChainSame
<1>2. PICK c : TableOf(TS, OrderHash, t, c) /\ OrderIndex(o, act, c)
  BY DEF OrdersHeld
<1>3. OrderIndex(p, act, c)
  BY <1>2 DEF OrderIndex, SameIds
<1> QED  BY <1>1, <1>2, <1>3 DEF OrdersHeld

(* The order of a new id takes the first free slot; the table has room.    *)
LEMMA OrderAdded ==
  ASSUME NEW o, NEW p, NEW first, NEW t, NEW n, NEW act, OrdersHeld(o, first, t, n, act),
         first # npos, NEW id \in OrderId, \A i \in act : o[i].id # id,
         OrdersType(p, act \cup {first}), SameIds(o, p, act), p[first].id = id,
         SameFree(o, p, act \cup {first})
  PROVE  /\ CanInsert(t, OrderHash[id], TRUE)
         /\ OrdersHeld(p, o[first].next_free, insert(t, OrderHash[id], id, first, TRUE), n + 1,
                       act \cup {first})
<1> DEFINE more == act \cup {first}
           S == Slots \ act
<1>1. first \in Slots \ act /\ S \in SUBSET Slots /\ act \in SUBSET Slots /\ S \ {first} = Slots \ more
  <2>1. S \in SUBSET Slots /\ Chain(o, first, S) /\ act \in SUBSET Slots
    BY DEF OrdersHeld, OrdersType
  <2>2. first \in S
    <3> HIDE DEF S
    <3> QED  BY <2>1, ChainFirst
  <2> QED  BY <2>1, <2>2
<1>2. Chain(p, o[first].next_free, Slots \ more)
  <2>1. Chain(o, first, S) /\ \A i \in S \ {first} : p[i].next_free = o[i].next_free
    BY DEF OrdersHeld, SameFree
  <2> HIDE DEF S, more
  <2>2. Chain(p, o[first].next_free, S \ {first})
    BY <1>1, <2>1, ChainPop
  <2> QED  BY <1>1, <2>2
<1>3. PICK c : TableOf(TS, OrderHash, t, c) /\ OrderIndex(o, act, c)
  BY DEF OrdersHeld
<1>4. id \in DOMAIN OrderHash /\ id \notin DOMAIN c
  BY <1>3, OrderBookAssumption DEF OrderIndex
<1>5. Cardinality(DOMAIN c) < TS
  <2> DEFINE f == [i \in act |-> o[i].id]
  <2>1. f \in Surjection(act, DOMAIN c)
    BY <1>3 DEF OrderIndex, Surjection
  <2>2. IsFiniteSet(act) /\ Cardinality(act) <= Capacity /\ Capacity \in Nat
    BY <1>1, SlotsFinite, FS_Subset
  <2>3. IsFiniteSet(DOMAIN c) /\ Cardinality(DOMAIN c) <= Cardinality(act)
    BY <2>1, <2>2, FS_Surjection
  <2>4. Cardinality(DOMAIN c) \in Nat /\ Cardinality(act) \in Nat
    BY <2>2, <2>3, FS_CardinalityType
  <2> QED  BY <2>2, <2>3, <2>4, TableSlotsIs
<1>6. CanInsert(t, OrderHash[id], TRUE)
  BY <1>3, <1>4, <1>5, RoomToInsert
<1>7. TableOf(TS, OrderHash, insert(t, OrderHash[id], id, first, TRUE), With(c, id, first))
  BY <1>3, <1>4, <1>6, InsertOK, Zenon
<1>8. OrderIndex(p, more, With(c, id, first))
  <2> DEFINE d == With(c, id, first)
  <2>1. DOMAIN d = DOMAIN c \cup {id} /\ \A k \in DOMAIN d : d[k] = IF k = id THEN first ELSE c[k]
    BY DEF With
  <2> HIDE DEF d
  <2>2. DOMAIN d = {p[i].id : i \in more}
    BY <1>3, <2>1 DEF OrderIndex, SameIds
  <2>3. \A i \in act : d[p[i].id] = i
    BY <1>3, <2>1 DEF OrderIndex, SameIds
  <2>4. d[p[first].id] = first
    BY <2>1
  <2> QED  BY <2>2, <2>3, <2>4 DEF OrderIndex, d
<1>9. n + 1 = Cardinality(more)
  BY <1>1, SlotsFinite, FS_AddElement DEF OrdersHeld
<1> QED  BY <1>2, <1>6, <1>7, <1>8, <1>9 DEF OrdersHeld

(* The order's slot becomes the first free one and its id leaves the table. *)
LEMMA OrderDropped ==
  ASSUME NEW o, NEW p, NEW first, NEW t, NEW n, NEW act, OrdersHeld(o, first, t, n, act),
         NEW x \in act, NEW id, id = o[x].id,
         OrdersType(p, act \ {x}), SameIds(o, p, act \ {x}), p[x].next_free = first,
         SameFree(o, p, act)
  PROVE  OrdersHeld(p, x, erase(t, OrderHash[id], id), n - 1, act \ {x})
<1> DEFINE less == act \ {x}
           S == Slots \ act
<1>1. /\ S \in SUBSET Slots /\ act \in SUBSET Slots /\ x \in Slots \ S /\ S \cup {x} = Slots \ less
      /\ Chain(o, first, S) /\ \A i \in S : p[i].next_free = o[i].next_free
  BY DEF OrdersHeld, OrdersType, SameFree
<1>2. Chain(p, x, Slots \ less)
  <2> HIDE DEF S, less
  <2>1. Chain(p, x, S \cup {x})
    BY <1>1, ChainPush
  <2> QED  BY <1>1, <2>1
<1>3. PICK c : TableOf(TS, OrderHash, t, c) /\ OrderIndex(o, act, c)
  BY DEF OrdersHeld
<1>4. id \in DOMAIN c
  BY <1>3 DEF OrderIndex
<1>5. TableOf(TS, OrderHash, erase(t, OrderHash[id], id), Without(c, id))
  BY <1>3, <1>4, EraseOK
<1>6. OrderIndex(p, less, Without(c, id))
  <2> DEFINE d == Without(c, id)
  <2>1. DOMAIN d = DOMAIN c \ {id} /\ \A k \in DOMAIN d : d[k] = c[k]
    BY DEF Without
  <2>2. \A i \in less : o[i].id # id /\ p[i].id = o[i].id
    BY <1>3 DEF OrderIndex, SameIds
  <2> HIDE DEF d
  <2>3. DOMAIN d = {p[i].id : i \in less}
    BY <1>3, <2>1, <2>2 DEF OrderIndex
  <2>4. \A i \in less : d[p[i].id] = i
    BY <1>3, <2>1, <2>2 DEF OrderIndex
  <2> QED  BY <2>3, <2>4 DEF OrderIndex, d
<1>7. n - 1 = Cardinality(less)
  BY <1>1, SlotsFinite, FS_RemoveElement DEF OrdersHeld
<1> QED  BY <1>2, <1>5, <1>6, <1>7 DEF OrdersHeld

-----------------------------------------------------------------------------
(* The whole book. Good is the inductive invariant: every structure of the *)
(* book holds the same orders act in the same levels lv.                   *)

(* The book b with other order structures. *)
WithOrders(b, o, t, first, n, next) ==
  [orders_ |-> o, levels_ |-> b.levels_,
   order_lookup_ |-> t, level_lookup_ |-> b.level_lookup_,
   ladder |-> b.ladder, free_order_ |-> first,
   free_level_ |-> b.free_level_, active_orders_ |-> n,
   next_priority_ |-> next, fill_sequence_ |-> b.fill_sequence_]

SameLevelFields(b, c) ==
  /\ c.levels_ = b.levels_ /\ c.level_lookup_ = b.level_lookup_
  /\ c.ladder = b.ladder /\ c.free_level_ = b.free_level_

(* The members of a book with other order structures. *)
LEMMA WithOrdersIs ==
  ASSUME NEW b, NEW o, NEW t, NEW first, NEW n, NEW next,
         NEW c, c = WithOrders(b, o, t, first, n, next)
  PROVE  /\ IsBook(c) /\ SameLevelFields(b, c) /\ c.fill_sequence_ = b.fill_sequence_
         /\ c.orders_ = o /\ c.order_lookup_ = t /\ c.free_order_ = first
         /\ c.active_orders_ = n /\ c.next_priority_ = next
  BY DEF IsBook, SameLevelFields, WithOrders

(* The orders of the lists do not change. *)
LEMMA ListsSame ==
  ASSUME NEW o, NEW p, NEW v, NEW on, on \subseteq Slots, NEW lv, Lists(o, v, on, lv),
         \A i \in on : p[i] = o[i]
  PROVE  Lists(p, v, on, lv)
<1>1. InTime(p, on)
  BY DEF Lists, InTime
<1>2. \A i \in on : After(p, on, i) = After(o, on, i) /\ Before(p, on, i) = Before(o, on, i)
  BY DEF After, Before
<1>3. \A k : OnLevel(p, on, k) = OnLevel(o, on, k)
  BY DEF OnLevel
<1>4. \A S, x : S \subseteq on =>
         /\ FirstOf(o, S, x) => FirstOf(p, S, x)
         /\ LastOf(o, S, x) => LastOf(p, S, x)
  BY DEF FirstOf, LastOf
<1>5. Chained(p, on)
  <2> SUFFICES ASSUME NEW i \in on
               PROVE  /\ FirstOf(p, After(p, on, i), p[i].next)
                      /\ LastOf(p, Before(p, on, i), p[i].prev)
    BY DEF Chained
  <2>1. /\ FirstOf(o, After(o, on, i), o[i].next) /\ LastOf(o, Before(o, on, i), o[i].prev)
    BY DEF Lists, Chained
  <2>2. After(o, on, i) \subseteq on /\ Before(o, on, i) \subseteq on
    BY DEF After, Before
  <2> QED  BY <1>2, <1>4, <2>1, <2>2
<1>6. Placed(p, v, on, lv)
  BY DEF Lists, Placed
<1>7. ASSUME NEW l \in lv
      PROVE  /\ Ends(p, on, l, v[l].head, v[l].tail)
             /\ Tally(p, on, l, v[l].order_count, v[l].total_quantity)
  <2>1. /\ Ends(o, on, l, v[l].head, v[l].tail)
        /\ Tally(o, on, l, v[l].order_count, v[l].total_quantity)
    BY DEF Lists, Listed
  <2>2. OnLevel(o, on, l) \subseteq on
    BY DEF OnLevel
  <2>3. Ends(p, on, l, v[l].head, v[l].tail)
    BY <1>3, <1>4, <2>1, <2>2 DEF Ends
  <2>4. SameOrders(o, p, OnLevel(o, on, l))
    BY <2>2 DEF SameOrders
  <2>5. OnLevel(p, on, l) = OnLevel(o, on, l)
    BY <1>3
  <2>6. Tally(p, on, l, v[l].order_count, v[l].total_quantity)
    BY <2>1, <2>4, <2>5, TallySame
  <2> QED  BY <2>3, <2>6
<1> QED  BY <1>1, <1>5, <1>6, <1>7 DEF Lists, Listed

-----------------------------------------------------------------------------
(* The whole book: the orders act in the levels lv. *)
BookOrders(b, act) ==
  OrdersHeld(b.orders_, b.free_order_, b.order_lookup_, b.active_orders_, act)

Timed(o, on, next) == next \in Nat /\ \A i \in on : o[i].priority < next

Good(b, act, lv) ==
  /\ IsBook(b) /\ BookOrders(b, act) /\ BookLevels(b, lv)
  /\ Lists(b.orders_, b.levels_, act, lv) /\ Used(b.orders_, act, lv)
  /\ Timed(b.orders_, act, b.next_priority_)

(* What a call leaves of the orders S it does not touch.                   *)
Keeps(b, c, S) == \A i \in S : c.orders_[i].level = b.orders_[i].level

(* DropOrder, member by member. *)
LEMMA DropIs ==
  ASSUME NEW b, NEW x, NEW u, u = unlink(b, x), IsBook(u), NEW id, id = b.orders_[x].id
  PROVE  DropOrder(b, x) =
           WithOrders(u, [u.orders_ EXCEPT ![x] = FreeSlot(u.free_order_)],
                      erase(u.order_lookup_, OrderHash[id], id), x, u.active_orders_ - 1,
                      u.next_priority_)
<1> DEFINE t2 == erase(u.order_lookup_, OrderHash[id], id)
           c1 == [u EXCEPT !.order_lookup_ = t2]
           o2 == [u.orders_ EXCEPT ![x] = FreeSlot(u.free_order_)]
           c2 == [c1 EXCEPT !.orders_ = o2]
           c3 == [c2 EXCEPT !.free_order_ = x]
           c4 == [c3 EXCEPT !.active_orders_ = u.active_orders_ - 1]
           o == u.orders_
           f == u.free_order_
           n == u.active_orders_
           next == u.next_priority_
<1>1. erase_order_lookup(u, id) = c1
  BY DEF erase_order_lookup
<1>2. c1 = WithOrders(u, o, t2, f, n, next)
  <2> HIDE DEF t2
  <2> QED  BY DEF IsBook, WithOrders
<1> HIDE DEF c1, t2
<1>3. c1.orders_ = o /\ c1.free_order_ = f
  BY <1>2, WithOrdersIs
<1>4. free_order_slot(c1, x) = c3
  <2>1. free_order_slot(c1, x) =
          [c1 EXCEPT !.orders_ = [c1.orders_ EXCEPT ![x] = FreeSlot(c1.free_order_)],
                     !.free_order_ = x]
    BY DEF free_order_slot
  <2> QED  BY <1>3, <2>1
<1> HIDE DEF o2
<1>5. c2 = WithOrders(u, o2, t2, f, n, next)
  BY <1>2 DEF WithOrders
<1> HIDE DEF c2
<1>6. c3 = WithOrders(u, o2, t2, x, n, next)
  BY <1>5 DEF WithOrders
<1> HIDE DEF c3
<1>7. c3.active_orders_ = n
  BY <1>6, WithOrdersIs
<1>8. c4 = WithOrders(u, o2, t2, x, n - 1, next)
  BY <1>6 DEF WithOrders
<1>9. DropOrder(b, x) = [c3 EXCEPT !.active_orders_ = c3.active_orders_ - 1]
  BY <1>1, <1>4 DEF DropOrder
<1> QED  BY <1>7, <1>8, <1>9 DEF o2, t2

(* DropOrder keeps the book whole, without the order. *)
LEMMA DropOK ==
  ASSUME NEW b, NEW act, NEW lv, Good(b, act, lv), NEW x \in act
  PROVE  /\ \E rest : Good(DropOrder(b, x), act \ {x}, rest)
         /\ Keeps(b, DropOrder(b, x), act \ {x})
         /\ DropOrder(b, x).next_priority_ = b.next_priority_
<1> DEFINE u == unlink(b, x)
           id == b.orders_[x].id
           less == act \ {x}
           c == DropOrder(b, x)
           o == u.orders_
           p == [o EXCEPT ![x] = FreeSlot(u.free_order_)]
           t2 == erase(u.order_lookup_, OrderHash[id], id)
<1>1. PICK rest : TakenOff(b, u, act, act, x, rest)
  <2>1. OrdersType(b.orders_, act)
    BY DEF Good, BookOrders, OrdersHeld
  <2> QED  BY <2>1, UnlinkOK DEF Good
<1>2. c = WithOrders(u, p, t2, x, u.active_orders_ - 1, u.next_priority_)
  BY <1>1, DropIs DEF TakenOff
<1>3. /\ IsBook(c) /\ SameLevelFields(u, c)
      /\ c.orders_ = p /\ c.order_lookup_ = t2 /\ c.free_order_ = x
      /\ c.active_orders_ = u.active_orders_ - 1 /\ c.next_priority_ = u.next_priority_
  <2> HIDE DEF c, p, t2
  <2> QED  BY <1>2, WithOrdersIs
<1> HIDE DEF u, c
<1>4. OrdersType(o, act) /\ SameButLinks(b.orders_, o, act) /\ SameFree(b.orders_, o, act)
      /\ SameOrderFields(b, u)
  BY <1>1 DEF TakenOff
<1>5. /\ act \subseteq Slots /\ o = [i \in Slots |-> o[i]] /\ x \in Slots
      /\ \A i \in act : o[i] \in OrderRec
      /\ \A i \in Slots \ act : o[i] \in FreeRec
  BY <1>4 DEF OrdersType
<1>6. OrdersHeld(o, b.free_order_, b.order_lookup_, b.active_orders_, act)
  <2>1. SameIds(b.orders_, o, act)
    BY <1>4 DEF SameButLinks, SameIds
  <2> QED  BY <1>4, <2>1, OrdersSame DEF Good, BookOrders
<1>7. FreeSlot(u.free_order_) \in FreeRec /\ FreeSlot(u.free_order_).next_free = u.free_order_
  <2>1. u.free_order_ \in OptSlot
    <3>1. Slots \ act \in SUBSET Slots /\ Chain(o, u.free_order_, Slots \ act)
      BY <1>4, <1>6 DEF OrdersHeld, SameOrderFields
    <3>2. u.free_order_ = npos \/ u.free_order_ \in Slots
      BY <3>1, ChainFirst
    <3> QED  BY <3>2 DEF OptSlot
  <2> QED  BY <2>1 DEF FreeSlot, FreeRec
<1> DEFINE slot == FreeSlot(u.free_order_)
<1> HIDE DEF slot
<1>8. p = [o EXCEPT ![x] = slot] /\ slot \in FreeRec /\ slot.next_free = b.free_order_
  BY <1>4, <1>7 DEF slot, SameOrderFields
<1> HIDE DEF p, o
<1>9. /\ p = [i \in Slots |-> p[i]] /\ p[x] = slot /\ \A i \in Slots \ {x} : p[i] = o[i]
  BY <1>5, <1>8
<1>10. OrdersType(p, less)
  BY <1>5, <1>8, <1>9 DEF OrdersType
<1>11. OrdersHeld(p, x, t2, b.active_orders_ - 1, less)
  <2>1. id = o[x].id
    BY <1>4 DEF SameButLinks, o
  <2>2. SameIds(o, p, less) /\ SameFree(o, p, act) /\ p[x].next_free = b.free_order_
    BY <1>5, <1>8, <1>9 DEF SameIds, SameFree
  <2>3. t2 = erase(b.order_lookup_, OrderHash[id], id)
    BY <1>4 DEF SameOrderFields
  <2> HIDE DEF t2, id, less
  <2> QED  BY <1>6, <1>10, <2>1, <2>2, <2>3, OrderDropped DEF less
<1>12. BookOrders(c, less)
  BY <1>3, <1>4, <1>11 DEF BookOrders, SameOrderFields
<1>13. BookLevels(c, rest)
  BY <1>1, <1>3 DEF TakenOff, BookLevels, SameLevelFields
<1>14. \A i \in less : p[i] = o[i]
  BY <1>5, <1>9
<1>15. Lists(c.orders_, c.levels_, less, rest)
  <2>1. Lists(o, u.levels_, less, rest) /\ less \subseteq Slots
    BY <1>1, <1>5 DEF TakenOff, o
  <2>2. Lists(p, u.levels_, less, rest)
    <3> HIDE DEF less
    <3> QED  BY <1>14, <2>1, ListsSame
  <2> QED  BY <1>3, <2>2 DEF SameLevelFields, p
<1>16. Used(c.orders_, less, rest)
  <2>1. Used(o, less, rest)
    BY <1>1 DEF TakenOff, o
  <2>2. c.orders_ = p
    BY <1>3 DEF p
  <2> QED  BY <1>14, <2>1, <2>2 DEF Used
<1>17. Timed(c.orders_, less, c.next_priority_) /\ Keeps(b, c, less)
  <2>1. c.orders_ = p /\ c.next_priority_ = b.next_priority_
    BY <1>3, <1>4 DEF SameOrderFields, p
  <2>2. \A i \in less : o[i].priority = b.orders_[i].priority /\ o[i].level = b.orders_[i].level
    BY <1>4 DEF SameButLinks, o
  <2> QED  BY <1>14, <2>1, <2>2 DEF Timed, Keeps, Good
<1>18. Good(c, less, rest)
  BY <1>3, <1>12, <1>13, <1>15, <1>16, <1>17 DEF Good
<1> QED  BY <1>3, <1>4, <1>17, <1>18 DEF SameOrderFields, c

(* rest_order, member by member. *)
NewOrder(id, sd, pr, q, time, l) ==
  [id |-> id, price |-> pr, quantity |-> q, priority |-> time, level |-> l,
   side |-> sd, active |-> TRUE, prev |-> npos, next |-> npos]

(* The book a of acquire_level with the order r of b's first free slot.    *)
Slotted(b, a, r) ==
  WithOrders(a, [a.orders_ EXCEPT ![b.free_order_] = r], a.order_lookup_,
             b.orders_[b.free_order_].next_free, a.active_orders_, a.next_priority_ + 1)

Filed(d, id, x) ==
  WithOrders(d, d.orders_, insert(d.order_lookup_, OrderHash[id], id, x, TRUE), d.free_order_,
             d.active_orders_ + 1, d.next_priority_)

(* Nothing stops rest_order: a and l are what acquire_level gave, r the    *)
(* order, d the book with it on its list.                                  *)
CanRest(b, id, sd, pr, q, l, a, r, d) ==
  /\ q # 0 /\ find_order_index(b, id) = npos /\ b.free_order_ # npos
  /\ l = acquire_level(b, sd, pr).level /\ a = acquire_level(b, sd, pr).book
  /\ l # npos /\ IsBook(a) /\ CanInsert(b.order_lookup_, OrderHash[id], TRUE)
  /\ r = NewOrder(id, sd, pr, q, b.next_priority_, l)
  /\ d = link_tail(Slotted(b, a, r), b.free_order_, l) /\ IsBook(d)

(* rest_order when nothing stops it. *)
LEMMA RestIs ==
  ASSUME NEW b, NEW id, NEW sd, NEW pr, NEW q, NEW l, NEW a, NEW r, NEW d,
         CanRest(b, id, sd, pr, q, l, a, r, d)
  PROVE  rest_order(b, id, sd, pr, q).book = Filed(d, id, b.free_order_)
<1> DEFINE x == b.free_order_
           after == b.orders_[x].next_free
           a1 == [a EXCEPT !.free_order_ = after]
           a2 == [a1 EXCEPT !.orders_[x] = r]
           a3 == [a2 EXCEPT !.next_priority_ = @ + 1]
           o == a.orders_
           t == a.order_lookup_
           n == a.active_orders_
           time == a.next_priority_
           d1 == [d EXCEPT !.order_lookup_ = insert(@, OrderHash[id], id, x, TRUE)]
           d2 == [d1 EXCEPT !.active_orders_ = @ + 1]
<1> USE DEF CanRest
<1>1. rest_order(b, id, sd, pr, q) =
        Return([link_tail(a3, x, l) EXCEPT
                  !.order_lookup_ = insert(@, OrderHash[id], id, x, TRUE),
                  !.active_orders_ = @ + 1], "Applied")
  BY DEF rest_order, NewOrder
<1>2. a3 = Slotted(b, a, r)
  <2> HIDE DEF x, after
  <2>1. a1 = WithOrders(a, o, t, after, n, time)
    BY DEF IsBook, WithOrders
  <2> HIDE DEF a1, o, t, n, time
  <2>2. a2 = WithOrders(a, [o EXCEPT ![x] = r], t, after, n, time)
    BY <2>1 DEF WithOrders
  <2> HIDE DEF a2
  <2>3. a3 = WithOrders(a, [o EXCEPT ![x] = r], t, after, n, time + 1)
    BY <2>2 DEF WithOrders
  <2> HIDE DEF a3
  <2> QED  BY <2>3 DEF Slotted, o, t, n, time, x, after
<1> HIDE DEF a3
<1>3. link_tail(a3, x, l) = d
  BY <1>2
<1>4. d2 = Filed(d, id, x)
  <2> DEFINE t2 == insert(d.order_lookup_, OrderHash[id], id, x, TRUE)
             m == d.active_orders_
  <2>1. d1 = [d EXCEPT !.order_lookup_ = t2]
    BY Zenon
  <2> HIDE DEF d1, t2, x
  <2>2. d1 = WithOrders(d, d.orders_, t2, d.free_order_, m, d.next_priority_)
    BY <2>1 DEF IsBook, WithOrders
  <2>3. d2 = WithOrders(d, d.orders_, t2, d.free_order_, m + 1, d.next_priority_)
    <3> HIDE DEF m
    <3> QED  BY <2>2 DEF WithOrders
  <2> HIDE DEF d2
  <2> QED  BY <2>3 DEF Filed, t2
<1>5. [d EXCEPT !.order_lookup_ = insert(@, OrderHash[id], id, x, TRUE),
                !.active_orders_ = @ + 1] = d2
  OBVIOUS
<1> HIDE DEF d2
<1>6. rest_order(b, id, sd, pr, q) = Return(d2, "Applied")
  BY <1>1, <1>3, <1>5
<1> QED  BY <1>4, <1>6 DEF Return

(* The new order is an order. *)
LEMMA NewOrderIs ==
  ASSUME NEW id \in OrderId, NEW sd \in Side, NEW pr \in Price, NEW q \in Nat \ {0},
         NEW time \in Nat, NEW l \in Slots, NEW r, r = NewOrder(id, sd, pr, q, time, l)
  PROVE  /\ r \in OrderRec /\ r.id = id /\ r.side = sd /\ r.price = pr /\ r.quantity = q
         /\ r.priority = time /\ r.level = l
  BY DEF NewOrder, OrderRec, OptSlot

(* An order joins a book that has its level: the end of rest_order.        *)
LEMMA JoinOK ==
  ASSUME NEW b, NEW act, NEW lv, Good(b, act, lv), NEW a, NEW l,
         NEW id \in OrderId, NEW sd \in Side, NEW pr \in Price, NEW q \in Nat \ {0},
         \A i \in act : b.orders_[i].id # id, b.free_order_ # npos,
         Acquired(b, lv, act, sd, pr, a), l = a.level,
         NEW r, r = NewOrder(id, sd, pr, q, b.next_priority_, l),
         NEW d, d = link_tail(Slotted(b, a.book, r), b.free_order_, l)
  PROVE  /\ IsBook(d) /\ CanInsert(b.order_lookup_, OrderHash[id], TRUE)
         /\ Good(Filed(d, id, b.free_order_), act \cup {b.free_order_}, lv \cup {l})
<1> DEFINE c == a.book
           x == b.free_order_
           o == b.orders_
           s == Slotted(b, c, r)
           p == [o EXCEPT ![x] = r]
           more == act \cup {x}
           all == lv \cup {l}
           after == o[x].next_free
<1>1. /\ l \in Slots /\ IsBook(c) /\ SameOrderFields(b, c) /\ c.orders_ = o
      /\ BookLevels(c, all) /\ Lists(o, c.levels_, act, all)
      /\ c.levels_[l].side = sd /\ c.levels_[l].price = pr
  BY DEF Acquired
<1>2. /\ OrdersHeld(o, x, b.order_lookup_, b.active_orders_, act)
      /\ OrdersType(o, act) /\ act \subseteq Slots /\ b.next_priority_ \in Nat
      /\ \A i \in act : o[i].priority < b.next_priority_ /\ o[i].priority \in Nat
  BY DEF Good, BookOrders, OrdersHeld, OrdersType, Timed, OrderRec
<1>3. x \in Slots \ act
  <2>1. Slots \ act \in SUBSET Slots /\ Chain(o, x, Slots \ act)
    BY <1>2 DEF OrdersHeld
  <2> QED  BY <2>1, ChainFirst
<1>4. /\ r \in OrderRec /\ r.id = id /\ r.side = sd /\ r.price = pr /\ r.quantity = q
      /\ r.priority = b.next_priority_ /\ r.level = l
  BY <1>1, <1>2, NewOrderIs
<1>5. /\ OrdersType(p, more) /\ p[x] = r /\ \A i \in Slots \ {x} : p[i] = o[i]
  <2>1. p = [o EXCEPT ![x] = r]
    OBVIOUS
  <2> HIDE DEF o, x, p
  <2> QED  BY ONLY <1>2, <1>3, <1>4, <2>1 DEF OrdersType
<1>6. s = WithOrders(c, p, c.order_lookup_, after, c.active_orders_, c.next_priority_ + 1)
  BY <1>1 DEF Slotted
<1>7. /\ IsBook(s) /\ SameLevelFields(c, s)
      /\ s.orders_ = p /\ s.order_lookup_ = b.order_lookup_ /\ s.free_order_ = after
      /\ s.active_orders_ = b.active_orders_ /\ s.next_priority_ = b.next_priority_ + 1
  <2> HIDE DEF s, p, after, c
  <2>1. /\ IsBook(s) /\ SameLevelFields(c, s)
        /\ s.orders_ = p /\ s.order_lookup_ = c.order_lookup_ /\ s.free_order_ = after
        /\ s.active_orders_ = c.active_orders_ /\ s.next_priority_ = c.next_priority_ + 1
    BY <1>6, WithOrdersIs
  <2> QED  BY <1>1, <2>1 DEF SameOrderFields
<1> HIDE DEF s, p, after, c, o, x
<1>8. Lists(p, c.levels_, act, all)
  <2>1. \A i \in act : p[i] = o[i]
    BY <1>2, <1>3, <1>5
  <2> HIDE DEF all
  <2> QED  BY <1>1, <1>2, <2>1, ListsSame
<1>9. BookLevels(s, all) /\ LevelsType(s.levels_, all) /\ s.levels_ = c.levels_
  <2>1. BookLevels(s, all)
    BY <1>1, <1>7 DEF BookLevels, SameLevelFields
  <2> QED  BY <1>7, <2>1 DEF BookLevels, LevelsHeld, SameLevelFields
<1>10. Latest(p, act, x)
  <2>1. \A j \in act : p[j] = o[j]
    BY <1>2, <1>3, <1>5
  <2> QED  BY <1>2, <1>4, <1>5, <2>1 DEF Latest
<1>11. Relinked(s, d, more, all) /\ Lists(d.orders_, d.levels_, more, all)
  <2>1. d = link_tail(s, x, l)
    BY DEF s, c, x
  <2>2. s.orders_ = p /\ l = p[x].level /\ p[x].side = s.levels_[l].side
        /\ p[x].price = s.levels_[l].price
    BY <1>1, <1>4, <1>5, <1>7, <1>9
  <2>3. act \subseteq more /\ x \in more /\ x \notin act /\ l \in all /\ Lists(p, s.levels_, act, all)
    BY <1>3, <1>8, <1>9
  <2> HIDE DEF more, all
  <2>4. /\ IsBook(s) /\ OrdersType(s.orders_, more) /\ LevelsType(s.levels_, all)
        /\ act \subseteq more /\ x \in more /\ x \notin act /\ l \in all
        /\ l = s.orders_[x].level /\ Lists(s.orders_, s.levels_, act, all)
        /\ s.orders_[x].side = s.levels_[l].side /\ s.orders_[x].price = s.levels_[l].price
        /\ Latest(s.orders_, act, x)
    BY <1>5, <1>7, <1>9, <1>10, <2>2, <2>3
  <2>5. /\ Relinked(s, link_tail(s, x, l), more, all)
        /\ Lists(link_tail(s, x, l).orders_, link_tail(s, x, l).levels_, act \cup {x}, all)
    BY ONLY <2>4, LinkTailOK
  <2> QED  BY <2>1, <2>5 DEF more
<1>12. /\ IsBook(d) /\ SameFields(s, d) /\ OrdersType(d.orders_, more)
       /\ SameButLinks(p, d.orders_, more) /\ SameFree(p, d.orders_, more)
  BY <1>7, <1>11 DEF Relinked
<1> DEFINE e == Filed(d, id, x)
           t2 == insert(d.order_lookup_, OrderHash[id], id, x, TRUE)
<1>13. /\ CanInsert(b.order_lookup_, OrderHash[id], TRUE)
       /\ OrdersHeld(d.orders_, after, t2, b.active_orders_ + 1, more)
  <2> DEFINE g == d.orders_
             t == b.order_lookup_
             n == b.active_orders_
  <2>1. SameIds(o, g, act) /\ g[x].id = id /\ SameFree(o, g, more)
    BY <1>2, <1>3, <1>4, <1>5, <1>12 DEF SameIds, SameButLinks, SameFree
  <2>2. \A i \in act : o[i].id # id
    BY DEF o
  <2>3. x # npos /\ OrdersHeld(o, x, t, n, act) /\ OrdersType(g, act \cup {x})
        /\ SameFree(o, g, act \cup {x})
    BY <1>2, <1>12, <2>1 DEF x
  <2>4. d.order_lookup_ = t /\ after = o[x].next_free
    BY <1>7, <1>12 DEF SameFields, after
  <2> HIDE DEF g, t, n
  <2>5. /\ CanInsert(t, OrderHash[id], TRUE)
        /\ OrdersHeld(g, o[x].next_free, insert(t, OrderHash[id], id, x, TRUE), n + 1,
                      act \cup {x})
    BY ONLY <2>1, <2>2, <2>3, id \in OrderId, OrderAdded
  <2>6. t2 = insert(t, OrderHash[id], id, x, TRUE)
    BY <2>4, Zenon
  <2>7. OrdersHeld(g, after, t2, n + 1, more)
    <3> HIDE DEF t2
    <3> QED  BY <2>4, <2>5, <2>6, Zenon DEF more
  <2> QED  BY <2>5, <2>7, Zenon DEF t, g, n
<1>14. e = WithOrders(d, d.orders_, t2, d.free_order_, d.active_orders_ + 1, d.next_priority_)
  BY DEF Filed
<1>15. /\ IsBook(e) /\ SameLevelFields(d, e) /\ e.orders_ = d.orders_
       /\ e.order_lookup_ = t2 /\ e.free_order_ = after
       /\ e.active_orders_ = b.active_orders_ + 1 /\ e.next_priority_ = b.next_priority_ + 1
  <2> HIDE DEF e, t2
  <2>1. /\ IsBook(e) /\ SameLevelFields(d, e) /\ e.orders_ = d.orders_
        /\ e.order_lookup_ = t2 /\ e.free_order_ = d.free_order_
        /\ e.active_orders_ = d.active_orders_ + 1 /\ e.next_priority_ = d.next_priority_
    BY <1>14, WithOrdersIs
  <2> QED  BY <1>7, <1>12, <2>1 DEF SameFields
<1> HIDE DEF e, t2
<1>16. BookOrders(e, more)
  BY <1>13, <1>15 DEF BookOrders
<1>17. BookLevels(e, all)
  <2>1. LevelsHeld(d.levels_, s.free_level_, s.level_lookup_, s.ladder, all)
    BY <1>9, <1>11, LevelsSame DEF BookLevels, Relinked
  <2> QED  BY <1>12, <1>15, <2>1 DEF BookLevels, SameFields, SameLevelFields
<1>18. Lists(e.orders_, e.levels_, more, all)
  BY <1>11, <1>15 DEF SameLevelFields
<1>19. \A i \in act : /\ e.orders_[i].level = o[i].level
                      /\ e.orders_[i].priority = o[i].priority
  BY <1>2, <1>3, <1>5, <1>12, <1>15, SMTT(30) DEF SameButLinks
<1>20. e.orders_[x].level = l /\ e.orders_[x].priority = b.next_priority_
  BY <1>4, <1>5, <1>12, <1>15 DEF SameButLinks
<1>21. Used(e.orders_, more, all)
  <2>1. lv = {o[i].level : i \in act}
    BY DEF Good, Used, o
  <2> QED  BY <1>19, <1>20, <2>1 DEF Used
<1>22. Timed(e.orders_, more, e.next_priority_)
  BY <1>2, <1>15, <1>19, <1>20 DEF Timed
<1>23. Good(e, more, all)
  BY <1>15, <1>16, <1>17, <1>18, <1>21, <1>22 DEF Good
<1> QED  BY <1>12, <1>13, <1>23 DEF e, x

Sound(b) == \E act, lv : Good(b, act, lv)

(* rest_order keeps the book whole. *)
LEMMA RestOK ==
  ASSUME NEW b, NEW act, NEW lv, Good(b, act, lv),
         NEW id \in OrderId, NEW sd \in Side, NEW pr \in Price, NEW q \in Nat
  PROVE  Sound(rest_order(b, id, sd, pr, q).book)
<1> DEFINE f == find_order_index(b, id)
           a == acquire_level(b, sd, pr)
           l == a.level
           x == b.free_order_
<1>1. CASE q = 0 \/ f # npos \/ x = npos
  <2>1. rest_order(b, id, sd, pr, q).book = b
    BY <1>1 DEF rest_order, Return
  <2> QED  BY <2>1 DEF Sound
<1>2. CASE q # 0 /\ f = npos /\ x # npos
  <2>1. \/ a.level = npos /\ a.book = b
        \/ Acquired(b, lv, act, sd, pr, a)
    BY AcquireOK DEF Good
  <2>2. CASE l = npos
    <3>1. a.book = b
      BY <2>1, <2>2 DEF Acquired
    <3>2. rest_order(b, id, sd, pr, q).book = a.book
      BY <1>2, <2>2 DEF rest_order, Return
    <3> QED  BY <3>1, <3>2 DEF Sound
  <2>3. CASE l # npos
    <3>1. Acquired(b, lv, act, sd, pr, a)
      BY <2>1, <2>3
    <3>2. \A i \in act : b.orders_[i].id # id
      <4>1. OrderFound(b.orders_, act, id, f)
        BY FindOrder DEF Good, BookOrders, find_order_index
      <4> QED  BY <1>2, <4>1 DEF OrderFound
    <3> DEFINE r == NewOrder(id, sd, pr, q, b.next_priority_, l)
               d == link_tail(Slotted(b, a.book, r), x, l)
    <3>3. q \in Nat \ {0}
      BY <1>2
    <3>4. /\ IsBook(d) /\ CanInsert(b.order_lookup_, OrderHash[id], TRUE)
          /\ Good(Filed(d, id, x), act \cup {x}, lv \cup {l})
      <4> HIDE DEF r, a
      <4> QED  BY <1>2, <3>1, <3>2, <3>3, JoinOK DEF r
    <3>5. IsBook(a.book)
      BY <3>1 DEF Acquired
    <3>6. rest_order(b, id, sd, pr, q).book = Filed(d, id, x)
      <4> HIDE DEF r, d
      <4>1. l = acquire_level(b, sd, pr).level /\ a.book = acquire_level(b, sd, pr).book
            /\ r = NewOrder(id, sd, pr, q, b.next_priority_, l)
            /\ d = link_tail(Slotted(b, a.book, r), b.free_order_, l)
        BY DEF r, d
      <4> HIDE DEF l
      <4>2. q # 0 /\ find_order_index(b, id) = npos /\ b.free_order_ # npos /\ l # npos
        BY <1>2, <2>3 DEF l
      <4> DEFINE g == a.book
      <4> HIDE DEF g
      <4>3. g = acquire_level(b, sd, pr).book /\ d = link_tail(Slotted(b, g, r), b.free_order_, l)
            /\ IsBook(g)
        BY <3>5, <4>1 DEF g
      <4>4. CanInsert(b.order_lookup_, OrderHash[id], TRUE) /\ IsBook(d)
        BY <3>4
      <4> HIDE DEF a, f, x
      <4>5. rest_order(b, id, sd, pr, q).book = Filed(d, id, b.free_order_)
        <5>1. CanRest(b, id, sd, pr, q, l, g, r, d)
          BY ONLY <4>1, <4>2, <4>3, <4>4, Zenon DEF CanRest
        <5> QED  BY ONLY <5>1, RestIs
      <4> QED  BY <4>5, Zenon DEF x
    <3> QED  BY <3>4, <3>6 DEF Sound
  <2> QED  BY <2>2, <2>3
<1> QED  BY <1>1, <1>2

-----------------------------------------------------------------------------
(* Quantities change in place. *)

(* The order z with another quantity. *)
WithQuantity(z, q) ==
  [id |-> z.id, price |-> z.price, quantity |-> q, priority |-> z.priority,
   level |-> z.level, side |-> z.side, active |-> z.active, prev |-> z.prev, next |-> z.next]

(* The order x, in the level l, has the quantity q, and the level the total *)
(* n.                                                                      *)
Resized(b, x, l, q, n) ==
  WithPools(b, [b.orders_ EXCEPT ![x] = [b.orders_[x] EXCEPT !.quantity = q]],
            [b.levels_ EXCEPT ![l] = [b.levels_[l] EXCEPT !.total_quantity = n]])

(* The two assignments in either order. *)
LevelResized(b, x, l, q, n) ==
  [b EXCEPT !.levels_[l].total_quantity = n, !.orders_[x].quantity = q]
OrderResized(b, x, l, q, n) ==
  [b EXCEPT !.orders_[x].quantity = q, !.levels_[l].total_quantity = n]

(* Both come to the same. *)
LEMMA ResizedIs ==
  ASSUME NEW b, IsBook(b), NEW x, NEW l, NEW q, NEW n
  PROVE  /\ LevelResized(b, x, l, q, n) = Resized(b, x, l, q, n)
         /\ OrderResized(b, x, l, q, n) = Resized(b, x, l, q, n)
<1> DEFINE o == b.orders_
           v == b.levels_
           p == [o EXCEPT ![x] = [o[x] EXCEPT !.quantity = q]]
           w == [v EXCEPT ![l] = [v[l] EXCEPT !.total_quantity = n]]
           b1 == [b EXCEPT !.levels_ = w]
           c1 == [b EXCEPT !.orders_ = p]
<1>1. /\ [b EXCEPT !.levels_[l].total_quantity = n, !.orders_[x].quantity = q] =
           [b1 EXCEPT !.orders_[x].quantity = q]
      /\ [b EXCEPT !.orders_[x].quantity = q, !.levels_[l].total_quantity = n] =
           [c1 EXCEPT !.levels_[l].total_quantity = n]
  OBVIOUS
<1>2. b1 = WithPools(b, o, w) /\ c1 = WithPools(b, p, v)
  <2> HIDE DEF w, p
  <2> QED  BY DEF IsBook, WithPools
<1>3. b1.orders_ = o /\ c1.levels_ = v
  BY <1>2, WithPoolsIs
<1>4. /\ [b1 EXCEPT !.orders_[x].quantity = q] = [b1 EXCEPT !.orders_ = p]
      /\ [c1 EXCEPT !.levels_[l].total_quantity = n] = [c1 EXCEPT !.levels_ = w]
  <2> HIDE DEF b1, c1
  <2> QED  BY <1>3
<1>5. [b1 EXCEPT !.orders_ = p] = WithPools(b, p, w) /\ [c1 EXCEPT !.levels_ = w] = WithPools(b, p, w)
  <2> HIDE DEF b1, c1, w, p, o, v
  <2> QED  BY <1>2 DEF WithPools
<1> QED  BY <1>1, <1>4, <1>5 DEF Resized, LevelResized, OrderResized

(* An order with another quantity is an order, the same but for it. *)
LEMMA QuantitySet ==
  ASSUME NEW z \in OrderRec, NEW q \in Nat \ {0}, NEW r, r = [z EXCEPT !.quantity = q]
  PROVE  /\ r \in OrderRec /\ r.id = z.id /\ r.side = z.side /\ r.price = z.price
         /\ r.quantity = q /\ r.priority = z.priority /\ r.level = z.level
         /\ r.prev = z.prev /\ r.next = z.next
<1>1. r = WithQuantity(z, q)
  <2>1. z = WithQuantity(z, z.quantity)
    BY DEF OrderRec, WithQuantity
  <2> QED  BY <2>1 DEF WithQuantity
<1> QED  BY <1>1 DEF WithQuantity, OrderRec

(* A level with another total is a level, the same but for it. *)
LEMMA TotalSet ==
  ASSUME NEW z \in LevelRec, NEW n \in Int, NEW r, r = [z EXCEPT !.total_quantity = n]
  PROVE  /\ r \in LevelRec /\ r.side = z.side /\ r.price = z.price /\ r.head = z.head
         /\ r.tail = z.tail /\ r.order_count = z.order_count /\ r.total_quantity = n
<1>1. r = WithList(z, z.head, z.tail, z.order_count, n)
  <2>1. z = WithList(z, z.head, z.tail, z.order_count, z.total_quantity)
    BY LevelIs
  <2> QED  BY <2>1 DEF WithList
<1>2. z.head \in OptSlot /\ z.tail \in OptSlot /\ z.order_count \in Int
  BY DEF LevelRec
<1> HIDE DEF LevelRec
<1> QED  BY <1>1, <1>2, WithListIs

(* Of the orders on, only the quantity of x changes.                       *)
SameButSize(o, p, on, x) ==
  \A i \in on : /\ p[i].side = o[i].side /\ p[i].price = o[i].price
                /\ p[i].priority = o[i].priority /\ p[i].level = o[i].level
                /\ p[i].next = o[i].next /\ p[i].prev = o[i].prev
                /\ p[i].quantity \in Nat /\ o[i].quantity \in Nat
                /\ i # x => p[i].quantity = o[i].quantity

(* Of the levels lv, only the total of l changes.                          *)
SameButTotal(v, w, lv, l) ==
  \A k \in lv : /\ w[k].head = v[k].head /\ w[k].tail = v[k].tail
                /\ w[k].order_count = v[k].order_count
                /\ k # l => w[k].total_quantity = v[k].total_quantity

(* The lists when the quantity of an order and the total of its level      *)
(* change by as much.                                                      *)
LEMMA ListsResize ==
  ASSUME NEW o, NEW p, NEW v, NEW w, NEW on, on \subseteq Slots, NEW lv, Lists(o, v, on, lv),
         NEW x \in on, SameButSize(o, p, on, x), SameLevels(v, w, lv),
         NEW l, l = o[x].level,
         SameButTotal(v, w, lv, l),
         w[l].total_quantity = v[l].total_quantity - o[x].quantity + p[x].quantity
  PROVE  Lists(p, w, on, lv)
<1> USE DEF SameButTotal
<1>1. InTime(p, on)
  BY DEF Lists, InTime, SameButSize
<1>2. \A i \in on : After(p, on, i) = After(o, on, i) /\ Before(p, on, i) = Before(o, on, i)
  BY DEF After, Before, SameButSize
<1>3. \A k : OnLevel(p, on, k) = OnLevel(o, on, k)
  BY DEF OnLevel, SameButSize
<1>4. \A S, y : S \subseteq on =>
         /\ FirstOf(o, S, y) => FirstOf(p, S, y)
         /\ LastOf(o, S, y) => LastOf(p, S, y)
  BY DEF FirstOf, LastOf, SameButSize
<1>5. Chained(p, on)
  <2> SUFFICES ASSUME NEW i \in on
               PROVE  /\ FirstOf(p, After(p, on, i), p[i].next)
                      /\ LastOf(p, Before(p, on, i), p[i].prev)
    BY DEF Chained
  <2>1. /\ FirstOf(o, After(o, on, i), o[i].next) /\ LastOf(o, Before(o, on, i), o[i].prev)
    BY DEF Lists, Chained
  <2>2. After(o, on, i) \subseteq on /\ Before(o, on, i) \subseteq on
    BY DEF After, Before
  <2>3. p[i].next = o[i].next /\ p[i].prev = o[i].prev
    BY DEF SameButSize
  <2> QED  BY <1>2, <1>4, <2>1, <2>2, <2>3
<1>6. Placed(p, w, on, lv)
  BY DEF Lists, Placed, SameButSize, SameLevels
<1>7. ASSUME NEW k \in lv
      PROVE  /\ Ends(p, on, k, w[k].head, w[k].tail)
             /\ Tally(p, on, k, w[k].order_count, w[k].total_quantity)
  <2>1. /\ Ends(o, on, k, v[k].head, v[k].tail)
        /\ Tally(o, on, k, v[k].order_count, v[k].total_quantity)
    BY DEF Lists, Listed
  <2>2. OnLevel(o, on, k) \subseteq on
    BY DEF OnLevel
  <2>3. Ends(p, on, k, w[k].head, w[k].tail)
    BY <1>3, <1>4, <2>1, <2>2 DEF Ends
  <2>4. SameOrders(o, p, on \ {x}) /\ p[x].level = o[x].level
        /\ \A i \in on : o[i].quantity \in Nat /\ p[i].quantity \in Nat
    BY DEF SameOrders, SameButSize
  <2> DEFINE n == v[k].order_count
             q == v[k].total_quantity
  <2> HIDE DEF n, q
  <2>5. Tally(o, on, k, n, q)
    BY <2>1 DEF n, q
  <2>6. /\ k = o[x].level => Tally(p, on, k, n, q - o[x].quantity + p[x].quantity)
        /\ k # o[x].level => Tally(p, on, k, n, q)
    BY ONLY <2>4, <2>5, on \subseteq Slots, x \in on, TallyChange
  <2>7. Tally(p, on, k, w[k].order_count, w[k].total_quantity)
    BY <2>6 DEF n, q
  <2> QED  BY <2>3, <2>7
<1> QED  BY <1>1, <1>5, <1>6, <1>7 DEF Lists, Listed

(* A quantity and the total of its level change together.                  *)
LEMMA ResizeOK ==
  ASSUME NEW b, NEW act, NEW lv, Good(b, act, lv), NEW x \in act, NEW q \in Nat \ {0},
         NEW l, l = b.orders_[x].level,
         NEW n, n = b.levels_[l].total_quantity - b.orders_[x].quantity + q
  PROVE  /\ Good(Resized(b, x, l, q, n), act, lv)
         /\ Keeps(b, Resized(b, x, l, q, n), act)
<1> DEFINE o == b.orders_
           v == b.levels_
           r == [o[x] EXCEPT !.quantity = q]
           s == [v[l] EXCEPT !.total_quantity = n]
           p == [o EXCEPT ![x] = r]
           w == [v EXCEPT ![l] = s]
           c == Resized(b, x, l, q, n)
<1>1. /\ IsBook(c) /\ SameFields(b, c) /\ c.orders_ = p /\ c.levels_ = w
  <2>1. c = WithPools(b, p, w)
    BY DEF Resized
  <2> HIDE DEF c, p, w
  <2> QED  BY <2>1, WithPoolsIs
<1>2. /\ OrdersType(o, act) /\ LevelsType(v, lv)
      /\ Lists(o, v, act, lv) /\ l \in lv
  BY SMTT(30) DEF Good, BookOrders, BookLevels, OrdersHeld, LevelsHeld, Used
<1>3. /\ act \subseteq Slots /\ lv \subseteq Slots
      /\ o = [i \in Slots |-> o[i]] /\ v = [k \in Slots |-> v[k]]
      /\ \A i \in act : o[i] \in OrderRec /\ o[i].quantity \in Nat
      /\ \A i \in Slots \ act : o[i] \in FreeRec
      /\ \A k \in lv : v[k] \in LevelRec /\ v[k].total_quantity \in Int
      /\ \A k \in Slots \ lv : v[k] \in FreeRec
  <2>1. \A i \in act : o[i] \in OrderRec
    BY <1>2 DEF OrdersType
  <2>2. \A k \in lv : v[k] \in LevelRec
    BY <1>2 DEF LevelsType
  <2>3. (\A i \in act : o[i].quantity \in Nat) /\ \A k \in lv : v[k].total_quantity \in Int
    BY <2>1, <2>2 DEF OrderRec, LevelRec
  <2> QED  BY <1>2, <2>1, <2>2, <2>3 DEF OrdersType, LevelsType
<1>4. /\ r \in OrderRec /\ r.id = o[x].id /\ r.side = o[x].side /\ r.price = o[x].price
      /\ r.quantity = q /\ r.priority = o[x].priority /\ r.level = o[x].level
      /\ r.prev = o[x].prev /\ r.next = o[x].next
  <2>1. o[x] \in OrderRec
    BY <1>3
  <2> DEFINE z == o[x]
  <2>2. r = [z EXCEPT !.quantity = q] /\ z \in OrderRec
    BY <2>1
  <2> HIDE DEF r, z
  <2>3. /\ r \in OrderRec /\ r.id = z.id /\ r.side = z.side /\ r.price = z.price
        /\ r.quantity = q /\ r.priority = z.priority /\ r.level = z.level
        /\ r.prev = z.prev /\ r.next = z.next
    BY ONLY <2>2, q \in Nat \ {0}, QuantitySet
  <2> QED  BY <2>3 DEF z
<1>5. /\ s \in LevelRec /\ s.side = v[l].side /\ s.price = v[l].price /\ s.head = v[l].head
      /\ s.tail = v[l].tail /\ s.order_count = v[l].order_count /\ s.total_quantity = n
  <2> DEFINE z == v[l]
  <2>0. v[l].total_quantity \in Int /\ o[x].quantity \in Nat /\ v[l] \in LevelRec
    BY <1>2, <1>3
  <2>1. z \in LevelRec /\ n \in Int
    <3>1. n = v[l].total_quantity - o[x].quantity + q
      OBVIOUS
    <3> HIDE DEF v, o
    <3> QED  BY ONLY <2>0, <3>1, q \in Nat \ {0}
  <2>2. s = [z EXCEPT !.total_quantity = n]
    OBVIOUS
  <2> HIDE DEF z, s
  <2>3. /\ s \in LevelRec /\ s.side = z.side /\ s.price = z.price /\ s.head = z.head
        /\ s.tail = z.tail /\ s.order_count = z.order_count /\ s.total_quantity = n
    BY ONLY <2>1, <2>2, TotalSet
  <2> QED  BY <2>3, SMTT(30) DEF z
<1>0. p = [o EXCEPT ![x] = r] /\ w = [v EXCEPT ![l] = s]
  OBVIOUS
<1>00. o = b.orders_ /\ v = b.levels_
  OBVIOUS
<1> HIDE DEF o, v, r, s, p, w, c
<1>6. /\ p = [i \in Slots |-> p[i]] /\ p[x] = r /\ \A i \in Slots \ {x} : p[i] = o[i]
  BY <1>0, <1>3
<1>7. /\ w = [k \in Slots |-> w[k]] /\ w[l] = s /\ \A k \in Slots \ {l} : w[k] = v[k]
  BY <1>0, <1>2, <1>3, SMTT(30)
<1>8. OrdersType(p, act) /\ LevelsType(w, lv)
  BY <1>2, <1>3, <1>4, <1>5, <1>6, <1>7, SMTT(30) DEF OrdersType, LevelsType
<1>9. SameIds(o, p, act) /\ SameFree(o, p, act) /\ SameLevels(v, w, lv) /\ SameFree(v, w, lv)
  BY <1>2, <1>3, <1>4, <1>5, <1>6, <1>7 DEF SameIds, SameFree, SameLevels
<1>10. SameButSize(o, p, act, x)
  <2> SUFFICES ASSUME NEW i \in act
               PROVE  /\ p[i].side = o[i].side /\ p[i].price = o[i].price
                      /\ p[i].priority = o[i].priority /\ p[i].level = o[i].level
                      /\ p[i].next = o[i].next /\ p[i].prev = o[i].prev
                      /\ p[i].quantity \in Nat /\ o[i].quantity \in Nat
                      /\ i # x => p[i].quantity = o[i].quantity
    BY SMTT(30) DEF SameButSize
  <2> QED  BY <1>3, <1>4, <1>6
<1>11. Lists(p, w, act, lv)
  <2>1. SameButTotal(v, w, lv, l)
    BY <1>3, <1>5, <1>7, SMTT(30) DEF SameButTotal
  <2>2. w[l].total_quantity = v[l].total_quantity - o[x].quantity + p[x].quantity
    BY <1>00, <1>4, <1>5, <1>6, <1>7
  <2> QED  BY <1>00, <1>2, <1>3, <1>9, <1>10, <2>1, <2>2, ListsResize
<1>12. BookOrders(c, act)
  <2>1. OrdersHeld(p, b.free_order_, b.order_lookup_, b.active_orders_, act)
    BY <1>00, <1>8, <1>9, OrdersSame DEF Good, BookOrders
  <2> QED  BY <1>1, <2>1 DEF BookOrders, SameFields
<1>13. BookLevels(c, lv)
  <2>1. LevelsHeld(w, b.free_level_, b.level_lookup_, b.ladder, lv)
    BY <1>00, <1>8, <1>9, LevelsSame DEF Good, BookLevels
  <2> QED  BY <1>1, <2>1 DEF BookLevels, SameFields
<1>14. \A i \in act : p[i].level = o[i].level /\ p[i].priority = o[i].priority
  BY <1>10 DEF SameButSize
<1>15. Used(p, act, lv) /\ Timed(p, act, b.next_priority_)
  BY <1>00, <1>14 DEF Good, Used, Timed
<1>16. Good(c, act, lv)
  BY <1>1, <1>11, <1>12, <1>13, <1>15 DEF Good, SameFields
<1>17. Keeps(b, c, act)
  BY <1>00, <1>1, <1>14 DEF Keeps
<1> QED  BY <1>16, <1>17 DEF c

(* find_order_index on a whole book. *)
LEMMA Found ==
  ASSUME NEW b, NEW act, NEW lv, Good(b, act, lv), NEW id \in OrderId
  PROVE  OrderFound(b.orders_, act, id, find_order_index(b, id))
  BY FindOrder DEF Good, BookOrders, find_order_index

(* The types of an order of the book and of its level. *)
LEMMA OrderOf ==
  ASSUME NEW b, NEW act, NEW lv, Good(b, act, lv), NEW x \in act
  PROVE  /\ b.orders_[x] \in OrderRec /\ b.orders_[x].quantity \in Nat \ {0}
         /\ b.orders_[x].level \in lv /\ b.levels_[b.orders_[x].level].total_quantity \in Int
         /\ b.orders_[x].side \in Side
<1>1. b.orders_[x] \in OrderRec
  BY DEF Good, BookOrders, OrdersHeld, OrdersType
<1>2. b.orders_[x].quantity \in Nat \ {0} /\ b.orders_[x].side \in Side
  BY <1>1 DEF OrderRec
<1>3. b.orders_[x].level \in lv
  BY DEF Good, Used
<1>4. b.levels_[b.orders_[x].level] \in LevelRec
  BY <1>3 DEF Good, BookLevels, LevelsHeld, LevelsType
<1>5. b.levels_[b.orders_[x].level].total_quantity \in Int
  BY <1>4 DEF LevelRec
<1> QED  BY <1>1, <1>2, <1>3, <1>5

(* cancel keeps the book whole. *)
LEMMA CancelOK ==
  ASSUME NEW b, NEW act, NEW lv, Good(b, act, lv), NEW id \in OrderId
  PROVE  Sound(cancel(b, id).book)
<1> DEFINE x == find_order_index(b, id)
<1>1. x # npos => x \in act
  BY Found DEF OrderFound
<1>2. cancel(b, id).book = IF x = npos THEN b ELSE DropOrder(b, x)
  BY DEF cancel, Return
<1> HIDE DEF x
<1>3. CASE x = npos
  BY <1>2, <1>3 DEF Sound
<1>4. CASE x # npos
  <2>1. \E rest : Good(DropOrder(b, x), act \ {x}, rest)
    BY <1>1, <1>4, DropOK
  <2> QED  BY <1>2, <1>4, <2>1 DEF Sound
<1> QED  BY <1>3, <1>4

(* Part of an order is taken: by a trade event, by a fill.                 *)
TakeFrom(b, x, l, q) ==
  [b EXCEPT !.orders_[x].quantity = @ - q, !.levels_[l].total_quantity = @ - q]

(* Less than the whole of an order can be taken. *)
LEMMA TakeOK ==
  ASSUME NEW b, NEW act, NEW lv, Good(b, act, lv), NEW x \in act, NEW q \in Nat,
         q < b.orders_[x].quantity, NEW l, l = b.orders_[x].level,
         NEW c, c = TakeFrom(b, x, l, q)
  PROVE  Good(c, act, lv) /\ Keeps(b, c, act)
<1> DEFINE m == b.orders_[x].quantity - q
           n == b.levels_[l].total_quantity - q
           d == [b EXCEPT !.orders_[x].quantity = m, !.levels_[l].total_quantity = n]
           k == b.levels_[l].total_quantity - b.orders_[x].quantity + m
<1>1. m \in Nat \ {0} /\ n = k
  BY OrderOf
<1>2. IsBook(b)
  BY DEF Good
<1>3. c = d
  <2> DEFINE p == [b.orders_ EXCEPT ![x].quantity = @ - q]
             b1 == [b EXCEPT !.orders_ = p]
  <2>1. b1.levels_ = b.levels_
    <3> HIDE DEF p
    <3> QED  BY <1>2 DEF IsBook
  <2>2. c = [b1 EXCEPT !.levels_[l].total_quantity = @ - q]
    BY DEF TakeFrom
  <2>3. p = [b.orders_ EXCEPT ![x].quantity = m]
    OBVIOUS
  <2> HIDE DEF p, m, n
  <2>4. d = [[b EXCEPT !.orders_ = [b.orders_ EXCEPT ![x].quantity = m]] EXCEPT !.levels_[l].total_quantity = n]
    OBVIOUS
  <2>5. d = [b1 EXCEPT !.levels_[l].total_quantity = n]
    BY <2>3, <2>4
  <2> HIDE DEF d, b1
  <2> QED  BY <2>1, <2>2, <2>5 DEF n
<1> HIDE DEF d, m, n, k
<1>4. d = Resized(b, x, l, m, n)
  <2>1. d = OrderResized(b, x, l, m, n)
    BY DEF d, OrderResized
  <2> QED  BY ONLY <1>2, <2>1, ResizedIs
<1>5. Good(Resized(b, x, l, m, k), act, lv) /\ Keeps(b, Resized(b, x, l, m, k), act)
  BY <1>1, ResizeOK DEF k
<1> QED  BY <1>1, <1>3, <1>4, <1>5

(* trade keeps the book whole. *)
LEMMA TradeOK ==
  ASSUME NEW b, NEW act, NEW lv, Good(b, act, lv), NEW id \in OrderId, NEW q \in Nat
  PROVE  Sound(trade(b, id, q).book)
<1> DEFINE x == find_order_index(b, id)
           z == b.orders_[x]
           l == z.level
           c == [b EXCEPT !.orders_[x].quantity = @ - q, !.levels_[l].total_quantity = @ - q]
<1>1. x # npos => x \in act
  BY Found DEF OrderFound
<1>2. trade(b, id, q) = IF q = 0 THEN Return(b, "InvalidQuantity")
                        ELSE IF x = npos THEN Return(b, "OrderNotFound")
                        ELSE IF q > z.quantity THEN Return(b, "InvalidQuantity")
                        ELSE IF q = z.quantity THEN cancel(b, id)
                        ELSE Return(c, "Applied")
  BY DEF trade
<1>0. c = TakeFrom(b, x, l, q) /\ l = b.orders_[x].level
  BY DEF TakeFrom
<1> HIDE DEF x, c, l
<1>3. CASE q = 0 \/ x = npos \/ q > z.quantity
  <2>1. trade(b, id, q).book = b
    BY <1>2, <1>3 DEF Return
  <2> QED  BY <2>1 DEF Sound
<1>4. CASE ~(q = 0 \/ x = npos \/ q > z.quantity) /\ q = z.quantity
  <2>1. trade(b, id, q) = cancel(b, id)
    BY <1>2, <1>4
  <2> QED  BY <2>1, CancelOK
<1>5. CASE ~(q = 0 \/ x = npos \/ q > z.quantity) /\ q # z.quantity
  <2>1. trade(b, id, q).book = c
    BY <1>2, <1>5 DEF Return
  <2>2. x \in act
    BY <1>1, <1>5
  <2>3. z.quantity \in Nat
    BY <2>2, OrderOf
  <2>4. q < b.orders_[x].quantity
    BY <1>5, <2>3
  <2>5. Good(c, act, lv)
    BY <1>0, <2>2, <2>4, TakeOK
  <2> QED  BY <2>1, <2>5 DEF Sound
<1> QED  BY <1>3, <1>4, <1>5

(* replace keeps the book whole, also when the order it should add is      *)
(* refused after the cancel.                                               *)
LEMMA ReplaceOK ==
  ASSUME NEW b, NEW act, NEW lv, Good(b, act, lv), NEW id \in OrderId, NEW new_id \in OrderId,
         NEW pr \in Price, NEW q \in Nat
  PROVE  Sound(replace(b, id, new_id, pr, q).book)
<1> DEFINE x == find_order_index(b, id)
           sd == b.orders_[x].side
           c == cancel(b, id).book
<1>1. x # npos => x \in act
  BY Found DEF OrderFound
<1>2. \/ replace(b, id, new_id, pr, q).book = b
      \/ x # npos /\ replace(b, id, new_id, pr, q) = rest_order(c, new_id, sd, pr, q)
  BY DEF replace, Return
<1>3. CASE replace(b, id, new_id, pr, q).book = b
  BY <1>3 DEF Sound
<1>4. CASE x # npos /\ replace(b, id, new_id, pr, q) = rest_order(c, new_id, sd, pr, q)
  <2>1. sd \in Side
    BY <1>1, <1>4, OrderOf
  <2>2. PICK act2, lv2 : Good(c, act2, lv2)
    BY CancelOK DEF Sound
  <2> HIDE DEF c, sd
  <2>3. Sound(rest_order(c, new_id, sd, pr, q).book)
    BY <2>1, <2>2, RestOK
  <2> QED  BY <1>4, <2>3
<1> QED  BY <1>2, <1>3, <1>4

-----------------------------------------------------------------------------
(* modify to another side or price: the order is taken off its list and    *)
(* joins another with a new priority.                                      *)
Moved(z, sd, pr, q, time, l) ==
  [id |-> z.id, price |-> pr, quantity |-> q, priority |-> time, level |-> l,
   side |-> sd, active |-> z.active, prev |-> z.prev, next |-> z.next]

(* The moved order is an order. *)
LEMMA MovedIs ==
  ASSUME NEW z \in OrderRec, NEW sd \in Side, NEW pr \in Price, NEW q \in Nat \ {0},
         NEW time \in Nat, NEW l \in Slots, NEW r, r = Moved(z, sd, pr, q, time, l)
  PROVE  /\ r \in OrderRec /\ r.id = z.id /\ r.side = sd /\ r.price = pr /\ r.quantity = q
         /\ r.priority = time /\ r.level = l
  BY DEF Moved, OrderRec

MoveOrder(z, sd, pr, q, time, l) ==
  [z EXCEPT !.side = sd, !.price = pr, !.quantity = q, !.priority = time, !.level = l]

(* The five assignments, one after the other. *)
LEMMA MoveOrderIs ==
  ASSUME NEW z \in OrderRec, NEW sd, NEW pr, NEW q, NEW time, NEW l
  PROVE  MoveOrder(z, sd, pr, q, time, l) = Moved(z, sd, pr, q, time, l)
<1> DEFINE z1 == [z EXCEPT !.side = sd]
           z2 == [z1 EXCEPT !.price = pr]
           z3 == [z2 EXCEPT !.quantity = q]
           z4 == [z3 EXCEPT !.priority = time]
           z5 == [z4 EXCEPT !.level = l]
<1>0. z = Moved(z, z.side, z.price, z.quantity, z.priority, z.level)
  BY DEF Moved, OrderRec
<1>1. z1 = Moved(z, sd, z.price, z.quantity, z.priority, z.level)
  BY <1>0 DEF Moved
<1> HIDE DEF z1
<1>2. z2 = Moved(z, sd, pr, z.quantity, z.priority, z.level)
  BY <1>1 DEF Moved
<1> HIDE DEF z2
<1>3. z3 = Moved(z, sd, pr, q, z.priority, z.level)
  BY <1>2 DEF Moved
<1> HIDE DEF z3
<1>4. z4 = Moved(z, sd, pr, q, time, z.level)
  BY <1>3 DEF Moved
<1> HIDE DEF z4
<1>5. z5 = Moved(z, sd, pr, q, time, l)
  BY <1>4 DEF Moved
<1>6. MoveOrder(z, sd, pr, q, time, l) = z5
  BY DEF MoveOrder, z1, z2, z3, z4
<1> QED  BY <1>5, <1>6

(* The book c with the order r in the slot x and the next priority.        *)
Reslotted(c, x, r) ==
  WithOrders(c, [c.orders_ EXCEPT ![x] = r], c.order_lookup_, c.free_order_, c.active_orders_,
             c.next_priority_ + 1)

MoveSlot(c, x, sd, pr, q, time, l) ==
  [c EXCEPT !.orders_[x] = [@ EXCEPT !.side = sd, !.price = pr, !.quantity = q,
                                     !.priority = time, !.level = l],
            !.next_priority_ = @ + 1]

(* They are to one slot of the pool, and the priority counter advances. *)
LEMMA ReslottedIs ==
  ASSUME NEW c, IsBook(c), NEW x, NEW sd, NEW pr, NEW q, NEW time, NEW l
  PROVE  MoveSlot(c, x, sd, pr, q, time, l) =
           Reslotted(c, x, MoveOrder(c.orders_[x], sd, pr, q, time, l))
<1> DEFINE z == c.orders_[x]
           r == MoveOrder(z, sd, pr, q, time, l)
           o == c.orders_
           p == [o EXCEPT ![x] = r]
           c1 == [c EXCEPT !.orders_ = p]
           next == c.next_priority_
<1>1. [c EXCEPT !.orders_[x] = [@ EXCEPT !.side = sd, !.price = pr, !.quantity = q,
                                         !.priority = time, !.level = l],
                !.next_priority_ = @ + 1] = [c1 EXCEPT !.next_priority_ = @ + 1]
  BY DEF MoveOrder
<1>2. c1 = WithOrders(c, p, c.order_lookup_, c.free_order_, c.active_orders_, next)
  <2> HIDE DEF p
  <2> QED  BY DEF IsBook, WithOrders
<1> HIDE DEF c1, p
<1>3. [c1 EXCEPT !.next_priority_ = @ + 1] =
        WithOrders(c, p, c.order_lookup_, c.free_order_, c.active_orders_, next + 1)
  <2> HIDE DEF next
  <2> QED  BY <1>2 DEF WithOrders
<1> QED  BY <1>1, <1>3 DEF Reslotted, MoveSlot, p

(* The order x of act joins the list of its new level, all others being on *)
(* theirs: the end of modify.                                              *)
LEMMA RejoinOK ==
  ASSUME NEW u, NEW act, NEW rest, NEW x \in act, IsBook(u), BookOrders(u, act),
         Used(u.orders_, act \ {x}, rest), Timed(u.orders_, act, u.next_priority_),
         NEW sd \in Side, NEW pr \in Price, NEW q \in Nat \ {0},
         NEW a, Acquired(u, rest, act \ {x}, sd, pr, a), NEW l, l = a.level,
         NEW r, r = Moved(u.orders_[x], sd, pr, q, u.next_priority_, l),
         NEW d, d = link_tail(Reslotted(a.book, x, r), x, l)
  PROVE  Good(d, act, rest \cup {l})
<1> DEFINE c == a.book
           o == u.orders_
           less == act \ {x}
           s == Reslotted(c, x, r)
           p == [o EXCEPT ![x] = r]
           all == rest \cup {l}
<1>1. /\ l \in Slots /\ IsBook(c) /\ SameOrderFields(u, c) /\ c.orders_ = o
      /\ BookLevels(c, all) /\ Lists(o, c.levels_, less, all)
      /\ c.levels_[l].side = sd /\ c.levels_[l].price = pr
  BY DEF Acquired
<1>2. /\ OrdersHeld(o, u.free_order_, u.order_lookup_, u.active_orders_, act)
      /\ OrdersType(o, act) /\ act \subseteq Slots /\ u.next_priority_ \in Nat
      /\ o = [i \in Slots |-> o[i]] /\ \A i \in act : o[i] \in OrderRec
      /\ \A i \in Slots \ act : o[i] \in FreeRec
      /\ \A i \in act : o[i].priority < u.next_priority_ /\ o[i].priority \in Nat
  BY DEF BookOrders, OrdersHeld, OrdersType, Timed, OrderRec
<1>3. /\ r \in OrderRec /\ r.id = o[x].id /\ r.side = sd /\ r.price = pr /\ r.quantity = q
      /\ r.priority = u.next_priority_ /\ r.level = l
  <2> DEFINE z == o[x]
             time == u.next_priority_
  <2>1. z \in OrderRec /\ time \in Nat /\ r = Moved(z, sd, pr, q, time, l) /\ l \in Slots
    BY <1>1, <1>2
  <2> HIDE DEF z, time
  <2>2. /\ r \in OrderRec /\ r.id = z.id /\ r.side = sd /\ r.price = pr /\ r.quantity = q
        /\ r.priority = time /\ r.level = l
    BY ONLY <2>1, sd \in Side, pr \in Price, q \in Nat \ {0}, MovedIs
  <2> QED  BY <2>2 DEF z, time
<1>0. p = [o EXCEPT ![x] = r] /\ o = u.orders_
  OBVIOUS
<1>4. s = WithOrders(c, p, c.order_lookup_, c.free_order_, c.active_orders_, c.next_priority_ + 1)
  BY <1>1 DEF Reslotted
<1>5. /\ IsBook(s) /\ SameLevelFields(c, s)
      /\ s.orders_ = p /\ s.order_lookup_ = u.order_lookup_ /\ s.free_order_ = u.free_order_
      /\ s.active_orders_ = u.active_orders_ /\ s.next_priority_ = u.next_priority_ + 1
  <2> HIDE DEF s, p, c
  <2>1. /\ IsBook(s) /\ SameLevelFields(c, s)
        /\ s.orders_ = p /\ s.order_lookup_ = c.order_lookup_ /\ s.free_order_ = c.free_order_
        /\ s.active_orders_ = c.active_orders_ /\ s.next_priority_ = c.next_priority_ + 1
    BY <1>4, WithOrdersIs
  <2> QED  BY <1>1, <2>1 DEF SameOrderFields
<1> HIDE DEF s, p, c, o
<1>6. /\ p = [i \in Slots |-> p[i]] /\ p[x] = r /\ \A i \in Slots \ {x} : p[i] = o[i]
  BY <1>0, <1>2
<1>7. OrdersType(p, act)
  BY <1>2, <1>3, <1>6 DEF OrdersType
<1>8. \A i \in less : p[i] = o[i]
  BY <1>2, <1>6
<1>9. Lists(p, c.levels_, less, all)
  <2>1. less \subseteq Slots
    BY <1>2
  <2> HIDE DEF all, less
  <2> QED  BY <1>1, <1>8, <2>1, ListsSame
<1>10. BookLevels(s, all) /\ LevelsType(s.levels_, all) /\ s.levels_ = c.levels_
  <2>1. BookLevels(s, all)
    BY <1>1, <1>5 DEF BookLevels, SameLevelFields
  <2> QED  BY <1>5, <2>1 DEF BookLevels, LevelsHeld, SameLevelFields
<1>11. Latest(p, less, x)
  BY <1>2, <1>3, <1>6, <1>8 DEF Latest
<1>12. Relinked(s, d, act, all) /\ Lists(d.orders_, d.levels_, act, all)
  <2>1. d = link_tail(s, x, l) /\ less \cup {x} = act
    BY DEF s, c
  <2>2. /\ IsBook(s) /\ OrdersType(s.orders_, act) /\ LevelsType(s.levels_, all)
        /\ less \subseteq act /\ x \in act /\ x \notin less /\ l \in all
        /\ l = s.orders_[x].level /\ Lists(s.orders_, s.levels_, less, all)
        /\ s.orders_[x].side = s.levels_[l].side /\ s.orders_[x].price = s.levels_[l].price
        /\ Latest(s.orders_, less, x)
    BY <1>1, <1>3, <1>5, <1>6, <1>7, <1>9, <1>10, <1>11
  <2> HIDE DEF less, all
  <2>3. /\ Relinked(s, link_tail(s, x, l), act, all)
        /\ Lists(link_tail(s, x, l).orders_, link_tail(s, x, l).levels_, less \cup {x}, all)
    BY ONLY <2>2, LinkTailOK
  <2> QED  BY <2>1, <2>3
<1>13. /\ IsBook(d) /\ SameFields(s, d) /\ OrdersType(d.orders_, act)
       /\ SameButLinks(p, d.orders_, act) /\ SameFree(p, d.orders_, act)
  BY <1>5, <1>12 DEF Relinked
<1>14. BookOrders(d, act)
  <2>1. SameIds(o, d.orders_, act) /\ SameFree(o, d.orders_, act)
    BY <1>2, <1>3, <1>6, <1>13, ZenonT(30) DEF SameIds, SameButLinks, SameFree
  <2>2. OrdersHeld(d.orders_, u.free_order_, u.order_lookup_, u.active_orders_, act)
    BY <1>2, <1>13, <2>1, OrdersSame
  <2> QED  BY <1>5, <1>13, <2>2, SMTT(30) DEF BookOrders, SameFields
<1>15. BookLevels(d, all)
  <2>1. LevelsHeld(d.levels_, s.free_level_, s.level_lookup_, s.ladder, all)
    BY <1>10, <1>12, LevelsSame DEF BookLevels, Relinked
  <2> QED  BY <1>13, <2>1 DEF BookLevels, SameFields
<1>16. \A i \in less : d.orders_[i].level = o[i].level /\ d.orders_[i].priority = o[i].priority
  BY <1>8, <1>13, SMTT(30) DEF SameButLinks
<1>17. d.orders_[x].level = l /\ d.orders_[x].priority = u.next_priority_
  BY <1>3, <1>6, <1>13 DEF SameButLinks
<1>18. Used(d.orders_, act, all)
  <2>1. rest = {o[i].level : i \in less}
    BY <1>0, SMTT(30) DEF Used
  <2>2. \A i \in act : d.orders_[i].level \in all
    BY <1>16, <1>17, <2>1, SMTT(30)
  <2>3. \A k \in all : \E i \in act : d.orders_[i].level = k
    BY <1>16, <1>17, <2>1, SMTT(30)
  <2> HIDE DEF all
  <2> QED  BY <2>2, <2>3 DEF Used
<1>19. Timed(d.orders_, act, d.next_priority_)
  <2>1. d.next_priority_ = u.next_priority_ + 1
    BY <1>5, <1>13 DEF SameFields
  <2> QED  BY <1>2, <1>16, <1>17, <2>1 DEF Timed
<1> QED  BY <1>12, <1>13, <1>14, <1>15, <1>18, <1>19 DEF Good

(* A book whose order x is off its list but still in pool and table.       *)
LEMMA TakenOffOrders ==
  ASSUME NEW b, NEW act, NEW lv, Good(b, act, lv), NEW x, NEW u, NEW rest,
         TakenOff(b, u, act, act, x, rest)
  PROVE  /\ BookOrders(u, act) /\ Timed(u.orders_, act, u.next_priority_)
         /\ u.next_priority_ = b.next_priority_
<1>1. /\ SameOrderFields(b, u) /\ OrdersType(u.orders_, act)
      /\ SameButLinks(b.orders_, u.orders_, act) /\ SameFree(b.orders_, u.orders_, act)
  BY DEF TakenOff
<1>2. SameIds(b.orders_, u.orders_, act)
  BY <1>1 DEF SameIds, SameButLinks
<1>3. OrdersHeld(u.orders_, b.free_order_, b.order_lookup_, b.active_orders_, act)
  BY <1>1, <1>2, OrdersSame DEF Good, BookOrders
<1>4. BookOrders(u, act) /\ u.next_priority_ = b.next_priority_
  BY <1>1, <1>3 DEF BookOrders, SameOrderFields
<1>5. Timed(u.orders_, act, b.next_priority_)
  BY <1>1 DEF Good, Timed, SameButLinks
<1> QED  BY <1>4, <1>5

(* modify keeps the book whole if it is atomic when it is refused.         *)
LEMMA ModifyOK ==
  ASSUME NEW b, NEW act, NEW lv, Good(b, act, lv), NEW id \in OrderId, NEW sd \in Side,
         NEW pr \in Price, NEW q \in Nat,
         modify(b, id, sd, pr, q).result = "CapacityExhausted" =>
           modify(b, id, sd, pr, q).book = b
  PROVE  Sound(modify(b, id, sd, pr, q).book)
<1> DEFINE x == find_order_index(b, id)
           z == b.orders_[x]
           n == b.levels_[z.level].total_quantity - z.quantity + q
           u == unlink(b, x)
           a == acquire_level(u, sd, pr)
           l == a.level
           in_place == [b EXCEPT
             !.levels_[z.level].total_quantity = @ - z.quantity + q,
             !.orders_[x].quantity = q]
           time == b.next_priority_
           moved == [a.book EXCEPT
             !.orders_[x] = [@ EXCEPT !.side = sd, !.price = pr, !.quantity = q,
                                      !.priority = time, !.level = l],
             !.next_priority_ = @ + 1]
<1>1. x # npos => x \in act
  BY Found, SMTT(30) DEF OrderFound
<1>2. modify(b, id, sd, pr, q) =
        IF q = 0 THEN Return(b, "InvalidQuantity")
        ELSE IF x = npos THEN Return(b, "OrderNotFound")
        ELSE IF z.side = sd /\ z.price = pr THEN Return(in_place, "Applied")
        ELSE IF /\ find_level_index(b, sd, pr) = npos /\ b.free_level_ = npos
                /\ b.levels_[z.level].order_count > 1
          THEN Return(b, "CapacityExhausted")
        ELSE IF l = npos THEN Return(a.book, "CapacityExhausted")
        ELSE Return(link_tail(moved, x, l), "Applied")
  BY DEF modify
<1>3. in_place = LevelResized(b, x, z.level, q, n)
  BY DEF LevelResized
<1> HIDE DEF in_place
<1>4. IsBook(a.book) => moved = Reslotted(a.book, x, MoveOrder(a.book.orders_[x], sd, pr, q, time, l))
  <2> DEFINE g == a.book
  <2>1. moved = MoveSlot(g, x, sd, pr, q, time, l)
    BY DEF MoveSlot
  <2> HIDE DEF l, time, g, x, moved
  <2>2. IsBook(g) => MoveSlot(g, x, sd, pr, q, time, l) =
                       Reslotted(g, x, MoveOrder(g.orders_[x], sd, pr, q, time, l))
    BY ReslottedIs, SMTT(30)
  <2> QED  BY <2>1, <2>2 DEF g
<1> HIDE DEF moved
<1>5. CASE q # 0 /\ x # npos /\ z.side = sd /\ z.price = pr
  <2>1. modify(b, id, sd, pr, q).book = in_place
    BY <1>2, <1>5 DEF Return
  <2>2. IsBook(b) /\ q \in Nat \ {0} /\ x \in act
    BY <1>1, <1>5 DEF Good
  <2>3. in_place = Resized(b, x, z.level, q, n)
    BY <1>3, <2>2, ResizedIs
  <2>4. Good(Resized(b, x, z.level, q, n), act, lv)
    <3> HIDE DEF x
    <3> QED  BY <2>2, ResizeOK
  <2> QED  BY <2>1, <2>3, <2>4 DEF Sound
<1>6. CASE q # 0 /\ x # npos /\ ~(z.side = sd /\ z.price = pr)
            /\ modify(b, id, sd, pr, q) = Return(link_tail(moved, x, l), "Applied") /\ l # npos
  <2>1. x \in act /\ q \in Nat \ {0}
    BY <1>1, <1>6
  <2>2. PICK rest : TakenOff(b, u, act, act, x, rest)
    <3>1. OrdersType(b.orders_, act)
      BY DEF Good, BookOrders, OrdersHeld
    <3> QED  BY <2>1, <3>1, UnlinkOK DEF Good
  <2> HIDE DEF x, u
  <2>3. /\ IsBook(u) /\ BookLevels(u, rest) /\ Lists(u.orders_, u.levels_, act \ {x}, rest)
        /\ Used(u.orders_, act \ {x}, rest) /\ OrdersType(u.orders_, act)
    BY <2>2 DEF TakenOff
  <2>4. /\ BookOrders(u, act) /\ Timed(u.orders_, act, u.next_priority_)
        /\ u.next_priority_ = time
    BY <2>2, TakenOffOrders
  <2>5. Acquired(u, rest, act \ {x}, sd, pr, a)
    <3>1. \/ a.level = npos /\ a.book = u
          \/ Acquired(u, rest, act \ {x}, sd, pr, a)
      BY <2>3, AcquireOK
    <3> QED  BY <1>6, <3>1
  <2>6. IsBook(a.book) /\ a.book.orders_ = u.orders_
    BY <2>5 DEF Acquired
  <2> DEFINE y == u.orders_[x]
             r == Moved(y, sd, pr, q, time, l)
             d == link_tail(Reslotted(a.book, x, r), x, l)
  <2>7. y \in OrderRec
    BY <2>1, <2>3 DEF OrdersType
  <2>8. moved = Reslotted(a.book, x, r)
    <3>1. MoveOrder(y, sd, pr, q, time, l) = r
      <4> HIDE DEF y
      <4> QED  BY <2>7, MoveOrderIs
    <3> HIDE DEF r, a
    <3> QED  BY <1>4, <2>6, <3>1
  <2>9. Good(d, act, rest \cup {l})
    <3> HIDE DEF a
    <3>1. /\ x \in act /\ IsBook(u) /\ BookOrders(u, act)
          /\ Used(u.orders_, act \ {x}, rest) /\ Timed(u.orders_, act, u.next_priority_)
          /\ Acquired(u, rest, act \ {x}, sd, pr, a)
          /\ r = Moved(u.orders_[x], sd, pr, q, u.next_priority_, l)
      BY <2>1, <2>3, <2>4, <2>5
    <3> HIDE DEF r
    <3> QED  BY <2>1, <3>1, RejoinOK
  <2>10. modify(b, id, sd, pr, q).book = d
    <3> HIDE DEF l, r
    <3> QED  BY <1>6, <2>8 DEF Return
  <2> QED  BY <2>9, <2>10 DEF Sound
<1>7. CASE modify(b, id, sd, pr, q).book = b
  BY <1>7 DEF Sound
<1>8. CASE modify(b, id, sd, pr, q) = Return(a.book, "CapacityExhausted")
  <2>1. modify(b, id, sd, pr, q).book = b
    BY <1>8 DEF Return
  <2> QED  BY <2>1 DEF Sound
<1> HIDE DEF x, z, l, a, u
<1>9. \/ modify(b, id, sd, pr, q).book = b
      \/ modify(b, id, sd, pr, q) = Return(a.book, "CapacityExhausted")
      \/ q # 0 /\ x # npos /\ z.side = sd /\ z.price = pr
      \/ /\ q # 0 /\ x # npos /\ ~(z.side = sd /\ z.price = pr)
         /\ modify(b, id, sd, pr, q) = Return(link_tail(moved, x, l), "Applied") /\ l # npos
  BY <1>2 DEF Return
<1> QED  BY <1>5, <1>6, <1>7, <1>8, <1>9

-----------------------------------------------------------------------------
(* The start of a run. *)

(* The free list of an empty pool. *)
LEMMA EmptyPool ==
  ASSUME NEW pool, pool = [i \in Slots |-> FreeSlot(NextSlot(i))]
  PROVE  Chain(pool, 0, Slots) /\ OrdersType(pool, {}) /\ LevelsType(pool, {})
<1>1. Capacity \in Nat /\ Capacity > 0 /\ Cardinality(Slots) = Capacity
  BY SlotsFinite
<1>2. \A i \in Slots : /\ i \in 0 .. Capacity - 1
                       /\ NextSlot(i) = IF i + 1 < Capacity THEN i + 1 ELSE npos
                       /\ NextSlot(i) \in OptSlot
  BY <1>1 DEF Slots, NextSlot, OptSlot
<1>3. \A i \in Slots : FreeSlot(NextSlot(i)) \in FreeRec /\ FreeSlot(NextSlot(i)).next_free = NextSlot(i)
  BY <1>2 DEF FreeSlot, FreeRec
<1>4. \A i \in Slots : pool[i] \in FreeRec /\ pool[i].next_free = NextSlot(i)
  BY <1>3
<1>5. OrdersType(pool, {}) /\ LevelsType(pool, {})
  <2>1. pool = [i \in Slots |-> pool[i]]
    OBVIOUS
  <2> QED  BY <1>4, <2>1 DEF OrdersType, LevelsType
<1> DEFINE list == [i \in 1 .. Capacity |-> i - 1]
<1>6. list \in [1 .. Capacity -> Slots] /\ \A i \in 1 .. Capacity : list[i] = i - 1
  BY <1>1 DEF Slots
<1> HIDE DEF list
<1>7. ASSUME NEW i \in 0 .. Capacity
      PROVE  (IF i = 0 THEN 0 ELSE pool[list[i]].next_free) =
               IF i = Capacity THEN npos ELSE list[i + 1]
  <2>1. CASE i = 0
    BY <1>1, <1>6, <2>1
  <2>2. CASE i # 0
    <3>1. list[i] = i - 1 /\ i - 1 \in Slots
      BY <1>1, <1>6, <2>2 DEF Slots
    <3>2. pool[list[i]].next_free = IF i - 1 + 1 < Capacity THEN i - 1 + 1 ELSE npos
      BY <1>2, <1>4, <3>1
    <3>3. pool[list[i]].next_free = IF i < Capacity THEN i ELSE npos
      BY <1>1, <3>2
    <3>4. i < Capacity => list[i + 1] = i
      BY <1>1, <1>6, <2>2
    <3> QED  BY <1>1, <2>2, <3>3, <3>4
  <2> QED  BY <2>1, <2>2
<1>8. Runs(pool, 0, Slots, Capacity, list)
  BY <1>1, <1>6, <1>7 DEF Runs
<1> QED  BY <1>1, <1>5, <1>8 DEF Chain

(* The book is whole at the start: no orders and no levels. *)
LEMMA InitGood == Init => Good(book, {}, {})
<1> SUFFICES ASSUME Init PROVE Good(book, {}, {})
  OBVIOUS
<1> DEFINE pool == [i \in Slots |-> FreeSlot(NextSlot(i))]
           t == [s \in TableSlots |-> Empty]
           lad == [sd \in Side |-> EmptyLadder]
           c == [k \in {} |-> 0]
<1>1. book = [orders_ |-> pool, levels_ |-> pool, order_lookup_ |-> t, level_lookup_ |-> t,
              ladder |-> lad, free_order_ |-> 0, free_level_ |-> 0, active_orders_ |-> 0,
              next_priority_ |-> 0, fill_sequence_ |-> 0]
  BY DEF Init
<1>2. Chain(pool, 0, Slots) /\ OrdersType(pool, {}) /\ LevelsType(pool, {})
  BY EmptyPool
<1>3. TableOf(TS, OrderHash, t, c) /\ TableOf(TS, LevelHash, t, c)
  <2>1. /\ TS \in Nat \ {0} /\ DOMAIN c = {}
        /\ \A key \in DOMAIN OrderHash : OrderHash[key] \in Nat
        /\ \A key \in DOMAIN LevelHash : LevelHash[key] \in Nat
    BY TableSlotsIs, OrderBookAssumption
  <2>2. t = [s \in 0 .. TS - 1 |-> Empty]
    BY TableSlotsIs
  <2> HIDE DEF t, c
  <2>3. /\ TableOf(TS, OrderHash, [s \in 0 .. TS - 1 |-> Empty], c)
        /\ TableOf(TS, LevelHash, [s \in 0 .. TS - 1 |-> Empty], c)
    BY <2>1, EmptyTable
  <2> QED  BY <2>2, <2>3
<1>4. DOMAIN c = {}
  OBVIOUS
<1> HIDE DEF c
<1>5. OnLadders(pool, lad, {})
  <2>1. \A sd \in Side : GoodLadder(sd, Prices(pool), EmptyLadder, {}, 0)
    BY DEF GoodLadder, Shape, Heap, EmptyLadder
  <2>2. \A sd \in Side : OfSide(pool, {}, sd) = {} /\ lad[sd] = EmptyLadder
    BY DEF OfSide
  <2>3. Cardinality({}) = 0 /\ lad = [sd \in Side |-> lad[sd]]
    BY FS_EmptySet
  <2> HIDE DEF pool, lad
  <2> QED  BY <2>1, <2>2, <2>3 DEF OnLadders
<1> HIDE DEF pool, t, lad
<1>6. /\ IsBook(book) /\ book.orders_ = pool /\ book.levels_ = pool /\ book.order_lookup_ = t
      /\ book.level_lookup_ = t /\ book.ladder = lad /\ book.free_order_ = 0 /\ book.free_level_ = 0
      /\ book.active_orders_ = 0 /\ book.next_priority_ = 0
  BY <1>1 DEF IsBook
<1>7. Slots \ {} = Slots /\ Cardinality({}) = 0
  BY FS_EmptySet
<1>8. OrderIndex(pool, {}, c) /\ LevelIndex(pool, {}, c)
  BY <1>4 DEF OrderIndex, LevelIndex
<1>9. BookOrders(book, {}) /\ BookLevels(book, {})
  BY <1>2, <1>3, <1>5, <1>6, <1>7, <1>8 DEF BookOrders, BookLevels, OrdersHeld, LevelsHeld
<1>10. /\ Lists(book.orders_, book.levels_, {}, {}) /\ Used(book.orders_, {}, {})
       /\ Timed(book.orders_, {}, book.next_priority_)
  BY <1>6 DEF Lists, InTime, Chained, Placed, Listed, Used, Timed
<1> QED  BY <1>6, <1>9, <1>10 DEF Good

(* The least of two numbers. *)
LEMMA MinOfTwo ==
  ASSUME NEW m \in Nat, NEW n \in Nat
  PROVE  Min({m, n}) \in Nat /\ Min({m, n}) <= m /\ Min({m, n}) <= n
<1>1. \E y \in {m, n} : \A z \in {m, n} : y <= z
  OBVIOUS
<1> DEFINE P(y) == y \in {m, n} /\ \A z \in {m, n} : y <= z
           x == CHOOSE y : P(y)
<1>2. P(x)
  <2>1. \E y : P(y)
    BY <1>1
  <2> QED  BY <2>1
<1>3. Min({m, n}) = x
  BY DEF Min
<1> HIDE DEF x
<1> QED  BY <1>2, <1>3

(* The fill counter touches nothing else. *)
WithFills(b, n) ==
  [orders_ |-> b.orders_, levels_ |-> b.levels_,
   order_lookup_ |-> b.order_lookup_, level_lookup_ |-> b.level_lookup_,
   ladder |-> b.ladder, free_order_ |-> b.free_order_,
   free_level_ |-> b.free_level_, active_orders_ |-> b.active_orders_,
   next_priority_ |-> b.next_priority_, fill_sequence_ |-> n]

(* A fill is numbered in a book that stays whole. *)
LEMMA SentOK ==
  ASSUME NEW b, NEW act, NEW lv, Good(b, act, lv), NEW c, c = [b EXCEPT !.fill_sequence_ = @ + 1]
  PROVE  Good(c, act, lv) /\ c.orders_ = b.orders_ /\ c.levels_ = b.levels_
<1> DEFINE n == b.fill_sequence_ + 1
<1>1. c = WithFills(b, n)
  BY DEF Good, IsBook, WithFills
<1> HIDE DEF n
<1>2. /\ IsBook(c) /\ SameLevelFields(b, c) /\ c.orders_ = b.orders_
      /\ c.order_lookup_ = b.order_lookup_ /\ c.free_order_ = b.free_order_
      /\ c.active_orders_ = b.active_orders_ /\ c.next_priority_ = b.next_priority_
  BY <1>1 DEF IsBook, SameLevelFields, WithFills
<1>3. BookOrders(c, act) /\ BookLevels(c, lv)
  BY <1>2 DEF Good, BookOrders, BookLevels, SameLevelFields
<1> QED  BY <1>2, <1>3 DEF Good, SameLevelFields

-----------------------------------------------------------------------------
(* submit's cursor: the order it stands on is active and in its level.     *)
Taking(b, tk, act) ==
  /\ tk = [request |-> tk.request, remaining |-> tk.remaining,
           level_index |-> tk.level_index, order_index |-> tk.order_index]
  /\ tk.request \in Requests /\ tk.remaining \in Nat
  /\ tk.order_index # npos =>
       tk.order_index \in act /\ b.orders_[tk.order_index].level = tk.level_index

MatchInv ==
  \E act, lv : /\ Good(book, act, lv)
               /\ result = "matching" => Taking(book, taker, act)

(* The order a level's list begins with, and the one behind an order.      *)
LEMMA HeadOf ==
  ASSUME NEW b, NEW act, NEW lv, Good(b, act, lv), NEW l \in lv
  PROVE  b.levels_[l].head \in act /\ b.orders_[b.levels_[l].head].level = l
<1>1. FirstOf(b.orders_, OnLevel(b.orders_, act, l), b.levels_[l].head)
  BY DEF Good, Lists, Listed, Ends
<1>2. OnLevel(b.orders_, act, l) # {}
  BY DEF Good, Used, OnLevel
<1> QED  BY <1>1, <1>2 DEF FirstOf, OnLevel

(* The order behind an order is another one, of the same level. *)
LEMMA NextOf ==
  ASSUME NEW b, NEW act, NEW lv, Good(b, act, lv), NEW x \in act
  PROVE  LET y == b.orders_[x].next IN
         y # npos => y \in act \ {x} /\ b.orders_[y].level = b.orders_[x].level
<1>1. FirstOf(b.orders_, After(b.orders_, act, x), b.orders_[x].next)
  BY DEF Good, Lists, Chained
<1>2. b.orders_[x].priority \in Nat
  BY DEF Good, Lists, InTime
<1> QED  BY <1>1, <1>2 DEF FirstOf, After

(* The top of a ladder is a level of its side.                             *)
LEMMA TopOf ==
  ASSUME NEW b, NEW act, NEW lv, Good(b, act, lv), NEW sd \in Side, ladder_top(b, sd) # npos
  PROVE  ladder_top(b, sd) \in lv
<1> DEFINE S == OfSide(b.levels_, lv, sd)
           n == Cardinality(S)
           lad == b.ladder[sd]
<1>1. Shape(lad, S, n) /\ S \subseteq lv /\ lv \subseteq Slots
  BY DEF Good, BookLevels, LevelsHeld, LevelsType, OnLadders, GoodLadder, OfSide
<1>2. n \in Nat
  BY <1>1, SlotsFinite
<1>3. Size(lad) = n
  <2>1. DOMAIN lad.heap = 0 .. n - 1
    BY <1>1 DEF Shape
  <2> HIDE DEF lad, n
  <2> QED  BY <1>2, <2>1, SizeIs
<1>4. n # 0 /\ ladder_top(b, sd) = lad.heap[0]
  BY <1>3 DEF ladder_top
<1> HIDE DEF S, n, lad
<1>5. lad.heap[0] \in S
  BY <1>1, <1>2, <1>4 DEF Shape
<1> QED  BY <1>1, <1>4, <1>5

-----------------------------------------------------------------------------
(* Match mode. *)

(* The maker of a fill is dropped or made smaller, and submit goes on with *)
(* an order that is still there.                                           *)
Filled(b, x, l, q, s, c, y) ==
  /\ l = b.orders_[x].level /\ q \in Nat /\ q <= b.orders_[x].quantity
  /\ s = [b EXCEPT !.fill_sequence_ = @ + 1]
  /\ c = IF q = b.orders_[x].quantity THEN DropOrder(s, x) ELSE TakeFrom(s, x, l, q)
  /\ y = IF q = b.orders_[x].quantity THEN b.orders_[x].next ELSE x

(* After the fill the book is whole, and the order submit goes on with is  *)
(* in it, on the same level, if there is one.                              *)
LEMMA FillOK ==
  ASSUME NEW b, NEW act, NEW lv, Good(b, act, lv), NEW x \in act,
         NEW l, NEW q, NEW s, NEW c, NEW y, Filled(b, x, l, q, s, c, y)
  PROVE  \E act2, lv2 : /\ Good(c, act2, lv2)
                        /\ y # npos => y \in act2 /\ c.orders_[y].level = l
<1> USE DEF Filled
<1>1. Good(s, act, lv) /\ s.orders_ = b.orders_ /\ s.levels_ = b.levels_
  BY SentOK
<1>2. CASE q = b.orders_[x].quantity
  <2>1. c = DropOrder(s, x) /\ y = b.orders_[x].next
    BY <1>2
  <2>2. PICK rest : Good(c, act \ {x}, rest)
    BY <1>1, <2>1, DropOK
  <2>3. Keeps(s, c, act \ {x})
    BY <1>1, <2>1, DropOK
  <2>4. y # npos => y \in act \ {x} /\ b.orders_[y].level = l
    BY <2>1, NextOf
  <2>5. y # npos => y \in act \ {x} /\ c.orders_[y].level = l
    BY <1>1, <2>3, <2>4 DEF Keeps
  <2> QED  BY <2>2, <2>5
<1>3. CASE q # b.orders_[x].quantity
  <2>1. c = TakeFrom(s, x, l, q) /\ y = x
    BY <1>3
  <2>2. s.orders_[x].quantity \in Nat /\ q < s.orders_[x].quantity /\ l = s.orders_[x].level
    BY <1>1, <1>3, OrderOf
  <2>3. Good(c, act, lv) /\ Keeps(s, c, act)
    BY <1>1, <2>1, <2>2, TakeOK
  <2> QED  BY <1>1, <2>1, <2>3 DEF Keeps
<1> QED  BY <1>2, <1>3

(* The members of a request. *)
LEMMA RequestIs ==
  ASSUME NEW r \in Requests
  PROVE  r.id \in OrderId /\ r.side \in Side /\ r.price \in Price /\ r.quantity \in Nat
         /\ Opposite(r.side) \in Side
<1>1. r \in OrderRequest
  BY InputAssumption
<1>2. r.id \in OrderId /\ r.side \in Side /\ r.price \in Price /\ r.quantity \in Quantity
  BY <1>1 DEF OrderRequest
<1> QED  BY <1>2, InputAssumption DEF Opposite, Side

(* A fill keeps the invariant: the order under the cursor may be dropped,  *)
(* its level released, and the next one is still there.                    *)
LEMMA SubmitFillOK ==
  MatchInv /\ SubmitFill => MatchInv'
<1> SUFFICES ASSUME MatchInv, SubmitFill PROVE MatchInv'
  BY SMTT(30)
<1> DEFINE l == CurrentLevel
           x == IF taker.order_index # npos THEN taker.order_index ELSE book.levels_[l].head
           maker == book.orders_[x]
           q == Min({taker.remaining, maker.quantity})
           s == [book EXCEPT !.fill_sequence_ = @ + 1]
           y == IF q = maker.quantity THEN maker.next ELSE x
<1>1. /\ result = "matching" /\ l # npos /\ result' = result
      /\ taker' = [taker EXCEPT !.remaining = @ - q, !.level_index = l, !.order_index = y]
      /\ book' = IF q = maker.quantity THEN DropOrder(s, x)
                 ELSE [s EXCEPT !.orders_[x].quantity = @ - q,
                                !.levels_[l].total_quantity = @ - q]
  BY ZenonT(30) DEF SubmitFill
<1>2. PICK act, lv : Good(book, act, lv) /\ Taking(book, taker, act)
  BY <1>1 DEF MatchInv
<1>3. x \in act /\ book.orders_[x].level = l
  <2>1. CASE taker.order_index # npos
    BY <1>2, <2>1 DEF CurrentLevel, Taking
  <2>2. CASE taker.order_index = npos
    <3>1. Opposite(taker.request.side) \in Side
      BY <1>2, RequestIs, SMTT(30) DEF Taking
    <3>2. l = ladder_top(book, Opposite(taker.request.side))
      BY <1>1, <2>2, ZenonT(30) DEF CurrentLevel
    <3>3. l \in lv
      <4> HIDE DEF l
      <4> QED  BY <1>1, <1>2, <3>1, <3>2, TopOf
    <3> HIDE DEF l
    <3>4. book.levels_[l].head \in act /\ book.orders_[book.levels_[l].head].level = l
      BY <1>2, <3>3, HeadOf
    <3> QED  BY <2>2, <3>4
  <2> QED  BY <2>1, <2>2
<1> HIDE DEF x, l
<1>4. taker.remaining \in Nat /\ maker.quantity \in Nat
  BY <1>2, <1>3, OrderOf DEF Taking
<1>5. q \in Nat /\ q <= maker.quantity /\ q <= taker.remaining
  BY <1>4, MinOfTwo
<1>6. \E act2, lv2 : /\ Good(book', act2, lv2)
                     /\ y # npos => y \in act2 /\ book'.orders_[y].level = l
  <2> DEFINE c == book'
  <2>1. Filled(book, x, l, q, s, c, y)
    <3>1. /\ l = book.orders_[x].level /\ q \in Nat /\ q <= book.orders_[x].quantity
      BY <1>3, <1>5
    <3> DEFINE d == IF q = maker.quantity THEN DropOrder(s, x)
                 ELSE [s EXCEPT !.orders_[x].quantity = @ - q,
                                !.levels_[l].total_quantity = @ - q]
    <3>2. d = IF q = book.orders_[x].quantity THEN DropOrder(s, x) ELSE TakeFrom(s, x, l, q)
      BY DEF TakeFrom
    <3>3. c = d
      BY <1>1
    <3> HIDE DEF c, d, q
    <3> QED  BY <3>1, <3>2, <3>3 DEF Filled
  <2> HIDE DEF c, q, s, y
  <2>2. \E act2, lv2 : /\ Good(c, act2, lv2)
                       /\ y # npos => y \in act2 /\ c.orders_[y].level = l
    BY <1>2, <1>3, <2>1, FillOK
  <2> QED  BY <2>2 DEF c
<1> HIDE DEF q, y
<1>7. PICK act2, lv2 : /\ Good(book', act2, lv2)
                       /\ y # npos => y \in act2 /\ book'.orders_[y].level = l
  BY <1>6
<1>8. taker' = [request |-> taker.request, remaining |-> taker.remaining - q,
                level_index |-> l, order_index |-> y]
  <2>1. taker = [request |-> taker.request, remaining |-> taker.remaining,
                 level_index |-> taker.level_index, order_index |-> taker.order_index]
    BY <1>2 DEF Taking
  <2>2. taker' = [taker EXCEPT !.remaining = @ - q, !.level_index = l, !.order_index = y]
    BY <1>1
  <2> QED  BY <2>1, <2>2
<1>9. taker.remaining - q \in Nat
  BY <1>4, <1>5
<1>10. Taking(book', taker', act2)
  BY <1>2, <1>7, <1>8, <1>9 DEF Taking
<1> QED  BY <1>7, <1>10 DEF MatchInv

(* The end of submit keeps the invariant: the rest of the order may rest. *)
LEMMA SubmitEndOK == MatchInv /\ SubmitEnd => MatchInv'
<1> SUFFICES ASSUME MatchInv, SubmitEnd PROVE MatchInv'
  OBVIOUS
<1> DEFINE r == taker.request
           rested == rest_order(book, r.id, r.side, r.price, taker.remaining)
<1>1. result = "matching" /\ result' # "matching" /\ book' \in {book, rested.book}
  BY DEF SubmitEnd
<1>2. PICK act, lv : Good(book, act, lv) /\ Taking(book, taker, act)
  BY <1>1 DEF MatchInv
<1>3. r.id \in OrderId /\ r.side \in Side /\ r.price \in Price /\ taker.remaining \in Nat
  BY <1>2, RequestIs DEF Taking
<1>4. Sound(rested.book)
  <2> HIDE DEF r
  <2> QED  BY <1>2, <1>3, RestOK
<1>5. Sound(book')
  <2> HIDE DEF rested
  <2> QED  BY <1>1, <1>2, <1>4 DEF Sound
<1> QED  BY <1>1, <1>5 DEF MatchInv, Sound

(* The start of submit keeps the invariant: the cursor is nowhere yet. *)
LEMMA SubmitBeginOK ==
  ASSUME MatchInv, NEW request \in Requests, SubmitBegin(request)
  PROVE  MatchInv'
<1> DEFINE check == SubmitCheck(request)
<1>1. /\ book' = book /\ result' = check
      /\ taker' = IF check = "matching"
                    THEN [request |-> request, remaining |-> request.quantity,
                          level_index |-> npos, order_index |-> npos]
                    ELSE NoTaker
  BY DEF SubmitBegin
<1>2. PICK act, lv : Good(book, act, lv)
  BY DEF MatchInv
<1> HIDE DEF check
<1>3. result' = "matching" => Taking(book', taker', act)
  <2>1. request.quantity \in Nat
    BY RequestIs
  <2> QED  BY <1>1, <2>1 DEF Taking
<1> QED  BY <1>1, <1>2, <1>3 DEF MatchInv

(* A cancel in match mode keeps the invariant. *)
LEMMA SubmitCancelOK ==
  ASSUME MatchInv, NEW id \in OrderId, SubmitCancel(id)
  PROVE  MatchInv'
<1>1. book' = cancel(book, id).book /\ result' # "matching"
  BY DEF SubmitCancel
<1>2. PICK act, lv : Good(book, act, lv)
  BY DEF MatchInv
<1>3. Sound(book')
  BY <1>1, <1>2, CancelOK
<1> QED  BY <1>1, <1>3 DEF MatchInv, Sound

(* Every step of match mode keeps the invariant. *)
LEMMA MatchInductive == MatchInv /\ [MatchNext]_vars => MatchInv'
<1> SUFFICES ASSUME MatchInv, [MatchNext]_vars PROVE MatchInv'
  OBVIOUS
<1>1. CASE SubmitFill
  BY <1>1, SubmitFillOK
<1>2. CASE SubmitEnd
  BY <1>2, SubmitEndOK
<1>3. CASE \E id \in OrderId : SubmitCancel(id)
  BY <1>3, SubmitCancelOK
<1>4. CASE \E request \in Requests : SubmitBegin(request)
  BY <1>4, SubmitBeginOK
<1>5. CASE UNCHANGED vars
  BY <1>5 DEF MatchInv, vars
<1> QED  BY <1>1, <1>2, <1>3, <1>4, <1>5 DEF MatchNext

-----------------------------------------------------------------------------
(* Apply mode. *)
ModifyAtomic(id, sd, pr, q) ==
  Modify(id, sd, pr, q) /\ result' = "CapacityExhausted" => book' = book

(* A modify that is refused for want of room leaves the book alone:        *)
(* modify's second CapacityExhausted is "unreachable after precheck"       *)
(* (OrderBook.cpp:84).                                                     *)
ModifyIsAtomic ==
  [][\A id \in OrderId, sd \in Side, pr \in Price, q \in Quantity :
       ModifyAtomic(id, sd, pr, q)]_vars

(* Every event keeps the book whole, a modify if it is atomic when         *)
(* refused.                                                                *)
LEMMA ApplyInductive ==
  ASSUME Sound(book), ApplyNext,
         \A id \in OrderId, sd \in Side, pr \in Price, q \in Quantity :
           ModifyAtomic(id, sd, pr, q)
  PROVE  Sound(book')
<1>1. PICK act, lv : Good(book, act, lv)
  BY DEF Sound
<1>2. \A q \in Quantity : q \in Nat
  BY InputAssumption
<1>3. PICK id \in OrderId :
        \/ Cancel(id)
        \/ \E q \in Quantity : Trade(id, q)
        \/ \E pr \in Price, q \in Quantity :
             \/ \E sd \in Side : Add(id, sd, pr, q) \/ Modify(id, sd, pr, q)
             \/ \E new_id \in OrderId : Replace(id, new_id, pr, q)
  BY DEF ApplyNext
<1>4. CASE Cancel(id)
  <2>1. book' = cancel(book, id).book
    BY <1>4 DEF Cancel, Call
  <2> QED  BY <1>1, <2>1, CancelOK
<1>5. CASE \E q \in Quantity : Trade(id, q)
  <2>1. PICK q \in Quantity : Trade(id, q)
    BY <1>5
  <2>2. book' = trade(book, id, q).book
    BY <2>1 DEF Trade, Call
  <2> QED  BY <1>1, <1>2, <2>2, TradeOK
<1>6. ASSUME NEW pr \in Price, NEW q \in Quantity, NEW sd \in Side, Add(id, sd, pr, q)
      PROVE  Sound(book')
  <2>1. book' = rest_order(book, id, sd, pr, q).book
    BY <1>6 DEF Add, Call
  <2> QED  BY <1>1, <1>2, <2>1, RestOK
<1>7. ASSUME NEW pr \in Price, NEW q \in Quantity, NEW sd \in Side, Modify(id, sd, pr, q)
      PROVE  Sound(book')
  <2> DEFINE m == modify(book, id, sd, pr, q)
  <2>1. book' = m.book /\ result' = m.result
    BY <1>7 DEF Modify, Call
  <2>2. m.result = "CapacityExhausted" => m.book = book
    <3>1. ModifyAtomic(id, sd, pr, q)
      OBVIOUS
    <3> HIDE DEF m
    <3> QED  BY <1>7, <2>1, <3>1 DEF ModifyAtomic
  <2> QED  BY <1>1, <1>2, <2>1, <2>2, ModifyOK
<1>8. ASSUME NEW pr \in Price, NEW q \in Quantity, NEW new_id \in OrderId,
             Replace(id, new_id, pr, q)
      PROVE  Sound(book')
  <2>1. book' = replace(book, id, new_id, pr, q).book
    BY <1>8 DEF Replace, Call
  <2> QED  BY <1>1, <1>2, <2>1, ReplaceOK
<1> QED  BY <1>3, <1>4, <1>5, <1>6, <1>7, <1>8

-----------------------------------------------------------------------------
(* The invariant of the runs follows. *)

(* The first of some orders is the one Earliest chooses: no two orders     *)
(* have the same priority.                                                 *)
LEMMA EarliestIs ==
  ASSUME NEW on, InTime(book.orders_, on), NEW S, S \subseteq on, NEW x,
         FirstOf(book.orders_, S, x)
  PROVE  x = Earliest(S)
<1> DEFINE o == book.orders_
           P(i) == i \in S /\ \A j \in S : o[i].priority <= o[j].priority
<1>1. CASE S = {}
  BY <1>1 DEF FirstOf, Earliest
<1>2. CASE S # {}
  <2>1. P(x)
    BY <1>2 DEF FirstOf
  <2>2. \A i : P(i) => i = x
    BY <2>1 DEF InTime
  <2>3. (CHOOSE i \in S : \A j \in S : o[i].priority <= o[j].priority) = x
    BY <2>1, <2>2
  <2> QED  BY <1>2, <2>3 DEF Earliest
<1> QED  BY <1>1, <1>2

(* The slots marked active are those of the orders and levels. *)
LEMMA ActiveIs ==
  ASSUME NEW act, NEW lv, Good(book, act, lv)
  PROVE  ActiveOrders = act /\ ActiveLevels = lv
<1>1. /\ OrdersType(book.orders_, act) /\ LevelsType(book.levels_, lv)
  BY DEF Good, BookOrders, BookLevels, OrdersHeld, LevelsHeld
<1>2. ActiveLevels = lv
  BY <1>1, PricesOf DEF ActiveLevels
<1>3. \A i \in act : book.orders_[i].active = TRUE
  BY <1>1 DEF OrdersType, OrderRec
<1>4. \A i \in Slots \ act : book.orders_[i].active = FALSE
  BY <1>1 DEF OrdersType, FreeRec
<1>5. act \subseteq Slots
  BY <1>1 DEF OrdersType
<1>6. ActiveOrders = act
  BY <1>3, <1>4, <1>5 DEF ActiveOrders
<1> QED  BY <1>2, <1>6

(* The free list in the words of the invariant. *)
LEMMA FreeListIs ==
  ASSUME NEW pool, NEW first, NEW S, Chain(pool, first, S)
  PROVE  FreeList(pool, first, S)
  BY DEF Chain, Runs, FreeList

(* A whole book has whole pools. *)
LEMMA PoolsFromGood ==
  ASSUME NEW act, NEW lv, Good(book, act, lv)
  PROVE  PoolsOK
<1>1. /\ Chain(book.orders_, book.free_order_, Slots \ act)
      /\ Chain(book.levels_, book.free_level_, Slots \ lv)
      /\ book.active_orders_ = Cardinality(act)
      /\ lv = {book.orders_[i].level : i \in act}
  BY DEF Good, BookOrders, BookLevels, OrdersHeld, LevelsHeld, Used
<1>2. /\ FreeList(book.orders_, book.free_order_, Slots \ act)
      /\ FreeList(book.levels_, book.free_level_, Slots \ lv)
  BY <1>1, FreeListIs
<1>3. ActiveOrders = act /\ ActiveLevels = lv
  BY ActiveIs
<1> QED  BY <1>1, <1>2, <1>3, Zenon DEF PoolsOK

(* A whole book has whole lookup tables. *)
LEMMA LookupFromGood ==
  ASSUME NEW act, NEW lv, Good(book, act, lv)
  PROVE  LookupOK
<1>1. ActiveOrders = act /\ ActiveLevels = lv /\ npos \notin Slots
  BY ActiveIs, SlotsFinite
<1>2. ASSUME NEW id \in OrderId, NEW i \in Slots
      PROVE  find_order_index(book, id) = i <=> i \in act /\ book.orders_[i].id = id
  <2> DEFINE f == find_order_index(book, id)
  <2>1. OrderFound(book.orders_, act, id, f)
    BY Found
  <2>2. \A j, k \in act : book.orders_[j].id = book.orders_[k].id => j = k
    BY IdsDistinct DEF Good, BookOrders
  <2> HIDE DEF f
  <2>3. f = i <=> i \in act /\ book.orders_[i].id = id
    BY <1>1, <2>1, <2>2 DEF OrderFound
  <2> QED  BY <2>3 DEF f
<1>3. ASSUME NEW sd \in Side, NEW pr \in Price, NEW l \in Slots
      PROVE  find_level_index(book, sd, pr) = l
               <=> l \in lv /\ book.levels_[l].side = sd /\ book.levels_[l].price = pr
  <2> DEFINE f == find_level_index(book, sd, pr)
  <2>1. LevelFound(book.levels_, lv, sd, pr, f)
    BY FindLevel DEF find_level_index, Good, BookLevels
  <2>2. \A k, m \in lv : book.levels_[k].side = book.levels_[m].side
                         /\ book.levels_[k].price = book.levels_[m].price => k = m
    BY LevelsDistinct DEF Good, BookLevels
  <2> HIDE DEF f
  <2>3. f = l <=> l \in lv /\ book.levels_[l].side = sd /\ book.levels_[l].price = pr
    BY <1>1, <2>1, <2>2 DEF LevelFound
  <2> QED  BY <2>3 DEF f
<1> QED  BY <1>1, <1>2, <1>3 DEF LookupOK

(* A whole book has whole ladders. *)
LEMMA LaddersFromGood ==
  ASSUME NEW act, NEW lv, Good(book, act, lv)
  PROVE  LaddersOK
<1>1. ActiveLevels = lv
  BY ActiveIs
<1>2. /\ LevelsType(book.levels_, lv) /\ lv \subseteq Slots /\ OnLadders(book.levels_, book.ladder, lv)
  BY DEF Good, BookLevels, LevelsHeld, LevelsType
<1>3. LevelPrice(book) = Prices(book.levels_)
  BY DEF LevelPrice, Prices
<1>4. ASSUME NEW sd \in Side
      PROVE  LET lad == book.ladder[sd]
                 S == {l \in lv : book.levels_[l].side = sd}
             IN  /\ DOMAIN lad.heap = 0 .. Cardinality(S) - 1
                 /\ DOMAIN lad.heap_pos = S
                 /\ \A l \in S :
                      /\ lad.heap[lad.heap_pos[l]] = l
                      /\ l # lad.heap[0] =>
                           ladder_before(sd, Prices(book.levels_), lad.heap[0], l)
  <2> DEFINE lad == book.ladder[sd]
             S == {l \in lv : book.levels_[l].side = sd}
             n == Cardinality(S)
             pr == Prices(book.levels_)
  <2>1. GoodLadder(sd, pr, lad, S, n)
    BY <1>2 DEF OnLadders, OfSide
  <2>2. n \in Nat
    BY <1>2, SlotsFinite
  <2>3. Ordered(sd, pr, S)
    <3>1. \A l \in S : pr[l] \in Int /\ pr[l] = book.levels_[l].price
      BY <1>2, PricesOf
    <3>2. \A l, k \in S : pr[l] = pr[k] => l = k
      <4>1. \A k, m \in lv : book.levels_[k].side = book.levels_[m].side
                             /\ book.levels_[k].price = book.levels_[m].price => k = m
        BY LevelsDistinct DEF Good, BookLevels
      <4>2. \A l, k \in S : l \in lv /\ k \in lv /\ book.levels_[l].side = book.levels_[k].side
        OBVIOUS
      <4> HIDE DEF S, pr
      <4> QED  BY <3>1, <4>1, <4>2
    <3> HIDE DEF S, pr
    <3> QED  BY <3>1, <3>2, LevelsOrdered
  <2> HIDE DEF lad, S, n, pr
  <2>4. \A l \in S : l = lad.heap[0] \/ ladder_before(sd, pr, lad.heap[0], l)
    BY <2>1, <2>2, <2>3, TopFirst
  <2>5. /\ DOMAIN lad.heap = 0 .. n - 1 /\ DOMAIN lad.heap_pos = S
        /\ \A l \in S : lad.heap[lad.heap_pos[l]] = l
    BY <2>1 DEF GoodLadder, Shape
  <2> QED  BY <2>4, <2>5 DEF lad, S, n, pr
<1> QED  BY <1>1, <1>3, <1>4 DEF LaddersOK

(* The links both ways of the orders of a level.                           *)
LEMMA LinksBothWays ==
  ASSUME NEW o, NEW on, npos \notin on, InTime(o, on), Chained(o, on), NEW i \in on
  PROVE  /\ o[i].next = npos => \A tail : LastOf(o, OnLevel(o, on, o[i].level), tail) => tail = i
         /\ o[i].next # npos => o[o[i].next].prev = i
         /\ FirstOf(o, OnLevel(o, on, o[i].level), i) => o[i].prev = npos
<1> DEFINE y == o[i].next
           l == o[i].level
<1>1. FirstOf(o, After(o, on, i), y) /\ LastOf(o, Before(o, on, i), o[i].prev)
  BY DEF Chained
<1>2. \A j \in on : o[j].priority \in Nat
  BY DEF InTime
<1>3. ASSUME y = npos, NEW tail, LastOf(o, OnLevel(o, on, l), tail) PROVE tail = i
  <2>1. After(o, on, i) = {}
    BY <1>1, <1>3 DEF FirstOf, After
  <2>2. i \in OnLevel(o, on, l)
    BY DEF OnLevel
  <2>3. /\ tail \in OnLevel(o, on, l) /\ o[tail].priority >= o[i].priority
    BY <1>3, <2>2 DEF LastOf
  <2>4. tail \in on /\ o[tail].level = l /\ tail \notin After(o, on, i)
    BY <2>1, <2>3 DEF OnLevel
  <2>5. ~(o[tail].priority > o[i].priority)
    BY <2>4 DEF After
  <2>6. o[tail].priority = o[i].priority
    BY <1>2, <2>3, <2>4, <2>5
  <2> QED  BY <2>4, <2>6 DEF InTime
<1>4. ASSUME y # npos PROVE o[y].prev = i
  <2>1. y \in After(o, on, i) /\ \A j \in After(o, on, i) : o[y].priority <= o[j].priority
    BY <1>1, <1>4 DEF FirstOf
  <2>2. y \in on /\ o[y].level = l /\ o[y].priority > o[i].priority
    BY <2>1 DEF After
  <2> DEFINE z == o[y].prev
  <2>3. LastOf(o, Before(o, on, y), z) /\ i \in Before(o, on, y)
    BY <1>2, <2>2 DEF Chained, Before
  <2>4. z \in Before(o, on, y) /\ o[z].priority >= o[i].priority
    BY <2>3 DEF LastOf
  <2>5. z \in on /\ o[z].level = l /\ o[z].priority < o[y].priority
    BY <2>2, <2>4 DEF Before
  <2>6. ~(o[z].priority > o[i].priority)
    <3>1. SUFFICES ASSUME o[z].priority > o[i].priority PROVE FALSE
      OBVIOUS
    <3>2. z \in After(o, on, i)
      BY <2>5, <3>1 DEF After
    <3> HIDE DEF z, y
    <3>3. o[y].priority <= o[z].priority
      BY <2>1, <3>2
    <3>4. o[y].priority \in Nat /\ o[z].priority \in Nat
      BY <1>2, <2>2, <2>5
    <3> QED  BY <2>5, <3>3, <3>4
  <2>7. o[z].priority = o[i].priority
    <3> HIDE DEF z
    <3>1. o[z].priority \in Nat /\ o[i].priority \in Nat
      BY <1>2, <2>5
    <3> QED  BY <2>4, <2>6, <3>1
  <2> HIDE DEF z
  <2>8. z = i
    BY <2>5, <2>7 DEF InTime
  <2> QED  BY <2>8 DEF z
<1>5. ASSUME FirstOf(o, OnLevel(o, on, l), i) PROVE o[i].prev = npos
  <2>1. \A j \in OnLevel(o, on, l) : o[i].priority <= o[j].priority
    BY <1>5 DEF FirstOf
  <2>2. Before(o, on, i) = {}
    BY <1>2, <2>1 DEF Before, OnLevel
  <2> QED  BY <1>1, <2>2 DEF LastOf
<1> QED  BY <1>3, <1>4, <1>5

(* The total in the words of the invariant. *)
LEMMA TotalIs ==
  ASSUME NEW o, NEW S \in SUBSET Slots, \A i \in S : o[i].quantity \in Nat
  PROVE  SumFunctionOnSet(Qty(o), S) = SumFunction([i \in S |-> o[i].quantity])
<1> DEFINE f == Qty(o)
           g == [i \in S |-> o[i].quantity]
<1>1. IsFiniteSet(S)
  BY SlotsFinite
<1>2. \A i \in S : f[i] = g[i] /\ f[i] \in Int
  BY DEF Qty
<1>3. DOMAIN g = S
  OBVIOUS
<1> HIDE DEF f, g
<1>4. SumFunctionOnSet(f, S) = SumFunctionOnSet(g, S)
  BY <1>1, <1>2, SumCong
<1>5. SumFunction(g) = SumFunctionOnSet(g, S)
  BY <1>3, Zenon DEF SumFunction
<1> QED  BY <1>4, <1>5 DEF f, g

(* A whole book has whole lists. *)
LEMMA LevelsFromGood ==
  ASSUME NEW act, NEW lv, Good(book, act, lv)
  PROVE  LevelsOK
<1> DEFINE o == book.orders_
           v == book.levels_
<1>1. ActiveLevels = lv /\ ActiveOrders = act
  BY ActiveIs
<1>2. /\ InTime(o, act) /\ Chained(o, act) /\ Placed(o, v, act, lv) /\ Listed(o, v, act, lv)
      /\ act \subseteq Slots /\ npos \notin act
  BY SlotsFinite DEF Good, Lists, BookOrders, OrdersHeld, OrdersType
<1>3. \A i \in act : o[i].quantity \in Nat \ {0}
  BY OrderOf
<1>4. \A l : Queue(l) = OnLevel(o, act, l) /\ Queue(l) \subseteq act
  BY <1>1 DEF Queue, OnLevel
<1>5. \A i \in act : Behind(i) = After(o, act, i) /\ Behind(i) \subseteq act
  BY <1>4 DEF Behind, After, OnLevel
<1>6. ASSUME NEW l \in lv
      PROVE  /\ v[l].head = Earliest(Queue(l))
             /\ v[l].order_count = Cardinality(Queue(l))
             /\ v[l].total_quantity = SumFunction([i \in Queue(l) |-> o[i].quantity])
  <2>1. /\ Ends(o, act, l, v[l].head, v[l].tail)
        /\ Tally(o, act, l, v[l].order_count, v[l].total_quantity)
    BY <1>2 DEF Listed
  <2>2. v[l].head = Earliest(Queue(l))
    <3>1. FirstOf(o, Queue(l), v[l].head) /\ Queue(l) \subseteq act
      BY <1>4, <2>1 DEF Ends
    <3> QED  BY <1>2, <3>1, EarliestIs
  <2>3. /\ v[l].order_count = Cardinality(Queue(l))
        /\ v[l].total_quantity = SumFunctionOnSet(Qty(o), Queue(l))
    BY <1>4, <2>1 DEF Tally
  <2>4. SumFunctionOnSet(Qty(o), Queue(l)) = SumFunction([i \in Queue(l) |-> o[i].quantity])
    <3> DEFINE S == Queue(l)
    <3>1. S \in SUBSET Slots /\ \A i \in S : o[i].quantity \in Nat
      BY <1>2, <1>3, <1>4
    <3> HIDE DEF S, o
    <3>2. SumFunctionOnSet(Qty(o), S) = SumFunction([i \in S |-> o[i].quantity])
      BY <3>1, TotalIs
    <3> QED  BY <3>2 DEF S
  <2> QED  BY <2>2, <2>3, <2>4
<1>7. ASSUME NEW l \in lv, NEW i \in Queue(l)
      PROVE  /\ o[i].side = v[l].side /\ o[i].price = v[l].price
             /\ o[i].quantity > 0
             /\ o[i].next = Earliest(Behind(i))
             /\ IF o[i].next = npos THEN v[l].tail = i ELSE o[o[i].next].prev = i
             /\ v[l].head = i => o[i].prev = npos
  <2>1. i \in act /\ o[i].level = l
    BY <1>4 DEF OnLevel
  <2>2. o[i].side = v[l].side /\ o[i].price = v[l].price /\ o[i].quantity > 0
    BY <1>2, <1>3, <2>1 DEF Placed
  <2>3. o[i].next = Earliest(Behind(i))
    <3>1. FirstOf(o, Behind(i), o[i].next) /\ Behind(i) \subseteq act
      BY <1>2, <1>5, <2>1 DEF Chained
    <3> QED  BY <1>2, <3>1, EarliestIs
  <2>4. FirstOf(o, OnLevel(o, act, l), v[l].head) /\ LastOf(o, OnLevel(o, act, l), v[l].tail)
    BY <1>2 DEF Listed, Ends
  <2>5. /\ o[i].next = npos => \A tail : LastOf(o, OnLevel(o, act, o[i].level), tail) => tail = i
        /\ o[i].next # npos => o[o[i].next].prev = i
        /\ FirstOf(o, OnLevel(o, act, o[i].level), i) => o[i].prev = npos
    <3> HIDE DEF o
    <3> QED  BY <1>2, <2>1, LinksBothWays
  <2> HIDE DEF o, v
  <2>6. IF o[i].next = npos THEN v[l].tail = i ELSE o[o[i].next].prev = i
    BY <2>1, <2>4, <2>5
  <2>7. v[l].head = i => o[i].prev = npos
    BY <2>1, <2>4, <2>5
  <2> QED  BY <2>2, <2>3, <2>6, <2>7
<1> QED  BY <1>1, <1>6, <1>7 DEF LevelsOK

(* A whole book has the structure the invariant asks for. *)
LEMMA StructureFromGood ==
  Sound(book) => StructureOK
  BY PoolsFromGood, LevelsFromGood, LookupFromGood, LaddersFromGood DEF Sound, StructureOK

(* The pools, lists, lookup tables and ladders of a matching book (submit, *)
(* cancel) agree after every call and between the fills of one, for every  *)
(* capacity, hash and stream of requests.                                  *)
THEOREM MatchStructure == MatchSpec => []StructureOK
<1>1. Init => MatchInv
  BY InitGood DEF MatchInv, Init
<1>2. MatchInv /\ [MatchNext]_vars => MatchInv'
  BY MatchInductive
<1>3. MatchInv => StructureOK
  BY StructureFromGood DEF MatchInv, Sound
<1> QED  BY <1>1, <1>2, <1>3, PTL DEF MatchSpec

(* The same of a book that applies events, if a modify that is refused for *)
(* want of room leaves the book alone. That is the only hypothesis: no     *)
(* other event can break the structure, not even with a saturated level    *)
(* table.                                                                  *)
THEOREM ApplyStructure == ApplySpec /\ ModifyIsAtomic => []StructureOK
<1> DEFINE Atomic == \A id \in OrderId, sd \in Side, pr \in Price, q \in Quantity :
                       ModifyAtomic(id, sd, pr, q)
           Inv == Sound(book)
<1>1. Init => Inv
  BY InitGood DEF Sound
<1>2. Inv /\ [ApplyNext]_vars /\ [Atomic]_vars => Inv'
  <2> SUFFICES ASSUME Inv, [ApplyNext]_vars, [Atomic]_vars PROVE Inv'
    OBVIOUS
  <2>1. CASE UNCHANGED vars
    BY <2>1 DEF vars
  <2>2. CASE ApplyNext /\ Atomic
    BY <2>2, ApplyInductive
  <2> QED  BY <2>1, <2>2
<1>3. Inv => StructureOK
  BY StructureFromGood
<1>4. ModifyIsAtomic <=> [][Atomic]_vars
  BY DEF ModifyIsAtomic
<1> HIDE DEF Atomic, Inv
<1> QED  BY <1>1, <1>2, <1>3, <1>4, PTL DEF ApplySpec

-----------------------------------------------------------------------------
(* Apply mode and the room of the level table. *)

(* Some slot of the level table was never used: without one the table of   *)
(* levels, which does not reclaim tombstones, takes no new key.            *)
HasEmpty(t) == \E s \in TableSlots : t[s] = Empty

LevelTableHasRoom == HasEmpty(book.level_lookup_)

(* With an empty slot the level table takes any key: a probe visits every  *)
(* slot.                                                                   *)
LEMMA EmptyTakesKey ==
  ASSUME NEW n, NEW h, NEW t, NEW c, TableOf(n, h, t, c), NEW key \in DOMAIN h,
         NEW s \in 0 .. n - 1, t[s] = Empty
  PROVE  CanInsert(t, h[key], FALSE)
<1>1. TableType(n, h, t, c)
  BY DEF TableOf
<1>2. /\ n \in Nat \ {0} /\ h[key] \in Nat
      /\ \A i \in 0 .. n - 1 : /\ At(n, h, key, i) \in 0 .. n - 1
                               /\ Probe(t, h[key], i) = At(n, h, key, i)
  BY <1>1, AtProbe DEF TableType
<1>3. PICK i \in 0 .. n - 1 : At(n, h, key, i) = s
  BY <1>2, ProbesCover DEF At
<1> DEFINE U == Vacant(n, h, t, key, FALSE)
<1>4. U # {} /\ U \subseteq 0 .. n - 1
  BY <1>3 DEF Vacant
<1>5. Min(U) \in 0 .. n - 1
  <2> HIDE DEF U
  <2> QED  BY <1>2, <1>4, FirstProbe
<1>6. InsertSlot(t, h[key], FALSE) = IF U = {} THEN npos ELSE Probe(t, h[key], Min(U))
  BY <1>1, InsertTakes, Zenon
<1> HIDE DEF U
<1>7. InsertSlot(t, h[key], FALSE) \in 0 .. n - 1
  BY <1>2, <1>4, <1>5, <1>6
<1>8. npos \notin 0 .. n - 1
  BY <1>2 DEF npos
<1> QED  BY <1>7, <1>8, Zenon DEF CanInsert

(* An empty slot stays empty when a key is erased. *)
LEMMA EraseKeepsEmpty ==
  ASSUME NEW t, DOMAIN t = TableSlots, HasEmpty(t), NEW hm, NEW key
  PROVE  HasEmpty(erase(t, hm, key))
<1>1. PICK s \in TableSlots : t[s] = Empty
  BY DEF HasEmpty
<1> DEFINE slot == SearchEnd(t, hm, key)
<1>2. erase(t, hm, key) = IF slot = npos \/ t[slot] = Empty THEN t
                          ELSE [t EXCEPT ![slot] = Tombstone]
  BY DEF erase
<1> HIDE DEF slot
<1>3. erase(t, hm, key)[s] = Empty
  BY <1>1, <1>2
<1> QED  BY <1>3 DEF HasEmpty

(* unlink leaves an empty slot empty, and the slot of a level whose only   *)
(* order it takes is free.                                                 *)
LEMMA UnlinkLeavesRoom ==
  ASSUME NEW b, NEW act, NEW lv, Good(b, act, lv), NEW x \in act, HasEmpty(b.level_lookup_),
         NEW u, u = unlink(b, x),
         b.free_level_ # npos \/ ~(b.levels_[b.orders_[x].level].order_count > 1)
  PROVE  HasEmpty(u.level_lookup_) /\ u.free_level_ # npos
<1> DEFINE w == Unlinked(b, x)
           l == b.orders_[x].level
           less == act \ {x}
<1>1. OrdersType(b.orders_, act) /\ LevelsType(b.levels_, lv) /\ l \in lv /\ l \in Slots
  BY DEF Good, BookOrders, BookLevels, OrdersHeld, LevelsHeld, LevelsType, Used
<1>2. Relinked(b, w, act, lv) /\ Lists(w.orders_, w.levels_, less, lv)
  BY <1>1, UnlinkedOK DEF Good
<1>3. u = IF w.levels_[l].order_count = 0 THEN release_level(w, l) ELSE w
  BY UnlinkIs DEF Good
<1> HIDE DEF w
<1>4. /\ IsBook(w) /\ w.level_lookup_ = b.level_lookup_ /\ w.free_level_ = b.free_level_
      /\ \A i \in act : w.orders_[i].level = b.orders_[i].level
  BY <1>2, SMTT(30) DEF Relinked, SameFields, SameButLinks
<1>5. CASE w.levels_[l].order_count = 0
  <2> DEFINE sd == w.levels_[l].side
             key == <<sd, w.levels_[l].price>>
             t2 == erase(w.level_lookup_, LevelHash[key], key)
             v2 == [w.levels_ EXCEPT ![l] = FreeSlot(w.free_level_)]
             lad2 == [w.ladder EXCEPT ![sd] = ladder_remove(sd, Prices(w.levels_), w.ladder[sd], l)]
  <2>0. release_level(w, l) = Released(w, l, sd, key)
    BY <1>4, ReleaseIs, SMTT(30)
  <2>1. release_level(w, l) = WithLevels(w, v2, t2, lad2, l)
    BY <2>0 DEF Released
  <2>2. u = WithLevels(w, v2, t2, lad2, l)
    <3> HIDE DEF v2, t2, lad2, l
    <3> QED  BY <1>3, <1>5, <2>1
  <2>3. u.level_lookup_ = t2 /\ u.free_level_ = l
    <3> HIDE DEF v2, t2, lad2, l
    <3> QED  BY <2>2, WithLevelsIs
  <2>4. HasEmpty(t2)
    <3>1. DOMAIN w.level_lookup_ = TableSlots
      <4>1. PICK c : TableOf(TS, LevelHash, b.level_lookup_, c)
        BY DEF Good, BookLevels, LevelsHeld
      <4> QED  BY <1>4, <4>1, TableSlotsIs DEF TableOf, TableType
    <3> DEFINE hm == LevelHash[key]
    <3> HIDE DEF key, hm
    <3>2. HasEmpty(erase(w.level_lookup_, hm, key))
      BY <1>4, <3>1, EraseKeepsEmpty
    <3> QED  BY <3>2 DEF hm
  <2> QED  BY <1>1, <2>3, <2>4, SlotsFinite
<1>6. CASE w.levels_[l].order_count # 0
  <2>1. u = w
    BY <1>3, <1>6
  <2>2. b.levels_[l].order_count > 1
    <3> DEFINE Q == OnLevel(b.orders_, act, l)
    <3>1. Q \ {x} = OnLevel(w.orders_, less, l) /\ x \in Q
      BY <1>4 DEF OnLevel
    <3>2. /\ b.levels_[l].order_count = Cardinality(Q)
          /\ w.levels_[l].order_count = Cardinality(Q \ {x})
      BY <1>1, <1>2, <3>1 DEF Good, Lists, Listed, Tally
    <3>3. IsFiniteSet(Q)
      <4>1. Q \in SUBSET Slots
        BY <1>1 DEF OrdersType, OnLevel
      <4> HIDE DEF Q
      <4> QED  BY <4>1, SlotsFinite
    <3> HIDE DEF Q
    <3>4. Cardinality(Q \ {x}) = Cardinality(Q) - 1 /\ Cardinality(Q) \in Nat
          /\ Cardinality(Q \ {x}) \in Nat
      BY <3>1, <3>3, FS_RemoveElement, FS_CardinalityType
    <3> QED  BY <1>6, <3>2, <3>4
  <2> QED  BY <1>4, <2>1, <2>2
<1> QED  BY <1>5, <1>6

(* Any other level is still found.                                         *)
LEMMA UnlinkKeepsLevel ==
  ASSUME NEW b, NEW act, NEW lv, Good(b, act, lv), NEW x \in act,
         NEW sd \in Side, NEW pr \in Price, find_level_index(b, sd, pr) # npos,
         ~(b.orders_[x].side = sd /\ b.orders_[x].price = pr),
         NEW u, NEW rest, TakenOff(b, u, act, act, x, rest)
  PROVE  find_level_index(u, sd, pr) # npos
<1> DEFINE k == find_level_index(b, sd, pr)
           f == find_level_index(u, sd, pr)
           o == b.orders_
           p == u.orders_
<1>1. k \in lv /\ b.levels_[k].side = sd /\ b.levels_[k].price = pr
  <2>1. LevelFound(b.levels_, lv, sd, pr, k)
    BY FindLevel DEF Good, BookLevels, find_level_index
  <2> QED  BY <2>1 DEF LevelFound
<1>2. LevelFound(u.levels_, rest, sd, pr, f)
  BY FindLevel DEF TakenOff, BookLevels, find_level_index
<1> HIDE DEF k, f
<1>3. PICK i \in act : o[i].level = k
  BY <1>1 DEF Good, Used
<1>4. o[i].side = sd /\ o[i].price = pr
  BY <1>1, <1>3 DEF Good, Lists, Placed
<1>5. i \in act \ {x}
  BY <1>4
<1>6. p[i].level = k /\ p[i].side = sd /\ p[i].price = pr
  BY <1>3, <1>4 DEF TakenOff, SameButLinks
<1>7. k \in rest /\ u.levels_[k].side = sd /\ u.levels_[k].price = pr
  BY <1>5, <1>6 DEF TakenOff, Lists, Placed
<1>8. f # npos
  BY <1>2, <1>7 DEF LevelFound
<1> QED  BY <1>8 DEF f

(* As long as the level table has an empty slot, modify's second           *)
(* CapacityExhausted is what its comment says: unreachable.                *)
LEMMA ModifyHasRoom ==
  ASSUME NEW b, NEW act, NEW lv, Good(b, act, lv), HasEmpty(b.level_lookup_),
         NEW id \in OrderId, NEW sd \in Side, NEW pr \in Price, NEW q,
         modify(b, id, sd, pr, q).result = "CapacityExhausted"
  PROVE  modify(b, id, sd, pr, q).book = b
<1> DEFINE x == find_order_index(b, id)
           z == b.orders_[x]
           u == unlink(b, x)
           a == acquire_level(u, sd, pr)
           key == <<sd, pr>>
           refused == /\ find_level_index(b, sd, pr) = npos /\ b.free_level_ = npos
                      /\ b.levels_[z.level].order_count > 1
<1>1. \/ modify(b, id, sd, pr, q).book = b
      \/ x # npos /\ ~(z.side = sd /\ z.price = pr) /\ ~refused /\ a.level = npos
  BY DEF modify, Return
<1>2. SUFFICES ASSUME x # npos, ~(z.side = sd /\ z.price = pr), ~refused PROVE a.level # npos
  BY <1>1
<1>3. x \in act
  BY <1>2, Found DEF OrderFound
<1>4. PICK rest : TakenOff(b, u, act, act, x, rest)
  <2>1. OrdersType(b.orders_, act)
    BY DEF Good, BookOrders, OrdersHeld
  <2> QED  BY <1>3, <2>1, UnlinkOK DEF Good
<1> HIDE DEF x
<1>5. IsBook(u)
  BY <1>4 DEF TakenOff
<1>6. a = LET found == find_level_index(u, sd, pr) IN
          IF found # npos THEN [level |-> found, book |-> u]
          ELSE IF u.free_level_ = npos \/ ~CanInsert(u.level_lookup_, LevelHash[<<sd, pr>>], FALSE)
            THEN [level |-> npos, book |-> u]
          ELSE [level |-> u.free_level_, book |-> AcquiredBook(u, sd, pr)]
  BY <1>5, AcquireIs
<1>7. CASE find_level_index(b, sd, pr) # npos
  <2>1. find_level_index(u, sd, pr) # npos
    <3> HIDE DEF u
    <3> QED  BY <1>2, <1>3, <1>4, <1>7, UnlinkKeepsLevel
  <2> HIDE DEF a
  <2> QED  BY <1>6, <2>1
<1>8. CASE find_level_index(b, sd, pr) = npos
  <2>1. HasEmpty(u.level_lookup_) /\ u.free_level_ # npos
    <3>1. b.free_level_ # npos \/ ~(b.levels_[b.orders_[x].level].order_count > 1)
      BY <1>2, <1>8
    <3> QED  BY <1>3, <3>1, UnlinkLeavesRoom
  <2>2. CanInsert(u.level_lookup_, LevelHash[key], FALSE)
    <3>1. PICK c : TableOf(TS, LevelHash, u.level_lookup_, c)
      BY <1>4 DEF TakenOff, BookLevels, LevelsHeld
    <3>2. PICK s \in 0 .. TS - 1 : u.level_lookup_[s] = Empty
      BY <2>1, TableSlotsIs DEF HasEmpty
    <3>3. key \in DOMAIN LevelHash
      BY OrderBookAssumption
    <3> DEFINE t == u.level_lookup_
    <3> HIDE DEF key, t
    <3>4. TableOf(TS, LevelHash, t, c) /\ t[s] = Empty
      BY <3>1, <3>2 DEF t
    <3>5. CanInsert(t, LevelHash[key], FALSE)
      BY <3>2, <3>3, <3>4, EmptyTakesKey, Zenon
    <3> QED  BY <3>5, Zenon DEF t
  <2> HIDE DEF a, u
  <2>3. \/ a.level = find_level_index(u, sd, pr) /\ find_level_index(u, sd, pr) # npos
        \/ a.level = u.free_level_
    <3> DEFINE g == AcquiredBook(u, sd, pr)
               can == CanInsert(u.level_lookup_, LevelHash[key], FALSE)
               f == find_level_index(u, sd, pr)
    <3>1. a = IF f # npos THEN [level |-> f, book |-> u]
              ELSE IF u.free_level_ = npos \/ ~can THEN [level |-> npos, book |-> u]
              ELSE [level |-> u.free_level_, book |-> g]
      BY <1>6, Zenon
    <3>2. can
      BY <2>2
    <3> HIDE DEF g, can, f
    <3>3. \/ f # npos /\ a.level = f
          \/ a.level = u.free_level_
      BY <2>1, <3>1, <3>2
    <3> QED  BY <3>3 DEF f
  <2> QED  BY <2>1, <2>3
<1> QED  BY <1>7, <1>8

(* The structure of a book that applies events holds as long as the level  *)
(* table has a slot that was never used: until then the precheck of modify *)
(* (OrderBook.cpp:79) is enough, and its later CapacityExhausted is        *)
(* unreachable.                                                            *)
THEOREM ApplyStructureWithRoom == ApplySpec /\ []LevelTableHasRoom => []StructureOK
<1> DEFINE Inv == Sound(book)
<1>1. Init => Inv
  BY InitGood DEF Sound
<1>2. Inv /\ LevelTableHasRoom /\ [ApplyNext]_vars => Inv'
  <2> SUFFICES ASSUME Inv, LevelTableHasRoom, [ApplyNext]_vars PROVE Inv'
    OBVIOUS
  <2>1. CASE UNCHANGED vars
    BY <2>1 DEF vars
  <2>2. CASE ApplyNext
    <3>1. ASSUME NEW id \in OrderId, NEW sd \in Side, NEW pr \in Price, NEW q \in Quantity
          PROVE  ModifyAtomic(id, sd, pr, q)
      <4> SUFFICES ASSUME Modify(id, sd, pr, q), result' = "CapacityExhausted"
                   PROVE  book' = book
        BY DEF ModifyAtomic
      <4>1. PICK act, lv : Good(book, act, lv)
        BY DEF Sound
      <4>2. book' = modify(book, id, sd, pr, q).book /\ result' = modify(book, id, sd, pr, q).result
        BY DEF Modify, Call
      <4> QED  BY <4>1, <4>2, ModifyHasRoom DEF LevelTableHasRoom
    <3> QED  BY <2>2, <3>1, ApplyInductive
  <2> QED  BY <2>1, <2>2
<1>3. Inv => StructureOK
  BY StructureFromGood
<1> HIDE DEF Inv
<1> QED  BY <1>1, <1>2, <1>3, PTL DEF ApplySpec
=============================================================================
