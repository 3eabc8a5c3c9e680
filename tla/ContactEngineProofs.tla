------------------------- MODULE ContactEngineProofs -------------------------
(***************************************************************************)
(* Proofs about ContactEngine: what a handler does with an object it found *)
(* before a load, and with a row it took before an other insert, does not  *)
(* lose a rule that was set or that is in the table.                       *)
(***************************************************************************)
EXTENDS ContactEngine, SequenceTheorems, WellFoundedInduction, TLAPS

-----------------------------------------------------------------------------
(* findContact, and the table *)

\* A set of naturals has a least element.
LEMMA LeastNat ==
  ASSUME NEW T, T \subseteq Nat, T # {}
  PROVE  \E m \in T : \A n \in T : m <= n
<1>1. PICK m \in T : \A n \in T : ~ (<<n, m>> \in OpToRel(<, Nat))
  BY NatLessThanWellFounded, WFMin
<1>2. \A n \in T : ~(n < m)
  BY <1>1 DEF OpToRel
<1>. QED BY <1>2

\* The k-th contact of the list is the first that x may mean.
IsFirst(k, x) ==
  /\ k \in DOMAIN contacts /\ MatchedBy(heap[<<contacts[k], load>>], x)
  /\ \A j \in DOMAIN contacts : j < k => ~MatchedBy(heap[<<contacts[j], load>>], x)

\* findContact returns that one.
LEMMA FoundIsFirst ==
  ASSUME contacts \in Seq(Ids), NEW x
  PROVE  /\ Found(x) # NoObject =>
              \E k \in DOMAIN contacts : /\ IsFirst(k, x)
                                         /\ Found(x) = <<contacts[k], load>>
         /\ \A k \in DOMAIN contacts :
              IsFirst(k, x) => Found(x) = <<contacts[k], load>>
<1>. DEFINE hits == {k \in DOMAIN contacts : MatchedBy(heap[<<contacts[k], load>>], x)}
<1>1. DOMAIN contacts \subseteq Nat
  OBVIOUS
<1>2. Found(x) = IF hits = {} THEN NoObject ELSE <<contacts[Min(hits)], load>>
  BY DEF Found
<1>3. ASSUME hits # {}
      PROVE  Min(hits) \in hits /\ \A j \in hits : Min(hits) <= j
  <2>1. hits \subseteq Nat
    BY <1>1
  <2>. HIDE DEF hits
  <2>2. \E m \in hits : \A n \in hits : m <= n
    BY <1>3, <2>1, LeastNat
  <2>. QED BY <2>2 DEF Min
<1>4. ASSUME hits # {} PROVE IsFirst(Min(hits), x)
  <2>. DEFINE m == Min(hits)
  <2>1. m \in hits /\ \A j \in hits : m <= j
    BY <1>3, <1>4
  <2>. HIDE DEF m
  <2>2. \A j \in DOMAIN contacts : j < m => j \notin hits
    <3>1. hits \subseteq Nat
      BY <1>1
    <3>. HIDE DEF hits
    <3>. QED BY <1>1, <2>1, <3>1
  <2>3. IsFirst(m, x)
    BY <2>1, <2>2 DEF IsFirst
  <2>. QED BY <2>3 DEF m
<1>5. ASSUME NEW k \in DOMAIN contacts, IsFirst(k, x)
      PROVE  k \in hits /\ k = Min(hits)
  <2>1. k \in hits
    BY <1>5 DEF IsFirst
  <2>2. Min(hits) \in hits /\ Min(hits) <= k
    BY <1>3, <2>1
  <2>3. ~(Min(hits) < k)
    BY <1>5, <2>2 DEF IsFirst
  <2>. HIDE DEF hits
  <2>4. Min(hits) \in Nat /\ k \in Nat
    BY <1>1, <2>2 DEF hits
  <2>. QED BY <2>1, <2>2, <2>3, <2>4
<1>6. Min(hits) \in hits => Min(hits) \in DOMAIN contacts
  OBVIOUS
<1>. HIDE DEF hits
<1>. QED BY <1>2, <1>3, <1>4, <1>5, <1>6

\* At most one row has an id.
Keyed(rows) == \A j, k \in DOMAIN rows : rows[j].id = rows[k].id => j = k

\* The others keep their order.
LEMMA RemoveAtIs ==
  ASSUME NEW rows \in Seq(Rows), NEW k \in DOMAIN rows
  PROVE  /\ RemoveAt(rows, k) \in Seq(Rows)
         /\ Len(RemoveAt(rows, k)) = Len(rows) - 1 /\ Len(rows) - 1 \in Nat
         /\ \A m \in 1..(Len(rows) - 1) :
              RemoveAt(rows, k)[m] = IF m < k THEN rows[m] ELSE rows[m + 1]
<1>. DEFINE a == SubSeq(rows, 1, k - 1)
            b == SubSeq(rows, k + 1, Len(rows))
<1>0. Len(rows) \in Nat /\ k \in 1..Len(rows)
  OBVIOUS
<1>1. /\ a \in Seq(Rows) /\ Len(a) = k - 1 /\ \A m \in 1..(k - 1) : a[m] = rows[m]
  BY <1>0
<1>2. /\ b \in Seq(Rows) /\ Len(b) = Len(rows) - k
      /\ \A m \in 1..(Len(rows) - k) : b[m] = rows[m + k]
  BY <1>0
<1>3. RemoveAt(rows, k) = a \o b
  BY DEF RemoveAt
<1>. HIDE DEF a, b
<1>4. /\ a \o b \in Seq(Rows) /\ Len(a \o b) = Len(a) + Len(b)
      /\ \A i \in 1..(Len(a) + Len(b)) :
           (a \o b)[i] = IF i <= Len(a) THEN a[i] ELSE b[i - Len(a)]
  BY ONLY <1>1, <1>2, ConcatProperties
<1>5. Len(a) + Len(b) = Len(rows) - 1 /\ Len(rows) - 1 \in Nat
  BY <1>0, <1>1, <1>2
<1>6. ASSUME NEW m \in 1..(Len(rows) - 1)
      PROVE  (a \o b)[m] = IF m < k THEN rows[m] ELSE rows[m + 1]
  <2>1. CASE m < k
    BY <1>0, <1>1, <1>4, <1>5, <2>1
  <2>2. CASE ~(m < k)
    <3>1. /\ ~(m <= Len(a)) /\ m - Len(a) \in 1..(Len(rows) - k)
          /\ (m - Len(a)) + k = m + 1
      BY <1>0, <1>1, <2>2
    <3>. QED BY <1>2, <1>4, <1>5, <2>2, <3>1
  <2>. QED BY <2>1, <2>2
<1>. QED BY <1>3, <1>4, <1>5, <1>6

\* An insert replaces the row of its id, and no other.
LEMMA UpsertIs ==
  ASSUME NEW rows \in Seq(Rows), Keyed(rows), NEW i \in Ids, NEW c \in Contact
  PROVE  /\ Upsert(rows, i, c) \in Seq(Rows) /\ Keyed(Upsert(rows, i, c))
         /\ Range(Upsert(rows, i, c)) =
              {r \in Range(rows) : r.id # i} \cup {[id |-> i, contact |-> c]}
<1>. DEFINE at    == {k \in DOMAIN rows : rows[k].id = i}
            other == IF at = {} THEN rows ELSE RemoveAt(rows, CHOOSE k \in at : TRUE)
            new   == [id |-> i, contact |-> c]
<1>0. Len(rows) \in Nat /\ DOMAIN rows = 1..Len(rows)
  OBVIOUS
<1>1. new \in Rows /\ new.id = i
  BY DEF Rows
<1>2. Upsert(rows, i, c) = Append(other, new)
  BY DEF Upsert
<1>3. /\ other \in Seq(Rows) /\ Keyed(other)
      /\ Range(other) = {r \in Range(rows) : r.id # i}
  <2>1. CASE at = {}
    <3>1. other = rows
      BY <2>1
    <3>2. \A r \in Range(rows) : r.id # i
      BY <2>1 DEF Range
    <3>. QED BY <3>1, <3>2
  <2>2. CASE at # {}
    <3>. DEFINE k == CHOOSE k \in at : TRUE
                u == RemoveAt(rows, k)
    <3>1. k \in at /\ other = u
      BY <2>2
    <3>2. k \in DOMAIN rows /\ rows[k].id = i
      BY <3>1
    <3>. HIDE DEF k
    <3>3. /\ u \in Seq(Rows) /\ Len(u) = Len(rows) - 1 /\ Len(rows) - 1 \in Nat
          /\ \A m \in 1..(Len(rows) - 1) : u[m] = IF m < k THEN rows[m] ELSE rows[m + 1]
      BY <3>2, RemoveAtIs
    <3>. HIDE DEF u
    <3>4. DOMAIN u = 1..(Len(rows) - 1)
      BY <3>3
    <3>5. Keyed(u)
      <4>. SUFFICES ASSUME NEW j \in 1..(Len(rows) - 1), NEW m \in 1..(Len(rows) - 1),
                           u[j].id = u[m].id
                    PROVE  j = m
        BY <3>4 DEF Keyed
      <4>. DEFINE p(x) == IF x < k THEN x ELSE x + 1
      <4>1. p(j) \in DOMAIN rows /\ p(m) \in DOMAIN rows
        BY <1>0, <3>2
      <4>2. u[j] = rows[p(j)] /\ u[m] = rows[p(m)]
        BY <3>3
      <4>3. p(j) = p(m)
        <5>. HIDE DEF p
        <5>. QED BY <4>1, <4>2 DEF Keyed
      <4>. QED BY <1>0, <3>2, <4>3
    <3>6. ASSUME NEW r \in Range(u) PROVE r \in Range(rows) /\ r.id # i
      <4>1. PICK m \in 1..(Len(rows) - 1) : r = u[m]
        BY <3>4 DEF Range
      <4>2. PICK n \in DOMAIN rows : r = rows[n] /\ n # k
        <5>1. CASE m < k
          <6>1. m \in DOMAIN rows /\ m # k
            BY <1>0, <3>2, <5>1
          <6>2. r = rows[m]
            BY <3>3, <4>1, <5>1
          <6>. QED BY <6>1, <6>2
        <5>2. CASE ~(m < k)
          <6>1. m + 1 \in DOMAIN rows /\ m + 1 # k
            BY <1>0, <3>2, <5>2
          <6>2. r = rows[m + 1]
            BY <3>3, <4>1, <5>2
          <6>. QED BY <6>1, <6>2
        <5>. QED BY <5>1, <5>2
      <4>. QED BY <3>2, <4>2 DEF Range, Keyed
    <3>7. ASSUME NEW r \in Range(rows), r.id # i PROVE r \in Range(u)
      <4>1. PICK n \in DOMAIN rows : r = rows[n]
        BY DEF Range
      <4>2. n # k
        BY <3>2, <3>7, <4>1
      <4>3. CASE n < k
        <5>1. n \in 1..(Len(rows) - 1) /\ u[n] = r
          BY <1>0, <3>2, <3>3, <4>1, <4>3
        <5>. QED BY <3>4, <5>1 DEF Range
      <4>4. CASE n > k
        <5>1. /\ n - 1 \in 1..(Len(rows) - 1) /\ ~(n - 1 < k) /\ (n - 1) + 1 = n
          BY <1>0, <3>2, <4>4
        <5>2. u[n - 1] = r
          BY <3>3, <4>1, <5>1
        <5>. QED BY <3>4, <5>1, <5>2 DEF Range
      <4>. QED BY <1>0, <3>2, <4>2, <4>3, <4>4
    <3>. QED BY <3>1, <3>3, <3>5, <3>6, <3>7
  <2>. QED BY <2>1, <2>2
<1>. HIDE DEF other, new
<1>4. /\ Append(other, new) \in Seq(Rows)
      /\ Len(Append(other, new)) = Len(other) + 1 /\ Len(other) \in Nat
      /\ \A m \in 1..Len(other) : Append(other, new)[m] = other[m]
      /\ Append(other, new)[Len(other) + 1] = new
      /\ DOMAIN other = 1..Len(other)
      /\ DOMAIN Append(other, new) = 1..(Len(other) + 1)
  BY <1>1, <1>3
<1>5. \A m \in 1..Len(other) : other[m].id # i
  BY <1>3, <1>4 DEF Range
<1>6. Keyed(Append(other, new))
  BY <1>1, <1>3, <1>4, <1>5 DEF Keyed
<1>7. Range(Append(other, new)) = Range(other) \cup {new}
  BY <1>4 DEF Range
<1>. QED BY <1>2, <1>3, <1>4, <1>6, <1>7 DEF new

-----------------------------------------------------------------------------
(* Type correctness *)

\* The steps of a thread that has found its contact, and those of init.
Working == {"set", "snapshot", "insert"}
Loading == {"migrate", "rename", "get_all", "replace"}

\* A thread at work on a contact has an object of this load or an earlier one.
Work(t) ==
  /\ pc[t] \in {"add", "add_named"} => arg[t] \in People
  /\ pc[t] \in {"find", "set"} => arg[t] \in Rules
  /\ pc[t] \in Working => /\ object[t] \in Ids \X (0..load)
                          /\ heap[object[t]] \in Contact
                          /\ object[t][1] < nextId
  /\ pc[t] \notin Working => object[t] = NoObject
  /\ pc[t] = "insert" => row[t] \in Contact

\* Only the service loads, and it began with a load to go.
WorkInv ==
  /\ \A t \in Threads : Work(t)
  /\ \A t \in Handlers : pc[t] \notin Loading
  /\ pc[Service] \in Loading => load < MaxLoads

\* The table has one row for an id.  The numbers are given out once, and an id is
\* the number of the first contact that has it.
KeyInv ==
  /\ Keyed(room) /\ Keyed(fetched)
  /\ nextId > LegacyId
  /\ \A r \in Range(room) : r.id < nextId
  /\ \A i \in Range(contacts) : i < nextId
  /\ \A r \in Range(fetched) : \E q \in Range(room) : q.id = r.id
  /\ \A i \in Ids : key[i] <= i /\ key[key[i]] = key[i] /\ (i >= nextId => key[i] = i)
  /\ \A m \in Makers : latest[m] < nextId

\* What the steps keep together.
TypeInv == TypeOK /\ WorkInv /\ KeyInv

\* An object stays one.
HeapKept == \A o \in Ids \X (0..load) : heap[o] \in Contact => heap'[o] \in Contact

\* A step of somebody else leaves a thread at its work.
LEMMA WorkKept ==
  ASSUME TypeInv, TypeOK', NEW u \in Threads,
         pc'[u] = pc[u], arg'[u] = arg[u], object'[u] = object[u], row'[u] = row[u],
         load' >= load, nextId' >= nextId, HeapKept
  PROVE  Work(u)'
<1>1. Work(u) /\ load \in Nat /\ load' \in Nat /\ nextId \in Nat /\ nextId' \in Nat
  BY DEF TypeInv, WorkInv, TypeOK, Loads
<1>2. Ids \X (0..load) \subseteq Ids \X (0..load')
  BY <1>1
<1>3. object[u] \in Ids \X (0..load) => object[u][1] \in Nat
  BY DEF Ids
<1>. QED BY <1>1, <1>2, <1>3 DEF Work, HeapKept

\* What the assumption on the constants says of the sets built from them.
LEMMA Constants ==
  /\ Threads = Handlers \cup {Service} /\ Service \notin Handlers
  /\ MaxIds \in Nat \ {0} /\ MaxLoads \in Nat \ {0} /\ MaxRequests \in Nat
  /\ AddressBook \in Seq(People) /\ Legacy \in People
  /\ LegacyId \in Ids /\ Ids \subseteq Nat /\ Loads \subseteq Nat
  /\ "nobody" \notin People /\ NoContact \notin Contact
  /\ NoObject \notin Ids \X Loads
BY ContactAssumption
   DEF Threads, LegacyId, Ids, Loads, NoContact, Contact, NoObject, Rules,
   NoRule

\* What findContact returns is an object of the list.
LEMMA FoundType ==
  ASSUME TypeInv, NEW x, Found(x) # NoObject
  PROVE  /\ Found(x) \in Ids \X (0..load)
         /\ Found(x) \in Ids \X Loads
         /\ heap[Found(x)] \in Contact
         /\ Found(x)[1] \in Range(contacts) /\ Found(x)[1] < nextId
         /\ Found(x) = <<Found(x)[1], load>>
<1>1. PICK k \in DOMAIN contacts : Found(x) = <<contacts[k], load>>
  BY FoundIsFirst DEF TypeInv, TypeOK
<1>2. contacts[k] \in Ids /\ contacts[k] \in Range(contacts) /\ load \in Loads /\ load \in 0..load
  BY DEF TypeInv, TypeOK, Range, Loads
<1>. QED BY <1>1, <1>2 DEF TypeInv, TypeOK, KeyInv

\* The rows of the table, and those a load has in hand.
LEMMA RowsTyped ==
  ASSUME TypeOK, NEW r \in Range(room) \cup Range(fetched)
  PROVE  r \in Rows /\ r.id \in Ids /\ r.contact \in Contact
<1>1. r \in Rows
  <2>1. CASE r \in Range(room)
    <3>1. PICK k \in DOMAIN room : r = room[k]
      BY <2>1 DEF Range
    <3>2. room \in Seq(Rows)
      BY DEF TypeOK
    <3>. QED BY <3>1, <3>2
  <2>2. CASE r \in Range(fetched)
    <3>1. PICK k \in DOMAIN fetched : r = fetched[k]
      BY <2>2 DEF Range
    <3>2. fetched \in Seq(Rows)
      BY DEF TypeOK
    <3>. QED BY <3>1, <3>2
  <2>. QED BY <2>1, <2>2
<1>. QED BY <1>1 DEF Rows

\* A fresh process has an empty list and, at most, the legacy file.
LEMMA TypeInit == Init => TypeInv
<1>. SUFFICES ASSUME Init PROVE TypeInv
  OBVIOUS
<1>1. TypeOK
  <2>1. /\ load \in Loads /\ nextId \in 1..(MaxIds + 1) /\ requests \in 0..MaxRequests
    BY Constants DEF Init, Loads, LegacyId, Ids
  <2>2. pc \in [Threads -> Phases]
    BY DEF Init, AtRest, Phases
  <2>3. Range(contacts) = {}
    BY DEF Init, Range
  <2>4. /\ heap \in [Ids \X Loads -> Contact \cup {NoContact}]
        /\ arg \in [Threads -> People \cup Rules \cup {NoRule}]
        /\ target \in [Threads -> People \cup Names \cup {NoRule}]
        /\ key \in [Ids -> Ids] /\ latest \in [Makers -> 0..MaxIds]
        /\ object \in [Threads -> (Ids \X Loads) \cup {NoObject}]
        /\ row \in [Threads -> Contact \cup {NoContact}]
    BY Constants DEF Init
  <2>6. book \in [Threads -> Seq(People)]
    <3>1. <<>> \in Seq(People)
      OBVIOUS
    <3>. QED BY <3>1 DEF Init
  <2>5. /\ set \in [People -> Rules \cup {NoRule}]
        /\ durable \in [Ids -> Rules \cup {NoRule}]
        /\ stale \subseteq Ids /\ leftover \in BOOLEAN
        /\ dao \in BOOLEAN /\ json \in BOOLEAN
    BY DEF Init
  <2>7. contacts \in Seq(Ids) /\ room \in Seq(Rows) /\ fetched \in Seq(Rows)
    BY DEF Init
  <2>. QED BY <2>1, <2>2, <2>3, <2>4, <2>5, <2>6, <2>7 DEF TypeOK
<1>2. WorkInv
  BY Constants DEF Init, WorkInv, Work, AtRest, Working, Loading
<1>3. KeyInv
  BY Constants DEF Init, KeyInv, Keyed, Range, LegacyId
<1>. QED BY <1>1, <1>2, <1>3 DEF TypeInv

\* The steps of init: the migration and the load.
LEMMA InitTypeStep == TypeInv /\ InitStep => TypeInv'
<1>. SUFFICES ASSUME TypeInv, InitStep PROVE TypeInv'
  OBVIOUS
<1>. USE DEF TypeInv
<1>0. Service \in Threads
  BY Constants
<1>1. CASE StartInit
  <2>1. TypeOK'
    BY <1>0, <1>1 DEF StartInit, TypeOK, Phases, list, ids, local, history
  <2>2. WorkInv'
    <3>1. HeapKept
      BY <1>1 DEF StartInit, list, ids, HeapKept
    <3>2. ASSUME NEW u \in Threads, u # Service PROVE Work(u)'
      <4>1. load \in Nat /\ nextId \in Nat
        BY Constants DEF TypeOK
      <4>2. /\ pc'[u] = pc[u] /\ arg'[u] = arg[u] /\ object'[u] = object[u]
            /\ row'[u] = row[u] /\ load' = load /\ nextId' = nextId
        BY <1>1, <3>2 DEF StartInit, list, ids, local, TypeOK
      <4>. QED BY <2>1, <3>1, <4>1, <4>2, WorkKept
    <3>3. Work(Service)'
      BY <1>0, <1>1
         DEF StartInit, list, ids, local, TypeOK, WorkInv, Work, Working
    <3>. QED BY <1>0, <1>1, <3>2, <3>3, Constants DEF StartInit, list, ids,
    local,
    TypeOK, WorkInv
  <2>3. KeyInv'
    BY <1>1 DEF StartInit, list, ids, KeyInv
  <2>. QED BY <2>1, <2>2, <2>3
<1>2. CASE Migrate
  <2>. DEFINE c == [who |-> Legacy, rule |-> "AUTO", named |-> TRUE]
  <2>0. room' = room \/ room' = Upsert(room, LegacyId, c)
    BY <1>2 DEF Migrate, InsertLegacy
  <2>1. /\ room' \in Seq(Rows) /\ Keyed(room')
        /\ \A r \in Range(room') : r.id < nextId
        /\ \A r \in Range(room) : \E q \in Range(room') : q.id = r.id
    <3>1. c \in Contact
      BY Constants DEF Contact, Rules
    <3>. HIDE DEF c
    <3>2. CASE room' = room
      BY <3>2 DEF TypeOK, KeyInv
    <3>3. CASE room' = Upsert(room, LegacyId, c)
      <4>0. room \in Seq(Rows) /\ Keyed(room) /\ LegacyId \in Ids
        BY Constants DEF TypeOK, KeyInv
      <4>. DEFINE n == [id |-> LegacyId, contact |-> c]
      <4>1. /\ room' \in Seq(Rows) /\ Keyed(room')
            /\ Range(room') = {r \in Range(room) : r.id # LegacyId} \cup {n}
        BY <3>1, <3>3, <4>0, UpsertIs
      <4>2. n.id = LegacyId
        OBVIOUS
      <4>3. LegacyId < nextId /\ \A r \in Range(room) : r.id < nextId
        BY DEF KeyInv
      <4>. HIDE DEF n
      <4>. QED BY <4>1, <4>2, <4>3
    <3>. QED BY <2>0, <3>2, <3>3
  <2>. HIDE DEF c
  <2>2. TypeOK'
    <3>1. stale' \subseteq Ids
      BY <1>2, Constants DEF Migrate, InsertLegacy, TypeOK
    <3>2. pc' \in [Threads -> Phases]
      BY <1>0, <1>2 DEF Migrate, Move, TypeOK, Phases
    <3>. QED BY <1>2, <2>1, <3>1, <3>2 DEF Migrate, TypeOK, list, ids, local
  <2>3. WorkInv'
    <3>1. HeapKept
      BY <1>2 DEF Migrate, list, ids, HeapKept
    <3>2. ASSUME NEW u \in Threads, u # Service PROVE Work(u)'
      <4>1. load \in Nat /\ nextId \in Nat
        BY Constants DEF TypeOK
      <4>2. /\ pc'[u] = pc[u] /\ arg'[u] = arg[u] /\ object'[u] = object[u]
            /\ row'[u] = row[u] /\ load' = load /\ nextId' = nextId
        BY <1>2, <3>2 DEF Migrate, Move, list, ids, local, TypeOK
      <4>. QED BY <2>2, <3>1, <4>1, <4>2, WorkKept
    <3>3. Work(Service)'
      BY <1>0, <1>2
         DEF Migrate, Move, list, ids, local, TypeOK, WorkInv, Work, Working
    <3>. QED BY <1>0, <1>2, <3>2, <3>3, Constants
             DEF Migrate, Move, list, ids, local, TypeOK, WorkInv, Loading
  <2>4. KeyInv'
    <3>1. /\ contacts' = contacts /\ fetched' = fetched /\ nextId' = nextId
          /\ key' = key /\ latest' = latest
      BY <1>2 DEF Migrate, list, ids
    <3>2. \A r \in Range(fetched) : \E q \in Range(room') : q.id = r.id
      BY <2>1 DEF KeyInv
    <3>. QED BY <2>1, <3>1, <3>2 DEF KeyInv
  <2>. QED BY <2>2, <2>3, <2>4
<1>3. CASE Rename
  <2>1. TypeOK'
    BY <1>0, <1>3 DEF Rename, Move, TypeOK, Phases, list, ids, local, history
  <2>2. WorkInv'
    <3>1. HeapKept
      BY <1>3 DEF Rename, list, ids, HeapKept
    <3>2. ASSUME NEW u \in Threads, u # Service PROVE Work(u)'
      <4>1. load \in Nat /\ nextId \in Nat
        BY Constants DEF TypeOK
      <4>2. /\ pc'[u] = pc[u] /\ arg'[u] = arg[u] /\ object'[u] = object[u]
            /\ row'[u] = row[u] /\ load' = load /\ nextId' = nextId
        BY <1>3, <3>2 DEF Rename, Move, list, ids, local, TypeOK
      <4>. QED BY <2>1, <3>1, <4>1, <4>2, WorkKept
    <3>3. Work(Service)'
      BY <1>0, <1>3
         DEF Rename, Move, list, ids, local, TypeOK, WorkInv, Work, Working
    <3>. QED BY <1>0, <1>3, <3>2, <3>3, Constants
             DEF Rename, Move, list, ids, local, TypeOK, WorkInv, Loading
  <2>3. KeyInv'
    BY <1>3 DEF Rename, list, ids, KeyInv
  <2>. QED BY <2>1, <2>2, <2>3
<1>4. CASE GetAll
  <2>1. TypeOK'
    BY <1>0, <1>4, Constants
       DEF GetAll, Move, TypeOK, Phases, list, ids, table, history
  <2>2. WorkInv'
    <3>1. HeapKept
      BY <1>4 DEF GetAll, list, ids, HeapKept
    <3>2. ASSUME NEW u \in Threads, u # Service PROVE Work(u)'
      <4>1. load \in Nat /\ nextId \in Nat
        BY Constants DEF TypeOK
      <4>2. /\ pc'[u] = pc[u] /\ arg'[u] = arg[u] /\ object'[u] = object[u]
            /\ row'[u] = row[u] /\ load' = load /\ nextId' = nextId
        BY <1>4, <3>2 DEF GetAll, Move, list, ids, TypeOK
      <4>. QED BY <2>1, <3>1, <4>1, <4>2, WorkKept
    <3>3. Work(Service)'
      BY <1>0, <1>4 DEF GetAll, Move, list, ids, TypeOK, WorkInv, Work, Working
    <3>. QED BY <1>0, <1>4, <3>2, <3>3, Constants
             DEF GetAll, Move, list, ids, TypeOK, WorkInv, Loading
  <2>3. KeyInv'
    BY <1>4 DEF GetAll, list, ids, table, KeyInv
  <2>. QED BY <2>1, <2>2, <2>3
<1>5. CASE Replace
  <2>0. /\ load \in Nat /\ load' = load + 1 /\ load' \in Loads /\ nextId \in Nat
        /\ pc[Service] = "replace" /\ fetched' = <<>>
    BY <1>0, <1>5, Constants DEF Replace, Move, TypeOK, WorkInv, Loading, Loads
  <2>1. contacts' \in Seq(Ids) /\ \A i \in Range(contacts') : \E r \in Range(fetched) : r.id = i
    <3>1. /\ DOMAIN fetched = 1..Len(fetched) /\ Len(fetched) \in Nat
          /\ \A k \in DOMAIN fetched : fetched[k] \in Rows
      BY DEF TypeOK
    <3>2. contacts' = [k \in 1..Len(fetched) |-> fetched[k].id]
      BY <1>5, <3>1 DEF Replace
    <3>3. contacts' \in [1..Len(fetched) -> Ids]
      BY <3>1, <3>2 DEF Rows
    <3>4. contacts' \in Seq(Ids)
      BY <3>1, <3>3, SeqDef
    <3>. QED BY <3>1, <3>2, <3>4 DEF Range
  <2>2. ASSUME NEW o \in Ids \X Loads
        PROVE  /\ o[2] # load + 1 => heap'[o] = heap[o]
               /\ o[2] = load + 1 =>
                    IF \E k \in DOMAIN fetched : fetched[k].id = o[1]
                    THEN \E r \in Range(fetched) : r.id = o[1] /\ heap'[o] = r.contact
                    ELSE heap'[o] = NoContact
               /\ heap'[o] \in Contact \cup {NoContact}
    <3>1. heap'[o] = IF o[2] # load + 1 THEN heap[o]
                ELSE IF \E k \in DOMAIN fetched : fetched[k].id = o[1]
                     THEN fetched[CHOOSE k \in DOMAIN fetched : fetched[k].id = o[1]].contact
                     ELSE NoContact
      BY <1>5 DEF Replace
    <3>2. \A k \in DOMAIN fetched : fetched[k].contact \in Contact /\ fetched[k] \in Range(fetched)
      <4>1. \A k \in DOMAIN fetched : fetched[k] \in Rows
        BY DEF TypeOK
      <4>. QED BY <4>1 DEF Rows, Range
    <3>3. heap[o] \in Contact \cup {NoContact}
      BY DEF TypeOK
    <3>4. ASSUME \E k \in DOMAIN fetched : fetched[k].id = o[1]
          PROVE  \E k \in DOMAIN fetched : /\ fetched[k].id = o[1]
                     /\ fetched[CHOOSE m \in DOMAIN fetched : fetched[m].id = o[1]] = fetched[k]
      BY <3>4
    <3>. QED BY <3>1, <3>2, <3>3, <3>4
  <2>3. heap' \in [Ids \X Loads -> Contact \cup {NoContact}]
    <3>1. heap' = [o \in Ids \X Loads |-> heap'[o]]
      BY <1>5 DEF Replace
    <3>. QED BY <2>2, <3>1
  <2>4. \A i \in Range(contacts') : heap'[<<i, load'>>] \in Contact
    <3>1. ASSUME NEW i \in Range(contacts') PROVE heap'[<<i, load'>>] \in Contact
      <4>. DEFINE o == <<i, load'>>
      <4>0. i \in Ids
        BY <2>1 DEF Range
      <4>1. o \in Ids \X Loads /\ o[1] = i /\ o[2] = load + 1
        BY <2>0, <4>0
      <4>2. \E k \in DOMAIN fetched : fetched[k].id = i
        BY <2>1 DEF Range
      <4>3. \A r \in Range(fetched) : r.contact \in Contact
        BY RowsTyped
      <4>. HIDE DEF o
      <4>4. \E r \in Range(fetched) : heap'[o] = r.contact
        BY <2>2, <4>1, <4>2
      <4>. QED BY <4>3, <4>4 DEF o
    <3>. QED BY <3>1
  <2>5. /\ set' = [p \in People |-> NoRule]
        /\ stale' \subseteq Ids /\ leftover' \in BOOLEAN
        /\ pc' = [pc EXCEPT ![Service] = "sync"]
        /\ UNCHANGED <<room, dao, json, nextId, key, latest, requests, arg, target, object, row,
                       book, durable>>
    <3>1. \A r \in Range(room) : r.id \in Ids
      BY RowsTyped
    <3>2. leftover \in BOOLEAN /\ json \in BOOLEAN /\ stale \subseteq Ids
      BY DEF TypeOK
    <3>. QED BY <1>5, <3>1, <3>2 DEF Replace, Move, table, ids, local
  <2>6. TypeOK'
    <3>1. fetched' \in Seq(Rows) /\ set' \in [People -> Rules \cup {NoRule}]
      BY <2>0, <2>5
    <3>2. pc' \in [Threads -> Phases]
      BY <2>5 DEF TypeOK, Phases
    <3>. QED BY <2>0, <2>1, <2>3, <2>4, <2>5, <3>1, <3>2 DEF TypeOK
  <2>7. WorkInv'
    <3>1. HeapKept
      BY <2>0, <2>2, Constants DEF HeapKept, Loads
    <3>2. ASSUME NEW u \in Threads, u # Service PROVE Work(u)'
      <4>1. /\ pc'[u] = pc[u] /\ arg'[u] = arg[u] /\ object'[u] = object[u]
            /\ row'[u] = row[u] /\ nextId' = nextId
        BY <2>5, <3>2 DEF TypeOK
      <4>. QED BY <2>0, <2>6, <3>1, <4>1, WorkKept
    <3>3. Work(Service)'
      BY <1>0, <2>0, <2>5 DEF TypeOK, WorkInv, Work, Working
    <3>. QED BY <1>0, <2>5, <3>2, <3>3, Constants DEF TypeOK, WorkInv, Loading
  <2>8. KeyInv'
    <3>1. Range(fetched') = {} /\ Keyed(fetched')
      BY <2>0 DEF Range, Keyed
    <3>2. \A i \in Range(contacts') : i < nextId
      BY <2>1 DEF KeyInv
    <3>. QED BY <2>5, <3>1, <3>2 DEF KeyInv
  <2>. QED BY <2>6, <2>7, <2>8
<1>. QED BY <1>1, <1>2, <1>3, <1>4, <1>5 DEF InitStep

\* The step of one thread leaves the others at their work.
LEMMA ThreadWork ==
  ASSUME TypeInv, TypeOK', NEW t \in Threads,
         load' = load, nextId' >= nextId, HeapKept, Work(t)', pc'[t] \notin Loading,
         \A u \in Threads \ {t} : /\ pc'[u] = pc[u] /\ arg'[u] = arg[u]
                                  /\ object'[u] = object[u] /\ row'[u] = row[u]
  PROVE  WorkInv'
<1>1. load \in Nat /\ load' >= load
  BY Constants DEF TypeInv, TypeOK
<1>2. ASSUME NEW u \in Threads PROVE Work(u)'
  <2>1. CASE u = t
    BY <2>1
  <2>2. CASE u # t
    <3>1. u \in Threads \ {t}
      BY <2>2
    <3>. QED BY <1>1, <3>1, WorkKept
  <2>. QED BY <2>1, <2>2
<1>3. \A u \in Handlers \cup {Service} : pc'[u] \in Loading => pc'[u] = pc[u]
  BY Constants
<1>. QED BY <1>2, <1>3, Constants DEF TypeInv, WorkInv

\* A request writes only what the thread is to do.
LEMMA RequestTypeStep ==
  ASSUME TypeInv, NEW t \in Handlers, Request(t)
  PROVE  TypeInv'
<1>. USE DEF TypeInv
<1>0. t \in Threads /\ Work(t) /\ load \in Nat /\ nextId \in Nat
  BY Constants DEF WorkInv, TypeOK
<1>1. ASSUME NEW p \in People, Meet(t, p) PROVE TypeInv'
  <2>1. TypeOK'
    <3>1. requests' \in 0..MaxRequests
      BY <1>1, Constants DEF Meet, Ask, TypeOK
    <3>2. /\ pc' \in [Threads -> Phases] /\ arg' \in [Threads -> People \cup Rules \cup {NoRule}]
      BY <1>0, <1>1 DEF Meet, Move, TypeOK, Phases
    <3>. QED BY <1>1, <3>1, <3>2 DEF Meet, TypeOK, list, ids, table, history
  <2>2. HeapKept /\ load' = load /\ nextId' = nextId
    BY <1>1 DEF Meet, list, ids, HeapKept
  <2>3. Work(t)' /\ pc'[t] \notin Loading
    BY <1>0, <1>1 DEF Meet, Move, list, ids, TypeOK, Work, Working, Loading
  <2>4. WorkInv'
    <3>1. \A u \in Threads \ {t} : /\ pc'[u] = pc[u] /\ arg'[u] = arg[u]
                                   /\ object'[u] = object[u] /\ row'[u] = row[u]
      BY <1>1 DEF Meet, Move, TypeOK
    <3>. QED BY <1>0, <2>1, <2>2, <2>3, <3>1, ThreadWork
  <2>5. KeyInv'
    BY <1>1 DEF Meet, list, ids, table, KeyInv
  <2>. QED BY <2>1, <2>4, <2>5
<1>2. ASSUME NEW x \in People \cup Names, NEW rule \in {"NEVER", "ALWAYS"},
             FindForRule(t, x, rule)
      PROVE  TypeInv'
  <2>1. TypeOK'
    <3>1. requests' \in 0..MaxRequests
      BY <1>2, Constants DEF FindForRule, Ask, TypeOK
    <3>2. /\ pc' \in [Threads -> Phases] /\ arg' \in [Threads -> People \cup Rules \cup {NoRule}]
          /\ target' \in [Threads -> People \cup Names \cup {NoRule}]
      BY <1>0, <1>2 DEF FindForRule, Move, TypeOK, Phases, Rules
    <3>. QED BY <1>2, <3>1, <3>2 DEF FindForRule, TypeOK, list, ids, table,
    history
  <2>2. HeapKept /\ load' = load /\ nextId' = nextId
    BY <1>2 DEF FindForRule, list, ids, HeapKept
  <2>3. Work(t)' /\ pc'[t] \notin Loading
    <3>1. pc[t] = "idle" /\ pc'[t] = "find" /\ arg'[t] = rule /\ object' = object
      BY <1>0, <1>2 DEF FindForRule, Move, TypeOK
    <3>. QED BY <1>0, <3>1 DEF Work, Working, Loading, Rules
  <2>4. WorkInv'
    <3>1. \A u \in Threads \ {t} : /\ pc'[u] = pc[u] /\ arg'[u] = arg[u]
                                   /\ object'[u] = object[u] /\ row'[u] = row[u]
      BY <1>2 DEF FindForRule, Move, TypeOK
    <3>. QED BY <1>0, <2>1, <2>2, <2>3, <3>1, ThreadWork
  <2>5. KeyInv'
    BY <1>2 DEF FindForRule, list, ids, table, KeyInv
  <2>. QED BY <2>1, <2>4, <2>5
<1>3. CASE StartSync(t)
  <2>1. TypeOK'
    BY <1>0, <1>3, Constants
       DEF StartSync, Ask, Move, TypeOK, Phases, list, ids, table, history
  <2>2. HeapKept /\ load' = load /\ nextId' = nextId
    BY <1>3 DEF StartSync, list, ids, HeapKept
  <2>3. Work(t)' /\ pc'[t] \notin Loading
    BY <1>0, <1>3 DEF StartSync, Move, list, ids, TypeOK, Work, Working, Loading
  <2>4. WorkInv'
    <3>1. \A u \in Threads \ {t} : /\ pc'[u] = pc[u] /\ arg'[u] = arg[u]
                                   /\ object'[u] = object[u] /\ row'[u] = row[u]
      BY <1>3 DEF StartSync, Move, TypeOK
    <3>. QED BY <1>0, <2>1, <2>2, <2>3, <3>1, ThreadWork
  <2>5. KeyInv'
    BY <1>3 DEF StartSync, list, ids, table, KeyInv
  <2>. QED BY <2>1, <2>4, <2>5
<1>. QED BY <1>1, <1>2, <1>3 DEF Request

\* A new contact has an id of its own, or that of the last one made the same way.
LEMMA NewNumber ==
  ASSUME TypeInv, NEW t \in Threads, Add(t)
  PROVE  /\ nextId \in Ids
         /\ key' \in [Ids -> Ids] /\ latest' \in [Makers -> 0..MaxIds]
         /\ \A m \in Makers : latest'[m] < nextId'
         /\ \A i \in Ids : /\ key'[i] <= i /\ key'[key'[i]] = key'[i]
                           /\ i >= nextId' => key'[i] = i
         /\ \A i \in Ids \ {nextId} : key'[i] = key[i] /\ key[i] # nextId
<1>. USE DEF TypeInv
<1>1. /\ nextId \in Ids /\ nextId \in Nat /\ MaxIds \in Nat /\ nextId' = nextId + 1
      /\ \A i \in Ids : i \in Nat /\ key[i] \in Ids
      /\ key \in [Ids -> Ids] /\ latest \in [Makers -> 0..MaxIds]
  <2>1. nextId <= MaxIds /\ nextId \in 1..(MaxIds + 1) /\ nextId' = nextId + 1
    BY DEF Add, TypeOK
  <2>2. key \in [Ids -> Ids] /\ latest \in [Makers -> 0..MaxIds]
    BY DEF TypeOK
  <2>. QED BY <2>1, <2>2, Constants DEF Ids
<1>2. PICK m \in Makers : /\ latest' = [latest EXCEPT ![m] = nextId]
                          /\ \/ key' = key
                             \/ /\ latest[m] # 0
                                /\ key' = [key EXCEPT ![nextId] = key[latest[m]]]
  BY DEF Add
<1>3. /\ \A i \in Ids : key[i] <= i /\ key[key[i]] = key[i] /\ (i >= nextId => key[i] = i)
      /\ \A n \in Makers : latest[n] < nextId
  BY DEF KeyInv
<1>4. latest' \in [Makers -> 0..MaxIds] /\ \A n \in Makers : latest'[n] < nextId'
  BY <1>1, <1>2, <1>3 DEF Ids
<1>5. \A i \in Ids \ {nextId} : key[i] # nextId
  BY <1>1, <1>3
<1>6. CASE key' = key
  BY <1>1, <1>3, <1>4, <1>5, <1>6
<1>7. CASE latest[m] # 0 /\ key' = [key EXCEPT ![nextId] = key[latest[m]]]
  <2>. DEFINE l == latest[m]
              k == key[l]
  <2>1. l \in Ids /\ l < nextId /\ k \in Ids /\ k <= l /\ key[k] = k
    BY <1>1, <1>2, <1>3, <1>7 DEF Ids
  <2>2. k # nextId
    BY <1>1, <2>1
  <2>. HIDE DEF k, l
  <2>3. /\ key' = [key EXCEPT ![nextId] = k]
        /\ key' \in [Ids -> Ids] /\ key'[nextId] = k
        /\ \A i \in Ids \ {nextId} : key'[i] = key[i]
    BY <1>1, <1>7, <2>1 DEF k, l
  <2>4. k <= nextId /\ key'[k] = k
    BY <1>1, <2>1, <2>2, <2>3
  <2>5. ASSUME NEW i \in Ids
        PROVE  key'[i] <= i /\ key'[key'[i]] = key'[i] /\ (i >= nextId' => key'[i] = i)
    <3>1. CASE i = nextId
      BY <1>1, <2>3, <2>4, <3>1
    <3>2. CASE i # nextId
      BY <1>1, <1>3, <1>5, <2>3, <3>2
    <3>. QED BY <3>1, <3>2
  <2>. QED BY <1>1, <1>4, <1>5, <2>3, <2>5
<1>. QED BY <1>2, <1>6, <1>7

\* The steps of a request that is being served.
LEMMA StepTypeStep ==
  ASSUME TypeInv, NEW t \in Threads, Step(t)
  PROVE  TypeInv'
<1>. USE DEF TypeInv
<1>0. Work(t) /\ load \in Nat /\ nextId \in Nat /\ load \in Loads /\ load \in 0..load
  BY Constants DEF WorkInv, TypeOK
<1>g. \A q \in Ids \X (0..load) : q \in Ids \X Loads
  <2>1. 0..load \subseteq Loads
    BY <1>0, Constants DEF Loads
  <2>. QED BY <2>1
<1>f. Finish(t) \in {"idle", "sync"}
  BY DEF Finish
<1>1. CASE SyncNext(t)
  <2>. DEFINE p == Head(book[t])
              o == Found(p)
  <2>0. book[t] \in Seq(People) /\ book[t] # <<>>
    BY <1>1 DEF SyncNext, TypeOK
  <2>1. p \in People /\ Tail(book[t]) \in Seq(People)
    BY <2>0
  <2>2. /\ load' = load /\ nextId' = nextId /\ row' = row /\ contacts' = contacts
        /\ room' = room /\ fetched' = fetched
        /\ UNCHANGED <<dao, json, key, latest, requests, target, set, durable, stale, leftover>>
        /\ book' = [book EXCEPT ![t] = Tail(@)]
    BY <1>1 DEF SyncNext, table, ids, history
  <2>3. book' \in [Threads -> Seq(People)]
    <3>1. book \in [Threads -> Seq(People)]
      BY DEF TypeOK
    <3>. QED BY <2>1, <2>2, <3>1
  <2>4. KeyInv'
    BY <2>2 DEF KeyInv
  <2>. HIDE DEF p
  <2>5. CASE o = NoObject /\ Move(t, "sync", "add_named")
             /\ arg' = [arg EXCEPT ![t] = p] /\ UNCHANGED <<object, heap>>
    <3>1. TypeOK'
      BY <2>1, <2>2, <2>3, <2>5 DEF TypeOK, Move, Phases
    <3>2. HeapKept
      BY <2>5 DEF HeapKept
    <3>3. Work(t)' /\ pc'[t] \notin Loading
      BY <1>0, <2>1, <2>2, <2>5 DEF Move, TypeOK, Work, Working, Loading
    <3>4. WorkInv'
      BY <1>0, <2>2, <2>5, <3>1, <3>2, <3>3, ThreadWork DEF Move, TypeOK
    <3>. QED BY <2>4, <3>1, <3>4
  <2>6. CASE o # NoObject /\ Move(t, "sync", "snapshot")
             /\ heap' = [heap EXCEPT ![o].named = TRUE]
             /\ object' = [object EXCEPT ![t] = o] /\ UNCHANGED arg
    <3>0. o \in Ids \X (0..load) /\ o \in Ids \X Loads /\ heap[o] \in Contact /\ o[1] < nextId
      BY <2>6, FoundType
    <3>. HIDE DEF o
    <3>1. /\ heap' \in [Ids \X Loads -> Contact \cup {NoContact}]
          /\ \A q \in Ids \X Loads : heap[q] \in Contact => heap'[q] \in Contact
      <4>1. [heap[o] EXCEPT !.named = TRUE] \in Contact
        BY <3>0 DEF Contact
      <4>. QED BY <2>6, <3>0, <4>1 DEF TypeOK
    <3>2. \A i \in Range(contacts) : <<i, load>> \in Ids \X Loads
      BY <1>0 DEF TypeOK, Range
    <3>3. TypeOK'
      BY <2>2, <2>3, <2>6, <3>0, <3>1, <3>2 DEF TypeOK, Move, Phases
    <3>4. HeapKept
      BY <1>g, <3>1 DEF HeapKept
    <3>5. Work(t)' /\ pc'[t] \notin Loading
      <4>1. pc'[t] = "snapshot" /\ object'[t] = o
        BY <2>6 DEF Move, TypeOK
      <4>. QED BY <2>2, <3>0, <3>1, <4>1 DEF Work, Working, Loading
    <3>6. WorkInv'
      <4>1. \A u \in Threads \ {t} : /\ pc'[u] = pc[u] /\ arg'[u] = arg[u]
                                     /\ object'[u] = object[u] /\ row'[u] = row[u]
        BY <2>2, <2>6 DEF Move, TypeOK
      <4>. QED BY <1>0, <2>2, <3>3, <3>4, <3>5, <4>1, ThreadWork
    <3>. QED BY <2>4, <3>3, <3>6
  <2>7. CASE UNCHANGED <<pc, arg, object, heap>>
    <3>1. TypeOK'
      BY <2>2, <2>3, <2>7 DEF TypeOK
    <3>2. WorkInv'
      BY <2>2, <2>7 DEF WorkInv, Work
    <3>. QED BY <2>4, <3>1, <3>2
  <2>. QED BY <1>1, <2>5, <2>6, <2>7 DEF SyncNext, p
<1>2. CASE SyncDone(t)
  <2>1. TypeOK'
    BY <1>2 DEF SyncDone, Move, TypeOK, Phases, list, ids, table, local, history
  <2>2. HeapKept /\ load' = load /\ nextId' = nextId
    BY <1>2 DEF SyncDone, list, ids, HeapKept
  <2>3. Work(t)' /\ pc'[t] \notin Loading
    BY <1>0, <1>2
       DEF SyncDone, Move, list, ids, local, TypeOK, Work, Working, Loading
  <2>4. WorkInv'
    <3>1. \A u \in Threads \ {t} : /\ pc'[u] = pc[u] /\ arg'[u] = arg[u]
                                   /\ object'[u] = object[u] /\ row'[u] = row[u]
      BY <1>2 DEF SyncDone, Move, local, TypeOK
    <3>. QED BY <1>0, <2>1, <2>2, <2>3, <3>1, ThreadWork
  <2>5. KeyInv'
    BY <1>2 DEF SyncDone, list, ids, table, KeyInv
  <2>. QED BY <2>1, <2>4, <2>5
<1>3. CASE Add(t)
  <2>. DEFINE o == <<nextId, load>>
              c == [who |-> arg[t], rule |-> "AUTO", named |-> (pc[t] = "add_named")]
  <2>0. /\ nextId \in Ids /\ o \in Ids \X Loads /\ o \in Ids \X (0..load) /\ o[1] = nextId
        /\ c \in Contact
    <3>1. nextId \in Ids
      BY <1>3 DEF Add, TypeOK, Ids
    <3>2. arg[t] \in People
      BY <1>0, <1>3 DEF Add, Work, Makers
    <3>3. (pc[t] = "add_named") \in BOOLEAN
      OBVIOUS
    <3>. QED BY <1>0, <3>1, <3>2, <3>3 DEF Contact, Rules
  <2>1. /\ load' = load /\ nextId' = nextId + 1 /\ nextId' \in 1..(MaxIds + 1)
        /\ contacts' = Append(contacts, nextId)
        /\ heap' = [heap EXCEPT ![o] = c]
        /\ pc' = [pc EXCEPT ![t] = "snapshot"] /\ object' = [object EXCEPT ![t] = o]
        /\ arg' = [arg EXCEPT ![t] = NoRule]
        /\ UNCHANGED <<room, dao, json, requests, target, row, book, fetched,
                       set, durable, stale, leftover>>
    BY <1>3, Constants DEF Add, table, history, TypeOK
  <2>k. /\ key' \in [Ids -> Ids] /\ latest' \in [Makers -> 0..MaxIds]
        /\ \A m \in Makers : latest'[m] < nextId'
        /\ \A i \in Ids : /\ key'[i] <= i /\ key'[key'[i]] = key'[i]
                          /\ i >= nextId' => key'[i] = i
    BY <1>0, <1>3, <2>0, <2>1, NewNumber
  <2>. HIDE DEF c
  <2>2. Range(contacts') = Range(contacts) \cup {nextId} /\ contacts' \in Seq(Ids)
    <3>1. /\ contacts' \in Seq(Ids) /\ Len(contacts) \in Nat
          /\ DOMAIN contacts = 1..Len(contacts) /\ DOMAIN contacts' = 1..(Len(contacts) + 1)
          /\ \A k \in 1..Len(contacts) : contacts'[k] = contacts[k]
          /\ contacts'[Len(contacts) + 1] = nextId
      BY <2>0, <2>1 DEF TypeOK
    <3>. QED BY <3>1 DEF Range
  <2>3. /\ heap' \in [Ids \X Loads -> Contact \cup {NoContact}]
        /\ \A q \in Ids \X Loads : heap[q] \in Contact => heap'[q] \in Contact
        /\ heap'[o] = c
    BY <2>0, <2>1 DEF TypeOK
  <2>4. \A i \in Range(contacts') : heap'[<<i, load>>] \in Contact
    <3>1. \A i \in Range(contacts) : <<i, load>> \in Ids \X Loads
      BY <1>0 DEF TypeOK, Range
    <3>. QED BY <2>0, <2>2, <2>3, <3>1 DEF TypeOK
  <2>5. TypeOK'
    <3>1. pc' \in [Threads -> Phases] /\ arg' \in [Threads -> People \cup Rules \cup {NoRule}]
          /\ object' \in [Threads -> (Ids \X Loads) \cup {NoObject}]
      BY <2>0, <2>1 DEF TypeOK, Phases
    <3>. QED BY <2>1, <2>k, <2>2, <2>3, <2>4, <3>1 DEF TypeOK
  <2>6. HeapKept
    BY <1>g, <2>3 DEF HeapKept
  <2>7. Work(t)' /\ pc'[t] \notin Loading
    <3>1. pc'[t] = "snapshot" /\ object'[t] = o
      BY <2>1 DEF TypeOK
    <3>. QED BY <1>0, <2>0, <2>1, <2>3, <3>1 DEF Work, Working, Loading
  <2>8. WorkInv'
    <3>1. \A u \in Threads \ {t} : /\ pc'[u] = pc[u] /\ arg'[u] = arg[u]
                                   /\ object'[u] = object[u] /\ row'[u] = row[u]
      BY <2>1 DEF TypeOK
    <3>. QED BY <1>0, <2>1, <2>5, <2>6, <2>7, <3>1, ThreadWork
  <2>9. KeyInv'
    <3>1. \A r \in Range(room) : r.id \in Nat /\ r.id < nextId
      BY RowsTyped, Constants DEF KeyInv
    <3>2. \A i \in Range(contacts) : i \in Nat /\ i < nextId
      <4>1. \A i \in Range(contacts) : i \in Ids
        BY DEF TypeOK, Range
      <4>. QED BY <4>1, Constants DEF KeyInv
    <3>3. \A i \in Range(contacts') : i < nextId'
      BY <1>0, <2>1, <2>2, <3>2
    <3>4. \A r \in Range(room') : r.id < nextId'
      BY <1>0, <2>1, <3>1
    <3>5. nextId' > LegacyId
      BY <1>0, <2>1 DEF KeyInv, LegacyId
    <3>. QED BY <2>1, <2>k, <3>3, <3>4, <3>5 DEF KeyInv
  <2>. QED BY <2>5, <2>8, <2>9
<1>4. CASE SetRule(t)
  <2>. DEFINE o == object[t]
  <2>0. /\ o \in Ids \X (0..load) /\ heap[o] \in Contact /\ arg[t] \in Rules
        /\ pc[t] = "set"
    BY <1>0, <1>4 DEF SetRule, Move, Work, Working
  <2>1. o \in Ids \X Loads
    BY <1>g, <2>0
  <2>2. /\ load' = load /\ nextId' = nextId /\ row' = row /\ contacts' = contacts
        /\ room' = room /\ fetched' = fetched /\ object' = object /\ arg' = arg
        /\ UNCHANGED <<dao, json, key, latest, requests, target, book, durable, stale, leftover>>
        /\ heap' = [heap EXCEPT ![o].rule = arg[t]]
        /\ pc' = [pc EXCEPT ![t] = "snapshot"]
        /\ set' = [p \in People |-> IF Found(p) = o THEN arg[t] ELSE set[p]]
    BY <1>4 DEF SetRule, Write, Move, table, ids, local
  <2>. HIDE DEF o
  <2>3. /\ heap' \in [Ids \X Loads -> Contact \cup {NoContact}]
        /\ \A q \in Ids \X Loads : heap[q] \in Contact => heap'[q] \in Contact
    <3>1. [heap[o] EXCEPT !.rule = arg[t]] \in Contact
      BY <2>0 DEF Contact
    <3>. QED BY <2>1, <2>2, <3>1 DEF TypeOK
  <2>4. \A i \in Range(contacts) : <<i, load>> \in Ids \X Loads
    BY <1>0 DEF TypeOK, Range
  <2>5. TypeOK'
    <3>1. set' \in [People -> Rules \cup {NoRule}] /\ pc' \in [Threads -> Phases]
      BY <2>0, <2>2 DEF TypeOK, Phases
    <3>. QED BY <2>2, <2>3, <2>4, <3>1 DEF TypeOK
  <2>6. HeapKept
    BY <1>g, <2>3 DEF HeapKept
  <2>7. Work(t)' /\ pc'[t] \notin Loading
    <3>1. pc'[t] = "snapshot" /\ object'[t] = o
      BY <2>2 DEF TypeOK, o
    <3>2. o[1] < nextId
      BY <1>0, <2>0 DEF Work, Working, o
    <3>. QED BY <2>0, <2>1, <2>2, <2>3, <3>1, <3>2 DEF Work, Working, Loading
  <2>8. WorkInv'
    <3>1. \A u \in Threads \ {t} : /\ pc'[u] = pc[u] /\ arg'[u] = arg[u]
                                   /\ object'[u] = object[u] /\ row'[u] = row[u]
      BY <2>2 DEF TypeOK
    <3>. QED BY <1>0, <2>2, <2>5, <2>6, <2>7, <3>1, ThreadWork
  <2>9. KeyInv'
    BY <2>2 DEF KeyInv
  <2>. QED BY <2>5, <2>8, <2>9
<1>5. CASE Snapshot(t)
  <2>. DEFINE o == object[t]
  <2>0. o \in Ids \X (0..load) /\ heap[o] \in Contact /\ o[1] \in Ids /\ pc[t] = "snapshot"
    BY <1>0, <1>5 DEF Snapshot, Move, Work, Working
  <2>1. /\ load' = load /\ nextId' = nextId /\ contacts' = contacts /\ heap' = heap
        /\ room' = room /\ fetched' = fetched
        /\ UNCHANGED <<dao, json, key, latest, requests, target, book, set, durable, leftover>>
    BY <1>5 DEF Snapshot, list, ids, table
  <2>2. KeyInv' /\ HeapKept
    BY <2>1 DEF KeyInv, HeapKept
  <2>3. CASE /\ Move(t, "snapshot", "insert")
             /\ row' = [row EXCEPT ![t] = heap[o]]
             /\ UNCHANGED <<object, arg, stale>>
    <3>1. TypeOK'
      BY <2>0, <2>1, <2>3 DEF TypeOK, Move, Phases
    <3>2. Work(t)' /\ pc'[t] \notin Loading
      <4>1. pc'[t] = "insert" /\ object'[t] = object[t] /\ row'[t] = heap[o] /\ object[t][1] < nextId
        BY <1>0, <2>0, <2>3 DEF Move, TypeOK, Work, Working
      <4>. QED BY <2>0, <2>1, <4>1 DEF Work, Working, Loading
    <3>3. WorkInv'
      <4>1. \A u \in Threads \ {t} : /\ pc'[u] = pc[u] /\ arg'[u] = arg[u]
                                     /\ object'[u] = object[u] /\ row'[u] = row[u]
        BY <2>1, <2>3 DEF Move, TypeOK
      <4>. QED BY <1>0, <2>1, <2>2, <3>1, <3>2, <4>1, ThreadWork
    <3>. QED BY <2>2, <3>1, <3>3
  <2>4. CASE /\ Move(t, "snapshot", Finish(t))
             /\ stale' = stale \cup {o[1]}
             /\ object' = [object EXCEPT ![t] = NoObject]
             /\ arg' = [arg EXCEPT ![t] = NoRule]
             /\ UNCHANGED row
    <3>1. TypeOK'
      BY <1>f, <2>0, <2>1, <2>4 DEF TypeOK, Move, Phases
    <3>2. Work(t)' /\ pc'[t] \notin Loading
      <4>1. pc'[t] = Finish(t) /\ object'[t] = NoObject
        BY <2>4 DEF Move, TypeOK
      <4>. QED BY <1>f, <4>1 DEF Work, Working, Loading
    <3>3. WorkInv'
      <4>1. \A u \in Threads \ {t} : /\ pc'[u] = pc[u] /\ arg'[u] = arg[u]
                                     /\ object'[u] = object[u] /\ row'[u] = row[u]
        BY <2>1, <2>4 DEF Move, TypeOK
      <4>. QED BY <1>0, <2>1, <2>2, <3>1, <3>2, <4>1, ThreadWork
    <3>. QED BY <2>2, <3>1, <3>3
  <2>. QED BY <1>5, <2>3, <2>4 DEF Snapshot
<1>6. CASE Insert(t)
  <2>. DEFINE i == object[t][1]
  <2>0. i \in Ids /\ row[t] \in Contact /\ i < nextId /\ row[t].rule \in Rules
    BY <1>0, <1>6 DEF Insert, Move, Work, Working, Contact
  <2>1. /\ load' = load /\ nextId' = nextId /\ contacts' = contacts /\ heap' = heap
        /\ fetched' = fetched
        /\ UNCHANGED <<dao, json, key, latest, requests, target, book, set, leftover>>
        /\ pc' = [pc EXCEPT ![t] = Finish(t)]
        /\ row' = [row EXCEPT ![t] = NoContact]
        /\ object' = [object EXCEPT ![t] = NoObject]
        /\ arg' = [arg EXCEPT ![t] = NoRule]
    BY <1>6 DEF Insert, Move, list, ids
  <2>2. HeapKept
    BY <2>1 DEF HeapKept
  <2>. HIDE DEF i
  <2>k. key[i] \in Ids /\ key[i] < nextId
    <3>1. key[i] \in Ids /\ key[i] <= i
      BY <2>0 DEF TypeOK, KeyInv
    <3>2. key[i] \in Nat /\ i \in Nat
      BY <2>0, <3>1, Constants
    <3>. QED BY <1>0, <2>0, <3>1, <3>2
  <2>3. room' = room \/ room' = Upsert(room, key[i], row[t])
    BY <1>6 DEF Insert, i
  <2>4. /\ room' \in Seq(Rows) /\ Keyed(room')
        /\ \A r \in Range(room') : r.id < nextId
        /\ \A r \in Range(room) : \E q \in Range(room') : q.id = r.id
    <3>1. CASE room' = room
      BY <3>1 DEF TypeOK, KeyInv
    <3>2. CASE room' = Upsert(room, key[i], row[t])
      <4>0. room \in Seq(Rows) /\ Keyed(room)
        BY DEF TypeOK, KeyInv
      <4>. DEFINE n == [id |-> key[i], contact |-> row[t]]
      <4>1. /\ room' \in Seq(Rows) /\ Keyed(room')
            /\ Range(room') = {r \in Range(room) : r.id # key[i]} \cup {n}
        BY <2>0, <2>k, <3>2, <4>0, UpsertIs
      <4>2. n.id = key[i]
        OBVIOUS
      <4>3. \A r \in Range(room) : r.id < nextId
        BY DEF KeyInv
      <4>. HIDE DEF n
      <4>. QED BY <2>k, <4>1, <4>2, <4>3
    <3>. QED BY <2>3, <3>1, <3>2
  <2>5. stale' \subseteq Ids /\ durable' \in [Ids -> Rules \cup {NoRule}]
    <3>1. stale \subseteq Ids /\ durable \in [Ids -> Rules \cup {NoRule}]
      BY DEF TypeOK
    <3>. QED BY <1>6, <2>0, <3>1 DEF Insert, i
  <2>6. TypeOK'
    BY <1>f, <2>1, <2>4, <2>5 DEF TypeOK, Phases
  <2>7. Work(t)' /\ pc'[t] \notin Loading
    <3>1. pc'[t] = Finish(t) /\ object'[t] = NoObject
      BY <2>1 DEF TypeOK
    <3>. QED BY <1>f, <3>1 DEF Work, Working, Loading
  <2>8. WorkInv'
    <3>1. \A u \in Threads \ {t} : /\ pc'[u] = pc[u] /\ arg'[u] = arg[u]
                                   /\ object'[u] = object[u] /\ row'[u] = row[u]
      BY <2>1 DEF TypeOK
    <3>. QED BY <1>0, <2>1, <2>2, <2>6, <2>7, <3>1, ThreadWork
  <2>9. KeyInv'
    <3>1. \A r \in Range(fetched) : \E q \in Range(room') : q.id = r.id
      BY <2>4 DEF KeyInv
    <3>. QED BY <2>1, <2>4, <3>1 DEF KeyInv
  <2>. QED BY <2>6, <2>8, <2>9
<1>7. CASE FindAgain(t)
  <2>. DEFINE o == Found(target[t])
  <2>0. pc[t] = "find" /\ arg[t] \in Rules
    BY <1>0, <1>7 DEF FindAgain, Move, Work
  <2>1. /\ pc' = [pc EXCEPT ![t] = IF o = NoObject THEN "idle" ELSE "set"]
        /\ object' = [object EXCEPT ![t] = o]
        /\ arg' = [arg EXCEPT ![t] = IF o = NoObject THEN NoRule ELSE @]
        /\ target' = [target EXCEPT ![t] = NoRule]
        /\ UNCHANGED <<contacts, load, heap, room, dao, json, nextId, key, latest, requests,
                       row, book, fetched, set, durable, stale, leftover>>
    BY <1>7 DEF FindAgain, Move, list, table, ids, history
  <2>2. o # NoObject => /\ o \in Ids \X (0..load) /\ o \in Ids \X Loads
                        /\ heap[o] \in Contact /\ o[1] < nextId
    BY FoundType
  <2>. HIDE DEF o
  <2>3. TypeOK'
    <3>1. /\ pc' \in [Threads -> Phases] /\ object' \in [Threads -> (Ids \X Loads) \cup {NoObject}]
          /\ arg' \in [Threads -> People \cup Rules \cup {NoRule}]
          /\ target' \in [Threads -> People \cup Names \cup {NoRule}]
      BY <2>0, <2>1, <2>2 DEF TypeOK, Phases
    <3>. QED BY <2>1, <3>1 DEF TypeOK
  <2>4. HeapKept
    BY <2>1 DEF HeapKept
  <2>5. Work(t)' /\ pc'[t] \notin Loading
    <3>1. CASE o = NoObject
      <4>1. pc'[t] = "idle" /\ object'[t] = NoObject
        BY <2>1, <3>1 DEF TypeOK
      <4>. QED BY <4>1 DEF Work, Working, Loading
    <3>2. CASE o # NoObject
      <4>1. pc'[t] = "set" /\ object'[t] = o /\ arg'[t] = arg[t]
        BY <2>1, <3>2 DEF TypeOK
      <4>. QED BY <2>0, <2>1, <2>2, <3>2, <4>1 DEF Work, Working, Loading
    <3>. QED BY <3>1, <3>2
  <2>6. WorkInv'
    <3>1. \A u \in Threads \ {t} : /\ pc'[u] = pc[u] /\ arg'[u] = arg[u]
                                   /\ object'[u] = object[u] /\ row'[u] = row[u]
      BY <2>1 DEF TypeOK
    <3>. QED BY <1>0, <2>1, <2>3, <2>4, <2>5, <3>1, ThreadWork
  <2>7. KeyInv'
    BY <2>1 DEF KeyInv
  <2>. QED BY <2>3, <2>6, <2>7
<1>. QED BY <1>1, <1>2, <1>3, <1>4, <1>5, <1>6, <1>7 DEF Step

\* A kill loses the memory and keeps the table and the file.
LEMMA CrashTypeStep ==
  ASSUME TypeInv, Crash
  PROVE  TypeInv'
<1>. USE DEF TypeInv
<1>1. TypeOK'
  <2>1. load' \in Loads /\ pc' \in [Threads -> Phases] /\ Range(contacts') = {}
    BY Constants DEF Crash, Loads, AtRest, Phases, Range
  <2>2. /\ heap' \in [Ids \X Loads -> Contact \cup {NoContact}]
        /\ arg' \in [Threads -> People \cup Rules \cup {NoRule}]
        /\ target' \in [Threads -> People \cup Names \cup {NoRule}]
        /\ latest' \in [Makers -> 0..MaxIds]
        /\ object' \in [Threads -> (Ids \X Loads) \cup {NoObject}]
        /\ row' \in [Threads -> Contact \cup {NoContact}]
    BY Constants DEF Crash
  <2>3. set' \in [People -> Rules \cup {NoRule}] /\ dao' \in BOOLEAN
    BY DEF Crash
  <2>5. contacts' \in Seq(Ids) /\ fetched' \in Seq(Rows)
    BY DEF Crash
  <2>4. book' \in [Threads -> Seq(People)]
    <3>1. <<>> \in Seq(People)
      OBVIOUS
    <3>. QED BY <3>1 DEF Crash
  <2>. QED BY <2>1, <2>2, <2>3, <2>4, <2>5 DEF TypeOK, Crash
<1>2. WorkInv'
  BY Constants DEF Crash, WorkInv, Work, AtRest, Working, Loading
<1>3. KeyInv'
  <2>1. Range(contacts') = {} /\ Range(fetched') = {} /\ Keyed(fetched')
    BY DEF Crash, Range, Keyed
  <2>2. \A m \in Makers : latest'[m] < nextId'
    BY DEF Crash, KeyInv, LegacyId, TypeOK
  <2>. QED BY <2>1, <2>2 DEF Crash, KeyInv
<1>. QED BY <1>1, <1>2, <1>3

\* Every step keeps the three.
LEMMA TypeStep == TypeInv /\ [Next]_vars => TypeInv'
<1>1. TypeInv /\ UNCHANGED vars => TypeInv'
  BY DEF TypeInv, TypeOK, WorkInv, Work, KeyInv, vars
<1>. QED
  BY <1>1, InitTypeStep, RequestTypeStep, StepTypeStep, CrashTypeStep DEF Next

\* They hold in every state.
LEMMA TypeInvHolds == Spec => []TypeInv
BY TypeInit, TypeStep, PTL DEF Spec

\* Every variable keeps its type, whatever handlers, the service and a kill of the
\* process do: no thread works on an object that was never made.
THEOREM TypeCorrect == Spec => []TypeOK
BY TypeInvHolds, PTL DEF TypeInv

-----------------------------------------------------------------------------
(* A rule in the contact that a number finds *)

\* The list of this load is as it was, or longer; its objects are of who they
\* were of.
ListKept ==
  /\ load' = load
  /\ \A k \in DOMAIN contacts :
       /\ k \in DOMAIN contacts' /\ contacts'[k] = contacts[k]
       /\ heap'[<<contacts[k], load>>].who = heap[<<contacts[k], load>>].who
  /\ \A k \in DOMAIN contacts, j \in DOMAIN contacts' : j < k => j \in DOMAIN contacts

\* No contact of the list gets another rule.
RulesKept ==
  \A k \in DOMAIN contacts :
    heap'[<<contacts[k], load>>].rule = heap[<<contacts[k], load>>].rule

\* The contact that a number finds first stays the one it finds first.
LEMMA FirstKept ==
  ASSUME ListKept, NEW k \in DOMAIN contacts, NEW p \in People, IsFirst(k, p)
  PROVE  k \in DOMAIN contacts' /\ IsFirst(k, p)'
BY DEF ListKept, IsFirst, MatchedBy

\* The first contact of a person has the rule set last.
Ruled(p) ==
  set[p] # NoRule =>
    \E k \in DOMAIN contacts : /\ IsFirst(k, p)
                               /\ heap[<<contacts[k], load>>].rule = set[p]

\* A rule that was in force stays so when nothing overwrites it.
LEMMA RuledKept ==
  ASSUME ListKept, RulesKept, NEW p \in People, Ruled(p), set'[p] = set[p]
  PROVE  Ruled(p)'
<1>. SUFFICES ASSUME set'[p] # NoRule PROVE Ruled(p)'
  BY DEF Ruled
<1>1. PICK k \in DOMAIN contacts : /\ IsFirst(k, p)
                                   /\ heap[<<contacts[k], load>>].rule = set[p]
  BY DEF Ruled
<1>2. k \in DOMAIN contacts' /\ IsFirst(k, p)'
  BY <1>1, FirstKept
<1>3. heap'[<<contacts'[k], load'>>].rule = set'[p]
  BY <1>1 DEF ListKept, RulesKept
<1>. QED BY <1>2, <1>3 DEF Ruled

\* A name from the address book is all that a sync changes of a contact.
LEMMA SyncNextKeeps ==
  ASSUME TypeInv, NEW t \in Threads, SyncNext(t)
  PROVE  ListKept /\ RulesKept /\ set' = set
<1>. DEFINE o == Found(Head(book[t]))
<1>0. TypeOK
  BY DEF TypeInv
<1>1. /\ contacts' = contacts /\ load' = load /\ set' = set
      /\ heap' = heap \/ (o # NoObject /\ heap' = [heap EXCEPT ![o].named = TRUE])
  BY DEF SyncNext, history
<1>2. \A k \in DOMAIN contacts : <<contacts[k], load>> \in Ids \X Loads
  BY <1>0 DEF TypeOK
<1>3. o # NoObject => o \in Ids \X Loads /\ heap[o] \in Contact
  BY FoundType
<1>. HIDE DEF o
<1>4. ASSUME NEW k \in DOMAIN contacts
      PROVE  /\ heap'[<<contacts[k], load>>].who = heap[<<contacts[k], load>>].who
             /\ heap'[<<contacts[k], load>>].rule = heap[<<contacts[k], load>>].rule
  <2>1. CASE heap' = heap
    BY <2>1
  <2>2. CASE o # NoObject /\ heap' = [heap EXCEPT ![o].named = TRUE]
    <3>1. CASE <<contacts[k], load>> = o
      BY <1>0, <1>2, <1>3, <2>2, <3>1 DEF TypeOK, Contact
    <3>2. CASE <<contacts[k], load>> # o
      BY <1>0, <1>2, <1>3, <2>2, <3>2 DEF TypeOK
    <3>. QED BY <3>1, <3>2
  <2>. QED BY <1>1, <2>1, <2>2
<1>. QED BY <1>1, <1>4 DEF ListKept, RulesKept

\* A new contact, a twin of another or not, is behind the others.
LEMMA AddKeeps ==
  ASSUME TypeInv, NEW t \in Threads, Add(t)
  PROVE  ListKept /\ RulesKept /\ set' = set
<1>0. TypeOK
  BY DEF TypeInv
<1>1. /\ Len(contacts) \in Nat /\ nextId \in Ids /\ load \in Loads
      /\ DOMAIN contacts = 1..Len(contacts) /\ DOMAIN contacts' = 1..(Len(contacts) + 1)
      /\ \A k \in 1..Len(contacts) : contacts'[k] = contacts[k]
  BY <1>0 DEF Add, TypeOK, Ids
<1>2. \A k \in DOMAIN contacts : contacts[k] \in Ids /\ contacts[k] # nextId
  <2>1. \A k \in DOMAIN contacts : contacts[k] \in Ids /\ contacts[k] \in Range(contacts)
    BY <1>0 DEF TypeOK, Range
  <2>. QED BY <1>1, <2>1, Constants DEF TypeInv, KeyInv
<1>3. \A k \in DOMAIN contacts : heap'[<<contacts[k], load>>] = heap[<<contacts[k], load>>]
  BY <1>0, <1>1, <1>2 DEF Add, TypeOK
<1>. QED BY <1>1, <1>3 DEF ListKept, RulesKept, Add, history

\* The rule a handler writes is the one of those whose number finds the contact,
\* and of nobody else.
LEMMA SetRuleKeeps ==
  ASSUME TypeInv, NEW t \in Threads, SetRule(t), NEW p \in People, Ruled(p)
  PROVE  Ruled(p)'
<1>. DEFINE o == object[t]
<1>0. TypeOK
  BY DEF TypeInv
<1>1. o \in Ids \X (0..load) /\ heap[o] \in Contact /\ arg[t] \in Rules
  BY DEF SetRule, Move, TypeInv, WorkInv, Work, Working
<1>2. /\ load' = load /\ contacts' = contacts
      /\ heap' = [heap EXCEPT ![o].rule = arg[t]]
      /\ set' = [q \in People |-> IF Found(q) = o THEN arg[t] ELSE set[q]]
  BY DEF SetRule, Write
<1>3. \A k \in DOMAIN contacts : <<contacts[k], load>> \in Ids \X Loads
  BY <1>0 DEF TypeOK
<1>4. o \in Ids \X Loads
  BY <1>0, <1>1, Constants DEF TypeOK, Loads
<1>. HIDE DEF o
<1>5. ASSUME NEW k \in DOMAIN contacts
      PROVE  /\ heap'[<<contacts[k], load>>].who = heap[<<contacts[k], load>>].who
             /\ o = <<contacts[k], load>> => heap'[<<contacts[k], load>>].rule = arg[t]
             /\ o # <<contacts[k], load>> =>
                  heap'[<<contacts[k], load>>] = heap[<<contacts[k], load>>]
  <2>1. CASE o = <<contacts[k], load>>
    BY <1>0, <1>1, <1>2, <1>3, <2>1 DEF TypeOK, Contact
  <2>2. CASE o # <<contacts[k], load>>
    BY <1>0, <1>2, <1>3, <1>4, <2>2 DEF TypeOK
  <2>. QED BY <2>1, <2>2
<1>6. ListKept
  BY <1>2, <1>5 DEF ListKept
<1>7. ASSUME NEW k \in DOMAIN contacts, IsFirst(k, p) PROVE Found(p) = <<contacts[k], load>>
  BY <1>0, <1>7, FoundIsFirst DEF TypeOK
<1>8. CASE Found(p) = o
  <2>1. o # NoObject
    BY <1>4, Constants
  <2>2. PICK k \in DOMAIN contacts : IsFirst(k, p) /\ Found(p) = <<contacts[k], load>>
    BY <1>0, <1>8, <2>1, FoundIsFirst DEF TypeOK
  <2>3. k \in DOMAIN contacts' /\ IsFirst(k, p)'
    BY <1>6, <2>2, FirstKept
  <2>4. heap'[<<contacts'[k], load'>>].rule = set'[p]
    BY <1>2, <1>5, <1>8, <2>2
  <2>. QED BY <2>3, <2>4 DEF Ruled
<1>9. CASE Found(p) # o
  <2>1. set'[p] = set[p]
    BY <1>2, <1>9
  <2>. SUFFICES ASSUME set[p] # NoRule PROVE Ruled(p)'
    BY <2>1 DEF Ruled
  <2>2. PICK k \in DOMAIN contacts : /\ IsFirst(k, p)
                                     /\ heap[<<contacts[k], load>>].rule = set[p]
    BY DEF Ruled
  <2>3. o # <<contacts[k], load>>
    BY <1>7, <1>9, <2>2
  <2>4. k \in DOMAIN contacts' /\ IsFirst(k, p)'
    BY <1>6, <2>2, FirstKept
  <2>5. heap'[<<contacts'[k], load'>>].rule = set'[p]
    BY <1>2, <1>5, <2>1, <2>2, <2>3
  <2>. QED BY <2>4, <2>5 DEF Ruled
<1>. QED BY <1>8, <1>9

\* Inductive: of everybody.
RuleInv == \A p \in People : Ruled(p)

\* Only setInstructions writes a rule.
LEMMA RuleInvStep ==
  ASSUME TypeInv, RuleInv, [Next]_vars
  PROVE  RuleInv'
<1>1. ASSUME ListKept, RulesKept, set' = set PROVE RuleInv'
  BY <1>1, RuledKept DEF RuleInv
<1>2. ASSUME UNCHANGED list, set' = set PROVE RuleInv'
  BY <1>1, <1>2 DEF list, ListKept, RulesKept
<1>3. CASE StartInit \/ Migrate \/ Rename \/ GetAll
  BY <1>2, <1>3 DEF StartInit, Migrate, Rename, GetAll, history
<1>4. CASE Replace \/ Crash
  BY <1>4 DEF Replace, Crash, RuleInv, Ruled
<1>5. ASSUME NEW t \in Handlers, Request(t) PROVE RuleInv'
  BY <1>2, <1>5 DEF Request, Meet, FindForRule, StartSync, history
<1>6. ASSUME NEW t \in Threads, Step(t) PROVE RuleInv'
  <2>1. CASE SyncNext(t)
    BY <1>1, <2>1, SyncNextKeeps
  <2>2. CASE Add(t)
    BY <1>1, <2>2, AddKeeps
  <2>3. CASE SetRule(t)
    BY <2>3, SetRuleKeeps DEF RuleInv
  <2>4. CASE SyncDone(t) \/ FindAgain(t) \/ Snapshot(t) \/ Insert(t)
    BY <1>2, <2>4 DEF SyncDone, FindAgain, Snapshot, Insert, history
  <2>. QED BY <1>6, <2>1, <2>2, <2>3, <2>4 DEF Step
<1>7. CASE UNCHANGED vars
  BY <1>2, <1>7 DEF vars, list
<1>. QED BY <1>3, <1>4, <1>5, <1>6, <1>7 DEF Next, InitStep

\* "Will never reply to ...": a rule written, by whatever name, to the contact that a
\* person's number finds is what a message of that person finds until the next load,
\* whatever handlers and syncs do at the same time.  A handler that holds an object
\* of before the load changes nobody's rule, and twins of a contact are behind it.
THEOREM SetRuleFound == Spec => []RuleIsFound
<1>1. Init => RuleInv
  BY DEF Init, RuleInv, Ruled
<1>2. TypeInv /\ RuleInv => RuleIsFound
  <2>. SUFFICES ASSUME TypeInv, RuleInv, NEW p \in People, set[p] # NoRule
                PROVE  heap[Found(p)].rule = set[p]
    BY DEF RuleIsFound
  <2>1. PICK k \in DOMAIN contacts : /\ IsFirst(k, p)
                                     /\ heap[<<contacts[k], load>>].rule = set[p]
    BY DEF RuleInv, Ruled
  <2>2. Found(p) = <<contacts[k], load>>
    BY <2>1, FoundIsFirst DEF TypeInv, TypeOK
  <2>. QED BY <2>1, <2>2
<1>. QED BY <1>1, <1>2, RuleInvStep, TypeInvHolds, PTL DEF Spec

-----------------------------------------------------------------------------
(* Shared ids *)

\* Of an id that no two contacts share the contact has it that is numbered so.
LEMMA UnsharedKey ==
  ASSUME TypeInv, NEW i \in Ids, ~Shared(i)
  PROVE  \A j \in Ids : key[j] = i <=> j = i
<1>1. key[i] \in Ids /\ key[key[i]] = key[i]
  BY DEF TypeInv, TypeOK, KeyInv
<1>2. key[i] = i
  BY <1>1 DEF Shared
<1>. QED BY <1>2 DEF Shared

\* An id that two contacts share remains shared.
LEMMA SharedKept ==
  ASSUME TypeInv, [Next]_vars, NEW i \in Ids, Shared(i)
  PROVE  Shared(i)'
<1>1. key' = key \/ \E t \in Threads : Add(t)
  BY DEF Next, InitStep, StartInit, Migrate, Rename, GetAll, Replace, Crash,
     Request,
         Meet, FindForRule, StartSync, Step, SyncNext, SyncDone, FindAgain, SetRule,
         Snapshot, Insert, vars, ids
<1>2. CASE key' = key
  BY <1>2 DEF Shared
<1>3. ASSUME NEW t \in Threads, Add(t) PROVE Shared(i)'
  <2>1. /\ nextId \in Ids
        /\ \A n \in Ids \ {nextId} : key'[n] = key[n] /\ key[n] # nextId
    BY <1>3, NewNumber
  <2>2. key[nextId] = nextId
    BY <2>1, Constants DEF TypeInv, KeyInv
  <2>3. PICK j \in Ids : j # i /\ key[j] = key[i]
    BY DEF Shared
  <2>4. i # nextId /\ j # nextId
    BY <2>1, <2>2, <2>3
  <2>. QED BY <2>1, <2>3, <2>4 DEF Shared
<1>. QED BY <1>1, <1>2, <1>3

-----------------------------------------------------------------------------
(* The migration *)

\* As long as the contacts were not loaded while the legacy file was there, nothing
\* in memory, and no rule that reached the table, is of the file's contact before
\* the file is gone.
MigrateInv ==
  json /\ ~leftover => LegacyId \notin Range(contacts) /\ durable[LegacyId] = NoRule

\* The contact comes into memory by a load only, and its rule into the table from
\* there.
LEMMA MigrateInvStep ==
  ASSUME TypeInv, MigrateInv, [Next]_vars
  PROVE  MigrateInv'
<1>0. TypeOK
  BY DEF TypeInv
<1>1. CASE Replace
  BY <1>1 DEF Replace, table, MigrateInv
<1>. SUFFICES ASSUME ~Replace, json', ~leftover' PROVE MigrateInv'
  BY <1>1 DEF MigrateInv
<1>2. json /\ leftover' = leftover
  BY <1>0
     DEF Next, InitStep, StartInit, Migrate, Rename, GetAll, Crash, Request,
         Meet,
         FindForRule, StartSync, Step, SyncNext, SyncDone, Add, FindAgain, SetRule,
         Snapshot, Insert, vars, table, history
<1>3. LegacyId \notin Range(contacts) /\ durable[LegacyId] = NoRule
  BY <1>2 DEF MigrateInv
<1>4. LegacyId \notin Range(contacts')
  <2>1. CASE contacts' = contacts
    BY <1>3, <2>1
  <2>2. CASE Crash
    BY <2>2 DEF Crash, Range
  <2>3. ASSUME NEW t \in Threads, Add(t) PROVE LegacyId \notin Range(contacts')
    <3>1. /\ Len(contacts) \in Nat
          /\ DOMAIN contacts = 1..Len(contacts) /\ DOMAIN contacts' = 1..(Len(contacts) + 1)
          /\ \A k \in 1..Len(contacts) : contacts'[k] = contacts[k]
          /\ contacts'[Len(contacts) + 1] = nextId
      BY <1>0, <2>3 DEF Add, TypeOK, Ids
    <3>2. nextId # LegacyId
      BY <1>0 DEF TypeInv, KeyInv, LegacyId, TypeOK
    <3>. QED BY <1>3, <3>1, <3>2 DEF Range
  <2>. QED BY <2>1, <2>2, <2>3
           DEF Next, InitStep, StartInit, Migrate, Rename, GetAll, Request,
               Meet,
               FindForRule, StartSync, Step, SyncNext, SyncDone, FindAgain, SetRule,
               Snapshot, Insert, vars, list
<1>5. durable'[LegacyId] = NoRule
  <2>1. CASE durable' = durable
    BY <1>3, <2>1
  <2>2. ASSUME NEW t \in Threads, Insert(t) PROVE durable'[LegacyId] = NoRule
    <3>1. durable' = durable \/
            durable' = [durable EXCEPT ![object[t][1]] =
               IF /\ object[t][1] \in Range(contacts)
                  /\ heap[<<object[t][1], load>>] = row[t] THEN row[t].rule ELSE @]
      BY <2>2 DEF Insert
    <3>2. CASE object[t][1] = LegacyId
      <4>1. durable' = [durable EXCEPT ![object[t][1]] = @] \/ durable' = durable
        BY <1>3, <3>1, <3>2
      <4>. QED BY <1>0, <1>3, <4>1 DEF TypeOK
    <3>3. CASE object[t][1] # LegacyId
      BY <1>0, <1>3, <3>1, <3>3, Constants DEF TypeOK
    <3>. QED BY <3>2, <3>3
  <2>. QED BY <2>1, <2>2
           DEF Next, InitStep, StartInit, Migrate, Rename, GetAll, Crash,
               Request, Meet,
               FindForRule, StartSync, Step, SyncNext, SyncDone, Add, FindAgain, SetRule,
               Snapshot, vars, history
<1>. QED BY <1>4, <1>5 DEF MigrateInv

\* So the file is migrated over what a load has read only if it was left there.
LEMMA MigrateInvHolds == Spec => []MigrateInv
<1>1. Init => MigrateInv
  BY Constants DEF Init, MigrateInv, Range
<1>. QED BY <1>1, MigrateInvStep, TypeInvHolds, PTL DEF Spec

-----------------------------------------------------------------------------
(* What a step does to the table *)

\* The contact a thread works on is put into the table.
InsertsRow(t) ==
  /\ object[t][1] \in Ids /\ key[object[t][1]] \in Ids /\ row[t] \in Contact
  /\ Range(room') = {r \in Range(room) : r.id # key[object[t][1]]}
                      \cup {[id |-> key[object[t][1]], contact |-> row[t]]}

\* So it is when dao.insert does not fail.
LEMMA InsertRow ==
  ASSUME TypeInv, NEW t \in Threads, Insert(t),
         room' = Upsert(room, key[object[t][1]], row[t])
  PROVE  InsertsRow(t)
<1>0. room \in Seq(Rows) /\ Keyed(room)
  BY DEF TypeInv, TypeOK, KeyInv
<1>1. object[t][1] \in Ids /\ row[t] \in Contact
  BY DEF Insert, Move, TypeInv, WorkInv, Work, Working
<1>2. key[object[t][1]] \in Ids
  BY <1>1 DEF TypeInv, TypeOK
<1>. QED BY <1>0, <1>1, <1>2, UpsertIs DEF InsertsRow

\* The table is left alone, or one row is put into it: the legacy contact's by the
\* migration, or, under its id, that of the contact a thread works on.
LEMMA RoomStep ==
  ASSUME TypeInv, [Next]_vars
  PROVE  \/ room' = room
         \/ /\ Migrate /\ json /\ (leftover => LegacyId \in stale')
            /\ \E c \in Contact : Range(room') = {r \in Range(room) : r.id # LegacyId}
                                     \cup {[id |-> LegacyId, contact |-> c]}
         \/ \E t \in Threads : Insert(t) /\ InsertsRow(t)
<1>0. room \in Seq(Rows) /\ Keyed(room)
  BY DEF TypeInv, TypeOK, KeyInv
<1>1. CASE room' = room
  BY <1>1
<1>2. CASE Migrate /\ room' # room
  <2>. DEFINE c == [who |-> Legacy, rule |-> "AUTO", named |-> TRUE]
  <2>1. json /\ room' = Upsert(room, LegacyId, c) /\ (leftover => LegacyId \in stale')
    BY <1>2 DEF Migrate, InsertLegacy
  <2>2. c \in Contact
    BY Constants DEF Contact, Rules
  <2>. HIDE DEF c
  <2>. QED BY <1>0, <1>2, <2>1, <2>2, UpsertIs, Constants
<1>3. ASSUME NEW t \in Threads, Insert(t), room' # room PROVE InsertsRow(t)
  BY <1>3, InsertRow DEF Insert
<1>4. room' # room => Migrate \/ \E t \in Threads : Insert(t)
  BY DEF Next, InitStep, StartInit, Rename, GetAll, Replace, Crash, Request,
     Meet,
     FindForRule, StartSync, Step, SyncNext, SyncDone, Add, FindAgain, SetRule, Snapshot,
     vars, table
<1>. QED BY <1>1, <1>2, <1>3, <1>4

-----------------------------------------------------------------------------
(* A rule in the table stays there *)

\* A row keeps its contact unless its contact is inserted.
LEMMA RowKept ==
  ASSUME NEW i, NEW j, NEW c, i # j,
         Range(room') = {r \in Range(room) : r.id # j} \cup {[id |-> j, contact |-> c]}
  PROVE  RowOf(i)' = RowOf(i)
<1>1. [id |-> j, contact |-> c].id = j
  OBVIOUS
<1>2. RowOf(i)' = {r \in Range(room') : r.id = i}
  BY DEF RowOf
<1>. DEFINE n == [id |-> j, contact |-> c]
<1>. HIDE DEF n
<1>3. \A r : r \in Range(room') /\ r.id = i <=> r \in Range(room) /\ r.id = i
  BY <1>1 DEF n
<1>. QED BY <1>2, <1>3 DEF RowOf

\* A row that was inserted is the one of its contact.
LEMMA RowNew ==
  ASSUME NEW i, NEW c,
         Range(room') = {r \in Range(room) : r.id # i} \cup {[id |-> i, contact |-> c]}
  PROVE  RowOf(i)' = {[id |-> i, contact |-> c]}
<1>1. [id |-> i, contact |-> c].id = i
  OBVIOUS
<1>. DEFINE n == [id |-> i, contact |-> c]
<1>2. RowOf(i)' = {r \in Range(room') : r.id = i}
  BY DEF RowOf
<1>. HIDE DEF n
<1>3. \A r : r \in Range(room') /\ r.id = i <=> r = n
  BY <1>1 DEF n
<1>4. RowOf(i)' = {n}
  BY <1>2, <1>3
<1>. QED BY <1>4 DEF n

\* The rule last saved for a contact is in its row.
Durable(i) ==
  durable[i] # NoRule /\ i \notin stale /\ ~Shared(i) =>
    \E r \in RowOf(i) : r.contact.rule = durable[i]

\* Insert writes a row and records it; the migration, the only other writer of
\* the table, writes the legacy contact, no rule of which was saved before, unless
\* the file was left there.
LEMMA DurableStep ==
  ASSUME TypeInv, MigrateInv, NEW i \in Ids, Durable(i), [Next]_vars
  PROVE  Durable(i)'
<1>0. durable \in [Ids -> Rules \cup {NoRule}]
  BY DEF TypeInv, TypeOK
<1>. SUFFICES ASSUME ~Shared(i)' PROVE Durable(i)'
  BY DEF Durable
<1>s. ~Shared(i)
  BY SharedKept
<1>1. ASSUME NEW t \in Threads, Insert(t) PROVE Durable(i)'
  <2>. DEFINE j == object[t][1]
              upToDate == j \in Range(contacts) /\ heap[<<j, load>>] = row[t]
  <2>1. CASE /\ room' = Upsert(room, key[j], row[t])
             /\ stale' = IF upToDate THEN stale \ {j} ELSE stale \cup {j}
             /\ durable' = [durable EXCEPT ![j] = IF upToDate THEN row[t].rule ELSE @]
    <3>1. /\ j \in Ids
          /\ Range(room') = {r \in Range(room) : r.id # key[j]}
                              \cup {[id |-> key[j], contact |-> row[t]]}
      BY <1>1, <2>1, InsertRow DEF InsertsRow
    <3>2. key[j] = i <=> j = i
      BY <1>s, <3>1, UnsharedKey
    <3>. HIDE DEF j, upToDate
    <3>3. CASE i = j /\ upToDate
      <4>1. durable'[i] = row[t].rule
        BY <1>0, <2>1, <3>3
      <4>2. RowOf(i)' = {[id |-> i, contact |-> row[t]]}
        BY <3>1, <3>2, <3>3, RowNew
      <4>. QED BY <4>1, <4>2 DEF Durable
    <3>4. CASE i = j /\ ~upToDate
      BY <2>1, <3>4 DEF Durable
    <3>5. CASE i # j
      <4>1. durable'[i] = durable[i] /\ (i \in stale' <=> i \in stale)
        BY <1>0, <2>1, <3>1, <3>5
      <4>2. RowOf(i)' = RowOf(i)
        BY <3>1, <3>2, <3>5, RowKept
      <4>. QED BY <1>s, <4>1, <4>2 DEF Durable
    <3>. QED BY <3>3, <3>4, <3>5
  <2>2. CASE stale' = stale \cup {j} /\ UNCHANGED <<room, durable>>
    BY <1>s, <2>2 DEF Durable, RowOf
  <2>. QED BY <1>1, <2>1, <2>2 DEF Insert
<1>2. CASE ~\E t \in Threads : Insert(t)
  <2>1. durable' = durable /\ stale \subseteq stale'
    BY <1>2
       DEF Next, InitStep, StartInit, Migrate, InsertLegacy, Rename, GetAll,
           Replace, Crash,
           Request, Meet, FindForRule, StartSync, Step, SyncNext, SyncDone, Add, FindAgain,
           SetRule, Snapshot, vars, history
  <2>2. CASE room' = room
    BY <1>s, <2>1, <2>2 DEF Durable, RowOf
  <2>3. CASE room' # room
    <3>1. PICK c \in Contact :
            /\ json /\ (leftover => LegacyId \in stale')
            /\ Range(room') = {r \in Range(room) : r.id # LegacyId}
                                \cup {[id |-> LegacyId, contact |-> c]}
      BY <1>2, <2>3, RoomStep
    <3>2. CASE i = LegacyId
      BY <2>1, <3>1, <3>2 DEF MigrateInv, Durable
    <3>3. CASE i # LegacyId
      <4>1. RowOf(i)' = RowOf(i)
        BY <3>1, <3>3, RowKept
      <4>. QED BY <1>s, <2>1, <4>1 DEF Durable
    <3>. QED BY <3>2, <3>3
  <2>. QED BY <2>2, <2>3
<1>. QED BY <1>1, <1>2

\* A rule that reached the table stays there over kills at any moment, loads, syncs,
\* failing inserts and a migration that is repeated because a kill, a file that could
\* not be read or one that could not be renamed came between; but for the legacy
\* contact when it is migrated again after it was loaded, and contacts that share an
\* id.  No fault is excluded.
THEOREM DurableRules == Spec => []RulesAreDurable
<1>. DEFINE D == \A i \in Ids : Durable(i)
<1>1. Init => D
  BY DEF Init, Durable
<1>2. TypeInv /\ MigrateInv /\ D /\ [Next]_vars => D'
  BY DurableStep
<1>3. D => RulesAreDurable
  BY DEF Durable, RulesAreDurable
<1>. QED BY <1>1, <1>2, <1>3, TypeInvHolds, MigrateInvHolds, PTL DEF Spec

-----------------------------------------------------------------------------
(* What is in memory is in the table *)

\* A contact of the list that nobody is at work on has the row that it should.
Matched(i) ==
  i \in stale \/ Shared(i) \/ (\E t \in Threads : object[t][1] = i)
    \/ RowOf(i) = {[id |-> i, contact |-> heap[<<i, load>>]]}

\* Inductive: so has every contact of the list.
MatchInv == \A i \in Range(contacts) : Matched(i)

\* A step that leaves the object and the row of a contact alone, and nobody's work
\* on it ended.
LEMMA MatchedKept ==
  ASSUME NEW i, Matched(i), load' = load, heap'[<<i, load>>] = heap[<<i, load>>],
         RowOf(i)' = RowOf(i), i \in stale => i \in stale', Shared(i) => Shared(i)',
         \A t \in Threads : object[t][1] = i => object'[t][1] = i
  PROVE  Matched(i)'
BY DEF Matched

\* A thread ends its work with the insert of the snapshot it took; if the object
\* has changed since, the contact is stale.
LEMMA MatchStep ==
  ASSUME TypeInv, TypeInv', MigrateInv, MatchInv, [Next]_vars
  PROVE  MatchInv'
<1>0. TypeOK /\ TypeOK' /\ Service \in Threads /\ room \in Seq(Rows) /\ Keyed(room)
  BY Constants DEF TypeInv, TypeOK, KeyInv
<1>c. \A i \in Range(contacts) : i \in Ids /\ i < nextId /\ <<i, load>> \in Ids \X Loads
  BY <1>0 DEF TypeOK, Range, TypeInv, KeyInv
<1>i. \A i \in Ids : i # NoObject[1]
  BY Constants DEF NoObject, Ids
<1>n. \A t \in Threads : pc[t] \notin Working => object[t] = NoObject
  BY DEF TypeInv, WorkInv, Work
<1>s. \A i \in Ids : Shared(i) => Shared(i)'
  BY SharedKept
<1>1. ASSUME UNCHANGED <<list, room, object>>, stale \subseteq stale' PROVE MatchInv'
  <2>1. UNCHANGED <<contacts, load, heap, room, object>>
    BY <1>1 DEF list
  <2>2. ASSUME NEW i \in Range(contacts) PROVE Matched(i)'
    BY <1>1, <1>c, <1>s, <2>1, MatchedKept DEF MatchInv, RowOf
  <2>. QED BY <2>1, <2>2 DEF MatchInv
<1>2. CASE StartInit \/ Rename \/ GetAll
  BY <1>1, <1>2 DEF StartInit, Rename, GetAll, table, local, history
<1>3. CASE Migrate
  <2>1. UNCHANGED <<contacts, load, heap, object>> /\ stale \subseteq stale'
    BY <1>3 DEF Migrate, InsertLegacy, list, local
  <2>2. CASE room' = room
    BY <1>1, <2>1, <2>2 DEF list
  <2>3. CASE room' # room
    <3>1. PICK c \in Contact :
            /\ json /\ (leftover => LegacyId \in stale')
            /\ Range(room') = {r \in Range(room) : r.id # LegacyId}
                                \cup {[id |-> LegacyId, contact |-> c]}
      <4>1. \A t \in Threads : ~Insert(t)
        <5>1. row' = row
          BY <1>3 DEF Migrate, local
        <5>2. ASSUME NEW t \in Threads, Insert(t) PROVE row'[t] # row[t]
          <6>1. row'[t] = NoContact
            BY <1>0, <5>2 DEF Insert, TypeOK
          <6>2. row[t] \in Contact
            BY <5>2 DEF Insert, Move, TypeInv, WorkInv, Work
          <6>. QED BY <6>1, <6>2, Constants
        <5>. QED BY <5>1, <5>2
      <4>. QED BY <2>3, <4>1, RoomStep
    <3>2. ASSUME NEW i \in Range(contacts) PROVE Matched(i)'
      <4>1. CASE i = LegacyId
        BY <3>1, <4>1 DEF MigrateInv, Matched
      <4>2. CASE i # LegacyId
        <5>1. RowOf(i)' = RowOf(i)
          BY <3>1, <4>2, RowKept
        <5>. QED BY <1>c, <1>s, <2>1, <5>1, MatchedKept DEF MatchInv
      <4>. QED BY <4>1, <4>2
    <3>. QED BY <2>1, <3>2 DEF MatchInv
  <2>. QED BY <2>2, <2>3
<1>4. CASE Replace
  <2>. SUFFICES ASSUME NEW i \in Range(contacts') PROVE Matched(i)'
    BY DEF MatchInv
  <2>1. /\ room' = room /\ load' = load + 1 /\ load' \in Loads
        /\ stale' = stale \cup {r.id : r \in Range(room) \ Range(fetched)}
    BY <1>0, <1>4 DEF Replace, table, TypeOK
  <2>2. i \in Ids /\ \E k \in DOMAIN fetched : fetched[k].id = i
    BY <1>0, <1>4 DEF Replace, Range, TypeOK
  <2>3. PICK k \in DOMAIN fetched : fetched[k].id = i /\ heap'[<<i, load'>>] = fetched[k].contact
    <3>. DEFINE o == <<i, load'>>
    <3>1. o \in Ids \X Loads /\ o[1] = i /\ o[2] = load + 1
      BY <2>1, <2>2
    <3>. HIDE DEF o
    <3>2. heap'[o] = IF o[2] # load + 1 THEN heap[o]
                ELSE IF \E m \in DOMAIN fetched : fetched[m].id = o[1]
                     THEN fetched[CHOOSE m \in DOMAIN fetched : fetched[m].id = o[1]].contact
                     ELSE NoContact
      BY <1>4, <3>1 DEF Replace
    <3>3. heap'[o] = fetched[CHOOSE m \in DOMAIN fetched : fetched[m].id = i].contact
      BY <2>2, <3>1, <3>2
    <3>. QED BY <2>2, <3>3 DEF o
  <2>. DEFINE f == fetched[k]
  <2>4. f \in Range(fetched) /\ f.id = i
    BY <2>3 DEF Range
  <2>5. PICK q \in Range(room) : q.id = i
    BY <2>4 DEF TypeInv, KeyInv
  <2>6. \A r \in Range(room) : r.id = i => r = q
    BY <2>5 DEF Range, TypeInv, KeyInv, Keyed
  <2>7. CASE q \in Range(fetched)
    <3>0. q = f
      BY <2>3, <2>5, <2>7 DEF Range, TypeInv, KeyInv, Keyed
    <3>1. RowOf(i) = {q}
      BY <2>5, <2>6 DEF RowOf
    <3>2. q = [id |-> i, contact |-> q.contact]
      <4>1. q \in Rows
        BY <1>0, RowsTyped
      <4>. QED BY <2>5, <4>1 DEF Rows
    <3>3. RowOf(i)' = {[id |-> i, contact |-> heap'[<<i, load'>>]]}
      <4>1. RowOf(i)' = RowOf(i)
        BY <2>1 DEF RowOf
      <4>2. heap'[<<i, load'>>] = q.contact
        BY <2>3, <3>0
      <4>. QED BY <3>1, <3>2, <4>1, <4>2
    <3>. QED BY <3>3 DEF Matched
  <2>8. CASE q \notin Range(fetched)
    BY <2>1, <2>5, <2>8 DEF Matched
  <2>. QED BY <2>7, <2>8
<1>5. CASE Crash
  <2>1. Range(contacts') = {}
    BY <1>5 DEF Crash, Range
  <2>. QED BY <2>1 DEF MatchInv
<1>6. ASSUME NEW t \in Handlers, Request(t) PROVE MatchInv'
  BY <1>1, <1>6 DEF Request, Meet, FindForRule, StartSync, table, history
<1>7. ASSUME NEW t \in Threads, Step(t) PROVE MatchInv'
  <2>1. CASE SyncNext(t)
    <3>. DEFINE o == Found(Head(book[t]))
    <3>1. /\ contacts' = contacts /\ load' = load /\ room' = room
          /\ stale' = stale
      BY <2>1 DEF SyncNext, table, history
    <3>2. CASE heap' = heap /\ object' = object
      BY <1>1, <3>1, <3>2 DEF list
    <3>3. CASE /\ o # NoObject /\ heap' = [heap EXCEPT ![o].named = TRUE]
               /\ object' = [object EXCEPT ![t] = o]
      <4>1. object[t] = NoObject
        BY <1>n, <2>1 DEF SyncNext, Working
      <4>2. o \in Ids \X Loads /\ o = <<o[1], load>>
        BY <3>3, FoundType
      <4>. HIDE DEF o
      <4>3. ASSUME NEW i \in Range(contacts) PROVE Matched(i)'
        <5>1. CASE i = o[1]
          BY <1>0, <3>3, <5>1 DEF Matched, TypeOK
        <5>2. CASE i # o[1]
          <6>1. \A u \in Threads : object[u][1] = i => object'[u][1] = i
            <7>1. object[t][1] # i
              BY <1>c, <1>i, <4>1
            <7>2. \A u \in Threads : u # t => object'[u] = object[u]
              BY <1>0, <3>3 DEF TypeOK
            <7>. QED BY <7>1, <7>2
          <6>2. RowOf(i)' = RowOf(i)
            BY <3>1 DEF RowOf
          <6>3. <<i, load>> # o
            BY <5>2
          <6>4. heap'[<<i, load>>] = heap[<<i, load>>]
            BY <1>0, <1>c, <3>3, <6>3 DEF TypeOK
          <6>. QED BY <3>1, <6>1, <6>2, <6>4, <1>c, <1>s,
          MatchedKept DEF MatchInv
        <5>. QED BY <5>1, <5>2
      <4>. QED BY <3>1, <4>3 DEF MatchInv
    <3>. QED BY <2>1, <3>2, <3>3 DEF SyncNext
  <2>2. CASE SyncDone(t)
    BY <1>1, <2>2 DEF SyncDone, table, local, history
  <2>3. CASE Add(t)
    <3>1. /\ load' = load /\ room' = room /\ stale' = stale
          /\ object' = [object EXCEPT ![t] = <<nextId, load>>]
          /\ contacts' = Append(contacts, nextId)
      BY <2>3 DEF Add, table, history
    <3>2. nextId \in Ids /\ <<nextId, load>> \in Ids \X Loads
      BY <1>0, <2>3 DEF Add, TypeOK, Ids
    <3>3. \A i \in Range(contacts') : i \in Range(contacts) \/ i = nextId
      <4>1. /\ Len(contacts) \in Nat /\ DOMAIN contacts = 1..Len(contacts)
            /\ DOMAIN contacts' = 1..(Len(contacts) + 1)
            /\ \A k \in 1..Len(contacts) : contacts'[k] = contacts[k]
            /\ contacts'[Len(contacts) + 1] = nextId
        BY <1>0, <3>1, <3>2 DEF TypeOK
      <4>. QED BY <4>1 DEF Range
    <3>4. object[t] = NoObject
      BY <1>n, <2>3 DEF Add, Makers, Working
    <3>5. ASSUME NEW i \in Range(contacts') PROVE Matched(i)'
      <4>1. CASE i = nextId
        <5>1. object'[t][1] = i
          BY <1>0, <3>1, <4>1 DEF TypeOK
        <5>. QED BY <1>7, <5>1 DEF Matched
      <4>2. CASE i # nextId
        <5>1. i \in Range(contacts)
          BY <3>3, <4>2
        <5>2. \A u \in Threads : object[u][1] = i => object'[u][1] = i
          BY <1>0, <1>c, <1>i, <3>1, <3>4, <5>1 DEF TypeOK
        <5>3. RowOf(i)' = RowOf(i)
          BY <3>1 DEF RowOf
        <5>4. heap'[<<i, load>>] = heap[<<i, load>>]
          BY <1>0, <1>c, <2>3, <3>2, <4>2, <5>1 DEF Add, TypeOK
        <5>. QED BY <3>1, <5>1, <5>2, <5>3, <5>4, <1>c, <1>s,
        MatchedKept DEF MatchInv
      <4>. QED BY <4>1, <4>2
    <3>. QED BY <3>5 DEF MatchInv
  <2>4. CASE SetRule(t)
    <3>. DEFINE o == object[t]
    <3>1. /\ load' = load /\ contacts' = contacts /\ object' = object /\ room' = room
          /\ stale' = stale
          /\ heap' = [heap EXCEPT ![o].rule = arg[t]]
      BY <2>4 DEF SetRule, Write, table, local
    <3>2. ASSUME NEW i \in Range(contacts) PROVE Matched(i)'
      <4>1. CASE o[1] = i
        BY <1>7, <3>1, <4>1 DEF Matched
      <4>2. CASE o[1] # i
        <5>. HIDE DEF o
        <5>1. heap'[<<i, load>>] = heap[<<i, load>>]
          <6>1. <<i, load>> # o
            BY <4>2
          <6>. QED BY <1>0, <1>c, <3>1, <6>1 DEF TypeOK
        <5>2. RowOf(i)' = RowOf(i)
          BY <3>1 DEF RowOf
        <5>. QED BY <3>1, <5>1, <5>2, <1>c, <1>s, MatchedKept DEF MatchInv
      <4>. QED BY <4>1, <4>2
    <3>. QED BY <3>1, <3>2 DEF MatchInv
  <2>5. CASE Snapshot(t)
    <3>1. UNCHANGED <<contacts, load, heap, room>>
      BY <2>5 DEF Snapshot, list, table
    <3>2. CASE stale' = stale /\ object' = object
      BY <1>1, <3>1, <3>2 DEF list
    <3>3. CASE stale' = stale \cup {object[t][1]} /\ object' = [object EXCEPT ![t] = NoObject]
      <4>1. ASSUME NEW i \in Range(contacts) PROVE Matched(i)'
        <5>1. CASE object[t][1] = i
          BY <3>3, <5>1 DEF Matched
        <5>2. CASE object[t][1] # i
          <6>1. \A u \in Threads : object[u][1] = i => object'[u][1] = i
            BY <1>0, <3>3, <5>2 DEF TypeOK
          <6>2. RowOf(i)' = RowOf(i)
            BY <3>1 DEF RowOf
          <6>. QED BY <3>1, <3>3, <6>1, <6>2, <1>c, <1>s,
          MatchedKept DEF MatchInv
        <5>. QED BY <5>1, <5>2
      <4>. QED BY <3>1, <4>1 DEF MatchInv
    <3>. QED BY <2>5, <3>2, <3>3 DEF Snapshot
  <2>6. CASE Insert(t)
    <3>. DEFINE j == object[t][1]
                upToDate == j \in Range(contacts) /\ heap[<<j, load>>] = row[t]
    <3>1. /\ UNCHANGED <<contacts, load, heap>> /\ object' = [object EXCEPT ![t] = NoObject]
      BY <2>6 DEF Insert, list
    <3>i. room' = Upsert(room, key[j], row[t]) => InsertsRow(t)
      BY <1>7, <2>6, InsertRow
    <3>2. ASSUME NEW i \in Range(contacts) PROVE Matched(i)'
      <4>. SUFFICES ASSUME ~Shared(i) PROVE Matched(i)'
        BY <1>c, <1>s DEF Matched
      <4>0. \A n \in Ids : key[n] = i <=> n = i
        BY <1>c, UnsharedKey
      <4>1. CASE i = j
        <5>1. CASE stale' = stale \cup {j}
          BY <4>1, <5>1 DEF Matched
        <5>2. CASE upToDate /\ room' = Upsert(room, key[j], row[t])
          <6>1. Range(room') = {r \in Range(room) : r.id # i}
                                 \cup {[id |-> i, contact |-> row[t]]}
            BY <3>i, <4>0, <4>1, <5>2 DEF InsertsRow
          <6>. HIDE DEF j
          <6>2. RowOf(i)' = {[id |-> i, contact |-> row[t]]}
            BY <6>1, RowNew
          <6>3. heap'[<<i, load'>>] = row[t]
            BY <3>1, <4>1, <5>2
          <6>. QED BY <6>2, <6>3 DEF Matched
        <5>. QED BY <2>6, <5>1, <5>2 DEF Insert
      <4>2. CASE i # j
        <5>1. i \in stale => i \in stale'
          BY <2>6, <4>2 DEF Insert
        <5>2. \A u \in Threads : object[u][1] = i => object'[u][1] = i
          BY <1>0, <3>1, <4>2 DEF TypeOK
        <5>3. RowOf(i)' = RowOf(i)
          <6>1. CASE room' = room
            BY <6>1 DEF RowOf
          <6>2. CASE room' = Upsert(room, key[j], row[t])
            <7>1. /\ j \in Ids
                  /\ Range(room') = {r \in Range(room) : r.id # key[j]}
                                      \cup {[id |-> key[j], contact |-> row[t]]}
              BY <3>i, <6>2 DEF InsertsRow
            <7>2. key[j] # i
              BY <4>0, <4>2, <7>1
            <7>. QED BY <7>1, <7>2, RowKept
          <6>. QED BY <2>6, <6>1, <6>2 DEF Insert
        <5>. QED BY <3>1, <5>1, <5>2, <5>3, <1>c, <1>s, MatchedKept DEF MatchInv
      <4>. QED BY <4>1, <4>2
    <3>. QED BY <3>1, <3>2 DEF MatchInv
  <2>7. CASE FindAgain(t)
    <3>1. /\ contacts' = contacts /\ load' = load /\ heap' = heap /\ room' = room
          /\ stale' = stale /\ object' = [object EXCEPT ![t] = Found(target[t])]
      BY <2>7 DEF FindAgain, list, table, history
    <3>2. object[t] = NoObject
      BY <1>n, <2>7 DEF FindAgain, Move, Working
    <3>3. ASSUME NEW i \in Range(contacts) PROVE Matched(i)'
      <4>1. \A u \in Threads : object[u][1] = i => object'[u][1] = i
        BY <1>0, <1>c, <1>i, <3>1, <3>2 DEF TypeOK
      <4>2. RowOf(i)' = RowOf(i)
        BY <3>1 DEF RowOf
      <4>. QED BY <1>c, <1>s, <3>1, <4>1, <4>2, MatchedKept DEF MatchInv
    <3>. QED BY <3>1, <3>3 DEF MatchInv
  <2>. QED BY <1>7, <2>1, <2>2, <2>3, <2>4, <2>5, <2>6, <2>7 DEF Step
<1>8. CASE UNCHANGED vars
  BY <1>1, <1>8 DEF vars, list
<1>. QED BY <1>2, <1>3, <1>4, <1>5, <1>6, <1>7, <1>8 DEF Next, InitStep

\* When nobody is at work on a contact, its row is what the object in the list holds,
\* so the next start of the process knows what this one knows; unless it shares an id
\* with another, the database failed, was not there yet or changed behind the load, or
\* two writers crossed.  Of two handlers that set a rule at the same time, the last to
\* insert leaves the table right or is recorded as having left it stale.
THEOREM RoomMatches == Spec => []RoomMatchesList
<1>1. Init => MatchInv
  BY DEF Init, MatchInv, Range
<1>2. TypeInv /\ TypeInv' /\ MigrateInv /\ MatchInv /\ [Next]_vars => MatchInv'
  BY MatchStep
<1>3. MatchInv => RoomMatchesList
  BY DEF MatchInv, Matched, RoomMatchesList
<1>. QED BY <1>1, <1>2, <1>3, TypeInvHolds, MigrateInvHolds, PTL DEF Spec
=============================================================================
