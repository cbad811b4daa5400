--------------------------- MODULE CbpfArrayProofs ---------------------------
(* The array maps and the guest, for any number of maps, any sizes, addresses *)
(* and entries: what a lookup hands out is the value and nothing else, to all *)
(* entries or to none, and no failure and no end leaves anything.             *)
EXTENDS CbpfArrayGuest, TLAPS

Granules == {1, 2, 4, 8, 16, 32}

\* The granule of a length is the least that serves it.
LEMMA GranuleFacts ==
    ASSUME NEW v \in Nat, v < MANTISSA * 32
    PROVE  /\ Granule(v) \in Granules /\ v < MANTISSA * Granule(v)
           /\ \A h \in Granules : v < MANTISSA * h => Granule(v) <= h
<1> DEFINE Least(g) ==
      /\ v < MANTISSA * g
      /\ \A h \in Granules : v < MANTISSA * h => g <= h
<1>1. MANTISSA \in Nat
  BY MemoryAssumption
<1>2. \E g \in Granules : Least(g)
  BY <1>1 DEF Granules
<1>3. Granule(v) = CHOOSE g \in Granules : Least(g)
  BY DEF Granule, Granules
<1> HIDE DEF Least
<1>4. Granule(v) \in Granules /\ Least(Granule(v))
  BY <1>2, <1>3
<1> QED
  BY <1>4 DEF Least

\* A longer piece of memory is at least as well aligned as a shorter one.
LEMMA GranuleDivides ==
    ASSUME NEW v \in Nat, NEW s \in Nat, v <= s, s < MANTISSA * 32
    PROVE  Granule(s) % Granule(v) = 0
<1>1. MANTISSA \in Nat
  BY MemoryAssumption
<1>2. /\ Granule(v) \in Granules /\ Granule(s) \in Granules
      /\ Granule(v) <= Granule(s)
  <2>1. v < MANTISSA * 32
    BY <1>1
  <2>2. Granule(s) \in Granules /\ s < MANTISSA * Granule(s)
    BY GranuleFacts
  <2>3. v < MANTISSA * Granule(s)
    BY <1>1, <2>2 DEF Granules
  <2> QED BY <2>1, <2>2, <2>3, GranuleFacts
<1> QED
  BY <1>2 DEF Granules

\* Being a multiple of a granule passes to every smaller one.
LEMMA GranuleMultiple ==
    ASSUME NEW g \in Granules, NEW h \in Granules, h % g = 0,
           NEW x \in Int, x % h = 0
    PROVE  x % g = 0
BY DEF Granules

\* Multiples of a granule, times anything.
LEMMA GranuleProduct ==
    ASSUME NEW g \in Granules, NEW x \in Int, x % g = 0, NEW k \in Int
    PROVE  (x * k) % g = 0
<1>1. PICK q \in Int : x = g * q
  <2>1. x = g * (x \div g)
    BY DEF Granules
  <2>2. x \div g \in Int
    BY DEF Granules
  <2> QED BY <2>1, <2>2
<1>2. x * k = g * (q * k)
  BY <1>1 DEF Granules
<1>3. ASSUME NEW z \in Int PROVE (g * z) % g = 0
  BY DEF Granules
<1> QED
  BY <1>2, <1>3

\* A sum with a multiple is one exactly if the other term is.
LEMMA GranuleSum ==
    ASSUME NEW g \in Granules, NEW x \in Int, NEW y \in Int, x % g = 0
    PROVE  (x + y) % g = 0 <=> y % g = 0
BY DEF Granules

\* The stride holds the value, in whole words.
LEMMA ElemSizeFacts ==
    ASSUME NEW v \in Nat
    PROVE  /\ ElemSize(v) \in Nat /\ v <= ElemSize(v)
           /\ ElemSize(v) % 8 = 0 /\ (v % 8 = 0 => ElemSize(v) = v)
BY DEF ElemSize

\* What is a multiple of a granule has a stride that is one.
LEMMA StrideMultiple ==
    ASSUME NEW v \in Nat, NEW g \in Granules, v % g = 0
    PROVE  ElemSize(v) % g = 0
<1>1. ElemSize(v) \in Nat /\ ElemSize(v) % 8 = 0 /\ (v % 8 = 0 => ElemSize(v) = v)
  BY ElemSizeFacts
<1>2. CASE g \in {1, 2, 4, 8}
  BY <1>1, <1>2
<1>3. CASE g \in {16, 32}
  BY <1>1, <1>3
<1> QED
  BY <1>2, <1>3 DEF Granules

\* An entry ends before the next begins, and the last within the map.
LEMMA EntriesApart ==
    ASSUME NEW s \in Nat, NEW i \in Nat, NEW k \in Nat, i < k
    PROVE  s * i \in Nat /\ s * k \in Nat /\ s * i + s <= s * k
<1>1. PICK d \in Nat : k = i + 1 + d
  <2>1. k - i - 1 \in Nat /\ k = i + 1 + (k - i - 1)
    OBVIOUS
  <2> QED BY <2>1
<1>2. s * d \in Nat /\ s * i \in Nat /\ s * k \in Nat
  OBVIOUS
<1>3. s * k = s * i + s + s * d
  BY <1>1
<1> QED
  BY <1>2, <1>3

\* Where an entry lies in memory at b: the size of a map is its fields and one
\* stride an entry.
LEMMA EntryFacts ==
    ASSUME NEW a \in Attr
    PROVE  /\ a.value_size \in Nat \ {0} /\ a.max_entries \in Nat \ {0}
           /\ a.plain \in BOOLEAN /\ a.special \in BOOLEAN
           /\ HEADER \in Nat /\ ElemSize(a.value_size) \in Nat
           /\ a.value_size <= ElemSize(a.value_size)
           /\ ElemSize(a.value_size) * a.max_entries \in Nat
           /\ Size(a) = HEADER + ElemSize(a.value_size) * a.max_entries
           /\ Size(a) < MANTISSA * 32 /\ a.value_size <= Size(a)
<1>1. /\ a.value_size \in Nat \ {0} /\ a.max_entries \in Nat \ {0}
      /\ a.plain \in BOOLEAN /\ a.special \in BOOLEAN
      /\ HEADER \in Nat
  BY MemoryAssumption
<1>2. /\ ElemSize(a.value_size) \in Nat /\ a.value_size <= ElemSize(a.value_size)
  BY <1>1, ElemSizeFacts
<1>3. Size(a) < MANTISSA * 32
  BY GranuleAssumption
<1> DEFINE s == ElemSize(a.value_size)
<1>4. /\ s * a.max_entries \in Nat /\ s * 0 + s <= s * a.max_entries
  <2> HIDE DEF s
  <2>1. s \in Nat
    BY <1>2 DEF s
  <2> QED BY <1>1, <2>1, EntriesApart
<1>5. Size(a) = HEADER + s * a.max_entries
  <2> HIDE DEF s
  <2>1. Size(a) = HEADER + a.max_entries * s
    BY DEF Size, s
  <2>2. s \in Nat
    BY <1>2 DEF s
  <2> QED BY <1>1, <2>1, <2>2
<1>6. a.value_size <= Size(a)
  <2> HIDE DEF s
  <2>1. s \in Nat /\ a.value_size <= s
    BY <1>2 DEF s
  <2>2. s * 0 = 0
    BY <2>1
  <2> QED BY <1>1, <1>4, <1>5, <2>1, <2>2
<1> QED
  BY <1>1, <1>2, <1>3, <1>4, <1>5, <1>6

\* An entry is past the map's fields and inside its memory.
LEMMA EntryWithin ==
    ASSUME NEW a \in Attr, NEW b \in Int, NEW i \in Nat, i < a.max_entries,
           NEW at \in Int, at = b + HEADER + ElemSize(a.value_size) * i
    PROVE  /\ Bytes(at, a.value_size) \subseteq Bytes(b + HEADER, Size(a) - HEADER)
           /\ Bytes(at, a.value_size) \subseteq Bytes(b, Size(a))
<1> DEFINE s == ElemSize(a.value_size)
<1>1. /\ a.value_size \in Nat /\ a.max_entries \in Nat /\ HEADER \in Nat
      /\ s \in Nat /\ a.value_size <= s /\ s * a.max_entries \in Nat
      /\ Size(a) = HEADER + s * a.max_entries
  BY EntryFacts
<1> HIDE DEF s
<1>2. s * i \in Nat /\ s * i + s <= s * a.max_entries
  BY <1>1, EntriesApart
<1>3. at = b + HEADER + s * i
  BY DEF s
<1> DEFINE p == s * i
           q == s * a.max_entries
<1>4. /\ p \in Nat /\ q \in Nat /\ p + s <= q
      /\ at = b + HEADER + p /\ Size(a) = HEADER + q
  BY <1>1, <1>2, <1>3
<1> HIDE DEF p, q
<1> QED
  BY <1>1, <1>4 DEF Bytes

\* In a map that has exact bounds an entry has them exactly if its length does:
\* its place never costs it its capability.
LEMMA EntryAligned ==
    ASSUME NEW a \in Attr, NEW b \in Int, NEW i \in Nat,
           NEW at \in Int, at = b + HEADER + ElemSize(a.value_size) * i,
           Exact(b, Size(a)).tag
    PROVE  Exact(at, a.value_size).tag <=> a.value_size % Granule(a.value_size) = 0
<1> DEFINE v == a.value_size
           s == ElemSize(v)
           g == Granule(v)
<1>1. /\ v \in Nat /\ HEADER \in Nat /\ s \in Nat /\ a.max_entries \in Nat
      /\ Size(a) = HEADER + s * a.max_entries /\ s * a.max_entries \in Nat
      /\ Size(a) < MANTISSA * 32 /\ v <= Size(a) /\ Size(a) \in Nat
  BY EntryFacts
<1>2. g \in Granules /\ Granule(Size(a)) \in Granules /\ Granule(Size(a)) % g = 0
  <2>1. v < MANTISSA * 32
    BY <1>1, MemoryAssumption
  <2> QED BY <1>1, <2>1, GranuleFacts, GranuleDivides
<1>3. b % Granule(Size(a)) = 0 /\ Size(a) % Granule(Size(a)) = 0
  BY DEF Exact
<1>4. b % g = 0 /\ Size(a) % g = 0
  BY <1>1, <1>2, <1>3, GranuleMultiple
<1>5. Exact(at, v).tag <=> at % g = 0 /\ v % g = 0
  BY DEF Exact
<1> SUFFICES ASSUME v % g = 0 PROVE at % g = 0
  BY <1>5
<1>6. s % g = 0
  BY <1>1, <1>2, StrideMultiple
<1> HIDE DEF v, s, g
<1> DEFINE p == s * i
           q == s * a.max_entries
<1>7. p % g = 0 /\ q % g = 0
  <2>1. s \in Int /\ i \in Int /\ a.max_entries \in Int
    BY <1>1
  <2> QED BY <1>2, <1>6, <2>1, GranuleProduct
<1>8. p \in Int /\ q \in Int /\ Size(a) = q + HEADER /\ HEADER \in Int
  BY <1>1
<1>9. at = b + (HEADER + p)
  <2>1. at = b + HEADER + p
    BY DEF s, v
  <2> QED BY <1>8, <2>1
<1> HIDE DEF p, q
<1>10. HEADER % g = 0
  BY <1>2, <1>4, <1>7, <1>8, GranuleSum
<1>11. (HEADER + p) % g = 0 /\ HEADER + p \in Int
  BY <1>2, <1>7, <1>8, <1>10, GranuleSum
<1> QED
  BY <1>2, <1>4, <1>9, <1>11, GranuleSum

\* The capability of a whole map, and of the value an index finds.
RootCap(m) == [tag |-> TRUE, base |-> area[m], length |-> Size(attr[m])]
Value(m, i) ==
    [tag |-> TRUE, base |-> ValueAddress(m, i), length |-> attr[m].value_size]

\* What a map has at each place of array_map_alloc and array_map_free.
MapInv(m) ==
    /\ stage[m] \in {"none", "root", "record", "live", "free"}
    /\ record[m].record \in BOOLEAN
    /\ "tag" \in DOMAIN root[m]
    /\ record[m].record => "tag" \in DOMAIN record[m].root
    /\ stage[m] = "none" => area[m] = NoArea
    /\ stage[m] \in {"root", "record", "live"} => area[m] # NoArea
    /\ stage[m] \in {"none", "root", "record"} => ~record[m].record
    /\ stage[m] \in {"root", "record"} => attr[m].plain
    /\ stage[m] = "live" => record[m].record = attr[m].plain
    /\ stage[m] = "free" /\ record[m].record => ~record[m].root.tag

\* What the root made for a map, and then its record, is worth.
CapInv(m) ==
    /\ stage[m] = "record" => root[m] = RootCap(m)
    /\ stage[m] = "live" /\ attr[m].plain => record[m].root = RootCap(m)
    /\ stage[m] = "record" \/ (stage[m] = "live" /\ attr[m].plain) =>
          Exact(area[m], Size(attr[m])).tag

TypeInv ==
    /\ attr \in [Slot -> Attr] /\ area \in [Slot -> Base \cup {NoArea}]
    /\ DOMAIN stage = Slot /\ DOMAIN root = Slot /\ DOMAIN record = Slot

\* The memory of two maps never overlaps.
AreasApart ==
    \A m, n \in Slot :
        m # n /\ area[m] # NoArea /\ area[n] # NoArea =>
            Bytes(area[m], Size(attr[m])) \cap Bytes(area[n], Size(attr[n])) = {}

\* What programs hold and what the last lookup said is so of the maps now.
HandedInv ==
    /\ \A m \in used : m \in Slot /\ stage[m] = "live"
    /\ \A h \in handed : \E m \in used, i \in Nat :
          /\ i < attr[m].max_entries
          /\ h = [map |-> m, index |-> i, cap |-> Value(m, i)]

AnswerInv ==
    /\ answer.map \in Slot => stage[answer.map] = "live" /\ answer.index \in Index
    /\ \A m \in Slot, i \in Index :
          answer.map = m /\ answer.index = i => answer.cap = ValueCap(m, i)

Shape == TypeInv /\ freed = {} /\ \A m \in Slot : MapInv(m)

IInv ==
    /\ Shape /\ \A m \in Slot : CapInv(m)
    /\ AreasApart /\ HandedInv /\ AnswerInv

\* Every cell of the invariant but that of the map which takes the step.
Others(m) ==
    \A n \in Slot \ {m} :
        /\ stage'[n] = stage[n] /\ attr'[n] = attr[n]
        /\ area'[n] = area[n] /\ root'[n] = root[n] /\ record'[n] = record[n]

\* A step leaves the other maps alone, so it only has to keep its own map's part.
LEMMA OneMapKeeps ==
    ASSUME Shape, NEW m \in Slot, TypeInv', Others(m), MapInv(m)', freed' = {}
    PROVE  Shape'
<1>1. ASSUME NEW n \in Slot PROVE MapInv(n)'
  <2>1. CASE n = m
    BY <2>1
  <2>2. CASE n # m
    BY <2>2 DEF Shape, Others, MapInv
  <2> QED BY <2>1, <2>2
<1> QED
  BY <1>1 DEF Shape

\* Before the first map.
LEMMA ShapeInit == Init => Shape
<1> SUFFICES ASSUME Init PROVE Shape
  OBVIOUS
<1>1. TypeInv
  BY DEF Init, TypeInv
<1>2. ASSUME NEW m \in Slot PROVE MapInv(m)
  BY DEF Init, MapInv, NoRecord, NullCap
<1> QED
  BY <1>1, <1>2 DEF Init, Shape

\* array_map_alloc: the memory, then the root, then its record.
LEMMA AllocKeeps ==
    ASSUME Shape, NEW m \in Slot, AllocArea(m) \/ MakeRoot(m)
    PROVE  Shape'
<1>1. CASE AllocArea(m)
  <2>1. PICK a \in Attr, base \in Base :
            /\ attr' = [attr EXCEPT ![m] = a] /\ area' = [area EXCEPT ![m] = base]
            /\ stage' = [stage EXCEPT ![m] = IF a.plain THEN "root" ELSE "live"]
    BY <1>1 DEF AllocArea
  <2>2. stage[m] = "none" /\ UNCHANGED <<root, record>> /\ freed' = freed
    BY <1>1 DEF AllocArea
  <2>3. TypeInv' /\ Others(m)
    BY <2>1, <2>2 DEF Shape, TypeInv, Others
  <2>4. base # NoArea /\ a.plain \in BOOLEAN
    BY MemoryAssumption DEF NoArea
  <2>5. record[m].record = FALSE /\ "tag" \in DOMAIN root[m]
    BY <2>2 DEF Shape, MapInv
  <2>6. attr'[m] = a /\ area'[m] = base /\ stage'[m] = IF a.plain THEN "root" ELSE "live"
    BY <2>1 DEF Shape, TypeInv
  <2>7. MapInv(m)'
    <3>1. CASE a.plain
      BY <3>1, <2>2, <2>4, <2>5, <2>6 DEF MapInv
    <3>2. CASE ~a.plain
      BY <3>2, <2>2, <2>4, <2>5, <2>6 DEF MapInv
    <3> QED BY <3>1, <3>2
  <2> QED BY <2>2, <2>3, <2>7, OneMapKeeps DEF Shape
<1>2. CASE MakeRoot(m)
  <2>1. stage[m] = "root" /\ UNCHANGED <<attr, record, freed>>
    BY <1>2 DEF MakeRoot
  <2>2. \/ /\ stage' = [stage EXCEPT ![m] = "record"] /\ area' = area
           /\ root' = [root EXCEPT ![m] = Exact(area[m], Size(attr[m]))]
        \/ /\ stage' = [stage EXCEPT ![m] = "none"]
           /\ area' = [area EXCEPT ![m] = NoArea] /\ root' = root
    BY <1>2 DEF MakeRoot
  <2>3. "tag" \in DOMAIN Exact(area[m], Size(attr[m]))
    BY DEF Exact
  <2>4. TypeInv' /\ Others(m) /\ MapInv(m)'
    BY <2>1, <2>2, <2>3 DEF Shape, TypeInv, Others, MapInv
  <2> QED BY <2>1, <2>4, OneMapKeeps DEF Shape
<1> QED
  BY <1>1, <1>2

\* The record holds the root, or there is none and the memory goes back.
LEMMA RecordKeeps ==
    ASSUME Shape, NEW m \in Slot, KeepRoot(m) \/ NoMemoryForRecord(m)
    PROVE  Shape'
<1>1. /\ stage[m] = "record" /\ UNCHANGED <<attr, freed>>
      /\ attr[m].plain \in BOOLEAN /\ attr[m].plain
  BY MemoryAssumption DEF KeepRoot, NoMemoryForRecord, Shape, TypeInv, MapInv
<1>2. CASE KeepRoot(m)
  <2>1. /\ record' = [record EXCEPT ![m] = Record(root[m])]
        /\ stage' = [stage EXCEPT ![m] = "live"] /\ area' = area
        /\ root' = [root EXCEPT ![m] = NullCap]
    BY <1>2 DEF KeepRoot
  <2>2. TypeInv' /\ Others(m)
    BY <1>1, <2>1 DEF Shape, TypeInv, Others
  <2>3. /\ record'[m].record = TRUE /\ "tag" \in DOMAIN record'[m].root
        /\ stage'[m] = "live" /\ area[m] # NoArea /\ root'[m] = NullCap
    BY <1>1, <2>1 DEF Shape, TypeInv, MapInv, Record
  <2>4. MapInv(m)'
    BY <1>1, <2>1, <2>3 DEF MapInv, NullCap
  <2> QED BY <1>1, <2>2, <2>4, OneMapKeeps DEF Shape
<1>3. CASE NoMemoryForRecord(m)
  <2>1. /\ area' = [area EXCEPT ![m] = NoArea] /\ record' = record
        /\ stage' = [stage EXCEPT ![m] = "none"]
        /\ root' = [root EXCEPT ![m] = NullCap]
    BY <1>3 DEF NoMemoryForRecord, AreaWithoutRecord
  <2>2. TypeInv' /\ Others(m) /\ MapInv(m)'
    BY <1>1, <2>1 DEF Shape, TypeInv, Others, MapInv, NullCap
  <2> QED BY <1>1, <2>2, OneMapKeeps DEF Shape
<1> QED
  BY <1>2, <1>3

\* array_map_free: the tag is cleared before the record's memory is given back.
LEMMA FreeKeeps ==
    ASSUME Shape, NEW m \in Slot, FreeMap(m) \/ FreeRecord(m) \/ FreeArea(m)
    PROVE  Shape'
<1>1. CASE FreeMap(m)
  <2>1. /\ stage' = [stage EXCEPT ![m] = "free"] /\ UNCHANGED <<attr, area, root, freed>>
        /\ record' = IF record[m].record
                     THEN [record EXCEPT ![m] = Record(Cleared(record[m].root))]
                     ELSE record
    BY <1>1 DEF FreeMap
  <2>2. TypeInv' /\ Others(m)
    BY <2>1 DEF Shape, TypeInv, Others
  <2>3. /\ stage'[m] = "free" /\ record'[m].record \in BOOLEAN
        /\ record'[m].record => ~record'[m].root.tag /\ "tag" \in DOMAIN record'[m].root
    <3>1. CASE record[m].record
      <4>1. record'[m] = Record(Cleared(record[m].root))
        BY <3>1, <2>1 DEF Shape, TypeInv
      <4>2. "tag" \in DOMAIN record[m].root
        BY <3>1 DEF Shape, MapInv
      <4>3. Cleared(record[m].root).tag = FALSE /\ "tag" \in DOMAIN Cleared(record[m].root)
        BY <4>2 DEF Cleared
      <4> QED BY <4>1, <4>3, <2>1 DEF Shape, TypeInv, Record
    <3>2. CASE ~record[m].record
      BY <3>2, <2>1 DEF Shape, TypeInv, MapInv
    <3> QED BY <3>1, <3>2
  <2>4. MapInv(m)'
    BY <2>1, <2>3 DEF Shape, MapInv
  <2> QED BY <2>1, <2>2, <2>4, OneMapKeeps DEF Shape
<1>2. CASE FreeRecord(m)
  <2>1. /\ stage[m] = "free" /\ record[m].record /\ UNCHANGED <<stage, attr, area, root>>
        /\ freed' = IF record[m].root.tag THEN freed \cup {record[m].root} ELSE freed
        /\ record' = [record EXCEPT ![m] = NoRecord]
    BY <1>2 DEF FreeRecord
  <2>2. ~record[m].root.tag
    BY <2>1 DEF Shape, MapInv
  <2>3. TypeInv' /\ Others(m) /\ MapInv(m)'
    BY <2>1 DEF Shape, TypeInv, Others, MapInv, NoRecord
  <2> QED BY <2>1, <2>2, <2>3, OneMapKeeps DEF Shape
<1>3. CASE FreeArea(m)
  <2>1. /\ ~record[m].record /\ UNCHANGED <<attr, root, record, freed>>
        /\ area' = [area EXCEPT ![m] = NoArea]
        /\ stage' = [stage EXCEPT ![m] = "none"]
    BY <1>3 DEF FreeArea
  <2>2. TypeInv' /\ Others(m) /\ MapInv(m)'
    BY <2>1 DEF Shape, TypeInv, Others, MapInv
  <2> QED BY <2>1, <2>2, OneMapKeeps DEF Shape
<1> QED
  BY <1>1, <1>2, <1>3

\* The capability of the map that takes a step is its root's or its record's.
LEMMA CapsKeep ==
    ASSUME IInv, Shape', NEW m \in Slot, Others(m),
           AllocArea(m) \/ MakeRoot(m) \/ KeepRoot(m) \/ NoMemoryForRecord(m)
              \/ FreeMap(m) \/ FreeRecord(m) \/ FreeArea(m)
    PROVE  \A k \in Slot : CapInv(k)'
<1>1. ASSUME NEW k \in Slot \ {m} PROVE CapInv(k)'
  BY <1>1 DEF IInv, CapInv, RootCap, Others
<1>2. CapInv(m)'
  <2>1. CASE AllocArea(m)
    <3>1. PICK a \in Attr :
              /\ attr' = [attr EXCEPT ![m] = a]
              /\ stage' = [stage EXCEPT ![m] = IF a.plain THEN "root" ELSE "live"]
      BY <2>1 DEF AllocArea
    <3>2. attr'[m] = a /\ stage'[m] = IF a.plain THEN "root" ELSE "live"
      BY <3>1 DEF IInv, Shape, TypeInv
    <3> QED BY <3>2 DEF CapInv
  <2>2. CASE MakeRoot(m)
    <3> DEFINE cap == Exact(area[m], Size(attr[m]))
    <3>1. attr' = attr
      BY <2>2 DEF MakeRoot
    <3>2. CASE cap.tag
      <4>1. root' = [root EXCEPT ![m] = cap] /\ area' = area
            /\ stage' = [stage EXCEPT ![m] = "record"]
        BY <2>2, <3>2 DEF MakeRoot
      <4>2. cap = RootCap(m)
        BY <3>2 DEF Exact, RootCap
      <4>3. root'[m] = cap /\ stage'[m] = "record"
        BY <4>1 DEF IInv, Shape, TypeInv
      <4> HIDE DEF cap
      <4>4. RootCap(m)' = RootCap(m)
        BY <3>1, <4>1 DEF RootCap
      <4>5. Exact(area[m], Size(attr[m])).tag'
        BY <3>1, <3>2, <4>1 DEF cap
      <4> QED BY <4>2, <4>3, <4>4, <4>5 DEF CapInv
    <3>3. CASE ~cap.tag
      <4>1. stage' = [stage EXCEPT ![m] = "none"]
        BY <2>2, <3>3 DEF MakeRoot
      <4> QED BY <4>1 DEF IInv, Shape, TypeInv, CapInv
    <3> QED BY <3>2, <3>3
  <2>3. CASE KeepRoot(m)
    <3>1. /\ stage[m] = "record" /\ UNCHANGED <<attr, area>>
          /\ record' = [record EXCEPT ![m] = Record(root[m])]
          /\ stage' = [stage EXCEPT ![m] = "live"]
      BY <2>3 DEF KeepRoot
    <3>2. record'[m].root = root[m] /\ stage'[m] = "live"
      BY <3>1 DEF IInv, Shape, TypeInv, Record
    <3>3. root[m] = RootCap(m) /\ Exact(area[m], Size(attr[m])).tag
      BY <3>1 DEF IInv, CapInv
    <3> QED BY <3>1, <3>2, <3>3 DEF CapInv, RootCap
  <2>4. CASE NoMemoryForRecord(m) \/ FreeMap(m) \/ FreeRecord(m) \/ FreeArea(m)
    <3>1. stage'[m] \in {"none", "free"}
      BY <2>4 DEF NoMemoryForRecord, FreeMap, FreeRecord, FreeArea, IInv, Shape, TypeInv
    <3> QED BY <3>1 DEF CapInv
  <2> QED BY <2>1, <2>2, <2>3, <2>4
<1> QED
  BY <1>1, <1>2

\* New memory is apart from all that is there; otherwise memory only goes.
LEMMA AreasKeep ==
    ASSUME IInv, NEW m \in Slot,
           AllocArea(m) \/ MakeRoot(m) \/ KeepRoot(m) \/ NoMemoryForRecord(m)
              \/ FreeMap(m) \/ FreeRecord(m) \/ FreeArea(m)
    PROVE  AreasApart'
<1>1. CASE AllocArea(m)
  <2>1. PICK a \in Attr, base \in Base :
            /\ Fits(m, base, a)
            /\ attr' = [attr EXCEPT ![m] = a] /\ area' = [area EXCEPT ![m] = base]
    BY <1>1 DEF AllocArea
  <2>2. attr'[m] = a /\ area'[m] = base
    BY <2>1 DEF IInv, Shape, TypeInv
  <2>3. \A n \in Slot \ {m} : attr'[n] = attr[n] /\ area'[n] = area[n]
    BY <2>1 DEF IInv, Shape, TypeInv
  <2>4. ASSUME NEW k \in Slot, NEW n \in Slot, k # n, area'[k] # NoArea, area'[n] # NoArea
        PROVE  Bytes(area'[k], Size(attr'[k])) \cap Bytes(area'[n], Size(attr'[n])) = {}
    <3>1. CASE k # m /\ n # m
      BY <2>3, <2>4, <3>1 DEF IInv, AreasApart
    <3>2. CASE k = m
      BY <2>1, <2>2, <2>3, <2>4, <3>2 DEF Fits
    <3>3. CASE n = m
      BY <2>1, <2>2, <2>3, <2>4, <3>3 DEF Fits
    <3> QED BY <3>1, <3>2, <3>3
  <2> QED BY <2>4 DEF AreasApart
<1>2. ASSUME attr' = attr, area' = area \/ area' = [area EXCEPT ![m] = NoArea]
      PROVE  AreasApart'
  <2>1. \A n \in Slot : area'[n] \in {area[n], NoArea}
    BY <1>2 DEF IInv, Shape, TypeInv
  <2> QED BY <1>2, <2>1 DEF IInv, AreasApart
<1>3. CASE MakeRoot(m)
  BY <1>2, <1>3 DEF MakeRoot
<1>4. CASE NoMemoryForRecord(m)
  BY <1>2, <1>4 DEF NoMemoryForRecord, AreaWithoutRecord
<1>5. CASE KeepRoot(m) \/ FreeMap(m) \/ FreeRecord(m) \/ FreeArea(m)
  BY <1>2, <1>5 DEF KeepRoot, FreeMap, FreeRecord, FreeArea
<1> QED
  BY <1>1, <1>3, <1>4, <1>5

\* No answer says nothing.
LEMMA NoAnswer == ASSUME answer'.map = FALSE PROVE AnswerInv'
<1>1. FALSE \notin Slot
  BY MemoryAssumption
<1>2. answer'.map \notin Slot
  BY <1>1, Zenon
<1> QED
  BY <1>2, Zenon DEF AnswerInv

\* A map that makes or ends is not in use, and what is said of others stays so.
LEMMA AnswersKeep ==
    ASSUME IInv, NEW m \in Slot, Others(m),
           AllocArea(m) \/ MakeRoot(m) \/ KeepRoot(m) \/ NoMemoryForRecord(m)
              \/ FreeMap(m) \/ FreeRecord(m) \/ FreeArea(m)
    PROVE  HandedInv' /\ AnswerInv'
<1>1. m \notin used /\ used' = used /\ handed' = handed
  BY DEF AllocArea, MakeRoot, KeepRoot, NoMemoryForRecord, FreeMap, FreeRecord,
         FreeArea, Unused, IInv, HandedInv
<1>2. ASSUME NEW n \in Slot \ {m}, NEW i
      PROVE  Value(n, i)' = Value(n, i) /\ ValueCap(n, i)' = ValueCap(n, i)
  <2>1. attr'[n] = attr[n] /\ area'[n] = area[n] /\ record'[n] = record[n]
    BY <1>2 DEF Others
  <2>2. ValueAddress(n, i)' = ValueAddress(n, i) /\ (RootValid(n)' <=> RootValid(n))
    BY <2>1 DEF ValueAddress, RootValid
  <2>3. Value(n, i)' = Value(n, i)
    BY <2>1, <2>2 DEF Value
  <2>4. ValueCap(n, i)' = ValueCap(n, i)
    BY <2>1, <2>2, Zenon DEF ValueCap, Supported
  <2> QED BY <2>3, <2>4
<1>3. HandedInv'
  <2>1. ASSUME NEW n \in used PROVE n \in Slot \ {m} /\ stage'[n] = "live" /\ attr'[n] = attr[n]
    BY <1>1, <2>1 DEF IInv, HandedInv, Others
  <2>2. ASSUME NEW h \in handed
        PROVE  \E n \in used, i \in Nat :
                  /\ i < attr'[n].max_entries
                  /\ h = [map |-> n, index |-> i, cap |-> Value(n, i)']
    BY <1>2, <2>1, <2>2 DEF IInv, HandedInv
  <2> QED BY <1>1, <2>1, <2>2 DEF HandedInv
<1>4. ASSUME answer' = [map |-> FALSE] PROVE AnswerInv'
  <2>1. answer'.map = FALSE
    BY <1>4
  <2> QED BY <2>1, NoAnswer
<1>5. ASSUME answer' = answer, answer.map # m PROVE AnswerInv'
  <2>1. answer.map \in Slot => stage'[answer.map] = "live" /\ answer.index \in Index
    BY <1>5 DEF IInv, AnswerInv, Others
  <2>2. ASSUME NEW n \in Slot, NEW i \in Index, answer.map = n, answer.index = i
        PROVE  answer.cap = ValueCap(n, i)'
    <3>1. answer.cap = ValueCap(n, i)
      BY <2>2 DEF IInv, AnswerInv
    <3>2. n \in Slot \ {m}
      BY <1>5, <2>2
    <3> QED BY <1>2, <3>1, <3>2
  <2> QED BY <1>5, <2>1, <2>2 DEF AnswerInv
<1>6. answer' = answer /\ answer.map = m => answer' = [map |-> FALSE]
  <2>1. stage[m] = "live" \/ answer.map # m
    BY DEF IInv, AnswerInv
  <2>2. CASE FreeMap(m)
    BY <2>2 DEF FreeMap
  <2> QED BY <2>1, <2>2 DEF AllocArea, MakeRoot, KeepRoot, NoMemoryForRecord,
                            FreeRecord, FreeArea
<1>7. answer' = [map |-> FALSE] \/ answer' = answer
  BY DEF AllocArea, MakeRoot, KeepRoot, NoMemoryForRecord, FreeMap, FreeRecord,
         FreeArea, Unused
<1> QED
  BY <1>3, <1>4, <1>5, <1>6, <1>7

\* Where an entry is.
LEMMA AddressInt ==
    ASSUME NEW m \in Slot, attr[m] \in Attr, area[m] \in Nat, NEW i \in Nat
    PROVE  /\ ValueAddress(m, i) \in Int
           /\ ValueAddress(m, i) = area[m] + HEADER + ElemSize(attr[m].value_size) * i
<1> DEFINE s == ElemSize(attr[m].value_size)
<1>1. s \in Nat /\ HEADER \in Nat
  BY EntryFacts
<1>2. ValueAddress(m, i) = area[m] + HEADER + s * i
  BY DEF ValueAddress
<1> HIDE DEF s
<1>3. area[m] + HEADER + s * i \in Int
  BY <1>1
<1> QED
  BY <1>2, <1>3 DEF s

\* A lookup gives the value exactly if the map is plain, its values have no fields
\* of the kernel's, it has the entry, and the value's length has exact bounds.
LEMMA LookupGives ==
    ASSUME IInv, NEW m \in Slot, stage[m] = "live", NEW i \in Nat
    PROVE  /\ ValueCap(m, i).tag <=>
                  /\ attr[m].plain /\ ~attr[m].special /\ i < attr[m].max_entries
                  /\ attr[m].value_size % Granule(attr[m].value_size) = 0
           /\ ValueCap(m, i).tag => ValueCap(m, i) = Value(m, i)
<1> DEFINE a == attr[m]
           at == ValueAddress(m, i)
           cap == Exact(at, a.value_size)
<1>1. a \in Attr /\ area[m] \in Base /\ a.plain \in BOOLEAN /\ a.special \in BOOLEAN
  BY MemoryAssumption DEF IInv, Shape, TypeInv, MapInv, NoArea
<1>2. NullCap.tag = FALSE
  BY DEF NullCap
<1>3. CASE ~Supported(a) \/ ~(i < a.max_entries)
  <2>1. ValueCap(m, i) = NullCap
    BY <1>3 DEF ValueCap, InRange
  <2> QED BY <1>2, <1>3, <2>1 DEF Supported
<1>4. CASE Supported(a) /\ i < a.max_entries
  <2>1. /\ record[m].record /\ record[m].root = RootCap(m)
        /\ Exact(area[m], Size(a)).tag
    BY <1>4 DEF IInv, Shape, MapInv, CapInv, Supported
  <2>2. RootValid(m)
    BY <2>1 DEF RootValid, RootCap
  <2>3. /\ record[m].root.base = area[m] /\ record[m].root.length = Size(a)
        /\ cap.base = at /\ cap.length = a.value_size
    BY <2>1 DEF RootCap, Exact
  <2>4. /\ area[m] \in Int /\ at = area[m] + HEADER + ElemSize(a.value_size) * i
        /\ at \in Int
    <3>1. area[m] \in Nat
      BY <1>1, MemoryAssumption
    <3> QED BY <1>1, <3>1, AddressInt
  <2> HIDE DEF at, a
  <2>5. Bytes(at, a.value_size) \subseteq Bytes(area[m], Size(a))
    BY <1>1, <1>4, <2>4, EntryWithin
  <2>6. cap.tag <=> a.value_size % Granule(a.value_size) = 0
    BY <1>1, <2>1, <2>4, EntryAligned
  <2>7. Bytes(cap.base, cap.length)
            \subseteq Bytes(record[m].root.base, record[m].root.length)
    BY <2>3, <2>5, Zenon
  <2>8. ValueCap(m, i) = IF cap.tag THEN cap ELSE NullCap
    BY <1>4, <2>2, <2>7, Zenon DEF ValueCap, InRange, at, a
  <2>9. CASE cap.tag
    <3>1. cap = Value(m, i)
      BY <2>9 DEF Exact, Value, at, a
    <3> QED BY <1>4, <2>6, <2>8, <2>9, <3>1 DEF a, Supported
  <2>10. CASE ~cap.tag
    BY <1>2, <1>4, <2>6, <2>8, <2>10, Zenon DEF a, Supported
  <2> QED BY <2>9, <2>10
<1> QED
  BY <1>3, <1>4

\* An index is a number.
LEMMA IndexNat == Index \subseteq Nat
BY MemoryAssumption DEF Index

\* A program begins or ends, or is handed the value it asks for.
LEMMA UseKeeps ==
    ASSUME IInv, NEW m \in Slot, Run(m) \/ End(m) \/ \E i \in Index : Lookup(m, i)
    PROVE  IInv'
<1>1. UNCHANGED <<stage, attr, area, root, record, freed>>
  BY DEF Run, End, Lookup
<1>2. Shape' /\ (\A k \in Slot : CapInv(k)') /\ AreasApart'
  BY <1>1 DEF IInv, Shape, TypeInv, MapInv, CapInv, RootCap, AreasApart
<1>3. \A k, i : Value(k, i)' = Value(k, i) /\ ValueCap(k, i)' = ValueCap(k, i)
  BY <1>1 DEF Value, ValueCap, ValueAddress, RootValid, Supported
<1>4. ASSUME answer' = answer PROVE AnswerInv'
  BY <1>1, <1>3, <1>4 DEF IInv, AnswerInv
<1>5. CASE Run(m)
  <2>1. stage[m] = "live" /\ used' = used \cup {m} /\ handed' = handed /\ answer' = answer
    BY <1>5 DEF Run
  <2>2. HandedInv'
    BY <1>1, <1>3, <2>1 DEF IInv, HandedInv
  <2> QED BY <1>2, <1>4, <2>1, <2>2 DEF IInv
<1>6. CASE End(m)
  <2>1. /\ used' = used \ {m} /\ handed' = { h \in handed : h.map # m }
        /\ answer' = answer
    BY <1>6 DEF End
  <2>2. ASSUME NEW h \in handed'
        PROVE  \E k \in used', i \in Nat :
                  /\ i < attr'[k].max_entries
                  /\ h = [map |-> k, index |-> i, cap |-> Value(k, i)']
    <3>1. h \in handed /\ h.map # m
      BY <2>1
    <3>2. PICK k \in used, i \in Nat :
              /\ i < attr[k].max_entries
              /\ h = [map |-> k, index |-> i, cap |-> Value(k, i)]
      BY <3>1 DEF IInv, HandedInv
    <3>3. k \in used'
      BY <2>1, <3>1, <3>2
    <3> QED BY <1>1, <1>3, <3>2, <3>3
  <2>3. HandedInv'
    BY <1>1, <2>1, <2>2 DEF IInv, HandedInv
  <2> QED BY <1>2, <1>4, <2>1, <2>3 DEF IInv
<1>7. ASSUME NEW i \in Index, Lookup(m, i) PROVE IInv'
  <2>1. /\ m \in used /\ used' = used
        /\ answer' = [map |-> m, index |-> i, cap |-> ValueCap(m, i)]
        /\ handed' = IF ValueCap(m, i).tag
                     THEN handed \cup {[map |-> m, index |-> i, cap |-> ValueCap(m, i)]}
                     ELSE handed
    BY <1>7 DEF Lookup
  <2>2. i \in Nat /\ stage[m] = "live"
    BY <2>1, IndexNat DEF IInv, HandedInv
  <2>3. AnswerInv'
    BY <1>1, <1>3, <2>1, <2>2 DEF AnswerInv
  <2>4. ASSUME NEW h \in handed'
        PROVE  \E k \in used, j \in Nat :
                  /\ j < attr[k].max_entries
                  /\ h = [map |-> k, index |-> j, cap |-> Value(k, j)]
    <3>1. CASE h \in handed
      BY <3>1 DEF IInv, HandedInv
    <3>2. CASE h \notin handed
      <4>1. ValueCap(m, i).tag /\ h = [map |-> m, index |-> i, cap |-> ValueCap(m, i)]
        BY <2>1, <3>2
      <4>2. ValueCap(m, i) = Value(m, i) /\ i < attr[m].max_entries
        BY <2>2, <4>1, LookupGives
      <4> QED BY <2>1, <2>2, <4>1, <4>2
    <3> QED BY <3>1, <3>2
  <2>5. HandedInv'
    BY <1>1, <1>3, <2>1, <2>4 DEF IInv, HandedInv
  <2> QED BY <1>2, <2>3, <2>5 DEF IInv
<1> QED
  BY <1>5, <1>6, <1>7

\* Before the first map.
LEMMA ArrayInit == Init => IInv
<1> SUFFICES ASSUME Init PROVE IInv
  OBVIOUS
<1>1. Shape
  BY ShapeInit
<1>2. (\A m \in Slot : CapInv(m)) /\ AreasApart /\ HandedInv
  BY DEF Init, CapInv, AreasApart, HandedInv
<1>3. AnswerInv
  <2>1. answer.map = FALSE
    BY DEF Init
  <2>2. answer.map \notin Slot
    BY <2>1, MemoryAssumption, Zenon
  <2> QED BY <2>2, Zenon DEF AnswerInv
<1> QED
  BY <1>1, <1>2, <1>3 DEF IInv

\* No step of any map breaks it, nor an answer without a map.
LEMMA ArrayStep ==
    ASSUME IInv,
           \/ [Next]_vars
           \/ /\ UNCHANGED <<stage, attr, area, root, record, used, handed, freed>>
              /\ answer'.map = FALSE
    PROVE  IInv'
<1>1. ASSUME NEW m \in Slot,
             AllocArea(m) \/ MakeRoot(m) \/ KeepRoot(m) \/ NoMemoryForRecord(m)
                \/ FreeMap(m) \/ FreeRecord(m) \/ FreeArea(m)
      PROVE  IInv'
  <2>1. Shape'
    BY <1>1, AllocKeeps, RecordKeeps, FreeKeeps DEF IInv
  <2>2. Others(m)
    BY <1>1 DEF IInv, Shape, TypeInv, Others, AllocArea, MakeRoot, KeepRoot,
                NoMemoryForRecord, FreeMap, FreeRecord, FreeArea
  <2> QED BY <1>1, <2>1, <2>2, CapsKeep, AreasKeep, AnswersKeep DEF IInv
<1>2. ASSUME UNCHANGED <<stage, attr, area, root, record, used, handed, freed>>
      PROVE  /\ Shape' /\ (\A m \in Slot : CapInv(m)') /\ AreasApart' /\ HandedInv'
             /\ answer' = answer => AnswerInv'
  <2>1. Shape' /\ (\A m \in Slot : CapInv(m)') /\ AreasApart'
    BY <1>2 DEF IInv, Shape, TypeInv, MapInv, CapInv, RootCap, AreasApart
  <2>2. \A k, i : Value(k, i)' = Value(k, i) /\ ValueCap(k, i)' = ValueCap(k, i)
    BY <1>2 DEF Value, ValueCap, ValueAddress, RootValid, Supported
  <2>3. HandedInv'
    BY <1>2, <2>2 DEF IInv, HandedInv
  <2>4. answer' = answer => AnswerInv'
    BY <1>2, <2>2 DEF IInv, AnswerInv
  <2> QED BY <2>1, <2>3, <2>4
<1>3. CASE UNCHANGED vars
  BY <1>2, <1>3 DEF vars, IInv
<1>4. CASE /\ UNCHANGED <<stage, attr, area, root, record, used, handed, freed>>
           /\ answer'.map = FALSE
  BY <1>2, <1>4, NoAnswer DEF IInv
<1>5. CASE Next
  BY <1>1, <1>5, UseKeeps DEF Next
<1> QED
  BY <1>3, <1>4, <1>5

\* Two values that are handed out are one value or apart.
LEMMA HandedApart ==
    ASSUME IInv, NEW h \in handed, NEW k \in handed, h # k
    PROVE  Bytes(h.cap.base, h.cap.length) \cap Bytes(k.cap.base, k.cap.length) = {}
<1>1. PICK m \in used, i \in Nat :
          /\ i < attr[m].max_entries
          /\ h = [map |-> m, index |-> i, cap |-> Value(m, i)]
  BY DEF IInv, HandedInv
<1>2. PICK n \in used, j \in Nat :
          /\ j < attr[n].max_entries
          /\ k = [map |-> n, index |-> j, cap |-> Value(n, j)]
  BY DEF IInv, HandedInv
<1>3. /\ m \in Slot /\ stage[m] = "live" /\ area[m] # NoArea /\ area[m] \in Nat
      /\ n \in Slot /\ stage[n] = "live" /\ area[n] # NoArea /\ area[n] \in Nat
      /\ attr[m] \in Attr /\ attr[n] \in Attr
  BY MemoryAssumption, ZenonT(40) DEF IInv, HandedInv, Shape, TypeInv, MapInv, NoArea
<1> DEFINE v == attr[m].value_size
           s == ElemSize(v)
<1>4. /\ h.cap.base = ValueAddress(m, i) /\ h.cap.length = v
      /\ k.cap.base = ValueAddress(n, j) /\ k.cap.length = attr[n].value_size
  BY <1>1, <1>2 DEF Value
<1>5. CASE m = n
  <2>1. i # j
    BY <1>1, <1>2, <1>5
  <2>2. v \in Nat /\ s \in Nat /\ v <= s /\ HEADER \in Nat
    BY <1>3, EntryFacts
  <2>3. /\ ValueAddress(m, i) = area[m] + HEADER + s * i
        /\ ValueAddress(n, j) = area[m] + HEADER + s * j
    BY <1>5 DEF ValueAddress
  <2> DEFINE p == s * i
             q == s * j
  <2> HIDE DEF v, s
  <2>4. /\ p \in Nat /\ q \in Nat /\ (i < j => p + s <= q) /\ (j < i => q + s <= p)
    BY <2>2, EntriesApart
  <2>5. p + s <= q \/ q + s <= p
    BY <2>1, <2>4
  <2> HIDE DEF p, q
  <2>6. /\ h.cap.base = area[m] + HEADER + p /\ h.cap.length = v
        /\ k.cap.base = area[m] + HEADER + q /\ k.cap.length = v
    BY <1>4, <1>5, <2>3 DEF p, q, v
  <2> QED BY <1>3, <2>2, <2>4, <2>5, <2>6 DEF Bytes
<1>6. CASE m # n
  <2>1. ASSUME NEW t \in Slot, NEW x \in Nat, x < attr[t].max_entries,
               attr[t] \in Attr, area[t] \in Nat
        PROVE  Bytes(ValueAddress(t, x), attr[t].value_size)
                   \subseteq Bytes(area[t], Size(attr[t]))
    <3>1. ValueAddress(t, x) \in Int
          /\ ValueAddress(t, x) = area[t] + HEADER + ElemSize(attr[t].value_size) * x
      BY <2>1, AddressInt
    <3>2. area[t] \in Int
      BY <2>1
    <3> QED BY <2>1, <3>1, <3>2, EntryWithin
  <2>2. Bytes(area[m], Size(attr[m])) \cap Bytes(area[n], Size(attr[n])) = {}
    BY <1>3, <1>6 DEF IInv, AreasApart
  <2>3. /\ Bytes(h.cap.base, h.cap.length) \subseteq Bytes(area[m], Size(attr[m]))
        /\ Bytes(k.cap.base, k.cap.length) \subseteq Bytes(area[n], Size(attr[n]))
    BY <1>1, <1>2, <1>3, <1>4, <2>1
  <2> QED BY <2>2, <2>3
<1> QED
  BY <1>5, <1>6

\* The invariant says of everything handed out that it is a value.
LEMMA InvImpliesExactly == IInv => ValueExactly
<1> SUFFICES ASSUME IInv, NEW h \in handed
             PROVE  /\ stage[h.map] = "live"
                    /\ h.cap.base = area[h.map] + HEADER
                            + h.index * 8 * ((attr[h.map].value_size + 7) \div 8)
                    /\ h.cap.length = attr[h.map].value_size
                    /\ Bytes(h.cap.base, h.cap.length)
                           \subseteq Bytes(area[h.map] + HEADER, Size(attr[h.map]) - HEADER)
  BY HandedApart DEF ValueExactly
<1>1. PICK m \in used, i \in Nat :
          /\ i < attr[m].max_entries
          /\ h = [map |-> m, index |-> i, cap |-> Value(m, i)]
  BY DEF IInv, HandedInv
<1>2. /\ h.map = m /\ h.index = i /\ h.cap.base = ValueAddress(m, i)
      /\ h.cap.length = attr[m].value_size
  BY <1>1 DEF Value
<1>3. m \in Slot /\ stage[m] = "live" /\ area[m] \in Nat /\ attr[m] \in Attr
  BY MemoryAssumption DEF IInv, HandedInv, Shape, TypeInv, MapInv, NoArea
<1>4. /\ ValueAddress(m, i) \in Int
      /\ ValueAddress(m, i) = area[m] + HEADER + ElemSize(attr[m].value_size) * i
  BY <1>3, AddressInt
<1>5. ValueAddress(m, i) = area[m] + HEADER + i * 8 * ((attr[m].value_size + 7) \div 8)
  <2> DEFINE w == (attr[m].value_size + 7) \div 8
  <2>1. w \in Int /\ ElemSize(attr[m].value_size) = 8 * w
    BY <1>3, EntryFacts DEF ElemSize
  <2> HIDE DEF w
  <2>2. 8 * w * i = i * 8 * w
    BY <2>1
  <2> QED BY <1>4, <2>1, <2>2 DEF w
<1>6. Bytes(ValueAddress(m, i), attr[m].value_size)
          \subseteq Bytes(area[m] + HEADER, Size(attr[m]) - HEADER)
  <2>1. area[m] \in Int
    BY <1>3
  <2> QED BY <1>1, <1>3, <1>4, <2>1, EntryWithin
<1> QED
  BY <1>2, <1>3, <1>5, <1>6

\* The invariant says of an answer which of the two it is.
LEMMA InvImpliesAllOrNone == IInv => AllOrNone
<1> SUFFICES ASSUME IInv, NEW m \in Slot, answer.map = m
             PROVE  answer.cap.tag <=>
                      /\ attr[m].plain /\ ~attr[m].special /\ answer.index < attr[m].max_entries
                      /\ attr[m].value_size % Granule(attr[m].value_size) = 0
  BY DEF AllOrNone
<1>1. stage[m] = "live" /\ answer.index \in Index /\ answer.cap = ValueCap(m, answer.index)
  BY DEF IInv, AnswerInv
<1>2. answer.index \in Nat
  BY <1>1, IndexNat
<1> QED
  BY <1>1, <1>2, LookupGives

\* What a lookup hands out is the value and nothing else, and values never
\* overlap, for any maps, sizes and addresses (array-authority.patch:217-226).
THEOREM ArrayValueExactly == Spec => []ValueExactly
BY ArrayInit, ArrayStep, InvImpliesExactly, PTL DEF Spec

\* All entries of a map of plain data can be used, or none: where a value lies
\* never matters; and of any other map none can, though a plain array whose
\* values have fields of the kernel's has a root and a record
\* (array-authority.patch:198-200, 213-226).
THEOREM ArrayAllOrNone == Spec => []AllOrNone
BY ArrayInit, ArrayStep, InvImpliesAllOrNone, PTL DEF Spec

\* Whichever step of making a map fails, and however maps end, neither memory
\* nor a record stays, and memory given back holds no capability
\* (array-authority.patch:266-271, 289, 348-350).
THEOREM ArrayNothingLeft == Spec => []NothingLeft
<1>1. IInv => NothingLeft
  BY DEF IInv, Shape, MapInv, NothingLeft
<1> QED
  BY <1>1, ArrayInit, ArrayStep, PTL DEF Spec
-----------------------------------------------------------------------------
(* The guest.                                                                 *)

Early == {"identity", "map_create", "map_info", "map_initialize", "initial_readback"}
Reviewed == {"program_load", "program_info_size", "program_info_complete",
             "authorization", "test_run"}
Running == {"call", "load", "store", "exit", "map_readback"}
Last == {"out", "poweroff", "off", "returned"}

\* The value as the guest wrote it, and its last byte as PASS needs it.
Intact == \A i \in 0 .. 6 : data[i] = value[i]

GuestType ==
    /\ stage_of \in Early \cup Reviewed \cup Running \cup Last
    /\ data \in [Offset -> Int] /\ runs \in Int
    /\ regs \in [r0 : Int, r1 : Int] /\ result \in {"PASS", "FAIL"}

\* What the guest knows at each place.
PlaceInv ==
    /\ attr[map] = MapAttr
    /\ data[7] = 0
    /\ stage_of \in Reviewed => Intact
    /\ stage_of \in Early \cup Reviewed => runs = 0
    /\ stage_of = "test_run" => reply = "execute"
    /\ stage_of \in Running => runs = 1 /\ reply = "execute"
    /\ runs \in {0, 1} /\ (runs = 1 => reply = "execute")
    /\ stage_of \in {"poweroff", "off"} => ~map_fd /\ ~prog_fd

\* The program holds the value from its lookup to its end; if it was given none
\* it returns 0.
ProgramInv ==
    /\ answer.map \in {map, FALSE}
    /\ stage_of = "call" => regs.r0 = 0
    /\ stage_of \in {"load", "store"} => answer.map = map /\ answer.cap.tag
    /\ stage_of = "exit" /\ answer.map = map => answer.cap.tag \/ regs.r0 = 0
    /\ stage_of = "map_readback" /\ answer.map = map => answer.cap.tag \/ retval = 0

ResultInv ==
    result = "PASS" =>
        /\ stage_of \in Last /\ runs = 1
        /\ answer.map = map => answer.cap.tag
        /\ data[6] = 42 /\ \A i \in 0 .. 5 : data[i] = value[i]

GInv == GuestType /\ PlaceInv /\ ProgramInv /\ ResultInv /\ stage_of # "fault"

\* The guest's one map, and the bytes it writes.
LEMMA GuestData ==
    /\ map \in Slot /\ map # FALSE
    /\ \A i \in 0 .. 6 : value[i] \in Int
    /\ attr[map] = MapAttr => Logical = 0 .. 6
<1>1. map \in Slot
  BY GuestAssumption DEF map
<1>2. map # FALSE
  BY <1>1, MemoryAssumption
<1>3. \A i \in 0 .. 6 : value[i] \in Int
  BY DEF value
<1>4. attr[map] = MapAttr => Logical = 0 .. 6
  BY DEF Logical, MapAttr
<1> QED
  BY <1>1, <1>2, <1>3, <1>4

\* Between lookup and end the program holds the seven bytes of its value.
LEMMA ValueHeld ==
    ASSUME IInv, GInv, answer.map = map, answer.cap.tag
    PROVE  answer.cap.length = 7 /\ Allowed
<1>1. /\ stage[map] = "live" /\ answer.index \in Index
      /\ answer.cap = ValueCap(map, answer.index) /\ map \in Slot
  BY GuestData DEF IInv, AnswerInv
<1>2. answer.index \in Nat
  BY <1>1, IndexNat
<1>3. answer.cap = Value(map, answer.index)
  BY <1>1, <1>2, LookupGives
<1>4. area[map] \in Nat /\ attr[map] \in Attr
  BY <1>1, MemoryAssumption DEF IInv, Shape, TypeInv, MapInv, NoArea
<1>5. ValueAddress(map, answer.index) \in Int
  BY <1>1, <1>2, <1>4, AddressInt
<1>6. attr[map].value_size = 7
  BY DEF GInv, PlaceInv, MapAttr
<1>7. answer.cap.length = 7 /\ answer.cap.base \in Int
  BY <1>3, <1>5, <1>6 DEF Value
<1> QED
  BY <1>7 DEF Allowed, AccessOffset, Bytes

\* Every step of the guest is a step of the maps, or none, or the gateway's NULL.
LEMMA GuestMaps ==
    ASSUME IInv, GInv, [GuestNext]_<<vars, guestVars>>
    PROVE  IInv' /\ attr'[map] = MapAttr /\ (answer' = answer \/ answer'.map \in {map, FALSE})
<1>1. map \in Slot /\ attr[map] = MapAttr /\ key \in Index
  <2>1. key \in 0 .. MapAttr.max_entries
    BY DEF key, MapAttr
  <2> QED BY <2>1, GuestData, GuestAssumption DEF GInv, PlaceInv, Index
<1>2. ASSUME UNCHANGED vars
      PROVE  IInv' /\ attr'[map] = MapAttr /\ answer' = answer
  BY <1>1, <1>2, ArrayStep DEF vars
<1>3. CASE MapCreate \/ MapCreateFails
  BY <1>1, <1>2, <1>3, ArrayStep
     DEF MapCreate, MapCreateFails, Next, AllocArea, MakeRoot, KeepRoot, NoMemoryForRecord,
         Unused
<1>4. CASE TestRun \/ RunEnds
  BY <1>1, <1>4, ArrayStep DEF TestRun, RunEnds, Next, Run, End
<1>5. CASE CallLookup
  <2>1. CASE Lookup(map, key)
    BY <1>1, <2>1, ArrayStep DEF Next, Lookup
  <2>2. CASE answer' = [map |-> FALSE, cap |-> NullCap]
             /\ UNCHANGED <<stage, attr, area, root, record, used, handed, freed>>
    <3>1. answer'.map = FALSE
      BY <2>2
    <3> QED BY <1>1, <2>2, <3>1, ArrayStep
  <2> QED BY <1>5, <2>1, <2>2 DEF CallLookup
<1>6. CASE MapGoes
  <2>1. attr' = attr /\ (answer' = answer \/ answer' = [map |-> FALSE])
    BY <1>6 DEF MapGoes, FreeMap, FreeRecord, FreeArea, Unused
  <2>2. Next
    BY <1>1, <1>6 DEF MapGoes, Next
  <2>3. answer' = [map |-> FALSE] => answer'.map = FALSE
    OBVIOUS
  <2> QED BY <1>1, <2>1, <2>2, <2>3, ArrayStep
<1>7. CASE UNCHANGED <<vars, guestVars>> \/ (GuestNext /\ UNCHANGED vars)
  BY <1>2, <1>7
<1>8. GuestNext => \/ UNCHANGED vars \/ MapCreate \/ MapCreateFails \/ TestRun
                   \/ RunEnds \/ CallLookup \/ MapGoes
  BY DEF GuestNext, GuestStep, Identity, MapCreated, MapInfo, MapUpdate, InitialReadback,
         ProgramLoad, ProgramInfoSize, ProgramInfoComplete, TestRunRefused, LoadAndAdd,
         StoreAndMove, MapReadback, Out, PowerOff, Authorization
<1> QED
  BY <1>3, <1>4, <1>5, <1>6, <1>7, <1>8

\* Steps between system calls, which go from one place to another or to out.
LEMMA GuestGoes ==
    ASSUME GInv, attr'[map] = MapAttr,
           Identity \/ MapCreate \/ MapCreated \/ MapCreateFails \/ MapInfo
              \/ ProgramLoad \/ ProgramInfoSize \/ ProgramInfoComplete
              \/ TestRunRefused \/ Out \/ MapGoes \/ PowerOff,
           answer' = answer \/ (answer'.map = FALSE /\ stage_of = "poweroff")
    PROVE  GInv'
<1>1. /\ UNCHANGED <<data, readback, reply, runs, regs, retval, result>>
      /\ \/ stage_of' \in {stage_of, "out"}
         \/ stage_of = "identity" /\ stage_of' \in {"map_create", "returned"}
         \/ stage_of = "map_create" /\ stage_of' = "map_info"
         \/ stage_of = "map_info" /\ stage_of' = "map_initialize"
         \/ stage_of = "program_load" /\ stage_of' = "program_info_size"
         \/ stage_of = "program_info_size" /\ stage_of' = "program_info_complete"
         \/ stage_of = "program_info_complete" /\ stage_of' = "authorization"
         \/ stage_of = "out" /\ stage_of' = "poweroff" /\ ~map_fd' /\ ~prog_fd'
         \/ stage_of = "poweroff" /\ stage_of' = "off" /\ UNCHANGED <<map_fd, prog_fd>>
      /\ stage_of \in {"poweroff", "off"} => UNCHANGED <<map_fd, prog_fd>>
  BY DEF Identity, MapCreate, MapCreated, MapCreateFails, MapInfo, ProgramLoad,
         ProgramInfoSize, ProgramInfoComplete, TestRunRefused, Out, MapGoes, PowerOff,
         Goes, Fails, guest, guestVars, Disagreement, ProgramAfterOut
<1>2. stage_of' # stage_of => stage_of \notin {"call", "load", "store", "exit", "map_readback"}
  BY DEF Identity, MapCreate, MapCreated, MapCreateFails, MapInfo, ProgramLoad,
         ProgramInfoSize, ProgramInfoComplete, TestRunRefused, Out, MapGoes, PowerOff,
         Goes, Fails, guest, guestVars, Disagreement, ProgramAfterOut
<1>3. GuestType' /\ stage_of' # "fault"
  BY <1>1 DEF GInv, GuestType, Early, Reviewed, Running, Last
<1>4. PlaceInv'
  BY <1>1, <1>2 DEF GInv, PlaceInv, GuestType, Intact, Early, Reviewed, Running, Last
<1>5. ProgramInv'
  BY <1>1, <1>2, GuestData DEF GInv, ProgramInv, GuestType, Early, Reviewed, Running, Last
<1>6. ResultInv'
  BY <1>1, <1>2, GuestData DEF GInv, ResultInv, GuestType, Early, Reviewed, Running, Last
<1> QED
  BY <1>3, <1>4, <1>5, <1>6 DEF GInv

\* The value is written, read back, and compared before anything is loaded.
LEMMA GuestWrites ==
    ASSUME GInv, attr' = attr, answer' = answer, MapUpdate \/ InitialReadback
    PROVE  GInv'
<1>1. /\ UNCHANGED <<map_fd, prog_fd, reply, runs, regs, retval, result>>
      /\ stage_of \in {"map_initialize", "initial_readback"}
  BY DEF MapUpdate, InitialReadback, ReadValue
<1>2. Logical = 0 .. 6 /\ \A i \in 0 .. 6 : value[i] \in Int
  BY GuestData DEF GInv, PlaceInv
<1>3. result = "FAIL"
  BY <1>1 DEF GInv, ResultInv, GuestType, Last
<1>4. CASE MapUpdate
  <2>1. data' = Written(data) \/ data' = data
    BY <1>4 DEF MapUpdate
  <2>2. data' \in [Offset -> Int] /\ data'[7] = 0
    <3>1. Written(data) \in [Offset -> Int] /\ Written(data)[7] = data[7]
      BY <1>2 DEF Written, Offset, GInv, GuestType
    <3> QED BY <2>1, <3>1 DEF GInv, GuestType, PlaceInv
  <2>3. stage_of' \in {"initial_readback", "out"}
    BY <1>4 DEF MapUpdate, Fails
  <2> QED BY <1>1, <1>3, <2>2, <2>3
             DEF GInv, GuestType, PlaceInv, ProgramInv, ResultInv,
                 Early, Reviewed, Running, Last
<1>5. CASE InitialReadback
  <2>1. data' = data /\ stage_of' \in {"program_load", "out"}
    BY <1>5 DEF InitialReadback, Fails
  <2>2. stage_of' = "program_load" => Intact
    <3> SUFFICES ASSUME stage_of' = "program_load" PROVE Intact
      OBVIOUS
    <3>1. readback' = value /\ readback' = [i \in Logical |-> data[i]]
      BY <1>5 DEF InitialReadback, Fails, ReadValue
    <3> QED BY <1>2, <3>1 DEF Intact
  <2>3. Intact => Intact'
    BY <2>1 DEF Intact
  <2> QED BY <1>1, <1>3, <2>1, <2>2, <2>3
             DEF GInv, GuestType, PlaceInv, ProgramInv, ResultInv,
                 Early, Reviewed, Running, Last
<1> QED
  BY <1>4, <1>5

\* The host answers, and the program starts only on its line.
LEMMA GuestStarts ==
    ASSUME GInv, attr' = attr, answer' = answer, Authorization \/ TestRun
    PROVE  GInv'
<1>1. UNCHANGED <<map_fd, prog_fd, data, readback, retval, result>>
  BY DEF Authorization, TestRun
<1>2. stage_of \in {"authorization", "test_run"}
  BY DEF Authorization, TestRun, Goes
<1>3. result = "FAIL" /\ Intact /\ runs = 0 /\ Intact'
  BY <1>1, <1>2 DEF GInv, ResultInv, GuestType, PlaceInv, Reviewed, Last, Intact
<1>4. CASE Authorization
  <2>1. /\ stage_of' = IF reply' = "execute" THEN "test_run" ELSE "out"
        /\ UNCHANGED <<runs, regs>>
    BY <1>4 DEF Authorization, Authorized
  <2>2. GuestType' /\ stage_of' # "fault"
    BY <1>1, <1>3, <2>1 DEF GInv, GuestType, Early, Reviewed, Running, Last
  <2>3. PlaceInv'
    BY <1>1, <1>3, <2>1 DEF GInv, PlaceInv, Early, Reviewed, Running, Last
  <2>4. ProgramInv' /\ ResultInv'
    BY <1>1, <1>3, <2>1 DEF GInv, ProgramInv, ResultInv
  <2> QED BY <2>2, <2>3, <2>4 DEF GInv
<1>5. CASE TestRun
  <2>1. /\ stage_of = "test_run" /\ stage_of' = "call" /\ runs' = 1 /\ reply' = reply
        /\ regs' = [r0 |-> 0, r1 |-> 0]
    BY <1>3, <1>5 DEF TestRun, Goes
  <2>2. GuestType' /\ stage_of' # "fault"
    BY <1>1, <1>3, <2>1 DEF GInv, GuestType, Early, Reviewed, Running, Last
  <2>3. PlaceInv'
    BY <1>1, <1>3, <2>1 DEF GInv, PlaceInv, Early, Reviewed, Running, Last
  <2>4. ProgramInv' /\ ResultInv'
    BY <1>1, <1>3, <2>1 DEF GInv, ProgramInv, ResultInv
  <2> QED BY <2>2, <2>3, <2>4 DEF GInv
<1> QED
  BY <1>4, <1>5

\* The program: it goes on only with the value, and its two accesses are inside.
LEMMA GuestRuns ==
    ASSUME IInv, GInv, attr'[map] = MapAttr, CallLookup \/ LoadAndAdd \/ StoreAndMove \/ RunEnds
    PROVE  GInv'
<1>1. /\ UNCHANGED <<map_fd, prog_fd, readback, reply, runs, result>>
      /\ stage_of \in {"call", "load", "store", "exit"}
  BY DEF CallLookup, LoadAndAdd, StoreAndMove, RunEnds, guest
<1>2. result = "FAIL" /\ runs = 1 /\ reply = "execute" /\ data[7] = 0
  BY <1>1 DEF GInv, ResultInv, GuestType, PlaceInv, Running, Last
<1>3. stage_of \in {"load", "store"} => Allowed
  BY ValueHeld DEF GInv, ProgramInv
<1>4. CASE CallLookup
  <2>1. /\ UNCHANGED <<data, regs, retval>> /\ answer'.map \in {map, FALSE}
        /\ stage_of = "call"
        /\ stage_of' = IF answer'.cap.tag THEN "load" ELSE "exit"
        /\ answer'.map = map \/ answer'.cap.tag = FALSE
    <3>1. \/ answer' = [map |-> map, index |-> key, cap |-> ValueCap(map, key)]
          \/ answer' = [map |-> FALSE, cap |-> NullCap]
      BY <1>4 DEF CallLookup, Lookup
    <3>2. answer'.map \in {map, FALSE}
      <4>1. answer'.map = map \/ answer'.map = FALSE
        BY <3>1
      <4> QED BY <4>1, Zenon
    <3>3. answer'.map = map \/ answer'.cap.tag = FALSE
      BY <3>1 DEF NullCap
    <3>4. /\ UNCHANGED <<data, regs, retval>> /\ stage_of = "call"
          /\ stage_of' = IF answer'.cap.tag THEN "load" ELSE "exit"
      BY <1>4 DEF CallLookup, guest
    <3> QED BY <3>2, <3>3, <3>4
  <2> QED BY <1>1, <1>2, <2>1, GuestData
             DEF GInv, GuestType, PlaceInv, ProgramInv, ResultInv,
                 Early, Reviewed, Running, Last
<1>5. CASE LoadAndAdd
  <2>1. /\ stage_of = "load" /\ stage_of' = "store" /\ UNCHANGED <<data, retval, answer>>
        /\ regs' = [regs EXCEPT !.r1 = data[6] + 1]
    BY <1>3, <1>5 DEF LoadAndAdd, vars, AccessOffset
  <2>2. regs' \in [r0 : Int, r1 : Int]
    BY <2>1 DEF GInv, GuestType, Offset
  <2> QED BY <1>1, <1>2, <2>1, <2>2
             DEF GInv, GuestType, PlaceInv, ProgramInv, ResultInv,
                 Early, Reviewed, Running, Last
<1>6. CASE StoreAndMove
  <2>1. /\ stage_of = "store" /\ stage_of' = "exit" /\ UNCHANGED <<retval, answer>>
        /\ data' = [data EXCEPT ![6] = regs.r1 % 256]
        /\ regs' = [regs EXCEPT !.r0 = regs.r1]
    BY <1>3, <1>6 DEF StoreAndMove, vars, AccessOffset
  <2>2. regs' \in [r0 : Int, r1 : Int] /\ data' \in [Offset -> Int] /\ data'[7] = 0
    BY <1>2, <2>1 DEF GInv, GuestType, Offset
  <2> QED BY <1>1, <1>2, <2>1, <2>2
             DEF GInv, GuestType, PlaceInv, ProgramInv, ResultInv,
                 Early, Reviewed, Running, Last
<1>7. CASE RunEnds
  <2>1. /\ stage_of = "exit" /\ UNCHANGED <<data, regs, answer>>
        /\ stage_of' = "out" \/ (stage_of' = "map_readback" /\ retval' = regs.r0)
    BY <1>7 DEF RunEnds, End, Fails
  <2> QED BY <1>1, <1>2, <2>1
             DEF GInv, GuestType, PlaceInv, ProgramInv, ResultInv,
                 Early, Reviewed, Running, Last
<1> QED
  BY <1>4, <1>5, <1>6, <1>7

\* PASS is given for 42 in the last byte and in r0, so not without the value.
LEMMA GuestJudges ==
    ASSUME GInv, attr' = attr, answer' = answer, MapReadback
    PROVE  GInv'
<1>1. /\ UNCHANGED <<map_fd, prog_fd, data, reply, runs, regs, retval>>
      /\ stage_of = "map_readback" /\ stage_of' = "out"
  BY DEF MapReadback, Goes
<1>2. Logical = 0 .. 6
  BY GuestData DEF GInv, PlaceInv
<1>3. runs = 1 /\ result = "FAIL"
  BY <1>1 DEF GInv, GuestType, PlaceInv, ResultInv, Running, Last
<1>4. /\ result' \in {"PASS", "FAIL"}
      /\ result' = "PASS" => retval = 42 /\ data[6] = 42 /\ \A i \in 0 .. 5 : data[i] = value[i]
  <2>1. CASE UNCHANGED <<readback, result>>
    BY <1>3, <2>1
  <2>2. CASE /\ readback' = [i \in 0 .. 6 |-> data[i]]
             /\ result' = IF Complete(retval, readback') THEN "PASS" ELSE "FAIL"
    BY <2>2 DEF Complete
  <2> QED BY <1>2, <2>1, <2>2 DEF MapReadback, ReadValue
<1>5. GuestType' /\ stage_of' # "fault"
  BY <1>1, <1>4 DEF GInv, GuestType, Early, Reviewed, Running, Last
<1>6. PlaceInv'
  BY <1>1 DEF GInv, PlaceInv, Early, Reviewed, Running, Last
<1>7. ProgramInv'
  BY <1>1 DEF GInv, ProgramInv
<1>8. ResultInv'
  BY <1>1, <1>3, <1>4 DEF GInv, ProgramInv, ResultInv, Last
<1> QED
  BY <1>5, <1>6, <1>7, <1>8 DEF GInv

\* Before the guest's first step.
LEMMA GuestStarted == GuestInit => IInv /\ GInv
<1> SUFFICES ASSUME GuestInit PROVE IInv /\ GInv
  OBVIOUS
<1>1. IInv
  BY ArrayInit DEF GuestInit
<1>2. attr[map] = MapAttr /\ answer.map = FALSE
  BY GuestData DEF GuestInit, Init
<1>3. data \in [Offset -> Int] /\ data[7] = 0 /\ regs \in [r0 : Int, r1 : Int]
  BY DEF GuestInit, Zeros, Offset
<1>4. /\ stage_of = "identity" /\ runs = 0 /\ result = "FAIL"
  BY DEF GuestInit
<1>5. GuestType /\ PlaceInv
  BY <1>2, <1>3, <1>4 DEF GuestType, PlaceInv, Early, Reviewed, Running, Last
<1>6. ProgramInv /\ ResultInv
  BY <1>2, <1>4 DEF ProgramInv, ResultInv
<1> QED
  BY <1>1, <1>4, <1>5, <1>6 DEF GInv

\* Every step keeps what the maps and the guest are worth.
LEMMA GuestKeeps == IInv /\ GInv /\ [GuestNext]_<<vars, guestVars>> => IInv' /\ GInv'
<1> SUFFICES ASSUME IInv, GInv, [GuestNext]_<<vars, guestVars>> PROVE GInv'
  BY GuestMaps
<1>1. attr'[map] = MapAttr
  BY GuestMaps
<1>2. CASE UNCHANGED <<vars, guestVars>>
  BY <1>2, ZenonT(40) DEF vars, guestVars, guest, GInv, GuestType, PlaceInv, ProgramInv, ResultInv, Intact
<1>3. CASE MapUpdate \/ InitialReadback
  BY <1>3, GuestWrites DEF MapUpdate, InitialReadback, vars
<1>4. CASE Authorization \/ TestRun
  BY <1>4, GuestStarts DEF Authorization, TestRun, Run, vars
<1>5. CASE CallLookup \/ LoadAndAdd \/ StoreAndMove \/ RunEnds
  BY <1>1, <1>5, GuestRuns
<1>6. CASE MapReadback
  BY <1>6, GuestJudges DEF MapReadback, vars
<1>7. CASE MapGoes
  <2>1. answer' = answer \/ (answer'.map = FALSE /\ stage_of = "poweroff")
    BY <1>7 DEF MapGoes, FreeMap, FreeRecord, FreeArea, Unused
  <2> QED BY <1>1, <1>7, <2>1, GuestGoes
<1>8. CASE Identity \/ MapCreate \/ MapCreated \/ MapCreateFails \/ MapInfo \/ ProgramLoad
              \/ ProgramInfoSize \/ ProgramInfoComplete \/ TestRunRefused \/ Out \/ PowerOff
  <2>1. answer' = answer
    BY <1>8 DEF Identity, MapCreate, MapCreated, MapCreateFails, MapInfo, ProgramLoad,
                ProgramInfoSize, ProgramInfoComplete, TestRunRefused, Out, PowerOff, vars,
                AllocArea, MakeRoot, KeepRoot, NoMemoryForRecord, Unused
  <2> QED BY <1>1, <1>8, <2>1, GuestGoes
<1> QED
  BY <1>2, <1>3, <1>4, <1>5, <1>6, <1>7, <1>8 DEF GuestNext, GuestStep

\* PASS means that all of the stride is as it has to be.
LEMMA InvImpliesHonest == IInv /\ GInv => GuestHonest
<1> SUFFICES ASSUME IInv, GInv PROVE GuestHonest
  OBVIOUS
<1>1. Logical = 0 .. 6
  BY GuestData DEF GInv, PlaceInv
<1>2. ReviewedBeforeRun
  BY <1>1 DEF GInv, PlaceInv, ReviewedBeforeRun, Reviewed, Intact
<1>3. ASSUME result = "PASS" PROVE data = [Written(Zeros) EXCEPT ![6] = 42]
  <2>1. /\ data \in [Offset -> Int] /\ data[7] = 0 /\ data[6] = 42
        /\ \A i \in 0 .. 5 : data[i] = value[i]
    BY <1>3 DEF GInv, GuestType, PlaceInv, ResultInv
  <2> DEFINE w == [Written(Zeros) EXCEPT ![6] = 42]
  <2>2. /\ w = [i \in Offset |-> w[i]] /\ w[6] = 42 /\ w[7] = 0
        /\ \A i \in 0 .. 5 : w[i] = value[i]
    BY <1>1 DEF Written, Zeros, Offset
  <2>3. ASSUME NEW i \in Offset PROVE data[i] = w[i]
    <3>1. i \in 0 .. 5 \/ i = 6 \/ i = 7
      BY DEF Offset
    <3> HIDE DEF w
    <3> QED BY <2>1, <2>2, <3>1
  <2> HIDE DEF w
  <2>4. data = [i \in Offset |-> data[i]]
    BY <2>1
  <2>5. data = w
    BY <2>2, <2>3, <2>4
  <2> QED BY <2>5 DEF w
<1>4. PassMeansUsed
  BY <1>3, ValueHeld DEF PassMeansUsed, GInv, ResultInv
<1>5. NeverFaults /\ PaddingKept /\ Closed
  BY DEF GInv, PlaceInv, NeverFaults, PaddingKept, Closed
<1> QED
  BY <1>2, <1>4, <1>5 DEF GuestHonest

\* What the guest shows is so, for any addresses, header and granules
\* (native-guest.c:99, 145, 212-218, 232-249).
THEOREM ArrayGuestHonest == GuestSpec => []GuestHonest
BY GuestStarted, GuestKeeps, InvImpliesHonest, PTL DEF GuestSpec
=============================================================================
