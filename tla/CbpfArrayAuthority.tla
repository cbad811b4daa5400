-------------------------- MODULE CbpfArrayAuthority --------------------------
(* linux/spatial/array-authority.patch: a plain array map keeps, beside its   *)
(* memory, one capability for all of it, and a lookup from native code gets   *)
(* that capability narrowed to one value, or nothing.                         *)
(*                                                                            *)
(* Bounds are exact only on a granule that grows with the length; MANTISSA is *)
(* how many granules a length may count.  The kernel's array maps (layout,    *)
(* reference counts, allocator) are as the patch uses them.                   *)
EXTENDS Integers

CONSTANTS
    Slot,           \* maps that may exist at one time
    Base,           \* addresses the allocator gives out
    Attr,           \* [value_size, max_entries, plain, special]: plain is BPF_MAP_TYPE_ARRAY
                    \* without flags, special that values have fields of the kernel's
    HEADER,         \* sizeof(struct bpf_array)
    MANTISSA

NoArea == -1

\* array_map_alloc_check refuses values and maps of no size.
ASSUME MemoryAssumption ==
    /\ Base \subseteq Nat /\ HEADER \in Nat /\ MANTISSA \in Nat
    /\ Attr \subseteq [value_size : Nat \ {0}, max_entries : Nat \ {0}, plain : BOOLEAN,
                     special : BOOLEAN]
    /\ FALSE \notin Slot

VARIABLES
    stage,          \* per slot: place in array_map_alloc or array_map_free
    attr,           \* per slot: its attributes
    area,           \* per slot: address of its memory, or NoArea
    root,           \* per slot: capability made by cbpf_map_area_alloc
    record,         \* per slot: authority->root, while the record is allocated
    used,           \* slots whose map a running program refers to
    handed,         \* value capabilities given to running programs
    answer,         \* the last lookup, and what it gave
    freed           \* capabilities that memory given back still holds

vars == <<stage, attr, area, root, record, used, handed, answer, freed>>

NoRecord == [record |-> FALSE]
Record(cap) == [record |-> TRUE, root |-> cap]

\* A capability without a tag has no authority, whatever else it says.
NullCap == [tag |-> FALSE, base |-> 0, length |-> 0]

-----------------------------------------------------------------------------
Granule(length) ==
    CHOOSE g \in {1, 2, 4, 8, 16, 32} :
        /\ length < MANTISSA * g
        /\ \A h \in {1, 2, 4, 8, 16, 32} : length < MANTISSA * h => g <= h

\* cheri_bounds_set_exact.
Exact(base, length) ==
    [tag |-> base % Granule(length) = 0 /\ length % Granule(length) = 0,
     base |-> base, length |-> length]

\* round_up(attr->value_size, 8).
ElemSize(value_size) == 8 * ((value_size + 7) \div 8)

Size(a) == HEADER + a.max_entries * ElemSize(a.value_size)

\* The largest granule of the model serves every map.
ASSUME GranuleAssumption == \A a \in Attr : Size(a) < MANTISSA * 32

\* BUG: values are found by their size, not by their stride.
ValueAddressBySize(m, i) == area[m] + HEADER + attr[m].value_size * i

ValueAddress(m, i) == area[m] + HEADER + ElemSize(attr[m].value_size) * i

Bytes(base, length) == base .. base + length - 1

Init ==
    /\ stage = [m \in Slot |-> "none"]
    /\ \E a \in Attr : attr = [m \in Slot |-> a]
    /\ area = [m \in Slot |-> NoArea]
    /\ root = [m \in Slot |-> NullCap]
    /\ record = [m \in Slot |-> NoRecord]
    /\ used = {} /\ handed = {}
    /\ answer = [map |-> FALSE]
    /\ freed = {}

Unused == <<used, handed, answer>>

-----------------------------------------------------------------------------
(* array_map_alloc.                                                           *)
Fits(m, base, a) ==
    \A n \in Slot \ {m} :
        area[n] # NoArea =>
            Bytes(base, Size(a)) \cap Bytes(area[n], Size(attr[n])) = {}

\* bpf_map_area_alloc; without memory the map is not made, a stuttering step.
AllocArea(m) ==
    /\ stage[m] = "none"
    /\ \E a \in Attr, base \in Base :
          /\ Fits(m, base, a)
          /\ attr' = [attr EXCEPT ![m] = a]
          /\ area' = [area EXCEPT ![m] = base]
          /\ stage' = [stage EXCEPT ![m] = IF a.plain THEN "root" ELSE "live"]
    /\ UNCHANGED <<root, record, Unused, freed>>

\* cbpf_map_area_alloc: a root that is not exact gives the memory back.
MakeRoot(m) ==
    /\ stage[m] = "root"
    /\ LET cap == Exact(area[m], Size(attr[m]))
       IN  IF cap.tag
           THEN /\ root' = [root EXCEPT ![m] = cap]
                /\ stage' = [stage EXCEPT ![m] = "record"]
                /\ UNCHANGED area
           ELSE /\ area' = [area EXCEPT ![m] = NoArea]
                /\ stage' = [stage EXCEPT ![m] = "none"]
                /\ UNCHANGED root
    /\ UNCHANGED <<attr, record, Unused, freed>>

KeepRoot(m) ==
    /\ stage[m] = "record"
    /\ record' = [record EXCEPT ![m] = Record(root[m])]
    /\ root' = [root EXCEPT ![m] = NullCap]
    /\ stage' = [stage EXCEPT ![m] = "live"]
    /\ UNCHANGED <<attr, area, Unused, freed>>

\* BUG: without a record the memory stays.
AreaWithoutRecordKept(m) == area[m]

AreaWithoutRecord(m) == NoArea

\* The record is not there, or not aligned for a capability.
NoMemoryForRecord(m) ==
    /\ stage[m] = "record"
    /\ area' = [area EXCEPT ![m] = AreaWithoutRecord(m)]
    /\ root' = [root EXCEPT ![m] = NullCap]
    /\ stage' = [stage EXCEPT ![m] = "none"]
    /\ UNCHANGED <<attr, record, Unused, freed>>

-----------------------------------------------------------------------------
(* A program that refers to the map runs, and looks up.                       *)
Run(m) ==
    /\ stage[m] = "live" /\ m \notin used
    /\ used' = used \cup {m}
    /\ UNCHANGED <<stage, attr, area, root, record, handed, answer, freed>>

End(m) ==
    /\ m \in used
    /\ used' = used \ {m}
    /\ handed' = { h \in handed : h.map # m }
    /\ UNCHANGED <<stage, attr, area, root, record, answer, freed>>

\* The record's root is the one of this map's memory.
RootValid(m) ==
    /\ record[m].record
    /\ record[m].root.tag
    /\ record[m].root.base = area[m]
    /\ record[m].root.length = Size(attr[m])

InRange(i, n) == i < n

\* BUG: map->record is not looked at.
PlainOnly(a) == a.plain

\* Plain data only: map->record says that there are timers, locks or pointers.
Supported(a) == a.plain /\ ~a.special

\* cbpf_array_value_cap; narrowing keeps a tag only within the root's bounds.
ValueCap(m, i) ==
    IF ~Supported(attr[m]) \/ ~RootValid(m) \/ ~InRange(i, attr[m].max_entries) THEN NullCap
    ELSE LET cap == Exact(ValueAddress(m, i), attr[m].value_size)
             within == Bytes(cap.base, cap.length)
                           \subseteq Bytes(record[m].root.base, record[m].root.length)
         IN  IF cap.tag /\ within THEN cap ELSE NullCap

Lookup(m, i) ==
    /\ m \in used
    /\ answer' = [map |-> m, index |-> i, cap |-> ValueCap(m, i)]
    /\ handed' = IF ValueCap(m, i).tag
                 THEN handed \cup {[map |-> m, index |-> i, cap |-> ValueCap(m, i)]}
                 ELSE handed
    /\ UNCHANGED <<stage, attr, area, root, record, used, freed>>

-----------------------------------------------------------------------------
(* array_map_free, once nothing refers to the map.                            *)

Cleared(cap) == [cap EXCEPT !.tag = FALSE]

FreeMap(m) ==
    /\ stage[m] = "live" /\ m \notin used
    /\ record' = IF record[m].record
                 THEN [record EXCEPT ![m] = Record(Cleared(@.root))] ELSE record
    /\ stage' = [stage EXCEPT ![m] = "free"]
    /\ answer' = IF answer.map = m THEN [map |-> FALSE] ELSE answer
    /\ UNCHANGED <<attr, area, root, used, handed, freed>>

FreeRecord(m) ==
    /\ stage[m] = "free" /\ record[m].record
    /\ freed' = IF record[m].root.tag THEN freed \cup {record[m].root} ELSE freed
    /\ record' = [record EXCEPT ![m] = NoRecord]
    /\ UNCHANGED <<stage, attr, area, root, Unused>>

FreeArea(m) ==
    /\ stage[m] = "free" /\ ~record[m].record
    /\ area' = [area EXCEPT ![m] = NoArea]
    /\ stage' = [stage EXCEPT ![m] = "none"]
    /\ UNCHANGED <<attr, root, record, Unused, freed>>

\* The entries, and the index after them.
Index == UNION { 0 .. a.max_entries : a \in Attr }

Next ==
    \E m \in Slot :
        \/ AllocArea(m) \/ MakeRoot(m) \/ KeepRoot(m) \/ NoMemoryForRecord(m)
        \/ Run(m) \/ End(m) \/ \E i \in Index : Lookup(m, i)
        \/ FreeMap(m) \/ FreeRecord(m) \/ FreeArea(m)

Spec == Init /\ [][Next]_vars

-----------------------------------------------------------------------------
\* What is handed out is the value and nothing else: it begins where the map
\* keeps that entry, ends before the next, is past the map's own fields and in
\* memory that is this map's; values of one map or of two never overlap
\* (array-authority.patch:217-226).
ValueExactly ==
    \A h \in handed :
        /\ stage[h.map] = "live"
        /\ h.cap.base = area[h.map] + HEADER
                            + h.index * 8 * ((attr[h.map].value_size + 7) \div 8)
        /\ h.cap.length = attr[h.map].value_size
        /\ Bytes(h.cap.base, h.cap.length)
               \subseteq Bytes(area[h.map] + HEADER, Size(attr[h.map]) - HEADER)
        /\ \A k \in handed \ {h} :
              Bytes(h.cap.base, h.cap.length) \cap Bytes(k.cap.base, k.cap.length) = {}

\* An index past the entries gets nothing, nor does any of a map whose values are
\* more than plain data, though it has a root and a record; every other one gets its
\* value unless the value's length has no exact bounds: where the value lies
\* never matters, so either all entries of a map can be used or none
\* (array-authority.patch:198-200, 213-226).
AllOrNone ==
    answer.map \in Slot =>
        LET a == attr[answer.map]
        IN  answer.cap.tag <=>
                /\ a.plain /\ ~a.special /\ answer.index < a.max_entries
                /\ a.value_size % Granule(a.value_size) = 0

\* A map that was not made, or is no more, has neither memory nor a record; one
\* that exists has its record exactly if it is plain, whichever step of its
\* making failed; and memory that was given back holds no capability
\* (array-authority.patch:266-271, 289, 348-350).
NothingLeft ==
    /\ \A m \in Slot :
          /\ stage[m] = "none" => area[m] = NoArea /\ ~record[m].record
          /\ stage[m] = "live" => area[m] # NoArea /\ record[m].record = attr[m].plain
    /\ freed = {}
=============================================================================
