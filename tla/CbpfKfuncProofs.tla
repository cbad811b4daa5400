--------------------------- MODULE CbpfKfuncProofs ---------------------------
(* For any CPUs and any finite memory: a handle keeps its object and its own  *)
(* identity, and the module takes nothing with it when it goes.               *)
EXTENDS CbpfKfunc, FiniteSetTheorems, TLAPS

Cell == [stage : Stage, cpu : CPU \cup {NoCPU}, id : Nat]

\* Cells that have a reference, and cells that have an identity.
WithReference == { c \in Memory : cell[c].stage \in {"referenced", "counted", "live"} }
Numbered == { c \in Memory : cell[c].stage \in {"counted", "live"} \cup Releasing }

TypeInv ==
    /\ module \in {"absent", "registered", "gone"}
    /\ pinned \in BOOLEAN
    /\ busy \subseteq CPU
    /\ cell \in [Memory -> Cell]
    /\ refs \in Int
    /\ acquisitions \in Nat

\* The object's count is the handles and the permanent reference.
RefsInv == refs = 1 + Cardinality(WithReference)

\* Identities are given out in order, each once.
IdsInv ==
    /\ \A c \in Numbered : cell[c].id <= acquisitions
    /\ \A c, d \in Numbered : cell[c].id = cell[d].id => c = d

\* A cell belongs to a run, a run to a loaded program, a program to the module.
HeldInv ==
    /\ \A c \in Memory : cell[c].stage # "free" => cell[c].cpu \in busy
    /\ busy # {} => pinned
    /\ pinned => module = "registered"

IInv == TypeInv /\ RefsInv /\ IdsInv /\ HeldInv

-----------------------------------------------------------------------------
(* What a step of one cell does to each part.                                 *)
Counted(v) == v.stage \in {"referenced", "counted", "live"}
HasId(v) == v.stage \in {"counted", "live"} \cup Releasing

\* The cell of a step is the only one that changes.
LEMMA CellStep ==
    ASSUME TypeInv, NEW c \in Memory, NEW v \in Cell, cell' = [cell EXCEPT ![c] = v]
    PROVE  /\ cell' \in [Memory -> Cell] /\ cell'[c] = v
           /\ \A d \in Memory : d # c => cell'[d] = cell[d]
  BY DEF TypeInv

\* The count follows the cells with a reference.
LEMMA CountFollows ==
    ASSUME TypeInv, RefsInv, NEW c \in Memory, NEW v \in Cell,
           cell' = [cell EXCEPT ![c] = v],
           \/ (Counted(cell[c]) <=> Counted(v)) /\ refs' = refs
           \/ ~Counted(cell[c]) /\ Counted(v) /\ refs' = refs + 1
           \/ Counted(cell[c]) /\ ~Counted(v) /\ refs' = refs - 1
    PROVE  RefsInv' /\ refs' \in Int
<1> DEFINE W == WithReference
           V == WithReference'
<1>1. IsFiniteSet(W) /\ W \subseteq Memory
  <2>1. W \subseteq Memory
    BY DEF WithReference
  <2> QED BY <2>1, SetsAssumption, FS_Subset
<1>2. Cardinality(W) \in Nat
  BY <1>1, FS_CardinalityType
<1>3. refs = 1 + Cardinality(W)
  BY DEF RefsInv
<1>4. \A d \in Memory : (d \in W <=> Counted(cell[d])) /\ (d \in V <=> Counted(cell'[d]))
  BY DEF WithReference, Counted
<1>5. V \subseteq Memory
  BY DEF WithReference
<1>6. cell'[c] = v /\ \A d \in Memory : d # c => cell'[d] = cell[d]
  BY CellStep
<1> HIDE DEF W, V
<1>7. CASE (Counted(cell[c]) <=> Counted(v)) /\ refs' = refs
  <2>1. V = W
    BY <1>1, <1>4, <1>5, <1>6, <1>7
  <2> QED BY <2>1, <1>2, <1>3, <1>7 DEF RefsInv, V
<1>8. CASE ~Counted(cell[c]) /\ Counted(v) /\ refs' = refs + 1
  <2>1. V = W \cup {c} /\ c \notin W
    BY <1>1, <1>4, <1>5, <1>6, <1>8
  <2>2. Cardinality(V) = Cardinality(W) + 1
    BY <2>1, <1>1, FS_AddElement
  <2> QED BY <2>2, <1>2, <1>3, <1>8 DEF RefsInv, V
<1>9. CASE Counted(cell[c]) /\ ~Counted(v) /\ refs' = refs - 1
  <2>1. V = W \ {c} /\ c \in W
    BY <1>1, <1>4, <1>5, <1>6, <1>9
  <2>2. Cardinality(V) = Cardinality(W) - 1
    BY <2>1, <1>1, FS_RemoveElement
  <2> QED BY <2>2, <1>2, <1>3, <1>9 DEF RefsInv, V
<1> QED
  BY <1>7, <1>8, <1>9

\* An identity is kept, or it is the next one.
LEMMA IdsFollow ==
    ASSUME TypeInv, IdsInv, NEW c \in Memory, NEW v \in Cell,
           cell' = [cell EXCEPT ![c] = v],
           \/ acquisitions' = acquisitions /\ (HasId(v) => HasId(cell[c]) /\ v.id = cell[c].id)
           \/ acquisitions' = acquisitions + 1 /\ v.id = acquisitions + 1
    PROVE  IdsInv' /\ acquisitions' \in Nat
<1>1. cell'[c] = v /\ \A d \in Memory : d # c => cell'[d] = cell[d]
  BY CellStep
<1>2. acquisitions \in Nat /\ cell \in [Memory -> Cell]
  BY DEF TypeInv
<1>3. \A d \in Memory : HasId(cell[d]) => cell[d].id <= acquisitions /\ cell[d].id \in Nat
  BY <1>2 DEF IdsInv, Numbered, HasId, Cell
<1>4. \A d, f \in Memory :
          HasId(cell[d]) /\ HasId(cell[f]) /\ cell[d].id = cell[f].id => d = f
  BY DEF IdsInv, Numbered, HasId
<1>5. \A d \in Memory : HasId(cell'[d]) => cell'[d].id <= acquisitions'
  BY <1>1, <1>2, <1>3
<1>6. \A d, f \in Memory :
          HasId(cell'[d]) /\ HasId(cell'[f]) /\ cell'[d].id = cell'[f].id => d = f
  <2> SUFFICES ASSUME NEW d \in Memory, NEW f \in Memory, d # f,
                      HasId(cell'[d]), HasId(cell'[f])
               PROVE  cell'[d].id # cell'[f].id
    OBVIOUS
  <2>1. CASE d # c /\ f # c
    BY <2>1, <1>1, <1>4
  <2>2. CASE d = c
    BY <2>2, <1>1, <1>2, <1>3, <1>4
  <2>3. CASE f = c
    BY <2>3, <1>1, <1>2, <1>3, <1>4
  <2> QED BY <2>1, <2>2, <2>3
<1> QED
  BY <1>2, <1>5, <1>6 DEF IdsInv, Numbered, HasId

\* A cell in use is its run's.
LEMMA HeldFollows ==
    ASSUME TypeInv, HeldInv, NEW c \in Memory, NEW v \in Cell,
           cell' = [cell EXCEPT ![c] = v], UNCHANGED <<module, pinned, busy>>,
           v.stage # "free" => v.cpu \in busy
    PROVE  HeldInv'
  BY CellStep DEF HeldInv

\* A step of one cell keeps the invariant.
LEMMA CellKeeps ==
    ASSUME IInv, NEW c \in Memory, NEW v \in Cell,
           cell' = [cell EXCEPT ![c] = v], UNCHANGED <<module, pinned, busy>>,
           v.stage # "free" => v.cpu \in busy,
           \/ (Counted(cell[c]) <=> Counted(v)) /\ refs' = refs
           \/ ~Counted(cell[c]) /\ Counted(v) /\ refs' = refs + 1
           \/ Counted(cell[c]) /\ ~Counted(v) /\ refs' = refs - 1,
           \/ acquisitions' = acquisitions /\ (HasId(v) => HasId(cell[c]) /\ v.id = cell[c].id)
           \/ acquisitions' = acquisitions + 1 /\ v.id = acquisitions + 1
    PROVE  IInv'
<1> USE DEF IInv
<1>1. RefsInv' /\ refs' \in Int
  BY CountFollows
<1>2. IdsInv' /\ acquisitions' \in Nat
  BY IdsFollow
<1>3. HeldInv'
  BY HeldFollows
<1>4. TypeInv'
  BY <1>1, <1>2, CellStep DEF TypeInv
<1> QED
  BY <1>1, <1>2, <1>3, <1>4

\* The same when only the cell's stage changes.
LEMMA MoveKeeps ==
    ASSUME IInv, NEW c \in Memory, NEW from, NEW cpu \in CPU, NEW to \in Stage,
           Moves(c, from, cpu, to), from # "free",
           UNCHANGED <<module, pinned, busy, acquisitions>>,
           to \in {"counted", "live"} \cup Releasing =>
               from \in {"counted", "live"} \cup Releasing,
           LET R == {"referenced", "counted", "live"}
           IN  \/ (from \in R <=> to \in R) /\ refs' = refs
               \/ from \notin R /\ to \in R /\ refs' = refs + 1
               \/ from \in R /\ to \notin R /\ refs' = refs - 1
    PROVE  IInv'
<1> DEFINE v == [cell[c] EXCEPT !.stage = to]
<1>1. cell[c] \in Cell /\ cell[c].stage = from /\ cell[c].cpu = cpu
  BY DEF IInv, TypeInv, Moves
<1>2. v \in Cell /\ v.stage = to /\ v.cpu = cell[c].cpu /\ v.id = cell[c].id
  BY <1>1 DEF Cell
<1>3. cell' = [cell EXCEPT ![c] = v]
  BY DEF Moves
<1> HIDE DEF v
<1>4. cell[c].cpu \in busy
  BY <1>1 DEF IInv, HeldInv
<1>5. /\ \/ (Counted(cell[c]) <=> Counted(v)) /\ refs' = refs
         \/ ~Counted(cell[c]) /\ Counted(v) /\ refs' = refs + 1
         \/ Counted(cell[c]) /\ ~Counted(v) /\ refs' = refs - 1
      /\ HasId(v) => HasId(cell[c]) /\ v.id = cell[c].id
  BY <1>1, <1>2 DEF Counted, HasId
<1> QED
  BY <1>2, <1>3, <1>4, <1>5, CellKeeps

-----------------------------------------------------------------------------
(* The steps.                                                                 *)

\* At first there is only the permanent reference.
LEMMA KfuncInit == Init => IInv
<1> SUFFICES ASSUME Init PROVE IInv
  OBVIOUS
<1>1. TypeInv
  <2>1. Free \in Cell
    BY DEF Free, Cell, Stage
  <2>2. cell \in [Memory -> Cell]
    BY <2>1 DEF Init
  <2>3. module = "absent" /\ pinned \in BOOLEAN /\ busy \subseteq CPU
    BY DEF Init
  <2>4. refs \in Int /\ acquisitions \in Nat
    BY DEF Init
  <2> QED BY <2>2, <2>3, <2>4 DEF TypeInv
<1>2. WithReference = {} /\ Numbered = {}
  BY DEF Init, WithReference, Numbered, Free, Releasing
<1> QED
  BY <1>1, <1>2, FS_EmptySet DEF Init, IInv, RefsInv, IdsInv, HeldInv, Free

\* The module, the programs and the runs: no cell changes.
LEMMA ModuleKeeps ==
    ASSUME IInv, UNCHANGED <<cell, refs, acquisitions>>,
           module' \in {"absent", "registered", "gone"}, pinned' \in BOOLEAN,
           busy' \subseteq CPU,
           \A c \in Memory : cell[c].stage # "free" => cell[c].cpu \in busy',
           busy' # {} => pinned', pinned' => module' = "registered"
    PROVE  IInv'
<1>1. WithReference' = WithReference /\ Numbered' = Numbered
  BY DEF WithReference, Numbered
<1> QED
  BY <1>1 DEF IInv, TypeInv, RefsInv, IdsInv, HeldInv

\* A run that returns has no cell.
LEMMA ReturnKeeps ==
    ASSUME IInv, NEW cpu \in CPU, Return(cpu)
    PROVE  IInv'
<1>1. ASSUME NEW c \in Memory, cell[c].stage # "free" PROVE cell[c].cpu # cpu
  <2>1. cell[c].stage \in Stage
    BY DEF IInv, TypeInv, Cell
  <2>2. CASE cell[c].stage = "live"
    BY <2>2 DEF Return, Held
  <2>3. CASE cell[c].stage \in Acquiring \cup Releasing
    BY <2>3 DEF Return, Running, Inside
  <2> QED BY <1>1, <2>1, <2>2, <2>3 DEF Stage
<1>2. \A c \in Memory : cell[c].stage # "free" => cell[c].cpu \in busy'
  BY <1>1 DEF Return, IInv, HeldInv
<1>3. UNCHANGED <<module, pinned, cell, refs, acquisitions>> /\ busy' \subseteq busy
  BY DEF Return, counters
<1> QED
  BY <1>2, <1>3, ModuleKeeps DEF IInv, TypeInv, HeldInv

\* acquire and release, statement by statement.
LEMMA AcquireAllocKeeps ==
    ASSUME IInv, NEW cpu \in CPU, NEW c \in Memory, AcquireAlloc(cpu, c)
    PROVE  IInv'
<1> DEFINE v == Fresh(cpu)
<1>1. v \in Cell /\ v.stage = "allocated" /\ v.cpu = cpu
  BY DEF Fresh, Cell, Stage, Acquiring
<1>2. cell' = [cell EXCEPT ![c] = v] /\ cell[c].stage = "free"
  BY DEF AcquireAlloc
<1> HIDE DEF v
<1>3. UNCHANGED <<module, pinned, busy, refs, acquisitions>> /\ cpu \in busy
  BY DEF AcquireAlloc, Running, counters
<1>4. ~Counted(cell[c]) /\ ~Counted(v) /\ ~HasId(v)
  BY <1>1, <1>2 DEF Counted, HasId, Releasing
<1> QED
  BY <1>1, <1>2, <1>3, <1>4, CellKeeps

\* A cell is given the next identity.
LEMMA NumberedCell ==
    ASSUME NEW r \in Cell, NEW n \in Nat
    PROVE  LET v == [r EXCEPT !.stage = "counted", !.id = n + 1]
           IN  v \in Cell /\ v.stage = "counted" /\ v.cpu = r.cpu /\ v.id = n + 1
<1>1. "counted" \in Stage /\ n + 1 \in Nat
  BY DEF Stage, Acquiring
<1> QED
  BY <1>1 DEF Cell

\* The reference is taken, or the last statements of acquire return the handle.
LEMMA AcquireCountKeeps ==
    ASSUME IInv, NEW cpu \in CPU, NEW c \in Memory, AcquireCount(cpu, c)
    PROVE  IInv'
<1> DEFINE v == [cell[c] EXCEPT !.stage = "counted", !.id = acquisitions + 1]
<1>1. cell[c] \in Cell /\ cell[c].stage = "referenced" /\ acquisitions \in Nat
  BY DEF AcquireCount, IInv, TypeInv
<1>2. v \in Cell /\ v.stage = "counted" /\ v.cpu = cell[c].cpu /\ v.id = acquisitions + 1
  BY <1>1, NumberedCell
<1>3. cell' = [cell EXCEPT ![c] = v]
  BY DEF AcquireCount, NextId
<1> HIDE DEF v
<1>4. /\ UNCHANGED <<module, pinned, busy>> /\ refs' = refs
      /\ acquisitions' = acquisitions + 1
  BY DEF AcquireCount, NextId
<1>5. cell[c].cpu \in busy /\ Counted(cell[c]) /\ Counted(v)
  BY <1>1, <1>2 DEF IInv, HeldInv, Counted
<1> QED
  BY <1>2, <1>3, <1>4, <1>5, CellKeeps

\* The memory of a handle is given back.
LEMMA ReleaseFreeKeeps ==
    ASSUME IInv, NEW cpu \in CPU, NEW c \in Memory, ReleaseFree(cpu, c)
    PROVE  IInv'
<1> DEFINE v == Free
<1>1. v \in Cell /\ v.stage = "free"
  BY DEF Free, Cell, Stage
<1>2. cell' = [cell EXCEPT ![c] = v] /\ cell[c].stage = "unlisted"
  BY DEF ReleaseFree
<1> HIDE DEF v
<1>3. UNCHANGED <<module, pinned, busy, refs, acquisitions>>
  BY DEF ReleaseFree, counters
<1>4. ~Counted(cell[c]) /\ ~Counted(v) /\ ~HasId(v)
  BY <1>1, <1>2 DEF Counted, HasId, Releasing
<1> QED
  BY <1>1, <1>2, <1>3, <1>4, CellKeeps

\* The statements that only move a cell on.
LEMMA MovesKeep ==
    ASSUME IInv, NEW cpu \in CPU, NEW c \in Memory,
           \/ AcquireReference(cpu, c) \/ AcquireLive(cpu, c) \/ ReleaseReference(cpu, c)
           \/ ReleaseCount(cpu, c) \/ ReleaseLive(cpu, c)
    PROVE  IInv'
<1> USE DEF Stage, Acquiring, Releasing
<1>1. CASE AcquireReference(cpu, c)
  BY <1>1, MoveKeeps DEF AcquireReference, RefsAfterAcquire
<1>2. CASE AcquireLive(cpu, c)
  BY <1>2, MoveKeeps DEF AcquireLive
<1>3. CASE ReleaseReference(cpu, c)
  BY <1>3, MoveKeeps DEF ReleaseReference
<1>4. CASE ReleaseCount(cpu, c)
  BY <1>4, MoveKeeps DEF ReleaseCount
<1>5. CASE ReleaseLive(cpu, c)
  BY <1>5, MoveKeeps DEF ReleaseLive
<1> QED
  BY <1>1, <1>2, <1>3, <1>4, <1>5

\* No step breaks the invariant.
LEMMA KfuncStep == IInv /\ [Next]_vars => IInv'
<1> SUFFICES ASSUME IInv, [Next]_vars PROVE IInv'
  OBVIOUS
<1>1. CASE UNCHANGED <<module, pinned, busy, cell, refs, acquisitions>>
  BY <1>1, ModuleKeeps DEF IInv, TypeInv, HeldInv
<1>2. CASE ModuleInit \/ LoadProgram \/ FreeProgram \/ ModuleExit
  <2> USE ModuleKeeps DEF counters, IInv, TypeInv, HeldInv
  <2>1. CASE ModuleInit
    BY <2>1 DEF ModuleInit
  <2>2. CASE LoadProgram
    BY <2>2 DEF LoadProgram
  <2>3. CASE FreeProgram
    BY <2>3 DEF FreeProgram
  <2>4. CASE ModuleExit
    BY <2>4 DEF ModuleExit, Unpinned
  <2> QED BY <1>2, <2>1, <2>2, <2>3, <2>4
<1>3. ASSUME NEW cpu \in CPU, Enter(cpu) PROVE IInv'
  BY <1>3, ModuleKeeps DEF Enter, counters, IInv, TypeInv, HeldInv
<1>4. ASSUME NEW cpu \in CPU, AcquireNull(cpu) PROVE IInv'
  BY <1>4, <1>1 DEF AcquireNull, AfterNull
<1>5. ASSUME NEW cpu \in CPU, NEW c \in Memory, Kfunc(cpu, c) PROVE IInv'
  <2>1. CASE Read(cpu, c)
    BY <2>1, <1>1 DEF Read
  <2> QED
    BY <1>5, <2>1, AcquireAllocKeeps, AcquireCountKeeps, ReleaseFreeKeeps, MovesKeep
    DEF Kfunc
<1>6. CASE ReadCounter \/ Keep
  BY <1>6, <1>1 DEF ReadCounter, Keep, counters
<1>7. CASE UNCHANGED vars
  BY <1>7, <1>1 DEF vars, counters
<1> QED
  BY <1>2, <1>3, <1>4, <1>5, <1>6, <1>7, ReturnKeeps DEF Next

\* cbpf_ref_acquire keeps the object for its handle, and gives each an identity
\* of its own.
THEOREM KfuncHandlesSound == Spec => []HandlesSound
<1>1. IInv => HandlesSound
  BY DEF IInv, TypeInv, RefsInv, IdsInv, WithReference, Numbered, HandlesSound, Stage,
         Acquiring, Releasing
<1> QED
  BY <1>1, KfuncInit, KfuncStep, PTL DEF Spec

\* The module exit finds no handle, though it looks for none.
THEOREM KfuncUnloadLeavesNothing == Spec => []UnloadLeavesNothing
<1>1. IInv => UnloadLeavesNothing
  <2> SUFFICES ASSUME IInv, module = "gone"
               PROVE  refs = 1 /\ \A c \in Memory : cell[c].stage = "free"
    BY DEF UnloadLeavesNothing
  <2>1. \A c \in Memory : cell[c].stage = "free"
    BY DEF IInv, HeldInv
  <2>2. WithReference = {}
    BY <2>1 DEF WithReference
  <2> QED BY <2>1, <2>2, FS_EmptySet DEF IInv, RefsInv
<1> QED
  BY <1>1, KfuncInit, KfuncStep, PTL DEF Spec

-----------------------------------------------------------------------------
(* Snapshots.                                                                 *)

Work == [acquisitions : Nat, reads : Nat]
Snapshot == [acquisitions : Int, releases : Int, live : Int, reads : Int,
             object_refs : Int, exact : BOOLEAN, since : Work]

\* Cells whose acquisition or release has come to one of the statements T.
In(T) == { c \in Memory : cell[c].stage \in T }
Count(T) == Cardinality(In(T))

Listed == {"live", "unreferenced", "released"}
Unreleased == {"counted", "live", "unreferenced"}

SnapType ==
    /\ releases \in Int /\ live \in Int /\ reads \in Int
    /\ position \in 0 .. 5
    /\ snap \in Snapshot /\ before \in Snapshot /\ made \in Work

\* The other counters against the cells.
CountersInv ==
    /\ live = Count(Listed)
    /\ acquisitions = releases + Count(Unreleased)

\* While no run has come between the files read, the counters say what was read.
SampleInv ==
    position \in 1 .. 4 /\ snap.exact =>
        /\ busy = {}
        /\ snap.acquisitions = acquisitions
        /\ position > 1 => snap.releases = releases
        /\ position > 2 => snap.live = live
        /\ position > 3 => snap.reads = reads

Complete(s) ==
    s.exact =>
        /\ balanced(s)
        /\ acquisitions = s.acquisitions + made.acquisitions + Count({"counted"})
        /\ reads = s.reads + made.reads

\* Since the last whole snapshot the counters went on by the work done.
SinceInv ==
    /\ position < 5 => Complete(before)
    /\ position = 5 => Complete(snap) /\ (before.exact => balanced(before))

SInv == SnapType /\ CountersInv /\ SampleInv /\ SinceInv /\ DeltaExact

\* A step of one cell moves a count by what it does to that cell.
LEMMA StageCount ==
    ASSUME TypeInv, NEW c \in Memory, NEW v \in Cell, cell' = [cell EXCEPT ![c] = v],
           NEW T
    PROVE  /\ Count(T) \in Nat /\ Count(T)' \in Nat
           /\ (cell[c].stage \in T <=> v.stage \in T) => Count(T)' = Count(T)
           /\ cell[c].stage \notin T /\ v.stage \in T => Count(T)' = Count(T) + 1
           /\ cell[c].stage \in T /\ v.stage \notin T => Count(T)' = Count(T) - 1
<1> DEFINE W == In(T)
           V == In(T)'
<1>1. V = { d \in Memory : cell'[d].stage \in T }
  BY DEF In
<1>2. cell'[c] = v /\ \A d \in Memory : d # c => cell'[d] = cell[d]
  BY CellStep
<1>3. W \subseteq Memory /\ V \subseteq Memory
  BY <1>1 DEF In
<1>4. IsFiniteSet(W) /\ IsFiniteSet(V)
  BY <1>3, SetsAssumption, FS_Subset
<1>5. Cardinality(W) \in Nat /\ Cardinality(V) \in Nat
  BY <1>4, FS_CardinalityType
<1>6. \A d \in Memory : (d \in W <=> cell[d].stage \in T) /\ (d \in V <=> cell'[d].stage \in T)
  BY <1>1 DEF In
<1>7. Count(T) = Cardinality(W) /\ Count(T)' = Cardinality(V)
  BY DEF Count
<1> HIDE DEF W, V
<1>8. CASE cell[c].stage \in T <=> v.stage \in T
  <2>1. V = W
    BY <1>2, <1>3, <1>6, <1>8
  <2> QED BY <2>1, <1>5, <1>7, <1>8
<1>9. CASE cell[c].stage \notin T /\ v.stage \in T
  <2>1. V = W \cup {c} /\ c \notin W
    BY <1>2, <1>3, <1>6, <1>9
  <2> QED BY <2>1, <1>4, <1>5, <1>7, <1>9, FS_AddElement
<1>10. CASE cell[c].stage \in T /\ v.stage \notin T
  <2>1. V = W \ {c} /\ c \in W
    BY <1>2, <1>3, <1>6, <1>10
  <2> QED BY <2>1, <1>4, <1>5, <1>7, <1>10, FS_RemoveElement
<1> QED
  BY <1>8, <1>9, <1>10

\* With no run, no cell is in use: the counters balance.
LEMMA IdleBalanced ==
    ASSUME IInv, busy = {}
    PROVE  \A T \in SUBSET (Stage \ {"free"}) : Count(T) = 0
<1> SUFFICES ASSUME NEW T \in SUBSET (Stage \ {"free"}) PROVE In(T) = {}
  BY FS_EmptySet DEF Count
<1>1. \A c \in Memory : cell[c].stage = "free"
  BY DEF IInv, HeldInv
<1> QED
  BY <1>1 DEF In

\* A statement of acquire or release: a run is under way, so no sample is.
\* Counters go with the cells.
LEMMA CellSamples ==
    ASSUME IInv, SInv, NEW c \in Memory, NEW v \in Cell,
           cell' = [cell EXCEPT ![c] = v], busy # {}, UNCHANGED <<busy, readerVars, reads>>,
           NEW l \in Int, live' = live + l, Count(Listed)' = Count(Listed) + l,
           NEW a \in Nat, acquisitions' = acquisitions + a,
           NEW r \in Int, releases' = releases + r,
           Count(Unreleased)' = Count(Unreleased) + a - r,
           NEW m \in Nat, made' = [made EXCEPT !.acquisitions = @ + m],
           Count({"counted"})' = Count({"counted"}) + a - m
    PROVE  SInv'
<1>1. /\ Count(Listed) \in Nat /\ Count(Listed)' \in Nat
      /\ Count(Unreleased) \in Nat /\ Count(Unreleased)' \in Nat
      /\ Count({"counted"}) \in Nat /\ Count({"counted"})' \in Nat
      /\ acquisitions \in Nat /\ releases \in Int /\ live \in Int
  BY StageCount DEF IInv, TypeInv, SInv, SnapType
<1>2. /\ UNCHANGED <<position, snap, before, reads, busy>>
      /\ snap \in Snapshot /\ before \in Snapshot
  BY DEF readerVars, SInv, SnapType
<1>3. made \in Work /\ made' \in Work /\ made'.acquisitions = made.acquisitions + m
      /\ made'.reads = made.reads
  BY DEF SInv, SnapType, Work
<1>4. SnapType'
  BY <1>2, <1>3 DEF SInv, SnapType
<1>5. CountersInv'
  <2>1. live' = Count(Listed)'
    BY <1>1 DEF SInv, CountersInv
  <2>2. acquisitions' = releases' + Count(Unreleased)'
    BY <1>1 DEF SInv, CountersInv
  <2> QED BY <2>1, <2>2 DEF CountersInv
<1>6. SampleInv'
  BY <1>2 DEF SInv, SampleInv
<1>7. ASSUME NEW s \in Snapshot, Complete(s) PROVE Complete(s)'
  <2>1. s.acquisitions \in Int /\ made.acquisitions \in Nat
    BY <1>3 DEF Snapshot, Work
  <2> SUFFICES ASSUME s.exact PROVE Complete(s)'
    BY DEF Complete
  <2>2. /\ balanced(s) /\ reads = s.reads + made.reads
        /\ acquisitions = s.acquisitions + made.acquisitions + Count({"counted"})
    BY <1>7 DEF Complete
  <2>3. acquisitions' = s.acquisitions + made'.acquisitions + Count({"counted"})'
    BY <1>1, <1>3, <2>1, <2>2
  <2> QED BY <1>2, <1>3, <2>2, <2>3 DEF Complete, balanced
<1>8. SinceInv'
  <2>1. position < 5 => Complete(before)'
    BY <1>2, <1>7 DEF SInv, SinceInv
  <2>2. position = 5 => Complete(snap)' /\ (before.exact => balanced(before))
    BY <1>2, <1>7 DEF SInv, SinceInv
  <2> QED BY <1>2, <2>1, <2>2 DEF SinceInv, Complete
<1>9. DeltaExact'
  BY <1>2 DEF SInv, DeltaExact
<1> QED
  BY <1>4, <1>5, <1>6, <1>8, <1>9 DEF SInv

\* The statement that brings a cell from one stage to the next, and the counter
\* that statement changes.
Statement(from, to) ==
    /\ \/ from = "free" /\ to = "allocated"
       \/ from = "allocated" /\ to = "referenced"
       \/ from = "referenced" /\ to = "counted"
       \/ from = "counted" /\ to = "live"
       \/ from = "live" /\ to = "unreferenced"
       \/ from = "unreferenced" /\ to = "released"
       \/ from = "released" /\ to = "unlisted"
       \/ from = "unlisted" /\ to = "free"
    /\ acquisitions' = IF to = "counted" THEN acquisitions + 1 ELSE acquisitions
    /\ releases' = IF to = "released" THEN releases + 1 ELSE releases
    /\ live' = IF to = "live" THEN live + 1 ELSE IF to = "unlisted" THEN live - 1 ELSE live
    /\ made' = IF to = "live" THEN [made EXCEPT !.acquisitions = @ + 1] ELSE made

\* Each of these statements moves the counts of the stages it leaves and enters.
LEMMA StatementSamples ==
    ASSUME IInv, SInv, NEW c \in Memory, NEW v \in Cell,
           cell' = [cell EXCEPT ![c] = v], busy # {}, UNCHANGED <<busy, readerVars, reads>>,
           Statement(cell[c].stage, v.stage)
    PROVE  SInv'
<1> DEFINE from == cell[c].stage
           to == v.stage
<1>1. /\ live \in Int /\ releases \in Int /\ acquisitions \in Nat
      /\ made = [made EXCEPT !.acquisitions = @ + 0]
  <2>1. made \in Work
    BY DEF SInv, SnapType
  <2> QED BY <2>1 DEF IInv, TypeInv, SInv, SnapType, Work
<1>2. /\ Count(Listed) \in Nat /\ Count(Unreleased) \in Nat /\ Count({"counted"}) \in Nat
  BY StageCount DEF IInv
<1>3. /\ (from \in Listed <=> to \in Listed) => Count(Listed)' = Count(Listed)
      /\ from \notin Listed /\ to \in Listed => Count(Listed)' = Count(Listed) + 1
      /\ from \in Listed /\ to \notin Listed => Count(Listed)' = Count(Listed) - 1
  BY StageCount DEF IInv
<1>4. /\ (from \in Unreleased <=> to \in Unreleased) => Count(Unreleased)' = Count(Unreleased)
      /\ from \notin Unreleased /\ to \in Unreleased =>
            Count(Unreleased)' = Count(Unreleased) + 1
      /\ from \in Unreleased /\ to \notin Unreleased =>
            Count(Unreleased)' = Count(Unreleased) - 1
  BY StageCount DEF IInv
<1>5. /\ (from = "counted" <=> to = "counted") => Count({"counted"})' = Count({"counted"})
      /\ from # "counted" /\ to = "counted" => Count({"counted"})' = Count({"counted"}) + 1
      /\ from = "counted" /\ to # "counted" => Count({"counted"})' = Count({"counted"}) - 1
  <2>1. /\ (from \in {"counted"} <=> to \in {"counted"}) =>
               Count({"counted"})' = Count({"counted"})
        /\ from \notin {"counted"} /\ to \in {"counted"} =>
               Count({"counted"})' = Count({"counted"}) + 1
        /\ from \in {"counted"} /\ to \notin {"counted"} =>
               Count({"counted"})' = Count({"counted"}) - 1
    BY StageCount DEF IInv
  <2> QED BY <2>1
<1> DEFINE l == IF to = "live" THEN 1 ELSE IF to = "unlisted" THEN -1 ELSE 0
           a == IF to = "counted" THEN 1 ELSE 0
           r == IF to = "released" THEN 1 ELSE 0
           m == IF to = "live" THEN 1 ELSE 0
<1>6. l \in Int /\ a \in Nat /\ r \in Int /\ m \in Nat
  OBVIOUS
<1>7. /\ live' = live + l /\ acquisitions' = acquisitions + a /\ releases' = releases + r
      /\ made' = [made EXCEPT !.acquisitions = @ + m]
  BY <1>1 DEF Statement
<1>8. Count(Listed)' = Count(Listed) + l
  BY <1>2, <1>3 DEF Statement, Listed
<1>9. Count(Unreleased)' = Count(Unreleased) + a - r
  BY <1>2, <1>4 DEF Statement, Unreleased
<1>10. Count({"counted"})' = Count({"counted"}) + a - m
  BY <1>2, <1>5 DEF Statement
<1> HIDE DEF from, to, l, a, r, m
<1> QED
  BY <1>6, <1>7, <1>8, <1>9, <1>10, CellSamples

\* acquire and release, each of whose statements is one of these.
LEMMA KfuncSamples ==
    ASSUME IInv, SInv, NEW cpu \in CPU, NEW c \in Memory, Kfunc(cpu, c), ~Read(cpu, c)
    PROVE  SInv'
<1>1. cell \in [Memory -> Cell] /\ cell[c] \in Cell /\ acquisitions \in Nat
  BY DEF IInv, TypeInv
<1>2. UNCHANGED <<busy, readerVars, reads>>
  BY DEF Kfunc, AcquireAlloc, AcquireReference, AcquireCount, AcquireLive,
         ReleaseReference, ReleaseCount, ReleaseLive, ReleaseFree, Moves, counters
<1>3. cell[c].stage # "free" => busy # {}
  BY DEF IInv, HeldInv
<1>4. ASSUME NEW from, NEW to \in Stage, Moves(c, from, cpu, to), from # "free",
             Statement(from, to)
      PROVE  SInv'
  <2> DEFINE v == [cell[c] EXCEPT !.stage = to]
  <2>1. v \in Cell /\ v.stage = to
    BY <1>1 DEF Cell
  <2>2. cell' = [cell EXCEPT ![c] = v] /\ cell[c].stage = from
    BY <1>4 DEF Moves
  <2> HIDE DEF v
  <2> QED BY <1>2, <1>3, <1>4, <2>1, <2>2, StatementSamples
<1> USE DEF Statement
<1>5. CASE AcquireAlloc(cpu, c)
  <2> DEFINE v == Fresh(cpu)
  <2>1. v \in Cell /\ v.stage = "allocated"
    BY DEF Fresh, Cell, Stage, Acquiring
  <2>2. cell' = [cell EXCEPT ![c] = v] /\ cell[c].stage = "free" /\ busy # {}
    BY <1>5 DEF AcquireAlloc, Running
  <2>3. UNCHANGED <<acquisitions, releases, live, made>>
    BY <1>5 DEF AcquireAlloc, counters
  <2> HIDE DEF v
  <2>4. Statement(cell[c].stage, v.stage)
    BY <2>1, <2>2, <2>3
  <2> QED BY <1>2, <2>1, <2>2, <2>4, StatementSamples
<1>6. CASE AcquireCount(cpu, c)
  <2> DEFINE v == [cell[c] EXCEPT !.stage = "counted", !.id = acquisitions + 1]
  <2>1. v \in Cell /\ v.stage = "counted"
    BY <1>1, NumberedCell
  <2>2. cell' = [cell EXCEPT ![c] = v] /\ cell[c].stage = "referenced" /\ busy # {}
    BY <1>3, <1>6 DEF AcquireCount, NextId
  <2>3. acquisitions' = acquisitions + 1 /\ UNCHANGED <<releases, live, made>>
    BY <1>6 DEF AcquireCount, NextId
  <2> HIDE DEF v
  <2>4. Statement(cell[c].stage, v.stage)
    BY <2>1, <2>2, <2>3
  <2> QED BY <1>2, <2>1, <2>2, <2>4, StatementSamples
<1>7. CASE ReleaseFree(cpu, c)
  <2> DEFINE v == Free
  <2>1. v \in Cell /\ v.stage = "free"
    BY DEF Free, Cell, Stage
  <2>2. cell' = [cell EXCEPT ![c] = v] /\ cell[c].stage = "unlisted" /\ busy # {}
    BY <1>3, <1>7 DEF ReleaseFree
  <2>3. UNCHANGED <<acquisitions, releases, live, made>>
    BY <1>7 DEF ReleaseFree, counters
  <2> HIDE DEF v
  <2>4. Statement(cell[c].stage, v.stage)
    BY <2>1, <2>2, <2>3
  <2> QED BY <1>2, <2>1, <2>2, <2>4, StatementSamples
<1> USE DEF Stage, Acquiring, Releasing
<1>8. CASE AcquireReference(cpu, c)
  BY <1>4, <1>8 DEF AcquireReference
<1>9. CASE AcquireLive(cpu, c)
  BY <1>4, <1>9 DEF AcquireLive, LiveAfterAcquire
<1>10. CASE ReleaseReference(cpu, c)
  BY <1>4, <1>10 DEF ReleaseReference
<1>11. CASE ReleaseCount(cpu, c)
  BY <1>4, <1>11 DEF ReleaseCount
<1>12. CASE ReleaseLive(cpu, c)
  BY <1>4, <1>12 DEF ReleaseLive, LiveAfterRelease
<1> QED
  BY <1>5, <1>6, <1>7, <1>8, <1>9, <1>10, <1>11, <1>12 DEF Kfunc

\* A step that changes no cell, counter or sample.
LEMMA OtherSamples ==
    ASSUME IInv, SInv, UNCHANGED <<cell, acquisitions, releases, live>>,
           UNCHANGED <<position, before>>,
           \/ busy' \subseteq busy /\ UNCHANGED <<snap, reads, made>>
           \/ /\ snap' = [snap EXCEPT !.exact = @ /\ position = 5]
              /\ UNCHANGED <<reads, made>>
           \/ /\ busy # {} /\ UNCHANGED <<snap, busy>> /\ reads' = reads + 1
              /\ made' = [made EXCEPT !.reads = @ + 1]
    PROVE  SInv'
<1>1. \A T : Count(T)' = Count(T)
  BY DEF Count, In
<1>2. /\ SnapType /\ snap \in Snapshot /\ before \in Snapshot /\ made \in Work
  BY DEF SInv, SnapType
<1>3. CASE UNCHANGED <<reads, made>>
  <2>1. /\ snap' \in Snapshot /\ snap'.since = snap.since
        /\ snap'.exact => snap.exact /\ (position = 5 \/ busy' \subseteq busy)
        /\ snap'.acquisitions = snap.acquisitions /\ snap'.releases = snap.releases
        /\ snap'.live = snap.live /\ snap'.reads = snap.reads
        /\ snap'.object_refs = snap.object_refs
    <3>1. CASE busy' \subseteq busy /\ UNCHANGED <<snap, reads, made>>
      BY <1>2, <3>1
    <3>2. CASE snap' = [snap EXCEPT !.exact = @ /\ position = 5]
      <4> DEFINE e == snap.exact /\ position = 5
      <4>1. e \in BOOLEAN /\ (e => snap.exact /\ position = 5)
        BY <1>2 DEF Snapshot
      <4>2. snap' = [snap EXCEPT !.exact = e]
        BY <3>2
      <4> HIDE DEF e
      <4> QED BY <1>2, <4>1, <4>2 DEF Snapshot
    <3>3. reads' = reads + 1 => FALSE
      <4>1. reads \in Int
        BY <1>2 DEF SnapType
      <4> QED BY <1>3, <4>1
    <3> QED BY <3>1, <3>2, <3>3
  <2>2. SnapType'
    BY <1>2, <1>3, <2>1 DEF SnapType
  <2>3. CountersInv'
    BY <1>1 DEF SInv, CountersInv
  <2>4. SampleInv'
    BY <1>3, <2>1 DEF SInv, SampleInv
  <2>5. SinceInv'
    BY <1>1, <1>3, <2>1 DEF SInv, SinceInv, Complete, balanced
  <2>6. DeltaExact'
    BY <2>1 DEF SInv, DeltaExact, balanced
  <2> QED BY <2>2, <2>3, <2>4, <2>5, <2>6 DEF SInv
<1>4. CASE busy # {} /\ UNCHANGED <<snap, busy>> /\ reads' = reads + 1
           /\ made' = [made EXCEPT !.reads = @ + 1]
  <2>1. /\ made' \in Work /\ made'.reads = made.reads + 1
        /\ made'.acquisitions = made.acquisitions
    BY <1>2, <1>4 DEF Work
  <2>2. SnapType'
    BY <1>2, <1>4, <2>1 DEF SnapType
  <2>3. CountersInv' /\ SampleInv' /\ DeltaExact'
    BY <1>1, <1>4 DEF SInv, CountersInv, SampleInv, DeltaExact
  <2>4. ASSUME NEW s \in Snapshot, Complete(s) PROVE Complete(s)'
    <3> SUFFICES ASSUME s.exact PROVE Complete(s)'
      BY DEF Complete
    <3>1. reads \in Int /\ s.reads \in Int /\ made.reads \in Nat
      BY <1>2 DEF SnapType, Snapshot, Work
    <3>2. /\ balanced(s) /\ reads = s.reads + made.reads
          /\ acquisitions = s.acquisitions + made.acquisitions + Count({"counted"})
      BY <2>4 DEF Complete
    <3>3. reads' = s.reads + made'.reads
      BY <1>4, <2>1, <3>1, <3>2
    <3> QED BY <1>1, <2>1, <3>2, <3>3 DEF Complete, balanced
  <2>5. SinceInv'
    BY <1>2, <1>4, <2>4 DEF SInv, SinceInv, Complete
  <2> QED BY <2>2, <2>3, <2>5 DEF SInv
<1> QED
  BY <1>3, <1>4

\* With no run every cell is free, so the counters balance.
LEMMA IdleCounters ==
    ASSUME IInv, SInv, busy = {}
    PROVE  /\ live = 0 /\ refs = 1 /\ acquisitions = releases
           /\ Count({"counted"}) = 0
<1>1. Count(Listed) = 0 /\ Count(Unreleased) = 0 /\ Count({"counted"}) = 0
  BY IdleBalanced DEF Listed, Unreleased, Stage, Acquiring, Releasing
<1>2. refs = 1
  <2>1. WithReference = {}
    BY DEF WithReference, IInv, HeldInv
  <2> QED BY <2>1, FS_EmptySet DEF IInv, RefsInv
<1>3. live = 0 /\ acquisitions = releases
  BY <1>1 DEF SInv, CountersInv, SnapType
<1> QED
  BY <1>1, <1>2, <1>3

\* What the reader writes down, by the file it is at.
LEMMA ReadFacts ==
    ASSUME SnapType, IInv, ReadCounter
    PROVE  /\ snap' \in Snapshot
           /\ snap'.exact => busy = {} /\ (position = 0 \/ snap.exact)
           /\ snap'.acquisitions = IF position = 0 THEN acquisitions ELSE snap.acquisitions
           /\ snap'.releases = IF position = 1 THEN releases ELSE snap.releases
           /\ snap'.live = IF position = 2 THEN live ELSE snap.live
           /\ snap'.reads = IF position = 3 THEN reads ELSE snap.reads
           /\ snap'.object_refs = IF position = 4 THEN refs ELSE snap.object_refs
           /\ position = 4 => snap'.since = made
<1> DEFINE e == busy = {} /\ (position = 0 \/ snap.exact)
           w == IF position = 4 THEN made ELSE NoWork
<1>1. /\ e \in BOOLEAN /\ (e => busy = {} /\ (position = 0 \/ snap.exact))
      /\ w \in Work /\ (position = 4 => w = made)
      /\ acquisitions \in Int /\ releases \in Int /\ live \in Int /\ reads \in Int
      /\ refs \in Int
  BY DEF SnapType, Snapshot, NoWork, Work, IInv, TypeInv
<1>2. snap' = [snap EXCEPT ![File[position + 1]] = Counter[File[position + 1]],
                           !.exact = e, !.since = w]
  BY DEF ReadCounter
<1>3. snap \in Snapshot /\ position \in 0 .. 4
  <2>1. snap \in Snapshot /\ position \in 0 .. 5
    BY DEF SnapType
  <2>2. position < 5
    BY DEF ReadCounter
  <2> QED BY <2>1, <2>2
<1> HIDE DEF e, w
<1>4. CASE position = 0
  <2>1. File[position + 1] = "acquisitions" /\ Counter["acquisitions"] = acquisitions
    BY <1>4 DEF File, Counter
  <2>2. snap' = [snap EXCEPT !["acquisitions"] = acquisitions, !.exact = e, !.since = w]
    BY <1>2, <2>1
  <2>3. snap' \in Snapshot
    BY <1>1, <1>3, <2>2 DEF Snapshot
  <2>4. /\ snap'.exact = e /\ snap'.since = w
        /\ snap'.acquisitions = acquisitions
        /\ snap'.releases = snap.releases
        /\ snap'.live = snap.live
        /\ snap'.reads = snap.reads
        /\ snap'.object_refs = snap.object_refs
    BY <1>3, <2>2 DEF Snapshot
  <2> QED BY <1>1, <1>4, <2>3, <2>4
<1>5. CASE position = 1
  <2>1. File[position + 1] = "releases" /\ Counter["releases"] = releases
    BY <1>5 DEF File, Counter
  <2>2. snap' = [snap EXCEPT !["releases"] = releases, !.exact = e, !.since = w]
    BY <1>2, <2>1
  <2>3. snap' \in Snapshot
    BY <1>1, <1>3, <2>2 DEF Snapshot
  <2>4. /\ snap'.exact = e /\ snap'.since = w
        /\ snap'.acquisitions = snap.acquisitions
        /\ snap'.releases = releases
        /\ snap'.live = snap.live
        /\ snap'.reads = snap.reads
        /\ snap'.object_refs = snap.object_refs
    BY <1>3, <2>2 DEF Snapshot
  <2> QED BY <1>1, <1>5, <2>3, <2>4
<1>6. CASE position = 2
  <2>1. File[position + 1] = "live" /\ Counter["live"] = live
    BY <1>6 DEF File, Counter
  <2>2. snap' = [snap EXCEPT !["live"] = live, !.exact = e, !.since = w]
    BY <1>2, <2>1
  <2>3. snap' \in Snapshot
    BY <1>1, <1>3, <2>2 DEF Snapshot
  <2>4. /\ snap'.exact = e /\ snap'.since = w
        /\ snap'.acquisitions = snap.acquisitions
        /\ snap'.releases = snap.releases
        /\ snap'.live = live
        /\ snap'.reads = snap.reads
        /\ snap'.object_refs = snap.object_refs
    BY <1>3, <2>2 DEF Snapshot
  <2> QED BY <1>1, <1>6, <2>3, <2>4
<1>7. CASE position = 3
  <2>1. File[position + 1] = "reads" /\ Counter["reads"] = reads
    BY <1>7 DEF File, Counter
  <2>2. snap' = [snap EXCEPT !["reads"] = reads, !.exact = e, !.since = w]
    BY <1>2, <2>1
  <2>3. snap' \in Snapshot
    BY <1>1, <1>3, <2>2 DEF Snapshot
  <2>4. /\ snap'.exact = e /\ snap'.since = w
        /\ snap'.acquisitions = snap.acquisitions
        /\ snap'.releases = snap.releases
        /\ snap'.live = snap.live
        /\ snap'.reads = reads
        /\ snap'.object_refs = snap.object_refs
    BY <1>3, <2>2 DEF Snapshot
  <2> QED BY <1>1, <1>7, <2>3, <2>4
<1>8. CASE position = 4
  <2>1. File[position + 1] = "object_refs" /\ Counter["object_refs"] = refs
    BY <1>8 DEF File, Counter
  <2>2. snap' = [snap EXCEPT !["object_refs"] = refs, !.exact = e, !.since = w]
    BY <1>2, <2>1
  <2>3. snap' \in Snapshot
    BY <1>1, <1>3, <2>2 DEF Snapshot
  <2>4. /\ snap'.exact = e /\ snap'.since = w
        /\ snap'.acquisitions = snap.acquisitions
        /\ snap'.releases = snap.releases
        /\ snap'.live = snap.live
        /\ snap'.reads = snap.reads
        /\ snap'.object_refs = refs
    BY <1>3, <2>2 DEF Snapshot
  <2> QED BY <1>1, <1>8, <2>3, <2>4
<1> QED
  BY <1>3, <1>4, <1>5, <1>6, <1>7, <1>8

\* The reader takes down the next counter; with the last one the snapshot is whole.
LEMMA ReadSamples ==
    ASSUME IInv, SInv, ReadCounter
    PROVE  SInv'
<1>1. /\ snap' \in Snapshot
      /\ snap'.exact => busy = {} /\ (position = 0 \/ snap.exact)
      /\ snap'.acquisitions = IF position = 0 THEN acquisitions ELSE snap.acquisitions
      /\ snap'.releases = IF position = 1 THEN releases ELSE snap.releases
      /\ snap'.live = IF position = 2 THEN live ELSE snap.live
      /\ snap'.reads = IF position = 3 THEN reads ELSE snap.reads
      /\ snap'.object_refs = IF position = 4 THEN refs ELSE snap.object_refs
      /\ position = 4 => snap'.since = made
  BY ReadFacts DEF SInv
<1>2. /\ position \in 0 .. 4 /\ position' = position + 1
      /\ made' = IF position = 4 THEN NoWork ELSE made
      /\ UNCHANGED <<busy, cell, refs, acquisitions, releases, live, reads, before>>
      /\ before \in Snapshot /\ made \in Work
  <2>1. position \in 0 .. 5 /\ before \in Snapshot /\ made \in Work
    BY DEF SInv, SnapType
  <2>2. /\ position < 5 /\ position' = position + 1
        /\ made' = IF position = 4 THEN NoWork ELSE made
        /\ UNCHANGED <<busy, cell, refs, acquisitions, releases, live, reads, before>>
    BY DEF ReadCounter, counters
  <2> QED BY <2>1, <2>2
<1>3. \A T : Count(T)' = Count(T)
  BY <1>2 DEF Count, In
<1>4. SnapType' /\ CountersInv'
  <2>1. made' \in Work
    BY <1>2 DEF NoWork, Work
  <2>2. SnapType'
    BY <1>1, <1>2, <2>1 DEF SInv, SnapType
  <2> QED BY <1>2, <1>3, <2>2 DEF SInv, CountersInv
<1>5. snap'.exact =>
         /\ snap'.acquisitions = acquisitions
         /\ position > 0 => snap'.releases = releases
         /\ position > 1 => snap'.live = live
         /\ position > 2 => snap'.reads = reads
  BY <1>1, <1>2 DEF SInv, SampleInv
<1>6. CASE position # 4
  <2>1. SampleInv'
    BY <1>1, <1>2, <1>5, <1>6 DEF SampleInv
  <2>2. SinceInv' /\ DeltaExact'
    BY <1>2, <1>3, <1>6 DEF SInv, SinceInv, Complete, DeltaExact
  <2> QED BY <1>4, <2>1, <2>2 DEF SInv
<1>7. CASE position = 4
  <2>1. snap'.exact =>
           /\ balanced(snap') /\ Count({"counted"}) = 0
           /\ snap'.acquisitions = acquisitions /\ snap'.releases = acquisitions
           /\ snap'.reads = reads
    BY <1>1, <1>5, <1>7, IdleCounters DEF balanced
  <2>2. SampleInv'
    BY <1>2, <1>7 DEF SampleInv
  <2>3. Complete(snap)'
    <3>1. snap'.exact =>
             /\ acquisitions = snap'.acquisitions + 0 + Count({"counted"})
             /\ reads = snap'.reads + 0
      BY <1>1, <2>1 DEF Snapshot
    <3>2. made'.acquisitions = 0 /\ made'.reads = 0
      BY <1>2, <1>7 DEF NoWork
    <3> QED BY <1>2, <1>3, <2>1, <3>1, <3>2 DEF Complete, balanced
  <2>4. Complete(before)
    BY <1>7 DEF SInv, SinceInv
  <2>5. SinceInv'
    BY <1>2, <1>7, <2>3, <2>4 DEF SinceInv, Complete, balanced
  <2>6. DeltaExact'
    <3> SUFFICES ASSUME snap'.exact, before.exact
                 PROVE  /\ balanced(snap') /\ balanced(before)
                        /\ snap'.acquisitions = before.acquisitions + made.acquisitions
                        /\ snap'.releases = before.releases + made.acquisitions
                        /\ snap'.reads = before.reads + made.reads
      BY <1>1, <1>2, <1>7 DEF DeltaExact, balanced
    <3>1. /\ balanced(before) /\ reads = before.reads + made.reads
          /\ acquisitions = before.acquisitions + made.acquisitions + Count({"counted"})
      BY <2>4 DEF Complete
    <3>2. /\ before.acquisitions \in Int /\ made.acquisitions \in Nat
          /\ before.releases = before.acquisitions
      BY <1>2, <3>1 DEF Snapshot, Work, balanced
    <3> QED BY <2>1, <3>1, <3>2
  <2> QED BY <1>4, <2>2, <2>5, <2>6 DEF SInv
<1> QED
  BY <1>6, <1>7

\* The whole snapshot becomes the one to compare the next with.
LEMMA KeepSamples ==
    ASSUME IInv, SInv, Keep
    PROVE  SInv'
<1>1. /\ position = 5 /\ position' = 0 /\ before' = snap /\ snap' = NoSnapshot
      /\ UNCHANGED <<busy, cell, acquisitions, releases, live, reads, made>>
  BY DEF Keep, counters
<1>2. \A T : Count(T)' = Count(T)
  BY <1>1 DEF Count, In
<1>3. NoSnapshot \in Snapshot
  BY DEF NoSnapshot, Snapshot, NoWork, Work
<1>4. SnapType' /\ CountersInv'
  BY <1>1, <1>2, <1>3 DEF SInv, SnapType, CountersInv
<1>5. SampleInv' /\ DeltaExact'
  BY <1>1 DEF SampleInv, DeltaExact
<1>6. SinceInv'
  BY <1>1, <1>2 DEF SInv, SinceInv, Complete, balanced
<1> QED
  BY <1>4, <1>5, <1>6 DEF SInv

\* Nothing counted, nothing read.
LEMMA SamplesInit == Init => SInv
<1> SUFFICES ASSUME Init PROVE SInv
  OBVIOUS
<1>1. \A T \in SUBSET (Stage \ {"free"}) : Count(T) = 0
  BY FS_EmptySet DEF Init, Free, Count, In
<1>2. Count(Listed) = 0 /\ Count(Unreleased) = 0
  BY <1>1 DEF Listed, Unreleased, Stage, Acquiring, Releasing
<1>3. NoSnapshot \in Snapshot /\ NoWork \in Work /\ ~NoSnapshot.exact
  BY DEF NoSnapshot, Snapshot, NoWork, Work
<1>4. SnapType /\ CountersInv
  BY <1>2, <1>3 DEF Init, SnapType, CountersInv
<1> QED
  BY <1>3, <1>4 DEF Init, SInv, SampleInv, SinceInv, Complete, DeltaExact

\* No step breaks what the samples are worth.
LEMMA SamplesStep == IInv /\ SInv /\ [Next]_vars => SInv'
<1> SUFFICES ASSUME IInv, SInv, [Next]_vars PROVE SInv'
  OBVIOUS
<1> USE DEF counters, readerVars
<1>1. CASE ModuleInit \/ LoadProgram \/ FreeProgram \/ ModuleExit
  BY <1>1, OtherSamples DEF ModuleInit, LoadProgram, FreeProgram, ModuleExit
<1>2. ASSUME NEW cpu \in CPU, Enter(cpu) PROVE SInv'
  BY <1>2, OtherSamples DEF Enter
<1>3. ASSUME NEW cpu \in CPU, Return(cpu) \/ AcquireNull(cpu) PROVE SInv'
  BY <1>3, OtherSamples DEF Return, AcquireNull, AfterNull
<1>4. ASSUME NEW cpu \in CPU, NEW c \in Memory, Kfunc(cpu, c) PROVE SInv'
  <2>1. CASE Read(cpu, c)
    BY <2>1, OtherSamples DEF Read, Running
  <2> QED BY <1>4, <2>1, KfuncSamples
<1>5. CASE UNCHANGED vars
  BY <1>5, OtherSamples DEF vars
<1> QED
  BY <1>1, <1>2, <1>3, <1>4, <1>5, ReadSamples, KeepSamples DEF Next

\* Two snapshots no run overlapped differ by what the runs between them did
\* (cbpf_kfunc.c:58-59, guest.c:249).
THEOREM KfuncDeltaExact == Spec => []DeltaExact
<1>1. SInv => DeltaExact
  BY DEF SInv
<1> QED
  BY <1>1, KfuncInit, KfuncStep, SamplesInit, SamplesStep, PTL DEF Spec
=============================================================================
