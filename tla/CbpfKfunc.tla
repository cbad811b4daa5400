------------------------------ MODULE CbpfKfunc ------------------------------
(* linux/kfunc/cbpf_kfunc.c: the ordinary kfunc control.  Programs run on     *)
(* several CPUs at once and every counter is an atomic of its own, so each    *)
(* statement of acquire and release is a step.  A reader samples the          *)
(* counters one file at a time, as snapshot() of linux/kfunc/guest.c does.    *)
(*                                                                            *)
(* The module relies on Linux's verifier and says so: a program uses and      *)
(* releases only handles it holds, and exits with none.                       *)
EXTENDS Integers, FiniteSets

CONSTANTS
    CPU,                \* processors that run programs
    NoCPU,              \* none of them
    Memory,             \* the allocations the slab has room for
    MaxAcquisitions,    \* bounds of the model
    MaxReads,
    MaxSnapshots

ASSUME SetsAssumption == IsFiniteSet(Memory) /\ NoCPU \notin CPU

VARIABLES
    module,             \* "absent", "registered" or "gone"
    pinned,             \* an owning program is loaded
    busy,               \* the CPUs that run a program
    cell,               \* struct cbpf_cell per allocation, and how far its acquisition or release is
    refs,               \* cbpf_object.refs
    acquisitions, releases, live, reads,
    position,           \* how many of the reader's five files are read
    snap,               \* what they said; exact if no program ran meanwhile
    before,             \* the reader's previous snapshot
    made,               \* handles returned and reads since the previous one
    snapshots           \* snapshots kept

counters == <<refs, acquisitions, releases, live, reads>>
readerVars == <<position, snap, before, snapshots>>
vars == <<module, pinned, busy, cell, counters, readerVars, made>>

Acquiring == {"allocated", "referenced", "counted"}
Releasing == {"unreferenced", "released", "unlisted"}
Stage == {"free", "live"} \cup Acquiring \cup Releasing

\* Cells of cpu, and whether it is inside acquire or release.
Held(cpu) == { c \in Memory : cell[c].stage = "live" /\ cell[c].cpu = cpu }
Inside(cpu) ==
    \E c \in Memory : cell[c].stage \in Acquiring \cup Releasing /\ cell[c].cpu = cpu

Running(cpu) == cpu \in busy /\ ~Inside(cpu)

\* kzalloc'd memory; and freed memory, whose contents no longer matter.
Fresh(cpu) == [stage |-> "allocated", cpu |-> cpu, id |-> 0]
Free == [stage |-> "free", cpu |-> NoCPU, id |-> 0]

NoWork == [acquisitions |-> 0, reads |-> 0]

NoSnapshot == [acquisitions |-> 0, releases |-> 0, live |-> 0, reads |-> 0,
               object_refs |-> 0, exact |-> FALSE, since |-> NoWork]

Init ==
    /\ module = "absent"
    /\ pinned = FALSE
    /\ busy = {}
    /\ cell = [c \in Memory |-> Free]
    /\ refs = 1
    /\ acquisitions = 0 /\ releases = 0 /\ live = 0 /\ reads = 0
    /\ position = 0
    /\ snap = NoSnapshot
    /\ before = NoSnapshot
    /\ made = NoWork
    /\ snapshots = 0

-----------------------------------------------------------------------------
(* The module and the programs that pin it.                                   *)
ModuleInit ==
    /\ module = "absent"
    /\ module' = "registered"
    /\ UNCHANGED <<pinned, busy, cell, counters, readerVars, made>>

LoadProgram ==
    /\ module = "registered" /\ ~pinned
    /\ pinned' = TRUE
    /\ UNCHANGED <<module, busy, cell, counters, readerVars, made>>

FreeProgram ==
    /\ pinned /\ busy = {}
    /\ pinned' = FALSE
    /\ UNCHANGED <<module, busy, cell, counters, readerVars, made>>

\* BUG: a loaded program does not keep the module.
UnpinnedAlways == TRUE

Unpinned == ~pinned

\* Nothing is reset and no live cell is freed.
ModuleExit ==
    /\ module = "registered" /\ Unpinned
    /\ module' = "gone"
    /\ UNCHANGED <<pinned, busy, cell, counters, readerVars, made>>

Enter(cpu) ==
    /\ pinned /\ cpu \notin busy
    /\ busy' = busy \cup {cpu}
    /\ snap' = [snap EXCEPT !.exact = @ /\ position = 5]
    /\ UNCHANGED <<module, pinned, cell, counters, position, before, snapshots, made>>

\* The verifier lets no path return with a handle.
Return(cpu) ==
    /\ Running(cpu) /\ Held(cpu) = {}
    /\ busy' = busy \ {cpu}
    /\ UNCHANGED <<module, pinned, cell, counters, readerVars, made>>

-----------------------------------------------------------------------------
(* cbpf_ref_acquire.                                                          *)
Moves(c, from, cpu, to) ==
    /\ cell[c].stage = from /\ cell[c].cpu = cpu
    /\ cell' = [cell EXCEPT ![c].stage = to]

AcquireAlloc(cpu, c) ==
    /\ Running(cpu) /\ acquisitions < MaxAcquisitions
    /\ cell[c].stage = "free"
    /\ cell' = [cell EXCEPT ![c] = Fresh(cpu)]
    /\ UNCHANGED <<module, pinned, busy, counters, readerVars, made>>

\* BUG: an acquisition is counted before its result is known.
AfterNullCounted == acquisitions + 1

AfterNull == acquisitions

\* want_null, or no memory.
AcquireNull(cpu) ==
    /\ Running(cpu) /\ acquisitions < MaxAcquisitions
    /\ acquisitions' = AfterNull
    /\ UNCHANGED <<module, pinned, busy, cell, refs, releases, live, reads, readerVars, made>>

\* BUG: only the first handle takes a reference.
RefsAfterAcquireFirst == IF refs = 1 THEN 2 ELSE refs

RefsAfterAcquire == refs + 1

AcquireReference(cpu, c) ==
    /\ Moves(c, "allocated", cpu, "referenced")
    /\ refs' = RefsAfterAcquire
    /\ UNCHANGED <<module, pinned, busy, acquisitions, releases, live, reads, readerVars, made>>

\* atomic64_inc_return.
NextId == acquisitions + 1

AcquireCount(cpu, c) ==
    /\ cell[c].stage = "referenced" /\ cell[c].cpu = cpu
    /\ cell' = [cell EXCEPT ![c].stage = "counted", ![c].id = NextId]
    /\ acquisitions' = NextId
    /\ UNCHANGED <<module, pinned, busy, refs, releases, live, reads, readerVars, made>>

LiveAfterAcquire == live + 1

AcquireLive(cpu, c) ==
    /\ Moves(c, "counted", cpu, "live")
    /\ live' = LiveAfterAcquire
    /\ made' = [made EXCEPT !.acquisitions = @ + 1]
    /\ UNCHANGED <<module, pinned, busy, refs, acquisitions, releases, reads, readerVars>>

-----------------------------------------------------------------------------
\* cbpf_ref_read.
Read(cpu, c) ==
    /\ Running(cpu) /\ c \in Held(cpu) /\ reads < MaxReads
    /\ reads' = reads + 1
    /\ made' = [made EXCEPT !.reads = @ + 1]
    /\ UNCHANGED <<module, pinned, busy, cell, refs, acquisitions, releases, live, readerVars>>

(* cbpf_ref_release.                                                          *)
ReleaseReference(cpu, c) ==
    /\ Running(cpu)
    /\ Moves(c, "live", cpu, "unreferenced")
    /\ refs' = refs - 1
    /\ UNCHANGED <<module, pinned, busy, acquisitions, releases, live, reads, readerVars, made>>

ReleaseCount(cpu, c) ==
    /\ Moves(c, "unreferenced", cpu, "released")
    /\ releases' = releases + 1
    /\ UNCHANGED <<module, pinned, busy, refs, acquisitions, live, reads, readerVars, made>>

LiveAfterRelease == live - 1

ReleaseLive(cpu, c) ==
    /\ Moves(c, "released", cpu, "unlisted")
    /\ live' = LiveAfterRelease
    /\ UNCHANGED <<module, pinned, busy, refs, acquisitions, releases, reads, readerVars, made>>

ReleaseFree(cpu, c) ==
    /\ cell[c].stage = "unlisted" /\ cell[c].cpu = cpu
    /\ cell' = [cell EXCEPT ![c] = Free]
    /\ UNCHANGED <<module, pinned, busy, counters, readerVars, made>>

-----------------------------------------------------------------------------
(* The reader.                                                                *)
File == <<"acquisitions", "releases", "live", "reads", "object_refs">>

\* cbpf_counter_get and cbpf_object_refs_get.
Counter == [acquisitions |-> acquisitions, releases |-> releases, live |-> live,
            reads |-> reads, object_refs |-> refs]

ReadCounter ==
    /\ module = "registered" /\ position < 5
    /\ snap' = [snap EXCEPT ![File[position + 1]] = Counter[File[position + 1]],
                            !.exact = busy = {} /\ (position = 0 \/ @),
                            !.since = IF position = 4 THEN made ELSE NoWork]
    /\ made' = IF position = 4 THEN NoWork ELSE made
    /\ position' = position + 1
    /\ UNCHANGED <<module, pinned, busy, cell, counters, before, snapshots>>

\* before = after.
Keep ==
    /\ position = 5 /\ snapshots + 1 < MaxSnapshots
    /\ before' = snap
    /\ position' = 0
    /\ snap' = NoSnapshot
    /\ snapshots' = snapshots + 1
    /\ UNCHANGED <<module, pinned, busy, cell, counters, made>>

Kfunc(cpu, c) ==
    \/ AcquireAlloc(cpu, c) \/ AcquireReference(cpu, c) \/ AcquireCount(cpu, c)
    \/ AcquireLive(cpu, c) \/ Read(cpu, c)
    \/ ReleaseReference(cpu, c) \/ ReleaseCount(cpu, c) \/ ReleaseLive(cpu, c)
    \/ ReleaseFree(cpu, c)

Next ==
    \/ ModuleInit \/ LoadProgram \/ FreeProgram \/ ModuleExit
    \/ \E cpu \in CPU : Enter(cpu) \/ Return(cpu) \/ AcquireNull(cpu)
    \/ \E cpu \in CPU, c \in Memory : Kfunc(cpu, c)
    \/ ReadCounter \/ Keep

Spec == Init /\ [][Next]_vars

-----------------------------------------------------------------------------
\* While a handle exists, from its reference until the release's, the object
\* has a reference for it besides the permanent one; and no two handles that
\* exist at one time have one identity, however the acquisitions of several
\* CPUs interleave (cbpf_kfunc.c:112-113, 135).
HandlesSound ==
    /\ refs >= 1 + Cardinality({ c \in Memory :
                                  cell[c].stage \in {"referenced", "counted", "live"} })
    /\ \A c, d \in Memory :
          c # d /\ {cell[c].stage, cell[d].stage}
                       \subseteq {"counted", "live"} \cup Releasing
          => cell[c].id # cell[d].id

balanced(s) == s.live = 0 /\ s.object_refs = 1 /\ s.acquisitions = s.releases

\* Two snapshots no run overlapped differ by exactly what the runs between
\* them did, and both balance: the comparison of the local runner, which samples
\* only between synchronous runs (cbpf_kfunc.c:58-59, guest.c:249).
DeltaExact ==
    position = 5 /\ snap.exact /\ before.exact =>
        /\ balanced(snap) /\ balanced(before)
        /\ snap.acquisitions = before.acquisitions + snap.since.acquisitions
        /\ snap.releases = before.releases + snap.since.acquisitions
        /\ snap.reads = before.reads + snap.since.reads

\* When the module goes no handle is left for anyone to return to it, without
\* any fallback that would free one (cbpf_kfunc.c:160-168).
UnloadLeavesNothing ==
    module = "gone" => refs = 1 /\ \A c \in Memory : cell[c].stage = "free"
=============================================================================
