# cBPF in TLA+

A verification development of cBPF: TLA+ modules translated from the sources,
TLC configurations that check them on small instances, and theorems that
TLAPS checks for every value of the constants. Paths below are relative to the
repository.

## The system

cBPF studies how a right obtained by an *acquisition* can be kept apart from
the object it refers to: two acquisitions may denote one live object, and
consuming one must end every alias of it and nothing else.

| Part | Source | State | Operations | Talks to |
|---|---|---|---|---|
| Host reference interpreter | `src/cbpf.c`, `src/cbpf.h` | registers, spills, live cells, result record | validate, one per opcode, trap, cleanup | its caller only |
| Ownership model | `theory/check_model.py` | acquired, live, aliases, per-token counters, refcount, terminal | one per opcode, terminate | oracle and conformance checkers |
| Trusted gate interpreter | `src/gate.c`, `src/gate.h` | the same with handles, cells, views, provider count, metrics | acquire, read, release, identify, consume | its caller; shares the validator and the result record |
| Host demos | `src/demo.c`, `src/gate_demo.c`, `src/cheri_demo.c` | cases counted and matched; the probe's cells, pipe and child | run each program and compare; fork, fault, report, wait | the interpreters; a child process |
| Kernel gate runtime | `linux/ownership/cbpf_runtime.c` | one shared reference count; per CPU the active invocation with its cells, views and counters | test_invoke, enter, gateway, three gates, cleanup; boot controls and registration | restricted code calls it through a sealed gateway; all CPUs share the count |
| Restricted compiler | `linux/ownership/cbpf_jit.c` | flow facts per instruction, code image, `cbpf_gate` flag | match, admit, generate (three passes), publish | runs after the Linux verifier, produces the code that calls the runtime |
| Kernel integration | `linux/ownership/integration.patch` | `cbpf_gate` in the program | attach, link and map refusals, test-run routing | compiler, runtime |
| Platform registers | `linux/ownership/platform.patch` | RDDC and RCSP in the exception frame | exception entry and return | interrupts the runtime |
| Ordinary kfunc control | `linux/kfunc/cbpf_kfunc.c` | one object, four separate atomic counters | acquire, read, release, counter reads, unload | programs on any CPU, readers of module parameters |
| Array-map authority | `linux/spatial/array-authority.patch` | root capability of an array | allocate, look up, free | BPF map core |
| Guests | `linux/kfunc/guest.c`, `linux/ownership/guest.c`, `linux/spatial/native-guest.c` | descriptors, totals, place in the table of cases | load, run, compare, report | the kernel through `bpf(2)`, sysfs and a console |
| Checkers and tools | `theory/check_*.py`, `tools/` | none of their own | comparison, builds, digests | — |

`evidence/` and `output/` hold archived snapshots of the same sources, and logs;
nothing builds them and they are not modelled.

What is hard here. On the host: aliases that outlive what they name, in
registers and spill slots; counters of the same drops kept in three places; a
cleanup loop that follows every kind of ending. In the gate interpreter:
identity found by searching views, liveness that must not be a NULL test, and
a preparation step that may fail with acquisitions outstanding. In the kernel:
CPUs interleaving on one count between its changes and those of private
authority, failure that is visible only in a register value, and entry that may
be refused. In the compiler: one pass whose facts must hold at every later
join, and three passes that must agree word for word. In the module: counters
that are atomic each and not together. In the array maps: a capability whose
exactness depends on where memory happens to lie, and four ways for an
allocation to fail. In the guests: a verdict that must not be reachable past a
failure. `PROJECT.json` lists each
hazard at its line with the properties that would catch it going wrong.

What makes each part correct:

| Part | Correct when |
|---|---|
| Reference interpreter | it accepts only programs it can run, and names the first offence; counters, cells and the reference count agree at every step; the event buffer is never overrun; every ending consumes every acquisition once and restores the baseline; it always returns |
| Ownership model | identities are never reused, consumed at most once, exactly once by the end; releasing one leaves the others live |
| Gate interpreter | handles resolve to one acquisition, authority and references match, metrics add up, authority never comes back, a representation failure leaves nothing behind; otherwise it behaves as the reference interpreter |
| Gate runtime | the shared count is the baseline plus the rights at every interleaving; verdicts are honest; a refused gate ends the program; release is atomic; every invocation comes back |
| Boot controls | exactly the kernels with a sound gate and exact capabilities register it, and every control leaves the baseline |
| Restricted compiler | what it admits keeps to its facts at run time; a published image is complete and linked; what it refuses leaves nothing behind and is never run another way |
| Integration | a program matched once is on no hook; the gates act for a program only inside its own test run |
| kfunc control | a handle keeps the object and its own identity; snapshots no run overlaps differ by what the runs did; unloading leaves nothing |
| Array authority | a lookup gives the value and nothing else, for all entries of a map or for none; no failure and no free leaves authority |
| Guests and demos | PASS is earned; programs they want refused never run; descriptors are closed; they end |
| Platform registers (not modelled) | an interrupted restricted continuation gets its own registers back |

## Modules

| Module | Models | Depends on |
|---|---|---|
| `CbpfIR` | instructions, operand rules, the result record (`cbpf.h`, the switch of `cbpf_validate`) | |
| `CbpfOwnership` | the transition relation of `check_model.py`: the abstract specification | |
| `CbpfValidate` | `cbpf_validate` as a scan, one iteration of its loop at a time | `CbpfIR` |
| `CbpfMachine` | `cbpf_run` | `CbpfIR`; implements `CbpfOwnership` |
| `CbpfGate` | `cbpf_gate_run` for the host and for purecap | `CbpfIR`; implements `CbpfMachine` |
| `CbpfRights` | what the kernel runtime promises about the shared object | |
| `CbpfKernel` | `cbpf_runtime.c` on several CPUs | implements `CbpfRights` |
| `CbpfBoot` | the boot controls and `cbpf_cap_init`, on the source's gate and on wrong ones | |
| `CbpfProgram` | the life of programs: flag, hooks, links, runs and entry on several CPUs (`integration.patch`, `cbpf_test_invoke`, `cbpf_enter`) | |
| `CbpfKernelLife` | a kernel from its initcalls to programs | composes `CbpfBoot` and `CbpfProgram` |
| `CbpfJitAdmit` | `admit`, and the run of what it admits against the gates | |
| `CbpfJitImage` | `cbpf_jit_compile` around it: three passes, failure paths, publication | |
| `CbpfOwnershipGuest` | `linux/ownership/guest.c` and its seven programs | composes with `CbpfJitAdmit` |
| `CbpfKfunc` | `cbpf_kfunc.c` under programs on several CPUs and a reader | |
| `CbpfKfuncGuest` | `linux/kfunc/guest.c`, its nineteen programs, and the module as one program at a time sees it | |
| `CbpfArrayAuthority` | `array-authority.patch` | |
| `CbpfArrayGuest` | `native-guest.c`, its program and its host | composes with `CbpfArrayAuthority` |
| `CbpfDemo`, `CbpfGateDemo` | `demo.c`, `gate_demo.c` with all their programs | compose with `CbpfMachine` and with `CbpfGate` beside a second `CbpfMachine` |
| `CbpfCheriProbe` | `cheri_demo.c`: two processes and a pipe | |
| `MC*` | constants for TLC, and which of several components a behaviour is of | the modules they are named after |
| `*Proofs` | theorems and their proofs | the module they are named after |

The chain is `CbpfGate` implements `CbpfMachine` implements `CbpfOwnership`,
each by an `INSTANCE ... WITH` that appears at the end of the lower module, and
each step of the chain is proved as well as checked.

### State and actions against the code

*CbpfMachine.* `regs`, `spills` and `r` are the variables of `cbpf_run`; `live`
is the set of tokens whose `live[]` entry is set; `cell` is the loop variable of
the cleanup loop; `phase` is the place in the function. Each action is one
outcome of one turn of the loop, bookkeeping and event included: `Acquire`,
`AcquireNull` and `AcquireExhausted` are the three ways through
`case CBPF_ACQUIRE`, `UseNull` and `UseStale` the two traps of READ and
RELEASE. `CleanupCell` and `CleanupSkip` are one turn of the loop at `finish:`.
Of the event array only the last entry and the count are kept, since entries
are never changed. The program is revealed as it is executed: at `pc` any instruction that
`cbpf_validate` would admit there may stand. Validation looks at one
instruction and its index, except that the last must be RETURN (`ValidAt`), and
no index is visited twice (`PcAdvances`), so these are the behaviours of all
validated programs. Rejection may happen to any program, naming any index in
range; `CbpfValidate` decides which.

*CbpfValidate.* `program` is `p` and `n`, chosen among the constant `Programs`,
and `i` the index of the loop. Its variables and its specification `ScanSpec`
have names of their own, so that what is proved of the scan can be used where
`CbpfMachine` reveals its program. `bad_pc` is what the caller finds behind the
pointer, `NoPc` as long as nothing was written. What a safe program is
(`AcceptedIsSafe`) is said again, per opcode and apart from the scan, from
the accesses `cbpf_run` makes.

*CbpfOwnership.* A state of the Python model with `terminal = ""` is "active"
here. Registers and spill slots are the two alias tables; `Capacity` is the
number of identities an invocation may hand out.

*CbpfGate.* A handle is the index of the cell it is a view of; `purecap`
chooses the build. `cells[i]` is `"null"`, `"object"` or `"untagged"`: what
`consume` leaves depends on the build. `inexact`, chosen among the constant
`Layouts`, holds the cells for which `prepare_view` fails. `RepresentationError` is the path through
`GATE_REPRESENTATION`, the other actions are as in `CbpfMachine`. `consume` is one
step: the code is sequential, and nothing looks between the removal of the authority and
the drop of the count (in the kernel runtime, where other CPUs do, `CbpfKernel`
has two).

*CbpfKernel.* One record `inv[c]` per CPU is the `struct cbpf_invocation` on
the stack of `cbpf_test_invoke`. Everything in it is private to the CPU, so a
step is split only where the shared `refs` is touched: `AcquireCount` and
`AcquireStore` around line 120, `Clear` and `ReleaseCount`/`CleanupCount`
around line 82. The gateway is a step of its own (`Continue`, `Abort`), because
it decides on the returned value only. The restricted program is the
environment: it calls any gate with any scalar or any capability it may hold.
That is more than the compiler admits, on purpose: the runtime's refusals are
its own defence. `cbpf_exact` may fail at any acquisition and `cbpf_enter` at
any entry. Traces are not modelled.

*CbpfBoot.* `check` is the control that is run and `step` the place in it; `s`
is the invocation on its stack, `ctx` the callback's context. `fault` makes the
gate wrong in one thing; the six are those a control exercises. A gate wrong
only at a third acquisition, or only after it has failed once, would pass: no
control goes there, and `ControlsDecide` claims nothing about it. None of the six
makes the callback's own check of its alias fail (`Canonical`, always true by
`CallbackCanonical`).

*CbpfProgram.* `matched` is what the compiler saw, `cbpf_gate` the flag it set;
they are apart because what must hold is about the first and the code tests the
second. `stack[c]` are the runs on a CPU, one interrupting another; `RunStray`
is a run the runtime did not start. `CbpfKernelLife` starts with the controls
(initcalls precede the first process) and lets programs with gate calls be
loaded only if they registered the kfuncs.

*CbpfJitAdmit.* `flow` is `c->flow`, one record of facts for each instruction;
`AdmitInsn` and `RejectInsn` are one turn of the loop of `admit`. When the pass
admits, the same module runs the program: `regs` holds words and handles,
`known` what the program has written, `cells` the gate's view, and the stack
slot starts as `Leftover`, what the kernel's stack held. `Uses`, what an
instruction reads, is said apart from the pass.

*CbpfJitImage.* A word is a name and one argument. A template is `Fixed` words
of the source's number with those put in that depend on a place, a constant or
the index of a call; `FRAME` and `SCRUB` count the words of the parts that depend
on the kernel's configuration. `index`, `words`, `layout`, `image` are the
compiler's own. `Builds` gives the configuration and the two limits. `admit`
is one step here: it refuses, or accepts what is `Linkable`, which
`CbpfJitAdmit` shows of every program it admits (`JitAdmitsLinkable`).
With the layout's distances unknown the first pass branches to word 0; when
what it emits can be encoded, so can the true distances: `PassesAgree`.

*CbpfKfunc.* A handle's `stage` is the statement its acquisition or release has
come to; memory is finite. The contract of the verifier (a program uses what
it holds and exits with nothing) is the module's stated premise and is the
environment here. `snapshot()` reads five files in five steps.

*CbpfArrayAuthority.* Addresses and lengths are small numbers, `Granule` and
`Exact` the rule for exact bounds, `HEADER` the fields before the values.
`AllocArea`, `MakeRoot`, `KeepRoot`, `NoMemoryForRecord` are the steps of
`array_map_alloc`, `FreeMap`, `FreeRecord`, `FreeArea` those of
`array_map_free`; `freed` keeps what memory given back still held. Attributes say
whether a map is a plain array and whether its values have fields of the kernel's
(`map->record`): allocation asks for the first only, a lookup for both
(`Supported`), so a plain array with such fields has a root and a record and gives
out nothing. The stride
is a multiple of eight, so whether an element has exact bounds depends on the
value's size and never on its index: `AllOrNone`.

*Guests and demos.* One action per call or comparison with every failure it
tests for; the table of cases is data. In `CbpfOwnershipGuest` `TestRun` issues the
command, and the kernel goes on from there: the program starts, or it is
refused at entry (`EntryRefused` of `CbpfJitAdmit`) and the value is 0, or the command fails
(`TestRunFails`). The loader sees the value only, and `fail_second` is to bring back 0:
its PASS does not tell a run cut short at the second gate from a program
never entered, and `LoaderVerdict` claims no more of it than that. (The host tells the two apart by
the kernel's trace.) In `CbpfKfuncGuest` the program is run
instruction by instruction on a small eBPF machine (`Step`), and `AloneInit`
runs each program by itself, the five probes too. `CbpfGateDemo` keeps
`INT64_MIN` as -64. `CbpfCheriProbe` starts with a machine that faults on an
untagged capability or with one that does not; `read` and `waitpid` may fail whatever
the child does, and a child whose reader is gone is ended by SIGPIPE.

## Runs

Components that do not interact share a run: the initial state chooses which of
them the behaviour is of, the others stay as they are.

| Run | Bounds | Question |
|---|---|---|
| `ownership` | 3 alias registers, 2 spill slots, capacity 3 | is each identity consumed once, and without others, in every operation sequence? |
| `validate` | programs up to 3 instructions, and one over the limit; operands and immediates in and out of range | does the scan accept exactly what may run, and name the first offence? |
| `machine` | 2 registers, 1 slot, 2 cells, 6 instructions | accounts, buffer, settled result, implementation of the ownership model, and does every run return? |
| `gate` | the same sizes, 5 instructions, both builds, second cell with an exact view or without | handles, authority, references and metrics; is a representation failure clean? |
| `gate_refines` | 4 instructions, both builds, every view exact | is it the reference interpreter step for step? |
| `kernel` | 2 CPUs, 3 gate calls each, symmetric CPUs | conservation of the shared count, honest verdicts, terminal failure, linearizable release |
| `kernel_live` | 2 CPUs, 2 gate calls each | does every invocation come back? |
| `compiler` | admission: all programs of two shapes (an acquisition and three of some fourteen instructions; two acquisitions, a branch and seven slots) and the loader's; loader: its seven programs; generation: six units, all attributes, the source's limits and limits some units meet | do the pass's facts hold at run time, are images linked, is the loader's verdict earned? |
| `kernel_life` | the gate and six wrong ones; 3 programs, 2 CPUs with runs two deep, 1 link | is a gate offered only when sound, and entered only from the program's own test run? |
| `kfunc` | 2 CPUs, 2 allocations, 2 acquisitions, 1 read, 2 snapshots | do handles, identities and snapshots stand every interleaving? |
| `array` | 2 maps at 5 addresses, 7 sets of attributes; the guest's own map | is a lookup exact, and is nothing left by a failure or a free? |
| `programs` | the sources' own: 15 and 494 programs, both builds, 64 instructions; the probe; 19 guest programs, 32 repetitions, 128 identifiers | is PASS earned, are probes refused for cause, does every program end? |

Why the bounds are enough to be interesting: two cells is the size in the
sources (`CBPF_CELLS`, `cells[2]`). Two registers and a slot let an alias of a
consumed acquisition exist beside a live one. Four instructions reach
acquire, release, stale use, return, and three acquisitions; six reach both
acquisitions with an alias of each. Two CPUs give every pair of interleavings
at the count, and the count is the only shared variable. Three gate calls give
acquire, release, stale use, and the exhausting third acquisition. A branch
over two acquisitions is the least in which call sites and calls of a run can
differ, and joins an edge from before the first with one from after the second.
The addresses and sizes of `array` give every combination of an
exact or inexact map and an exact or inexact value. Three programs are one that
runs, one that interrupts and one on a hook. The acquisitions and
reads of `kfunc` suffice for each statement of one program to fall between any
two of another's.

Each property has a mutant in `PROJECT.json`, an operator marked `BUG` in the
modules: put in place of the definition it corrupts, it makes the property
fail under the same configuration.

Deadlock is checked where the code never stops: in the interpreters, whose
return is a step of its own, in the runtime and in `kernel_life`. The others
come to an end, as their configurations say.

Fairness. `machine` assumes weak fairness of `Progress`: a C function that can
take its next step takes it. `kernel_live` assumes weak fairness of each CPU's
`Run`: bottom halves are disabled and no step waits for another CPU; the start
of an invocation is not fair. `MaxCalls` stands for the finite number of
calls a forward-only program of at most 64 instructions makes; without it
`Completes` would not follow. `programs` assumes that each program, and of
`cheri_demo.c` each of its two processes, goes on; a read of the pipe is
enabled only when there is a report or no writer left, and that `read` or `waitpid` fails is
possible and never owed.

## Proofs

Each `*Proofs` module proves an inductive invariant from `Init` and every action, then derives the properties the runs check.

*CbpfOwnershipProofs*: `OwnershipTypes`, `OwnershipAliases`,
`OwnershipConsumedOnce`, `OwnershipBaseline`, `OwnershipIndependence`, for any
number of registers, slots and acquisitions. The invariant relates the live set
to the acquired prefix and to the counters; the reference count is a
cardinality, so the steps use the facts of `FiniteSetTheorems` about adding and
removing one element.

*CbpfMachineProofs*: `MachineTypes`, `MachineWithinProgram`,
`MachineEventsFit`, `MachineAccountsAgree`, `MachineSettled`,
`MachineAdvances`, and `MachineImplementsOwnership`, for any sizes and field
ranges. `EventsFit` is not inductive: the invariant also says that events do
not outnumber `pc` while running, and during cleanup what remains is at most
one per cell still to visit. `SettledResult` needs that cells below the loop
index are no longer live. The refinement maps every step to one abstract step
or a stutter; ending a run is the abstract termination, so the cleanup steps
after it are stutters. The module also proves the scan, `ValidateTypes`,
`ValidateAccepts` and `ValidateRejects`: everything scanned so far was
admissible. `ValidateAdmitsFetched` joins the two: what a scan accepted is, at
every index, an instruction that `CbpfMachine` may reveal there, so the
program revealed as it runs stands for every validated one.

*CbpfKernelProofs*: `KernelTypes`, `KernelRefsConserved`,
`KernelAccountsMatch`, `KernelVerdictHonest`, `KernelFailureIsTerminal` and
`KernelImplementsRights`, for any finite set of CPUs and any number of gate
calls. None of the four invariants is inductive alone. `LocalInv` adds, for
each CPU, what its place in the code says of its private record: a program
that runs has not failed, the cell about to be stored into is the first unused
one, cells the cleanup loop has passed are not live, and `x0` is the failure
value exactly when the record says so. Each action has one lemma: it keeps
`LocalInv` of its CPU, leaves the others alone (`Only`), and moves the count
and the authority in one of five ways (`RefStep`): neither, count up, count
down, authority stored, authority cleared. Conservation follows from the five
shapes alone (`RefStepConserves`), and in the refinement of `CbpfRights` the
fourth is an acquisition, the fifth a release, and the others stutter, but for
the end of an invocation.

*CbpfProgramProofs*: `ProgramNeverHooked` and `ProgramEntryNeedsContext`, for
any CPUs, programs and links. The first needs that the flag covers every
program the compiler met a gate call in and that hooks only hold loaded
programs (`ProgramInv`): a program being loaded is then on no hook, so flagging
it cannot come too late. The second needs, for each CPU (`CpuInv`, `Good`),
that a program is on its stack at most once and that a test run of a flagged
program is the outermost one. A program reached by a path that ignores the flag
then cannot share its name with the run that made the context, so the one that
passes `cbpf_enter` is that run, and when it leaves the CPU is idle. Each action
changes the stack of one CPU (`OneCpu`); what it does to that stack is a matter of
sequences (`GoodPath`, `GoodInvoke`, `GoodEnter`, `GoodLeave`).

The module then puts the boot before the programs. `LifeOnlySoundGates` holds for
any set of the six faults, any CPUs, programs and links. A verdict is right because
of what the control went through before it, so the invariant says at every place of
a control what it finds (`AcquireInv`, `GuardInv`, `CallbackInv`,
`VerdictInv`, `OutInv`): how many cells are tagged, what was counted, and what the
provider's count is. `DecisionInv` carries the verdicts on: three of the six faults
never get past the first control, so a kernel at a later one has none of them
(`Late`); of the other three the last control is the judge. There is one lemma for
each step of a control, and lemmas for what a call of a faulty gate does to a
held and to a stale cell. Since the first control that fails ends
the boot, `registered` means no fault. That no sound gate is refused needs the
other direction: with no fault every verdict passes, and only bounds that are not exact
can stop it. `LifeImplementsProgram` maps such a kernel to `CbpfProgram` (the boot
stutters), so `FlaggedNeverHooked` and `EntryNeedsContext` hold of it too
(`LifeNeverHooked`).

*CbpfKfuncProofs*: `KfuncHandlesSound`, `KfuncUnloadLeavesNothing` and
`KfuncDeltaExact`, for any CPUs, any finite memory and any interleaving. Acquisition and release are
several statements long, so the count is right only against the place of each
handle: the object's references are the base and the handles between taking a
reference and giving it back, identities never exceed the acquisitions
counted, and two handles hold different ones. That unloading finds no handle
needs the chain the kernel provides: a handle belongs to a running CPU, a run
pins its program, a program pins the module. Each statement is one step of one
handle; `CellKeeps` and `MoveKeeps` say what such a step must show.
For the snapshots each counter is related to the handles past its statement:
live counts those listed, acquisitions are the releases and those not yet
released (`CountersInv`). While no run has come between the files, what was read
is what the counters still say (`SampleInv`), and from the last whole snapshot on
they have moved by the work done and what is under way (`SinceInv`). `Statement` is what each
of the eight statements of an acquisition and a release does to the counters.

*CbpfGateProofs*: `GateHandlesResolve`, `GateAuthority`, `GateMetrics`,
`GateFailureLeavesNothing` and `GateImplementsReference`, for both builds, any
sizes and any layouts. The invariant that carries the rest is that a handle
anywhere, in a register, a spill slot or in the hands of the gate, is the view
of an acquired cell, so the search by which the gate identifies it has exactly
one answer and never fails: a representation can fail at an acquisition only,
and only in purecap. Live and consumed acquisitions make up those made, the
cleanup loop has left behind it nothing live, and the metrics follow. For the
refinement a token is a handle plus one, and each action has one lemma mapping
it to the action of the reference interpreter of the same name. It holds as
long as no view is refused (`Exact`), which on the host is always; with
`MachineImplementsOwnership` the whole chain from gates to the ownership model
is proved.

The module's second part is about the two programs that judge such runs, in the
composition `MCCbpfPrograms` checks. `GuestProbesForCause` is about all that
`CbpfKfuncGuest` loads, for every outcome of every acquisition; nothing is assumed.
First, what the program texts are: `Piece` and `Has` say where a text begins in another,
`PiecesJoin` puts texts one behind the other, and
so `ValidText`, `NullText`, `AliasedText`, `UntestedText` and `LeakedText` are proved
of what the builders in the source make, instruction by instruction, for
both registers, all spills and both results; `CasesAre` says which of them each
of the nineteen cases is. Second, one lemma for each kind of instruction says what it leaves
in registers, slots and the module's counters. `RunInv` lists, for each kind of
text, the places a run can be at, with what is held there, how many handles
were acquired, released and read, and whether one was refused or misused; each
lemma is cited once for each place. Third, `GuestInv` follows the guest
between runs: its module is balanced (`ModuleInv`), a probe does not get past its
loading (`CaseInv`), each stage has its descriptors open (`FilesInv`).
`GuestPassIsEarned` needs `Repeats \in Nat` and one invariant more: `TotalsInv` says that
the counters are what the cases gone by add up to (`Taken`, `Looked`; `CaseAdds` adds
one case). `ProbePassIsEarned` follows both processes of `CbpfCheriProbe`: what may be
in the pipe on which machine (`WatchInv`), what was seen in which round
(`RoundInv`), and hence what a verdict rests on (`VerdictInv`).

*CbpfArrayProofs*: `ArrayValueExactly`, `ArrayAllOrNone`, `ArrayNothingLeft`
and `ArrayGuestHonest`, for any number of maps and any sizes, addresses and
entries. What is recorded of a map is right for its place in allocation and in
free (`MapInv`), its capability is that of its own memory or none (`CapInv`),
the memory of two maps never overlaps (`AreasApart`), and what programs hold was
looked up in a map that is still live (`HandedInv`, `AnswerInv`). That all entries
of a map get a value or none does needs arithmetic (`EntryAligned`): a value's
granule divides its map's, so it divides the map's address and length, and where it
divides the value's size it divides the stride and the header too; whether an
entry has exact bounds is then a matter of the value's size alone. That a map with
special fields gives out nothing comes from the lookup alone, since its record is as good
as any other's (`LookupGives`).
The guest's invariant (`GInv`) follows its place:
the program ran once, on bytes it holds the value of, before the readback it
compares.

*CbpfJitProofs* has three parts. `JitFactsCoverRun`, `JitNoUndefinedUse`,
`JitGateArguments` and `JitSettled` are about `admit`, for every set of
programs of up to 64 instructions. While the pass runs, every instruction behind it was admissible
under the facts it now has, and its edges carry those facts on (`Passed`).
Edges go forward, so facts behind the pass are final, and joining only adds to
those ahead (`JoinFacts`); when it ends, every instruction is `Passed`
(`AdmittedInv`). The run then stays covered by induction: the values an
instruction leaves are covered by the facts on the edge it takes
(`EdgeKeeps`), and those are below the facts at its end. Acquisitions made
never outnumber the call sites gone by, which are at most two.

`CompilerImageLinked` and `CompilerNothingLeftBehind` are about what is
generated, for every program, every kernel configuration and every limit.
The layout pass, as long as it has refused nothing, has put each instruction
where the one before ends (`LayoutInv`). The two passes after it find every
place where it was (`PlaceInv`), and what the second has written is what the third
would write (`WordsInv`), so a published image is all there (`PublishedInv`).
Neither can fail. They have room, since the layout pass measured it. And their
branches are within reach: the layout pass sent every branch back to word 0, and the
last instruction is one, an EXIT, so all of the body lies within reach of word 0;
the true distances are between places of the body, or lead at most two words
past its end and start well behind word 0, and so are no longer.
`JitAdmitsLinkable` is what joins these two parts:
a program that `admit` has accepted has forward branches and an EXIT at its end.

`LoaderVerdictEarned` is about the guest that loads seven fixtures, with no
assumption on the constants: the final PASS means that the three fixtures with a value to
bring back ran, none that is to be rejected did, and of `fail_second` that 0 came
back. That a fixture is admitted, and brings back the
expected value, cannot come from the soundness of the analysis, which says
nothing of programs that are refused. So the invariant (`LoaderInv`) follows each fixture
instruction by instruction: `Belief` is what the pass believes behind each index (every
instruction but the error exits has one incoming edge, so joins are trivial, `JoinBelief`), and
`RunBelief` is what registers, spill slot and the two cells hold there in a run. There is one lemma for each
kind of instruction, and they are cited once for each index. `LoaderAnalysisSound`
carries the soundness of the analysis over to the loader, which starts it anew for each
fixture; it assumes that the fixtures are among `Programs`.

Assumptions: `SizesAssumption` and `FieldsAssumption` of `CbpfIR` (sizes are
natural numbers, fields are integers), `ProgramsAssumption` of `CbpfValidate`
(programs are sequences of instructions, `NoPc` is no index),
`CapacityAssumption` of `CbpfOwnership`, `NoProgramAssumption` of `CbpfProgram`
(`NoProgram` is no program), `FaultsAssumption` of `CbpfKernelLife` (the faults are the
six modelled, or none), `EnvironmentAssumption` of
`CbpfKernel` (finitely many CPUs, the three operations exist, null and its
scalars are among the arguments), `SetsAssumption` of `CbpfKfunc` (memory is
finite, `NoCPU` is no CPU), `LayoutsAssumption` of `CbpfGate` (a layout is a
set of cells), `ProgramsAssumption` of `CbpfJitAdmit` (programs are
sequences of 1 to 64 instructions), `UnitsAssumption` of `CbpfJitImage` (units are
sequences of instructions with an offset; limits are natural numbers),
`MemoryAssumption` and `GranuleAssumption` of `CbpfArrayAuthority` (addresses are natural numbers,
values and maps are not empty, as `array_map_alloc_check` demands; the largest
granule modelled serves the largest map) and `GuestAssumption` of
`CbpfArrayGuest` (there is a map for it). `Repeats`, the guest's 32, is a natural number in
`GuestPassIsEarned`.

Type invariants and a few stepping stones (`OwnershipAliases`,
`OwnershipBaseline`, `MachineWithinProgram`, `MachineAdvances`,
`ValidateAdmitsFetched`, `JitAdmitsLinkable`) are theorems and not properties of a run.

Checked by TLC only: of `PassIsEarned` the verdicts of the two demos, `Demo!Demonstrated` and
`AllCasesMatch` (`Guest!PassMeansAll` and `Probe!PassMeansFaults`, its other two
parts, are `GuestPassIsEarned` and `ProbePassIsEarned`): that is 15 and 494 fixed programs
on interpreters of fixed sizes, all of whose behaviours are in TLC's run; and the
liveness properties `Terminates`, `Completes` and `AllEnd`, since fairness and
`ENABLED` are beyond the prover.

## Not modelled

Capability encodings and permissions (a capability is its identity and its tag,
in the array maps also its bounds); of an array map the rounding of its entries to a
power of two and `index_mask`, for kernels that mask indices against speculation
(an index in range is its own masked value); register scrubbing; trace output; sizes
reported in the metrics; instruction encodings. `cbpf_test_invoke` on a CPU
whose `cbpf_active` is set: bottom halves are disabled and programs cannot call
it, so that return is never taken in `CbpfKernel`; `CbpfProgram` does let runs
nest, and refuses it. In the demos the comparison with an unguarded object,
which is straight-line arithmetic, and printing.

The parts marked `not_modelled` in `PROJECT.json` are there with their reasons:
the platform patch changes single instructions of exception paths that are not
in the repository; `conformance_bridge.c` and the Python checkers compare
implementations with the model `CbpfOwnership` translates; the tools are pure
I/O; the snapshots under `evidence/` repeat what is modelled from `linux/`.

## Plan

1. `CbpfPlatform`: RDDC and RCSP across nested exceptions, as far as the patch
   shows the paths.
