---------------------------- MODULE CbpfOwnership ---------------------------
(* What the system promises about ownership, as theory/check_model.py states  *)
(* it: every successful acquisition is a right of its own, its aliases move   *)
(* freely, it is consumed exactly once (explicitly, or by terminal cleanup),  *)
(* and using a consumed or NULL alias ends the invocation.                    *)
EXTENDS Integers, FiniteSets

CONSTANTS
    Reg, Slot,      \* registers and spill slots
    Capacity        \* acquisitions an invocation may make

ASSUME CapacityAssumption == Capacity \in Nat

VARIABLES
    acquired,          \* len(live) of the Python state: identities handed out
    live,              \* the identities not consumed yet
    registers, spills, \* alias tables, token 0 is NULL
    explicit, cleanup, \* provider drops per identity
    refcount,
    terminal           \* "active" (empty in the Python), or why it ended

vars == <<acquired, live, registers, spills, explicit, cleanup, refcount,
          terminal>>
aliases == <<registers, spills>>
rights == <<live, explicit, cleanup, refcount>>

Token == 1 .. Capacity
Alias == 0 .. Capacity

Init ==
    /\ acquired = 0
    /\ live = {}
    /\ registers = [d \in Reg |-> 0]
    /\ spills = [s \in Slot |-> 0]
    /\ explicit = [t \in Token |-> 0]
    /\ cleanup = [t \in Token |-> 0]
    /\ refcount = 1
    /\ terminal = "active"

Active == terminal = "active"

RefcountAtBaseline == refcount - Cardinality(live)

\* Drop what is still live, and only that; aliases keep their identity.
Terminate(reason) ==
    /\ cleanup' = [t \in Token |-> IF t \in live THEN cleanup[t] + 1
                                                 ELSE cleanup[t]]
    /\ refcount' = RefcountAtBaseline
    /\ live' = {}
    /\ terminal' = reason
    /\ UNCHANGED <<acquired, explicit, aliases>>

HasRoom == acquired < Capacity

FreshToken == acquired + 1

Acquire(d) ==
    /\ Active
    /\ HasRoom
    /\ acquired' = acquired + 1
    /\ live' = live \cup {acquired + 1}
    /\ registers' = [registers EXCEPT ![d] = FreshToken]
    /\ refcount' = refcount + 1
    /\ UNCHANGED <<spills, explicit, cleanup, terminal>>

Exhaust ==
    /\ Active
    /\ acquired = Capacity
    /\ Terminate("exhaustion")

\* The operations below only move alias identities.
AcquireNull(d) ==
    /\ Active
    /\ registers' = [registers EXCEPT ![d] = 0]
    /\ UNCHANGED <<acquired, spills, rights, terminal>>

Copy(d, s) ==
    /\ Active
    /\ registers' = [registers EXCEPT ![d] = registers[s]]
    /\ UNCHANGED <<acquired, spills, rights, terminal>>

Reload(d, s) ==
    /\ Active
    /\ registers' = [registers EXCEPT ![d] = spills[s]]
    /\ UNCHANGED <<acquired, spills, rights, terminal>>

Spill(d, s) ==
    /\ Active
    /\ spills' = [spills EXCEPT ![d] = registers[s]]
    /\ UNCHANGED <<acquired, registers, rights, terminal>>

\* BUG: the model's own mutation, consumption of the whole object.
ObjectWideVictims(d) == live

\* BUG: the identity stays live, so a second alias can release it again.
NoVictims(d) == {}

Victims(d) == {registers[d]}

Release(d) ==
    /\ Active
    /\ registers[d] \in live
    /\ live' = live \ Victims(d)
    /\ explicit' = [explicit EXCEPT ![registers[d]] = @ + 1]
    /\ refcount' = refcount - 1
    /\ UNCHANGED <<acquired, aliases, cleanup, terminal>>

\* A live read leaves the state alone; a failed read or release ends the run.
MisuseNull == Active /\ (\E d \in Reg : registers[d] = 0) /\ Terminate("null")

MisuseStale ==
    /\ Active
    /\ \E d \in Reg : registers[d] # 0 /\ registers[d] \notin live
    /\ Terminate("stale")

Finish == Active /\ Terminate("return")

Next ==
    \/ \E d \in Reg : Acquire(d) \/ AcquireNull(d) \/ Release(d)
    \/ \E d, s \in Reg : Copy(d, s)
    \/ \E d \in Reg, s \in Slot : Reload(d, s) \/ Spill(s, d)
    \/ Exhaust
    \/ MisuseNull
    \/ MisuseStale
    \/ Finish

Spec == Init /\ [][Next]_vars

-----------------------------------------------------------------------------
\* Type invariant of the abstract ownership state.
TypeOK ==
    /\ acquired \in 0 .. Capacity
    /\ live \subseteq 1 .. acquired
    /\ registers \in [Reg -> Alias]
    /\ spills \in [Slot -> Alias]
    /\ explicit \in [Token -> Nat]
    /\ cleanup \in [Token -> Nat]
    /\ refcount \in Int
    /\ terminal \in {"active", "exhaustion", "null", "stale", "return"}

\* No alias in a register or a spill slot names an identity that was never
\* acquired, whatever copies, spills and reloads it went through
\* (check_model.py:105).
AliasesAreAcquired ==
    /\ \A d \in Reg : registers[d] <= acquired
    /\ \A s \in Slot : spills[s] <= acquired

\* Every acquired identity is live or has been dropped exactly once, by its
\* holder or by cleanup, never twice and never by both; identities not yet
\* handed out have no drops (check_model.py:109-112).
ConsumedOnce ==
    \A t \in Token :
        explicit[t] + cleanup[t] = IF t <= acquired /\ t \notin live THEN 1 ELSE 0

\* The provider's count is the baseline plus what is live, so an ended
\* invocation is back at the baseline and cleanup drops happen at the end only
\* (check_model.py:113-120).
BaselineAccounting ==
    /\ refcount = 1 + Cardinality(live)
    /\ terminal # "active" => live = {}
    /\ terminal = "active" => \A t \in Token : cleanup[t] = 0

\* Releasing through any alias consumes that identity and leaves every other
\* one as it was; nothing but a release or the end of the invocation takes a
\* right away, and no identity ever comes back (check_model.py:162-168).
AliasIndependence ==
    [][/\ terminal' = "active" => \/ live \subseteq live'
                            \/ \E d \in Reg : live' = live \ {registers[d]}
       /\ \A t \in 1 .. acquired : t \notin live => t \notin live'
      ]_vars
=============================================================================
