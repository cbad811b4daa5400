---------------------------- MODULE CbpfCheriProbe ----------------------------
(* src/cheri_demo.c: the purecap program that keeps two acquisitions of one   *)
(* object in two cells, consumes the first by clearing the tag in its cell,   *)
(* and watches a child process fault on each alias of it.  The parent and the *)
(* child run concurrently and talk over a pipe; a system call may fail, and   *)
(* the machine may be one that does not fault as it should.                   *)
EXTENDS Integers, FiniteSets

VARIABLES
    machine,        \* what a load through an untagged capability does
    at,             \* place in main and expect_stale_fault
    cells,          \* cells[i].object: "null", "object" or "untagged"
    allocated, references, effects,
    alias,          \* a, b, copy_alias, spill_alias: the cell each names
    round,          \* which alias the child reads through
    child,          \* place of the child, or its exit status
    pipe,           \* report in the pipe, and who holds its writing end
    report,         \* the parent's report
    faults,         \* rounds whose fault was confirmed
    verdict         \* last line printed: "none", "PASS" or "FAIL"

memory == <<cells, allocated, references, effects, alias>>
watching == <<child, pipe, report>>
vars == <<machine, at, memory, round, watching, faults, verdict>>

Cell == 0 .. 1
NoCell == -1
Names == {"a", "b", "copy", "spill"}
NoPipe == [report |-> "none", writers |-> {}]

Init ==
    /\ machine \in {"faults", "other code", "reads"}
    /\ at = "acquire a"
    /\ cells = [i \in Cell |-> "null"]
    /\ allocated = 0 /\ references = 1 /\ effects = 0
    /\ alias = [x \in Names |-> NoCell]
    /\ round = "copy"
    /\ child = "none" /\ pipe = NoPipe /\ report = "none"
    /\ faults = {} /\ verdict = "none"

\* require: print, power off.
Fail == verdict' = "FAIL" /\ at' = "poweroff"

Require(condition, next) ==
    IF condition THEN at' = next /\ UNCHANGED verdict ELSE Fail

-----------------------------------------------------------------------------
Acquire(x, from, next) ==
    /\ at = from
    /\ cells' = [cells EXCEPT ![allocated] = "object"]
    /\ alias' = [alias EXCEPT ![x] = allocated]
    /\ allocated' = allocated + 1
    /\ references' = references + 1
    /\ Require(allocated < 2, next)
    /\ UNCHANGED <<machine, effects, round, watching, faults>>

AcquireBoth ==
    \/ Acquire("a", "acquire a", "acquire b")
    \/ Acquire("b", "acquire b", "alias")

MakeAliases ==
    /\ at = "alias"
    /\ alias' = [alias EXCEPT !["copy"] = alias["a"], !["spill"] = alias["a"]]
    /\ Require(alias["a"] # alias["b"] /\ cells[alias["a"]] = cells[alias["b"]], "consume")
    /\ UNCHANGED <<machine, cells, allocated, references, effects, round, watching, faults>>

Live(o) == o = "object"

\* consume(i), once for each member of the sequence of its calls: what the
\* cells, references and effects are after it, and what it returns.
Consume(i, s) ==
    IF Live(s.cells[i])
    THEN [cells |-> [s.cells EXCEPT ![i] = "untagged"],
          references |-> s.references - 1, effects |-> s.effects + 1, done |-> TRUE]
    ELSE [s EXCEPT !.done = FALSE]

Now == [cells |-> cells, references |-> references, effects |-> effects, done |-> FALSE]

Becomes(s) == cells' = s.cells /\ references' = s.references /\ effects' = s.effects

\* consume(0) && !consume(0), and the controls on both aliases' objects.
ConsumeTwice ==
    /\ at = "consume"
    /\ LET once == Consume(0, Now)
           twice == Consume(0, once)
       IN  /\ Becomes(twice)
           /\ Require(/\ once.done /\ ~twice.done
                      /\ references' = 2 /\ effects' = 1
                      /\ cells'[alias["a"]] = "untagged"
                      /\ cells'[alias["b"]] = "object", "pipe")
    /\ UNCHANGED <<machine, allocated, alias, round, watching, faults>>

-----------------------------------------------------------------------------
(* expect_stale_fault.                                                        *)
MakePipe ==
    /\ at = "pipe"
    /\ \/ at' = "fork" /\ UNCHANGED verdict /\ pipe' = [report |-> "none", writers |-> {"parent"}]
       \/ Fail /\ UNCHANGED pipe
    /\ report' = "none"
    /\ UNCHANGED <<machine, memory, round, child, faults>>

Fork ==
    /\ at = "fork"
    /\ \/ /\ at' = "close" /\ UNCHANGED verdict
          /\ child' = "start"
          /\ pipe' = [pipe EXCEPT !.writers = @ \cup {"child"}]
       \/ Fail /\ UNCHANGED <<child, pipe>>
    /\ UNCHANGED <<machine, memory, round, report, faults>>

\* The child may stop with any status before it has written its report.
Exit(status) ==
    /\ child' = status
    /\ pipe' = [pipe EXCEPT !.writers = @ \ {"child"}]

ChildPrepares ==
    /\ child = "start"
    /\ \/ child' = "read" /\ UNCHANGED pipe
       \/ Exit("exit 3")
    /\ UNCHANGED <<machine, at, memory, round, report, faults, verdict>>

\* resolve_read: the load through the cell's object; the fork has its own copy
\* of the cells, which nothing changes.
Faults == cells[alias[round]] = "untagged" /\ machine # "reads"

ChildReads ==
    /\ child = "read"
    /\ IF Faults THEN child' = "handler" /\ UNCHANGED pipe ELSE Exit("exit 4")
    /\ UNCHANGED <<machine, at, memory, round, report, faults, verdict>>

\* The reading end is open in the parent.
Readable == at \in {"close", "read"}

\* fault_handler: the two words are written at once, or not at all; where nobody
\* can read them any more, the write ends the child by SIGPIPE.
ChildReports ==
    /\ child = "handler"
    /\ \/ /\ Readable
          /\ child' = "exit 0"
          /\ pipe' = [report |-> IF machine = "faults" THEN "tag fault" ELSE "other code",
                      writers |-> pipe.writers \ {"child"}]
       \/ Exit("exit 2")
       \/ ~Readable /\ Exit("killed")
    /\ UNCHANGED <<machine, at, memory, round, report, faults, verdict>>

\* BUG: the parent keeps its writing end.
KeptEnd(writers) == writers

\* close(channel[1]).
ClosedEnd(writers) == writers \ {"parent"}

ParentCloses ==
    /\ at = "close" /\ at' = "read"
    /\ pipe' = [pipe EXCEPT !.writers = ClosedEnd(@)]
    /\ UNCHANGED <<machine, memory, round, child, report, faults, verdict>>

\* read blocks until there is a report or nobody can write one.
ParentReads ==
    /\ at = "read" /\ at' = "wait"
    /\ pipe.report # "none" \/ pipe.writers = {}
    /\ report' = pipe.report
    /\ pipe' = NoPipe
    /\ UNCHANGED <<machine, memory, round, child, faults, verdict>>

\* read fails, whatever the child does: the reading end is closed all the same.
ReadFails ==
    /\ at = "read" /\ at' = "wait"
    /\ report' = "none"
    /\ pipe' = NoPipe
    /\ UNCHANGED <<machine, memory, round, child, faults, verdict>>

\* BUG: that there was a report is enough.
ConfirmedByReport == report # "none"

Confirmed == report = "tag fault" /\ child = "exit 0"

Exited == child \in {"exit 0", "exit 2", "exit 3", "exit 4", "killed"}

NextRound == IF round = "copy" THEN "spill" ELSE round
AfterRound == IF round = "copy" THEN "pipe" ELSE "balance"

Wait ==
    /\ at = "wait" /\ Exited
    /\ Require(Confirmed, AfterRound)
    /\ faults' = IF Confirmed THEN faults \cup {round} ELSE faults
    /\ round' = NextRound
    /\ child' = "none"
    /\ UNCHANGED <<machine, memory, pipe, report>>

\* waitpid fails, and the child may be still running.
WaitFails ==
    /\ at = "wait"
    /\ Fail
    /\ UNCHANGED <<machine, memory, round, watching, faults>>

\* consume(1), the balance, and PASS.
Balance ==
    /\ at = "balance"
    /\ LET last == Consume(1, Now)
           good == last.done /\ last.references = 1 /\ last.effects = 2
       IN  /\ Becomes(last)
           /\ at' = "poweroff"
           /\ verdict' = IF good THEN "PASS" ELSE "FAIL"
    /\ UNCHANGED <<machine, allocated, alias, round, watching, faults>>

PowerOff ==
    /\ at = "poweroff" /\ at' = "off"
    /\ UNCHANGED <<machine, memory, round, watching, faults, verdict>>

Parent ==
    \/ AcquireBoth \/ MakeAliases \/ ConsumeTwice \/ MakePipe \/ Fork
    \/ ParentCloses \/ ParentReads \/ Wait \/ Balance \/ PowerOff

\* Until the machine is off.
Child == at # "off" /\ (ChildPrepares \/ ChildReads \/ ChildReports)

Interrupted == ReadFails \/ WaitFails

Next == Parent \/ Child \/ Interrupted

\* Both processes are scheduled; that read or waitpid fails is never owed.
Spec == Init /\ [][Next]_vars /\ WF_vars(Parent) /\ WF_vars(Child)

-----------------------------------------------------------------------------
\* PASS is printed only on a machine that faults as it should, after both
\* aliases of the consumed acquisition were seen to fault in a child of their
\* own and both acquisitions were released once (cheri_demo.c:85-91, 117-121).
PassMeansFaults ==
    verdict = "PASS" =>
        /\ machine = "faults" /\ faults = {"copy", "spill"}
        /\ references = 1 /\ effects = 2 /\ child = "none"
=============================================================================
