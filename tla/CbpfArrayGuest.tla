---------------------------- MODULE CbpfArrayGuest ----------------------------
(* linux/spatial/native-guest.c: the guest that makes one array map of two    *)
(* seven-byte values, loads a program that adds 1 to the last byte of the     *)
(* second, waits until the host has looked at the native code, and runs it    *)
(* once.  The map, its authority and the lookup are CbpfArrayAuthority's;     *)
(* any system call may fail, and the console may say anything or nothing.     *)
EXTENDS CbpfArrayAuthority, Sequences

VARIABLES
    stage_of,       \* place in main and run_control
    map_fd, prog_fd,
    data,           \* the stride of value 1 in the map: the value, then padding
    readback,
    reply,          \* what the console said
    runs,           \* how often the program was started
    regs,           \* r0 and r1 of the program
    retval,
    result          \* what run_control returns: "PASS" or "FAIL"

guest == <<map_fd, prog_fd, data, readback, reply, runs, regs, retval, result>>
guestVars == <<stage_of, guest>>

value == [i \in 0 .. 6 |-> <<17, 34, 51, 68, 85, 102, 41>>[i + 1]]
Offset == 0 .. 7
Zeros == [i \in Offset |-> 0]
key == 1

\* The guest has one map.
map == CHOOSE m \in Slot : TRUE

\* The length of a value read back or written is value_size.
Logical == 0 .. attr[map].value_size - 1

\* BPF_MAP_TYPE_ARRAY, two values of seven bytes, with no type of their own.
MapAttr == [value_size |-> 7, max_entries |-> 2, plain |-> TRUE, special |-> FALSE]

ASSUME GuestAssumption == Slot # {} /\ MapAttr \in Attr

GuestInit ==
    /\ Init
    /\ attr = [m \in Slot |-> MapAttr]
    /\ stage_of = "identity"
    /\ map_fd = FALSE /\ prog_fd = FALSE
    /\ data = Zeros
    /\ readback = [i \in Logical |-> 0]
    /\ reply = "none" /\ runs = 0
    /\ regs = [r0 |-> 0, r1 |-> 0]
    /\ retval = 0 /\ result = "FAIL"

\* goto out, with result still 1; or the next stage.
Goes(from, to) == stage_of = from /\ stage_of' = to
Fails == stage_of' = "out"

-----------------------------------------------------------------------------
\* Not PID 1 of the expected kernel: main returns without a command.
Identity ==
    /\ \/ Goes("identity", "map_create") \/ Goes("identity", "returned")
    /\ UNCHANGED <<vars, guest>>

\* The steps of BPF_MAP_CREATE; a root that is not exact ends them.
MapCreate ==
    /\ stage_of = "map_create"
    /\ AllocArea(map) \/ MakeRoot(map) \/ KeepRoot(map)
    /\ attr'[map] = MapAttr
    /\ stage_of' = IF stage'[map] = "none" THEN "out" ELSE stage_of
    /\ UNCHANGED guest

MapCreated ==
    /\ Goes("map_create", "map_info")
    /\ stage[map] = "live"
    /\ map_fd' = TRUE
    /\ UNCHANGED <<vars, prog_fd, data, readback, reply, runs, regs, retval, result>>

\* No memory for the map, for its record, or no descriptor for it.
MapCreateFails ==
    /\ stage_of = "map_create" /\ Fails
    /\ \/ stage[map] = "none" /\ UNCHANGED vars
       \/ NoMemoryForRecord(map)
       \/ stage[map] = "live" /\ UNCHANGED vars
    /\ UNCHANGED guest

MapInfo ==
    /\ \/ Goes("map_info", "map_initialize")
       \/ stage_of = "map_info" /\ Fails
    /\ UNCHANGED <<vars, guest>>

\* BPF_MAP_UPDATE_ELEM copies value_size bytes.
Written(old) == [i \in Offset |-> IF i \in Logical THEN value[i] ELSE old[i]]

MapUpdate ==
    /\ stage_of = "map_initialize"
    /\ \/ data' = Written(data) /\ stage_of' = "initial_readback"
       \/ Fails /\ UNCHANGED data
    /\ UNCHANGED <<vars, map_fd, prog_fd, readback, reply, runs, regs, retval, result>>

\* read_value.
ReadValue == readback' = [i \in Logical |-> data[i]]

InitialReadback ==
    /\ stage_of = "initial_readback"
    /\ \/ /\ ReadValue
          /\ stage_of' = IF readback' = value THEN "program_load" ELSE "out"
       \/ Fails /\ UNCHANGED readback
    /\ UNCHANGED <<vars, map_fd, prog_fd, data, reply, runs, regs, retval, result>>

ProgramLoad ==
    /\ stage_of = "program_load"
    /\ \/ prog_fd' = TRUE /\ stage_of' = "program_info_size"
       \/ Fails /\ UNCHANGED prog_fd
    /\ UNCHANGED <<vars, map_fd, data, readback, reply, runs, regs, retval, result>>

ProgramInfoSize ==
    /\ \/ Goes("program_info_size", "program_info_complete")
       \/ stage_of = "program_info_size" /\ Fails
    /\ UNCHANGED <<vars, guest>>

\* The second answer has to agree with the first, and name this map.
Disagreement == "out"

ProgramInfoComplete ==
    /\ \/ Goes("program_info_complete", "authorization")
       \/ Goes("program_info_complete", Disagreement)
    /\ UNCHANGED <<vars, guest>>

-----------------------------------------------------------------------------
\* strcmp with "CBPF_SPATIAL_NATIVE_EXECUTE\n"; fgets gives NULL at the end.
Authorized(line) == line = "execute"

\* The host answers, which nothing makes it do.
Authorization ==
    /\ stage_of = "authorization"
    /\ reply' \in {"execute", "other", "end"}
    /\ stage_of' = IF Authorized(reply') THEN "test_run" ELSE "out"
    /\ UNCHANGED <<vars, map_fd, prog_fd, data, readback, runs, regs, retval, result>>

\* BPF_PROG_TEST_RUN with repeat = 1.
TestRun ==
    /\ Goes("test_run", "call")
    /\ Run(map)
    /\ runs' = runs + 1
    /\ regs' = [r0 |-> 0, r1 |-> 0]
    /\ UNCHANGED <<map_fd, prog_fd, data, readback, reply, retval, result>>

TestRunRefused == stage_of = "test_run" /\ Fails /\ UNCHANGED <<vars, guest>>

\* Instructions 0 to 6 and 12: the lookup, and the branch on NULL.  The gateway
\* also gives NULL, before the map is asked, when it does not accept the key's
\* capability.
CallLookup ==
    /\ stage_of = "call"
    /\ \/ Lookup(map, key)
       \/ /\ answer' = [map |-> FALSE, cap |-> NullCap]
          /\ UNCHANGED <<stage, attr, area, root, record, used, handed, freed>>
    /\ stage_of' = IF answer'.cap.tag THEN "load" ELSE "exit"
    /\ UNCHANGED guest

AccessOffset == 6

Allowed == answer.cap.base + AccessOffset \in Bytes(answer.cap.base, answer.cap.length)

\* Instructions 7 and 8.  A capability fault is the end of this kernel.
LoadAndAdd ==
    /\ stage_of = "load"
    /\ stage_of' = IF Allowed THEN "store" ELSE "fault"
    /\ regs' = IF Allowed THEN [regs EXCEPT !.r1 = data[AccessOffset] + 1] ELSE regs
    /\ UNCHANGED <<vars, map_fd, prog_fd, data, readback, reply, runs, retval, result>>

\* Instructions 9 to 11; the byte stored is the low one of r1.
StoreAndMove ==
    /\ stage_of = "store"
    /\ stage_of' = IF Allowed THEN "exit" ELSE "fault"
    /\ data' = IF Allowed THEN [data EXCEPT ![AccessOffset] = regs.r1 % 256] ELSE data
    /\ regs' = [regs EXCEPT !.r0 = regs.r1]
    /\ UNCHANGED <<vars, map_fd, prog_fd, readback, reply, runs, retval, result>>

\* The run is over; the kernel may still fail to copy its result out.
RunEnds ==
    /\ stage_of = "exit"
    /\ End(map)
    /\ \/ stage_of' = "map_readback" /\ retval' = regs.r0
       \/ Fails /\ UNCHANGED retval
    /\ UNCHANGED <<map_fd, prog_fd, data, readback, reply, runs, regs, result>>

-----------------------------------------------------------------------------
\* BUG: only the bytes that must not change are compared.
CompletePrefix(r, b) == \A i \in 0 .. 5 : b[i] = value[i]

Complete(r, b) == r = 42 /\ b[6] = 42 /\ \A i \in 0 .. 5 : b[i] = value[i]

\* The counters of the commands are 1 on the only way here.
MapReadback ==
    /\ Goes("map_readback", "out")
    /\ \/ /\ ReadValue
          /\ result' = IF Complete(retval, readback') THEN "PASS" ELSE "FAIL"
       \/ UNCHANGED <<readback, result>>
    /\ UNCHANGED <<vars, map_fd, prog_fd, data, reply, runs, regs, retval>>

ProgramAfterOut == FALSE

Out ==
    /\ Goes("out", "poweroff")
    /\ prog_fd' = ProgramAfterOut
    /\ map_fd' = FALSE
    /\ UNCHANGED <<vars, data, readback, reply, runs, regs, retval, result>>

\* The map goes when no descriptor and no program refers to it.
MapGoes ==
    /\ stage_of = "poweroff" /\ ~map_fd /\ ~prog_fd
    /\ FreeMap(map) \/ FreeRecord(map) \/ FreeArea(map)
    /\ UNCHANGED guestVars

\* sync and reboot; if that fails, pause for ever.
PowerOff ==
    /\ Goes("poweroff", "off")
    /\ UNCHANGED <<vars, guest>>

GuestStep ==
    \/ Identity \/ MapCreate \/ MapCreated \/ MapCreateFails \/ MapInfo \/ MapUpdate
    \/ InitialReadback \/ ProgramLoad \/ ProgramInfoSize \/ ProgramInfoComplete
    \/ TestRun \/ TestRunRefused \/ CallLookup \/ LoadAndAdd \/ StoreAndMove \/ RunEnds
    \/ MapReadback \/ Out \/ MapGoes \/ PowerOff

GuestNext == GuestStep \/ Authorization

GuestSpec == GuestInit /\ [][GuestNext]_<<vars, guestVars>>

-----------------------------------------------------------------------------
\* Until the host has sent its one line the program has not been started and the
\* map holds what was put there: what the guest shows for review, "executed=0"
\* and the unchanged map, is so (native-guest.c:212-218).
ReviewedBeforeRun ==
    /\ runs > 0 => reply = "execute"
    /\ stage_of = "authorization" => \A i \in Logical : data[i] = value[i]
    /\ runs <= 1

\* PASS is shown only for a run that was handed the capability of value 1 and
\* changed its last byte through it, and nothing else of the stride
\* (native-guest.c:232-237).
PassMeansUsed ==
    result = "PASS" =>
        /\ runs = 1
        /\ answer.map = map => answer.cap.tag /\ answer.cap.length = 7
        /\ data = [Written(Zeros) EXCEPT ![6] = 42]

\* The last byte of the value can be used with the capability the lookup gives:
\* the program the verifier accepted does not fault (native-guest.c:99, 101).
NeverFaults == stage_of # "fault"

\* Nothing of the value's neighbourhood is ever written: the padding keeps what
\* the allocation put there (native-guest.c:145, 101).
PaddingKept == data[7] = 0

\* A guest that powers off has closed what it opened, on every way there, so its
\* map can go with its authority (native-guest.c:246-249).
Closed == stage_of \in {"poweroff", "off"} => ~map_fd /\ ~prog_fd

\* What the guest shows is so: the review before the run, and PASS after it; and
\* the program it shows it for kept to the value and left nothing open
\* (native-guest.c:99, 145, 212-218, 232-249).
GuestHonest ==
    ReviewedBeforeRun /\ PassMeansUsed /\ NeverFaults /\ PaddingKept /\ Closed
=============================================================================
