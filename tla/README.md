# Verification of ComputerLock

TLA+ models of ComputerLock, the TLC runs that check them and the theorems TLAPS
proves about them. Paths are relative to the repository; `Client.cpp`,
`ProcessHandler.cpp`, `CommonTools.cpp`, `ComputerLock.cpp`, `EventSink.cpp` and
`MonitorProcessCreation.cpp` are in `ComputerLock/ComputerLock/`, `dllmain.cpp` and
`mhook.cpp` in `ComputerLock/Trampoline/`. `PROJECT.json` maps every definition to
the lines it stands for.

## The system

ComputerLock runs on client computers. An admin publishes settings on a server:
a list of safe processes, a list of paths and a list of file extensions. The
program fetches them, finds the processes that are not safe and loads a hook
library into them; the library refuses to open files of the listed types.

    admin server <--TCP--> UpdateLoop --rewrites--> processes, file_paths, file_extensions
                                                      |                        |
                                          read by IsProcessSafe       read by IsImportant
                                                      |                        |
       Windows, WMI --pids--> ProcessHandler --loads Trampoline.dll--> every unsafe process

| Component | Its state | Its operations | What is hard | What makes it correct |
|---|---|---|---|---|
| Settings feed: `UpdateLoop`, `SocketClient`, `SocketWrapper` (Client.cpp) | a socket, the response, the three settings files | send a request, read what has arrived, parse and store it, reconnect | answers that are late, split or joined by TCP; a server that crashes; the program killed between two files; readers in other processes, without a lock | a file holds one published field or is being rewritten; versions do not overtake each other; the feed repairs itself |
| Settings text (CommonTools.cpp, `IsImportant`, `IsProcessSafe`) | none | split, first word, suffix, list lookup | empty fields, a delimiter at the end, text read only in part | what the readers conclude is what the file lists |
| Process watch: `main`, `ProcessHandler`, `EventSink` | the pids still to examine, the handle of the process under examination | scan all processes, examine one, inject | processes that start and exit meanwhile, pids used again, calls that fail | every unsafe process is hooked, a safe one only if its name, its path or the list cannot be read, handles of processes are released |
| WMI subscription: `MonitorProcessCreation` | COM interfaces, the sink's reference count | subscribe in six steps, clean up | failure of any call after some interfaces were obtained | the subscription is made, or all is released |
| Hook library (dllmain.cpp) | `ActualCreateFile` | `HookCreateFile`, attach | runs in every thread of a foreign process; opens a file from inside the hook | a hooked call checks the name before it opens |
| mhook (mhook.cpp) | the hook table, the list of suspended threads, the code of the function | `Mhook_SetHook`, `Mhook_Unhook` | threads that run the code while it changes, locks of suspended threads, calls that fail; distances near 2 GB; a table filled and emptied | threads see the hook at once; none is left suspended; whole instructions are moved and still work; jumps and displacements fit; table and code agree |
| External drive monitor (ExternalDriveMonitor.cpp) | a buffer of notifications | `MonitorDrive` | several notifications in one buffer | each file that appears is deleted |
| Disassembler (disasm*, cpu*, misc*) | one INSTRUCTION | `GetInstruction`: length, type, operands relative to the instruction pointer | 1000 table entries, prefixes that change each other's meaning | every length is that of the processor's manuals |
| Notifications (`NotificationUpdate`), installer | none | not called; a list of files | | |

The components meet in four places: the settings files (written by the feed, read by
the process watch and by every hooked process, never locked), the pids and handles
(given by Windows and WMI, used by the process watch), the injected library (started
by the process watch, from then on alone), and `ActualCreateFile` (written by
`Mhook_SetHook`, read by `HookCreateFile`).

## Modules

**SettingsText** has the pure functions. A text is a sequence of characters, a
character a run of bytes the code never looks into; the delimiters and white space
are characters of their own. `Lines` is `common::split` as a set, `Element` and
`HasElement` the indexing of its result, `FirstWord` the stream operator of
`GetParamsFromFile`, `IsImportant` and `IsProcessSafe` the decisions.

**SettingsFeed** is `LoopForever` with the network and the server. `pc` says where
the loop is: `send` (`SendRequest`, `SendFails`), `reconnect` (`ReConnectSocket`),
`await` (the second's sleep and `ReadAnswer`, that is `ReceiveBytes`), `element` and
`flush` (`OpenFile`, `ReadPastEnd` and `FlushFile` for each of the three elements, which
`Following` takes in the order of `ParseSettingsResponse`), `down`
(not running). `RewriteFile` is two steps, because opening a file for output empties
it: `Open`, which may fail without anybody noticing, and `Flush`, which then writes nothing.
`missed` is a history variable: the files that could not be opened when their turn came
last. The fifty seconds between requests are no state: any delay is possible between
any two steps. The network is one of three: `prompt` answers within the second the
loop sleeps, `whole` delays answers, `segmented` also cuts them; it may calm down.
Reading `results[n]` past the end of the vector is undefined behaviour: the process
dies or goes on with a text from somewhere (`Junk`). The server and TCP are external,
modelled from how the client uses them.

**ProcessWatch** is `main` after the feed was started, `ProcessHandler` and the event
sink, among processes that start and exit. `caller` tells `CheckOpenProcesses`
(`"scan"`) from `CheckSingleProcess` (`"watch"`): one thread is at work at a time, main
until it has subscribed and the sink afterwards (events of one subscription are handled
one by one). A handle keeps the pid of an exited process from being used again.
`handles` are those of processes, `threads` counts those of the threads `InjectHookDLL`
creates, which nothing closes. `list` is the text of the settings file: what
`GetParamsFromFile` finds in it is its first line, and `ReadList` says what it gets (the
text, empty while the feed rewrites it, or nothing when the file cannot be opened). A
name, a path or a list that cannot be read leaves the locals of `CheckProcessPotential`
as they were or undefined; the history variable `unread` says which of the three it was
for the process under examination. `examined` is another one: the existing processes
whose examination was completed. The subscription (`Subscribe`) is one step per function
of `MonitorProcessCreation`: `InitializeCOMLibrary`, `ObtainWMILocator`,
`ConnectWMINamespace`, `setWMIConnectionSecurity`, and `ReceiveEventNotifications` as
`CreateObjectStub` and `ExecNotificationQueryAsync`. `interfaces` are the pointers that
are not NULL, `sinkRefs` is `m_lRef` of the event sink, `apartments` counts
`CoInitializeEx`; `GiveUp` is the failure path all but one of them share, with `CleanUp`
on it. The exception is the stub: whether it exists is not looked at, and the program
crashes (`crashed`). WMI compares the processes once a second (`Poll`). The library is
`hooked` when the remote thread that loads it is started.

**Mhook** is `Mhook_SetHook` as `AttachHook` calls it, and the threads of the process
that call CreateFileW meanwhile. The function is its first bytes (`entry`, `prefix`) and
the rest (`body`); `code` is `original`, `torn` (the jump is half written) or `jump`.
`frames` is the stack of `HookCreateFile` on each thread, a frame saying whether
`ActualCreateFile` is called for the settings (`check`) or for the file (`open`). A
thread that runs torn bytes, or the rest of a prefix that was replaced, has undefined
behaviour: the model lets the process crash. The lock of the process heap is a
variable, because `SuspendOtherThreads` allocates and `ResumeOtherThreads` frees.
Not every thread can be suspended: `Failures` says which calls may fail. One of them is the
second SuspendThread of the loop in `SuspendOneThread`, which nobody checks (`LookAgain`): the
loop goes on with a thread that may be running, whose context may be any (`FoundInside`,
`FoundOutside`), and `slipped` (history) keeps which threads that happened to.

**AtomicHook** is the abstract specification of a hook: a function is hooked in one
step, and each call runs the old function or the check and what it decides. `Mhook`
maps to it (`hooked` is `actual = "trampoline"`, `at` is `At`) and a crash is a place
`AtomicHook` does not know, so the refinement excludes it.

**X86Opcodes** and **X86Extensions** are the tables of disasm_x86_tables.h, reduced to
what decides how many bytes an instruction takes, whether it is refused, and what
mhook asks of it (jump or not, `mov`, `lea`, relative to the instruction pointer).
**X86Decoder** is `X86_GetInstruction` over these tables, for 32-bit and 64-bit code: the
prefix loop (`MisplacedRex`, `Prefix`, `PrefixesEnd`), the opcode with its groups, ModRM
extensions, floating point escapes and SSE tables (`ReadOpcode`), and operands with
immediate values, SIB byte and displacement up to the check of the length
(`ReadOperands`). `Instruction` has the fields of the structure INSTRUCTION that later
steps read. Every operator keeps what the code does where it is odd: the SSE prefix is
looked for in the table for 66 only and the first prefix is removed from the list,
an entry without operands takes no ModRM byte, the operands of 3DNow! are counted twice.
**X86Manual** is the reference: the length of an instruction, its relative operand and
whether it is a jump, written from the processors' opcode maps and from nothing in the
source.

**CodeSkip** is `DisassembleAndSkip`, which takes instructions until five bytes are free
and decides which may be moved; it EXTENDS X86Decoder, whose `phase` is the program
counter of both (`GetInstruction` starts an instruction, `Skip`, `Transfer`,
`Unsupported` and `NotDecoded` end it).

**HookPlacement** is `Mhook_SetHook` and `Mhook_Unhook` of the 64-bit build as arithmetic
and as a table: the window `pLower`..`pUpper`, the search through the regions of
`VirtualQuery` one step per region (`NextRegion`, `TrampolineAlloc`, `NoTrampoline`), the three
jumps `EmitJump` writes, the displacements `FixupIPRelativeAddressing` changes, `g_pHooks`
and its counter, `TrampolineFree` with and without release of the memory. `entry` is what
each function begins with, `actual` is the caller's pointer, `free` the free pages. `Unhook` puts
back the bytes that were moved and no more (`Restored`). The module
takes from CodeSkip that a function gives up 5 to 19 bytes; threads are in Mhook.

`*_proofs` modules hold the theorems (below). X86Tables_proofs and X86Decoder_proofs are
the two lower floors of CodeSkip_proofs: the tables, and the decoder over them.

`MC*` modules give the constants values. Operators with a name like
`Publish_Forgotten` are faulty variants of the definition they precede; each shows that
a property notices the fault.

## Runs

| Run | What it shows |
|---|---|
| FeedPrompt | On a network that answers within the second: whatever crashes, restarts, reconnections and failures to open a file happen (three faults), the files hold fields of published versions or nothing, and a later file is never newer than an earlier one that could be opened when its turn came; the parser finds every element it indexes; whoever reads a file at any moment takes no process for safe that no version lists, and blocks exactly the types of one version, or nothing while the file is rewritten. |
| FeedConverges | From late and split answers: while answers are whole, processes and paths are genuine; once the network is calm the files come to hold the published settings, for good. |
| FeedExtensions | A disagreement with the documentation, below. |
| WatchSafety | Whatever call fails, with more processes than `EnumProcesses` has room for: the scan leaves no handle of a process open, and of the threads it created at most one handle for each pid (`ScanKeepsThreadsOnly`); the process hooked is the one that was judged, so that one of a system program is hooked only if its own path was not read, and one the list finds safe only if its own name or the list was not (`SafeNeverHooked`, which has no premise); a subscription that fails at any call gives back all it obtained. |
| WatchCoverage | Every process that exists when the scan takes its list (as long as there is room for all, `RoomForAll`), or that WMI reports, is hooked or found safe. |
| WatchGap | A disagreement with the documentation, below. |
| HookQuiet | When every thread can be suspended: the hook is atomic to the threads, none crashes, hooking ends. One of the threads was suspended by somebody else before. |
| HookFailures | Whatever call fails: no thread is left suspended, one that somebody else suspended is released only if it could not be suspended a second time (`SuspensionBalanced`), and the hook is complete or absent. |
| SkipCode | For functions that begin with every opcode of both maps behind each kind of prefix, with ModRM and SIB bytes of every kind: what is moved are whole instructions by the manuals, except the ones named in `Miscounted`; no jump is moved (except LOOP and JECXZ in 32-bit code); what is relative to the instruction pointer is recorded; there is room in the trampoline. |
| SkipBoundary, SkipMovzx | Two bugs, below. |
| Placement | Six functions, four layouts of memory, three slots, every order of hooking and unhooking, every failure: the jump in the function fits (except for hooks at the limit, `AtTheLimit`), the trampoline's code fits, displacements fit 32 bits, the table agrees with code and pointers, a function whose hook was taken away is its own again (except at the limit), and the memory of a trampoline a caller has called through stays. |

Bounds. Feed: two versions of the settings with all fields different (a file's content
tells which field of which version it is), one request on its way (the loop sends the
next one only after it read, so more would be older answers of the same kind), three
faults (enough for server crash, program crash and server crash again; a file that
cannot be opened is a fault too), segments of three characters, so that a response of
seven is cut inside and between fields. Watch: a program of each kind (under the Windows
directory, named on the first line of the list, named on its second line only, which the
code does not find). WatchSafety has three pids, which are symmetric (`AnyPid`: no
action tells one from another), of which the scan has room for two, and two starts: one
pid under examination, one used again by another program, one that is left out.
WatchCoverage has two pids with room for both and two starts: one under examination and
one that changes. Hook: three threads, one of them frozen; two frames of stack, so that
coming back to the hook once is legal and noticed by the refinement, and twice crashes.
SkipCode: each of the 511 opcodes of one and two bytes with each of five prefixes and 24
ModRM and SIB bytes, seventeen chains of prefixes up to 16 long, thirteen first
instructions that compilers emit, and long instructions behind four bytes, so that the
length check and the room in the trampoline are both reached; both architectures. The
bytes behind the instruction of interest are NOPs and zeros. Placement: the distances
are scaled down (2048 for 0x7fff0000, 1536 for 0x7ff80000, 256 for the 64K granularity,
pages of 128 bytes, an address space of 8192), keeping the order and the inequalities of
`PlacementAssumption`, which are those of the real numbers and all that the theorems
use. The functions lie near zero and in the middle, with hooks near, far, and one byte
on either side of the limit, and with displacements at both ends of what the window
bears. `CHECK_DEADLOCK FALSE` is set where the modelled system really stops: when all
bounded starts and exits have happened and the watcher waits, and when a process has
crashed.

Fairness. Feed: the loop's thread is scheduled, the server answers, TCP delivers on a
connection that is up and notices one that is not; the admin, the user and the
machine are free. `Converges` assumes a network that is calm from some time on, which
is its premise and not a fairness condition. Watch: threads are scheduled and WMI
polls (WITHIN 1); nothing about other processes. Hook: the hooking thread has the
highest priority, threads that are not suspended are scheduled, a thread that holds the
heap's lock releases it, and a lock that is free again and again is taken at some time
(strong fairness of `AllocateHandles` and `ResumeOtherThreads`); the sleep of
`SuspendOneThread` ends at a moment when the thread has left the bytes, if it ever
leaves them (strong fairness of `LookAgain`). Without `"stuck"` in `Failures`, three
sleeps of 100 ms are taken to be enough for that.

## Where the code and its documentation disagree

- **FeedExtensions** (Client.cpp:222): an answer later than a second is read together
  with the next one, and the first one's extensions are stored with the second one's
  length behind them.
- **WatchGap** (ComputerLock.cpp:36): a process that starts after `EnumProcesses` and
  before the subscription is never examined.
- **SkipBoundary** (disasm_x86.c:1823): the three fences (0F AE E8, F0, F8) are entries
  without operands, and for such an entry the ModRM byte is not counted. mhook.cpp:536
  promises to end on an instruction boundary; here the next one begins inside the fence.
- **SkipMovzx** (mhook.cpp:628): the displacement to be patched is taken to be three bytes
  into the instruction. MOVZX and MOVSX have the type of MOV and a two-byte opcode, so
  theirs is at four: the ModRM byte and three bytes of the displacement are overwritten.

Met and not given a run:

- Client.cpp:238: settings without extensions make a response that ends with a
  delimiter; `getline` yields no fourth element, which is read anyway
  (`NothingReadPastEnd` needs a list that is not empty).
- CommonTools.cpp:97: between the truncation of file_extensions and its flush nothing is
  blocked (`ReadersJudgeByOneVersion` says so).
- CommonTools.cpp:97: whether the file was opened is not asked. One that was not keeps its old
  version, and the files after it get the new one (`missed` in `WrittenInOrder`).
- CommonTools.cpp:105: of the list of safe processes only the first line is read. A program on
  another line is hooked: `SafeNeverHooked` is about what `GetParamsFromFile` finds in a list.
- ProcessHandler.cpp:49: the handle of the thread created in the other process is never closed, one
  for each process that is hooked (`threads`).
- ProcessHandler.cpp:84: ProcessHandler.h:11 says that the processes on the list are
  hooked; those not on it are.
- MonitorProcessCreation.cpp:25: when `CoInitializeEx` fails, `CleanUp` calls
  `CoUninitialize` all the same (`apartments` is -1 then).
- MonitorProcessCreation.cpp:99: the result of `CoCreateInstance` is overwritten without a
  look at it; `pUnsecApp` and `pStubUnk` may be NULL when they are used (`crashed`).
- MonitorProcessCreation.cpp:132: the sink's count begins at 0, so the Release of a failure
  before `AddRef` makes it -1 and the sink is never deleted.
- ProcessHandler.h:27 promises all pids, the array holds 1024 (ProcessHandler.cpp:107).
- mhook.cpp:665 promises that the threads' instruction pointers are outside the
  overwritten bytes, while threads that cannot be suspended are ignored (mhook.cpp:482).
- mhook.cpp:384: whether the thread was suspended again is not looked at. It is resumed all the
  same, and if somebody else had suspended it, it is released (`slipped` in `SuspensionBalanced`).
- mhook.cpp:720 promises a jump of five bytes; a hook 0x7fff0000-4 to 0x7fff0000 below its
  function is jumped to in fourteen (`AtTheLimit`), of which `Mhook_Unhook` restores those that were
  moved (mhook.cpp:781).
- mhook.cpp:561: LOOP and JECXZ are of a type of their own and are moved in 32-bit code,
  where their destination is not patched.
- disasm_x86.c:1573: the operands of a 3DNow! instruction are counted twice; UD1 without
  its ModRM byte; two REX prefixes as one instruction and the next.
- disasm_x86.c:1333: the prefix removed from the list is the first one, not the one that
  is part of the opcode; mhook does not read the list afterwards.
- disasm_x86.c:4611: a locked BTS, BTR or BTC with a register operand is refused, because
  its memory operand is not marked as written; mhook then gives up the hook.

## Theorems

`SettingsText_proofs` has lemmas about texts: where the first delimiter is, what the
concatenation with delimiters does to it, and that splitting a response gives back its
fields when the last is not empty (`ResponseElements`); that a word the stream operator
reads is a line when there is no other white space than line ends (`FirstWordIsLine`).

`SettingsFeed_proofs` proves, for every number of versions, every text of the fields
and every bound:

- `TypeCorrect`: `Spec => []TypeOK`;
- `FilesStayGenuine`: `PromptAndComplete /\ Spec => []FilesGenuine`;
- `FilesStayInOrder`: `PromptAndComplete /\ Spec => []WrittenInOrder`.

`PromptAndComplete` says that the network is prompt and that no version's list of
extensions is empty; FeedExtensions and the empty last field (Client.cpp:238, above)
show that neither can be dropped. The two invariants are not inductive: they say nothing
of the answer that is on its way. `FeedInv` says that there is at most one answer under
way (among request, wire, inbox and the response being stored), that it is the response
of a version v, and that the three files hold versions a >= b >= c (or are empty, or
were `missed`: then nothing is said of that file's place in the order) with v at least
those not yet rewritten. Each step moves the answer one place on or stores one field.
`NeverReadsPastEnd` follows from the same invariant.

`ReadersAgreeWithOneVersion`: `PromptAndComplete /\ ReadableByAll /\ Spec =>
[]ReadersJudgeByOneVersion`. It follows from `FilesStayGenuine` once reading a field gives
its lines, and `ReadableByAll` is what that takes: no white space inside the names of
processes (`>>` stops there, CommonTools.cpp), extensions that fit the buffer of one
`ReadFile` (`IsImportant` reads no more), and no white space inside an extension
(`IsImportant` erases it). The settings of run FeedPrompt satisfy all three.

`ListReadIsPublished`, a consequence, joins the feed to the process watch: the list
`GetParamsFromFile` reads is that of one published version or empty, which is what
`ProcessWatch!RewriteList` lets it be (with one version).

`FrontStaysGenuine`: `Spec => []ProcessesAndPathsGenuine`, without a premise on the settings.
While the network delays without cutting, any number of answers is under way; `LateInv` says
that each of them is a whole answer, that what has arrived and what is being stored begin
with one, and that the element being stored is that one's field unless it is the third. The
lemma `FrontElements` says that text behind a response does not move its first elements.

`ProcessWatch_proofs`, for any finite set of pids, programs, room and failures:
`TypeCorrect`; `ProcessHandlesReleased` (`ScanKeepsThreadsOnly`), because during the
scan the only open handle of a process is that of `target`, and only between
`OpenProcess` and the two places that close it (`HandlesInv`), and each pid taken from
the list adds one thread at most (`ThreadsInv`); `SubscriptionSound`
(`SubscribedOrUndone`), because which interfaces there are and what the counts are is a
function of the call reached (`ObtainedInv`). `HookedWasJudged` (`SafeNeverHooked`) has
no premise. Its invariant `JudgedInv` says that from `OpenProcess` to the injection the
handle keeps the pid from being used again, so that what was read is of the process that
has the pid, and that a verdict which differs from what could have been read is
accounted for in `unread`.

`Mhook_proofs`, for any set of threads: whatever fails, `TypeCorrect`,
`SuspensionUndone` (`SuspensionBalanced`) and `HookAllOrNothing`
(`HookedMeansPublished`). `MhookInv` adds to the types where each thread's extra
suspension is accounted for (`CountInv`: it has a handle in the list, or is the one
looked at; a thread has fewer suspensions than that only if it `slipped`), and how far
code, trampoline, counter and pointer have got at each place of `Mhook_SetHook`
(`PlacedInv`). Under `Quiet` (every thread is found, opened, read and suspended again,
and leaves the prefix in time), `NeverTorn` (`NoCrash`) and `HookAtomic`
(`HookIsAtomic`): by `AloneInv` every thread is in the list of suspended ones, outside
of the bytes to be overwritten, while the code changes. `HookAtomic` is the refinement:
the initial state is `AtomicHook`'s, `Publish` is its `Hook` (the jump is written then,
and every thread is still suspended), and a step of a thread is one of `AtomicHook`'s or
is not seen.

Three modules lead to what is moved into the trampoline, for functions of any bytes and
both architectures.

`X86Tables_proofs` compares the opcode tables with the manuals. `SoundEntry(size, b, e)`
says that the entry `e` found for opcode `b`, whatever the ModRM byte leads it to (group,
extension, floating point escape, SSE table, suffix), is refused, is one of the opcodes
the code counts wrong (`IsMiscounted`), or has operands that take the bytes
`ImmediateClass` gives the instruction for each size of operand and address, at most one
of them in memory, and is of a transfer's type if the instruction is one.
`OneByteTable`, `TwoByteTable` and `MediaTable` are that for every opcode and ModRM byte,
from a comparison row by row.

`X86Decoder_proofs` follows one instruction. Each phase of the decoder has its
invariant: `PrefixPhase` and `OpcodePhase` (what has been read are prefixes by the manuals,
no two of them a pair of REX, and the sizes of operand and address follow from them),
`OperandPhase` (the entry is `Sound` for the opcode the manuals find behind them), and
`DecodedRight`: the length is `ManualLength`, an instruction that `LeavesTheLine` has a type
that mhook looks for, and an operand is relative to the instruction pointer when the
manuals say so. The manuals and the decoder meet in `ManualLengthIs`, which
takes `ManualLength` apart into prefixes, opcode, ModRM, SIB and displacement, and immediate
bytes, and in `OperandRead`, `MemoryRead`, which say what `SetOperands` adds for each.

`CodeSkip_proofs` has the invariant `Inv`: `Typed` (`dwRet` stays below 5 whenever an
instruction is begun; what is taken has passed the check of 15 bytes), `Phases` (the
phases above) and `Taken` (the same of every instruction already taken, that they are one
behind the other, and that those with a relative operand are the ones recorded).
From it: `TypesHold` (`TypeOK`); `MovedCodeFits` (`RoomInTrampoline`): at most 4 + 15 bytes are
moved, and five more fit into 32; `WholeInstructionsTaken` (`WholeInstructions`);
`TransfersStay` (`NoTransferTaken`); `DisplacementsRecorded` (`RelativesRecorded`). The
exceptions are in the properties, not in the premises: the encodings of `Miscounted`, which
the code counts wrong (SkipBoundary shows one), and LOOP and JECXZ in 32-bit code.

The attempt corrected `X86Manual`: the guards of `MemoryBytes` (bytes of displacement by
`mod` and `rm`) overlapped, so that CASE had two choices with different values for some
ModRM bytes with `mod` 1, and only TLC's order of evaluation chose the right one. They are
disjoint now.

`HookPlacement_proofs`, for all addresses, layouts, functions and sizes of the table that
satisfy `PlacementAssumption`: `TypeCorrect`, `EntriesFit`, `TrampolinesFit`,
`DisplacementsStayShort`, `TableStaysTrue`, `CalledCodeIsKept`. The invariant `IInv` adds to
`TypeOK` and `TableAgrees` that the search has not left the window (`CallKept`), that the
trampoline of every hooked function is within the window's reach (`HookedReach`), and
that the pages of trampolines are not free and no function's own (`MemoryKept`); the
lemmas `WindowReaches` and `ReachIsNear` carry the arithmetic from the window's ends to the
jumps and displacements.

Every invariant and action property of the passing runs that is not about progress is a
theorem, under the premises named here. Model-checked only are the four
liveness properties `Converges`, `HookingEnds`, `ScanCovers` and `WatchCovers`: liveness under
fairness is out of the prover's reach. The four runs that expect a violation show TLC's
counterexamples.

## Not modelled

In the disassembler: the text of the instruction, its lists of registers and flags,
segments and repetition, the 64-bit default size of stack operands, the description of
addresses after the length is known, 16-bit code; they change neither a length nor what
mhook reads. Nor are its assertions. They are live in every build: disasm.c:2 and
disasm_x86.c:2 undefine NDEBUG before they include assert.h, and nothing defines
NO_SANITY_CHECKS. One that fails (for example at disasm_x86.c:2143, 2225 or 2484) ends
the process that is being hooked, where the model decodes on; the properties of what is
moved are about the executions that go on. cpu.c and misc.c are tables and helpers of
that output. In mhook: `SkipJumps` (addresses are those after it), and the suspension of
threads during `Mhook_Unhook`, which nothing calls. In HookPlacement a failing
VirtualProtectEx of `Mhook_Unhook` changes nothing and is no step.

The external drive monitor (its only call, in `main`, is commented out), the notification
client, the copying of `SocketWrapper` objects and the unused functions of CommonTools
(nothing calls them), the installer (no behaviour), console output, the message boxes and the
fixed-size buffers of the hook library. When `main` returns it destroys the `UpdateLoop` whose
detached thread still runs until the process exits; the feed may end at any step
(`Terminate`), but what the thread does with the destroyed object before that is not modelled.
In `Mhook` the other threads are a fixed set: a thread that starts or ends has to call
the libraries' entry points under the loader's lock, which the hooking thread holds in
`DllMain`. A debug build is not modelled; there `ODPRINTF` allocates memory while
threads are suspended. ResumeThread does not fail: the thread was opened with
THREAD_ALL_ACCESS and its handle is open.

The file streams: a text is taken to fit the stream's buffer, so that it reaches the file at once
(a longer one comes in pieces, and a reader may see the first of them), and text mode, which
writes a line end as CR LF, is undone by `IsImportant`, which erases white space, and by the stream
that reads the list. The exceptions of the converter in `IsProcessSafe` are left out: names are
valid UTF-8.

## Plan

1. Done: SettingsText, SettingsFeed; ProcessWatch with the subscription's steps; Mhook with
   AtomicHook; the decoder, CodeSkip and HookPlacement; theorems about each of them.
2. `ComputerLock`: SettingsFeed and ProcessWatch composed over the settings files in place of
   `RewriteList`, with an abstract store of policies the feed implements.
3. Theorems about that composition: that the feed implements the abstract store step by
   step on a prompt network, and that with it the list of `HookedWasJudged` is unread only
   while the feed rewrites it.
