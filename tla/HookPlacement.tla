---------------------------- MODULE HookPlacement ----------------------------
(***************************************************************************)
(* Where mhook puts its trampolines in a 64-bit process, and what the      *)
(* distances mean for the code it writes (mhook.cpp: Mhook_SetHook,        *)
(* TrampolineAlloc, EmitJump, FixupIPRelativeAddressing, TrampolineGet,    *)
(* TrampolineFree, Mhook_Unhook).  The threads that run meanwhile are in   *)
(* module Mhook, and what DisassembleAndSkip finds is in CodeSkip: here a  *)
(* function comes with the bytes it gives up and the displacements in      *)
(* them.  Addresses are those after SkipJumps.                             *)
(***************************************************************************)
EXTENDS Integers, FiniteSets

CONSTANTS
    MaxJump,     \* 0x7fff0000, the longest jump written in five bytes
    UpperReach,  \* 0x7ff80000, how far above the function is searched
    Granularity, \* 0x10000, dwAllocationGranularity
    PageSize,    \* the unit of VirtualQuery
    Highest,     \* the end of the process's address space
    MHOOKS_MAX_SUPPORTED_HOOKS,
    Routines,    \* the functions to be hooked
    Layouts,     \* the sets of pages that may be free at the start
    NULL

MHOOK_JMPSIZE == 5
LongJump == 14
MHOOKS_MAX_CODE_BYTES == 32

\* 2^31, the first distance that 32 bits do not hold.  It is also where
\* TrampolineAlloc begins to count down from the function.
Half == MaxJump + Granularity

\* MHOOKS_TRAMPOLINE: its size, and where its three pieces of code are.
TrampolineSize == 120
codeJumpToHookFunction == 24
codeTrampoline == 56

\* A function: its address, that of its hook, how many bytes are moved (what
\* CodeSkip proves), and the instructions in them that are patched: where they
\* start and their displacement.  What they refer to is in the address space, and
\* a function's own memory is not free.
ASSUME PlacementAssumption ==
    /\ MaxJump \in Nat /\ UpperReach \in Nat /\ Granularity \in Nat
    /\ PageSize \in Nat \ {0} /\ Highest \in Nat /\ Highest % PageSize = 0
    /\ TrampolineSize <= Granularity
    /\ UpperReach + Granularity + TrampolineSize <= MaxJump
    /\ MHOOKS_MAX_SUPPORTED_HOOKS \in Nat
    /\ \A r \in Routines :
          /\ r.at \in Nat /\ r.hook \in Nat \ {0}
          /\ r.cb \in MHOOK_JMPSIZE..19
          /\ r.rips \subseteq [start : 0..4, displacement : (-Half)..(Half - 1)]
          /\ \A i \in r.rips : r.at + i.start + i.displacement >= 0
    /\ \A layout \in Layouts :
          layout \subseteq Nat /\ \A r \in Routines : r.at \div PageSize \notin layout
    /\ NULL \notin Routines

VARIABLES
    free,     \* the free pages
    entry,    \* what each function begins with: its own code, or a jump, and how
              \* many of its bytes are not its own
    actual,   \* *ppSystemFunction: what the caller calls the function by
    g_pHooks, g_nHooksInUse,
    pSystemFunction, \* the member of the trampoline in each slot
    pc,       \* "idle", "search", "write"
    call      \* the function Mhook_SetHook is about, its slot and addresses

vars == <<free, entry, actual, g_pHooks, g_nHooksInUse, pSystemFunction, pc, call>>

Slots == 1..MHOOKS_MAX_SUPPORTED_HOOKS

\* A function that does not begin with a jump.
OwnCode == [to |-> 0, size |-> 0]

Init ==
    /\ free \in Layouts
    /\ entry = [r \in Routines |-> OwnCode]
    /\ actual = [r \in Routines |-> r.at]
    /\ g_pHooks = [s \in Slots |-> 0]
    /\ g_nHooksInUse = 0
    /\ pSystemFunction = [s \in Slots |-> NULL]
    /\ pc = "idle"
    /\ call = NULL

------------------------------------------------------------------------------
(***************************************************************************)
(* The window for the trampoline.                                          *)
(***************************************************************************)
\* nLimitUp and nLimitDown: the displacements furthest from zero.
Adjusted(r) == {0} \cup {i.displacement + i.start : i \in r.rips}
nLimitUp_Forgotten(r) == 0   \* mutant: the operands are not thought of
nLimitUp(r) == CHOOSE d \in Adjusted(r) : \A e \in Adjusted(r) : e <= d
nLimitDown(r) == CHOOSE d \in Adjusted(r) : \A e \in Adjusted(r) : d <= e

pLower_Zero(r) == 1           \* mutant: the window has no lower end
pLower(r) ==
    LET p == r.at + nLimitUp(r) IN IF p < Half THEN 1 ELSE p - MaxJump

\* Addresses of a process are below 0xffffffff80000000.
pUpper(r) == r.at + nLimitDown(r) + UpperReach

Align(p) == ((p + Granularity - 1) \div Granularity) * Granularity

\* VirtualQuery: the pages from p on that are free, or not, as p's is.
PageOf(p) == p \div PageSize
LastPage == PageOf(Highest) - 1
RegionEnd(p) ==
    LET same == {q \in PageOf(p)..LastPage :
                   \A k \in PageOf(p)..q : k \in free <=> PageOf(p) \in free}
    IN  Cardinality(same) + PageOf(p)

PagesOf(p) == PageOf(p)..PageOf(p + TrampolineSize - 1)

\* Mhook_SetHook, when there is a slot: otherwise it does nothing.
SetHook ==
    /\ pc = "idle"
    /\ g_nHooksInUse < MHOOKS_MAX_SUPPORTED_HOOKS
    /\ \E r \in Routines :
        /\ actual[r] = r.at
        /\ call' = [routine |-> r, pbAlloc |-> pLower(r)]
    /\ pc' = "search"
    /\ UNCHANGED <<free, entry, actual, g_pHooks, g_nHooksInUse, pSystemFunction>>

\* The region is free and large enough, and VirtualAlloc succeeds at its first
\* boundary of 64K.
FreeRegion(p) ==
    PageOf(p) \in free /\ (RegionEnd(p) - PageOf(p)) * PageSize >= Granularity

Searching == pc = "search" /\ call.pbAlloc < pUpper(call.routine) /\ call.pbAlloc < Highest

\* VirtualAlloc may fail though the pages are free.
NextRegion ==
    /\ Searching
    /\ call' = [call EXCEPT !.pbAlloc = RegionEnd(@) * PageSize]
    /\ UNCHANGED <<free, entry, actual, g_pHooks, g_nHooksInUse, pSystemFunction, pc>>

\* The slot found first is taken; new memory is zero.
EmptySlot(s) == g_pHooks[s] = 0 /\ \A t \in 1..(s - 1) : g_pHooks[t] # 0

TrampolineAlloc ==
    /\ Searching
    /\ FreeRegion(call.pbAlloc)
    /\ LET p == Align(call.pbAlloc)
       IN  /\ PagesOf(p) \subseteq free
           /\ free' = free \ PagesOf(p)
           /\ call' = [call EXCEPT !.pbAlloc = p]
           /\ \E s \in Slots :
                /\ EmptySlot(s)
                /\ g_pHooks' = [g_pHooks EXCEPT ![s] = p]
                /\ pSystemFunction' = [pSystemFunction EXCEPT ![s] = NULL]
    /\ g_nHooksInUse' = g_nHooksInUse + 1
    /\ pc' = "write"
    /\ UNCHANGED <<entry, actual>>

\* The window is searched in vain: no hook.
NoTrampoline ==
    /\ pc = "search" /\ ~ Searching
    /\ pc' = "idle" /\ call' = NULL
    /\ UNCHANGED <<free, entry, actual, g_pHooks, g_nHooksInUse, pSystemFunction>>

------------------------------------------------------------------------------
(***************************************************************************)
(* Writing the hook.                                                       *)
(***************************************************************************)
Distance(a, b) == IF a > b THEN a - b ELSE b - a

\* EmitJump: how many bytes it writes at pbCode.
EmitJump(pbCode, pbJumpTo) ==
    [to |-> pbJumpTo,
     size |-> IF Distance(pbCode + MHOOK_JMPSIZE, pbJumpTo) <= MaxJump
              THEN MHOOK_JMPSIZE ELSE LongJump]

\* The jump behind the bytes that were moved, to the rest of the function.
Continuation(r, p) == EmitJump(p + codeTrampoline + r.cb, r.at + r.cb)

\* The stub in the trampoline that jumps to the hook; the function's own jump.
NeedsStub_Above(r) == r.hook > r.at + MaxJump   \* mutant: hooks below are near
NeedsStub(r) == Distance(r.hook, r.at) > MaxJump
Stub(r, p) == EmitJump(p + codeJumpToHookFunction, r.hook)
EntryJump(r, p) ==
    EmitJump(r.at, IF NeedsStub(r) THEN p + codeJumpToHookFunction ELSE r.hook)

\* FixupIPRelativeAddressing.
dwNewDisplacement(r, p, i) == i.displacement - (p + codeTrampoline - r.at)

\* Both calls of VirtualProtectEx succeed, and everything is written.
Place ==
    /\ pc = "write"
    /\ LET r == call.routine
           p == call.pbAlloc
       IN  /\ entry' = [entry EXCEPT ![r] = EntryJump(r, p)]
           /\ actual' = [actual EXCEPT ![r] = p + codeTrampoline]
           /\ pSystemFunction' = [s \in Slots |->
                IF g_pHooks[s] = p THEN r ELSE pSystemFunction[s]]
    /\ pc' = "idle" /\ call' = NULL
    /\ UNCHANGED <<free, g_pHooks, g_nHooksInUse>>

\* Mutants: the counter is forgotten; it counts twice; the memory is released.
TrampolineFree_StillInUse(s, bNeverUsed) ==
    /\ g_pHooks' = [g_pHooks EXCEPT ![s] = 0]
    /\ free' = IF bNeverUsed THEN free \cup PagesOf(g_pHooks[s]) ELSE free
    /\ UNCHANGED g_nHooksInUse

TrampolineFree_Twice(s, bNeverUsed) ==
    /\ g_pHooks' = [g_pHooks EXCEPT ![s] = 0]
    /\ g_nHooksInUse' = g_nHooksInUse - 2
    /\ free' = IF bNeverUsed THEN free \cup PagesOf(g_pHooks[s]) ELSE free

TrampolineFree_Released(s, bNeverUsed) ==
    /\ g_pHooks' = [g_pHooks EXCEPT ![s] = 0]
    /\ g_nHooksInUse' = g_nHooksInUse - 1
    /\ free' = free \cup PagesOf(g_pHooks[s])

\* TrampolineFree: the memory is released only when no code was written to it.
TrampolineFree(s, bNeverUsed) ==
    /\ g_pHooks' = [g_pHooks EXCEPT ![s] = 0]
    /\ g_nHooksInUse' = g_nHooksInUse - 1
    /\ free' = IF bNeverUsed THEN free \cup PagesOf(g_pHooks[s]) ELSE free

\* One of the calls of VirtualProtectEx fails: pSystemFunction stays NULL.
ProtectFails ==
    /\ pc = "write"
    /\ \E s \in Slots : g_pHooks[s] = call.pbAlloc /\ TrampolineFree(s, TRUE)
    /\ pc' = "idle" /\ call' = NULL
    /\ UNCHANGED <<entry, actual, pSystemFunction>>

\* TrampolineGet: the slot whose trampoline the caller uses.
TrampolineGet(s, p) == g_pHooks[s] # 0 /\ g_pHooks[s] + codeTrampoline = p

\* The bytes that were moved come back.  What a longer jump wrote behind them stays.
Restored(r) == IF entry[r].size <= r.cb THEN OwnCode ELSE [entry[r] EXCEPT !.to = 0]

Unhook ==
    /\ pc = "idle"
    /\ \E r \in Routines, s \in Slots :
        /\ actual[r] # r.at /\ TrampolineGet(s, actual[r])
        /\ entry' = [entry EXCEPT ![pSystemFunction[s]] = Restored(pSystemFunction[s])]
        /\ actual' = [actual EXCEPT ![r] = pSystemFunction[s].at]
        /\ TrampolineFree(s, FALSE)
    /\ UNCHANGED <<pSystemFunction, pc, call>>

Next ==
    \/ SetHook \/ NextRegion \/ TrampolineAlloc \/ NoTrampoline
    \/ Place \/ ProtectFails \/ Unhook

Spec == Init /\ [][Next]_vars

------------------------------------------------------------------------------
(***************************************************************************)
(* Properties.                                                             *)
(***************************************************************************)
Hooked == {r \in Routines : entry[r].to # 0}
InUse == {s \in Slots : g_pHooks[s] # 0}

\* The types of the state; a search is under way only with a function.
TypeOK ==
    /\ free \subseteq Nat
    /\ entry \in [Routines -> [to : Nat, size : {0, MHOOK_JMPSIZE, LongJump}]]
    /\ actual \in [Routines -> Nat]
    /\ g_pHooks \in [Slots -> Nat]
    /\ g_nHooksInUse \in 0..MHOOKS_MAX_SUPPORTED_HOOKS
    /\ pSystemFunction \in [Slots -> Routines \cup {NULL}]
    /\ pc \in {"idle", "search", "write"}
    /\ pc # "idle" => call \in [routine : Routines, pbAlloc : Nat]

\* The trampoline of a hooked function.
TrampolineOf(r) == actual[r] - codeTrampoline

\* EmitJump counts from behind the jump, and Mhook_SetHook from its beginning:
\* a hook so far below its function is jumped to directly, in 14 bytes.
AtTheLimit(r) ==
    r.hook < r.at /\ Distance(r.hook, r.at) \in (MaxJump - MHOOK_JMPSIZE + 1)..MaxJump

\* The jump in the function takes no more bytes than were moved (mhook.cpp:704:
\* "we only have 5 bytes guaranteed in the API"), but for a hook at the limit.
EntryFits == \A r \in Hooked : AtTheLimit(r) \/ entry[r].size <= r.cb

\* The moved bytes and the jump behind them fit into their 32 bytes; with the
\* long jump they might not.
TrampolineFits ==
    \A r \in Hooked : r.cb + Continuation(r, TrampolineOf(r)).size <= MHOOKS_MAX_CODE_BYTES

\* A displacement that was relative to the function's instruction still fits
\* into 32 bits in the trampoline's.
DisplacementsFit ==
    \A r \in Hooked : \A i \in r.rips :
        dwNewDisplacement(r, TrampolineOf(r), i) \in (-Half)..(Half - 1)

\* The table, its counter, the functions' code and the callers' pointers agree:
\* a function has a jump exactly when a slot holds its trampoline, the pointer
\* is into that trampoline, no two trampolines share a page, and a slot without
\* a function is the one being filled.  A function whose hook was taken away is
\* its own again, but for a hook at the limit.
TableAgrees ==
    /\ g_nHooksInUse = Cardinality(InUse)
    /\ \A r \in Routines :
        /\ r \in Hooked <=> \E s \in InUse : pSystemFunction[s] = r
        /\ r \in Hooked <=> actual[r] # r.at
        /\ r \in Hooked \/ AtTheLimit(r) \/ entry[r] = OwnCode
    /\ \A s \in InUse :
        /\ IF pSystemFunction[s] = NULL THEN pc = "write" /\ call.pbAlloc = g_pHooks[s]
           ELSE actual[pSystemFunction[s]] = g_pHooks[s] + codeTrampoline
        /\ \A t \in InUse \ {s} : PagesOf(g_pHooks[s]) \cap PagesOf(g_pHooks[t]) = {}

\* A thread may still be in the trampoline when its hook is taken away: the
\* memory of what a caller has called through is not released by that step.
CalledCodeStays ==
    [][\A r \in Routines : actual[r] # r.at => free' \cap PagesOf(TrampolineOf(r)) = {}]_vars
==============================================================================
