------------------------ MODULE HookPlacement_proofs ------------------------
(***************************************************************************)
(* Proofs about HookPlacement, for every address space and all functions.  *)
(***************************************************************************)
EXTENDS HookPlacement, FiniteSetTheorems, TLAPS

\* What the search for memory achieves: the trampoline is not further below
\* the function, counted from its highest operand, nor further above, counted
\* from the lowest, than 32 bits reach, with room to spare.
Reach(r, p) ==
    /\ p \in Nat /\ p # 0
    /\ r.at + nLimitUp(r) - p <= MaxJump
    /\ p - r.at - nLimitDown(r) < UpperReach + Granularity

\* No page of code is free or part of a trampoline; nor is a trampoline free.
MemoryKept ==
    /\ \A s \in InUse : PagesOf(g_pHooks[s]) \cap free = {}
    /\ \A r \in Routines :
        /\ PageOf(r.at) \notin free
        /\ \A s \in InUse : PageOf(r.at) \notin PagesOf(g_pHooks[s])

CallKept ==
    /\ pc = "search" => g_nHooksInUse < MHOOKS_MAX_SUPPORTED_HOOKS
    /\ pc # "idle" => call.pbAlloc >= pLower(call.routine) /\ actual[call.routine] = call.routine.at
    /\ pc = "write" =>
        /\ Reach(call.routine, call.pbAlloc)
        /\ \E s \in InUse : g_pHooks[s] = call.pbAlloc /\ pSystemFunction[s] = NULL

HookedReach ==
    \A r \in Hooked : Reach(r, TrampolineOf(r)) /\ entry[r] = EntryJump(r, TrampolineOf(r))

IInv == TypeOK /\ CallKept /\ HookedReach /\ MemoryKept /\ TableAgrees

------------------------------------------------------------------------------
(***************************************************************************)
(* The arithmetic of the window.                                           *)
(***************************************************************************)
\* A set of integers that is not empty and bounded has a greatest element.
LEMMA MaxExists ==
    ASSUME NEW S \in SUBSET Int, S # {}, NEW b \in Int, \A x \in S : x <= b
    PROVE  \E m \in S : \A x \in S : x <= m
PROOF
  <1>. DEFINE T == {n \in Nat : b - n \in S}
  <1>1. PICK x \in S : TRUE
    OBVIOUS
  <1>2. b - x \in T
    OBVIOUS
  <1>3. \E n \in T : \A k \in T : ~ (<<k, n>> \in OpToRel(<, Nat))
    BY <1>2, WFMin, NatLessThanWellFounded
  <1>4. PICK n \in T : \A k \in T : ~ (k < n)
    BY <1>3 DEF OpToRel
  <1>5. \A y \in S : b - y \in T
    OBVIOUS
  <1>6. n \in Nat /\ b - n \in S /\ \A k \in T : k \in Nat
    OBVIOUS
  <1>. HIDE DEF T
  <1>7. \A y \in S : y <= b - n
    BY <1>4, <1>5, <1>6
  <1>. QED BY <1>6, <1>7

\* nLimitUp and nLimitDown bound the displacements.
LEMMA Limits ==
    ASSUME NEW r \in Routines
    PROVE  /\ r.at \in Nat /\ r.hook \in Nat /\ r.cb \in MHOOK_JMPSIZE..19
           /\ nLimitUp(r) \in 0..(Half + 3) /\ nLimitDown(r) \in (-Half)..0
           /\ r.at + nLimitDown(r) >= 0
           /\ \A i \in r.rips : /\ i.start \in 0..4 /\ i.displacement \in (-Half)..(Half - 1)
                                /\ i.displacement + i.start <= nLimitUp(r)
                                /\ i.displacement + i.start >= nLimitDown(r)
PROOF
  <1>. USE PlacementAssumption
  <1>. DEFINE S == Adjusted(r)
              N == {-d : d \in S}
  <1>1. \A i \in r.rips : /\ i.start \in 0..4 /\ i.displacement \in (-Half)..(Half - 1)
                          /\ r.at + i.start + i.displacement >= 0
    OBVIOUS
  <1>2. Half \in Nat /\ r.at \in Nat
    BY DEF Half
  <1>3. /\ S \subseteq (-Half)..(Half + 3) /\ 0 \in S
        /\ \A d \in S : r.at + d >= 0
        /\ \A i \in r.rips : i.displacement + i.start \in S
    BY <1>1, <1>2 DEF Adjusted
  <1>. HIDE PlacementAssumption DEF S
  <1>4. \E m \in S : \A x \in S : x <= m
    <2>1. S \in SUBSET Int /\ S # {} /\ Half + 3 \in Int /\ \A x \in S : x <= Half + 3
      BY <1>2, <1>3
    <2>. QED BY <2>1, MaxExists, Zenon
  <1>5. nLimitUp(r) \in S /\ \A x \in S : x <= nLimitUp(r)
    BY <1>4 DEF nLimitUp, S
  <1>6. N \in SUBSET Int /\ N # {} /\ \A x \in N : x <= Half
    BY <1>2, <1>3
  <1>7. PICK m \in N : \A x \in N : x <= m
    <2>1. Half \in Int
      BY <1>2
    <2>. QED BY <1>6, <2>1, MaxExists, Zenon
  <1>8. -m \in S /\ \A x \in S : -m <= x
    <2>1. PICK d \in S : m = -d
      OBVIOUS
    <2>2. \A x \in S : -x \in N /\ x \in Int
      BY <1>2, <1>3
    <2>. QED BY <1>7, <2>1, <2>2
  <1>. HIDE DEF N
  <1>9. nLimitDown(r) \in S /\ \A x \in S : nLimitDown(r) <= x
    BY <1>8 DEF nLimitDown, S
  <1>10. nLimitUp(r) \in 0..(Half + 3) /\ nLimitDown(r) \in (-Half)..0 /\ r.at + nLimitDown(r) >= 0
    <2>1. nLimitUp(r) \in (-Half)..(Half + 3) /\ nLimitDown(r) \in (-Half)..(Half + 3)
      BY <1>3, <1>5, <1>9
    <2>2. nLimitUp(r) >= 0 /\ nLimitDown(r) <= 0 /\ r.at + nLimitDown(r) >= 0
      BY <1>3, <1>5, <1>9
    <2>. QED BY <1>2, <2>1, <2>2
  <1>11. r.hook \in Nat /\ r.cb \in MHOOK_JMPSIZE..19
    BY PlacementAssumption
  <1>. QED BY <1>1, <1>2, <1>3, <1>5, <1>9, <1>10, <1>11

\* The next boundary of the granularity.
LEMMA Aligned ==
    ASSUME NEW p \in Nat, p >= 1
    PROVE  Align(p) \in Nat /\ Align(p) >= p /\ Align(p) < p + Granularity /\ Align(p) >= Granularity
PROOF
  <1>1. Granularity \in Nat \ {0}
    BY PlacementAssumption DEF TrampolineSize
  <1>. QED BY <1>1 DEF Align

LEMMA LowerEnd ==
    ASSUME NEW r \in Routines
    PROVE  pLower(r) \in Nat /\ pLower(r) >= 1
BY Limits, PlacementAssumption DEF pLower, Half, TrampolineSize

\* Memory taken in the window is within reach.
LEMMA WindowReaches ==
    ASSUME NEW r \in Routines, NEW q \in Nat, q >= pLower(r), q < pUpper(r)
    PROVE  Reach(r, Align(q))
PROOF
  <1>1. q >= 1 /\ pLower(r) \in Nat
    BY LowerEnd
  <1>2. /\ Align(q) \in Nat /\ Align(q) >= q /\ Align(q) < q + Granularity
        /\ Align(q) >= Granularity /\ Granularity \in Nat /\ Granularity >= 120
    BY <1>1, Aligned, PlacementAssumption DEF TrampolineSize
  <1>3. r.at + nLimitUp(r) - Align(q) <= MaxJump
    BY <1>1, <1>2, Limits, PlacementAssumption DEF pLower, Half
  <1>4. Align(q) - r.at - nLimitDown(r) < UpperReach + Granularity
    BY <1>1, <1>2, Limits, PlacementAssumption DEF pUpper
  <1>. QED BY <1>2, <1>3, <1>4 DEF Reach

\* Whatever is within reach is reached by jumps of five bytes.
LEMMA ReachIsNear ==
    ASSUME NEW r \in Routines, NEW p, Reach(r, p)
    PROVE  /\ Continuation(r, p).size = MHOOK_JMPSIZE
           /\ EntryJump(r, p) \in [to : Nat, size : {MHOOK_JMPSIZE, LongJump}]
           /\ AtTheLimit(r) \/ EntryJump(r, p).size = MHOOK_JMPSIZE
           /\ \A i \in r.rips : dwNewDisplacement(r, p, i) \in (-Half)..(Half - 1)
PROOF
  <1>. USE Limits, PlacementAssumption DEF Reach, MHOOK_JMPSIZE, TrampolineSize
  <1>1. Continuation(r, p).size = MHOOK_JMPSIZE
    BY DEF Continuation, EmitJump, Distance, codeTrampoline
  <1>2. EntryJump(r, p) \in [to : Nat, size : {MHOOK_JMPSIZE, LongJump}]
    BY DEF EntryJump, EmitJump, codeJumpToHookFunction
  <1>3. AtTheLimit(r) \/ EntryJump(r, p).size = MHOOK_JMPSIZE
    <2>1. CASE NeedsStub(r)
      BY <2>1 DEF EntryJump, EmitJump, Distance, codeJumpToHookFunction
    <2>2. CASE ~ NeedsStub(r)
      BY <2>2 DEF EntryJump, EmitJump, Distance, NeedsStub, AtTheLimit
    <2>. QED BY <2>1, <2>2
  <1>4. ASSUME NEW i \in r.rips
        PROVE  dwNewDisplacement(r, p, i) \in (-Half)..(Half - 1)
    BY DEF dwNewDisplacement, codeTrampoline, Half
  <1>. QED BY <1>1, <1>2, <1>3, <1>4

------------------------------------------------------------------------------
(***************************************************************************)
(* The table and the memory.                                               *)
(***************************************************************************)
\* A trampoline's pages include those of its beginning and of its code.
LEMMA PagesInside ==
    ASSUME NEW p \in Nat
    PROVE  PageOf(p) \in PagesOf(p) /\ PageOf(p + codeTrampoline) \in PagesOf(p)
BY PlacementAssumption DEF PageOf, PagesOf, TrampolineSize, codeTrampoline

\* One trampoline is in one slot.
LEMMA OneSlot ==
    ASSUME TypeOK, TableAgrees, NEW s \in InUse, NEW t \in InUse, g_pHooks[s] = g_pHooks[t]
    PROVE  s = t
BY PagesInside DEF TypeOK, TableAgrees, InUse

LEMMA SlotsFinite ==
    IsFiniteSet(InUse) /\ Cardinality(InUse) \in Nat
PROOF
  <1>0. MHOOKS_MAX_SUPPORTED_HOOKS \in Int
    BY PlacementAssumption
  <1>1. IsFiniteSet(Slots)
    BY <1>0, FS_Interval DEF Slots
  <1>2. InUse \subseteq Slots
    BY DEF InUse
  <1>3. IsFiniteSet(InUse)
    BY <1>1, <1>2, FS_Subset, Zenon
  <1>. QED BY <1>3, FS_CardinalityType

\* VirtualQuery's region ends behind the address asked for.
LEMMA RegionEndsBehind ==
    ASSUME NEW p \in Nat, p < Highest
    PROVE  RegionEnd(p) * PageSize \in Nat /\ RegionEnd(p) * PageSize > p
PROOF
  <1>. DEFINE same == {q \in PageOf(p)..LastPage :
                         \A k \in PageOf(p)..q : k \in free <=> PageOf(p) \in free}
  <1>1. PageOf(p) \in Nat /\ LastPage \in Int /\ PageOf(p) <= LastPage
    BY PlacementAssumption DEF PageOf, LastPage
  <1>2. PageOf(p) \in same
    BY <1>1
  <1>3. IsFiniteSet(same)
    <2>1. IsFiniteSet(PageOf(p)..LastPage)
      BY <1>1, FS_Interval
    <2>. QED BY <2>1, FS_Subset
  <1>4. Cardinality(same) \in Nat /\ Cardinality(same) # 0
    BY <1>2, <1>3, FS_CardinalityType, FS_EmptySet
  <1>5. RegionEnd(p) \in Nat /\ RegionEnd(p) >= PageOf(p) + 1
    BY <1>1, <1>4 DEF RegionEnd
  <1>. QED BY <1>5, PlacementAssumption DEF PageOf

------------------------------------------------------------------------------
(***************************************************************************)
(* The invariant.                                                          *)
(***************************************************************************)
LEMMA InitInv == Init => IInv
PROOF
  <1>. SUFFICES ASSUME Init PROVE IInv
    OBVIOUS
  <1>. USE PlacementAssumption
  <1>1. InUse = {} /\ Hooked = {}
    BY DEF Init, InUse, Hooked, OwnCode
  <1>2. TypeOK
    BY DEF Init, TypeOK, OwnCode
  <1>3. TableAgrees
    BY <1>1, FS_EmptySet DEF Init, TableAgrees
  <1>4. MemoryKept
    BY <1>1 DEF Init, MemoryKept, PageOf
  <1>5. CallKept /\ HookedReach
    BY <1>1 DEF Init, CallKept, HookedReach
  <1>. QED BY <1>2, <1>3, <1>4, <1>5 DEF IInv

LEMMA SetHookKeeps == IInv /\ SetHook => IInv'
PROOF
  <1>. SUFFICES ASSUME IInv, SetHook PROVE IInv'
    OBVIOUS
  <1>1. PICK r \in Routines : actual[r] = r.at /\ call' = [routine |-> r, pbAlloc |-> pLower(r)]
    BY DEF SetHook
  <1>2. UNCHANGED <<free, entry, actual, g_pHooks, g_nHooksInUse, pSystemFunction>>
    BY DEF SetHook
  <1>3. InUse' = InUse /\ Hooked' = Hooked
    BY <1>2 DEF InUse, Hooked
  <1>4. pLower(r) \in Nat
    BY LowerEnd
  <1>5. TypeOK'
    BY <1>1, <1>2, <1>4 DEF SetHook, IInv, TypeOK
  <1>6. CallKept'
    BY <1>1, <1>2, <1>4 DEF SetHook, IInv, CallKept
  <1>7. HookedReach' /\ MemoryKept'
    BY <1>2, <1>3 DEF IInv, HookedReach, MemoryKept, TrampolineOf
  <1>8. TableAgrees'
    BY <1>2, <1>3 DEF SetHook, IInv, TableAgrees
  <1>. QED BY <1>5, <1>6, <1>7, <1>8 DEF IInv

LEMMA NextRegionKeeps == IInv /\ NextRegion => IInv'
PROOF
  <1>. SUFFICES ASSUME IInv, NextRegion PROVE IInv'
    OBVIOUS
  <1>1. UNCHANGED <<free, entry, actual, g_pHooks, g_nHooksInUse, pSystemFunction, pc>> /\ pc = "search"
    BY DEF NextRegion, Searching
  <1>2. InUse' = InUse /\ Hooked' = Hooked
    BY <1>1 DEF InUse, Hooked
  <1>3. call \in [routine : Routines, pbAlloc : Nat] /\ call.pbAlloc < Highest
    BY <1>1 DEF IInv, TypeOK, NextRegion, Searching
  <1>4. RegionEnd(call.pbAlloc) * PageSize \in Nat /\ RegionEnd(call.pbAlloc) * PageSize > call.pbAlloc
    BY <1>3, RegionEndsBehind
  <1>5. /\ call' \in [routine : Routines, pbAlloc : Nat]
        /\ call'.routine = call.routine /\ call'.pbAlloc > call.pbAlloc
    BY <1>3, <1>4 DEF NextRegion
  <1>6. TypeOK'
    BY <1>1, <1>5 DEF IInv, TypeOK
  <1>7. CallKept'
    BY <1>1, <1>3, <1>5, LowerEnd DEF IInv, CallKept
  <1>8. HookedReach' /\ MemoryKept'
    BY <1>1, <1>2 DEF IInv, HookedReach, MemoryKept, TrampolineOf
  <1>9. TableAgrees'
    BY <1>1, <1>2 DEF IInv, TableAgrees
  <1>. QED BY <1>6, <1>7, <1>8, <1>9 DEF IInv

LEMMA NoTrampolineKeeps == IInv /\ NoTrampoline => IInv'
PROOF
  <1>. SUFFICES ASSUME IInv, NoTrampoline PROVE IInv'
    OBVIOUS
  <1>1. /\ UNCHANGED <<free, entry, actual, g_pHooks, g_nHooksInUse, pSystemFunction>>
        /\ pc = "search" /\ pc' = "idle"
    BY DEF NoTrampoline
  <1>2. InUse' = InUse /\ Hooked' = Hooked
    BY <1>1 DEF InUse, Hooked
  <1>3. TypeOK' /\ CallKept'
    BY <1>1 DEF IInv, TypeOK, CallKept
  <1>4. HookedReach' /\ MemoryKept'
    BY <1>1, <1>2 DEF IInv, HookedReach, MemoryKept, TrampolineOf
  <1>5. TableAgrees'
    BY <1>1, <1>2 DEF IInv, TableAgrees
  <1>. QED BY <1>3, <1>4, <1>5 DEF IInv

LEMMA TrampolineAllocKeeps == IInv /\ TrampolineAlloc => IInv'
PROOF
  <1>. SUFFICES ASSUME IInv, TrampolineAlloc PROVE IInv'
    OBVIOUS
  <1>. DEFINE r == call.routine
              q == call.pbAlloc
              p == Align(q)
  <1>1. PICK s \in Slots : EmptySlot(s) /\ g_pHooks' = [g_pHooks EXCEPT ![s] = p]
                           /\ pSystemFunction' = [pSystemFunction EXCEPT ![s] = NULL]
    BY DEF TrampolineAlloc
  <1>2. /\ UNCHANGED <<entry, actual>> /\ pc = "search" /\ pc' = "write"
        /\ q < pUpper(r) /\ PagesOf(p) \subseteq free /\ free' = free \ PagesOf(p)
        /\ call' = [call EXCEPT !.pbAlloc = p] /\ g_nHooksInUse' = g_nHooksInUse + 1
    BY DEF TrampolineAlloc, Searching
  <1>3. /\ call \in [routine : Routines, pbAlloc : Nat] /\ r \in Routines /\ q \in Nat
        /\ q >= pLower(r) /\ actual[r] = r.at
    BY <1>2 DEF IInv, TypeOK, CallKept
  <1>4. Reach(r, p) /\ p \in Nat /\ p # 0
    BY <1>2, <1>3, WindowReaches DEF Reach
  <1>5. p >= pLower(r)
    BY <1>3, LowerEnd, Aligned
  <1>. HIDE DEF p
  <1>6. call' = [routine |-> r, pbAlloc |-> p] /\ call' \in [routine : Routines, pbAlloc : Nat]
    BY <1>2, <1>3, <1>4
  <1>7. /\ g_pHooks \in [Slots -> Nat] /\ pSystemFunction \in [Slots -> Routines \cup {NULL}]
        /\ g_nHooksInUse \in Nat /\ MHOOKS_MAX_SUPPORTED_HOOKS \in Nat
        /\ g_nHooksInUse < MHOOKS_MAX_SUPPORTED_HOOKS
    BY <1>2, PlacementAssumption DEF IInv, TypeOK, CallKept
  <1>8. /\ s \notin InUse /\ InUse' = InUse \cup {s}
        /\ g_pHooks'[s] = p /\ pSystemFunction'[s] = NULL
        /\ \A t \in InUse : g_pHooks'[t] = g_pHooks[t] /\ pSystemFunction'[t] = pSystemFunction[t]
    BY <1>1, <1>4, <1>7 DEF InUse, EmptySlot
  <1>9. Hooked' = Hooked
    BY <1>2 DEF Hooked
  <1>10. TypeOK'
    BY <1>1, <1>2, <1>4, <1>6, <1>7 DEF IInv, TypeOK
  <1>11. CallKept'
    BY <1>2, <1>3, <1>4, <1>5, <1>6, <1>8 DEF CallKept
  <1>12. HookedReach'
    BY <1>2, <1>9 DEF IInv, HookedReach, TrampolineOf
  <1>13. MemoryKept'
    BY <1>2, <1>8 DEF IInv, MemoryKept
  <1>14. TableAgrees'
    <2>1. g_nHooksInUse' = Cardinality(InUse')
      BY <1>2, <1>8, SlotsFinite, FS_AddElement DEF IInv, TableAgrees
    <2>2. \A t \in InUse : pSystemFunction[t] # NULL
      BY <1>2 DEF IInv, TableAgrees
    <2>3. \A u \in InUse' : u \in InUse \/ u = s
      BY <1>8
    <2>4. ASSUME NEW x \in Routines
          PROVE  /\ (x \in Hooked)' <=> (\E t \in InUse : pSystemFunction[t] = x)'
                 /\ (x \in Hooked)' <=> actual'[x] # x.at
                 /\ (x \in Hooked)' \/ AtTheLimit(x) \/ entry'[x] = OwnCode
      BY <1>2, <1>8, <1>9, PlacementAssumption DEF IInv, TableAgrees
    <2>5. ASSUME NEW t \in InUse'
          PROVE  IF pSystemFunction'[t] = NULL THEN pc' = "write" /\ call'.pbAlloc = g_pHooks'[t]
                 ELSE actual'[pSystemFunction'[t]] = g_pHooks'[t] + codeTrampoline
      BY <1>2, <1>6, <1>8, <2>2, <2>3 DEF IInv, TableAgrees
    <2>6. ASSUME NEW t \in InUse', NEW u \in InUse', t # u
          PROVE  PagesOf(g_pHooks'[t]) \cap PagesOf(g_pHooks'[u]) = {}
      <3>1. \A v \in InUse : PagesOf(g_pHooks[v]) \cap PagesOf(p) = {}
        BY <1>2 DEF IInv, MemoryKept
      <3>2. CASE t = s
        <4>1. u \in InUse /\ g_pHooks'[u] = g_pHooks[u] /\ g_pHooks'[t] = p
          BY <1>8, <2>3, <2>6, <3>2
        <4>. QED BY <3>1, <4>1
      <3>3. CASE u = s
        <4>1. t \in InUse /\ g_pHooks'[t] = g_pHooks[t] /\ g_pHooks'[u] = p
          BY <1>8, <2>3, <2>6, <3>3
        <4>. QED BY <3>1, <4>1
      <3>4. CASE t # s /\ u # s
        <4>1. /\ t \in InUse /\ g_pHooks'[t] = g_pHooks[t]
              /\ u \in InUse /\ g_pHooks'[u] = g_pHooks[u]
          BY <1>8, <2>3, <3>4
        <4>2. PagesOf(g_pHooks[t]) \cap PagesOf(g_pHooks[u]) = {}
          BY <2>6, <4>1 DEF IInv, TableAgrees
        <4>. QED BY <4>1, <4>2
      <3>. QED BY <3>2, <3>3, <3>4
    <2>. QED BY <2>1, <2>4, <2>5, <2>6 DEF TableAgrees
  <1>. QED BY <1>10, <1>11, <1>12, <1>13, <1>14 DEF IInv

LEMMA PlaceKeeps == IInv /\ Place => IInv'
PROOF
  <1>. SUFFICES ASSUME IInv, Place PROVE IInv'
    OBVIOUS
  <1>0. PICK r \in Routines, p \in Nat : r = call.routine /\ p = call.pbAlloc
    BY DEF Place, IInv, TypeOK
  <1>1. /\ pc = "write" /\ pc' = "idle" /\ UNCHANGED <<free, g_pHooks, g_nHooksInUse>>
        /\ entry' = [entry EXCEPT ![r] = EntryJump(r, p)]
        /\ actual' = [actual EXCEPT ![r] = p + codeTrampoline]
        /\ pSystemFunction' = [t \in Slots |-> IF g_pHooks[t] = p THEN r ELSE pSystemFunction[t]]
    BY <1>0 DEF Place
  <1>2. r \in Routines /\ p \in Nat /\ p # 0 /\ Reach(r, p) /\ actual[r] = r.at
    BY <1>0, <1>1 DEF IInv, CallKept, Reach
  <1>3. PICK s \in InUse : g_pHooks[s] = p /\ pSystemFunction[s] = NULL
    BY <1>0, <1>1 DEF IInv, CallKept
  <1>4. /\ EntryJump(r, p) \in [to : Nat, size : {MHOOK_JMPSIZE, LongJump}]
        /\ EntryJump(r, p).to # 0
    <2>1. r.hook \in Nat \ {0} /\ p + codeJumpToHookFunction # 0
      BY <1>2, PlacementAssumption DEF codeJumpToHookFunction
    <2>. QED BY <1>2, <2>1, ReachIsNear DEF EntryJump, EmitJump, MHOOK_JMPSIZE, LongJump
  <1>5. /\ entry \in [Routines -> [to : Nat, size : {0, MHOOK_JMPSIZE, LongJump}]]
        /\ actual \in [Routines -> Nat]
        /\ pSystemFunction \in [Slots -> Routines \cup {NULL}]
    BY DEF IInv, TypeOK
  <1>6. InUse' = InUse /\ Hooked' = Hooked \cup {r} /\ r \notin Hooked
    BY <1>1, <1>2, <1>4, <1>5 DEF InUse, Hooked, IInv, TableAgrees
  <1>7. /\ s \in Slots /\ pSystemFunction'[s] = r /\ NULL # r
        /\ \A t \in InUse \ {s} : t \in Slots /\ pSystemFunction'[t] = pSystemFunction[t]
    BY <1>1, <1>2, <1>3, OneSlot, PlacementAssumption DEF IInv, InUse
  <1>8. /\ entry'[r] = EntryJump(r, p) /\ actual'[r] = p + codeTrampoline
        /\ \A x \in Routines \ {r} : entry'[x] = entry[x] /\ actual'[x] = actual[x]
    BY <1>1, <1>2, <1>5
  <1>9. p + codeTrampoline # r.at
    BY <1>2, <1>3, PagesInside DEF IInv, MemoryKept
  <1>10. TypeOK'
    <2>1. entry' \in [Routines -> [to : Nat, size : {0, MHOOK_JMPSIZE, LongJump}]]
      BY <1>1, <1>4, <1>5
    <2>2. actual' \in [Routines -> Nat]
      BY <1>1, <1>2, <1>5 DEF codeTrampoline
    <2>3. pSystemFunction' \in [Slots -> Routines \cup {NULL}]
      BY <1>1, <1>2, <1>5
    <2>. QED BY <1>1, <2>1, <2>2, <2>3 DEF IInv, TypeOK
  <1>11. CallKept'
    BY <1>1 DEF CallKept
  <1>12. HookedReach'
    <2>1. ASSUME NEW x \in Hooked'
          PROVE  Reach(x, TrampolineOf(x)') /\ entry'[x] = EntryJump(x, TrampolineOf(x)')
      <3>1. CASE x = r
        <4>1. TrampolineOf(r)' = p
          BY <1>2, <1>8 DEF TrampolineOf, codeTrampoline
        <4>. QED BY <1>2, <1>8, <3>1, <4>1
      <3>2. CASE x # r
        <4>1. x \in Hooked /\ x \in Routines
          BY <1>6, <3>2 DEF Hooked
        <4>. QED BY <1>8, <3>2, <4>1 DEF IInv, HookedReach, TrampolineOf
      <3>. QED BY <3>1, <3>2
    <2>. QED BY <2>1 DEF HookedReach
  <1>13. MemoryKept'
    BY <1>1, <1>6 DEF IInv, MemoryKept
  <1>14. TableAgrees'
    <2>1. \A t \in InUse \ {s} : pSystemFunction[t] # NULL
      BY <1>3, OneSlot DEF IInv, TableAgrees
    <2>2. g_nHooksInUse' = Cardinality(InUse')
      BY <1>1, <1>6 DEF IInv, TableAgrees
    <2>3. ASSUME NEW x \in Routines
          PROVE  /\ (x \in Hooked)' <=> (\E t \in InUse : pSystemFunction[t] = x)'
                 /\ (x \in Hooked)' <=> actual'[x] # x.at
                 /\ (x \in Hooked)' \/ AtTheLimit(x) \/ entry'[x] = OwnCode
      <3>1. CASE x = r
        BY <1>3, <1>6, <1>7, <1>8, <1>9, <3>1
      <3>2. CASE x # r
        BY <1>3, <1>6, <1>7, <1>8, <3>2, PlacementAssumption DEF IInv, TableAgrees
      <3>. QED BY <3>1, <3>2
    <2>4. ASSUME NEW t \in InUse
          PROVE  /\ pSystemFunction'[t] # NULL
                 /\ actual'[pSystemFunction'[t]] = g_pHooks'[t] + codeTrampoline
      <3>1. CASE t = s
        BY <1>1, <1>3, <1>7, <1>8, <3>1
      <3>2. CASE t # s
        <4>1. pSystemFunction'[t] = pSystemFunction[t] /\ pSystemFunction[t] \in Routines
          BY <1>5, <1>7, <2>1, <3>2
        <4>2. pSystemFunction[t] # r
          BY <1>6, <4>1, <1>2 DEF IInv, TableAgrees
        <4>. QED BY <1>1, <1>8, <2>1, <3>2, <4>1, <4>2 DEF IInv, TableAgrees
      <3>. QED BY <3>1, <3>2
    <2>5. \A t, u \in InUse : t # u => PagesOf(g_pHooks'[t]) \cap PagesOf(g_pHooks'[u]) = {}
      BY <1>1 DEF IInv, TableAgrees
    <2>. QED BY <1>6, <2>2, <2>3, <2>4, <2>5 DEF TableAgrees
  <1>. QED BY <1>10, <1>11, <1>12, <1>13, <1>14 DEF IInv

\* What TrampolineFree does to the table.
LEMMA Freed ==
    ASSUME IInv, NEW s \in InUse, NEW b \in BOOLEAN, TrampolineFree(s, b),
           UNCHANGED pSystemFunction
    PROVE  /\ InUse' = InUse \ {s}
           /\ g_pHooks' \in [Slots -> Nat]
           /\ \A t \in InUse \ {s} : g_pHooks'[t] = g_pHooks[t]
           /\ g_nHooksInUse' = Cardinality(InUse')
           /\ g_nHooksInUse' \in 0..MHOOKS_MAX_SUPPORTED_HOOKS
           /\ g_nHooksInUse' < MHOOKS_MAX_SUPPORTED_HOOKS
           /\ free' \subseteq Nat
           /\ MemoryKept'
           /\ \A t, u \in InUse' : t # u => PagesOf(g_pHooks'[t]) \cap PagesOf(g_pHooks'[u]) = {}
PROOF
  <1>1. g_pHooks \in [Slots -> Nat] /\ s \in Slots /\ g_pHooks' = [g_pHooks EXCEPT ![s] = 0]
    BY DEF IInv, TypeOK, InUse, TrampolineFree
  <1>2. /\ InUse' = InUse \ {s} /\ g_pHooks' \in [Slots -> Nat]
        /\ \A t \in InUse \ {s} : g_pHooks'[t] = g_pHooks[t]
    BY <1>1 DEF InUse
  <1>3. g_nHooksInUse = Cardinality(InUse) /\ g_nHooksInUse' = g_nHooksInUse - 1
    BY DEF IInv, TableAgrees, TrampolineFree
  <1>4. Cardinality(InUse \ {s}) = Cardinality(InUse) - 1 /\ Cardinality(InUse \ {s}) \in Nat
    BY SlotsFinite, FS_RemoveElement, FS_CardinalityType
  <1>5. /\ g_nHooksInUse' = Cardinality(InUse')
        /\ g_nHooksInUse' \in 0..MHOOKS_MAX_SUPPORTED_HOOKS
        /\ g_nHooksInUse' < MHOOKS_MAX_SUPPORTED_HOOKS
    BY <1>2, <1>3, <1>4, PlacementAssumption DEF IInv, TypeOK
  <1>6. \A x \in free' : x \in free \/ x \in PagesOf(g_pHooks[s])
    BY DEF TrampolineFree
  <1>7. PagesOf(g_pHooks[s]) \subseteq Nat
    BY <1>1, PlacementAssumption DEF PagesOf, PageOf, TrampolineSize
  <1>8. free' \subseteq Nat
    BY <1>6, <1>7 DEF IInv, TypeOK
  <1>9. MemoryKept'
    <2>1. ASSUME NEW t \in InUse'
          PROVE  PagesOf(g_pHooks'[t]) \cap free' = {}
      <3>1. t \in InUse /\ t # s /\ g_pHooks'[t] = g_pHooks[t]
        BY <1>2
      <3>2. PagesOf(g_pHooks[t]) \cap free = {} /\ PagesOf(g_pHooks[t]) \cap PagesOf(g_pHooks[s]) = {}
        BY <3>1 DEF IInv, MemoryKept, TableAgrees
      <3>. QED BY <1>6, <3>1, <3>2
    <2>2. ASSUME NEW r \in Routines
          PROVE  PageOf(r.at) \notin free' /\ \A t \in InUse' : PageOf(r.at) \notin PagesOf(g_pHooks'[t])
      BY <1>2, <1>6 DEF IInv, MemoryKept
    <2>. QED BY <2>1, <2>2 DEF MemoryKept
  <1>10. \A t, u \in InUse' : t # u => PagesOf(g_pHooks'[t]) \cap PagesOf(g_pHooks'[u]) = {}
    BY <1>2 DEF IInv, TableAgrees
  <1>. QED BY <1>2, <1>5, <1>8, <1>9, <1>10

LEMMA ProtectFailsKeeps == IInv /\ ProtectFails => IInv'
PROOF
  <1>. SUFFICES ASSUME IInv, ProtectFails PROVE IInv'
    OBVIOUS
  <1>1. PICK s \in Slots : g_pHooks[s] = call.pbAlloc /\ TrampolineFree(s, TRUE)
    BY DEF ProtectFails
  <1>2. UNCHANGED <<entry, actual, pSystemFunction>> /\ pc = "write" /\ pc' = "idle"
    BY DEF ProtectFails
  <1>3. PICK t \in InUse : g_pHooks[t] = call.pbAlloc /\ pSystemFunction[t] = NULL
    BY <1>2 DEF IInv, CallKept
  <1>4. s \in InUse
    BY <1>1, <1>3 DEF InUse
  <1>5. s = t
    BY <1>1, <1>3, <1>4, OneSlot DEF IInv
  <1>6. /\ InUse' = InUse \ {s}
        /\ g_pHooks' \in [Slots -> Nat]
        /\ \A u \in InUse \ {s} : g_pHooks'[u] = g_pHooks[u]
        /\ g_nHooksInUse' = Cardinality(InUse')
        /\ g_nHooksInUse' \in 0..MHOOKS_MAX_SUPPORTED_HOOKS
        /\ free' \subseteq Nat
        /\ MemoryKept'
        /\ \A u, v \in InUse' : u # v => PagesOf(g_pHooks'[u]) \cap PagesOf(g_pHooks'[v]) = {}
    BY <1>1, <1>2, <1>4, Freed
  <1>7. Hooked' = Hooked
    BY <1>2 DEF Hooked
  <1>8. TypeOK' /\ CallKept'
    BY <1>2, <1>6 DEF IInv, TypeOK, CallKept
  <1>9. HookedReach'
    BY <1>2, <1>7 DEF IInv, HookedReach, TrampolineOf
  <1>10. TableAgrees'
    <2>1. ASSUME NEW u \in InUse, u # s
          PROVE  pSystemFunction[u] # NULL
      <3>1. g_pHooks[u] # call.pbAlloc
        BY <1>1, <1>4, <2>1, OneSlot DEF IInv
      <3>. QED BY <3>1 DEF IInv, TableAgrees
    <2>2. ASSUME NEW r \in Routines
          PROVE  /\ (r \in Hooked)' <=> (\E u \in InUse : pSystemFunction[u] = r)'
                 /\ (r \in Hooked)' <=> actual'[r] # r.at
                 /\ (r \in Hooked)' \/ AtTheLimit(r) \/ entry'[r] = OwnCode
      BY <1>2, <1>3, <1>5, <1>6, <1>7, PlacementAssumption DEF IInv, TableAgrees
    <2>3. ASSUME NEW u \in InUse'
          PROVE  /\ pSystemFunction'[u] # NULL
                 /\ actual'[pSystemFunction'[u]] = g_pHooks'[u] + codeTrampoline
      BY <1>2, <1>6, <2>1 DEF IInv, TableAgrees
    <2>. QED BY <1>6, <2>2, <2>3 DEF TableAgrees
  <1>. QED BY <1>6, <1>8, <1>9, <1>10 DEF IInv

\* The jump in a hooked function is no longer than what was moved away, but for
\* a hook at the limit.
LEMMA EntryOfHooked ==
  ASSUME IInv, NEW r \in Hooked PROVE AtTheLimit(r) \/ entry[r].size <= r.cb
PROOF
  <1>1. r \in Routines /\ Reach(r, TrampolineOf(r)) /\ entry[r] = EntryJump(r, TrampolineOf(r))
    BY DEF IInv, HookedReach, Hooked
  <1>2. AtTheLimit(r) \/ entry[r].size = MHOOK_JMPSIZE
    BY <1>1, ReachIsNear
  <1>3. r.cb \in MHOOK_JMPSIZE..19
    BY <1>1, Limits
  <1>. QED BY <1>2, <1>3 DEF MHOOK_JMPSIZE

LEMMA UnhookKeeps == IInv /\ Unhook => IInv'
PROOF
  <1>. SUFFICES ASSUME IInv, Unhook PROVE IInv'
    OBVIOUS
  <1>1. PICK r \in Routines, s \in Slots :
            /\ actual[r] # r.at /\ TrampolineGet(s, actual[r])
            /\ entry' = [entry EXCEPT ![pSystemFunction[s]] = Restored(pSystemFunction[s])]
            /\ actual' = [actual EXCEPT ![r] = pSystemFunction[s].at]
            /\ TrampolineFree(s, FALSE)
    BY DEF Unhook
  <1>2. UNCHANGED <<pSystemFunction, pc, call>> /\ pc = "idle"
    BY DEF Unhook
  <1>3. s \in InUse /\ g_pHooks[s] + codeTrampoline = actual[r]
    BY <1>1 DEF TrampolineGet, InUse
  <1>4. PICK t \in InUse : pSystemFunction[t] = r
    BY <1>1 DEF IInv, TableAgrees
  <1>5. actual[r] = g_pHooks[t] + codeTrampoline
    BY <1>4, PlacementAssumption DEF IInv, TableAgrees
  <1>6. g_pHooks[t] = g_pHooks[s] /\ g_pHooks \in [Slots -> Nat]
    <2>1. g_pHooks \in [Slots -> Nat] /\ t \in Slots
      BY DEF IInv, TypeOK, InUse
    <2>2. g_pHooks[t] \in Nat /\ g_pHooks[s] \in Nat
      BY <2>1
    <2>. QED BY <1>3, <1>5, <2>1, <2>2 DEF codeTrampoline
  <1>7. pSystemFunction[s] = r
    BY <1>3, <1>4, <1>6, OneSlot DEF IInv
  <1>8. /\ entry \in [Routines -> [to : Nat, size : {0, MHOOK_JMPSIZE, LongJump}]]
        /\ actual \in [Routines -> Nat] /\ r.at \in Nat
    BY PlacementAssumption DEF IInv, TypeOK
  <1>9. /\ entry'[r] = Restored(r) /\ actual'[r] = r.at
        /\ \A x \in Routines \ {r} : entry'[x] = entry[x] /\ actual'[x] = actual[x]
    BY <1>1, <1>7, <1>8
  <1>9a. /\ Restored(r) \in [to : {0}, size : {0, MHOOK_JMPSIZE, LongJump}]
         /\ AtTheLimit(r) \/ Restored(r) = OwnCode
    <2>1. r \in Hooked
      BY <1>1 DEF IInv, TableAgrees
    <2>2. AtTheLimit(r) \/ entry[r].size <= r.cb
      BY <2>1, EntryOfHooked
    <2>. QED BY <1>8, <2>2 DEF Restored, OwnCode
  <1>10. Hooked' = Hooked \ {r}
    BY <1>9, <1>9a DEF Hooked
  <1>11. /\ InUse' = InUse \ {s}
         /\ g_pHooks' \in [Slots -> Nat]
         /\ \A u \in InUse \ {s} : g_pHooks'[u] = g_pHooks[u]
         /\ g_nHooksInUse' = Cardinality(InUse')
         /\ g_nHooksInUse' \in 0..MHOOKS_MAX_SUPPORTED_HOOKS
         /\ free' \subseteq Nat
         /\ MemoryKept'
         /\ \A u, v \in InUse' : u # v => PagesOf(g_pHooks'[u]) \cap PagesOf(g_pHooks'[v]) = {}
    BY <1>1, <1>2, <1>3, Freed
  <1>12. TypeOK'
    <2>1. entry' \in [Routines -> [to : Nat, size : {0, MHOOK_JMPSIZE, LongJump}]]
      BY <1>1, <1>7, <1>8, <1>9a
    <2>2. actual' \in [Routines -> Nat]
      BY <1>1, <1>7, <1>8
    <2>. QED BY <1>2, <1>11, <2>1, <2>2 DEF IInv, TypeOK
  <1>13. CallKept'
    BY <1>2 DEF CallKept
  <1>14. HookedReach'
    BY <1>9, <1>10 DEF IInv, HookedReach, TrampolineOf, Hooked
  <1>15. TableAgrees'
    <2>1. ASSUME NEW u \in InUse, u # s
          PROVE  /\ pSystemFunction[u] # r /\ pSystemFunction[u] # NULL
                 /\ actual[pSystemFunction[u]] = g_pHooks[u] + codeTrampoline
      <3>1. pSystemFunction[u] # NULL /\ actual[pSystemFunction[u]] = g_pHooks[u] + codeTrampoline
        BY <1>2 DEF IInv, TableAgrees
      <3>2. g_pHooks[u] # g_pHooks[s]
        BY <1>3, <2>1, OneSlot DEF IInv
      <3>. QED BY <1>3, <1>6, <3>1, <3>2 DEF InUse, codeTrampoline
    <2>2. ASSUME NEW x \in Routines
          PROVE  /\ (x \in Hooked)' <=> (\E u \in InUse : pSystemFunction[u] = x)'
                 /\ (x \in Hooked)' <=> actual'[x] # x.at
                 /\ (x \in Hooked)' \/ AtTheLimit(x) \/ entry'[x] = OwnCode
      <3>1. CASE x = r
        BY <1>2, <1>9, <1>10, <1>11, <1>9a, <2>1, <3>1
      <3>2. CASE x # r
        BY <1>2, <1>7, <1>9, <1>10, <1>11, <3>2 DEF IInv, TableAgrees
      <3>. QED BY <3>1, <3>2
    <2>3. ASSUME NEW u \in InUse'
          PROVE  /\ pSystemFunction'[u] # NULL
                 /\ actual'[pSystemFunction'[u]] = g_pHooks'[u] + codeTrampoline
      <3>1. u \in InUse /\ u # s /\ g_pHooks'[u] = g_pHooks[u]
        BY <1>11
      <3>2. pSystemFunction[u] \in Routines \ {r}
        BY <2>1, <3>1 DEF IInv, TypeOK, InUse
      <3>. QED BY <1>2, <1>9, <2>1, <3>1, <3>2
    <2>. QED BY <1>11, <2>2, <2>3 DEF TableAgrees
  <1>. QED BY <1>11, <1>12, <1>13, <1>14, <1>15 DEF IInv

LEMMA StepInv == IInv /\ [Next]_vars => IInv'
PROOF
  <1>1. ASSUME IInv, UNCHANGED vars PROVE IInv'
    <2>1. InUse' = InUse /\ Hooked' = Hooked
      BY <1>1 DEF vars, InUse, Hooked
    <2>2. TypeOK' /\ CallKept'
      BY <1>1, <2>1 DEF vars, IInv, TypeOK, CallKept
    <2>3. HookedReach' /\ MemoryKept' /\ TableAgrees'
      BY <1>1, <2>1 DEF vars, IInv, HookedReach, MemoryKept, TableAgrees, TrampolineOf
    <2>. QED BY <2>2, <2>3 DEF IInv
  <1>. QED BY <1>1, SetHookKeeps, NextRegionKeeps, TrampolineAllocKeeps, NoTrampolineKeeps,
              PlaceKeeps, ProtectFailsKeeps, UnhookKeeps DEF Next

LEMMA Invariant == Spec => []IInv
BY InitInv, StepInv, PTL DEF Spec

------------------------------------------------------------------------------
(***************************************************************************)
(* The theorems.                                                           *)
(***************************************************************************)
\* The state of the hooks has its types: the counter never leaves the table
\* (g_nHooksInUse), and the search goes on only with a function.
THEOREM TypeCorrect == Spec => []TypeOK
BY Invariant, PTL DEF IInv

\* Wherever memory is found, the jump written into the function is no longer
\* than what was moved away, but for a hook at the limit (mhook.cpp:700).
THEOREM EntriesFit == Spec => []EntryFits
PROOF
  <1>1. IInv => EntryFits
    BY EntryOfHooked DEF EntryFits
  <1>. QED BY <1>1, Invariant, PTL

\* The moved bytes and the jump behind them fit into the trampoline: up to 19
\* bytes, and always a jump of five.
THEOREM TrampolinesFit == Spec => []TrampolineFits
PROOF
  <1>1. IInv => TrampolineFits
    <2>. SUFFICES ASSUME IInv, NEW r \in Hooked
                  PROVE  r.cb + Continuation(r, TrampolineOf(r)).size <= MHOOKS_MAX_CODE_BYTES
      BY DEF TrampolineFits
    <2>1. r \in Routines /\ Reach(r, TrampolineOf(r))
      BY DEF IInv, HookedReach, Hooked
    <2>2. Continuation(r, TrampolineOf(r)).size = MHOOK_JMPSIZE
      BY <2>1, ReachIsNear
    <2>3. r.cb \in MHOOK_JMPSIZE..19
      BY <2>1, Limits
    <2>. QED BY <2>2, <2>3 DEF MHOOK_JMPSIZE, MHOOKS_MAX_CODE_BYTES
  <1>. QED BY <1>1, Invariant, PTL

\* The window of TrampolineAlloc is small enough: every displacement
\* FixupIPRelativeAddressing writes fits into 32 bits.
THEOREM DisplacementsStayShort == Spec => []DisplacementsFit
PROOF
  <1>1. IInv => DisplacementsFit
    BY ReachIsNear DEF IInv, HookedReach, Hooked, DisplacementsFit
  <1>. QED BY <1>1, Invariant, PTL

\* The table of hooks, its counter, the code and the callers' pointers agree.
THEOREM TableStaysTrue == Spec => []TableAgrees
BY Invariant, PTL DEF IInv

\* The memory of a trampoline that a caller calls through is not released.
THEOREM CalledCodeIsKept == Spec => CalledCodeStays
PROOF
  <1>1. ASSUME IInv, [Next]_vars
        PROVE  [\A r \in Routines : actual[r] # r.at => free' \cap PagesOf(TrampolineOf(r)) = {}]_vars
    <2>. SUFFICES ASSUME Next, NEW r \in Routines, actual[r] # r.at
                  PROVE  free' \cap PagesOf(TrampolineOf(r)) = {}
      BY <1>1
    <2>1. PICK s \in InUse : pSystemFunction[s] = r
      BY <1>1 DEF IInv, TableAgrees
    <2>2. s \in Slots /\ g_pHooks[s] \in Nat
      BY <1>1 DEF IInv, TypeOK, InUse
    <2>3. TrampolineOf(r) = g_pHooks[s]
      BY <1>1, <2>1, <2>2, PlacementAssumption DEF IInv, TableAgrees, TrampolineOf, codeTrampoline
    <2>4. PagesOf(g_pHooks[s]) \cap free = {}
      BY <1>1 DEF IInv, MemoryKept
    <2>5. CASE free' \subseteq free
      BY <2>3, <2>4, <2>5
    <2>6. CASE ProtectFails
      <3>1. PICK t \in Slots : g_pHooks[t] = call.pbAlloc /\ TrampolineFree(t, TRUE)
        BY <2>6 DEF ProtectFails
      <3>2. PICK u \in InUse : g_pHooks[u] = call.pbAlloc /\ pSystemFunction[u] = NULL
        BY <1>1, <2>6 DEF IInv, CallKept, ProtectFails
      <3>3. u # s
        BY <2>1, <3>2, PlacementAssumption
      <3>4. PagesOf(g_pHooks[s]) \cap PagesOf(g_pHooks[t]) = {}
        BY <1>1, <3>1, <3>2, <3>3 DEF IInv, TableAgrees
      <3>. QED BY <2>3, <2>4, <3>1, <3>4 DEF TrampolineFree
    <2>7. free' \subseteq free \/ ProtectFails
      BY DEF Next, SetHook, NextRegion, TrampolineAlloc, NoTrampoline, Place, Unhook, TrampolineFree
    <2>. QED BY <2>5, <2>6, <2>7
  <1>. QED BY <1>1, Invariant, PTL DEF Spec, CalledCodeStays
==============================================================================
