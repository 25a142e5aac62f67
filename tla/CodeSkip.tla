------------------------------- MODULE CodeSkip -------------------------------
(***************************************************************************)
(* DisassembleAndSkip (mhook.cpp): which bytes of the function to be       *)
(* hooked are moved to the trampoline, to make room for the jump to the    *)
(* hook.  Whole instructions are taken until MHOOK_JMPSIZE bytes are free; *)
(* an instruction that would not work elsewhere ends the search, unless it *)
(* is relative to the instruction pointer in a way that is patched: then   *)
(* where its displacement is gets recorded for FixupIPRelativeAddressing.  *)
(***************************************************************************)
EXTENDS X86Decoder, X86Manual, FiniteSets

CONSTANTS
    Architectures, \* what the library is built for: 32 or 64
    Functions      \* the code of the functions to be hooked

ASSUME FunctionsAssumption ==
    /\ Architectures \subseteq {32, 64}
    /\ \A f \in Functions : f \in Seq(Byte)

VARIABLES
    rips,   \* where displacements to be patched are, in the order found
    skipped \* what was taken: where it starts, its length, whether it is
            \* relative to the instruction pointer and where its displacement is

vars == <<decoderVars, rips, skipped>>

MHOOK_JMPSIZE == 5
MHOOKS_MAX_CODE_BYTES == 32
MHOOKS_MAX_RIPS == 4

Init ==
    /\ arch \in Architectures /\ code \in Functions
    /\ dwRet = 0
    /\ phase = "skip"
    /\ Instruction = InitInstruction
    /\ rips = <<>>
    /\ skipped = <<>>

Disassemble ==
    /\ dwRet < MHOOK_JMPSIZE
    /\ GetInstruction
    /\ UNCHANGED <<rips, skipped>>

Decode ==
    /\ X86_GetInstruction
    /\ UNCHANGED <<rips, skipped>>

Stop ==
    /\ phase' = "done"
    /\ UNCHANGED <<arch, code, dwRet, Instruction, rips, skipped>>

Enough == phase = "skip" /\ dwRet >= MHOOK_JMPSIZE /\ Stop

NotDecoded == phase = "failed" /\ Stop

\* ITYPE_CALLCC is the type of no instruction; jmpe is an ITYPE_BRANCH.
Transfers_Unconditional == {"ret", "branch", "call", "jmpe"}   \* mutant
Transfers == {"ret", "branch", "branchcc", "call", "jmpe"}
Transfer ==
    /\ phase = "decoded"
    /\ Instruction.Opcode.type \in Transfers
    /\ Stop

\* A 64-bit mov or lea with one operand relative to the instruction pointer.
Patchable(i) ==
    /\ i.Opcode.type \in {"mov", "lea"}
    /\ i.OperandSize = 8
    /\ Len(i.Opcode.args) = 2
    /\ i.IPRel # {}

\* There is no room for a fifth displacement.
Movable ==
    \/ ~ IS_AMD64 \/ Instruction.IPRel = {}
    \/ Patchable(Instruction) /\ Len(rips) < MHOOKS_MAX_RIPS

Unsupported ==
    /\ phase = "decoded"
    /\ Instruction.Opcode.type \notin Transfers
    /\ ~ Movable
    /\ Stop

\* The displacement is taken to be behind REX, opcode and ModRM.
RipOffset_NoRex == dwRet + 2   \* mutant: REX is not counted
RipOffset == dwRet + 3

Skip ==
    /\ phase = "decoded"
    /\ Instruction.Opcode.type \notin Transfers
    /\ Movable
    /\ rips' = IF IS_AMD64 /\ Instruction.IPRel # {} THEN Append(rips, RipOffset) ELSE rips
    /\ skipped' = Append(skipped,
                    [at |-> dwRet, length |-> Instruction.Length,
                     type |-> Instruction.Opcode.type,
                     relative |-> Instruction.IPRel # {},
                     displacement |-> dwRet + Instruction.DisplacementAt])
    /\ dwRet' = dwRet + Instruction.Length
    /\ phase' = "skip"
    /\ UNCHANGED <<arch, code, Instruction>>

Done == phase = "done" /\ UNCHANGED vars

Next ==
    \/ Disassemble \/ Decode \/ Skip
    \/ Enough \/ NotDecoded \/ Transfer \/ Unsupported
    \/ Done

Spec == Init /\ [][Next]_vars

------------------------------------------------------------------------------
(***************************************************************************)
(* Properties.                                                             *)
(***************************************************************************)
Skipped == {skipped[k] : k \in 1..Len(skipped)}

\* The types of what the search keeps: the length of an instruction is that of
\* its bytes, and what has been taken is what dwRet counts.
TypeOK ==
    /\ arch \in {32, 64} /\ code \in Seq(Byte)
    /\ phase \in {"skip", "prefix", "opcode", "operands", "decoded", "failed", "done"}
    /\ dwRet \in Nat /\ Instruction.Length \in Nat
    /\ rips \in Seq(Nat)
    /\ phase = "decoded" => Instruction.Length \in 1..X86_MAX_INSTRUCTION_LEN

\* What the decoder counts wrong: the entries that have a ModRM byte and no
\* operand (the fences and UD1), 3DNow!, and a REX prefix behind another.
Miscounted(s) ==
    LET op == OpcodeAt(arch, code, s.at)
    IN  \/ TwoBytes(arch, code, s.at) /\ At(code, op) = \hAE /\ RegOf(arch, code, s.at) \in 5..7
        \/ TwoBytes(arch, code, s.at) /\ At(code, op) \in {\h0F, \hB9}
        \/ arch = 64 /\ \E k \in s.at..(op - 2) : {At(code, k), At(code, k + 1)} \subseteq RexCodes

\* Every instruction that is taken is one whole instruction by the manuals,
\* but for those above, and they are taken one behind the other.
WholeInstructions ==
    /\ \A s \in Skipped : Miscounted(s) \/ s.length = ManualLength(arch, code, s.at)
    /\ \A k \in 1..Len(skipped) :
          skipped[k].at + skipped[k].length = IF k = Len(skipped) THEN dwRet ELSE skipped[k + 1].at

\* mhook.cpp:536: "skip bytes in a way that we'll always end on an instruction
\* boundary".
AlwaysOnBoundary ==
    \A s \in Skipped : s.length = ManualLength(arch, code, s.at)

\* An operand relative to the instruction pointer is never moved unpatched, and
\* nothing else is patched: the places recorded are those of the displacements
\* of the instructions that have one, when these are a REX prefix and one
\* opcode byte, and within them in any case.
RelativesRecorded ==
    LET relatives == {s \in Skipped : ~ Miscounted(s) /\ IsRipRelative(arch, code, s.at)}
        plain(s) == OpcodeAt(arch, code, s.at) = s.at + 1
    IN  /\ Len(rips) = Cardinality(relatives)
        /\ \A s \in relatives : \E k \in 1..Len(rips) :
              IF plain(s) THEN rips[k] = RipDisplacementAt(arch, code, s.at)
              ELSE rips[k] \in s.at..(s.at + s.length - 4)

\* mhook.cpp:517: "fix up the code so the offset points to the original
\* location": what is patched is the displacement.
PatchedIsDisplacement ==
    \A s \in Skipped : IsRipRelative(arch, code, s.at) =>
        \E k \in 1..Len(rips) : rips[k] = RipDisplacementAt(arch, code, s.at)

\* No jump, call or return is moved, in 64-bit code; in 32-bit code only LOOP
\* and JECXZ are, which have a type of their own (mhook.cpp: "We also detect
\* branches and subroutine calls (as well as returns)").
NoTransferTaken ==
    \A s \in Skipped : LeavesTheLine(arch, code, s.at) =>
        Miscounted(s) \/ (arch = 32 /\ LoopOrJcxz(arch, code, s.at))

\* What is moved leaves room for the jump behind it in the trampoline's 32
\* bytes, and the displacements fit their table.
RoomInTrampoline ==
    /\ dwRet + MHOOK_JMPSIZE <= MHOOKS_MAX_CODE_BYTES
    /\ Len(rips) <= MHOOKS_MAX_RIPS
==============================================================================
