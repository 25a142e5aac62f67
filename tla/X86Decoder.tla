------------------------------ MODULE X86Decoder ------------------------------
(***************************************************************************)
(* X86_GetInstruction (disasm_x86.c): the decoding of one instruction, for *)
(* 32-bit and 64-bit code, as mhook asks for it (with DISASM_DECODE).      *)
(*                                                                         *)
(* Prefixes are read one at a time; the opcode leads through the tables of *)
(* X86Extensions to an entry; the operands the entry lists then take their *)
(* bytes.  Left out are the text of the instruction, its registers and     *)
(* flags, the segments and the repetition (they change neither the length  *)
(* nor what mhook reads), the 64-bit default operand size of the stack and *)
(* branch instructions (likewise), the description of the addresses an     *)
(* instruction uses, which comes after the length is known, and the        *)
(* assertions, which are compiled in: one that fails ends the process      *)
(* where the model decodes on.                                             *)
(***************************************************************************)
EXTENDS X86Extensions, Sequences

VARIABLES
    arch,       \* 32 or 64: ARCH_X86 or ARCH_X64
    code,       \* the bytes of the function; zeros follow them
    dwRet,      \* where in the function the instruction starts
    phase,      \* "skip" (no instruction asked for), "prefix", "opcode",
                \* "operands", then "decoded" or "failed"; "done"
    Instruction \* what is known of the instruction

decoderVars == <<arch, code, dwRet, phase, Instruction>>

X86_MAX_INSTRUCTION_LEN == 15
X86_MAX_PREFIX_LENGTH == 4
AMD64_MAX_PREFIX_LENGTH == 5

IS_AMD64 == arch = 64

\* The i-th byte of the instruction.
Address(i) == IF dwRet + i < Len(code) THEN code[dwRet + i + 1] ELSE 0

InitInstruction ==
    [Length |-> 0, Prefixes |-> <<>>, AnomalyOccurred |-> FALSE,
     OperandSize |-> 4, AddressSize |-> IF IS_AMD64 THEN 8 ELSE 4,
     HasOperandSizePrefix |-> FALSE, HasLockPrefix |-> FALSE, rex_b |-> 0,
     LastOpcode |-> 0, OpcodeLength |-> 0, HasModRM |-> FALSE, modrm_b |-> 0,
     Opcode |-> Invalid, HasDstAddressing |-> FALSE,
     IPRel |-> {},          \* the operands that are relative to the next instruction
     DisplacementAt |-> 0]  \* where in the instruction the displacement is

\* The fields of the bytes that describe the operands.
Mod(i) == i.modrm_b \div 64
Ext(i) == (i.modrm_b \div 8) % 8
Rm(i) == i.modrm_b % 8
RexW(i) == (i.rex_b \div 8) % 2 = 1
RexR(i) == (i.rex_b \div 4) % 2 = 1
RexB(i) == i.rex_b % 2 = 1

Seen(i) == {i.Prefixes[k] : k \in 1..Len(i.Prefixes)}

------------------------------------------------------------------------------
(***************************************************************************)
(* Prefixes.                                                               *)
(***************************************************************************)
SegmentPrefixes == {\h26, \h2E, \h36, \h3E, \h64, \h65}
SSEPrefixes == {\h66, \hF2, \hF3}
\* The overrides that count: in 64-bit code only those of FS and GS.
Overrides == IF IS_AMD64 THEN {\h64, \h65} ELSE SegmentPrefixes

\* What makes a prefix an anomaly: it is there twice, it contradicts another,
\* it means nothing, or it is the fifth.
Anomalous(i, b) ==
    \/ b \in Seen(i)
    \/ b \in {\hF2, \hF3} /\ ({\hF2, \hF3} \ {b}) \cap Seen(i) # {}
    \/ b \in SegmentPrefixes /\ Overrides \cap Seen(i) # {}
    \/ b \in SegmentPrefixes \ Overrides
    \/ Len(i.Prefixes) = X86_MAX_PREFIX_LENGTH

LegacyPrefixRead(i, b) ==
    LET first == b \notin Seen(i)
    IN  [i EXCEPT
          !.Length = @ + 1,
          !.Prefixes = Append(@, b),
          !.AnomalyOccurred = @ \/ Anomalous(i, b),
          !.HasOperandSizePrefix = @ \/ b = \h66,
          !.OperandSize = IF b = \h66 /\ first THEN 2 ELSE @,
          !.AddressSize = IF b = \h67 /\ first THEN @ \div 2 ELSE @,
          !.HasLockPrefix = @ \/ b = \hF0]

\* REX.W wins over the operand size prefix; a bare 40 is an anomaly and no REX.
RexRead(i, b) ==
    LET wide == (b \div 8) % 2 = 1
        meaningless == b = \h40 /\ ~ i.HasOperandSizePrefix
    IN  [i EXCEPT
          !.Length = @ + 1,
          !.Prefixes = Append(@, b),
          !.AnomalyOccurred = @ \/ Len(i.Prefixes) = AMD64_MAX_PREFIX_LENGTH \/ meaningless,
          !.rex_b = IF meaningless THEN 0 ELSE b,
          !.OperandSize = IF wide THEN 8 ELSE @,
          !.HasOperandSizePrefix = @ /\ ~ wide]

NextByte(i) == Address(i.Length)
Misplaced(i) ==
    IS_AMD64 /\ NextByte(i) \in RexCodes /\ Address(i.Length + 1) \in PrefixCodes

\* A REX prefix before another prefix is skipped.
MisplacedRex ==
    /\ phase = "prefix" /\ Misplaced(Instruction)
    /\ Instruction' = [Instruction EXCEPT !.Length = @ + 1, !.AnomalyOccurred = TRUE]
    /\ UNCHANGED <<arch, code, dwRet, phase>>

\* A prefix of either kind; the sixteenth is too many.
Prefix ==
    /\ phase = "prefix"
    /\ LET b == NextByte(Instruction)
           rex == IS_AMD64 /\ b \in RexCodes /\ ~ Misplaced(Instruction)
       IN  /\ b \in PrefixCodes \/ rex
           /\ IF Len(Instruction.Prefixes) >= X86_MAX_INSTRUCTION_LEN
              THEN phase' = "failed" /\ UNCHANGED Instruction
              ELSE IF rex
              THEN phase' = "opcode" /\ Instruction' = RexRead(Instruction, b)
              ELSE phase' = "prefix" /\ Instruction' = LegacyPrefixRead(Instruction, b)
    /\ UNCHANGED <<arch, code, dwRet>>

PrefixesEnd ==
    /\ phase = "prefix"
    /\ NextByte(Instruction) \notin PrefixCodes
    /\ ~ (IS_AMD64 /\ NextByte(Instruction) \in RexCodes)
    /\ phase' = "opcode"
    /\ UNCHANGED <<arch, code, dwRet, Instruction>>

------------------------------------------------------------------------------
(***************************************************************************)
(* Opcodes.                                                                *)
(***************************************************************************)
\* The opcode byte is read, and the byte behind it is the ModRM byte if the
\* opcode has one.
OpcodeRead(i, b, length, hasModRM) ==
    [i EXCEPT !.Length = @ + 1, !.LastOpcode = b, !.OpcodeLength = length,
              !.HasModRM = hasModRM,
              !.modrm_b = IF hasModRM THEN Address(i.Length + 1) ELSE 0]

\* A floating point instruction, and one behind 0F 01, that has no operand is
\* complete with its ModRM byte.
WholeModRM(i, entry) ==
    [i EXCEPT !.Opcode = entry,
              !.Length = IF entry.kind = "op" /\ entry.args = <<>> THEN @ + 1 ELSE @]

\* The entry another table has for the instruction.
Extended(i, entry) ==
    CASE entry.kind = "group" -> [i EXCEPT !.Opcode = Lookup(entry.table, Ext(i))]
      [] entry.kind = "fpu" ->
            WholeModRM(i, Lookup(entry.table,
                IF i.modrm_b < \hC0 THEN Ext(i) ELSE 8 + (i.modrm_b % 64)))
      [] entry.kind = "ext64" ->
            [i EXCEPT !.Opcode = Lookup(entry.table, IF IS_AMD64 THEN 1 ELSE 0)]
      [] entry.kind = "extmodrm" ->
            LET e == Lookup(entry.table, i.modrm_b)
            IN  IF e.kind = "group" THEN [i EXCEPT !.Opcode = Lookup(e.table, Ext(i))]
                ELSE WholeModRM(i, e)
      [] OTHER -> [i EXCEPT !.Opcode = entry]

OneByteOpcode(i, b) ==
    LET entry == X86_Opcodes_1[b]
        j == OpcodeRead(i, b, 1, b \in X86_ModRM_1)
    IN  IF i.AddressSize = 8 /\ b \in X86_Invalid_Addr64_1
        THEN [j EXCEPT !.Opcode = Invalid] ELSE Extended(j, entry)

\* The last of the prefixes that can be part of an SSE opcode; 0 is none.
SSE_Prefix(i) ==
    LET at == {k \in 1..Len(i.Prefixes) : i.Prefixes[k] \in SSEPrefixes}
    IN  IF at = {} THEN 0 ELSE i.Prefixes[CHOOSE k \in at : \A l \in at : l <= k]

\* The prefix that is part of the opcode is to be removed from the list: the
\* loop stops at the first prefix, whatever it is.
PrefixRemoved(i) ==
    [i EXCEPT !.Prefixes = Tail(@), !.OpcodeLength = 3, !.HasOperandSizePrefix = FALSE,
              !.OperandSize = IF SSE_Prefix(i) # \h66 THEN @ ELSE IF RexW(i) THEN 8 ELSE 4]

SSEOpcode(i, b) ==
    LET prefix == SSE_Prefix(i)
        entry == X86_SSE[prefix][b]
        offset == CASE prefix = \h66 -> 0 [] prefix = \hF2 -> 8 [] OTHER -> 16
    IN  [PrefixRemoved(i) EXCEPT
          !.Opcode = IF entry.kind = "group" THEN Lookup(entry.table, offset + Ext(i)) ELSE entry]

\* Whether an opcode is one of SSE is asked of the table for prefix 66.
TwoByteOpcode(i, b) ==
    LET entry == X86_Opcodes_2[b]
        j == OpcodeRead(i, b, 2, b \in X86_ModRM_2)
    IN  IF \/ entry.kind = "invalid"
           \/ i.AddressSize = 8 /\ b \in X86_Invalid_Addr64_2
           \/ i.OperandSize = 2 /\ b \in X86_Invalid_Op16_2
        THEN [j EXCEPT !.Opcode = Invalid]
        ELSE IF /\ entry.kind \notin {"extmodrm", "ext64", "suffix"}
                /\ SSE_Prefix(i) # 0 /\ X86_SSE[\h66][b].kind # "invalid"
        THEN SSEOpcode(j, b)
        ELSE Extended(j, entry)

\* An instruction of 64-bit processors in 32-bit code is refused.
Accepted(i) ==
    /\ i.Opcode.kind \in {"op", "suffix"}
    /\ IS_AMD64 \/ i.Opcode.type \notin {"jmpe", "swapgs"}

ReadOpcode ==
    /\ phase = "opcode"
    /\ LET b == NextByte(Instruction)
           escaped == [Instruction EXCEPT !.Length = @ + 1]
       IN  Instruction' = IF b = \h0F THEN TwoByteOpcode(escaped, NextByte(escaped))
                          ELSE OneByteOpcode(Instruction, b)
    /\ phase' = IF Accepted(Instruction') THEN "operands" ELSE "failed"
    /\ UNCHANGED <<arch, code, dwRet>>

------------------------------------------------------------------------------
(***************************************************************************)
(* Operands.  "from" is where the bytes behind the opcode start.  It is the *)
(* length so far, except for 3DNow!, whose operands are set twice.         *)
(***************************************************************************)
ImmediateSize(i, size) ==
    CASE size = "b" -> 1
      [] size = "w" -> 2
      [] size = "z" -> IF i.OperandSize = 2 THEN 2 ELSE 4
      [] OTHER -> i.OperandSize  \* "v"

\* SetModRM16: the displacement behind a ModRM byte of 16-bit addressing.
DisplacementSize16(i) ==
    CASE Mod(i) = 1 -> 1
      [] Mod(i) = 2 \/ (Mod(i) = 0 /\ Rm(i) = 6) -> 2
      [] OTHER -> 0

\* SetModRM32 and SetSIB: whether a SIB byte follows, and the displacement
\* behind it.
HasSIB(i) == Mod(i) # 3 /\ Rm(i) = 4
DisplacementSize32_NoBase(i, sib_b) ==   \* mutant: a SIB byte always has a base
    CASE Mod(i) = 1 -> 1
      [] Mod(i) = 2 \/ (Mod(i) = 0 /\ Rm(i) = 5) -> 4
      [] OTHER -> 0

DisplacementSize32(i, sib_b) ==
    CASE Mod(i) = 1 -> 1
      [] \/ Mod(i) = 2
         \/ Mod(i) = 0 /\ (Rm(i) = 5 \/ (HasSIB(i) /\ sib_b % 8 = 5)) -> 4
      [] OTHER -> 0

\* In 64-bit code a displacement without registers is relative to the next
\* instruction, whatever the address size.
RipRelative(i) == IS_AMD64 /\ Mod(i) = 0 /\ Rm(i) = 5

\* An operand in memory, or in a register when mod is 3.
SetModRM(i, arg, k, from) ==
    IF Mod(i) = 3 THEN i
    ELSE LET sib == IF i.AddressSize # 2 /\ HasSIB(i) THEN 1 ELSE 0
             size == IF i.AddressSize = 2 THEN DisplacementSize16(i)
                     ELSE DisplacementSize32(i, Address(from + 1))
         IN  [i EXCEPT !.Length = @ + sib + size,
                       !.HasDstAddressing = @ \/ arg.dst,
                       !.IPRel = IF RipRelative(i) THEN @ \cup {k} ELSE @,
                       !.DisplacementAt = IF size > 0 THEN from + 1 + sib ELSE @]

\* What the addressing modes refuse.
Illegal(i, mode) ==
    CASE mode = "M"  -> Mod(i) = 3
      [] mode = "Ep" -> Mod(i) = 3
      [] mode = "R"  -> Mod(i) # 3
      [] mode = "VR" -> Mod(i) # 3 \/ i.OperandSize = 2
      [] mode = "PR" -> Mod(i) # 3 \/ RexB(i) \/ i.OperandSize = 2
      [] mode = "P"  -> RexR(i) \/ i.OperandSize = 2
      [] mode = "V"  -> i.OperandSize = 2
      [] mode = "Q"  -> Mod(i) = 3 /\ RexB(i)
      [] OTHER -> FALSE

SetOperand(i, k, from) ==
    IF k > Len(i.Opcode.args) THEN i
    ELSE LET arg == i.Opcode.args[k]
         IN  CASE arg.mode = "I" -> [i EXCEPT !.Length = @ + ImmediateSize(i, arg.size)]
               [] arg.mode = "J" -> [i EXCEPT !.Length = @ + ImmediateSize(i, arg.size),
                                              !.IPRel = @ \cup {k}]
               [] arg.mode = "O" -> [i EXCEPT !.Length = @ + i.AddressSize]
               [] arg.mode = "A" -> [i EXCEPT !.Length = @ + IF i.OperandSize = 2 THEN 4 ELSE 6]
               [] arg.mode \in {"E", "Ep", "M", "Q", "W"} -> SetModRM(i, arg, k, from)
               [] OTHER -> i

\* The operands in their order, behind the ModRM byte.
SetOperands(i, from) ==
    LET m == [i EXCEPT !.Length = IF i.HasModRM THEN @ + 1 ELSE @]
    IN  SetOperand(SetOperand(SetOperand(m, 1, from), 2, from), 3, from)

Refused(i) == \E k \in 1..Len(i.Opcode.args) : Illegal(i, i.Opcode.args[k].mode)

\* 3DNow!: the operands are set to find the byte behind them, which is the rest
\* of the opcode, and set once more from the same place; the length keeps both.
SuffixRead(i) ==
    LET from == i.Length
        small == [i EXCEPT !.HasOperandSizePrefix = FALSE,
                           !.OperandSize = IF i.HasOperandSizePrefix THEN 4 ELSE @,
                           !.Opcode = Entry("op", "other", <<Src("P"), Src("Q")>>, "none")]
        once == SetOperands(small, from)
    IN  [once EXCEPT !.Length = @ + 1, !.OpcodeLength = 3,
                     !.Opcode = IF Refused(small) THEN Invalid
                                ELSE Lookup(i.Opcode.table, Address(once.Length))]

\* A prefix whose effect on a floating point or media instruction is not known.
Unpredictable(i) ==
    \/ /\ i.Opcode.type \in {"fpu", "media"}
       /\ \h66 \in Seen(i) /\ ~ i.AnomalyOccurred
    \/ i.Opcode.type = "media" /\ {\hF2, \hF3} \cap Seen(i) # {}

IsValidLockPrefix(i) ==
    /\ Ext(i) \in IF i.OpcodeLength = 1 THEN X86_LockPrefix_1(i.LastOpcode)
                  ELSE X86_LockPrefix_2(i.LastOpcode)
    /\ i.HasModRM /\ Mod(i) # 3 /\ i.HasDstAddressing

TooLong_ByOne(i) == i.Length > X86_MAX_INSTRUCTION_LEN + 1   \* mutant
TooLong_Never(i) == FALSE                 \* mutant: nothing is too long
TooLong(i) == i.Length > X86_MAX_INSTRUCTION_LEN

\* From the operands to the end of X86_GetInstruction.  An entry without
\* operands takes no byte, not even the ModRM byte that selected it.
ReadOperands ==
    /\ phase = "operands"
    /\ LET from == Instruction.Length
           i == IF Instruction.Opcode.kind = "suffix" THEN SuffixRead(Instruction)
                ELSE Instruction
           last == IF i.Opcode.args = <<>> THEN i ELSE SetOperands(i, from)
       IN  /\ Instruction' = last
           /\ phase' = IF \/ i.Opcode.kind = "invalid"
                          \/ Unpredictable(i)
                          \/ Refused(i)
                          \/ last.HasLockPrefix /\ ~ IsValidLockPrefix(last)
                          \/ TooLong(last)
                       THEN "failed" ELSE "decoded"
    /\ UNCHANGED <<arch, code, dwRet>>

\* GetInstruction: a new instruction is asked for.
GetInstruction ==
    /\ phase = "skip"
    /\ Instruction' = InitInstruction
    /\ phase' = "prefix"
    /\ UNCHANGED <<arch, code, dwRet>>

X86_GetInstruction == MisplacedRex \/ Prefix \/ PrefixesEnd \/ ReadOpcode \/ ReadOperands
==============================================================================
