------------------------------ MODULE X86Manual ------------------------------
(***************************************************************************)
(* How long an instruction is by the processor manuals: the reference the  *)
(* decoder is compared with.  Nothing here is read from the source.  "c"   *)
(* is a function's code, zeros follow it, "a" is 32 or 64, and the         *)
(* instruction starts "at" bytes into it.                                  *)
(***************************************************************************)
EXTENDS X86Opcodes, Sequences

At(c, i) == IF i < Len(c) THEN c[i + 1] ELSE 0

LegacyPrefixes == {\h26, \h2E, \h36, \h3E, \h64, \h65, \h66, \h67, \hF0, \hF2, \hF3}
Leading(a) == LegacyPrefixes \cup IF a = 64 THEN \h40..\h4F ELSE {}

\* How many prefixes there are.  A REX prefix counts only as the last of them.
PrefixCount(a, c, at) ==
    CHOOSE n \in 0..Len(c) :
        /\ At(c, at + n) \notin Leading(a)
        /\ \A k \in 0..(n - 1) : At(c, at + k) \in Leading(a)
PrefixSet(a, c, at) == {At(c, at + k) : k \in 0..(PrefixCount(a, c, at) - 1)}
Wide(a, c, at) ==
    LET n == PrefixCount(a, c, at)
    IN  a = 64 /\ n > 0 /\ At(c, at + n - 1) \in \h48..\h4F

TwoBytes(a, c, at) == At(c, at + PrefixCount(a, c, at)) = \h0F
OpcodeAt(a, c, at) == at + PrefixCount(a, c, at) + IF TwoBytes(a, c, at) THEN 1 ELSE 0
ModRMAt(a, c, at) == OpcodeAt(a, c, at) + 1
ModOf(a, c, at) == At(c, ModRMAt(a, c, at)) \div 64
RegOf(a, c, at) == (At(c, ModRMAt(a, c, at)) \div 8) % 8
RmOf(a, c, at) == At(c, ModRMAt(a, c, at)) % 8

OneByteModRM ==
    {b \in \h00..\h3F : b % 8 < 4} \cup {\h62, \h63, \h69, \h6B} \cup \h80..\h8F
    \cup {\hC0, \hC1} \cup \hC4..\hC7 \cup \hD0..\hD3 \cup \hD8..\hDF
    \cup {\hF6, \hF7, \hFE, \hFF}
TwoByteNoModRM ==
    \h04..\h0C \cup {\h0E} \cup \h30..\h37 \cup {\h77} \cup \h80..\h8F
    \cup {\hA0, \hA1, \hA2, \hA8, \hA9, \hAA} \cup \hC8..\hCF
HasModRMByte(a, c, at) ==
    LET b == At(c, OpcodeAt(a, c, at))
    IN  IF TwoBytes(a, c, at) THEN b \notin TwoByteNoModRM ELSE b \in OneByteModRM

\* SIB byte and displacement of 16-bit and of wider addresses.
MemoryBytes(a, c, at) ==
    LET mod == ModOf(a, c, at)
        rm == RmOf(a, c, at)
        sib == At(c, ModRMAt(a, c, at) + 1)
    IN  IF mod = 3 THEN 0
        ELSE IF a = 32 /\ \h67 \in PrefixSet(a, c, at)
        THEN CASE mod = 1 -> 1 [] mod = 2 \/ (mod = 0 /\ rm = 6) -> 2 [] OTHER -> 0
        ELSE (IF rm = 4 THEN 1 ELSE 0) +
             CASE mod = 1 -> 1
               [] mod = 2 \/ (mod = 0 /\ (rm = 5 \/ (rm = 4 /\ sib % 8 = 5))) -> 4
               [] OTHER -> 0

\* Immediate values, offsets and the last byte of a 3DNow! opcode.
ImmediateBytes(a, c, at) ==
    LET b == At(c, OpcodeAt(a, c, at))
        prefixes == PrefixSet(a, c, at)
        wide == Wide(a, c, at)
        z == IF \h66 \in prefixes /\ ~ wide THEN 2 ELSE 4
        test == RegOf(a, c, at) \in {0, 1}
    IN  IF TwoBytes(a, c, at)
        THEN CASE b \in \h70..\h73 \cup {\h0F, \hA4, \hAC, \hBA, \hC2, \hC4, \hC5, \hC6} -> 1
               [] b \in \h80..\h8F -> z
               [] OTHER -> 0
        ELSE CASE \/ b \in \h00..\h3F /\ b % 8 = 4
                  \/ b \in \h70..\h7F \cup \hB0..\hB7 \cup \hE0..\hE7
                  \/ b \in {\h6A, \h6B, \h80, \h82, \h83, \hA8, \hC0, \hC1, \hC6, \hCD, \hD4, \hD5, \hEB}
                  \/ b = \hF6 /\ test -> 1
               [] \/ b \in \h00..\h3F /\ b % 8 = 5
                  \/ b \in {\h68, \h69, \h81, \hA9, \hC7, \hE8, \hE9}
                  \/ b = \hF7 /\ test -> z
               [] b \in \hB8..\hBF -> IF wide THEN 8 ELSE z
               [] b \in \hA0..\hA3 ->
                    IF a = 64 THEN (IF \h67 \in prefixes THEN 4 ELSE 8)
                    ELSE (IF \h67 \in prefixes THEN 2 ELSE 4)
               [] b \in {\hC2, \hCA} -> 2
               [] b = \hC8 -> 3
               [] b \in {\h9A, \hEA} -> z + 2
               [] OTHER -> 0

ManualLength(a, c, at) ==
    ModRMAt(a, c, at) - at
    + (IF HasModRMByte(a, c, at) THEN 1 + MemoryBytes(a, c, at) ELSE 0)
    + ImmediateBytes(a, c, at)

\* A memory operand relative to the next instruction, and its displacement.
IsRipRelative(a, c, at) ==
    a = 64 /\ HasModRMByte(a, c, at) /\ ModOf(a, c, at) = 0 /\ RmOf(a, c, at) = 5
RipDisplacementAt(a, c, at) == ModRMAt(a, c, at) + 1

\* A jump, call or return whose destination is not the next instruction.
LoopOrJcxz(a, c, at) == ~ TwoBytes(a, c, at) /\ At(c, OpcodeAt(a, c, at)) \in \hE0..\hE3
LeavesTheLine(a, c, at) ==
    LET b == At(c, OpcodeAt(a, c, at))
    IN  IF TwoBytes(a, c, at) THEN b \in \h80..\h8F
        ELSE \/ b \in \h70..\h7F \cup \hE0..\hE3
             \/ b \in {\h9A, \hC2, \hC3, \hCA, \hCB, \hE8, \hE9, \hEA, \hEB}
             \/ b = \hFF /\ RegOf(a, c, at) \in 2..5
==============================================================================
