--------------------------- MODULE X86Decoder_proofs ---------------------------
(***************************************************************************)
(* What X86_GetInstruction makes of the bytes of a function: the prefixes  *)
(* it has read, the entry of the opcode, and the bytes of the operands, in *)
(* terms of what the processor manuals say of the same bytes.              *)
(***************************************************************************)
EXTENDS X86Decoder, X86Tables_proofs, WellFoundedInduction

------------------------------------------------------------------------------
(***************************************************************************)
(* The manuals' view, for code "c" of architecture "a", an instruction     *)
(* "at" some place, and "n" prefixes.                                      *)
(***************************************************************************)
\* Every byte is one, in the function and behind it.
LEMMA AtIsByte ==
    ASSUME NEW c \in Seq(Byte), NEW i \in Nat
    PROVE  At(c, i) \in Byte
  <1>1. i < Len(c) => i + 1 \in 1..Len(c)
    OBVIOUS
  <1>2. 0 \in Byte
    BY DEF Byte
  <1>. QED BY <1>1, <1>2 DEF At

\* A set of numbers has a smallest one.
LEMMA LeastNatural ==
    ASSUME NEW T \in SUBSET Nat, T # {}
    PROVE  \E x \in T : \A y \in T : x <= y
  <1>1. PICK x \in T : \A y \in T : ~ (<<y, x>> \in OpToRel(<, Nat))
    BY NatLessThanWellFounded, WFMin, Zenon
  <1>2. \A y \in T : ~ (y < x)
    BY <1>1 DEF OpToRel
  <1>. QED BY <1>2

\* A prefix is never behind the code.
LEMMA LeadingInside ==
    ASSUME NEW c \in Seq(Byte), NEW a \in {32, 64}, NEW i \in Nat, At(c, i) \in Leading(a)
    PROVE  i < Len(c)
  BY DEF At, Leading, LegacyPrefixes

\* The first n bytes of the instruction are prefixes.
PrefixesFirst(a, c, at, n) == \A k \in 0..(n - 1) : At(c, at + k) \in Leading(a)

\* The prefixes end where the first byte is that is none.
LEMMA PrefixesEndAt ==
    ASSUME NEW c \in Seq(Byte), NEW a \in {32, 64}, NEW at \in Nat, NEW n \in Nat,
           At(c, at + n) \notin Leading(a), PrefixesFirst(a, c, at, n)
    PROVE  PrefixCount(a, c, at) = n
  <1>. DEFINE P(x) == /\ At(c, at + x) \notin Leading(a)
                      /\ PrefixesFirst(a, c, at, x)
  <1>1. n \in 0..Len(c)
    <2>1. CASE n = 0
      BY <2>1
    <2>2. CASE n # 0
      <3>1. At(c, at + (n - 1)) \in Leading(a)
        BY <2>2 DEF PrefixesFirst
      <3>2. at + (n - 1) < Len(c)
        BY <2>2, <3>1, LeadingInside
      <3>. QED BY <2>2, <3>2
    <2>. QED BY <2>1, <2>2
  <1>2. \A x \in 0..Len(c) : P(x) => x = n
    <2>. SUFFICES ASSUME NEW x \in 0..Len(c), P(x) PROVE x = n
      OBVIOUS
    <2>1. CASE x < n
      BY <2>1 DEF PrefixesFirst
    <2>2. CASE n < x
      BY <2>2 DEF PrefixesFirst
    <2>. QED BY <2>1, <2>2
  <1>. HIDE DEF P
  <1>3. P(n)
    BY DEF P
  <1>. QED BY <1>1, <1>2, <1>3 DEF PrefixCount, P, PrefixesFirst

\* They end somewhere, and not before the last byte that is known to be one.
LEMMA PrefixesGoOn ==
    ASSUME NEW c \in Seq(Byte), NEW a \in {32, 64}, NEW at \in Nat, NEW n \in Nat,
           PrefixesFirst(a, c, at, n)
    PROVE  PrefixCount(a, c, at) \in Nat /\ PrefixCount(a, c, at) >= n
  <1>. DEFINE T == {x \in Nat : At(c, at + x) \notin Leading(a)}
  <1>1. Len(c) \in T
    <2>1. At(c, at + Len(c)) = 0
      BY DEF At
    <2>2. 0 \notin Leading(a)
      BY DEF Leading, LegacyPrefixes
    <2>. QED BY <2>1, <2>2
  <1>2. PICK x \in T : \A y \in T : x <= y
    BY <1>1, LeastNatural
  <1>3. PrefixesFirst(a, c, at, x)
    <2>. SUFFICES ASSUME NEW k \in 0..(x - 1), At(c, at + k) \notin Leading(a) PROVE FALSE
      BY DEF PrefixesFirst
    <2>1. k \in Nat /\ ~ (x <= k)
      OBVIOUS
    <2>2. k \in T
      BY <2>1
    <2>. QED BY <1>2, <2>1, <2>2
  <1>4. PrefixCount(a, c, at) = x
    <2>1. x \in Nat /\ At(c, at + x) \notin Leading(a)
      OBVIOUS
    <2>. HIDE DEF T
    <2>. QED BY <2>1, <1>3, PrefixesEndAt
  <1>5. x >= n
    BY <1>2 DEF PrefixesFirst
  <1>. QED BY <1>4, <1>5

\* A prefix p is among the first n bytes; what the sizes of operands and of
\* addresses are by the manuals.
Given(c, at, n, p) == \E k \in 0..(n - 1) : At(c, at + k) = p
LastIsWide(a, c, at, n) == a = 64 /\ n > 0 /\ At(c, at + n - 1) \in \h48..\h4F
OperandSizeOf(a, c, at, n) ==
    IF LastIsWide(a, c, at, n) THEN 8 ELSE IF Given(c, at, n, \h66) THEN 2 ELSE 4
AddressSizeOf(a, c, at, n) ==
    IF a = 64 THEN (IF Given(c, at, n, \h67) THEN 4 ELSE 8)
    ELSE IF Given(c, at, n, \h67) THEN 2 ELSE 4

\* The opcode behind n prefixes is b, of one byte or behind 0F.
OpcodeIs(c, at, n, size, b) ==
    /\ size \in {1, 2}
    /\ size = 2 <=> At(c, at + n) = \h0F
    /\ b = At(c, at + n + size - 1)

\* The prefixes by the manuals.
LEMMA ManualPrefixes ==
    ASSUME NEW c \in Seq(Byte), NEW a \in {32, 64}, NEW at \in Nat, NEW n \in Nat,
           At(c, at + n) \notin Leading(a), PrefixesFirst(a, c, at, n)
    PROVE  /\ PrefixCount(a, c, at) = n
           /\ \A p : p \in PrefixSet(a, c, at) <=> Given(c, at, n, p)
           /\ Wide(a, c, at) <=> LastIsWide(a, c, at, n)
  <1>1. PrefixCount(a, c, at) = n
    BY PrefixesEndAt
  <1>2. \A p : p \in PrefixSet(a, c, at) <=> Given(c, at, n, p)
    BY <1>1 DEF PrefixSet, Given
  <1>3. Wide(a, c, at) <=> LastIsWide(a, c, at, n)
    BY <1>1 DEF Wide, LastIsWide
  <1>. QED BY <1>1, <1>2, <1>3

\* The opcode by the manuals, and where the ModRM byte is.
LEMMA ManualOpcode ==
    ASSUME NEW c \in Seq(Byte), NEW a \in {32, 64}, NEW at \in Nat, NEW n \in Nat,
           PrefixCount(a, c, at) = n, NEW size, NEW b, OpcodeIs(c, at, n, size, b)
    PROVE  /\ TwoBytes(a, c, at) <=> size = 2
           /\ OpcodeAt(a, c, at) = at + n + size - 1
           /\ At(c, OpcodeAt(a, c, at)) = b
           /\ ModRMAt(a, c, at) = at + n + size
           /\ HasModRMByte(a, c, at) <=> HasModRMBy(size, b)
  <1>1. TwoBytes(a, c, at) <=> size = 2
    BY DEF TwoBytes, OpcodeIs
  <1>2. OpcodeAt(a, c, at) = at + n + size - 1
    BY <1>1 DEF OpcodeAt, OpcodeIs
  <1>3. ModRMAt(a, c, at) = at + n + size
    BY <1>2 DEF ModRMAt, OpcodeIs
  <1>4. At(c, OpcodeAt(a, c, at)) = b
    BY <1>2 DEF OpcodeIs
  <1>5. HasModRMByte(a, c, at) <=> HasModRMBy(size, b)
    BY <1>1, <1>4 DEF HasModRMByte, HasModRMBy
  <1>. QED BY <1>1, <1>2, <1>3, <1>4, <1>5

\* The classes one by one.
LEMMA Classes ==
    \A os, as :
        /\ ClassBytes("none", os, as) = 0 /\ ClassBytes("b", os, as) = 1
        /\ ClassBytes("w", os, as) = 2 /\ ClassBytes("wb", os, as) = 3
        /\ ClassBytes("z", os, as) = IF os = 2 THEN 2 ELSE 4
        /\ ClassBytes("v", os, as) = os /\ ClassBytes("address", os, as) = as
        /\ ClassBytes("far", os, as) = IF os = 2 THEN 4 ELSE 6
  BY DEF ClassBytes

\* The class is that of the manuals, for opcodes of one byte and of two.
LEMMA ImmediateOfOne ==
    ASSUME NEW c, NEW a, NEW at, ~ TwoBytes(a, c, at), At(c, OpcodeAt(a, c, at)) \in 0..255,
           NEW os, NEW as, NEW z, NEW m, RegOf(a, c, at) = Extension(m),
           z = IF \h66 \in PrefixSet(a, c, at) /\ ~ Wide(a, c, at) THEN 2 ELSE 4,
           z = IF os = 2 THEN 2 ELSE 4,
           os = IF Wide(a, c, at) THEN 8 ELSE z,
           as = IF a = 64 THEN (IF \h67 \in PrefixSet(a, c, at) THEN 4 ELSE 8)
                ELSE (IF \h67 \in PrefixSet(a, c, at) THEN 2 ELSE 4)
    PROVE  ImmediateBytes(a, c, at) = ClassBytes(OneByteClass(At(c, OpcodeAt(a, c, at)), m), os, as)
  <1>. DEFINE b == At(c, OpcodeAt(a, c, at))
              B == \/ b \in \h00..\h3F /\ b % 8 = 4
                   \/ b \in \h70..\h7F \cup \hB0..\hB7 \cup \hE0..\hE7
                   \/ b \in {\h6A, \h6B, \h80, \h82, \h83, \hA8, \hC0, \hC1, \hC6, \hCD, \hD4,
                             \hD5, \hEB}
                   \/ b = \hF6 /\ Extension(m) \in {0, 1}
              Z == \/ b \in \h00..\h3F /\ b % 8 = 5
                   \/ b \in {\h68, \h69, \h81, \hA9, \hC7, \hE8, \hE9}
                   \/ b = \hF7 /\ Extension(m) \in {0, 1}
  <1>1. CASE B
    <2>1. OneByteClass(b, m) = "b"
      BY <1>1 DEF OneByteClass
    <2>2. ImmediateBytes(a, c, at) = 1
      BY <1>1 DEF ImmediateBytes
    <2>. QED BY <2>1, <2>2, Classes
  <1>2. CASE Z
    <2>1. OneByteClass(b, m) = "z"
      BY <1>2 DEF OneByteClass
    <2>2. ImmediateBytes(a, c, at) = z
      BY <1>2 DEF ImmediateBytes
    <2>. QED BY <2>1, <2>2, Classes
  <1>3. CASE b \in \hB8..\hBF
    <2>1. OneByteClass(b, m) = "v"
      BY <1>3 DEF OneByteClass
    <2>2. ImmediateBytes(a, c, at) = IF Wide(a, c, at) THEN 8 ELSE z
      BY <1>3 DEF ImmediateBytes
    <2>. QED BY <2>1, <2>2, Classes
  <1>4. CASE b \in \hA0..\hA3
    <2>1. OneByteClass(b, m) = "address"
      BY <1>4 DEF OneByteClass
    <2>2. ImmediateBytes(a, c, at) = 
                IF a = 64 THEN (IF \h67 \in PrefixSet(a, c, at) THEN 4 ELSE 8)
                ELSE (IF \h67 \in PrefixSet(a, c, at) THEN 2 ELSE 4)
      BY <1>4 DEF ImmediateBytes
    <2>. QED BY <2>1, <2>2, Classes
  <1>5. CASE b \in {\hC2, \hCA}
    <2>1. OneByteClass(b, m) = "w"
      BY <1>5 DEF OneByteClass
    <2>2. ImmediateBytes(a, c, at) = 2
      BY <1>5 DEF ImmediateBytes
    <2>. QED BY <2>1, <2>2, Classes
  <1>6. CASE b = \hC8
    <2>1. OneByteClass(b, m) = "wb"
      BY <1>6 DEF OneByteClass
    <2>2. ImmediateBytes(a, c, at) = 3
      BY <1>6 DEF ImmediateBytes
    <2>. QED BY <2>1, <2>2, Classes
  <1>7. CASE b \in {\h9A, \hEA}
    <2>1. OneByteClass(b, m) = "far"
      BY <1>7 DEF OneByteClass
    <2>2. ImmediateBytes(a, c, at) = z + 2
      BY <1>7 DEF ImmediateBytes
    <2>. QED BY <2>1, <2>2, Classes
  <1>8. CASE ~ B /\ ~ Z /\ b \notin \hB8..\hBF \cup \hA0..\hA3 \cup {\hC2, \hCA, \hC8, \h9A, \hEA}
    <2>1. OneByteClass(b, m) = "none"
      BY <1>8 DEF OneByteClass
    <2>2. ImmediateBytes(a, c, at) = 0
      BY <1>8 DEF ImmediateBytes
    <2>. QED BY <2>1, <2>2, Classes
  <1>. HIDE DEF B, Z
  <1>. QED BY <1>1, <1>2, <1>3, <1>4, <1>5, <1>6, <1>7, <1>8, Zenon

\* Immediate values by the manuals are those of the opcode's class.
LEMMA ManualImmediate ==
    ASSUME NEW c \in Seq(Byte), NEW a \in {32, 64}, NEW at \in Nat, NEW n \in Nat,
           At(c, at + n) \notin Leading(a), PrefixesFirst(a, c, at, n),
           NEW size, NEW b, OpcodeIs(c, at, n, size, b), NEW m, m = At(c, at + n + size)
    PROVE  ImmediateBytes(a, c, at) =
               ClassBytes(ImmediateClass(size, b, m), OperandSizeOf(a, c, at, n),
                          AddressSizeOf(a, c, at, n))
  <1>1. /\ TwoBytes(a, c, at) <=> size = 2
        /\ At(c, OpcodeAt(a, c, at)) = b
        /\ RegOf(a, c, at) = Extension(m)
    BY ManualPrefixes, ManualOpcode DEF RegOf, Extension
  <1>2. /\ \h66 \in PrefixSet(a, c, at) <=> Given(c, at, n, \h66)
        /\ \h67 \in PrefixSet(a, c, at) <=> Given(c, at, n, \h67)
        /\ Wide(a, c, at) <=> LastIsWide(a, c, at, n)
    BY ManualPrefixes
  <1>. DEFINE os == OperandSizeOf(a, c, at, n)
              as == AddressSizeOf(a, c, at, n)
              z == IF \h66 \in PrefixSet(a, c, at) /\ ~ Wide(a, c, at) THEN 2 ELSE 4
  <1>3. /\ z = IF os = 2 THEN 2 ELSE 4
        /\ os = IF Wide(a, c, at) THEN 8 ELSE z
        /\ as = IF a = 64 THEN (IF \h67 \in PrefixSet(a, c, at) THEN 4 ELSE 8)
                ELSE (IF \h67 \in PrefixSet(a, c, at) THEN 2 ELSE 4)
    BY <1>2 DEF OperandSizeOf, AddressSizeOf
  <1>4. At(c, OpcodeAt(a, c, at)) \in 0..255
    <2>1. at + n + size - 1 \in Nat
      BY DEF OpcodeIs
    <2>2. At(c, at + n + size - 1) \in Byte
      BY <2>1, AtIsByte
    <2>. QED BY <2>2, <1>1 DEF OpcodeIs, Byte
  <1>. HIDE DEF os, as
  <1>5. z = IF os = 2 THEN 2 ELSE 4
    BY <1>3
  <1>6. os = IF Wide(a, c, at) THEN 8 ELSE z
    BY <1>3
  <1>7. as = IF a = 64 THEN (IF \h67 \in PrefixSet(a, c, at) THEN 4 ELSE 8)
             ELSE (IF \h67 \in PrefixSet(a, c, at) THEN 2 ELSE 4)
    BY <1>3
  <1>8. z = IF \h66 \in PrefixSet(a, c, at) /\ ~ Wide(a, c, at) THEN 2 ELSE 4
    OBVIOUS
  <1>. HIDE DEF z
  <1>9. CASE size = 2
    <2>1. TwoBytes(a, c, at)
      BY <1>1, <1>9
    <2>2. ImmediateBytes(a, c, at) = ClassBytes(TwoByteClass(At(c, OpcodeAt(a, c, at))), os, as)
      BY <1>5, <1>8, <2>1 DEF ImmediateBytes, ClassBytes, TwoByteClass
    <2>. QED BY <1>1, <1>9, <2>2 DEF ImmediateClass, os, as
  <1>10. CASE size # 2
    <2>1. ~ TwoBytes(a, c, at)
      BY <1>1, <1>10
    <2>2. RegOf(a, c, at) = Extension(m)
      BY <1>1
    <2>3. ImmediateBytes(a, c, at) = ClassBytes(OneByteClass(At(c, OpcodeAt(a, c, at)), m), os, as)
      BY <1>4, <1>5, <1>6, <1>7, <1>8, <2>1, <2>2, ImmediateOfOne
    <2>. QED BY <1>1, <1>10, <2>3 DEF ImmediateClass, os, as
  <1>. QED BY <1>9, <1>10
------------------------------------------------------------------------------
\* A ModRM byte there is none of decides nothing.
LEMMA NoModRM ==
    ASSUME NEW size \in {1, 2}, NEW b \in Byte, NEW m, NEW r, ~ ModRMListed(size, b)
    PROVE  /\ ImmediateClass(size, b, m) = ImmediateClass(size, b, r)
           /\ IsTransfer(size, b, m) <=> IsTransfer(size, b, r)
           /\ IsMiscounted(size, b, m) <=> IsMiscounted(size, b, r)
  <1>1. CASE size = 1
    <2>1. b \notin {\hF6, \hF7, \hFF}
      BY <1>1 DEF ModRMListed, X86_ModRM_1
    <2>2. OneByteClass(b, m) = OneByteClass(b, r)
      BY <2>1 DEF OneByteClass
    <2>3. Transfers1(b, m) <=> Transfers1(b, r)
      BY <2>1 DEF Transfers1
    <2>. QED BY <1>1, <2>2, <2>3 DEF ImmediateClass, IsTransfer, IsMiscounted
  <1>2. CASE size = 2
    <2>1. b # \hAE
      BY <1>2 DEF ModRMListed, X86_ModRM_2
    <2>. QED BY <1>2, <2>1 DEF ImmediateClass, IsTransfer, IsMiscounted
  <1>. QED BY <1>1, <1>2

\* What the manuals say of where an instruction leads, and the instructions
\* that are counted wrong.
MiscountedAt(a, c, at) ==
    LET op == OpcodeAt(a, c, at)
    IN  \/ TwoBytes(a, c, at) /\ At(c, op) = \hAE /\ RegOf(a, c, at) \in 5..7
        \/ TwoBytes(a, c, at) /\ At(c, op) \in {\h0F, \hB9}
        \/ a = 64 /\ \E k \in at..(op - 2) : {At(c, k), At(c, k + 1)} \subseteq RexCodes

\* Where an instruction leads, by its opcode and ModRM byte.
LEMMA ManualTransfers ==
    ASSUME NEW c \in Seq(Byte), NEW a \in {32, 64}, NEW at \in Nat, NEW n \in Nat,
           PrefixCount(a, c, at) = n,
           NEW size, NEW b, OpcodeIs(c, at, n, size, b), NEW m, m = At(c, at + n + size)
    PROVE  /\ LeavesTheLine(a, c, at) <=> IsTransfer(size, b, m) \/ IsLoop(size, b)
           /\ LoopOrJcxz(a, c, at) <=> IsLoop(size, b)
           /\ IsMiscounted(size, b, m) => MiscountedAt(a, c, at)
           /\ IsRipRelative(a, c, at) <=>
                  a = 64 /\ HasModRMBy(size, b) /\ m \div 64 = 0 /\ m % 8 = 5
  <1>1. /\ TwoBytes(a, c, at) <=> size = 2
        /\ At(c, OpcodeAt(a, c, at)) = b
        /\ RegOf(a, c, at) = Extension(m)
        /\ ModOf(a, c, at) = m \div 64
        /\ RmOf(a, c, at) = m % 8
        /\ HasModRMByte(a, c, at) <=> HasModRMBy(size, b)
        /\ size \in {1, 2}
    <2>1. /\ TwoBytes(a, c, at) <=> size = 2
          /\ At(c, OpcodeAt(a, c, at)) = b
          /\ ModRMAt(a, c, at) = at + n + size
          /\ HasModRMByte(a, c, at) <=> HasModRMBy(size, b)
      BY ManualOpcode
    <2>2. At(c, ModRMAt(a, c, at)) = m
      BY <2>1
    <2>. QED BY <2>1, <2>2 DEF RegOf, ModOf, RmOf, Extension, OpcodeIs
  <1>2. LeavesTheLine(a, c, at) <=> IsTransfer(size, b, m) \/ IsLoop(size, b)
    <2>1. CASE size = 2
      BY <1>1, <2>1 DEF LeavesTheLine, IsTransfer, IsLoop
    <2>2. CASE size = 1
      BY <1>1, <2>2 DEF LeavesTheLine, IsTransfer, IsLoop, Transfers1
    <2>. QED BY <1>1, <2>1, <2>2
  <1>3. LoopOrJcxz(a, c, at) <=> IsLoop(size, b)
    BY <1>1 DEF LoopOrJcxz, IsLoop
  <1>4. IsMiscounted(size, b, m) => MiscountedAt(a, c, at)
    BY <1>1 DEF IsMiscounted, MiscountedAt
  <1>5. IsRipRelative(a, c, at) <=>
            a = 64 /\ HasModRMBy(size, b) /\ m \div 64 = 0 /\ m % 8 = 5
    BY <1>1 DEF IsRipRelative
  <1>. QED BY <1>2, <1>3, <1>4, <1>5

\* The SIB byte and the displacement behind a ModRM byte m, and the length.
DisplacementOf(m, sib, as) ==
    IF m \div 64 = 1 THEN 1
    ELSE IF as = 2 THEN (IF m \div 64 = 2 \/ m % 8 = 6 THEN 2 ELSE 0)
    ELSE IF m \div 64 = 2 \/ m % 8 = 5 \/ (m % 8 = 4 /\ sib % 8 = 5) THEN 4 ELSE 0
MemoryOf(m, sib, as) ==
    IF m \div 64 = 3 THEN 0
    ELSE (IF as # 2 /\ m % 8 = 4 THEN 1 ELSE 0) + DisplacementOf(m, sib, as)

\* The mod field has two bits.
LEMMA ModIsSmall == \A m \in Byte : m \div 64 \in 0..3
  BY DEF Byte

\* A displacement is at most four bytes, with a SIB byte five.
LEMMA MemoryOfIsSmall ==
    \A m, s, as : DisplacementOf(m, s, as) \in 0..4 /\ MemoryOf(m, s, as) \in 0..5
  <1>. SUFFICES ASSUME NEW m, NEW s, NEW as
                PROVE  DisplacementOf(m, s, as) \in 0..4 /\ MemoryOf(m, s, as) \in 0..5
    OBVIOUS
  <1>1. DisplacementOf(m, s, as) \in 0..4
    BY DEF DisplacementOf
  <1>2. CASE m \div 64 = 3
    <2>1. MemoryOf(m, s, as) = 0
      BY <1>2 DEF MemoryOf
    <2>2. 0 \in 0..5
      OBVIOUS
    <2>. QED BY <1>1, <2>1, <2>2, Zenon
  <1>3. CASE m \div 64 # 3
    <2>. DEFINE d == DisplacementOf(m, s, as)
                t == IF as # 2 /\ m % 8 = 4 THEN 1 ELSE 0
    <2>1. MemoryOf(m, s, as) = t + d
      BY <1>3 DEF MemoryOf
    <2>2. t \in 0..1
      OBVIOUS
    <2>. HIDE DEF d, t
    <2>3. d \in 0..4
      BY <1>1 DEF d
    <2>4. t + d \in 0..5
      BY <2>2, <2>3
    <2>. QED BY <1>1, <2>1, <2>4
  <1>. QED BY <1>2, <1>3

\* They are the manuals'.
LEMMA ManualMemory ==
    ASSUME NEW c \in Seq(Byte), NEW a \in {32, 64}, NEW at \in Nat, NEW n \in Nat,
           At(c, at + n) \notin Leading(a), PrefixesFirst(a, c, at, n),
           NEW size, NEW b, OpcodeIs(c, at, n, size, b), NEW m, m = At(c, at + n + size)
    PROVE  MemoryBytes(a, c, at) =
               MemoryOf(m, At(c, at + n + size + 1), AddressSizeOf(a, c, at, n))
  <1>1. /\ ModRMAt(a, c, at) = at + n + size
        /\ ModOf(a, c, at) = m \div 64
        /\ RmOf(a, c, at) = m % 8
    BY ManualPrefixes, ManualOpcode DEF ModOf, RmOf
  <1>0. m \in Byte /\ m \div 64 \in 0..3
    BY AtIsByte, ModIsSmall DEF OpcodeIs
  <1>2. \h67 \in PrefixSet(a, c, at) <=> Given(c, at, n, \h67)
    BY ManualPrefixes
  <1>3. a = 32 /\ \h67 \in PrefixSet(a, c, at) <=> AddressSizeOf(a, c, at, n) = 2
    BY <1>2 DEF AddressSizeOf
  <1>. DEFINE as == AddressSizeOf(a, c, at, n)
              sib == At(c, at + n + size + 1)
  <1>. HIDE DEF as, sib
  <1>4. sib = At(c, ModRMAt(a, c, at) + 1)
    BY <1>1 DEF sib
  <1>5. CASE m \div 64 = 3
    <2>1. MemoryBytes(a, c, at) = 0 /\ MemoryOf(m, sib, as) = 0
      BY <1>1, <1>5 DEF MemoryBytes, MemoryOf
    <2>. QED BY <2>1 DEF as, sib
  <1>6. CASE m \div 64 # 3 /\ as = 2
    <2>1. a = 32 /\ \h67 \in PrefixSet(a, c, at)
      BY <1>3, <1>6 DEF as
    <2>2. MemoryOf(m, sib, as) = DisplacementOf(m, sib, as)
      BY <1>6, MemoryOfIsSmall DEF MemoryOf
    <2>3. MemoryBytes(a, c, at) = DisplacementOf(m, sib, as)
      <3>1. CASE m \div 64 = 1
        <4>1. MemoryBytes(a, c, at) = 1
          BY <1>1, <1>6, <2>1, <3>1 DEF MemoryBytes
        <4>. QED BY <3>1, <4>1 DEF DisplacementOf
      <3>2. CASE m \div 64 # 1 /\ (m \div 64 = 2 \/ m % 8 = 6)
        <4>1. MemoryBytes(a, c, at) = 2
          BY <1>0, <1>1, <1>6, <2>1, <3>2 DEF MemoryBytes
        <4>. QED BY <1>6, <3>2, <4>1 DEF DisplacementOf
      <3>3. CASE m \div 64 # 1 /\ ~ (m \div 64 = 2 \/ m % 8 = 6)
        <4>1. MemoryBytes(a, c, at) = 0
          BY <1>0, <1>1, <1>6, <2>1, <3>3 DEF MemoryBytes
        <4>. QED BY <1>6, <3>3, <4>1 DEF DisplacementOf
      <3>. QED BY <3>1, <3>2, <3>3
    <2>. QED BY <2>2, <2>3 DEF as, sib
  <1>7. CASE m \div 64 # 3 /\ as # 2
    <2>1. ~ (a = 32 /\ \h67 \in PrefixSet(a, c, at))
      BY <1>3, <1>7 DEF as
    <2>. DEFINE d == DisplacementOf(m, sib, as)
                t == IF m % 8 = 4 THEN 1 ELSE 0
    <2>2. MemoryOf(m, sib, as) = t + d
      BY <1>7 DEF MemoryOf
    <2>3. MemoryBytes(a, c, at) = t + d
      <3>1. CASE m \div 64 = 1
        <4>1. d = 1
          BY <3>1 DEF DisplacementOf
        <4>2. MemoryBytes(a, c, at) = t + 1
          BY <1>1, <1>7, <2>1, <3>1 DEF MemoryBytes
        <4>. QED BY <4>1, <4>2
      <3>2. CASE m \div 64 # 1 /\ (m \div 64 = 2 \/ m % 8 = 5 \/ (m % 8 = 4 /\ sib % 8 = 5))
        <4>1. d = 4
          BY <1>7, <3>2 DEF DisplacementOf
        <4>2. MemoryBytes(a, c, at) = t + 4
          BY <1>0, <1>1, <1>4, <1>7, <2>1, <3>2 DEF MemoryBytes
        <4>. QED BY <4>1, <4>2
      <3>3. CASE m \div 64 # 1 /\ ~ (m \div 64 = 2 \/ m % 8 = 5 \/ (m % 8 = 4 /\ sib % 8 = 5))
        <4>1. d = 0
          BY <1>7, <3>3 DEF DisplacementOf
        <4>2. MemoryBytes(a, c, at) = t + 0
          BY <1>0, <1>1, <1>4, <1>7, <2>1, <3>3 DEF MemoryBytes
        <4>. QED BY <4>1, <4>2
      <3>. QED BY <3>1, <3>2, <3>3
    <2>. QED BY <2>2, <2>3 DEF as, sib
  <1>. QED BY <1>5, <1>6, <1>7

\* The length by the manuals: prefixes, opcode, ModRM byte and what belongs to it,
\* immediate values.
LEMMA ManualLengthIs ==
    ASSUME NEW c \in Seq(Byte), NEW a \in {32, 64}, NEW at \in Nat, NEW n \in Nat,
           At(c, at + n) \notin Leading(a), PrefixesFirst(a, c, at, n),
           NEW size, NEW b, OpcodeIs(c, at, n, size, b), NEW m, m = At(c, at + n + size)
    PROVE  ManualLength(a, c, at) =
               n + size
               + (IF HasModRMBy(size, b)
                  THEN 1 + MemoryOf(m, At(c, at + n + size + 1), AddressSizeOf(a, c, at, n))
                  ELSE 0)
               + ClassBytes(ImmediateClass(size, b, m), OperandSizeOf(a, c, at, n),
                            AddressSizeOf(a, c, at, n))
  <1>1. ModRMAt(a, c, at) - at = n + size
    <2>1. ModRMAt(a, c, at) = at + n + size
      BY ManualPrefixes, ManualOpcode
    <2>. QED BY <2>1 DEF OpcodeIs
  <1>2. HasModRMByte(a, c, at) <=> HasModRMBy(size, b)
    BY ManualPrefixes, ManualOpcode
  <1>3. MemoryBytes(a, c, at) =
            MemoryOf(m, At(c, at + n + size + 1), AddressSizeOf(a, c, at, n))
    BY ManualMemory
  <1>4. ImmediateBytes(a, c, at) =
            ClassBytes(ImmediateClass(size, b, m), OperandSizeOf(a, c, at, n),
                       AddressSizeOf(a, c, at, n))
    BY ManualImmediate
  <1>. QED BY <1>1, <1>2, <1>3, <1>4 DEF ManualLength

------------------------------------------------------------------------------
(***************************************************************************)
(* What is kept of an instruction, and that its length only grows.         *)
(***************************************************************************)
Fields == {"Length", "Prefixes", "AnomalyOccurred", "OperandSize", "AddressSize",
           "HasOperandSizePrefix", "HasLockPrefix", "rex_b", "LastOpcode",
           "OpcodeLength", "HasModRM", "modrm_b", "Opcode", "HasDstAddressing",
           "IPRel", "DisplacementAt"}

\* What is kept of an instruction while it is decoded.  The opcode's entry is
\* left open: no table has to be looked into.
IsInstruction(i) ==
    /\ DOMAIN i = Fields
    /\ i.Length \in Nat /\ i.OperandSize \in Nat /\ i.AddressSize \in Nat

\* It starts with no byte read.
LEMMA InitIsInstruction == IsInstruction(InitInstruction) /\ InitInstruction.Length = 0
  BY DEF IsInstruction, InitInstruction, Fields, IS_AMD64

\* A prefix is one byte.
LEMMA PrefixIsInstruction ==
    ASSUME NEW i, NEW b, IsInstruction(i)
    PROVE  IsInstruction(LegacyPrefixRead(i, b)) /\ IsInstruction(RexRead(i, b))
  <1>1. IsInstruction(LegacyPrefixRead(i, b))
    BY DEF IsInstruction, Fields, LegacyPrefixRead
  <1>2. IsInstruction(RexRead(i, b))
    BY DEF IsInstruction, Fields, RexRead
  <1>. QED BY <1>1, <1>2

\* The opcode byte is counted, and the ModRM byte of an entry without operand.
LEMMA OpcodeIsInstruction ==
    ASSUME NEW i, NEW b, NEW n, NEW m, IsInstruction(i)
    PROVE  LET j == OpcodeRead(i, b, n, m)
           IN  IsInstruction(j) /\ j.Length >= 1
  BY DEF IsInstruction, Fields, OpcodeRead

\* Taking over an entry counts one byte at the most.
LEMMA EntryIsInstruction ==
    ASSUME NEW i, NEW e, IsInstruction(i)
    PROVE  /\ IsInstruction([i EXCEPT !.Opcode = e])
           /\ [i EXCEPT !.Opcode = e].Length = i.Length
           /\ IsInstruction(WholeModRM(i, e))
           /\ WholeModRM(i, e).Length >= i.Length
  <1>1. IsInstruction([i EXCEPT !.Opcode = e]) /\ [i EXCEPT !.Opcode = e].Length = i.Length
    BY DEF IsInstruction, Fields
  <1>2. IsInstruction(WholeModRM(i, e)) /\ WholeModRM(i, e).Length >= i.Length
    BY DEF IsInstruction, Fields, WholeModRM
  <1>. QED BY <1>1, <1>2

\* So does taking over the entry another table has.
LEMMA ExtendedIsInstruction ==
    ASSUME NEW i, NEW e, IsInstruction(i)
    PROVE  IsInstruction(Extended(i, e)) /\ Extended(i, e).Length >= i.Length
  <1>. DEFINE R(x) == [i EXCEPT !.Opcode = x]
              W(x) == WholeModRM(i, x)
              table == e.table
              k == Lookup(table, i.modrm_b)
  <1>1. \/ Extended(i, e) = R(Lookup(table, Ext(i)))
        \/ Extended(i, e) = W(Lookup(table, IF i.modrm_b < \hC0 THEN Ext(i) ELSE 8 + (i.modrm_b % 64)))
        \/ Extended(i, e) = R(Lookup(table, IF IS_AMD64 THEN 1 ELSE 0))
        \/ Extended(i, e) = R(Lookup(k.table, Ext(i)))
        \/ Extended(i, e) = W(k)
        \/ Extended(i, e) = R(e)
    BY Zenon DEF Extended
  <1>2. PICK x : Extended(i, e) = R(x) \/ Extended(i, e) = W(x)
    <2>. HIDE DEF R, W
    <2>. QED BY <1>1, Zenon
  <1>3. /\ IsInstruction(R(x)) /\ R(x).Length = i.Length
        /\ IsInstruction(W(x)) /\ W(x).Length >= i.Length
    BY EntryIsInstruction
  <1>4. i.Length \in Nat
    BY DEF IsInstruction
  <1>. HIDE DEF R, W
  <1>. QED BY <1>2, <1>3, <1>4

\* An opcode of one byte.
LEMMA OneByteIsInstruction ==
    ASSUME NEW i, NEW b, IsInstruction(i)
    PROVE  IsInstruction(OneByteOpcode(i, b)) /\ OneByteOpcode(i, b).Length >= 1
  <1>. DEFINE j == OpcodeRead(i, b, 1, b \in X86_ModRM_1)
              entry == X86_Opcodes_1[b]
  <1>1. IsInstruction(j) /\ j.Length >= 1 /\ j.Length \in Nat
    BY OpcodeIsInstruction DEF IsInstruction
  <1>2. /\ IsInstruction([j EXCEPT !.Opcode = Invalid])
        /\ [j EXCEPT !.Opcode = Invalid].Length >= 1
        /\ IsInstruction(Extended(j, entry)) /\ Extended(j, entry).Length >= 1
    <2>. HIDE DEF j, entry
    <2>1. /\ IsInstruction([j EXCEPT !.Opcode = Invalid])
          /\ [j EXCEPT !.Opcode = Invalid].Length = j.Length
      BY <1>1, EntryIsInstruction
    <2>2. /\ IsInstruction(Extended(j, entry)) /\ Extended(j, entry).Length >= j.Length
          /\ Extended(j, entry).Length \in Nat
      BY <1>1, ExtendedIsInstruction DEF IsInstruction
    <2>. QED BY <1>1, <2>1, <2>2
  <1>3. \/ OneByteOpcode(i, b) = [j EXCEPT !.Opcode = Invalid]
        \/ OneByteOpcode(i, b) = Extended(j, entry)
    BY Zenon DEF OneByteOpcode
  <1>. QED BY <1>2, <1>3, Zenon

\* An opcode a prefix is part of.
LEMMA SSEIsInstruction ==
    ASSUME NEW i, NEW b, IsInstruction(i)
    PROVE  IsInstruction(SSEOpcode(i, b)) /\ SSEOpcode(i, b).Length = i.Length
  <1>. DEFINE j == PrefixRemoved(i)
              entry == X86_SSE[SSE_Prefix(i)][b]
              offset == CASE SSE_Prefix(i) = \h66 -> 0 [] SSE_Prefix(i) = \hF2 -> 8 [] OTHER -> 16
              x == IF entry.kind = "group" THEN Lookup(entry.table, offset + Ext(i)) ELSE entry
  <1>1. IsInstruction(j) /\ j.Length = i.Length
    BY DEF IsInstruction, Fields, PrefixRemoved
  <1>2. SSEOpcode(i, b) = [j EXCEPT !.Opcode = x]
    BY Zenon DEF SSEOpcode
  <1>. HIDE DEF j, x
  <1>3. IsInstruction([j EXCEPT !.Opcode = x]) /\ [j EXCEPT !.Opcode = x].Length = j.Length
    BY <1>1, EntryIsInstruction
  <1>. QED BY <1>1, <1>2, <1>3

\* An opcode of two bytes.
LEMMA TwoByteIsInstruction ==
    ASSUME NEW i, NEW b, IsInstruction(i)
    PROVE  IsInstruction(TwoByteOpcode(i, b)) /\ TwoByteOpcode(i, b).Length >= 1
  <1>. DEFINE j == OpcodeRead(i, b, 2, b \in X86_ModRM_2)
              entry == X86_Opcodes_2[b]
  <1>1. IsInstruction(j) /\ j.Length >= 1 /\ j.Length \in Nat
    BY OpcodeIsInstruction DEF IsInstruction
  <1>2. /\ IsInstruction([j EXCEPT !.Opcode = Invalid])
        /\ [j EXCEPT !.Opcode = Invalid].Length >= 1
        /\ IsInstruction(SSEOpcode(j, b)) /\ SSEOpcode(j, b).Length >= 1
        /\ IsInstruction(Extended(j, entry)) /\ Extended(j, entry).Length >= 1
    <2>. HIDE DEF j, entry
    <2>1. /\ IsInstruction([j EXCEPT !.Opcode = Invalid])
          /\ [j EXCEPT !.Opcode = Invalid].Length = j.Length
      BY <1>1, EntryIsInstruction
    <2>2. /\ IsInstruction(Extended(j, entry)) /\ Extended(j, entry).Length >= j.Length
          /\ Extended(j, entry).Length \in Nat
      BY <1>1, ExtendedIsInstruction DEF IsInstruction
    <2>3. IsInstruction(SSEOpcode(j, b)) /\ SSEOpcode(j, b).Length = j.Length
      BY <1>1, SSEIsInstruction
    <2>. QED BY <1>1, <2>1, <2>2, <2>3
  <1>3. \/ TwoByteOpcode(i, b) = [j EXCEPT !.Opcode = Invalid]
        \/ TwoByteOpcode(i, b) = SSEOpcode(j, b)
        \/ TwoByteOpcode(i, b) = Extended(j, entry)
    BY Zenon DEF TwoByteOpcode
  <1>. QED BY <1>2, <1>3, Zenon

\* An operand only adds bytes.
LEMMA OperandIsInstruction ==
    ASSUME NEW i, NEW k, NEW from, IsInstruction(i)
    PROVE  /\ IsInstruction(SetOperand(i, k, from))
           /\ SetOperand(i, k, from).Length >= i.Length
  <1>. DEFINE arg == i.Opcode.args[k]
              size == ImmediateSize(i, arg.size)
  <1>1. size \in Nat
    BY DEF IsInstruction, ImmediateSize
  <1>2. /\ IsInstruction([i EXCEPT !.Length = @ + size])
        /\ [i EXCEPT !.Length = @ + size].Length >= i.Length
        /\ IsInstruction([i EXCEPT !.Length = @ + size, !.IPRel = @ \cup {k}])
        /\ [i EXCEPT !.Length = @ + size, !.IPRel = @ \cup {k}].Length >= i.Length
    <2>. HIDE DEF size
    <2>. QED BY <1>1 DEF IsInstruction, Fields
  <1>3. /\ IsInstruction([i EXCEPT !.Length = @ + i.AddressSize])
        /\ [i EXCEPT !.Length = @ + i.AddressSize].Length >= i.Length
    BY DEF IsInstruction, Fields
  <1>4. /\ IsInstruction([i EXCEPT !.Length = @ + IF i.OperandSize = 2 THEN 4 ELSE 6])
        /\ [i EXCEPT !.Length = @ + IF i.OperandSize = 2 THEN 4 ELSE 6].Length >= i.Length
    BY DEF IsInstruction, Fields
  <1>5. IsInstruction(SetModRM(i, arg, k, from)) /\ SetModRM(i, arg, k, from).Length >= i.Length
    <2>1. DisplacementSize16(i) \in Nat /\ \A s : DisplacementSize32(i, s) \in Nat
      BY DEF DisplacementSize16, DisplacementSize32
    <2>. QED BY <2>1 DEF SetModRM, IsInstruction, Fields
  <1>6. i.Length >= i.Length
    BY DEF IsInstruction
  <1>7. \/ SetOperand(i, k, from) = i
        \/ SetOperand(i, k, from) = [i EXCEPT !.Length = @ + size]
        \/ SetOperand(i, k, from) = [i EXCEPT !.Length = @ + size, !.IPRel = @ \cup {k}]
        \/ SetOperand(i, k, from) = [i EXCEPT !.Length = @ + i.AddressSize]
        \/ SetOperand(i, k, from) = [i EXCEPT !.Length = @ + IF i.OperandSize = 2 THEN 4 ELSE 6]
        \/ SetOperand(i, k, from) = SetModRM(i, arg, k, from)
    BY Zenon DEF SetOperand
  <1>. QED BY <1>2, <1>3, <1>4, <1>5, <1>6, <1>7, Zenon

\* The operands, and the ModRM byte before them, only add bytes.
LEMMA OperandsAreInstruction ==
    ASSUME NEW i, NEW from, IsInstruction(i)
    PROVE  IsInstruction(SetOperands(i, from)) /\ SetOperands(i, from).Length >= i.Length
  <1>. DEFINE m == [i EXCEPT !.Length = IF i.HasModRM THEN @ + 1 ELSE @]
              one == SetOperand(m, 1, from)
              two == SetOperand(one, 2, from)
  <1>1. IsInstruction(m) /\ m.Length >= i.Length
    BY DEF IsInstruction, Fields
  <1>. HIDE DEF m
  <1>2. IsInstruction(one) /\ one.Length >= m.Length
    BY <1>1, OperandIsInstruction
  <1>. HIDE DEF one
  <1>3. IsInstruction(two) /\ two.Length >= one.Length
    BY <1>2, OperandIsInstruction
  <1>. HIDE DEF two
  <1>4. IsInstruction(SetOperand(two, 3, from)) /\ SetOperand(two, 3, from).Length >= two.Length
    BY <1>3, OperandIsInstruction
  <1>5. SetOperands(i, from) = SetOperand(two, 3, from)
    BY DEF SetOperands, m, one, two
  <1>6. /\ i.Length \in Nat /\ m.Length \in Nat /\ one.Length \in Nat /\ two.Length \in Nat
        /\ SetOperand(two, 3, from).Length \in Nat
    BY <1>1, <1>2, <1>3, <1>4 DEF IsInstruction
  <1>7. SetOperand(two, 3, from).Length >= i.Length
    BY <1>1, <1>2, <1>3, <1>4, <1>6
  <1>. QED BY <1>4, <1>5, <1>7, Zenon

\* 3DNow!: whatever is set twice, the length only grows.
LEMMA SuffixIsInstruction ==
    ASSUME NEW i, IsInstruction(i)
    PROVE  IsInstruction(SuffixRead(i)) /\ SuffixRead(i).Length >= i.Length
  <1>. DEFINE from == i.Length
              small == [i EXCEPT !.HasOperandSizePrefix = FALSE,
                                 !.OperandSize = IF i.HasOperandSizePrefix THEN 4 ELSE @,
                                 !.Opcode = Entry("op", "other", <<Src("P"), Src("Q")>>, "none")]
              once == SetOperands(small, from)
  <1>1. IsInstruction(small) /\ small.Length = i.Length
    BY DEF IsInstruction, Fields
  <1>. HIDE DEF small
  <1>2. IsInstruction(once) /\ once.Length >= i.Length
    BY <1>1, OperandsAreInstruction
  <1>. HIDE DEF once
  <1>3. PICK x : SuffixRead(i) = [once EXCEPT !.Length = @ + 1, !.OpcodeLength = 3, !.Opcode = x]
    BY Zenon DEF SuffixRead, small, once
  <1>4. /\ IsInstruction([once EXCEPT !.Length = @ + 1, !.OpcodeLength = 3, !.Opcode = x])
        /\ [once EXCEPT !.Length = @ + 1, !.OpcodeLength = 3, !.Opcode = x].Length >= i.Length
    <2>1. i.Length \in Nat
      BY DEF IsInstruction
    <2>. QED BY <1>2, <2>1 DEF IsInstruction, Fields
  <1>. QED BY <1>3, <1>4, Zenon

------------------------------------------------------------------------------
(***************************************************************************)
(* Prefixes.                                                               *)
(***************************************************************************)
LEMMA AddressIsAt == \A k : Address(k) = At(code, dwRet + k)
  BY DEF Address, At

\* The prefixes of the manuals are those the decoder knows.
LEMMA LeadingCodes ==
    \A a \in {32, 64} : \A b : b \in Leading(a) <=> b \in PrefixCodes \/ (a = 64 /\ b \in RexCodes)
  BY DEF Leading, LegacyPrefixes, PrefixCodes, RexCodes

\* A prefix is neither a REX prefix nor the escape to the two-byte opcodes.
LEMMA PrefixesApart == \A b \in PrefixCodes : b \notin RexCodes /\ b \in Byte /\ b # \h0F
  BY DEF PrefixCodes, RexCodes, Byte

\* REX.W is set in the REX prefixes from 48 on.
LEMMA RexBits ==
    \A b \in RexCodes :
        b \in Byte /\ b \notin PrefixCodes /\ ((b \div 8) % 2 = 1 <=> b \in \h48..\h4F)
  <1>. SUFFICES ASSUME NEW b \in \h40..\h4F
                PROVE  b \in Byte /\ b \notin PrefixCodes /\ ((b \div 8) % 2 = 1 <=> b \in \h48..\h4F)
    BY DEF RexCodes
  <1>1. b \in Byte /\ b \notin PrefixCodes
    BY DEF Byte, PrefixCodes
  <1>2. b \in \h40..\h47 => b \div 8 = 8
    OBVIOUS
  <1>3. b \in \h48..\h4F => b \div 8 = 9
    OBVIOUS
  <1>. QED BY <1>1, <1>2, <1>3

\* No REX prefix is behind another among the first n bytes, and the last of
\* them is one.
NoPair(c, at, n) ==
    \A k \in 0..(n - 2) : At(c, at + k) \notin RexCodes \/ At(c, at + (k + 1)) \notin RexCodes
EndsWithRex(c, at, n) == n > 0 /\ At(c, at + (n - 1)) \in RexCodes

\* One byte more.
LEMMA OneMore ==
    ASSUME NEW c, NEW a \in {32, 64}, NEW at \in Nat, NEW n \in Nat,
           PrefixesFirst(a, c, at, n), NoPair(c, at, n), At(c, at + n) \in Leading(a),
           EndsWithRex(c, at, n) => At(c, at + n) \notin RexCodes
    PROVE  /\ PrefixesFirst(a, c, at, n + 1)
           /\ NoPair(c, at, n + 1)
           /\ \A p : Given(c, at, n + 1, p) <=> Given(c, at, n, p) \/ At(c, at + n) = p
           /\ EndsWithRex(c, at, n + 1) <=> At(c, at + n) \in RexCodes
           /\ LastIsWide(a, c, at, n + 1) <=> a = 64 /\ At(c, at + n) \in \h48..\h4F
  <1>1. PrefixesFirst(a, c, at, n + 1)
    <2>. SUFFICES ASSUME NEW k \in 0..((n + 1) - 1) PROVE At(c, at + k) \in Leading(a)
      BY DEF PrefixesFirst
    <2>1. k \in 0..(n - 1) \/ k = n
      OBVIOUS
    <2>. QED BY <2>1 DEF PrefixesFirst
  <1>2. NoPair(c, at, n + 1)
    <2>. SUFFICES ASSUME NEW k \in 0..((n + 1) - 2)
                  PROVE At(c, at + k) \notin RexCodes \/ At(c, at + (k + 1)) \notin RexCodes
      BY DEF NoPair
    <2>1. CASE k \in 0..(n - 2)
      BY <2>1 DEF NoPair
    <2>2. CASE k = n - 1
      <3>1. n > 0 /\ k + 1 = n
        BY <2>2
      <3>. QED BY <2>2, <3>1 DEF EndsWithRex
    <2>. QED BY <2>1, <2>2
  <1>3. ASSUME NEW p PROVE Given(c, at, n + 1, p) <=> Given(c, at, n, p) \/ At(c, at + n) = p
    <2>1. \A k : k \in 0..((n + 1) - 1) <=> k \in 0..(n - 1) \/ k = n
      OBVIOUS
    <2>. QED BY <2>1 DEF Given
  <1>4. n + 1 > 0 /\ (n + 1) - 1 = n /\ at + (n + 1) - 1 = at + n
    OBVIOUS
  <1>. QED BY <1>1, <1>2, <1>3, <1>4 DEF EndsWithRex, LastIsWide

\* What has been read of an instruction, while only prefixes are.
PrefixesRead(a, c, at, i) ==
    /\ IsInstruction(i) /\ i.Prefixes \in Seq(Byte) /\ i.IPRel = {}
    /\ PrefixesFirst(a, c, at, i.Length) /\ NoPair(c, at, i.Length)
    /\ \h66 \in Seen(i) <=> Given(c, at, i.Length, \h66)
    /\ \h67 \in Seen(i) <=> Given(c, at, i.Length, \h67)
    /\ i.AddressSize = AddressSizeOf(a, c, at, i.Length)

PrefixPhase(a, c, at, i) ==
    /\ PrefixesRead(a, c, at, i)
    /\ i.OperandSize = IF \h66 \in Seen(i) THEN 2 ELSE 4
    /\ i.rex_b = 0
    /\ EndsWithRex(c, at, i.Length) => At(c, at + i.Length) \in PrefixCodes

\* The next byte is the opcode's, unless a REX prefix is behind another.
OpcodePhase(a, c, at, i) ==
    /\ PrefixesRead(a, c, at, i)
    /\ i.OperandSize = OperandSizeOf(a, c, at, i.Length)
    /\ RexW(i) => LastIsWide(a, c, at, i.Length)
    /\ At(c, at + i.Length) \notin PrefixCodes
    /\ a = 64 /\ At(c, at + i.Length) \in RexCodes => EndsWithRex(c, at, i.Length)

\* Nothing has been read at first.
LEMMA NothingRead ==
    ASSUME arch \in {32, 64}, NEW c, NEW at \in Nat
    PROVE  PrefixPhase(arch, c, at, InitInstruction)
  <1>. DEFINE i == InitInstruction
  <1>1. /\ IsInstruction(i) /\ i.Prefixes = <<>> /\ i.IPRel = {} /\ i.Length = 0
        /\ i.OperandSize = 4 /\ i.rex_b = 0 /\ i.AddressSize = IF arch = 64 THEN 8 ELSE 4
    BY InitIsInstruction DEF InitInstruction, IS_AMD64
  <1>. HIDE DEF i
  <1>2. Seen(i) = {}
    BY <1>1 DEF Seen
  <1>3. \A p : ~ Given(c, at, 0, p)
    BY DEF Given
  <1>4. ~ EndsWithRex(c, at, 0) /\ PrefixesFirst(arch, c, at, 0) /\ NoPair(c, at, 0)
    BY DEF EndsWithRex, PrefixesFirst, NoPair
  <1>5. i.AddressSize = AddressSizeOf(arch, c, at, 0)
    BY <1>1, <1>3 DEF AddressSizeOf
  <1>. QED BY <1>1, <1>2, <1>3, <1>4, <1>5 DEF PrefixPhase, PrefixesRead, i

\* A prefix that is put on the list is seen.
LEMMA SeenAppend ==
    ASSUME NEW i, NEW j, NEW b \in Byte, i.Prefixes \in Seq(Byte), j.Prefixes = Append(i.Prefixes, b)
    PROVE  Seen(j) = Seen(i) \cup {b} /\ j.Prefixes \in Seq(Byte)
  <1>1. j.Prefixes \in Seq(Byte) /\ Len(j.Prefixes) = Len(i.Prefixes) + 1
    OBVIOUS
  <1>2. \A k \in 1..Len(j.Prefixes) :
            j.Prefixes[k] = IF k <= Len(i.Prefixes) THEN i.Prefixes[k] ELSE b
    OBVIOUS
  <1>. QED BY <1>1, <1>2 DEF Seen

\* A legacy prefix is read.
LEMMA LegacyPrefix ==
    ASSUME arch \in {32, 64}, code \in Seq(Byte), dwRet \in Nat,
           NEW i, PrefixPhase(arch, code, dwRet, i), NEW b, b = NextByte(i), b \in PrefixCodes
    PROVE  PrefixPhase(arch, code, dwRet, LegacyPrefixRead(i, b))
  <1>. DEFINE j == LegacyPrefixRead(i, b)
              n == i.Length
  <1>1. /\ IsInstruction(i) /\ i.Prefixes \in Seq(Byte) /\ n \in Nat
        /\ PrefixesFirst(arch, code, dwRet, n) /\ NoPair(code, dwRet, n)
    BY DEF PrefixPhase, PrefixesRead, IsInstruction
  <1>2. b = At(code, dwRet + n) /\ b \notin RexCodes /\ b \in Leading(arch) /\ b \in Byte
    <2>1. b = At(code, dwRet + n)
      BY AddressIsAt DEF NextByte
    <2>2. b \in Leading(arch)
      BY LeadingCodes
    <2>3. b \notin RexCodes /\ b \in Byte
      BY PrefixesApart
    <2>. QED BY <2>1, <2>2, <2>3
  <1>3. /\ IsInstruction(j) /\ j.Prefixes = Append(i.Prefixes, b) /\ j.IPRel = i.IPRel
        /\ j.Length = n + 1 /\ j.rex_b = i.rex_b
        /\ j.OperandSize = IF b = \h66 /\ b \notin Seen(i) THEN 2 ELSE i.OperandSize
        /\ j.AddressSize = IF b = \h67 /\ b \notin Seen(i) THEN i.AddressSize \div 2 ELSE i.AddressSize
    BY <1>1, PrefixIsInstruction DEF LegacyPrefixRead, IsInstruction, Fields
  <1>. HIDE DEF j, n
  <1>4. /\ PrefixesFirst(arch, code, dwRet, n + 1) /\ NoPair(code, dwRet, n + 1)
        /\ \A p : Given(code, dwRet, n + 1, p) <=> Given(code, dwRet, n, p) \/ b = p
        /\ ~ EndsWithRex(code, dwRet, n + 1)
    BY <1>1, <1>2, OneMore
  <1>5. Seen(j) = Seen(i) \cup {b} /\ j.Prefixes \in Seq(Byte)
    BY <1>1, <1>2, <1>3, SeenAppend
  <1>6. j.AddressSize = AddressSizeOf(arch, code, dwRet, n + 1)
    BY <1>3, <1>4 DEF AddressSizeOf, PrefixPhase, PrefixesRead, n
  <1>7. j.OperandSize = IF \h66 \in Seen(j) THEN 2 ELSE 4
    BY <1>3, <1>5 DEF PrefixPhase
  <1>8. /\ \h66 \in Seen(j) <=> Given(code, dwRet, n + 1, \h66)
        /\ \h67 \in Seen(j) <=> Given(code, dwRet, n + 1, \h67)
    BY <1>4, <1>5 DEF PrefixPhase, PrefixesRead, n
  <1>9. j.IPRel = {} /\ j.rex_b = 0
    BY <1>3 DEF PrefixPhase, PrefixesRead
  <1>. QED BY <1>3, <1>4, <1>5, <1>6, <1>7, <1>8, <1>9 DEF PrefixPhase, PrefixesRead, j

\* A REX prefix is skipped, because another prefix follows.
LEMMA SkippedRex ==
    ASSUME arch \in {32, 64}, code \in Seq(Byte), dwRet \in Nat,
           NEW i, PrefixPhase(arch, code, dwRet, i), Misplaced(i)
    PROVE  PrefixPhase(arch, code, dwRet, [i EXCEPT !.Length = @ + 1, !.AnomalyOccurred = TRUE])
  <1>. DEFINE j == [i EXCEPT !.Length = @ + 1, !.AnomalyOccurred = TRUE]
              n == i.Length
              b == At(code, dwRet + n)
  <1>1. /\ IsInstruction(i) /\ i.Prefixes \in Seq(Byte) /\ n \in Nat
        /\ PrefixesFirst(arch, code, dwRet, n) /\ NoPair(code, dwRet, n)
        /\ EndsWithRex(code, dwRet, n) => b \in PrefixCodes
    BY DEF PrefixPhase, PrefixesRead, IsInstruction
  <1>2. /\ arch = 64 /\ b \in RexCodes /\ b \in Leading(arch)
        /\ At(code, dwRet + (n + 1)) \in PrefixCodes
    BY AddressIsAt, LeadingCodes DEF Misplaced, NextByte, IS_AMD64
  <1>3. b \notin PrefixCodes
    BY <1>2, PrefixesApart
  <1>4. /\ IsInstruction(j) /\ j.Prefixes = i.Prefixes /\ j.IPRel = i.IPRel
        /\ j.Length = n + 1 /\ j.rex_b = i.rex_b
        /\ j.OperandSize = i.OperandSize /\ j.AddressSize = i.AddressSize
    BY <1>1 DEF IsInstruction, Fields
  <1>. HIDE DEF j, n, b
  <1>5. /\ PrefixesFirst(arch, code, dwRet, n + 1) /\ NoPair(code, dwRet, n + 1)
        /\ \A p : Given(code, dwRet, n + 1, p) <=> Given(code, dwRet, n, p) \/ b = p
    BY <1>1, <1>2, <1>3, OneMore DEF b
  <1>6. Seen(j) = Seen(i)
    BY <1>4 DEF Seen
  <1>7. /\ Given(code, dwRet, n + 1, \h66) <=> Given(code, dwRet, n, \h66)
        /\ Given(code, dwRet, n + 1, \h67) <=> Given(code, dwRet, n, \h67)
    BY <1>2, <1>5 DEF RexCodes
  <1>8. j.AddressSize = AddressSizeOf(arch, code, dwRet, n + 1)
    BY <1>4, <1>7 DEF AddressSizeOf, PrefixPhase, PrefixesRead, n
  <1>9. /\ \h66 \in Seen(j) <=> Given(code, dwRet, n + 1, \h66)
        /\ \h67 \in Seen(j) <=> Given(code, dwRet, n + 1, \h67)
    BY <1>6, <1>7 DEF PrefixPhase, PrefixesRead, n
  <1>10. /\ j.IPRel = {} /\ j.rex_b = 0 /\ j.OperandSize = IF \h66 \in Seen(j) THEN 2 ELSE 4
    BY <1>4, <1>6 DEF PrefixPhase, PrefixesRead
  <1>11. At(code, dwRet + j.Length) \in PrefixCodes
    BY <1>2, <1>4
  <1>12. j.Prefixes \in Seq(Byte)
    BY <1>1, <1>4
  <1>. QED BY <1>4, <1>5, <1>8, <1>9, <1>10, <1>11, <1>12 DEF PrefixPhase, PrefixesRead, j

\* A REX prefix is read: the opcode is next.
LEMMA RexPrefix ==
    ASSUME arch = 64, code \in Seq(Byte), dwRet \in Nat,
           NEW i, PrefixPhase(arch, code, dwRet, i), NEW b, b = NextByte(i), b \in RexCodes,
           ~ Misplaced(i)
    PROVE  OpcodePhase(arch, code, dwRet, RexRead(i, b))
  <1>. DEFINE j == RexRead(i, b)
              n == i.Length
              meaningless == b = \h40 /\ ~ i.HasOperandSizePrefix
  <1>1. /\ IsInstruction(i) /\ i.Prefixes \in Seq(Byte) /\ n \in Nat
        /\ PrefixesFirst(arch, code, dwRet, n) /\ NoPair(code, dwRet, n)
        /\ EndsWithRex(code, dwRet, n) => At(code, dwRet + n) \in PrefixCodes
    BY DEF PrefixPhase, PrefixesRead, IsInstruction
  <1>2. /\ b = At(code, dwRet + n) /\ b \notin PrefixCodes /\ b \in Leading(arch) /\ b \in Byte
        /\ At(code, dwRet + (n + 1)) \notin PrefixCodes
    <2>1. b = At(code, dwRet + n)
      BY AddressIsAt DEF NextByte
    <2>2. b \in Leading(arch)
      BY LeadingCodes
    <2>3. b \notin PrefixCodes /\ b \in Byte
      BY RexBits
    <2>4. At(code, dwRet + (n + 1)) \notin PrefixCodes
      BY AddressIsAt DEF Misplaced, IS_AMD64
    <2>. QED BY <2>1, <2>2, <2>3, <2>4
  <1>3. (b \div 8) % 2 = 1 <=> b \in \h48..\h4F
    BY RexBits
  <1>4. /\ IsInstruction(j) /\ j.Prefixes = Append(i.Prefixes, b) /\ j.IPRel = i.IPRel
        /\ j.Length = n + 1
        /\ j.rex_b = IF meaningless THEN 0 ELSE b
        /\ j.OperandSize = IF b \in \h48..\h4F THEN 8 ELSE i.OperandSize
        /\ j.AddressSize = i.AddressSize
    BY <1>1, <1>3, PrefixIsInstruction DEF RexRead, IsInstruction, Fields
  <1>5. RexW(j) => b \in \h48..\h4F
    <2>1. CASE meaningless
      <3>1. j.rex_b = 0 /\ (0 \div 8) % 2 = 0
        BY <1>4, <2>1
      <3>. QED BY <3>1 DEF RexW
    <2>2. CASE ~ meaningless
      BY <1>3, <1>4, <2>2 DEF RexW
    <2>. QED BY <2>1, <2>2
  <1>. HIDE DEF j, n, meaningless
  <1>6. /\ PrefixesFirst(arch, code, dwRet, n + 1) /\ NoPair(code, dwRet, n + 1)
        /\ \A p : Given(code, dwRet, n + 1, p) <=> Given(code, dwRet, n, p) \/ b = p
        /\ EndsWithRex(code, dwRet, n + 1)
        /\ LastIsWide(arch, code, dwRet, n + 1) <=> b \in \h48..\h4F
    <2>. DEFINE x == At(code, dwRet + n)
    <2>1. arch \in {32, 64} /\ ~ EndsWithRex(code, dwRet, n) /\ x \in Leading(arch)
      BY <1>1, <1>2
    <2>2. /\ PrefixesFirst(arch, code, dwRet, n + 1)
          /\ NoPair(code, dwRet, n + 1)
          /\ \A p : Given(code, dwRet, n + 1, p) <=> Given(code, dwRet, n, p) \/ x = p
          /\ EndsWithRex(code, dwRet, n + 1) <=> x \in RexCodes
          /\ LastIsWide(arch, code, dwRet, n + 1) <=> arch = 64 /\ x \in \h48..\h4F
      BY <1>1, <2>1, OneMore
    <2>. QED BY <1>2, <2>2
  <1>7. /\ Given(code, dwRet, n + 1, \h66) <=> Given(code, dwRet, n, \h66)
        /\ Given(code, dwRet, n + 1, \h67) <=> Given(code, dwRet, n, \h67)
    <2>1. b # \h66 /\ b # \h67
      BY DEF RexCodes
    <2>. QED BY <1>6, <2>1
  <1>8. Seen(j) = Seen(i) \cup {b} /\ j.Prefixes \in Seq(Byte)
    BY <1>1, <1>2, <1>4, SeenAppend
  <1>9. /\ \h66 \in Seen(j) <=> Given(code, dwRet, n + 1, \h66)
        /\ \h67 \in Seen(j) <=> Given(code, dwRet, n + 1, \h67)
    <2>1. b # \h66 /\ b # \h67
      BY DEF RexCodes
    <2>. QED BY <1>7, <1>8, <2>1 DEF PrefixPhase, PrefixesRead, n
  <1>10. j.AddressSize = AddressSizeOf(arch, code, dwRet, n + 1)
    BY <1>4, <1>7 DEF AddressSizeOf, PrefixPhase, PrefixesRead, n
  <1>11. j.OperandSize = OperandSizeOf(arch, code, dwRet, n + 1)
    <2>1. i.OperandSize = IF Given(code, dwRet, n, \h66) THEN 2 ELSE 4
      BY DEF PrefixPhase, PrefixesRead, n
    <2>. QED BY <1>4, <1>6, <1>7, <2>1 DEF OperandSizeOf
  <1>12. j.IPRel = {}
    BY <1>4 DEF PrefixPhase, PrefixesRead
  <1>13. PrefixesRead(arch, code, dwRet, j)
    BY <1>4, <1>6, <1>8, <1>9, <1>10, <1>12 DEF PrefixesRead
  <1>14. OpcodePhase(arch, code, dwRet, j)
    BY <1>2, <1>4, <1>5, <1>6, <1>11, <1>13 DEF OpcodePhase
  <1>. QED BY <1>14 DEF j

\* What follows is neither: the opcode is next.
LEMMA NoMorePrefixes ==
    ASSUME arch \in {32, 64}, code \in Seq(Byte), dwRet \in Nat,
           NEW i, PrefixPhase(arch, code, dwRet, i), NextByte(i) \notin PrefixCodes,
           ~ (IS_AMD64 /\ NextByte(i) \in RexCodes)
    PROVE  OpcodePhase(arch, code, dwRet, i)
  <1>. DEFINE n == i.Length
  <1>1. n \in Nat /\ ~ EndsWithRex(code, dwRet, n)
    BY AddressIsAt DEF PrefixPhase, PrefixesRead, IsInstruction, NextByte
  <1>2. ~ LastIsWide(arch, code, dwRet, n)
    <2>1. n > 0 => dwRet + n - 1 = dwRet + (n - 1)
      BY <1>1
    <2>. QED BY <1>1, <2>1 DEF LastIsWide, EndsWithRex, RexCodes
  <1>3. i.OperandSize = OperandSizeOf(arch, code, dwRet, n)
    BY <1>2 DEF OperandSizeOf, PrefixPhase, PrefixesRead
  <1>4. ~ RexW(i)
    <2>1. i.rex_b = 0 /\ (0 \div 8) % 2 = 0
      BY DEF PrefixPhase
    <2>. QED BY <2>1 DEF RexW
  <1>5. /\ At(code, dwRet + n) \notin PrefixCodes
        /\ ~ (arch = 64 /\ At(code, dwRet + n) \in RexCodes)
    BY AddressIsAt DEF NextByte, IS_AMD64
  <1>. QED BY <1>3, <1>4, <1>5 DEF OpcodePhase, PrefixPhase

------------------------------------------------------------------------------
(***************************************************************************)
(* The opcode.                                                             *)
(***************************************************************************)
\* What is known of an instruction when its opcode has been looked up: b is
\* what the manuals call the opcode, unless the byte behind the prefixes is a
\* REX prefix behind another.
OpcodeFound(a, c, at, i, n, size, b, whole) ==
    /\ IsInstruction(i) /\ i.IPRel = {}
    /\ PrefixesFirst(a, c, at, n) /\ NoPair(c, at, n)
    /\ OpcodeIs(c, at, n, size, b)
    /\ At(c, at + n) \in Leading(a) =>
           a = 64 /\ EndsWithRex(c, at, n) /\ At(c, at + n) \in RexCodes
    /\ i.HasModRM <=> ModRMListed(size, b)
    /\ i.modrm_b = IF ModRMListed(size, b) THEN At(c, at + n + size) ELSE 0
    /\ Sound(size, b, i.modrm_b, whole, i.Opcode)
    /\ i.Opcode.kind \in {"op", "suffix"}
    /\ i.Length = n + size + (IF i.Opcode.kind = "op" /\ i.Opcode.args = <<>> THEN whole ELSE 0)
    /\ i.OperandSize \in Sizes
    /\ i.OperandSize = OperandSizeOf(a, c, at, n) \/ (size = 2 /\ b \notin \h80..\h8F)
    /\ i.OperandSize = 8 => LastIsWide(a, c, at, n)
    /\ i.AddressSize = AddressSizeOf(a, c, at, n)

OperandPhase(a, c, at, i) ==
    \E n \in Nat, size \in {1, 2}, b \in Byte, whole \in {0, 1} :
        OpcodeFound(a, c, at, i, n, size, b, whole)

\* What looking up an opcode leaves alone.
SameBytes(i, j) ==
    /\ IsInstruction(j)
    /\ j.IPRel = i.IPRel /\ j.AddressSize = i.AddressSize
    /\ j.HasModRM = i.HasModRM /\ j.modrm_b = i.modrm_b
WholeLength(i, e, w) == i.Length + IF e.kind = "op" /\ e.args = <<>> THEN w ELSE 0

Leads(i, j, e, w) ==
    /\ SameBytes(i, j) /\ j.Opcode = e /\ j.OperandSize = i.OperandSize
    /\ j.Length = WholeLength(i, e, w)

\* Taking over an entry leaves the rest alone, but for the whole ModRM byte.
LEMMA WithEntry ==
    ASSUME NEW i, IsInstruction(i), NEW e
    PROVE  Leads(i, [i EXCEPT !.Opcode = e], e, 0) /\ Leads(i, WholeModRM(i, e), e, 1)
  <1>1. IsInstruction([i EXCEPT !.Opcode = e]) /\ IsInstruction(WholeModRM(i, e))
    BY EntryIsInstruction
  <1>2. /\ [i EXCEPT !.Opcode = e].Opcode = e /\ WholeModRM(i, e).Opcode = e
        /\ [i EXCEPT !.Opcode = e].OperandSize = i.OperandSize
        /\ WholeModRM(i, e).OperandSize = i.OperandSize
    BY DEF WholeModRM, IsInstruction, Fields
  <1>3. SameBytes(i, [i EXCEPT !.Opcode = e]) /\ SameBytes(i, WholeModRM(i, e))
    BY <1>1 DEF SameBytes, WholeModRM, IsInstruction, Fields
  <1>4. [i EXCEPT !.Opcode = e].Length = WholeLength(i, e, 0)
    BY DEF WholeLength, IsInstruction, Fields
  <1>5. WholeModRM(i, e).Length = WholeLength(i, e, 1)
    BY DEF WholeLength, WholeModRM, IsInstruction, Fields
  <1>. QED BY <1>2, <1>3, <1>4, <1>5 DEF Leads

\* The entry that other tables lead to is the one X86Tables_proofs speaks of.
LEMMA ExtendedIs ==
    ASSUME arch \in {32, 64}, NEW i, IsInstruction(i), NEW e
    PROVE  Leads(i, Extended(i, e), Resolved(e, i.modrm_b, IF arch = 64 THEN 1 ELSE 0),
                 Whole(e, i.modrm_b))
  <1>. DEFINE k == IF arch = 64 THEN 1 ELSE 0
              m == i.modrm_b
              x == Resolved(e, m, k)
              y == Lookup(e.table, m)
  <1>. SUFFICES Leads(i, Extended(i, e), x, Whole(e, m))
    OBVIOUS
  <1>1. CASE e.kind = "group"
    <2>1. x = Lookup(e.table, Extension(m)) /\ Whole(e, m) = 0
      BY <1>1 DEF Resolved, Whole
    <2>2. Extended(i, e) = [i EXCEPT !.Opcode = x]
      BY <1>1, <2>1 DEF Extended, Ext, Extension
    <2>. HIDE DEF x
    <2>. QED BY <2>1, <2>2, WithEntry
  <1>2. CASE e.kind = "fpu"
    <2>1. x = Lookup(e.table, EscIndex(m)) /\ Whole(e, m) = 1
      BY <1>2 DEF Resolved, Whole
    <2>2. Extended(i, e) = WholeModRM(i, x)
      BY <1>2, <2>1 DEF Extended, Ext, Extension, EscIndex
    <2>. HIDE DEF x
    <2>. QED BY <2>1, <2>2, WithEntry
  <1>3. CASE e.kind = "ext64"
    <2>1. x = Lookup(e.table, k) /\ Whole(e, m) = 0
      BY <1>3 DEF Resolved, Whole
    <2>2. Extended(i, e) = [i EXCEPT !.Opcode = x]
      BY <1>3, <2>1 DEF Extended, IS_AMD64
    <2>. HIDE DEF x
    <2>. QED BY <2>1, <2>2, WithEntry
  <1>4. CASE e.kind = "extmodrm" /\ y.kind = "group"
    <2>1. x = Lookup(y.table, Extension(m)) /\ Whole(e, m) = 0
      BY <1>4 DEF Resolved, Whole
    <2>2. Extended(i, e) = [i EXCEPT !.Opcode = x]
      BY <1>4, <2>1 DEF Extended, Ext, Extension
    <2>. HIDE DEF x
    <2>. QED BY <2>1, <2>2, WithEntry
  <1>5. CASE e.kind = "extmodrm" /\ y.kind # "group"
    <2>1. x = y /\ Whole(e, m) = 1
      BY <1>5 DEF Resolved, Whole
    <2>2. Extended(i, e) = WholeModRM(i, x)
      BY <1>5, <2>1 DEF Extended
    <2>. HIDE DEF x
    <2>. QED BY <2>1, <2>2, WithEntry
  <1>6. CASE e.kind \notin {"group", "fpu", "ext64", "extmodrm"}
    <2>1. x = e /\ Whole(e, m) = 0
      BY <1>6 DEF Resolved, Whole
    <2>2. Extended(i, e) = [i EXCEPT !.Opcode = x]
      BY <1>6, <2>1 DEF Extended
    <2>. HIDE DEF x
    <2>. QED BY <2>1, <2>2, WithEntry
  <1>. QED BY <1>1, <1>2, <1>3, <1>4, <1>5, <1>6

\* What the opcode byte leaves: whether there is a ModRM byte, and which.
LEMMA OpcodeReadIs ==
    ASSUME NEW i, IsInstruction(i), NEW b, NEW size, NEW S
    PROVE  LET j == OpcodeRead(i, b, size, b \in S)
           IN  /\ IsInstruction(j) /\ j.Length = i.Length + 1
               /\ j.HasModRM = (b \in S)
               /\ j.modrm_b = IF b \in S THEN Address(i.Length + 1) ELSE 0
               /\ j.IPRel = i.IPRel /\ j.AddressSize = i.AddressSize
               /\ j.OperandSize = i.OperandSize /\ j.Prefixes = i.Prefixes /\ j.rex_b = i.rex_b
  BY DEF OpcodeRead, IsInstruction, Fields

\* What is left to know when an opcode has been found.
FoundFrom(a, c, at, n, size, b, whole, j) ==
    /\ OpcodeIs(c, at, n, size, b) /\ whole \in {0, 1}
    /\ IsInstruction(j) /\ j.IPRel = {} /\ j.AddressSize = AddressSizeOf(a, c, at, n)
    /\ j.HasModRM <=> ModRMListed(size, b)
    /\ j.modrm_b = IF ModRMListed(size, b) THEN At(c, at + n + size) ELSE 0
    /\ Sound(size, b, j.modrm_b, whole, j.Opcode)
    /\ j.Length = n + size + (IF j.Opcode.kind = "op" /\ j.Opcode.args = <<>> THEN whole ELSE 0)
    /\ j.OperandSize \in Sizes
    /\ j.OperandSize = OperandSizeOf(a, c, at, n) \/ (size = 2 /\ b \notin \h80..\h8F)
    /\ j.OperandSize = 8 => LastIsWide(a, c, at, n)

\* With that the operands can be read.
LEMMA FoundOpcode ==
    ASSUME arch \in {32, 64}, code \in Seq(Byte), dwRet \in Nat,
           NEW i, OpcodePhase(arch, code, dwRet, i),
           NEW size, NEW b, NEW j, NEW whole,
           FoundFrom(arch, code, dwRet, i.Length, size, b, whole, j),
           Accepted(j)
    PROVE  OperandPhase(arch, code, dwRet, j)
  <1>. DEFINE n == i.Length
  <1>0. n \in Nat
    BY DEF OpcodePhase, PrefixesRead, IsInstruction
  <1>1. /\ PrefixesFirst(arch, code, dwRet, n) /\ NoPair(code, dwRet, n)
    BY DEF OpcodePhase, PrefixesRead
  <1>2. At(code, dwRet + n) \in Leading(arch) =>
            arch = 64 /\ EndsWithRex(code, dwRet, n) /\ At(code, dwRet + n) \in RexCodes
    BY LeadingCodes DEF OpcodePhase
  <1>3. j.Opcode.kind \in {"op", "suffix"}
    BY DEF Accepted
  <1>4. size \in {1, 2} /\ b \in Byte /\ whole \in {0, 1}
    <2>1. size \in {1, 2} /\ b = At(code, dwRet + n + size - 1) /\ whole \in {0, 1}
      BY DEF FoundFrom, OpcodeIs
    <2>2. dwRet + n + size - 1 \in Nat
      BY <1>0, <2>1
    <2>. QED BY <2>1, <2>2, AtIsByte
  <1>5. OpcodeFound(arch, code, dwRet, j, n, size, b, whole)
    BY <1>1, <1>2, <1>3, Zenon DEF OpcodeFound, FoundFrom
  <1>. HIDE DEF n
  <1>. QED BY <1>0, <1>4, <1>5 DEF OperandPhase

\* The sizes an operand can have by the manuals.
LEMMA OperandSizes ==
    ASSUME NEW a, NEW c, NEW at, NEW n
    PROVE  /\ OperandSizeOf(a, c, at, n) \in Sizes
           /\ OperandSizeOf(a, c, at, n) = 8 => LastIsWide(a, c, at, n)
  BY DEF OperandSizeOf, Sizes

\* An opcode of one byte.
LEMMA OneByteFound ==
    ASSUME arch \in {32, 64}, code \in Seq(Byte), dwRet \in Nat,
           NEW i, OpcodePhase(arch, code, dwRet, i), NEW b, b = NextByte(i), b # \h0F,
           Accepted(OneByteOpcode(i, b))
    PROVE  OperandPhase(arch, code, dwRet, OneByteOpcode(i, b))
  <1>. DEFINE n == i.Length
              j == OpcodeRead(i, b, 1, b \in X86_ModRM_1)
              e == X86_Opcodes_1[b]
              k == IF arch = 64 THEN 1 ELSE 0
              x == Extended(j, e)
  <1>1. IsInstruction(i) /\ n \in Nat /\ i.IPRel = {}
    BY DEF OpcodePhase, PrefixesRead, IsInstruction
  <1>2. /\ IsInstruction(j) /\ j.Length = n + 1
        /\ j.HasModRM = (b \in X86_ModRM_1)
        /\ j.modrm_b = IF b \in X86_ModRM_1 THEN Address(n + 1) ELSE 0
        /\ j.IPRel = {} /\ j.AddressSize = i.AddressSize /\ j.OperandSize = i.OperandSize
    BY <1>1, OpcodeReadIs
  <1>3. b \in X86_ModRM_1 <=> ModRMListed(1, b)
    BY DEF ModRMListed
  <1>4. OneByteOpcode(i, b) = x
    <2>1. ~ Accepted([j EXCEPT !.Opcode = Invalid])
      BY <1>2 DEF Accepted, Invalid, Entry, IsInstruction, Fields
    <2>. HIDE DEF j, e
    <2>. QED BY <2>1, Zenon DEF OneByteOpcode, j, e
  <1>. HIDE DEF j, e
  <1>5. b = At(code, dwRet + n) /\ b \in Byte /\ OpcodeIs(code, dwRet, n, 1, b)
    <2>1. b = At(code, dwRet + n) /\ dwRet + n \in Nat /\ dwRet + n + 1 - 1 = dwRet + n
      BY <1>1, AddressIsAt DEF NextByte
    <2>. QED BY <2>1, AtIsByte DEF OpcodeIs
  <1>6. j.modrm_b = IF ModRMListed(1, b) THEN At(code, dwRet + n + 1) ELSE 0
    <2>1. Address(n + 1) = At(code, dwRet + (n + 1)) /\ dwRet + (n + 1) = dwRet + n + 1
      BY <1>1, AddressIsAt
    <2>. QED BY <1>2, <1>3, <2>1
  <1>7. j.modrm_b \in Byte
    <2>1. dwRet + n + 1 \in Nat /\ 0 \in Byte
      BY <1>1 DEF Byte
    <2>. QED BY <1>6, <2>1, AtIsByte
  <1>8. Leads(j, x, Resolved(e, j.modrm_b, k), Whole(e, j.modrm_b))
    BY <1>2, ExtendedIs
  <1>9. /\ x.Opcode = Resolved(e, j.modrm_b, k) /\ x.OperandSize = i.OperandSize
        /\ IsInstruction(x) /\ x.IPRel = {} /\ x.AddressSize = i.AddressSize
        /\ x.HasModRM = (b \in X86_ModRM_1) /\ x.modrm_b = j.modrm_b
        /\ x.Length = WholeLength(j, x.Opcode, Whole(e, j.modrm_b))
    BY <1>2, <1>8 DEF Leads, SameBytes
  <1>10. /\ Sound(1, b, x.modrm_b, Whole(e, j.modrm_b), x.Opcode)
         /\ Whole(e, j.modrm_b) \in {0, 1}
    <2>1. SoundEntry(1, b, e)
      BY <1>5, OneByteTable DEF e
    <2>2. k \in {0, 1}
      OBVIOUS
    <2>. HIDE DEF k
    <2>3. Sound(1, b, j.modrm_b, Whole(e, j.modrm_b), Resolved(e, j.modrm_b, k))
      BY <1>7, <2>1, <2>2, Zenon DEF SoundEntry
    <2>4. Whole(e, j.modrm_b) \in {0, 1}
      BY DEF Whole
    <2>. QED BY <1>9, <2>3, <2>4
  <1>11. x.Length = n + 1 + (IF x.Opcode.kind = "op" /\ x.Opcode.args = <<>>
                             THEN Whole(e, j.modrm_b) ELSE 0)
    BY <1>2, <1>9 DEF WholeLength
  <1>12. /\ x.OperandSize \in Sizes
         /\ x.OperandSize = OperandSizeOf(arch, code, dwRet, n)
         /\ x.OperandSize = 8 => LastIsWide(arch, code, dwRet, n)
    BY <1>9, OperandSizes DEF OpcodePhase
  <1>. HIDE DEF x, n
  <1>13. FoundFrom(arch, code, dwRet, i.Length, 1, b, Whole(e, j.modrm_b), x)
    <2>1. x.AddressSize = AddressSizeOf(arch, code, dwRet, n)
      BY <1>9 DEF OpcodePhase, PrefixesRead, n
    <2>2. x.HasModRM <=> ModRMListed(1, b)
      BY <1>3, <1>9
    <2>3. x.modrm_b = IF ModRMListed(1, b) THEN At(code, dwRet + n + 1) ELSE 0
      BY <1>6, <1>9
    <2>4. i.Length = n
      BY DEF n
    <2>. QED BY <1>5, <1>9, <1>10, <1>11, <1>12, <2>1, <2>2, <2>3, <2>4, Zenon DEF FoundFrom
  <1>14. Accepted(x)
    BY <1>4
  <1>15. OperandPhase(arch, code, dwRet, x)
    BY <1>13, <1>14, FoundOpcode
  <1>. QED BY <1>4, <1>15

\* The prefix that is part of the opcode is one of three.
LEMMA SSEPrefixIs ==
    ASSUME NEW i, i.Prefixes \in Seq(Byte)
    PROVE  SSE_Prefix(i) = 0 \/ SSE_Prefix(i) \in SSEPrefixes
  <1>. DEFINE at == {k \in 1..Len(i.Prefixes) : i.Prefixes[k] \in SSEPrefixes}
              L == Len(i.Prefixes)
  <1>1. CASE at = {}
    BY <1>1 DEF SSE_Prefix
  <1>2. CASE at # {}
    <2>1. L \in Nat /\ at \subseteq 1..L
      OBVIOUS
    <2>. DEFINE T == {L - k : k \in at}
    <2>2. T \in SUBSET Nat /\ T # {}
      <3>1. \A k \in at : L - k \in Nat
        BY <2>1
      <3>2. PICK k : k \in at
        BY <1>2
      <3>3. L - k \in T
        BY <3>2
      <3>. HIDE DEF L, at
      <3>. QED BY <3>1, <3>3
    <2>3. PICK x \in T : \A y \in T : x <= y
      BY <2>2, LeastNatural
    <2>4. PICK k \in at : x = L - k
      BY <2>3
    <2>5. \A l \in at : l <= k
      <3>. SUFFICES ASSUME NEW l \in at PROVE l <= k
        OBVIOUS
      <3>1. L - k <= L - l
        BY <2>3, <2>4
      <3>. QED BY <2>1, <3>1
    <2>6. (CHOOSE l \in at : \A m \in at : m <= l) \in at
      BY <2>5
    <2>. QED BY <1>2, <2>6 DEF SSE_Prefix
  <1>. QED BY <1>1, <1>2

\* An opcode a prefix is part of leads where the tables of the prefix say.
LEMMA SSEOpcodeIs ==
    ASSUME NEW i, IsInstruction(i), i.modrm_b \in Byte, NEW b \in Byte,
           SSE_Prefix(i) \in SSEPrefixes
    PROVE  LET x == SSEOpcode(i, b)
           IN  /\ SameBytes(i, x)
               /\ x.Opcode = Resolved(X86_SSE[SSE_Prefix(i)][b], i.modrm_b, 0)
               /\ x.Length = i.Length
               /\ x.OperandSize = IF SSE_Prefix(i) # \h66 THEN i.OperandSize
                                  ELSE IF RexW(i) THEN 8 ELSE 4
               /\ Whole(X86_SSE[SSE_Prefix(i)][b], i.modrm_b) = 0
  <1>. DEFINE p == SSE_Prefix(i)
              e == X86_SSE[p][b]
              m == i.modrm_b
              offset == CASE p = \h66 -> 0 [] p = \hF2 -> 8 [] OTHER -> 16
              y == IF e.kind = "group" THEN Lookup(e.table, offset + Ext(i)) ELSE e
              r == PrefixRemoved(i)
              x == SSEOpcode(i, b)
  <1>1. x = [r EXCEPT !.Opcode = y]
    BY Zenon DEF SSEOpcode
  <1>2. /\ e.kind \in {"invalid", "op", "group"}
        /\ e.kind = "group" => p = \h66
    BY MediaTable DEF SSEPrefixes
  <1>3. y = Resolved(e, m, 0) /\ Whole(e, m) = 0
    <2>. HIDE DEF p, e
    <2>1. CASE e.kind = "group"
      <3>1. offset = 0
        BY <1>2, <2>1
      <3>2. Ext(i) = Extension(m) /\ Extension(m) \in Int
        BY DEF Ext, Extension, Byte
      <3>3. offset + Ext(i) = Extension(m)
        BY <3>1, <3>2
      <3>4. y = Lookup(e.table, Extension(m))
        BY <2>1, <3>3
      <3>. QED BY <2>1, <3>4 DEF Resolved, Whole
    <2>2. CASE e.kind \in {"invalid", "op"}
      <3>1. y = e
        BY <2>2
      <3>2. Resolved(e, m, 0) = e
        BY <2>2 DEF Resolved
      <3>3. Whole(e, m) = 0
        BY <2>2 DEF Whole
      <3>. QED BY <3>1, <3>2, <3>3
    <2>. QED BY <1>2, <2>1, <2>2
  <1>4. /\ IsInstruction(r) /\ r.Length = i.Length /\ r.IPRel = i.IPRel
        /\ r.AddressSize = i.AddressSize /\ r.HasModRM = i.HasModRM /\ r.modrm_b = i.modrm_b
        /\ r.OperandSize = IF p # \h66 THEN i.OperandSize ELSE IF RexW(i) THEN 8 ELSE 4
    <2>. HIDE DEF p
    <2>1. r = [i EXCEPT !.Prefixes = Tail(@), !.OpcodeLength = 3, !.HasOperandSizePrefix = FALSE,
              !.OperandSize = IF p # \h66 THEN @ ELSE IF RexW(i) THEN 8 ELSE 4]
      BY DEF PrefixRemoved, p
    <2>. QED BY <2>1 DEF IsInstruction, Fields
  <1>. HIDE DEF r, y
  <1>5. Leads(r, x, y, 0)
    BY <1>1, <1>4, WithEntry
  <1>6. /\ SameBytes(i, x) /\ x.Opcode = y /\ x.Length = i.Length
        /\ x.OperandSize = r.OperandSize
    <2>. HIDE DEF x
    <2>. QED BY <1>4, <1>5 DEF Leads, SameBytes, WholeLength, IsInstruction
  <1>. QED BY <1>3, <1>4, <1>6

\* An opcode of two bytes; "f" is the instruction when 0F has been read.
LEMMA TwoByteFound ==
    ASSUME arch \in {32, 64}, code \in Seq(Byte), dwRet \in Nat,
           NEW i, OpcodePhase(arch, code, dwRet, i), NextByte(i) = \h0F,
           NEW f, IsInstruction(f), f.Length = i.Length + 1, f.Prefixes = i.Prefixes,
           f.IPRel = i.IPRel, f.AddressSize = i.AddressSize, f.OperandSize = i.OperandSize,
           f.rex_b = i.rex_b, NEW b, b = NextByte(f),
           Accepted(TwoByteOpcode(f, b))
    PROVE  OperandPhase(arch, code, dwRet, TwoByteOpcode(f, b))
  <1>. DEFINE n == i.Length
              j == OpcodeRead(f, b, 2, b \in X86_ModRM_2)
              e == X86_Opcodes_2[b]
              k == IF arch = 64 THEN 1 ELSE 0
              p == SSE_Prefix(j)
              x == TwoByteOpcode(f, b)
  <1>1. IsInstruction(i) /\ n \in Nat /\ i.IPRel = {} /\ i.Prefixes \in Seq(Byte)
    BY DEF OpcodePhase, PrefixesRead, IsInstruction
  <1>2. /\ IsInstruction(f) /\ f.Length = n + 1 /\ f.IPRel = {} /\ f.Prefixes = i.Prefixes
        /\ f.AddressSize = i.AddressSize /\ f.OperandSize = i.OperandSize /\ f.rex_b = i.rex_b
    BY <1>1
  <1>3. /\ IsInstruction(j) /\ j.Length = (n + 1) + 1
        /\ j.HasModRM = (b \in X86_ModRM_2)
        /\ j.modrm_b = IF b \in X86_ModRM_2 THEN Address((n + 1) + 1) ELSE 0
        /\ j.IPRel = {} /\ j.AddressSize = i.AddressSize /\ j.OperandSize = i.OperandSize
        /\ j.Prefixes = i.Prefixes /\ j.rex_b = i.rex_b
    <2>1. /\ IsInstruction(j) /\ j.Length = f.Length + 1
          /\ j.HasModRM = (b \in X86_ModRM_2)
          /\ j.modrm_b = IF b \in X86_ModRM_2 THEN Address(f.Length + 1) ELSE 0
          /\ j.IPRel = f.IPRel /\ j.AddressSize = f.AddressSize
          /\ j.OperandSize = f.OperandSize /\ j.Prefixes = f.Prefixes /\ j.rex_b = f.rex_b
      BY OpcodeReadIs
    <2>. HIDE DEF j
    <2>. QED BY <1>2, <2>1
  <1>4. b \in X86_ModRM_2 <=> ModRMListed(2, b)
    BY DEF ModRMListed
  <1>5. b \in Byte /\ OpcodeIs(code, dwRet, n, 2, b)
    <2>1. At(code, dwRet + n) = \h0F
      BY AddressIsAt DEF NextByte
    <2>2. /\ b = At(code, dwRet + (n + 1)) /\ dwRet + (n + 1) \in Nat
          /\ dwRet + n + 2 - 1 = dwRet + (n + 1)
      BY <1>1, <1>2, AddressIsAt DEF NextByte
    <2>. QED BY <2>1, <2>2, AtIsByte DEF OpcodeIs
  <1>6. j.modrm_b = IF ModRMListed(2, b) THEN At(code, dwRet + n + 2) ELSE 0
    <2>1. Address((n + 1) + 1) = At(code, dwRet + ((n + 1) + 1))
      BY AddressIsAt, Zenon
    <2>. HIDE DEF n, j
    <2>2. dwRet + ((n + 1) + 1) = dwRet + n + 2
      BY <1>1
    <2>. QED BY <1>3, <1>4, <2>1, <2>2
  <1>7. j.modrm_b \in Byte
    <2>1. dwRet + n + 2 \in Nat /\ 0 \in Byte
      BY <1>1 DEF Byte
    <2>. QED BY <1>6, <2>1, AtIsByte
  <1>8. \/ x = Extended(j, e)
        \/ /\ x = SSEOpcode(j, b) /\ SSE_Prefix(f) # 0 /\ X86_SSE[\h66][b].kind # "invalid"
    <2>1. ~ Accepted([j EXCEPT !.Opcode = Invalid])
      BY <1>3 DEF Accepted, Invalid, Entry, IsInstruction, Fields
    <2>. HIDE DEF j, e
    <2>. QED BY <2>1, Zenon DEF TwoByteOpcode, j, e
  <1>9. SSE_Prefix(f) = p
    <2>. HIDE DEF j
    <2>. QED BY <1>2, <1>3 DEF SSE_Prefix
  <1>. HIDE DEF j, e, x, p, n
  <1>10. CASE x = Extended(j, e)
    <2>1. Leads(j, x, Resolved(e, j.modrm_b, k), Whole(e, j.modrm_b))
      BY <1>3, <1>10, ExtendedIs
    <2>2. /\ x.Opcode = Resolved(e, j.modrm_b, k) /\ x.OperandSize = i.OperandSize
          /\ IsInstruction(x) /\ x.IPRel = {} /\ x.AddressSize = i.AddressSize
          /\ x.HasModRM = (b \in X86_ModRM_2) /\ x.modrm_b = j.modrm_b
          /\ x.Length = WholeLength(j, x.Opcode, Whole(e, j.modrm_b))
      BY <1>3, <2>1 DEF Leads, SameBytes
    <2>3. /\ Sound(2, b, x.modrm_b, Whole(e, j.modrm_b), x.Opcode)
          /\ Whole(e, j.modrm_b) \in {0, 1}
      <3>1. SoundEntry(2, b, e)
        BY <1>5, TwoByteTable DEF e
      <3>2. k \in {0, 1}
        OBVIOUS
      <3>. HIDE DEF k
      <3>3. Sound(2, b, j.modrm_b, Whole(e, j.modrm_b), Resolved(e, j.modrm_b, k))
        BY <1>7, <3>1, <3>2, Zenon DEF SoundEntry
      <3>4. Whole(e, j.modrm_b) \in {0, 1}
        BY DEF Whole
      <3>. QED BY <2>2, <3>3, <3>4
    <2>4. x.Length = n + 2 + (IF x.Opcode.kind = "op" /\ x.Opcode.args = <<>>
                              THEN Whole(e, j.modrm_b) ELSE 0)
      BY <1>1, <1>3, <2>2 DEF WholeLength, Whole
    <2>5. /\ x.OperandSize \in Sizes
          /\ x.OperandSize = OperandSizeOf(arch, code, dwRet, n)
          /\ x.OperandSize = 8 => LastIsWide(arch, code, dwRet, n)
      BY <2>2, OperandSizes DEF OpcodePhase, n
    <2>6. x.AddressSize = AddressSizeOf(arch, code, dwRet, n)
      BY <2>2 DEF OpcodePhase, PrefixesRead, n
    <2>7. x.HasModRM <=> ModRMListed(2, b)
      BY <1>4, <2>2
    <2>8. x.modrm_b = IF ModRMListed(2, b) THEN At(code, dwRet + n + 2) ELSE 0
      BY <1>6, <2>2
    <2>9. FoundFrom(arch, code, dwRet, n, 2, b, Whole(e, j.modrm_b), x)
      BY <1>5, <2>2, <2>3, <2>4, <2>5, <2>6, <2>7, <2>8, Zenon DEF FoundFrom
    <2>. QED BY <2>9, FoundOpcode DEF n, x
  <1>11. CASE x = SSEOpcode(j, b) /\ SSE_Prefix(f) # 0 /\ X86_SSE[\h66][b].kind # "invalid"
    <2>1. p \in SSEPrefixes
      BY <1>1, <1>3, <1>9, <1>11, SSEPrefixIs DEF p
    <2>. DEFINE y == X86_SSE[p][b]
    <2>2. /\ SameBytes(j, x) /\ x.Opcode = Resolved(y, j.modrm_b, 0)
          /\ x.Length = j.Length /\ Whole(y, j.modrm_b) = 0
          /\ x.OperandSize = IF p # \h66 THEN j.OperandSize ELSE IF RexW(j) THEN 8 ELSE 4
      BY <1>3, <1>5, <1>7, <1>11, <2>1, SSEOpcodeIs DEF p
    <2>3. SoundEntry(2, b, y) /\ b \notin \h80..\h8F
      <3>1. SoundEntry(2, b, y)
        BY <1>5, <2>1, MediaTable DEF SSEPrefixes
      <3>2. b \in \h80..\h8F => X86_SSE[\h66][b].kind = "invalid"
        BY <1>5, MediaTable
      <3>. QED BY <1>11, <3>1, <3>2
    <2>. HIDE DEF y
    <2>4. Sound(2, b, x.modrm_b, 0, x.Opcode)
      <3>1. 0 \in {0, 1}
        OBVIOUS
      <3>2. Sound(2, b, j.modrm_b, Whole(y, j.modrm_b), Resolved(y, j.modrm_b, 0))
        BY <1>7, <2>3, <3>1, Zenon DEF SoundEntry
      <3>. QED BY <2>2, <3>2 DEF SameBytes
    <2>5. /\ x.OperandSize \in Sizes
          /\ x.OperandSize = 8 => LastIsWide(arch, code, dwRet, n)
      <3>1. RexW(j) => LastIsWide(arch, code, dwRet, n)
        BY <1>3 DEF OpcodePhase, RexW, n
      <3>2. /\ j.OperandSize \in Sizes
            /\ j.OperandSize = 8 => LastIsWide(arch, code, dwRet, n)
        BY <1>3, OperandSizes DEF OpcodePhase, n
      <3>. QED BY <2>2, <3>1, <3>2 DEF Sizes
    <2>6. x.AddressSize = AddressSizeOf(arch, code, dwRet, n)
      BY <1>3, <2>2 DEF SameBytes, OpcodePhase, PrefixesRead, n
    <2>7. x.HasModRM <=> ModRMListed(2, b)
      BY <1>3, <1>4, <2>2 DEF SameBytes
    <2>8. x.modrm_b = IF ModRMListed(2, b) THEN At(code, dwRet + n + 2) ELSE 0
      BY <1>6, <2>2 DEF SameBytes
    <2>9. x.Length = n + 2 + (IF x.Opcode.kind = "op" /\ x.Opcode.args = <<>> THEN 0 ELSE 0)
      BY <1>1, <1>3, <2>2
    <2>10. IsInstruction(x) /\ x.IPRel = {}
      BY <1>3, <2>2 DEF SameBytes
    <2>11. FoundFrom(arch, code, dwRet, n, 2, b, 0, x)
      BY <1>5, <2>3, <2>4, <2>5, <2>6, <2>7, <2>8, <2>9, <2>10 DEF FoundFrom
    <2>. QED BY <2>11, FoundOpcode DEF n, x
  <1>. QED BY <1>8, <1>10, <1>11 DEF x

------------------------------------------------------------------------------
(***************************************************************************)
(* The operands.                                                           *)
(***************************************************************************)
\* What an operand in memory adds to the length, and whether operand k is
\* relative to the next instruction.
MemoryIn(i, k, from) ==
    IF k <= Len(i.Opcode.args) /\ i.Opcode.args[k].mode \in InMemory
    THEN MemoryOf(i.modrm_b, Address(from + 1), i.AddressSize) ELSE 0
RelativeIn(i, k) ==
    /\ k <= Len(i.Opcode.args)
    /\ \/ i.Opcode.args[k].mode = "J"
       \/ i.Opcode.args[k].mode \in InMemory /\ RipRelative(i)

SameOpcode(i, j) ==
    /\ IsInstruction(j) /\ j.Opcode = i.Opcode
    /\ j.OperandSize = i.OperandSize /\ j.AddressSize = i.AddressSize
    /\ j.HasModRM = i.HasModRM /\ j.modrm_b = i.modrm_b
OperandSet(i, j, k, from) ==
    /\ SameOpcode(i, j)
    /\ j.Length = i.Length + BytesOf(i.Opcode.args, k, i.OperandSize, i.AddressSize)
                  + MemoryIn(i, k, from)
    /\ j.IPRel = IF RelativeIn(i, k) THEN i.IPRel \cup {k} ELSE i.IPRel

MemorySet(i, j, k, from) ==
    /\ SameOpcode(i, j)
    /\ j.Length = i.Length + MemoryOf(i.modrm_b, Address(from + 1), i.AddressSize)
    /\ j.IPRel = IF RipRelative(i) THEN i.IPRel \cup {k} ELSE i.IPRel

\* The bytes behind the ModRM byte are counted as the manuals count them.
LEMMA MemoryRead ==
    ASSUME NEW i, IsInstruction(i), i.modrm_b \in Byte, NEW arg, NEW k, NEW from
    PROVE  MemorySet(i, SetModRM(i, arg, k, from), k, from)
  <1>. DEFINE m == i.modrm_b
              s == Address(from + 1)
              sib == IF i.AddressSize # 2 /\ HasSIB(i) THEN 1 ELSE 0
              size == IF i.AddressSize = 2 THEN DisplacementSize16(i) ELSE DisplacementSize32(i, s)
              j == SetModRM(i, arg, k, from)
  <1>. SUFFICES /\ SameOpcode(i, j)
                /\ j.Length = i.Length + MemoryOf(m, s, i.AddressSize)
                /\ j.IPRel = IF RipRelative(i) THEN i.IPRel \cup {k} ELSE i.IPRel
    BY DEF MemorySet
  <1>1. m \div 64 \in 0..3 /\ Mod(i) = m \div 64 /\ Rm(i) = m % 8
    BY ModIsSmall DEF Mod, Rm
  <1>2. CASE Mod(i) = 3
    <2>1. j = i
      BY <1>2 DEF SetModRM
    <2>2. MemoryOf(m, s, i.AddressSize) = 0 /\ ~ RipRelative(i)
      BY <1>1, <1>2 DEF MemoryOf, RipRelative
    <2>. QED BY <2>1, <2>2 DEF SameOpcode, IsInstruction
  <1>3. CASE Mod(i) # 3
    <2>. DEFINE d == i.HasDstAddressing \/ arg.dst
                r == IF RipRelative(i) THEN i.IPRel \cup {k} ELSE i.IPRel
                o == IF size > 0 THEN from + 1 + sib ELSE i.DisplacementAt
    <2>1. j = [i EXCEPT !.Length = @ + sib + size, !.HasDstAddressing = d, !.IPRel = r,
                        !.DisplacementAt = o]
      BY <1>3, Zenon DEF SetModRM
    <2>2. sib \in Nat /\ size \in Nat /\ sib + size = MemoryOf(m, s, i.AddressSize)
      <3>1. size = DisplacementOf(m, s, i.AddressSize)
        <4>1. CASE i.AddressSize = 2
          <5>1. size = DisplacementSize16(i)
            BY <4>1
          <5>. QED BY <1>1, <1>3, <4>1, <5>1 DEF DisplacementSize16, DisplacementOf
        <4>2. CASE i.AddressSize # 2
          <5>1. size = DisplacementSize32(i, s) /\ (HasSIB(i) <=> m % 8 = 4)
            BY <1>1, <1>3, <4>2 DEF HasSIB
          <5>. HIDE DEF size, s
          <5>. QED BY <1>1, <1>3, <4>2, <5>1 DEF DisplacementSize32, DisplacementOf
        <4>. QED BY <4>1, <4>2
      <3>2. sib = IF i.AddressSize # 2 /\ m % 8 = 4 THEN 1 ELSE 0
        BY <1>1, <1>3 DEF HasSIB
      <3>3. MemoryOf(m, s, i.AddressSize) =
              (IF i.AddressSize # 2 /\ m % 8 = 4 THEN 1 ELSE 0) + DisplacementOf(m, s, i.AddressSize)
        BY <1>1, <1>3 DEF MemoryOf
      <3>. HIDE DEF sib, size, s
      <3>. QED BY <3>1, <3>2, <3>3, MemoryOfIsSmall
    <2>. HIDE DEF d, r, o, sib, size
    <2>3. /\ j.Length = i.Length + sib + size /\ j.IPRel = r
          /\ IsInstruction(j) /\ j.Opcode = i.Opcode
          /\ j.OperandSize = i.OperandSize /\ j.AddressSize = i.AddressSize
          /\ j.HasModRM = i.HasModRM /\ j.modrm_b = i.modrm_b
      BY <2>1, <2>2 DEF IsInstruction, Fields
    <2>4. j.Length = i.Length + MemoryOf(m, s, i.AddressSize)
      BY <2>2, <2>3 DEF IsInstruction
    <2>. QED BY <2>3, <2>4 DEF SameOpcode, r
  <1>. QED BY <1>2, <1>3

\* One operand is set.
LEMMA OperandRead ==
    ASSUME NEW i, IsInstruction(i), i.modrm_b \in Byte, Len(i.Opcode.args) \in Nat,
           NEW k \in 1..3, NEW from
    PROVE  OperandSet(i, SetOperand(i, k, from), k, from)
  <1>. DEFINE arg == i.Opcode.args[k]
              os == i.OperandSize
              as == i.AddressSize
              j == SetOperand(i, k, from)
              n == i.Length
              size == ImmediateSize(i, arg.size)
  <1>. SUFFICES OperandSet(i, j, k, from)
    OBVIOUS
  <1>. USE DEF OperandSet
  <1>0. n \in Nat /\ os \in Nat /\ as \in Nat
    BY DEF IsInstruction
  <1>1. CASE ~ (k <= Len(i.Opcode.args))
    <2>1. j = i /\ BytesOf(i.Opcode.args, k, os, as) = 0 /\ MemoryIn(i, k, from) = 0
          /\ ~ RelativeIn(i, k)
      BY <1>1 DEF SetOperand, BytesOf, MemoryIn, RelativeIn
    <2>. QED BY <1>0, <2>1 DEF SameOpcode
  <1>. DEFINE inside == k <= Len(i.Opcode.args)
  <1>2. CASE inside /\ arg.mode \in InMemory
    <2>1. j = SetModRM(i, arg, k, from)
      BY <1>2 DEF SetOperand, InMemory
    <2>2. BytesOf(i.Opcode.args, k, os, as) = 0
      BY <1>2 DEF BytesOf, OperandBytes, InMemory
    <2>3. MemoryIn(i, k, from) = MemoryOf(i.modrm_b, Address(from + 1), as)
      BY <1>2 DEF MemoryIn
    <2>4. RelativeIn(i, k) <=> RipRelative(i)
      BY <1>2 DEF RelativeIn, InMemory
    <2>. HIDE DEF j
    <2>5. MemorySet(i, j, k, from)
      BY <2>1, MemoryRead
    <2>. QED BY <1>0, <2>2, <2>3, <2>4, <2>5, MemoryOfIsSmall DEF MemorySet
  <1>3. arg.mode \in {"I", "J"} => size = OperandBytes(arg, os, as) /\ size \in Nat
    BY <1>0 DEF ImmediateSize, OperandBytes
  <1>4. CASE inside /\ arg.mode = "I"
    <2>1. j = [i EXCEPT !.Length = @ + size]
      BY <1>4 DEF SetOperand
    <2>2. BytesOf(i.Opcode.args, k, os, as) = size /\ size \in Nat
      BY <1>3, <1>4 DEF BytesOf
    <2>3. MemoryIn(i, k, from) = 0 /\ ~ RelativeIn(i, k)
      BY <1>4 DEF MemoryIn, RelativeIn, InMemory
    <2>. HIDE DEF size
    <2>4. SameOpcode(i, j) /\ j.Length = n + size /\ j.IPRel = i.IPRel
      BY <1>0, <2>1, <2>2 DEF SameOpcode, IsInstruction, Fields
    <2>. HIDE DEF j
    <2>. QED BY <1>0, <2>2, <2>3, <2>4
  <1>5. CASE inside /\ arg.mode = "J"
    <2>1. j = [i EXCEPT !.Length = @ + size, !.IPRel = @ \cup {k}]
      BY <1>5 DEF SetOperand
    <2>2. BytesOf(i.Opcode.args, k, os, as) = size /\ size \in Nat
      BY <1>3, <1>5 DEF BytesOf
    <2>3. MemoryIn(i, k, from) = 0 /\ RelativeIn(i, k)
      BY <1>5 DEF MemoryIn, RelativeIn, InMemory
    <2>. HIDE DEF size
    <2>4. SameOpcode(i, j) /\ j.Length = n + size /\ j.IPRel = i.IPRel \cup {k}
      BY <1>0, <2>1, <2>2 DEF SameOpcode, IsInstruction, Fields
    <2>. HIDE DEF j
    <2>. QED BY <1>0, <2>2, <2>3, <2>4
  <1>6. CASE inside /\ arg.mode = "O"
    <2>1. j = [i EXCEPT !.Length = @ + as]
      BY <1>6 DEF SetOperand
    <2>2. BytesOf(i.Opcode.args, k, os, as) = as
      BY <1>6 DEF BytesOf, OperandBytes
    <2>3. MemoryIn(i, k, from) = 0 /\ ~ RelativeIn(i, k)
      BY <1>6 DEF MemoryIn, RelativeIn, InMemory
    <2>4. SameOpcode(i, j) /\ j.Length = n + as /\ j.IPRel = i.IPRel
      BY <1>0, <2>1 DEF SameOpcode, IsInstruction, Fields
    <2>. HIDE DEF j
    <2>. QED BY <1>0, <2>2, <2>3, <2>4
  <1>7. CASE inside /\ arg.mode = "A"
    <2>. DEFINE far == IF os = 2 THEN 4 ELSE 6
    <2>1. j = [i EXCEPT !.Length = @ + far]
      BY <1>7 DEF SetOperand
    <2>2. BytesOf(i.Opcode.args, k, os, as) = far /\ far \in Nat
      BY <1>7 DEF BytesOf, OperandBytes
    <2>3. MemoryIn(i, k, from) = 0 /\ ~ RelativeIn(i, k)
      BY <1>7 DEF MemoryIn, RelativeIn, InMemory
    <2>. HIDE DEF far
    <2>4. SameOpcode(i, j) /\ j.Length = n + far /\ j.IPRel = i.IPRel
      BY <1>0, <2>1, <2>2 DEF SameOpcode, IsInstruction, Fields
    <2>. HIDE DEF j
    <2>. QED BY <1>0, <2>2, <2>3, <2>4
  <1>8. CASE inside /\ arg.mode \notin InMemory \cup {"I", "J", "O", "A"}
    <2>1. j = i
      BY <1>8 DEF SetOperand, InMemory
    <2>2. BytesOf(i.Opcode.args, k, os, as) = 0
      BY <1>8 DEF BytesOf, OperandBytes
    <2>3. MemoryIn(i, k, from) = 0 /\ ~ RelativeIn(i, k)
      BY <1>8 DEF MemoryIn, RelativeIn
    <2>. QED BY <1>0, <2>1, <2>2, <2>3 DEF SameOpcode
  <1>. QED BY <1>1, <1>2, <1>4, <1>5, <1>6, <1>7, <1>8


\* What an operand adds does not depend on the bytes read for those before it.
LEMMA SameOperands ==
    ASSUME NEW i, NEW j, SameOpcode(i, j)
    PROVE  \A k, from : /\ MemoryIn(j, k, from) = MemoryIn(i, k, from)
                        /\ RelativeIn(j, k) <=> RelativeIn(i, k)
  BY DEF SameOpcode, MemoryIn, RelativeIn, RipRelative, Mod, Rm

\* The bytes of an operand are some number.
LEMMA OperandBytesAreNat ==
    ASSUME NEW os \in Nat, NEW as \in Nat, NEW args, NEW k
    PROVE  BytesOf(args, k, os, as) \in Nat
  <1>1. \A arg : OperandBytes(arg, os, as) \in Nat
    <2>. SUFFICES ASSUME NEW arg PROVE OperandBytes(arg, os, as) \in Nat
      OBVIOUS
    <2>1. CASE arg.mode \in {"I", "J"}
      <3>1. CASE arg.size = "b"
        BY <2>1, <3>1 DEF OperandBytes
      <3>2. CASE arg.size = "w"
        BY <2>1, <3>2 DEF OperandBytes
      <3>3. CASE arg.size = "z"
        BY <2>1, <3>3 DEF OperandBytes
      <3>4. CASE arg.size \notin {"b", "w", "z"}
        BY <2>1, <3>4 DEF OperandBytes
      <3>. QED BY <3>1, <3>2, <3>3, <3>4
    <2>2. CASE arg.mode = "O"
      BY <2>2 DEF OperandBytes
    <2>3. CASE arg.mode = "A"
      BY <2>3 DEF OperandBytes
    <2>4. CASE arg.mode \notin {"I", "J", "O", "A"}
      BY <2>4 DEF OperandBytes
    <2>. QED BY <2>1, <2>2, <2>3, <2>4
  <1>. QED BY <1>1 DEF BytesOf

\* The bytes of all operands, and whether one of them is relative.
MemoryBytesOf(i, from) == MemoryIn(i, 1, from) + MemoryIn(i, 2, from) + MemoryIn(i, 3, from)
OperandsSet(i, j, from) ==
    /\ IsInstruction(j) /\ j.Opcode = i.Opcode /\ j.OperandSize = i.OperandSize
    /\ j.Length = i.Length + (IF i.HasModRM THEN 1 ELSE 0)
                  + Bytes(i.Opcode.args, i.OperandSize, i.AddressSize) + MemoryBytesOf(i, from)
    /\ j.IPRel # {} <=> \E k \in 1..3 : RelativeIn(i, k)

\* So are those of an operand in memory.
LEMMA MemoryInIsNat == \A i, k, from : MemoryIn(i, k, from) \in Nat
  <1>1. \A m, s, as : MemoryOf(m, s, as) \in Nat
    <2>1. 0..5 \subseteq Nat
      OBVIOUS
    <2>. QED BY <2>1, MemoryOfIsSmall, Zenon
  <1>. QED BY <1>1 DEF MemoryIn

\* An operand is set as if it were the only one.
OperandAlso(i, j, x, k, from) ==
    /\ SameOpcode(i, x)
    /\ x.Length = j.Length + BytesOf(i.Opcode.args, k, i.OperandSize, i.AddressSize)
                  + MemoryIn(i, k, from)
    /\ x.IPRel = IF RelativeIn(i, k) THEN j.IPRel \cup {k} ELSE j.IPRel

\* Setting the operands before it has changed nothing an operand depends on.
LEMMA OperandOfSame ==
    ASSUME NEW i, NEW j, SameOpcode(i, j), i.modrm_b \in Byte, Len(i.Opcode.args) \in Nat,
           NEW k \in 1..3, NEW from
    PROVE  OperandAlso(i, j, SetOperand(j, k, from), k, from)
  <1>. DEFINE x == SetOperand(j, k, from)
  <1>1. OperandSet(j, x, k, from)
    BY OperandRead DEF SameOpcode
  <1>2. MemoryIn(j, k, from) = MemoryIn(i, k, from) /\ (RelativeIn(j, k) <=> RelativeIn(i, k))
    BY SameOperands
  <1>. HIDE DEF x
  <1>3. SameOpcode(i, x)
    BY <1>1 DEF OperandSet, SameOpcode
  <1>4. /\ j.Opcode = i.Opcode
        /\ j.OperandSize = i.OperandSize /\ j.AddressSize = i.AddressSize
    BY DEF SameOpcode
  <1>5. x.Length = j.Length + BytesOf(i.Opcode.args, k, i.OperandSize, i.AddressSize)
                   + MemoryIn(i, k, from)
    BY <1>1, <1>2, <1>4, Zenon DEF OperandSet
  <1>6. x.IPRel = IF RelativeIn(i, k) THEN j.IPRel \cup {k} ELSE j.IPRel
    <2>1. CASE RelativeIn(i, k)
      BY <1>1, <1>2, <2>1 DEF OperandSet
    <2>2. CASE ~ RelativeIn(i, k)
      BY <1>1, <1>2, <2>2 DEF OperandSet
    <2>. QED BY <2>1, <2>2
  <1>. QED BY <1>3, <1>5, <1>6 DEF x, OperandAlso

\* All operands are set.
LEMMA OperandsRead ==
    ASSUME NEW i, IsInstruction(i), i.modrm_b \in Byte, Len(i.Opcode.args) \in Nat,
           i.IPRel = {}, NEW from
    PROVE  OperandsSet(i, SetOperands(i, from), from)
  <1>. DEFINE m == [i EXCEPT !.Length = IF i.HasModRM THEN @ + 1 ELSE @]
              x1 == SetOperand(m, 1, from)
              x2 == SetOperand(x1, 2, from)
              x3 == SetOperand(x2, 3, from)
              B(k) == BytesOf(i.Opcode.args, k, i.OperandSize, i.AddressSize)
              M(k) == MemoryIn(i, k, from)
              R(k) == RelativeIn(i, k)
              one == IF i.HasModRM THEN 1 ELSE 0
  <1>1. SetOperands(i, from) = x3
    BY Zenon DEF SetOperands
  <1>2. SameOpcode(i, m) /\ m.Length = i.Length + one /\ m.IPRel = {}
    BY DEF SameOpcode, IsInstruction, Fields
  <1>. HIDE DEF m
  <1>3. OperandAlso(i, m, x1, 1, from)
    BY <1>2, OperandOfSame
  <1>. HIDE DEF x1
  <1>4. OperandAlso(i, x1, x2, 2, from)
    <2>1. SameOpcode(i, x1)
      BY <1>3 DEF OperandAlso
    <2>. QED BY <2>1, OperandOfSame
  <1>. HIDE DEF x2
  <1>5. OperandAlso(i, x2, x3, 3, from)
    <2>1. SameOpcode(i, x2)
      BY <1>4 DEF OperandAlso
    <2>. QED BY <2>1, OperandOfSame
  <1>. HIDE DEF x3
  <1>10. x3.Length = i.Length + one + (B(1) + B(2) + B(3)) + (M(1) + M(2) + M(3))
    <2>1. B(1) \in Nat /\ B(2) \in Nat /\ B(3) \in Nat
      BY OperandBytesAreNat DEF IsInstruction
    <2>2. M(1) \in Nat /\ M(2) \in Nat /\ M(3) \in Nat
      BY MemoryInIsNat
    <2>3. i.Length \in Nat /\ one \in Nat
      BY DEF IsInstruction
    <2>4. /\ x1.Length = m.Length + B(1) + M(1)
          /\ x2.Length = x1.Length + B(2) + M(2)
          /\ x3.Length = x2.Length + B(3) + M(3)
      BY <1>3, <1>4, <1>5, Zenon DEF OperandAlso
    <2>. HIDE DEF B, M, R, one
    <2>. DEFINE b1 == B(1)   b2 == B(2)   b3 == B(3)
                m1 == M(1)   m2 == M(2)   m3 == M(3)
                l == i.Length
                y0 == m.Length   y1 == x1.Length   y2 == x2.Length   y3 == x3.Length
    <2>5. y0 = l + one /\ y1 = y0 + b1 + m1 /\ y2 = y1 + b2 + m2 /\ y3 = y2 + b3 + m3
      BY <1>2, <2>4
    <2>6. /\ b1 \in Nat /\ b2 \in Nat /\ b3 \in Nat /\ m1 \in Nat /\ m2 \in Nat /\ m3 \in Nat
          /\ l \in Nat /\ one \in Nat
      BY <2>1, <2>2, <2>3
    <2>. SUFFICES y3 = l + one + (b1 + b2 + b3) + (m1 + m2 + m3)
      OBVIOUS
    <2>. HIDE DEF b1, b2, b3, m1, m2, m3, l, y0, y1, y2, y3
    <2>7. y0 = l + one /\ y0 \in Nat
      BY <2>5, <2>6
    <2>8. y1 = l + one + (b1 + m1) /\ y1 \in Nat
      BY <2>5, <2>6, <2>7
    <2>9. y2 = l + one + (b1 + b2) + (m1 + m2) /\ y2 \in Nat
      BY <2>5, <2>6, <2>8
    <2>10. y3 = y2 + b3 + m3
      BY <2>5
    <2>. QED BY <2>6, <2>9, <2>10
  <1>11. x3.IPRel # {} <=> \E k \in 1..3 : R(k)
    <2>1. x3.IPRel # {} <=> R(1) \/ R(2) \/ R(3)
      <3>1. /\ x1.IPRel = IF R(1) THEN m.IPRel \cup {1} ELSE m.IPRel
            /\ x2.IPRel = IF R(2) THEN x1.IPRel \cup {2} ELSE x1.IPRel
            /\ x3.IPRel = IF R(3) THEN x2.IPRel \cup {3} ELSE x2.IPRel
        BY <1>3, <1>4, <1>5, Zenon DEF OperandAlso
      <3>. HIDE DEF B, M, R
      <3>. QED BY <1>2, <3>1
    <2>. HIDE DEF R
    <2>. QED BY <2>1
  <1>12. OperandsSet(i, x3, from)
    BY <1>5, <1>10, <1>11 DEF OperandAlso, OperandsSet, SameOpcode, MemoryBytesOf, Bytes
  <1>. QED BY <1>1, <1>12

\* Where the operands are says what they add: one operand in memory, or none.
LEMMA OneInMemory ==
    ASSUME NEW i, Len(i.Opcode.args) \in 1..3, OneMemory(i.Opcode.args), NEW from
    PROVE  /\ MemoryBytesOf(i, from) = MemoryOf(i.modrm_b, Address(from + 1), i.AddressSize)
           /\ NoJump(i.Opcode.args) =>
                 ((\E k \in 1..3 : RelativeIn(i, k)) <=> RipRelative(i))
  <1>. DEFINE args == i.Opcode.args
              M(k) == MemoryIn(i, k, from)
              d == MemoryOf(i.modrm_b, Address(from + 1), i.AddressSize)
  <1>1. PICK k \in 1..Len(args) :
            /\ args[k].mode \in InMemory
            /\ \A l \in 1..Len(args) : l # k => args[l].mode \notin InMemory
    BY Zenon DEF OneMemory
  <1>2. k \in 1..3 /\ Len(args) \in 1..3
    <2>. DEFINE L == Len(args)
    <2>1. L \in 1..3 /\ k \in 1..L
      OBVIOUS
    <2>. HIDE DEF L
    <2>2. k \in 1..3
      BY <2>1
    <2>. QED BY <2>1, <2>2 DEF L
  <1>3. M(k) = d
    BY <1>1 DEF MemoryIn
  <1>4. \A l \in 1..3 : l # k => M(l) = 0
    BY <1>1 DEF MemoryIn
  <1>5. MemoryBytesOf(i, from) = M(1) + M(2) + M(3)
    BY DEF MemoryBytesOf
  <1>6. d \in Nat
    BY MemoryOfIsSmall
  <1>7. MemoryBytesOf(i, from) = d
    <2>. HIDE DEF M, d
    <2>. QED BY <1>2, <1>3, <1>4, <1>5, <1>6
  <1>8. ASSUME NoJump(args) PROVE (\E l \in 1..3 : RelativeIn(i, l)) <=> RipRelative(i)
    <2>1. \A l \in 1..3 : RelativeIn(i, l) => RipRelative(i)
      BY <1>8 DEF RelativeIn, NoJump
    <2>2. RipRelative(i) => RelativeIn(i, k)
      BY <1>1 DEF RelativeIn
    <2>. QED BY <1>2, <2>1, <2>2
  <1>. QED BY <1>7, <1>8

\* Without an operand in memory nothing is behind the ModRM byte.
LEMMA NoneInMemory ==
    ASSUME NEW i, Len(i.Opcode.args) \in 1..3, NoMemory(i.Opcode.args), NEW from
    PROVE  /\ MemoryBytesOf(i, from) = 0
           /\ NoJump(i.Opcode.args) => ~ \E k \in 1..3 : RelativeIn(i, k)
  <1>1. \A k \in 1..3 : MemoryIn(i, k, from) = 0
    BY DEF MemoryIn, NoMemory
  <1>2. MemoryBytesOf(i, from) = 0
    BY <1>1 DEF MemoryBytesOf
  <1>3. ASSUME NoJump(i.Opcode.args) PROVE \A k \in 1..3 : ~ RelativeIn(i, k)
    BY <1>3 DEF RelativeIn, NoMemory, NoJump
  <1>. QED BY <1>2, <1>3

\* An operand that has to be in a register is refused in memory.
LEMMA RegisterIsMod3 ==
    ASSUME NEW i, RegisterOnly(i.Opcode.args), ~ Refused(i)
    PROVE  Mod(i) = 3
  BY DEF RegisterOnly, Refused, Illegal, InRegister

------------------------------------------------------------------------------
(***************************************************************************)
(* The decoded instruction.  "Found" is what is known of it when its       *)
(* operands are read; it is "regular" if its prefixes are the manuals'.    *)
(***************************************************************************)
Found(i, n, size, b, whole) ==
    /\ arch \in {32, 64} /\ code \in Seq(Byte) /\ dwRet \in Nat
    /\ n \in Nat /\ size \in {1, 2} /\ b \in Byte /\ whole \in {0, 1}
    /\ OpcodeFound(arch, code, dwRet, i, n, size, b, whole)
    /\ i.Opcode.kind = "op"
Regular(n) == At(code, dwRet + n) \notin Leading(arch)
ModRMByte(n, size) == At(code, dwRet + n + size)

\* The entry's ModRM byte is as good as the manuals'.
ByManual(i, n, size, b, m) ==
    /\ m \in Byte /\ i.modrm_b \in Byte
    /\ ModRMListed(size, b) => i.modrm_b = m
    /\ ImmediateClass(size, b, i.modrm_b) = ImmediateClass(size, b, m)
    /\ IsTransfer(size, b, i.modrm_b) <=> IsTransfer(size, b, m)
    /\ IsMiscounted(size, b, i.modrm_b) <=> IsMiscounted(size, b, m)

\* Where there is no ModRM byte it decides nothing, where there is one it is the
\* same.
LEMMA ModRMByManual ==
    ASSUME NEW i, NEW n, NEW size, NEW b, NEW whole, Found(i, n, size, b, whole)
    PROVE  ByManual(i, n, size, b, ModRMByte(n, size))
  <1>. DEFINE m == ModRMByte(n, size)
  <1>1. m \in Byte
    <2>1. dwRet + n + size \in Nat
      BY DEF Found
    <2>. QED BY <2>1, AtIsByte DEF Found, ModRMByte
  <1>2. i.modrm_b = IF ModRMListed(size, b) THEN m ELSE 0
    BY DEF Found, OpcodeFound, ModRMByte
  <1>3. 0 \in Byte /\ size \in {1, 2} /\ b \in Byte
    BY DEF Found, Byte
  <1>. HIDE DEF m
  <1>4. CASE ModRMListed(size, b)
    BY <1>1, <1>2, <1>4 DEF ByManual, m
  <1>5. CASE ~ ModRMListed(size, b)
    <2>1. i.modrm_b \in Byte
      BY <1>2, <1>3, <1>5
    <2>. HIDE DEF Found
    <2>2. /\ ImmediateClass(size, b, i.modrm_b) = ImmediateClass(size, b, m)
          /\ IsTransfer(size, b, i.modrm_b) <=> IsTransfer(size, b, m)
          /\ IsMiscounted(size, b, i.modrm_b) <=> IsMiscounted(size, b, m)
      BY <1>3, <1>5, NoModRM
    <2>3. ByManual(i, n, size, b, m)
      BY <1>1, <1>5, <2>1, <2>2, Zenon DEF ByManual
    <2>. QED BY <2>3 DEF m
  <1>. QED BY <1>4, <1>5

\* The manuals' view of a regular instruction.
ManualView(i, n, size, b, m) ==
    /\ PrefixCount(arch, code, dwRet) = n
    /\ LeavesTheLine(arch, code, dwRet) <=> IsTransfer(size, b, m) \/ IsLoop(size, b)
    /\ LoopOrJcxz(arch, code, dwRet) <=> IsLoop(size, b)
    /\ IsMiscounted(size, b, m) <=> MiscountedAt(arch, code, dwRet)
    /\ IsRipRelative(arch, code, dwRet) <=>
           arch = 64 /\ HasModRMBy(size, b) /\ m \div 64 = 0 /\ m % 8 = 5
    /\ ManualLength(arch, code, dwRet) =
           n + size
           + (IF HasModRMBy(size, b)
              THEN 1 + MemoryOf(m, Address(n + size + 1), i.AddressSize) ELSE 0)
           + ClassBytes(ImmediateClass(size, b, m), OperandSizeOf(arch, code, dwRet, n),
                        i.AddressSize)

\* The manuals see the prefixes, the opcode and the ModRM byte the decoder has
\* found.
LEMMA RegularByManual ==
    ASSUME NEW i, NEW n, NEW size, NEW b, NEW whole, Found(i, n, size, b, whole), Regular(n)
    PROVE  ManualView(i, n, size, b, ModRMByte(n, size))
  <1>. DEFINE m == ModRMByte(n, size)
  <1>0. /\ arch \in {32, 64} /\ code \in Seq(Byte) /\ dwRet \in Nat /\ n \in Nat
        /\ size \in {1, 2} /\ OpcodeIs(code, dwRet, n, size, b)
        /\ PrefixesFirst(arch, code, dwRet, n) /\ NoPair(code, dwRet, n)
        /\ At(code, dwRet + n) \notin Leading(arch)
        /\ i.AddressSize = AddressSizeOf(arch, code, dwRet, n)
        /\ m = At(code, dwRet + n + size)
    BY DEF Found, OpcodeFound, Regular, ModRMByte
  <1>. HIDE DEF Found, m
  <1>1. PrefixCount(arch, code, dwRet) = n
    BY <1>0, PrefixesEndAt
  <1>2. /\ LeavesTheLine(arch, code, dwRet) <=> IsTransfer(size, b, m) \/ IsLoop(size, b)
        /\ LoopOrJcxz(arch, code, dwRet) <=> IsLoop(size, b)
        /\ IsMiscounted(size, b, m) => MiscountedAt(arch, code, dwRet)
        /\ IsRipRelative(arch, code, dwRet) <=>
               arch = 64 /\ HasModRMBy(size, b) /\ m \div 64 = 0 /\ m % 8 = 5
    BY <1>0, <1>1, ManualTransfers
  <1>3. ManualLength(arch, code, dwRet) =
            n + size
            + (IF HasModRMBy(size, b)
               THEN 1 + MemoryOf(m, At(code, dwRet + n + size + 1), i.AddressSize) ELSE 0)
            + ClassBytes(ImmediateClass(size, b, m), OperandSizeOf(arch, code, dwRet, n),
                         i.AddressSize)
    BY <1>0, ManualLengthIs
  <1>4. At(code, dwRet + n + size + 1) = Address(n + size + 1)
    <2>1. dwRet + n + size + 1 = dwRet + (n + size + 1)
      BY <1>0
    <2>. QED BY <2>1, AddressIsAt
  <1>5. ASSUME MiscountedAt(arch, code, dwRet) PROVE IsMiscounted(size, b, m)
    <2>. DEFINE op == OpcodeAt(arch, code, dwRet)
    <2>1. /\ TwoBytes(arch, code, dwRet) <=> size = 2
          /\ op = dwRet + n + size - 1 /\ At(code, op) = b
          /\ ModRMAt(arch, code, dwRet) = dwRet + n + size
      BY <1>0, <1>1, ManualOpcode
    <2>2. RegOf(arch, code, dwRet) = Extension(m)
      BY <1>0, <2>1 DEF RegOf, Extension
    <2>3. ASSUME NEW k \in dwRet..(op - 2), {At(code, k), At(code, k + 1)} \subseteq RexCodes
          PROVE  FALSE
      <3>. DEFINE j == k - dwRet
      <3>1. j \in Nat /\ j < n + size - 2 + 0 /\ k = dwRet + j /\ k + 1 = dwRet + (j + 1)
        <4>. HIDE DEF op
        <4>. QED BY <1>0, <2>1
      <3>2. At(code, dwRet + j) \in RexCodes /\ At(code, dwRet + (j + 1)) \in RexCodes
        BY <2>3, <3>1
      <3>. HIDE DEF j
      <3>3. CASE j \in 0..(n - 2)
        BY <1>0, <3>2, <3>3 DEF NoPair
      <3>4. CASE size = 2 /\ j + 1 = n
        <4>1. At(code, dwRet + n) = \h0F
          BY <1>0, <3>4 DEF OpcodeIs
        <4>2. \h0F \notin RexCodes
          BY DEF RexCodes
        <4>. QED BY <3>2, <3>4, <4>1, <4>2
      <3>. QED BY <1>0, <3>1, <3>3, <3>4
    <2>. HIDE DEF op
    <2>. QED BY <1>5, <2>1, <2>2, <2>3 DEF MiscountedAt, IsMiscounted, op
  <1>6. ManualView(i, n, size, b, m)
    BY <1>1, <1>2, <1>3, <1>4, <1>5, Zenon DEF ManualView
  <1>. QED BY <1>6 DEF m

\* The size the decoder takes for operands is the manuals' where it matters.
LEMMA SizeByManual ==
    ASSUME NEW i, NEW n, NEW size, NEW b, NEW whole, Found(i, n, size, b, whole), NEW m, NEW as
    PROVE  LET class == ImmediateClass(size, b, m)
           IN  ClassBytes(class, i.OperandSize, as)
                  = ClassBytes(class, OperandSizeOf(arch, code, dwRet, n), as)
  <1>. DEFINE os == OperandSizeOf(arch, code, dwRet, n)
  <1>1. i.OperandSize = os \/ (size = 2 /\ b \notin \h80..\h8F)
    BY DEF Found, OpcodeFound
  <1>. HIDE DEF os, Found
  <1>2. CASE size = 2 /\ b \notin \h80..\h8F
    <2>1. ImmediateClass(size, b, m) \in {"none", "b"}
      BY <1>2 DEF ImmediateClass, TwoByteClass
    <2>2. \A class \in {"none", "b"} : ClassBytes(class, i.OperandSize, as) = ClassBytes(class, os, as)
      BY DEF ClassBytes
    <2>. QED BY <2>1, <2>2, Zenon DEF os
  <1>. QED BY <1>1, <1>2 DEF os

\* No memory operand follows a ModRM byte that names a register.
LEMMA RegisterModRM ==
    ASSUME NEW m \in Byte, m >= \hC0
    PROVE  m \div 64 = 3 /\ \A s, as : MemoryOf(m, s, as) = 0
  <1>1. m \div 64 = 3
    BY DEF Byte
  <1>. QED BY <1>1 DEF MemoryOf

\* The instruction when its operands have been read.
AllRead(i) == IF i.Opcode.args = <<>> THEN i ELSE SetOperands(i, i.Length)

\* What a counted entry makes of a regular instruction.
Right(i, x) ==
    /\ x.Opcode = i.Opcode /\ x.OperandSize = i.OperandSize
    /\ x.Length = ManualLength(arch, code, dwRet)
    /\ IsRipRelative(arch, code, dwRet) => x.IPRel # {}
    /\ arch = 64 /\ i.Opcode.type \in {"mov", "lea"} /\ x.IPRel # {} =>
           IsRipRelative(arch, code, dwRet)

\* Without operands.
LEMMA RightWithout ==
    ASSUME NEW i, NEW n, NEW size, NEW b, NEW whole, Found(i, n, size, b, whole), Regular(n),
           Counted(size, b, i.modrm_b, whole, i.Opcode), i.Opcode.args = <<>>
    PROVE  Right(i, i)
  <1>. DEFINE m == ModRMByte(n, size)
  <1>1. /\ ByManual(i, n, size, b, m)
        /\ ManualView(i, n, size, b, m)
    BY ModRMByManual, RegularByManual
  <1>. HIDE DEF m
  <1>2. /\ ModRMListed(size, b) <=> HasModRMBy(size, b)
        /\ ImmediateClass(size, b, m) = "none"
        /\ ModRMListed(size, b) <=> whole = 1
        /\ whole = 1 => i.modrm_b >= \hC0
    BY <1>1 DEF Counted, ByManual
  <1>3. i.Length = n + size + whole /\ i.IPRel = {}
    BY DEF Found, OpcodeFound
  <1>4. n \in Nat /\ size \in {1, 2} /\ whole \in {0, 1}
    BY DEF Found
  <1>5. HasModRMBy(size, b) =>
          m \div 64 = 3 /\ MemoryOf(m, Address(n + size + 1), i.AddressSize) = 0
    BY <1>1, <1>2, RegisterModRM DEF ByManual
  <1>6. ManualLength(arch, code, dwRet) = n + size + (IF HasModRMBy(size, b) THEN 1 ELSE 0)
    <2>1. ClassBytes("none", OperandSizeOf(arch, code, dwRet, n), i.AddressSize) = 0
      BY Classes
    <2>2. CASE HasModRMBy(size, b)
      <3>1. ManualLength(arch, code, dwRet) = n + size + (1 + 0) + 0
        BY <1>1, <1>2, <1>5, <2>1, <2>2 DEF ManualView
      <3>. QED BY <1>4, <2>2, <3>1
    <2>3. CASE ~ HasModRMBy(size, b)
      <3>1. ManualLength(arch, code, dwRet) = n + size + 0 + 0
        BY <1>1, <1>2, <2>1, <2>3 DEF ManualView
      <3>. QED BY <1>4, <2>3, <3>1
    <2>. QED BY <2>2, <2>3
  <1>7. i.Length = ManualLength(arch, code, dwRet)
    BY <1>2, <1>3, <1>4, <1>6
  <1>8. ~ IsRipRelative(arch, code, dwRet)
    BY <1>1, <1>5 DEF ManualView
  <1>. QED BY <1>3, <1>7, <1>8 DEF Right

\* With operands: what is behind the opcode is what the manuals say.
LEMMA RightWith ==
    ASSUME NEW i, NEW n, NEW size, NEW b, NEW whole, Found(i, n, size, b, whole), Regular(n),
           Counted(size, b, i.modrm_b, whole, i.Opcode), i.Opcode.args # <<>>, ~ Refused(i)
    PROVE  Right(i, SetOperands(i, i.Length))
  <1>. DEFINE m == ModRMByte(n, size)
              x == SetOperands(i, i.Length)
              class == ImmediateClass(size, b, m)
              s == Address(i.Length + 1)
              d == MemoryOf(m, s, i.AddressSize)
              manual == OperandSizeOf(arch, code, dwRet, n)
              relative == \E k \in 1..3 : RelativeIn(i, k)
  <1>1. /\ ByManual(i, n, size, b, m)
        /\ ManualView(i, n, size, b, m)
    BY ModRMByManual, RegularByManual
  <1>2. ModRMListed(size, b) <=> HasModRMBy(size, b)
    BY DEF Counted
  <1>3. PICK place \in {"memory", "register", "none", "jump"} :
            /\ Shape(i.Opcode.args, place, ImmediateClass(size, b, i.modrm_b))
            /\ Places(place, ModRMListed(size, b), i.modrm_b)
            /\ place = "jump" => i.Opcode.type \notin {"mov", "lea"}
    BY Zenon DEF Counted
  <1>4. ImmediateClass(size, b, i.modrm_b) = class
    BY <1>1 DEF ByManual
  <1>5. /\ n \in Nat /\ size \in {1, 2} /\ i.Length = n + size /\ i.IPRel = {}
        /\ IsInstruction(i) /\ i.modrm_b \in Byte
        /\ i.HasModRM <=> ModRMListed(size, b)
        /\ i.OperandSize \in Sizes /\ i.AddressSize \in Sizes
    <2>1. i.AddressSize = AddressSizeOf(arch, code, dwRet, n)
      BY DEF Found, OpcodeFound
    <2>2. i.AddressSize \in Sizes
      BY <2>1 DEF AddressSizeOf, Sizes
    <2>3. whole \in {0, 1} /\ n \in Nat /\ size \in {1, 2}
      BY DEF Found
    <2>. QED BY <1>1, <2>2, <2>3 DEF Found, OpcodeFound, ByManual
  <1>6. /\ Len(i.Opcode.args) \in 1..3
        /\ Placed(i.Opcode.args, place)
        /\ Bytes(i.Opcode.args, i.OperandSize, i.AddressSize)
              = ClassBytes(class, manual, i.AddressSize)
    <2>1. Bytes(i.Opcode.args, i.OperandSize, i.AddressSize)
              = ClassBytes(class, i.OperandSize, i.AddressSize)
      BY <1>3, <1>4, <1>5 DEF Shape
    <2>2. ClassBytes(class, i.OperandSize, i.AddressSize)
              = ClassBytes(class, manual, i.AddressSize)
      BY SizeByManual
    <2>. QED BY <1>3, <2>1, <2>2 DEF Shape
  <1>7. OperandsSet(i, x, i.Length)
    <2>1. Len(i.Opcode.args) \in Nat
      BY <1>6
    <2>. QED BY <1>5, <2>1, OperandsRead
  <1>8. s = Address(n + size + 1)
    BY <1>5
  <1>. HIDE DEF m, x, class, s, manual
  <1>9. /\ MemoryBytesOf(i, i.Length) = IF HasModRMBy(size, b) THEN d ELSE 0
        /\ place # "jump" =>
             (relative <=> HasModRMBy(size, b) /\ arch = 64 /\ m \div 64 = 0 /\ m % 8 = 5)
        /\ place = "jump" => ~ HasModRMBy(size, b)
    <2>3. place = "jump" => ~ HasModRMBy(size, b)
      BY <1>2, <1>3 DEF Places
    <2>1. CASE place = "memory"
      <3>1. HasModRMBy(size, b) /\ i.modrm_b = m
        BY <1>1, <1>2, <1>3, <2>1 DEF Places, ByManual
      <3>2. OneMemory(i.Opcode.args) /\ NoJump(i.Opcode.args)
        BY <1>6, <2>1 DEF Placed
      <3>3. /\ MemoryBytesOf(i, i.Length) = MemoryOf(i.modrm_b, Address(i.Length + 1), i.AddressSize)
            /\ relative <=> RipRelative(i)
        BY <1>6, <3>2, OneInMemory
      <3>. QED BY <2>1, <3>1, <3>3 DEF RipRelative, Mod, Rm, IS_AMD64, s
    <2>2. CASE place # "memory"
      <3>1. NoMemory(i.Opcode.args)
        BY <1>6, <2>2 DEF Placed
      <3>2. MemoryBytesOf(i, i.Length) = 0 /\ (place # "jump" => ~ relative)
        <4>1. place # "jump" => NoJump(i.Opcode.args)
          BY <1>6, <2>2 DEF Placed
        <4>. QED BY <1>6, <3>1, <4>1, NoneInMemory
      <3>3. HasModRMBy(size, b) => m \div 64 = 3 /\ d = 0
        <4>. SUFFICES ASSUME HasModRMBy(size, b) PROVE m \div 64 = 3 /\ d = 0
          OBVIOUS
        <4>1. i.modrm_b = m /\ m \in Byte
          BY <1>1, <1>2 DEF ByManual
        <4>2. CASE place = "register"
          <5>1. RegisterOnly(i.Opcode.args)
            BY <1>6, <4>2 DEF Placed
          <5>2. m \div 64 = 3
            BY <4>1, <5>1, RegisterIsMod3 DEF Mod
          <5>. QED BY <5>2 DEF MemoryOf
        <4>3. CASE place # "register"
          <5>1. m >= \hC0
            BY <1>2, <1>3, <2>2, <4>1, <4>3 DEF Places
          <5>. QED BY <4>1, <5>1, RegisterModRM
        <4>. QED BY <4>2, <4>3
      <3>. HIDE DEF d, relative
      <3>4. HasModRMBy(size, b) => ~ (m \div 64 = 0)
        <4>1. 3 # 0
          OBVIOUS
        <4>. QED BY <3>3, <4>1, Zenon
      <3>5. MemoryBytesOf(i, i.Length) = IF HasModRMBy(size, b) THEN d ELSE 0
        <4>1. CASE HasModRMBy(size, b)
          BY <3>2, <3>3, <4>1, Zenon
        <4>2. CASE ~ HasModRMBy(size, b)
          BY <3>2, <4>2, Zenon
        <4>. QED BY <4>1, <4>2
      <3>. QED BY <2>2, <2>3, <3>2, <3>4, <3>5, Zenon
    <2>. QED BY <2>1, <2>2, <2>3, Zenon
  <1>10. x.Length = ManualLength(arch, code, dwRet)
    <2>. DEFINE bytes == ClassBytes(class, manual, i.AddressSize)
                one == IF HasModRMBy(size, b) THEN 1 ELSE 0
                memory == IF HasModRMBy(size, b) THEN d ELSE 0
    <2>1. x.Length = n + size + one + bytes + memory
      BY <1>2, <1>5, <1>6, <1>7, <1>9 DEF OperandsSet
    <2>2. ManualLength(arch, code, dwRet)
            = n + size + (IF HasModRMBy(size, b) THEN 1 + d ELSE 0) + bytes
      BY <1>1, <1>8 DEF ManualView, class, manual
    <2>3. d \in Nat /\ bytes \in Nat
      <3>1. bytes = BytesOf(i.Opcode.args, 1, i.OperandSize, i.AddressSize)
                  + BytesOf(i.Opcode.args, 2, i.OperandSize, i.AddressSize)
                  + BytesOf(i.Opcode.args, 3, i.OperandSize, i.AddressSize)
        BY <1>6 DEF Bytes
      <3>2. i.OperandSize \in Nat /\ i.AddressSize \in Nat
        BY <1>5 DEF IsInstruction
      <3>3. \A k : BytesOf(i.Opcode.args, k, i.OperandSize, i.AddressSize) \in Nat
        BY <3>2, OperandBytesAreNat
      <3>4. bytes \in Nat
        BY <3>1, <3>3
      <3>. QED BY <3>4, MemoryOfIsSmall
    <2>. HIDE DEF bytes, d
    <2>. QED BY <1>5, <2>1, <2>2, <2>3
  <1>11. x.IPRel # {} <=> relative
    BY <1>7 DEF OperandsSet
  <1>. HIDE DEF d, relative
  <1>12. /\ IsRipRelative(arch, code, dwRet) => x.IPRel # {}
         /\ arch = 64 /\ i.Opcode.type \in {"mov", "lea"} /\ x.IPRel # {} =>
               IsRipRelative(arch, code, dwRet)
    BY <1>1, <1>3, <1>9, <1>11 DEF ManualView
  <1>13. Right(i, x)
    BY <1>7, <1>10, <1>12 DEF Right, OperandsSet
  <1>. QED BY <1>13 DEF x

\* An instruction without a byte of its own left out of account, in what
\* DisassembleAndSkip asks of it: its length, whether it leads elsewhere, and
\* whether one of its operands is relative to the next instruction.
DecodedRight(a, c, at, i) ==
    /\ MiscountedAt(a, c, at) \/ i.Length = ManualLength(a, c, at)
    /\ LeavesTheLine(a, c, at) =>
           \/ MiscountedAt(a, c, at)
           \/ i.Opcode.type \in TransferTypes
           \/ LoopOrJcxz(a, c, at) /\ i.IPRel # {}
    /\ a = 64 /\ IsRipRelative(a, c, at) => MiscountedAt(a, c, at) \/ i.IPRel # {}
    /\ a = 64 /\ i.Opcode.type \in {"mov", "lea"} /\ i.OperandSize = 8 /\ i.IPRel # {} =>
           ~ MiscountedAt(a, c, at) /\ IsRipRelative(a, c, at) /\ i.Length >= 7

\* Reading the operands keeps the entry.
LEMMA OpcodeStays ==
    ASSUME NEW i, IsInstruction(i), NEW from
    PROVE  SetOperands(i, from).Opcode = i.Opcode
  <1>1. \A j, k : IsInstruction(j) => SetOperand(j, k, from).Opcode = j.Opcode
    <2>. SUFFICES ASSUME NEW j, NEW k, IsInstruction(j)
                  PROVE  SetOperand(j, k, from).Opcode = j.Opcode
      OBVIOUS
    <2>. DEFINE arg == j.Opcode.args[k]
                size == ImmediateSize(j, arg.size)
    <2>1. \A arg1 : SetModRM(j, arg1, k, from).Opcode = j.Opcode
      BY DEF SetModRM, IsInstruction, Fields
    <2>2. /\ [j EXCEPT !.Length = @ + size].Opcode = j.Opcode
          /\ [j EXCEPT !.Length = @ + size, !.IPRel = @ \cup {k}].Opcode = j.Opcode
          /\ [j EXCEPT !.Length = @ + j.AddressSize].Opcode = j.Opcode
          /\ [j EXCEPT !.Length = @ + IF j.OperandSize = 2 THEN 4 ELSE 6].Opcode = j.Opcode
      BY DEF IsInstruction, Fields
    <2>3. \/ SetOperand(j, k, from) = j
          \/ SetOperand(j, k, from) = [j EXCEPT !.Length = @ + size]
          \/ SetOperand(j, k, from) = [j EXCEPT !.Length = @ + size, !.IPRel = @ \cup {k}]
          \/ SetOperand(j, k, from) = [j EXCEPT !.Length = @ + j.AddressSize]
          \/ SetOperand(j, k, from) = [j EXCEPT !.Length = @ + IF j.OperandSize = 2 THEN 4 ELSE 6]
          \/ SetOperand(j, k, from) = SetModRM(j, arg, k, from)
      BY DEF SetOperand
    <2>. QED BY <2>1, <2>2, <2>3, Zenon
  <1>. DEFINE m == [i EXCEPT !.Length = IF i.HasModRM THEN @ + 1 ELSE @]
              x1 == SetOperand(m, 1, from)
              x2 == SetOperand(x1, 2, from)
  <1>2. IsInstruction(m) /\ m.Opcode = i.Opcode
    BY DEF IsInstruction, Fields
  <1>3. SetOperands(i, from) = SetOperand(x2, 3, from)
    BY Zenon DEF SetOperands
  <1>. HIDE DEF m
  <1>4. IsInstruction(x1) /\ x1.Opcode = i.Opcode
    BY <1>1, <1>2, OperandIsInstruction
  <1>. HIDE DEF x1
  <1>5. IsInstruction(x2) /\ x2.Opcode = i.Opcode
    BY <1>1, <1>4, OperandIsInstruction
  <1>. HIDE DEF x2
  <1>. QED BY <1>1, <1>3, <1>5

\* The bytes of a class are some number.
LEMMA ClassBytesAreNat ==
    ASSUME NEW size, NEW b, NEW m, NEW os \in Sizes, NEW as \in Sizes
    PROVE  ClassBytes(ImmediateClass(size, b, m), os, as) \in Nat
  <1>1. ImmediateClass(size, b, m) \in {"none", "b", "w", "wb", "z", "v", "address", "far"}
    BY DEF ImmediateClass, OneByteClass, TwoByteClass
  <1>2. \A class \in {"none", "b", "w", "wb", "z", "v", "address", "far"} :
            ClassBytes(class, os, as) \in Nat
    <2>1. os \in Nat /\ as \in Nat
      <3>1. Sizes \subseteq Nat
        BY DEF Sizes
      <3>. QED BY <3>1
    <2>2. \A class \in {"none", "b", "w", "wb"} : ClassBytes(class, os, as) \in Nat
      BY DEF ClassBytes
    <2>3. \A class \in {"z", "far"} : ClassBytes(class, os, as) \in Nat
      BY DEF ClassBytes
    <2>4. \A class \in {"v", "address"} : ClassBytes(class, os, as) \in Nat
      BY <2>1 DEF ClassBytes
    <2>. QED BY <2>2, <2>3, <2>4
  <1>. QED BY <1>1, <1>2

\* A 64-bit instruction that has an operand relative to the next one has a REX
\* prefix, an opcode, a ModRM byte and the displacement.
LEMMA RelativeIsLong ==
    ASSUME NEW i, NEW n, NEW size, NEW b, NEW whole, Found(i, n, size, b, whole), Regular(n),
           arch = 64, IsRipRelative(arch, code, dwRet), i.OperandSize = 8
    PROVE  ManualLength(arch, code, dwRet) >= 7
  <1>. DEFINE m == ModRMByte(n, size)
              s == Address(n + size + 1)
              bytes == ClassBytes(ImmediateClass(size, b, m), OperandSizeOf(arch, code, dwRet, n),
                                  i.AddressSize)
  <1>1. ManualView(i, n, size, b, m)
    BY RegularByManual
  <1>2. HasModRMBy(size, b) /\ m \div 64 = 0 /\ m % 8 = 5
    BY <1>1 DEF ManualView
  <1>3. i.AddressSize \in {4, 8} /\ i.AddressSize \in Sizes
    <2>1. i.AddressSize = AddressSizeOf(arch, code, dwRet, n)
      BY DEF Found, OpcodeFound
    <2>. QED BY <2>1 DEF AddressSizeOf, Sizes
  <1>4. MemoryOf(m, s, i.AddressSize) = 4
    BY <1>2, <1>3 DEF MemoryOf, DisplacementOf
  <1>5. bytes \in Nat
    <2>1. OperandSizeOf(arch, code, dwRet, n) \in Sizes
      BY OperandSizes
    <2>. QED BY <1>3, <2>1, ClassBytesAreNat
  <1>6. ManualLength(arch, code, dwRet) = n + size + (1 + 4) + bytes
    BY <1>1, <1>2, <1>4 DEF ManualView
  <1>7. n \in Nat /\ n >= 1 /\ size \in {1, 2}
    BY DEF Found, OpcodeFound, LastIsWide
  <1>. HIDE DEF bytes
  <1>. QED BY <1>5, <1>6, <1>7

\* A regular instruction is decoded right.
LEMMA RegularDecoded ==
    ASSUME NEW i, NEW n, NEW size, NEW b, NEW whole, Found(i, n, size, b, whole), Regular(n),
           ~ Refused(i)
    PROVE  DecodedRight(arch, code, dwRet, AllRead(i))
  <1>. DEFINE m == ModRMByte(n, size)
              x == AllRead(i)
              e == i.Opcode
  <1>1. ByManual(i, n, size, b, m) /\ ManualView(i, n, size, b, m)
    BY ModRMByManual, RegularByManual
  <1>2. /\ IsMiscounted(size, b, i.modrm_b) \/ Counted(size, b, i.modrm_b, whole, e)
        /\ e.type \in {"mov", "lea"} => ~ IsMiscounted(size, b, i.modrm_b)
        /\ IsTransfer(size, b, i.modrm_b) => e.type \in TransferTypes
        /\ IsLoop(size, b) => e.args = <<Jump("b")>>
    BY DEF Found, OpcodeFound, Sound
  <1>3. IsMiscounted(size, b, i.modrm_b) <=> MiscountedAt(arch, code, dwRet)
    BY <1>1 DEF ByManual, ManualView
  <1>4. IsInstruction(i) /\ i.IPRel = {} /\ i.modrm_b \in Byte
    BY <1>1 DEF Found, OpcodeFound, ByManual
  <1>5. x.Opcode = e
    BY <1>4, OpcodeStays DEF AllRead
  <1>6. CASE IsMiscounted(size, b, i.modrm_b)
    BY <1>2, <1>3, <1>5, <1>6 DEF DecodedRight
  <1>7. CASE ~ IsMiscounted(size, b, i.modrm_b)
    <2>1. Counted(size, b, i.modrm_b, whole, e)
      BY <1>2, <1>7
    <2>2. Right(i, x)
      <3>1. CASE e.args = <<>>
        BY <2>1, <3>1, RightWithout DEF AllRead
      <3>2. CASE e.args # <<>>
        BY <2>1, <3>2, RightWith DEF AllRead
      <3>. QED BY <3>1, <3>2
    <2>3. ASSUME IsLoop(size, b) PROVE x.IPRel # {}
      <3>1. e.args = <<Jump("b")>>
        BY <1>2, <2>3
      <3>2. Len(e.args) = 1 /\ e.args[1].mode = "J" /\ e.args # <<>>
        BY <3>1 DEF Jump, Operand
      <3>3. OperandsSet(i, x, i.Length)
        BY <1>4, <3>2, OperandsRead DEF AllRead
      <3>4. RelativeIn(i, 1)
        BY <3>2 DEF RelativeIn
      <3>. QED BY <3>3, <3>4 DEF OperandsSet
    <2>. SUFFICES DecodedRight(arch, code, dwRet, x)
      OBVIOUS
    <2>. HIDE DEF x, e, m
    <2>4. LeavesTheLine(arch, code, dwRet) =>
              \/ x.Opcode.type \in TransferTypes
              \/ LoopOrJcxz(arch, code, dwRet) /\ x.IPRel # {}
      BY <1>1, <1>2, <1>5, <2>3 DEF ByManual, ManualView
    <2>5. IsRipRelative(arch, code, dwRet) /\ arch = 64 /\ i.OperandSize = 8 =>
              ManualLength(arch, code, dwRet) >= 7
      BY RelativeIsLong
    <2>. QED BY <1>3, <1>5, <1>7, <2>2, <2>4, <2>5 DEF DecodedRight, Right, e
  <1>. QED BY <1>6, <1>7

\* Behind a REX prefix behind another there is only what is counted wrong, and
\* no move of it is relative.
LEMMA SecondRexDecoded ==
    ASSUME NEW i, NEW n, NEW size, NEW b, NEW whole, Found(i, n, size, b, whole), ~ Regular(n)
    PROVE  DecodedRight(arch, code, dwRet, AllRead(i))
  <1>. DEFINE x == AllRead(i)
              e == i.Opcode
              N == PrefixCount(arch, code, dwRet)
  <1>1. /\ arch = 64 /\ code \in Seq(Byte) /\ dwRet \in Nat /\ n \in Nat /\ n > 0
        /\ At(code, dwRet + (n - 1)) \in RexCodes /\ At(code, dwRet + n) \in RexCodes
        /\ PrefixesFirst(arch, code, dwRet, n) /\ OpcodeIs(code, dwRet, n, size, b)
        /\ IsInstruction(i) /\ i.IPRel = {}
        /\ Sound(size, b, i.modrm_b, whole, e) /\ e.kind = "op"
    BY DEF Found, OpcodeFound, Regular, EndsWithRex
  <1>2. size = 1 /\ b \in RexCodes
    <2>1. At(code, dwRet + n) # \h0F
      <3>1. \h0F \notin RexCodes
        BY DEF RexCodes
      <3>. QED BY <1>1, <3>1
    <2>2. size = 1
      BY <1>1, <2>1 DEF OpcodeIs
    <2>3. dwRet + n + size - 1 = dwRet + n
      BY <1>1, <2>2
    <2>. QED BY <1>1, <2>2, <2>3 DEF OpcodeIs
  <1>3. MiscountedAt(arch, code, dwRet)
    <2>1. PrefixesFirst(arch, code, dwRet, n + 1)
      <3>1. At(code, dwRet + n) \in Leading(arch)
        BY DEF Regular
      <3>2. \A k \in 0..((n + 1) - 1) : k = n \/ k \in 0..(n - 1)
        BY <1>1
      <3>. QED BY <1>1, <3>1, <3>2 DEF PrefixesFirst
    <2>2. N \in Nat /\ N >= n + 1
      <3>1. arch \in {32, 64} /\ n + 1 \in Nat
        BY <1>1
      <3>. QED BY <1>1, <2>1, <3>1, PrefixesGoOn
    <2>. DEFINE op == OpcodeAt(arch, code, dwRet)
                k == dwRet + (n - 1)
    <2>3. op = dwRet + N + 1 \/ op = dwRet + N + 0
      BY DEF OpcodeAt
    <2>. HIDE DEF op, N
    <2>4. k \in dwRet..(op - 2) /\ k + 1 = dwRet + n
      BY <1>1, <2>2, <2>3
    <2>5. At(code, k) \in RexCodes /\ At(code, k + 1) \in RexCodes
      BY <1>1, <2>4
    <2>. HIDE DEF k
    <2>6. {At(code, k), At(code, k + 1)} \subseteq RexCodes
      BY <2>5
    <2>. QED BY <1>1, <2>4, <2>6 DEF MiscountedAt, op
  <1>4. x.Opcode = e
    BY <1>1, OpcodeStays DEF AllRead
  <1>5. ASSUME e.type \in {"mov", "lea"} PROVE x.IPRel = {}
    <2>1. Counted(size, b, i.modrm_b, whole, e)
      BY <1>1, <1>5 DEF Sound
    <2>2. ~ HasModRMBy(size, b)
      BY <1>2 DEF HasModRMBy, OneByteModRM, RexCodes
    <2>3. CASE e.args = <<>>
      BY <1>1, <2>3 DEF AllRead
    <2>4. CASE e.args # <<>>
      <3>1. PICK place \in {"memory", "register", "none", "jump"} :
                /\ Shape(e.args, place, ImmediateClass(size, b, i.modrm_b))
                /\ Places(place, ModRMListed(size, b), i.modrm_b)
                /\ place = "jump" => e.type \notin {"mov", "lea"}
        BY <2>1, <2>4, Zenon DEF Counted
      <3>2. ~ ModRMListed(size, b)
        BY <2>1, <2>2 DEF Counted
      <3>3. place = "none"
        BY <1>5, <3>1, <3>2 DEF Places
      <3>4. Len(e.args) \in 1..3 /\ NoMemory(e.args) /\ NoJump(e.args)
        BY <3>1, <3>3 DEF Shape, Placed
      <3>5. i.modrm_b \in Byte
        BY ModRMByManual DEF ByManual
      <3>6. OperandsSet(i, x, i.Length)
        BY <1>1, <2>4, <3>4, <3>5, OperandsRead DEF AllRead
      <3>. QED BY <3>4, <3>6, NoneInMemory DEF OperandsSet
    <2>. QED BY <2>3, <2>4
  <1>. SUFFICES DecodedRight(arch, code, dwRet, x)
    OBVIOUS
  <1>. HIDE DEF x, e
  <1>. QED BY <1>3, <1>4, <1>5 DEF DecodedRight

\* A 3DNow! instruction is counted wrong, and it is no move.
LEMMA SuffixDecoded ==
    ASSUME arch \in {32, 64}, code \in Seq(Byte), dwRet \in Nat,
           NEW i, OperandPhase(arch, code, dwRet, i), i.Opcode.kind = "suffix",
           NEW x, NEW j, j = SuffixRead(i), j.Opcode.kind # "invalid",
           x = IF j.Opcode.args = <<>> THEN j ELSE SetOperands(j, i.Length)
    PROVE  DecodedRight(arch, code, dwRet, x)
  <1>1. PICK n \in Nat, size \in {1, 2}, b \in Byte, whole \in {0, 1} :
            OpcodeFound(arch, code, dwRet, i, n, size, b, whole)
    BY DEF OperandPhase
  <1>2. size = 2 /\ b = \h0F /\ i.Opcode.table = "Suffix_3DNOW"
    BY <1>1 DEF OpcodeFound, Sound
  <1>3. /\ OpcodeIs(code, dwRet, n, size, b)
        /\ PrefixesFirst(arch, code, dwRet, n)
        /\ At(code, dwRet + n) \notin Leading(arch)
    <2>1. At(code, dwRet + n) = \h0F
      BY <1>1, <1>2 DEF OpcodeFound, OpcodeIs
    <2>2. \h0F \notin RexCodes
      BY DEF RexCodes
    <2>. QED BY <1>1, <2>1, <2>2 DEF OpcodeFound
  <1>4. MiscountedAt(arch, code, dwRet)
    <2>1. PrefixCount(arch, code, dwRet) = n
      BY <1>3, PrefixesEndAt
    <2>2. IsMiscounted(size, b, At(code, dwRet + n + size)) => MiscountedAt(arch, code, dwRet)
      BY <1>3, <2>1, ManualTransfers
    <2>. QED BY <1>2, <2>2 DEF IsMiscounted
  <1>5. IsInstruction(i)
    BY <1>1 DEF OpcodeFound
  <1>6. IsInstruction(j)
    BY <1>5, SuffixIsInstruction
  <1>7. x.Opcode = j.Opcode
    BY <1>6, OpcodeStays
  <1>8. j.Opcode.type \notin {"mov", "lea"}
    <2>. DEFINE small == [i EXCEPT !.HasOperandSizePrefix = FALSE,
                            !.OperandSize = IF i.HasOperandSizePrefix THEN 4 ELSE @,
                            !.Opcode = Entry("op", "other", <<Src("P"), Src("Q")>>, "none")]
                once == SetOperands(small, i.Length)
                y == IF Refused(small) THEN Invalid
                     ELSE Lookup(i.Opcode.table, Address(once.Length))
    <2>1. IsInstruction(once)
      <3>1. IsInstruction(small)
        BY <1>5 DEF IsInstruction, Fields
      <3>. HIDE DEF small
      <3>. QED BY <3>1, OperandsAreInstruction
    <2>2. j = [once EXCEPT !.Length = @ + 1, !.OpcodeLength = 3, !.Opcode = y]
      BY Zenon DEF SuffixRead
    <2>. HIDE DEF once
    <2>3. j.Opcode = y
      BY <2>1, <2>2 DEF IsInstruction, Fields
    <2>4. Invalid.kind = "invalid"
      BY DEF Invalid, Entry
    <2>5. y = Lookup("Suffix_3DNOW", Address(once.Length))
      BY <1>2, <2>3, <2>4
    <2>. QED BY <2>3, <2>5, SuffixTable
  <1>. QED BY <1>4, <1>7, <1>8 DEF DecodedRight

\* Whatever is decoded from an opcode is decoded right.
LEMMA OperandsDecoded ==
    ASSUME arch \in {32, 64}, code \in Seq(Byte), dwRet \in Nat,
           OperandPhase(arch, code, dwRet, Instruction), ReadOperands, phase' = "decoded"
    PROVE  DecodedRight(arch, code, dwRet, Instruction')
  <1>. DEFINE i == IF Instruction.Opcode.kind = "suffix" THEN SuffixRead(Instruction)
                   ELSE Instruction
  <1>1. /\ Instruction' = IF i.Opcode.args = <<>> THEN i ELSE SetOperands(i, Instruction.Length)
        /\ i.Opcode.kind # "invalid" /\ ~ Refused(i)
    BY DEF ReadOperands
  <1>2. CASE Instruction.Opcode.kind = "suffix"
    BY <1>1, <1>2, SuffixDecoded
  <1>3. CASE Instruction.Opcode.kind # "suffix"
    <2>1. Instruction' = AllRead(Instruction) /\ ~ Refused(Instruction)
      BY <1>1, <1>3 DEF AllRead
    <2>2. PICK n \in Nat, size \in {1, 2}, b \in Byte, whole \in {0, 1} :
              OpcodeFound(arch, code, dwRet, Instruction, n, size, b, whole)
      BY DEF OperandPhase
    <2>3. Found(Instruction, n, size, b, whole)
      BY <1>3, <2>2 DEF Found, OpcodeFound
    <2>4. CASE Regular(n)
      BY <2>1, <2>3, <2>4, RegularDecoded
    <2>5. CASE ~ Regular(n)
      BY <2>1, <2>3, <2>5, SecondRexDecoded
    <2>. QED BY <2>4, <2>5
  <1>. QED BY <1>2, <1>3
==============================================================================
