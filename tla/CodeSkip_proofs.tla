---------------------------- MODULE CodeSkip_proofs ----------------------------
(***************************************************************************)
(* What is proved of DisassembleAndSkip, for every function and both       *)
(* architectures: the types, that no instruction is longer than 15 bytes,  *)
(* that what is moved fits into the trampoline, that it is whole           *)
(* instructions by the manuals, none of which leads elsewhere, and that    *)
(* the displacements of those that have one are recorded.                  *)
(***************************************************************************)
EXTENDS CodeSkip, X86Decoder_proofs, FiniteSetTheorems

------------------------------------------------------------------------------
(***************************************************************************)
(* The types.  An instruction is asked for only while fewer than five      *)
(* bytes are taken, and it is taken only when it is decoded, with 15 bytes *)
(* at the most: so the bytes taken are never more than 19.                 *)
(***************************************************************************)
Typed ==
    /\ arch \in {32, 64} /\ code \in Seq(Byte)
    /\ phase \in {"skip", "prefix", "opcode", "operands", "decoded", "failed", "done"}
    /\ IsInstruction(Instruction)
    /\ phase \in {"operands", "decoded"} => Instruction.Length >= 1
    /\ phase = "decoded" => Instruction.Length <= X86_MAX_INSTRUCTION_LEN
    /\ dwRet \in 0..19
    /\ phase \notin {"skip", "done"} => dwRet < MHOOK_JMPSIZE
    /\ rips \in Seq(Nat) /\ Len(rips) <= MHOOKS_MAX_RIPS

\* It holds before the first instruction is asked for.
LEMMA InitTyped == Init => Typed
  BY InitIsInstruction, FunctionsAssumption DEF Init, Typed, MHOOKS_MAX_RIPS

\* The steps of the decoder keep it.
LEMMA DecoderTyped ==
    ASSUME Typed, X86_GetInstruction, UNCHANGED <<rips, skipped>>
    PROVE  Typed'
  <1>. USE DEF Typed, X86_MAX_INSTRUCTION_LEN
  <1>1. CASE MisplacedRex
    <2>1. IsInstruction(Instruction')
      BY <1>1 DEF MisplacedRex, IsInstruction, Fields
    <2>. QED BY <1>1, <2>1 DEF MisplacedRex, IsInstruction
  <1>2. CASE Prefix
    <2>1. IsInstruction(Instruction')
      BY <1>2, PrefixIsInstruction DEF Prefix
    <2>2. phase' \in {"prefix", "opcode", "failed"} /\ phase = "prefix"
      BY <1>2 DEF Prefix
    <2>3. UNCHANGED <<arch, code, dwRet>>
      BY <1>2 DEF Prefix
    <2>. QED BY <2>1, <2>2, <2>3 DEF IsInstruction
  <1>3. CASE PrefixesEnd
    BY <1>3 DEF PrefixesEnd, IsInstruction
  <1>4. CASE ReadOpcode
    <2>. DEFINE escaped == [Instruction EXCEPT !.Length = @ + 1]
    <2>1. IsInstruction(escaped)
      BY DEF IsInstruction, Fields
    <2>. HIDE DEF escaped
    <2>2. \A b : /\ IsInstruction(TwoByteOpcode(escaped, b)) /\ TwoByteOpcode(escaped, b).Length >= 1
                 /\ IsInstruction(OneByteOpcode(Instruction, b)) /\ OneByteOpcode(Instruction, b).Length >= 1
      BY <2>1, TwoByteIsInstruction, OneByteIsInstruction
    <2>3. PICK b : Instruction' = TwoByteOpcode(escaped, b) \/ Instruction' = OneByteOpcode(Instruction, b)
      BY <1>4, Zenon DEF ReadOpcode, escaped
    <2>4. IsInstruction(Instruction') /\ Instruction'.Length >= 1
      BY <2>2, <2>3, Zenon
    <2>5. phase' \in {"operands", "failed"} /\ phase = "opcode" /\ UNCHANGED <<arch, code, dwRet>>
      BY <1>4 DEF ReadOpcode
    <2>. QED BY <2>4, <2>5 DEF IsInstruction
  <1>5. CASE ReadOperands
    <2>1. PICK i, last :
            /\ i = Instruction \/ i = SuffixRead(Instruction)
            /\ last = i \/ last = SetOperands(i, Instruction.Length)
            /\ Instruction' = last
            /\ phase' = "failed" \/ (phase' = "decoded" /\ ~ TooLong(last))
      BY <1>5, Zenon DEF ReadOperands
    <2>2. IsInstruction(i) /\ i.Length >= Instruction.Length /\ i.Length \in Nat
      BY <2>1, SuffixIsInstruction DEF IsInstruction
    <2>3. IsInstruction(last) /\ last.Length >= i.Length /\ last.Length \in Nat
      BY <2>1, <2>2, OperandsAreInstruction DEF IsInstruction
    <2>4. phase = "operands" /\ UNCHANGED <<arch, code, dwRet>>
      BY <1>5 DEF ReadOperands
    <2>5. Instruction.Length \in Nat /\ Instruction.Length >= 1
      BY <2>4 DEF IsInstruction
    <2>. QED BY <2>1, <2>2, <2>3, <2>4, <2>5 DEF IsInstruction, TooLong
  <1>. QED BY <1>1, <1>2, <1>3, <1>4, <1>5 DEF X86_GetInstruction

\* Every step keeps it.
LEMMA NextTyped == Typed /\ [Next]_vars => Typed'
  <1>. SUFFICES ASSUME Typed, [Next]_vars PROVE Typed'
    OBVIOUS
  <1>1. CASE UNCHANGED vars
    BY <1>1 DEF Typed, vars, decoderVars, IsInstruction
  <1>2. CASE Disassemble
    BY <1>2, InitIsInstruction DEF Disassemble, GetInstruction, Typed, IsInstruction
  <1>3. CASE Decode
    BY <1>3, DecoderTyped DEF Decode
  <1>4. CASE Skip
    <2>1. phase = "decoded" /\ phase' = "skip" /\ dwRet' = dwRet + Instruction.Length
      BY <1>4 DEF Skip
    <2>2. Instruction.Length \in 1..15 /\ dwRet \in 0..4
      <3>1. Instruction.Length \in Nat
        BY DEF Typed, IsInstruction
      <3>2. Instruction.Length >= 1 /\ Instruction.Length <= 15
        BY <2>1 DEF Typed, X86_MAX_INSTRUCTION_LEN
      <3>3. dwRet \in 0..19 /\ dwRet < 5
        BY <2>1 DEF Typed, MHOOK_JMPSIZE
      <3>. QED BY <3>1, <3>2, <3>3
    <2>3. rips' \in Seq(Nat) /\ Len(rips') <= MHOOKS_MAX_RIPS
      <3>1. CASE rips' = rips
        BY <3>1 DEF Typed
      <3>2. CASE rips' = Append(rips, RipOffset) /\ Len(rips) < MHOOKS_MAX_RIPS
        BY <2>2, <3>2 DEF Typed, RipOffset, MHOOKS_MAX_RIPS
      <3>. QED BY <1>4, <3>1, <3>2 DEF Skip, Movable
    <2>4. UNCHANGED <<arch, code, Instruction>>
      BY <1>4 DEF Skip
    <2>5. dwRet' \in 0..19
      BY <2>1, <2>2
    <2>6. IsInstruction(Instruction')
      BY <2>4 DEF Typed
    <2>. QED BY <2>1, <2>3, <2>4, <2>5, <2>6 DEF Typed, IsInstruction
  <1>5. CASE Stop
    BY <1>5 DEF Stop, Typed, IsInstruction
  <1>. QED
    BY <1>1, <1>2, <1>3, <1>4, <1>5
    DEF Next, Enough, NotDecoded, Transfer, Unsupported, Done


------------------------------------------------------------------------------
(***************************************************************************)
(* The phases of the decoder: what has been read agrees with the manuals.  *)
(***************************************************************************)
Phases ==
    /\ phase = "prefix" => PrefixPhase(arch, code, dwRet, Instruction)
    /\ phase = "opcode" => OpcodePhase(arch, code, dwRet, Instruction)
    /\ phase = "operands" => OperandPhase(arch, code, dwRet, Instruction)
    /\ phase = "decoded" => DecodedRight(arch, code, dwRet, Instruction)

\* The steps of the decoder keep to that.
LEMMA DecoderPhases ==
    ASSUME Typed, Phases, X86_GetInstruction
    PROVE  Phases'
  <1>0. arch \in {32, 64} /\ code \in Seq(Byte) /\ dwRet \in Nat /\ IsInstruction(Instruction)
    BY DEF Typed
  <1>1. CASE MisplacedRex
    <2>1. /\ phase = "prefix" /\ Misplaced(Instruction)
          /\ Instruction' = [Instruction EXCEPT !.Length = @ + 1, !.AnomalyOccurred = TRUE]
          /\ UNCHANGED <<arch, code, dwRet, phase>>
      BY <1>1, Zenon DEF MisplacedRex
    <2>2. PrefixPhase(arch, code, dwRet, Instruction')
      BY <1>0, <2>1, SkippedRex DEF Phases
    <2>. QED BY <2>1, <2>2 DEF Phases
  <1>2. CASE Prefix
    <2>. DEFINE b == NextByte(Instruction)
    <2>1. /\ phase = "prefix" /\ PrefixPhase(arch, code, dwRet, Instruction)
          /\ UNCHANGED <<arch, code, dwRet>>
      BY <1>2 DEF Prefix, Phases
    <2>2. \/ phase' = "failed"
          \/ /\ IS_AMD64 /\ b \in RexCodes /\ ~ Misplaced(Instruction)
             /\ phase' = "opcode" /\ Instruction' = RexRead(Instruction, b)
          \/ /\ b \in PrefixCodes
             /\ phase' = "prefix" /\ Instruction' = LegacyPrefixRead(Instruction, b)
      BY <1>2, Zenon DEF Prefix
    <2>3. CASE phase' = "failed"
      BY <2>3 DEF Phases
    <2>4. CASE /\ IS_AMD64 /\ b \in RexCodes /\ ~ Misplaced(Instruction)
               /\ phase' = "opcode" /\ Instruction' = RexRead(Instruction, b)
      <3>1. OpcodePhase(arch, code, dwRet, Instruction')
        BY <1>0, <2>1, <2>4, RexPrefix DEF IS_AMD64
      <3>. QED BY <2>1, <2>4, <3>1 DEF Phases
    <2>5. CASE /\ b \in PrefixCodes
               /\ phase' = "prefix" /\ Instruction' = LegacyPrefixRead(Instruction, b)
      <3>1. PrefixPhase(arch, code, dwRet, Instruction')
        BY <1>0, <2>1, <2>5, LegacyPrefix
      <3>. QED BY <2>1, <2>5, <3>1 DEF Phases
    <2>. QED BY <2>2, <2>3, <2>4, <2>5
  <1>3. CASE PrefixesEnd
    <2>1. /\ phase = "prefix" /\ NextByte(Instruction) \notin PrefixCodes
          /\ ~ (IS_AMD64 /\ NextByte(Instruction) \in RexCodes)
          /\ phase' = "opcode" /\ UNCHANGED <<arch, code, dwRet, Instruction>>
      BY <1>3 DEF PrefixesEnd
    <2>2. OpcodePhase(arch, code, dwRet, Instruction)
      BY <1>0, <2>1, NoMorePrefixes DEF Phases
    <2>. QED BY <2>1, <2>2 DEF Phases
  <1>4. CASE ReadOpcode
    <2>. DEFINE b == NextByte(Instruction)
                escaped == [Instruction EXCEPT !.Length = @ + 1]
    <2>1. /\ phase = "opcode" /\ OpcodePhase(arch, code, dwRet, Instruction)
          /\ UNCHANGED <<arch, code, dwRet>>
          /\ phase' = IF Accepted(Instruction') THEN "operands" ELSE "failed"
      BY <1>4 DEF ReadOpcode, Phases
    <2>2. Instruction' = IF b = \h0F THEN TwoByteOpcode(escaped, NextByte(escaped))
                         ELSE OneByteOpcode(Instruction, b)
      BY <1>4, Zenon DEF ReadOpcode
    <2>3. CASE ~ Accepted(Instruction')
      BY <2>1, <2>3 DEF Phases
    <2>4. CASE Accepted(Instruction') /\ b # \h0F
      <3>1. Instruction' = OneByteOpcode(Instruction, b)
        BY <2>2, <2>4
      <3>2. OperandPhase(arch, code, dwRet, Instruction')
        BY <1>0, <2>1, <2>4, <3>1, OneByteFound
      <3>. QED BY <2>1, <2>4, <3>2 DEF Phases
    <2>5. CASE Accepted(Instruction') /\ b = \h0F
      <3>1. Instruction' = TwoByteOpcode(escaped, NextByte(escaped))
        BY <2>2, <2>5
      <3>2. /\ IsInstruction(escaped) /\ escaped.Length = Instruction.Length + 1
            /\ escaped.Prefixes = Instruction.Prefixes /\ escaped.IPRel = Instruction.IPRel
            /\ escaped.AddressSize = Instruction.AddressSize
            /\ escaped.OperandSize = Instruction.OperandSize
            /\ escaped.rex_b = Instruction.rex_b
        BY <1>0 DEF IsInstruction, Fields
      <3>. HIDE DEF escaped
      <3>3. OperandPhase(arch, code, dwRet, Instruction')
        BY <1>0, <2>1, <2>5, <3>1, <3>2, TwoByteFound
      <3>. QED BY <2>1, <2>5, <3>3 DEF Phases
    <2>. QED BY <2>3, <2>4, <2>5
  <1>5. CASE ReadOperands
    <2>1. /\ OperandPhase(arch, code, dwRet, Instruction)
          /\ UNCHANGED <<arch, code, dwRet>> /\ phase' \in {"failed", "decoded"}
      BY <1>5 DEF ReadOperands, Phases
    <2>2. phase' = "decoded" => DecodedRight(arch, code, dwRet, Instruction')
      BY <1>0, <1>5, <2>1, OperandsDecoded
    <2>. QED BY <2>1, <2>2 DEF Phases
  <1>. QED BY <1>1, <1>2, <1>3, <1>4, <1>5 DEF X86_GetInstruction

\* So do the steps of DisassembleAndSkip.
LEMMA NextPhases == Typed /\ Phases /\ [Next]_vars => Phases'
  <1>. SUFFICES ASSUME Typed, Phases, [Next]_vars PROVE Phases'
    OBVIOUS
  <1>1. CASE UNCHANGED vars
    BY <1>1 DEF Phases, vars, decoderVars
  <1>2. CASE Disassemble
    <2>1. /\ phase' = "prefix" /\ Instruction' = InitInstruction
          /\ UNCHANGED <<arch, code, dwRet>>
      BY <1>2 DEF Disassemble, GetInstruction
    <2>2. PrefixPhase(arch, code, dwRet, InitInstruction)
      BY NothingRead DEF Typed
    <2>. QED BY <2>1, <2>2 DEF Phases
  <1>3. CASE Decode
    BY <1>3, DecoderPhases DEF Decode
  <1>4. CASE Skip
    BY <1>4 DEF Skip, Phases
  <1>5. CASE Stop
    BY <1>5 DEF Stop, Phases
  <1>. QED
    BY <1>1, <1>2, <1>3, <1>4, <1>5
    DEF Next, Enough, NotDecoded, Transfer, Unsupported, Done

------------------------------------------------------------------------------
(***************************************************************************)
(* What has been taken.                                                    *)
(***************************************************************************)
\* One instruction that is taken.
TakenRight(a, c, s) ==
    /\ s.at \in Nat /\ s.length \in Nat /\ s.length >= 1
    /\ MiscountedAt(a, c, s.at) \/ s.length = ManualLength(a, c, s.at)
    /\ LeavesTheLine(a, c, s.at) =>
           MiscountedAt(a, c, s.at) \/ (a = 32 /\ LoopOrJcxz(a, c, s.at))

\* One is taken behind the other, up to where the search is.
InOrder(sk, end) ==
    \A k \in 1..Len(sk) : sk[k].at + sk[k].length = IF k = Len(sk) THEN end ELSE sk[k + 1].at
Before(sk, end) ==
    \A k \in 1..Len(sk) : sk[k].at + sk[k].length <= end


\* The operands that are relative and to be patched, and that one of them is.
Elements(sk) == {sk[k] : k \in 1..Len(sk)}
IsRelative(a, c, s) == ~ MiscountedAt(a, c, s.at) /\ IsRipRelative(a, c, s.at)
Relatives(a, c, sk) == {s \in Elements(sk) : IsRelative(a, c, s)}
RightPlace(a, c, s, r) ==
    IF OpcodeAt(a, c, s.at) = s.at + 1 THEN r = RipDisplacementAt(a, c, s.at)
    ELSE r \in s.at..(s.at + s.length - 4)
Recorded(a, c, sk, r) ==
    /\ IsFiniteSet(Relatives(a, c, sk)) /\ Len(r) = Cardinality(Relatives(a, c, sk))
    /\ \A s \in Relatives(a, c, sk) : \E k \in 1..Len(r) : RightPlace(a, c, s, r[k])

Taken ==
    /\ \E S : skipped \in Seq(S)
    /\ \A k \in 1..Len(skipped) : TakenRight(arch, code, skipped[k])
    /\ InOrder(skipped, dwRet)
    /\ Before(skipped, dwRet)
    /\ Recorded(arch, code, skipped, rips)

\* What appending to a sequence does.
LEMMA Appended ==
    ASSUME NEW S, NEW s \in Seq(S), NEW e
    PROVE  /\ Append(s, e) \in Seq(S \cup {e}) /\ Len(s) \in Nat /\ Len(Append(s, e)) = Len(s) + 1
           /\ \A k \in 1..Len(s) : Append(s, e)[k] = s[k]
           /\ Append(s, e)[Len(s) + 1] = e
  <1>1. s \in Seq(S \cup {e})
    OBVIOUS
  <1>. QED BY <1>1

\* What is taken is what was, and one more.
LEMMA ElementsAppended ==
    ASSUME NEW S, NEW s \in Seq(S), NEW e
    PROVE  Elements(Append(s, e)) = Elements(s) \cup {e}
  <1>. DEFINE t == Append(s, e)
              n == Len(s)
  <1>1. n \in Nat /\ Len(t) = n + 1 /\ t[n + 1] = e /\ \A k \in 1..n : t[k] = s[k]
    BY Appended
  <1>. HIDE DEF t, n
  <1>2. \A x \in Elements(t) : x \in Elements(s) \cup {e}
    <2>. SUFFICES ASSUME NEW k \in 1..(n + 1) PROVE t[k] \in Elements(s) \cup {e}
      BY <1>1 DEF Elements
    <2>1. CASE k = n + 1
      BY <1>1, <2>1
    <2>2. CASE k \in 1..n
      BY <1>1, <2>2 DEF Elements, n
    <2>. QED BY <1>1, <2>1, <2>2
  <1>3. \A x \in Elements(s) : x \in Elements(t)
    <2>. SUFFICES ASSUME NEW k \in 1..n PROVE s[k] \in Elements(t)
      BY DEF Elements, n
    <2>1. k \in 1..Len(t) /\ t[k] = s[k]
      BY <1>1
    <2>. QED BY <2>1 DEF Elements
  <1>4. e \in Elements(t)
    <2>1. n + 1 \in 1..Len(t)
      BY <1>1
    <2>. QED BY <1>1, <2>1 DEF Elements
  <1>. QED BY <1>2, <1>3, <1>4 DEF t

Measured(sk) == \A k \in 1..Len(sk) : sk[k].at \in Nat /\ sk[k].length \in Nat

\* One more instruction is taken where the last one ends.
LEMMA OrderKept ==
    ASSUME NEW S, NEW sk \in Seq(S), NEW end \in Nat, NEW e, e.at = end, e.length \in Nat,
           Measured(sk),
           InOrder(sk, end), Before(sk, end)
    PROVE  InOrder(Append(sk, e), end + e.length) /\ Before(Append(sk, e), end + e.length)
  <1>. DEFINE t == Append(sk, e)
              n == Len(sk)
  <1>1. n \in Nat /\ Len(t) = n + 1 /\ t[n + 1] = e /\ \A k \in 1..n : t[k] = sk[k]
    BY Appended
  <1>. HIDE DEF t
  <1>2. ASSUME NEW k \in 1..(n + 1)
        PROVE  /\ t[k].at + t[k].length = IF k = n + 1 THEN end + e.length ELSE t[k + 1].at
               /\ t[k].at + t[k].length <= end + e.length
    <2>. HIDE DEF n
    <2>1. CASE k = n + 1
      BY <1>1, <2>1
    <2>2. CASE k = n
      <3>1. k \in 1..n /\ t[k] = sk[k] /\ t[k + 1] = e /\ k # n + 1
        BY <1>1, <2>2
      <3>2. sk[k].at + sk[k].length = end
        BY <2>2, <3>1 DEF InOrder, n
      <3>. QED BY <3>1, <3>2
    <2>3. CASE k \in 1..(n - 1)
      <3>1. k \in 1..n /\ t[k] = sk[k] /\ t[k + 1] = sk[k + 1] /\ k # n /\ k # n + 1
        BY <1>1, <2>3
      <3>2. sk[k].at + sk[k].length = sk[k + 1].at /\ sk[k].at + sk[k].length <= end
        BY <3>1 DEF InOrder, Before, n
      <3>3. sk[k].at \in Nat /\ sk[k].length \in Nat
        BY <3>1 DEF n, Measured
      <3>. QED BY <3>1, <3>2, <3>3
    <2>. QED BY <1>1, <2>1, <2>2, <2>3
  <1>. QED BY <1>1, <1>2 DEF InOrder, Before, t

\* An instruction whose displacement is recorded, or that has none.
LEMMA RecordKept ==
    ASSUME NEW a, NEW c, NEW S, NEW sk \in Seq(S), NEW e, NEW r \in Seq(Nat), NEW q,
           Recorded(a, c, sk, r), e \notin Elements(sk),
           \/ q = r /\ ~ IsRelative(a, c, e)
           \/ \E x \in Nat : q = Append(r, x) /\ IsRelative(a, c, e) /\ RightPlace(a, c, e, x)
    PROVE  Recorded(a, c, Append(sk, e), q)
  <1>1. Elements(Append(sk, e)) = Elements(sk) \cup {e}
    BY ElementsAppended
  <1>2. CASE q = r /\ ~ IsRelative(a, c, e)
    <2>1. Relatives(a, c, Append(sk, e)) = Relatives(a, c, sk)
      BY <1>1, <1>2 DEF Relatives
    <2>. QED BY <1>2, <2>1 DEF Recorded
  <1>3. ASSUME NEW x \in Nat, q = Append(r, x), IsRelative(a, c, e), RightPlace(a, c, e, x)
        PROVE  Recorded(a, c, Append(sk, e), q)
    <2>. DEFINE R == Relatives(a, c, sk)
    <2>1. Relatives(a, c, Append(sk, e)) = R \cup {e} /\ e \notin R
      BY <1>1, <1>3 DEF Relatives
    <2>2. /\ Len(r) \in Nat /\ Len(q) = Len(r) + 1 /\ q[Len(r) + 1] = x
          /\ \A k \in 1..Len(r) : q[k] = r[k]
      BY <1>3, Appended
    <2>3. IsFiniteSet(R) /\ Len(r) = Cardinality(R)
      BY DEF Recorded
    <2>4. IsFiniteSet(R \cup {e}) /\ Cardinality(R \cup {e}) = Len(q)
      <3>. HIDE DEF R
      <3>. QED BY <2>1, <2>2, <2>3, FS_AddElement
    <2>5. ASSUME NEW s \in R PROVE \E k \in 1..Len(q) : RightPlace(a, c, s, q[k])
      <3>1. PICK k \in 1..Len(r) : RightPlace(a, c, s, r[k])
        BY DEF Recorded
      <3>2. k \in 1..Len(q) /\ q[k] = r[k]
        BY <2>2
      <3>. QED BY <3>1, <3>2
    <2>6. \E k \in 1..Len(q) : RightPlace(a, c, e, q[k])
      <3>1. Len(r) + 1 \in 1..Len(q)
        BY <2>2
      <3>. QED BY <1>3, <2>2, <3>1
    <2>. HIDE DEF R
    <2>. QED BY <2>1, <2>4, <2>5, <2>6 DEF Recorded
  <1>. QED BY <1>2, <1>3

\* A LOOP has no ModRM byte.
LEMMA LoopIsNotRelative ==
    \A a, c, at : LoopOrJcxz(a, c, at) => ~ IsRipRelative(a, c, at)
  BY DEF LoopOrJcxz, IsRipRelative, HasModRMByte, OneByteModRM

\* A step that takes an instruction.
LEMMA SkipTaken ==
    ASSUME Typed, Phases, Taken, Skip
    PROVE  Taken'
  <1>. DEFINE i == Instruction
              e == [at |-> dwRet, length |-> i.Length, type |-> i.Opcode.type,
                    relative |-> i.IPRel # {}, displacement |-> dwRet + i.DisplacementAt]
  <1>1. /\ phase = "decoded" /\ i.Opcode.type \notin Transfers /\ Movable
        /\ rips' = IF IS_AMD64 /\ i.IPRel # {} THEN Append(rips, RipOffset) ELSE rips
        /\ skipped' = Append(skipped, e)
        /\ dwRet' = dwRet + i.Length /\ UNCHANGED <<arch, code>>
    BY DEF Skip
  <1>2. DecodedRight(arch, code, dwRet, i)
    BY <1>1 DEF Phases
  <1>3. /\ i.Length \in Nat /\ i.Length >= 1 /\ dwRet \in Nat /\ rips \in Seq(Nat)
        /\ arch \in {32, 64}
    BY <1>1 DEF Typed, IsInstruction
  <1>4. e.at = dwRet /\ e.length = i.Length
    OBVIOUS
  <1>5. arch = 64 /\ i.IPRel # {} =>
            /\ ~ MiscountedAt(arch, code, dwRet) /\ IsRipRelative(arch, code, dwRet)
            /\ i.Length >= 7
    BY <1>1, <1>2 DEF DecodedRight, Movable, Patchable, IS_AMD64
  <1>6. i.Opcode.type \notin TransferTypes
    BY <1>1 DEF Transfers, TransferTypes
  <1>. HIDE DEF e
  <1>7. TakenRight(arch, code, e)
    <2>1. LeavesTheLine(arch, code, dwRet) =>
              MiscountedAt(arch, code, dwRet) \/ (arch = 32 /\ LoopOrJcxz(arch, code, dwRet))
      BY <1>2, <1>3, <1>5, <1>6, LoopIsNotRelative DEF DecodedRight
    <2>. QED BY <1>2, <1>3, <1>4, <2>1 DEF DecodedRight, TakenRight
  <1>8. PICK S : skipped \in Seq(S)
    BY DEF Taken
  <1>9. \A k \in 1..Len(skipped) :
            /\ skipped[k].at \in Nat /\ skipped[k].length \in Nat /\ skipped[k].length >= 1
            /\ skipped[k].at + skipped[k].length <= dwRet
    BY DEF Taken, TakenRight, Before
  <1>10. e \notin Elements(skipped)
    <2>. SUFFICES ASSUME NEW k \in 1..Len(skipped), e = skipped[k] PROVE FALSE
      BY DEF Elements
    <2>. QED BY <1>3, <1>4, <1>9
  <1>11. InOrder(skipped', dwRet') /\ Before(skipped', dwRet')
    <2>1. InOrder(skipped, dwRet) /\ Before(skipped, dwRet)
      BY DEF Taken
    <2>2. Measured(skipped)
      BY <1>9 DEF Measured
    <2>3. e.length \in Nat
      BY <1>3, <1>4
    <2>4. /\ InOrder(Append(skipped, e), dwRet + e.length)
          /\ Before(Append(skipped, e), dwRet + e.length)
      BY <1>3, <1>4, <1>8, <2>1, <2>2, <2>3, OrderKept
    <2>. QED BY <1>1, <1>4, <2>4
  <1>12. Recorded(arch, code, skipped', rips')
    <2>1. CASE IS_AMD64 /\ i.IPRel # {}
      <3>1. IsRelative(arch, code, e)
        BY <1>4, <1>5, <2>1 DEF IsRelative, IS_AMD64
      <3>2. RightPlace(arch, code, e, RipOffset) /\ RipOffset \in Nat
        <4>1. i.Length >= 7
          BY <1>5, <2>1 DEF IS_AMD64
        <4>2. dwRet + 3 \in dwRet..(dwRet + i.Length - 4)
          BY <1>3, <4>1
        <4>3. OpcodeAt(arch, code, dwRet) = dwRet + 1 =>
                  RipDisplacementAt(arch, code, dwRet) = dwRet + 3
          BY <1>3 DEF RipDisplacementAt, ModRMAt
        <4>. QED BY <1>3, <1>4, <4>2, <4>3 DEF RightPlace, RipOffset
      <3>3. rips' = Append(rips, RipOffset)
        BY <1>1, <2>1
      <3>. QED BY <1>1, <1>3, <1>8, <1>10, <3>1, <3>2, <3>3, RecordKept DEF Taken
    <2>2. CASE ~ (IS_AMD64 /\ i.IPRel # {})
      <3>1. ~ IsRelative(arch, code, e)
        BY <1>2, <1>4, <2>2 DEF IsRelative, IS_AMD64, DecodedRight, IsRipRelative
      <3>2. rips' = rips
        BY <1>1, <2>2
      <3>. QED BY <1>1, <1>3, <1>8, <1>10, <3>1, <3>2, RecordKept DEF Taken
    <2>. QED BY <2>1, <2>2
  <1>13. \A k \in 1..Len(skipped') : TakenRight(arch, code, skipped'[k])
    <2>1. /\ Len(skipped) \in Nat /\ Len(skipped') = Len(skipped) + 1
          /\ \A k \in 1..Len(skipped) : skipped'[k] = skipped[k]
          /\ skipped'[Len(skipped) + 1] = e
      BY <1>1, <1>8, Appended
    <2>. SUFFICES ASSUME NEW k \in 1..Len(skipped') PROVE TakenRight(arch, code, skipped'[k])
      OBVIOUS
    <2>2. CASE k = Len(skipped) + 1
      BY <1>7, <2>1, <2>2
    <2>3. CASE k \in 1..Len(skipped)
      BY <2>1, <2>3 DEF Taken
    <2>. QED BY <2>1, <2>2, <2>3
  <1>14. \E T : skipped' \in Seq(T)
    BY <1>1, <1>8, Appended
  <1>. QED BY <1>1, <1>11, <1>12, <1>13, <1>14 DEF Taken

------------------------------------------------------------------------------
(***************************************************************************)
(* The theorems.                                                           *)
(***************************************************************************)
Inv == Typed /\ Phases /\ Taken

\* It holds before the first instruction is asked for.
LEMMA InitInv == Init => Inv
  <1>. SUFFICES ASSUME Init PROVE Inv
    OBVIOUS
  <1>1. Phases
    BY DEF Init, Phases
  <1>2. skipped = <<>> /\ rips = <<>>
    BY DEF Init
  <1>3. Relatives(arch, code, skipped) = {}
    BY <1>2 DEF Relatives, Elements
  <1>4. Recorded(arch, code, skipped, rips)
    BY <1>2, <1>3, FS_EmptySet DEF Recorded
  <1>5. \E S : skipped \in Seq(S)
    <2>1. skipped \in Seq({})
      BY <1>2
    <2>. QED BY <2>1
  <1>6. Taken
    BY <1>2, <1>4, <1>5 DEF Taken, InOrder, Before
  <1>. QED BY <1>1, <1>6, InitTyped DEF Inv

\* Every step keeps it: only Skip takes anything.
LEMMA NextInv == Inv /\ [Next]_vars => Inv'
  <1>. SUFFICES ASSUME Inv, [Next]_vars PROVE Inv'
    OBVIOUS
  <1>1. Typed' /\ Phases'
    BY NextTyped, NextPhases DEF Inv
  <1>2. CASE Skip
    BY <1>1, <1>2, SkipTaken DEF Inv
  <1>3. CASE ~ Skip
    <2>1. UNCHANGED <<arch, code, dwRet, rips, skipped>>
      BY <1>3 DEF Next, vars, decoderVars, Disassemble, GetInstruction, Decode, X86_GetInstruction,
         MisplacedRex, Prefix, PrefixesEnd, ReadOpcode, ReadOperands,
         Enough, NotDecoded, Transfer, Unsupported, Done, Stop
    <2>2. Taken'
      BY <2>1 DEF Inv, Taken
    <2>. QED BY <1>1, <2>2 DEF Inv
  <1>. QED BY <1>2, <1>3

\* It holds in every state.
LEMMA InvHolds == Spec => []Inv
  BY InitInv, NextInv, PTL DEF Spec

\* The types are kept, and no decoded instruction is longer than 15 bytes.
THEOREM TypesHold == Spec => []TypeOK
  <1>1. Inv => TypeOK
    <2>. SUFFICES ASSUME Typed PROVE TypeOK
      BY DEF Inv
    <2>1. Instruction.Length \in Nat /\ dwRet \in Nat
      BY DEF Typed, IsInstruction
    <2>2. phase = "decoded" => Instruction.Length >= 1 /\ Instruction.Length <= 15
      BY DEF Typed, X86_MAX_INSTRUCTION_LEN
    <2>3. phase = "decoded" => Instruction.Length \in 1..X86_MAX_INSTRUCTION_LEN
      BY <2>1, <2>2 DEF X86_MAX_INSTRUCTION_LEN
    <2>. QED BY <2>1, <2>3 DEF Typed, TypeOK
  <1>. QED BY InvHolds, <1>1, PTL

\* Whatever the function's code is, what DisassembleAndSkip moves leaves room
\* for the jump in the trampoline, and its displacements fit their table.
THEOREM MovedCodeFits == Spec => []RoomInTrampoline
  <1>1. Inv => RoomInTrampoline
    BY DEF Inv, Typed, RoomInTrampoline, MHOOK_JMPSIZE, MHOOKS_MAX_CODE_BYTES
  <1>. QED BY InvHolds, <1>1, PTL

\* Whatever the function's code is, every instruction that DisassembleAndSkip
\* takes is one whole instruction by the manuals, but for those of Miscounted,
\* and they are taken one behind the other.
THEOREM WholeInstructionsTaken == Spec => []WholeInstructions
  <1>1. Inv => WholeInstructions
    <2>. SUFFICES ASSUME Taken PROVE WholeInstructions
      BY DEF Inv
    <2>1. \A s \in Skipped : Miscounted(s) \/ s.length = ManualLength(arch, code, s.at)
      BY DEF Taken, TakenRight, Skipped, Miscounted, MiscountedAt
    <2>. QED BY <2>1 DEF Taken, InOrder, WholeInstructions
  <1>. QED BY InvHolds, <1>1, PTL

\* Whatever the function's code is, no jump, call or return is moved to the
\* trampoline, but for LOOP and JECXZ of 32-bit code.
THEOREM TransfersStay == Spec => []NoTransferTaken
  <1>1. Inv => NoTransferTaken
    BY DEF Inv, Taken, TakenRight, Skipped, Miscounted, MiscountedAt, NoTransferTaken
  <1>. QED BY InvHolds, <1>1, PTL

\* Whatever the function's code is, there is one place recorded for each
\* operand taken that is relative to the instruction pointer, and the place is
\* that of its displacement, or at least inside its instruction.
THEOREM DisplacementsRecorded == Spec => []RelativesRecorded
  <1>1. Inv => RelativesRecorded
    <2>. SUFFICES ASSUME Taken PROVE RelativesRecorded
      BY DEF Inv
    <2>. DEFINE relatives == {s \in Skipped : ~ Miscounted(s) /\ IsRipRelative(arch, code, s.at)}
    <2>1. relatives = Relatives(arch, code, skipped)
      BY DEF Relatives, Elements, Skipped, IsRelative, Miscounted, MiscountedAt
    <2>2. Recorded(arch, code, skipped, rips)
      BY DEF Taken
    <2>. QED BY <2>1, <2>2 DEF Recorded, RightPlace, RelativesRecorded
  <1>. QED BY InvHolds, <1>1, PTL
==============================================================================
