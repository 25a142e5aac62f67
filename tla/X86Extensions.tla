----------------------------- MODULE X86Extensions -----------------------------
(***************************************************************************)
(* The tables of the disassembler an opcode alone does not decide: groups  *)
(* (by bits 3 to 5 of the ModRM byte), the floating point escapes (by the  *)
(* same bits, or by the whole byte from C0 on), the instructions a prefix  *)
(* 66, F2 or F3 selects, 3DNow! (by the byte behind the operands), and the *)
(* tables of attributes indexed by opcode.                                 *)
(***************************************************************************)
EXTENDS X86Opcodes

X86_Group_1_b == {Other(0..6, <<Dst("E"), Imm("b")>>), Other({7}, <<Src("E"), Imm("b")>>)}
X86_Group_1_z == {Other(0..6, <<Dst("E"), Imm("z")>>), Other({7}, <<Src("E"), Imm("z")>>)}
X86_Group_2_b == {Other(0..7, <<Dst("E"), Imm("b")>>)}
X86_Group_2_r == {Other(0..7, <<Dst("E"), Reg>>)}
X86_Group_3(size) == {
    Other({0, 1}, <<Src("E"), Imm(size)>>),
    Other({2, 3}, <<Dst("E")>>),
    Other(4..7,   <<Reg, Src("E"), Reg>>) }
X86_Group_4 == {Other({0, 1}, <<Dst("E")>>)}
X86_Group_5 == {
    Other({0, 1},       <<Dst("E")>>),
    Row({2}, "call",    <<Src("E")>>),
    Row({3}, "call",    <<Src("Ep")>>),
    Row({4}, "branch",  <<Src("E")>>),
    Row({5}, "branch",  <<Src("Ep")>>),
    Other({6},          <<Src("E")>>) }
\* Extension 6 (jmpe) is an instruction of IA-64: like swapgs it is refused in
\* 32-bit code.
X86_Group_6 == {
    Other({0, 1}, <<Dst("E")>>),
    Other(2..5,   <<Src("E")>>),
    Row({6}, "jmpe", <<Src("E")>>) }
X86_Group_7 == {
    Other({0, 1},       <<Dst("M")>>),
    Other({2, 3, 7},    <<Src("M")>>),
    Other({4},          <<Dst("E"), Reg>>),
    Other({6},          <<Reg, Src("E")>>) }
X86_Group_8 == {Other(4..7, <<Dst("E"), Imm("b")>>)}
X86_Group_9 == {Other({1}, <<Dst("M"), Reg, Reg>>)}
X86_Group_10 == {Other({0}, <<Dst("E")>>)}
X86_Group_11 == {Other(0..7, <<>>)}
X86_Group_12(size) == {Row({0}, "mov", <<Dst("E"), Imm(size)>>)}
X86_Group_13_14 == {Row({2, 4, 6}, "media", <<Src("PR"), Imm("b")>>)}
X86_Group_15 == {Row({2, 3, 6, 7}, "media", <<Src("PR"), Imm("b")>>)}
X86_Group_16 == {
    Row({0}, "fpu",   <<Dst("M")>>),
    Row({1}, "fpu",   <<Src("M")>>),
    Row({2}, "media", <<Src("M")>>),
    Row({3}, "media", <<Dst("M")>>),
    Other({5, 6, 7},  <<>>) }
X86_Group_17 == {Other(0..7, <<Src("E")>>)}
X86_Group_P == {Other({0, 1}, <<Src("E")>>)}

\* The floating point instructions: index 0 to 7 by the extension of a memory
\* operand, 8 + n by the ModRM byte C0 + n.  The stack registers named beside a
\* memory operand, and whether there are one or two, are left out; what takes no
\* operand at all is kept apart, because SetOperands does not see it.
Esc(mem, regs) == {Row(mem, "fpu", <<Src("M")>>), Row(regs, "fpu", <<Reg>>)}
X86_ESC_0 == Esc(0..7, \h08..\h47)
X86_ESC_1 ==
    Esc({0, 2, 3, 5, 6, 7},
        \h08..\h47 \ ({\h18, \h2A, \h2B, \h2E, \h2F, \h37, \h3E, \h3F} \cup \h19..\h27))
    \cup {Row({4}, "fpuenv", <<Src("M")>>), Row({\h18, \h3E, \h3F}, "fpu", <<>>)}
X86_ESC_2 == Esc(0..7, \h08..\h27 \cup {\h31})
X86_ESC_3 == Esc({0, 1, 2, 3, 5, 7}, \h08..\h3F \ {\h28, \h29, \h2C, \h2D, \h2E, \h2F})
X86_ESC_4 == Esc(0..7, \h08..\h17 \cup \h28..\h47)
X86_ESC_5 == Esc({0, 1, 2, 3, 7}, \h08..\h0F \cup \h18..\h37)
             \cup {Row({4, 6}, "fpuenv", <<Src("M")>>)}
X86_ESC_6 == Esc(0..7, \h08..\h17 \cup {\h21} \cup \h28..\h47)
X86_ESC_7 == Esc(0..7, {\h28} \cup \h30..\h3F)

------------------------------------------------------------------------------
Media(codes, args) == Row(codes, "media", args)

X86_SSE_66_Low == {
    Media({\h10, \h14, \h15, \h28, \h2E, \h2F, \h51, \h6F, \h74, \h75, \h76, \h7C, \h7D, \h7F}
          \cup \h54..\h6D, <<Xmm, Src("W")>>),
    Media({\h11, \h29}, <<Dst("W"), Xmm>>),
    Media({\h12, \h16}, <<Xmm, Src("M")>>),
    Media({\h13, \h17, \h2B}, <<Dst("M"), Xmm>>),
    Media({\h2A}, <<Xmm, Src("Q")>>),
    Media({\h2C, \h2D}, <<Src("P"), Src("W")>>),
    Media({\h50}, <<Reg, Src("VR")>>),
    Media({\h6E}, <<Xmm, Src("E")>>),
    Media({\h7E}, <<Dst("E"), Xmm>>),
    Media({\h70}, <<Xmm, Src("W"), Imm("b")>>),
    Link({\h71}, "group", "SSE2_Group_13"),
    Link({\h72}, "group", "SSE2_Group_14"),
    Link({\h73}, "group", "SSE2_Group_15") }
X86_SSE_66_High == {
    Media(\hD0..\hD5 \cup \hD8..\hE6 \cup \hE8..\hEF \cup \hF1..\hF6 \cup \hF8..\hFE,
          <<Xmm, Src("W")>>),
    Media({\hD6}, <<Dst("W"), Xmm>>),
    Media({\hE7}, <<Dst("M"), Xmm>>),
    Media({\hC2, \hC6}, <<Xmm, Src("W"), Imm("b")>>),
    Media({\hC4}, <<Xmm, Src("E"), Imm("b")>>),
    Media({\hC5}, <<Reg, Src("VR"), Imm("b")>>),
    Media({\hD7}, <<Reg, Src("VR")>>),
    Media({\hF7}, <<Xmm, Src("VR")>>) }
X86_SSE_F2_Low == {
    Media({\h10, \h12, \h51, \h58, \h59, \h5A, \h6F, \h7C, \h7D} \cup \h5C..\h5F,
          <<Xmm, Src("W")>>),
    Media({\h11}, <<Dst("W"), Xmm>>),
    Media({\h2A}, <<Xmm, Src("E")>>),
    Media({\h2C, \h2D}, <<Reg, Src("W")>>),
    Media({\h70}, <<Xmm, Src("W"), Imm("b")>>) }
X86_SSE_F2_High == {
    Media({\hD0, \hE6}, <<Xmm, Src("W")>>),
    Media({\hF0}, <<Xmm, Src("M")>>),
    Media({\hC2}, <<Xmm, Src("W"), Imm("b")>>),
    Media({\hD6}, <<Src("P"), Src("VR")>>) }
X86_SSE_F3_Low == {
    Media({\h10, \h12, \h16, \h51, \h52, \h53, \h6F, \h7E} \cup \h58..\h5F,
          <<Xmm, Src("W")>>),
    Media({\h11, \h7F}, <<Dst("W"), Xmm>>),
    Media({\h2A}, <<Xmm, Src("E")>>),
    Media({\h2C, \h2D}, <<Reg, Src("W")>>),
    Media({\h70}, <<Xmm, Src("W"), Imm("b")>>) }
X86_SSE_F3_High == {
    Media({\hE6}, <<Xmm, Src("W")>>),
    Media({\hC2}, <<Xmm, Src("W"), Imm("b")>>),
    Media({\hD6}, <<Xmm, Src("PR")>>) }
X86_SSE ==
    [p \in {\h66, \hF2, \hF3} |->
        [b \in Byte |->
            Find(CASE p = \h66 -> X86_SSE_66_Low \cup X86_SSE_66_High
                   [] p = \hF2 -> X86_SSE_F2_Low \cup X86_SSE_F2_High
                   [] OTHER    -> X86_SSE_F3_Low \cup X86_SSE_F3_High, b)]]

\* Indexed by the extension, plus 8 for F2 and 16 for F3: only 66 has entries.
X86_SSE2_Group_13_14 == {Media({2, 4, 6}, <<Src("VR"), Imm("b")>>)}
X86_SSE2_Group_15 == {Media({2, 3, 6, 7}, <<Src("VR"), Imm("b")>>)}

\* The suffixes of 3DNow!, and the two tables that differ in 64-bit code.
X86_3DNOW_0F == {
    Other({\h0C, \h0D, \h1C, \h1D, \h8A, \h8E, \h90, \h94, \h96, \h97, \h9A, \h9E, \hA0, \hA4,
           \hA6, \hA7, \hAA, \hAE, \hB0, \hB4, \hB6, \hB7, \hBB, \hBF}, <<Src("P"), Src("Q")>>) }
X86_Opcode_63 == {Other({0}, <<Src("E"), Reg>>), Row({1}, "mov", <<Reg, Src("E")>>)}
X86_Opcode_0F05 == {Other({0, 1}, <<Reg, Reg, Reg>>)}
X86_0F01_ModRM == {
    Other({\hC8, \hC9}, <<>>), Row({\hF8}, "swapgs", <<Reg>>),
    Link(Byte \ {\hC8, \hC9, \hF8}, "group", "Group_7") }

Rows ==
    [Group_1_b |-> X86_Group_1_b, Group_1_z |-> X86_Group_1_z, Group_2_b |-> X86_Group_2_b,
     Group_2_r |-> X86_Group_2_r, Group_3_F6 |-> X86_Group_3("b"),
     Group_3_F7 |-> X86_Group_3("z"), Group_4 |-> X86_Group_4, Group_5 |-> X86_Group_5,
     Group_6 |-> X86_Group_6, Group_7 |-> X86_Group_7, Group_8 |-> X86_Group_8,
     Group_9 |-> X86_Group_9, Group_10 |-> X86_Group_10, Group_11 |-> X86_Group_11,
     Group_12_C6 |-> X86_Group_12("b"), Group_12_C7 |-> X86_Group_12("z"),
     Group_13 |-> X86_Group_13_14, Group_14 |-> X86_Group_13_14, Group_15 |-> X86_Group_15,
     Group_16 |-> X86_Group_16, Group_17 |-> X86_Group_17, Group_P |-> X86_Group_P,
     ESC_0 |-> X86_ESC_0, ESC_1 |-> X86_ESC_1, ESC_2 |-> X86_ESC_2, ESC_3 |-> X86_ESC_3,
     ESC_4 |-> X86_ESC_4, ESC_5 |-> X86_ESC_5, ESC_6 |-> X86_ESC_6, ESC_7 |-> X86_ESC_7,
     SSE2_Group_13 |-> X86_SSE2_Group_13_14, SSE2_Group_14 |-> X86_SSE2_Group_13_14,
     SSE2_Group_15 |-> X86_SSE2_Group_15, Suffix_3DNOW |-> X86_3DNOW_0F,
     Opcode_63 |-> X86_Opcode_63, Opcode_0F05 |-> X86_Opcode_0F05, ModRM_0F01 |-> X86_0F01_ModRM]

\* What a table that an entry links to holds at an index.
Lookup(table, index) == Find(Rows[table], index)

------------------------------------------------------------------------------
\* Attributes by opcode.  LockPrefix and Groups are one here: the extensions an
\* opcode may be locked with, all of them where the table says 1.
X86_ModRM_1 ==
    Alu(0..3) \cup {\h62, \h63, \h69, \h6B} \cup \h80..\h8F \cup \hD0..\hD3 \cup \hD8..\hDF
    \cup {\hC0, \hC1, \hC4, \hC5, \hC6, \hC7, \hF6, \hF7, \hFE, \hFF}
X86_ModRM_2 ==
    {\h00, \h01, \h02, \h03, \h0D, \h0F, \h24, \h26, \hA3, \hA4, \hA5, \hA7, \hAB}
    \cup \h10..\h18 \cup \h20..\h23 \cup \h28..\h2F \cup \h40..\h76 \cup \h7C..\h7F
    \cup \h90..\h9F \cup \hAC..\hAF \cup \hB0..\hB7 \cup \hBA..\hBF \cup \hC0..\hC7
    \cup \hD0..\hFE
X86_LockPrefix_1(op) ==
    CASE op \in (Alu(0..3) \ \h38..\h3B) \cup {\h86, \h87} -> 0..7
      [] op \in {\h80, \h81, \h82, \h83}          -> 0..6
      [] op \in {\hF6, \hF7}                     -> {2, 3}
      [] op \in {\hFE, \hFF}                     -> {0, 1}
      [] OTHER                                 -> {}
X86_LockPrefix_2(op) ==
    CASE op \in {\hAB, \hB0, \hB1, \hB3, \hBB, \hC0, \hC1} -> 0..7
      [] op = \hBA                             -> 4..7
      [] op = \hC7                             -> {1}
      [] OTHER                                 -> {}
X86_Invalid_Op16_2 == \hC8..\hCF
X86_Invalid_Addr64_1 ==
    {\h06, \h07, \h0E, \h16, \h1E, \h27, \h2F, \h37, \h3F, \h60, \h61, \h62, \h9A, \hC4, \hC5,
     \hCE, \hD4, \hD5, \hEA}
X86_Invalid_Addr64_2 == {\h34, \h35}
==============================================================================
