------------------------------ MODULE X86Opcodes ------------------------------
(***************************************************************************)
(* The opcode tables of the disassembler (disasm_x86_tables.h), reduced to *)
(* what decides how many bytes an instruction takes, whether it is refused *)
(* and what mhook.cpp does with it.  The mnemonic, the register numbers,   *)
(* the flags tested and changed and the exact type are left out.  An       *)
(* operand keeps its addressing mode (AMODE_...), its size where the size  *)
(* is read from the code, and whether memory it names is written (OP_DST). *)
(***************************************************************************)
EXTENDS Integers

Byte == 0..255

Operand(mode, size, dst) == [mode |-> mode, size |-> size, dst |-> dst]

\* An operand that takes no byte of its own: a fixed register or constant, a
\* register the ModRM byte's reg field names, a string at [ESI] or [EDI].
Reg == Operand("Reg", "-", FALSE)
\* An XMM register the reg field names: refused with 16-bit operands.
Xmm == Operand("V", "-", FALSE)
\* Memory or a register that is read, and one that is written.
Src(mode) == Operand(mode, "-", FALSE)
Dst(mode) == Operand(mode, "-", TRUE)
\* Bytes behind the opcode: an immediate value, the offset of a jump.
Imm(size) == Operand("I", size, FALSE)
Jump(size) == Operand("J", size, FALSE)

Entry(kind, type, args, table) ==
    [kind |-> kind, type |-> type, args |-> args, table |-> table]

Invalid == Entry("invalid", "none", <<>>, "none")

\* One row stands for all the entries of a table that agree on what is kept.
Row(codes, type, args) == [codes |-> codes, entry |-> Entry("op", type, args, "none")]
Other(codes, args) == Row(codes, "other", args)
\* An entry that leads to another table: by the ModRM byte's extension
\* ("group"), or as one of the ITYPE_EXT_... flags says.
Link(codes, kind, table) == [codes |-> codes, entry |-> Entry(kind, "none", <<>>, table)]

Find(rows, b) ==
    IF \E r \in rows : b \in r.codes
    THEN (CHOOSE r \in rows : b \in r.codes).entry
    ELSE Invalid

\* The eight arithmetic operations are laid out alike, eight opcodes each.
Alu(ks) == {8 * i + k : i \in 0..7, k \in ks}

PrefixCodes == {\h26, \h2E, \h36, \h3E, \h64, \h65, \h66, \h67, \hF0, \hF2, \hF3}
RexCodes == \h40..\h4F

------------------------------------------------------------------------------
X86_Opcodes_1_Low == {
    Other(Alu({0, 1}) \ {\h38, \h39}, <<Dst("E"), Reg>>),
    Other(Alu({2, 3}),                <<Reg, Src("E")>>),
    Other({\h38, \h39},               <<Src("E"), Reg>>),
    Other(Alu({4}),                   <<Reg, Imm("b")>>),
    Other(Alu({5}),                   <<Reg, Imm("z")>>),
    Other({\h06, \h07, \h0E, \h16, \h17, \h1E, \h1F, \h27, \h2F, \h37}
             \cup \h3F..\h5F,         <<Reg>>),
    Other({\h60, \h61},               <<>>),
    Other({\h62},                     <<Reg, Src("M")>>),
    Other({\h68},                     <<Imm("z")>>),
    Other({\h69},                     <<Reg, Src("E"), Imm("z")>>),
    Other({\h6A},                     <<Imm("b")>>),
    Other({\h6B},                     <<Reg, Src("E"), Imm("b")>>),
    Other(\h6C..\h6F,                 <<Reg, Reg>>),
    Row(\h70..\h7F, "branchcc",       <<Jump("b")>>),
    Link(PrefixCodes \cap \h00..\h7F, "prefix", "none"),
    Link({\h0F}, "twobyte", "none"),
    Link({\h63}, "ext64", "Opcode_63") }

X86_Opcodes_1_High == {
    Other({\h84, \h85},               <<Src("E"), Reg>>),
    Other({\h86, \h87},               <<Dst("E"), Reg>>),
    Row({\h88, \h89, \h8C}, "mov",    <<Dst("E"), Reg>>),
    Row({\h8A, \h8B, \h8E}, "mov",    <<Reg, Src("E")>>),
    Row({\h8D}, "lea",                <<Reg, Src("M")>>),
    Row({\hC4, \hC5}, "mov",          <<Reg, Src("M")>>),
    Other({\h90, \h9B, \hCC, \hCE, \hF1, \hF4}, <<>>),
    Row({\h9E, \h9F}, "mov",          <<Reg, Reg>>),
    Other(\h91..\h99 \cup \hA4..\hA7 \cup \hAA..\hAF
             \cup {\hD7} \cup \hEC..\hEF, <<Reg, Reg>>),
    Other({\h9C, \h9D, \hC9, \hF5} \cup \hF8..\hFD, <<Reg>>),
    Other({\hA8, \hD4, \hD5, \hE4, \hE5}, <<Reg, Imm("b")>>),
    Other({\hA9},                     <<Reg, Imm("z")>>),
    Row({\hA0, \hA1}, "mov",          <<Reg, Src("O")>>),
    Row({\hA2, \hA3}, "mov",          <<Src("O"), Reg>>),
    Row(\hB0..\hB7, "mov",            <<Reg, Imm("b")>>),
    Row(\hB8..\hBF, "mov",            <<Reg, Imm("v")>>),
    Row({\hC2, \hCA}, "ret",          <<Imm("w")>>),
    Row({\hC3, \hCB}, "ret",          <<>>),
    Other({\hC8},                     <<Reg, Imm("w"), Imm("b")>>),
    Other({\hCD},                     <<Imm("b")>>),
    Other({\hCF},                     <<>>),
    Other({\hD6},                     <<Reg, Reg, Reg>>),
    Row(\hE0..\hE3, "loopcc",         <<Jump("b")>>),
    Other({\hE6, \hE7},               <<Imm("b"), Reg>>),
    Row({\hE8}, "call",               <<Jump("z")>>),
    Row({\hE9}, "branch",             <<Jump("z")>>),
    Row({\hEB}, "branch",             <<Jump("b")>>),
    Row({\h9A}, "call",               <<Src("A")>>),
    Row({\hEA}, "branch",             <<Src("A")>>),
    Link(PrefixCodes \cap \h80..\hFF, "prefix", "none"),
    Link({\h80, \h82, \h83}, "group", "Group_1_b"),
    Link({\h81}, "group", "Group_1_z"),
    Link({\h8F}, "group", "Group_10"),
    Link({\hC0, \hC1}, "group", "Group_2_b"),
    Link({\hD0, \hD1, \hD2, \hD3}, "group", "Group_2_r"),
    Link({\hC6}, "group", "Group_12_C6"),
    Link({\hC7}, "group", "Group_12_C7"),
    Link({\hF6}, "group", "Group_3_F6"),
    Link({\hF7}, "group", "Group_3_F7"),
    Link({\hFE}, "group", "Group_4"),
    Link({\hFF}, "group", "Group_5"),
    Link({\hD8}, "fpu", "ESC_0"), Link({\hD9}, "fpu", "ESC_1"),
    Link({\hDA}, "fpu", "ESC_2"), Link({\hDB}, "fpu", "ESC_3"),
    Link({\hDC}, "fpu", "ESC_4"), Link({\hDD}, "fpu", "ESC_5"),
    Link({\hDE}, "fpu", "ESC_6"), Link({\hDF}, "fpu", "ESC_7") }

X86_Opcodes_1 == [b \in Byte |-> Find(X86_Opcodes_1_Low \cup X86_Opcodes_1_High, b)]

------------------------------------------------------------------------------
\* The opcodes behind 0F; media is MMX, SSE or SSE2 as the entry itself says.
X86_Opcodes_2_Low == {
    Other({\h02, \h03} \cup \h40..\h4F, <<Reg, Src("E")>>),
    Other({\h06, \h07, \h0E},         <<Reg>>),
    Row({\h77}, "media",              <<Reg>>),
    Other({\h08, \h09, \h0B},         <<>>),
    Row({\h10, \h12, \h14, \h15, \h16, \h28, \h2E, \h2F} \cup \h51..\h5F,
             "media",                 <<Xmm, Src("W")>>),
    Row({\h11, \h29}, "media",        <<Dst("W"), Xmm>>),
    Row({\h13, \h17, \h2B}, "media",  <<Dst("M"), Xmm>>),
    Row({\h20, \h21}, "mov",          <<Src("R"), Reg>>),
    Row({\h22, \h23}, "mov",          <<Reg, Src("R")>>),
    Row({\h2A}, "media",              <<Xmm, Src("Q")>>),
    Row({\h2C, \h2D}, "media",        <<Src("P"), Src("W")>>),
    Other(\h30..\h33,                 <<Reg, Reg>>),
    Other({\h34, \h35},               <<Reg, Reg, Reg>>),
    Row({\h50}, "media",              <<Reg, Src("VR")>>),
    Row(\h60..\h6B \cup {\h6F} \cup \h74..\h76, "media", <<Src("P"), Src("Q")>>),
    Row({\h6E}, "media",              <<Src("P"), Src("E")>>),
    Row({\h70}, "media",              <<Src("P"), Src("Q"), Imm("b")>>),
    Row({\h7E}, "media",              <<Dst("E"), Src("P")>>),
    Row({\h7F}, "media",              <<Dst("Q"), Src("P")>>),
    Link({\h00}, "group", "Group_6"),
    Link({\h01}, "extmodrm", "ModRM_0F01"),
    Link({\h05}, "ext64", "Opcode_0F05"),
    Link({\h0D}, "group", "Group_P"),
    Link({\h0F}, "suffix", "Suffix_3DNOW"),
    Link({\h18}, "group", "Group_17"),
    Link({\h71}, "group", "Group_13"),
    Link({\h72}, "group", "Group_14"),
    Link({\h73}, "group", "Group_15") }

X86_Opcodes_2_High == {
    Row(\h80..\h8F, "branchcc",       <<Jump("z")>>),
    Other(\h90..\h9F \cup {\hA5, \hAD, \hB0, \hB1}, <<Dst("E"), Reg, Reg>>),
    Other({\hA0, \hA1, \hA8, \hA9} \cup \hC8..\hCF, <<Reg>>),
    Other({\hA2},                     <<Reg, Reg>>),
    Other({\hA3, \hAB, \hB3, \hBB},   <<Src("E"), Reg>>),
    Other({\hA4, \hAC},               <<Dst("E"), Reg, Imm("b")>>),
    Other({\hAA},                     <<>>),
    Other({\hAF, \hBC, \hBD},         <<Reg, Src("E")>>),
    Row({\hB6, \hB7, \hBE, \hBF}, "mov", <<Reg, Src("E")>>),
    Row({\hB2, \hB4, \hB5}, "mov",    <<Reg, Src("M")>>),
    Other({\hC0, \hC1},               <<Dst("E"), Reg>>),
    Row({\hC2, \hC6}, "media",        <<Xmm, Src("W"), Imm("b")>>),
    Row({\hC3}, "media",              <<Dst("M"), Reg>>),
    Row({\hC4}, "media",              <<Src("P"), Src("E"), Imm("b")>>),
    Row({\hC5}, "media",              <<Reg, Src("PR"), Imm("b")>>),
    Row(\hD1..\hD5 \cup \hD8..\hE5 \cup \hE8..\hEF \cup \hF1..\hF6 \cup \hF8..\hFE,
             "media",                 <<Src("P"), Src("Q")>>),
    Row({\hD7}, "media",              <<Reg, Src("PR")>>),
    Row({\hE7}, "media",              <<Dst("M"), Src("P")>>),
    Row({\hF7}, "media",              <<Src("P"), Src("PR")>>),
    Link({\hAE}, "group", "Group_16"),
    Link({\hB9}, "group", "Group_11"),
    Link({\hBA}, "group", "Group_8"),
    Link({\hC7}, "group", "Group_9") }

X86_Opcodes_2 == [b \in Byte |-> Find(X86_Opcodes_2_Low \cup X86_Opcodes_2_High, b)]
==============================================================================
