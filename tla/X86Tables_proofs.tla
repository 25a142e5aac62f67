--------------------------- MODULE X86Tables_proofs ---------------------------
(***************************************************************************)
(* The opcode tables of the disassembler agree with the manuals: for every *)
(* opcode, whatever its ModRM byte is, the entry the tables lead to says   *)
(* whether there is a ModRM byte, lists operands that take as many bytes   *)
(* as the instruction has, and is a jump's if the instruction is a jump.   *)
(* The tables are looked through row by row: each row is compared with     *)
(* what the manuals say of the opcodes it is for.                          *)
(***************************************************************************)
EXTENDS X86Extensions, X86Manual, TLAPS

(***************************************************************************)
(* Lists of operands.  "os" and "as" are the sizes of operand and address. *)
(***************************************************************************)
Sizes == {2, 4, 8}

\* The bytes an operand takes behind the ModRM byte and what belongs to that.
OperandBytes(arg, os, as) ==
    CASE arg.mode \in {"I", "J"} ->
            (CASE arg.size = "b" -> 1
               [] arg.size = "w" -> 2
               [] arg.size = "z" -> IF os = 2 THEN 2 ELSE 4
               [] OTHER -> os)
      [] arg.mode = "O" -> as
      [] arg.mode = "A" -> IF os = 2 THEN 4 ELSE 6
      [] OTHER -> 0
BytesOf(args, k, os, as) == IF k <= Len(args) THEN OperandBytes(args[k], os, as) ELSE 0
Bytes(args, os, as) ==
    BytesOf(args, 1, os, as) + BytesOf(args, 2, os, as) + BytesOf(args, 3, os, as)

\* How many bytes of immediate values an instruction has, as a class.
ClassBytes(class, os, as) ==
    CASE class = "none" -> 0
      [] class = "b" -> 1
      [] class = "w" -> 2
      [] class = "wb" -> 3
      [] class = "z" -> IF os = 2 THEN 2 ELSE 4
      [] class = "v" -> os
      [] class = "address" -> as
      [] class = "far" -> IF os = 2 THEN 4 ELSE 6

\* Operands the ModRM byte describes: in memory or a register, or a register only.
InMemory == {"E", "Ep", "M", "Q", "W"}
InRegister == {"R", "VR", "PR"}

NoMemory(args) == \A k \in 1..Len(args) : args[k].mode \notin InMemory
OneMemory(args) ==
    \E k \in 1..Len(args) :
        /\ args[k].mode \in InMemory
        /\ \A l \in 1..Len(args) : l # k => args[l].mode \notin InMemory
RegisterOnly(args) == \E k \in 1..Len(args) : args[k].mode \in InRegister
NoJump(args) == \A k \in 1..Len(args) : args[k].mode # "J"

\* Where the operands are: one of them in memory, none in memory because one
\* has to be in a register, none that depends on a ModRM byte, or a jump's.
Placed(args, place) ==
    CASE place = "memory"   -> OneMemory(args) /\ NoJump(args)
      [] place = "register" -> NoMemory(args) /\ RegisterOnly(args) /\ NoJump(args)
      [] place = "none"     -> NoMemory(args) /\ NoJump(args)
      [] place = "jump"     -> NoMemory(args)

\* A list of operands: where they are, and the class of their bytes.
Shape(args, place, class) ==
    /\ Len(args) \in 1..3
    /\ Placed(args, place)
    /\ \A os, as \in Sizes : Bytes(args, os, as) = ClassBytes(class, os, as)

\* The operands lists are made of.
IsMemory(x) == x.mode \in InMemory
IsRegister(x) == x.mode \in InRegister
IsPlain(x) == x.mode \in {"Reg", "V", "P"}
IsImm(x, class) == x.mode = "I" /\ x.size = class

\* What kind the operands of the tables are.
LEMMA OperandKinds ==
    /\ \A mode \in InMemory : IsMemory(Src(mode)) /\ IsMemory(Dst(mode))
    /\ \A mode \in InRegister : IsRegister(Src(mode))
    /\ IsPlain(Reg) /\ IsPlain(Xmm) /\ IsPlain(Src("P"))
    /\ \A class : IsImm(Imm(class), class)
  BY DEF IsMemory, IsRegister, IsPlain, IsImm, Src, Dst, Reg, Xmm, Imm, Operand,
         InMemory, InRegister

\* A list with an operand in memory, and no immediate value.
LEMMA MemoryShapes ==
    ASSUME NEW x, NEW y, NEW z, IsMemory(x), IsPlain(y), IsPlain(z)
    PROVE  /\ Shape(<<x>>, "memory", "none")
           /\ Shape(<<x, y>>, "memory", "none")
           /\ Shape(<<y, x>>, "memory", "none")
           /\ Shape(<<x, y, z>>, "memory", "none")
           /\ Shape(<<y, x, z>>, "memory", "none")
  <1>. USE DEF Shape, Placed, Bytes, BytesOf, OperandBytes, ClassBytes, OneMemory,
               NoJump, InMemory, Sizes, IsMemory, IsPlain
  <1>1. Shape(<<x>>, "memory", "none") OBVIOUS
  <1>2. Shape(<<x, y>>, "memory", "none") OBVIOUS
  <1>3. Shape(<<y, x>>, "memory", "none") OBVIOUS
  <1>4. Shape(<<x, y, z>>, "memory", "none") OBVIOUS
  <1>5. Shape(<<y, x, z>>, "memory", "none") OBVIOUS
  <1>. QED BY <1>1, <1>2, <1>3, <1>4, <1>5

\* The same with one immediate value.
LEMMA MemoryImmediateShapes ==
    ASSUME NEW x, NEW y, NEW z, NEW class \in {"b", "z"},
           IsMemory(x), IsPlain(y), IsImm(z, class)
    PROVE  /\ Shape(<<x, z>>, "memory", class)
           /\ Shape(<<x, y, z>>, "memory", class)
           /\ Shape(<<y, x, z>>, "memory", class)
  <1>. USE DEF Shape, Placed, Bytes, BytesOf, OperandBytes, ClassBytes, OneMemory,
               NoJump, InMemory, Sizes, IsMemory, IsPlain, IsImm
  <1>1. Shape(<<x, z>>, "memory", class) OBVIOUS
  <1>2. Shape(<<x, y, z>>, "memory", class) OBVIOUS
  <1>3. Shape(<<y, x, z>>, "memory", class) OBVIOUS
  <1>. QED BY <1>1, <1>2, <1>3

\* No operand that depends on a ModRM byte.
LEMMA PlainShapes ==
    ASSUME NEW x, NEW y, NEW z, IsPlain(x), IsPlain(y), IsPlain(z)
    PROVE  /\ Shape(<<x>>, "none", "none")
           /\ Shape(<<x, y>>, "none", "none")
           /\ Shape(<<x, y, z>>, "none", "none")
  <1>. USE DEF Shape, Placed, Bytes, BytesOf, OperandBytes, ClassBytes, NoMemory,
               NoJump, InMemory, Sizes, IsPlain
  <1>1. Shape(<<x>>, "none", "none") OBVIOUS
  <1>2. Shape(<<x, y>>, "none", "none") OBVIOUS
  <1>3. Shape(<<x, y, z>>, "none", "none") OBVIOUS
  <1>. QED BY <1>1, <1>2, <1>3

\* Immediate values only, beside fixed registers.
LEMMA ImmediateShapes ==
    ASSUME NEW x, NEW y, NEW class \in {"b", "w", "z", "v"}, IsPlain(x), IsImm(y, class)
    PROVE  /\ Shape(<<y>>, "none", class)
           /\ Shape(<<x, y>>, "none", class)
           /\ Shape(<<y, x>>, "none", class)
  <1>. USE DEF Shape, Placed, Bytes, BytesOf, OperandBytes, ClassBytes, NoMemory,
               NoJump, InMemory, Sizes, IsPlain, IsImm
  <1>1. Shape(<<y>>, "none", class) OBVIOUS
  <1>2. Shape(<<x, y>>, "none", class) OBVIOUS
  <1>3. Shape(<<y, x>>, "none", class) OBVIOUS
  <1>. QED BY <1>1, <1>2, <1>3

\* An operand that has to be in a register.
LEMMA RegisterShapes ==
    ASSUME NEW x, NEW y, NEW z, IsRegister(x), IsPlain(y), IsImm(z, "b")
    PROVE  /\ Shape(<<x, y>>, "register", "none")
           /\ Shape(<<y, x>>, "register", "none")
           /\ Shape(<<x, z>>, "register", "b")
           /\ Shape(<<y, x, z>>, "register", "b")
  <1>. USE DEF Shape, Placed, Bytes, BytesOf, OperandBytes, ClassBytes, NoMemory,
               RegisterOnly, NoJump, InMemory, InRegister, Sizes, IsRegister, IsPlain, IsImm
  <1>1. Shape(<<x, y>>, "register", "none") OBVIOUS
  <1>2. Shape(<<y, x>>, "register", "none") OBVIOUS
  <1>3. Shape(<<x, z>>, "register", "b") OBVIOUS
  <1>4. Shape(<<y, x, z>>, "register", "b") OBVIOUS
  <1>. QED BY <1>1, <1>2, <1>3, <1>4

\* The lists there is one row of.
LEMMA OtherShapes ==
    /\ Shape(<<Jump("b")>>, "jump", "b")
    /\ Shape(<<Jump("z")>>, "jump", "z")
    /\ Shape(<<Src("A")>>, "none", "far")
    /\ Shape(<<Reg, Src("O")>>, "none", "address")
    /\ Shape(<<Src("O"), Reg>>, "none", "address")
    /\ Shape(<<Reg, Imm("w"), Imm("b")>>, "none", "wb")
  <1>. USE DEF Shape, Placed, Bytes, BytesOf, OperandBytes, ClassBytes, NoMemory, NoJump,
               InMemory, Sizes, Reg, Src, Imm, Jump, Operand
  <1>1. Shape(<<Jump("b")>>, "jump", "b") OBVIOUS
  <1>2. Shape(<<Jump("z")>>, "jump", "z") OBVIOUS
  <1>3. Shape(<<Src("A")>>, "none", "far") OBVIOUS
  <1>4. Shape(<<Reg, Src("O")>>, "none", "address") OBVIOUS
  <1>5. Shape(<<Src("O"), Reg>>, "none", "address") OBVIOUS
  <1>6. Shape(<<Reg, Imm("w"), Imm("b")>>, "none", "wb") OBVIOUS
  <1>. QED BY <1>1, <1>2, <1>3, <1>4, <1>5, <1>6

------------------------------------------------------------------------------
(***************************************************************************)
(* What the manuals say of an opcode.  "size" is 1, or 2 for the opcodes    *)
(* behind 0F; "m" is the ModRM byte, if there is one.                      *)
(***************************************************************************)
Extension(m) == (m \div 8) % 8

HasModRMBy(size, b) == IF size = 2 THEN b \notin TwoByteNoModRM ELSE b \in OneByteModRM
ModRMListed(size, b) == IF size = 2 THEN b \in X86_ModRM_2 ELSE b \in X86_ModRM_1

OneByteClass(b, m) ==
    CASE \/ b \in \h00..\h3F /\ b % 8 = 4
         \/ b \in \h70..\h7F \cup \hB0..\hB7 \cup \hE0..\hE7
         \/ b \in {\h6A, \h6B, \h80, \h82, \h83, \hA8, \hC0, \hC1, \hC6, \hCD, \hD4, \hD5, \hEB}
         \/ b = \hF6 /\ Extension(m) \in {0, 1} -> "b"
      [] \/ b \in \h00..\h3F /\ b % 8 = 5
         \/ b \in {\h68, \h69, \h81, \hA9, \hC7, \hE8, \hE9}
         \/ b = \hF7 /\ Extension(m) \in {0, 1} -> "z"
      [] b \in \hB8..\hBF -> "v"
      [] b \in \hA0..\hA3 -> "address"
      [] b \in {\hC2, \hCA} -> "w"
      [] b = \hC8 -> "wb"
      [] b \in {\h9A, \hEA} -> "far"
      [] OTHER -> "none"
TwoByteClass(b) ==
    CASE b \in \h70..\h73 \cup {\h0F, \hA4, \hAC, \hBA, \hC2, \hC4, \hC5, \hC6} -> "b"
      [] b \in \h80..\h8F -> "z"
      [] OTHER -> "none"
ImmediateClass(size, b, m) == IF size = 2 THEN TwoByteClass(b) ELSE OneByteClass(b, m)

\* The jumps, calls and returns, but for LOOP and JECXZ, and the types they have.
TransferTypes == {"ret", "branch", "branchcc", "call"}
Transfers1(b, m) ==
    \/ b \in \h70..\h7F
    \/ b \in {\h9A, \hC2, \hC3, \hCA, \hCB, \hE8, \hE9, \hEA, \hEB}
    \/ b = \hFF /\ Extension(m) \in 2..5
IsTransfer(size, b, m) == IF size = 2 THEN b \in \h80..\h8F ELSE Transfers1(b, m)
IsLoop(size, b) == size = 1 /\ b \in \hE0..\hE3

\* The opcodes whose length is counted wrong: fences, UD1, 3DNow!.
IsMiscounted(size, b, m) ==
    size = 2 /\ (b \in {\h0F, \hB9} \/ (b = \hAE /\ Extension(m) \in 5..7))

\* An operand in memory, or one that may not be there, goes with a ModRM byte.
Places(place, modrm, m) ==
    IF modrm THEN place \in {"memory", "register"} \/ (place = "none" /\ m >= \hC0)
    ELSE place \in {"none", "jump"}

(***************************************************************************)
(* What an entry has to be for an instruction to be counted right; "whole" *)
(* is 1 if a list without operands counts the ModRM byte, and 0 if not.    *)
(***************************************************************************)
Counted(size, b, m, whole, e) ==
    /\ ModRMListed(size, b) <=> HasModRMBy(size, b)
    /\ IF e.args = <<>>
       THEN /\ ImmediateClass(size, b, m) = "none"
            /\ ModRMListed(size, b) <=> whole = 1
            /\ whole = 1 => m >= \hC0
       ELSE \E place \in {"memory", "register", "none", "jump"} :
                /\ Shape(e.args, place, ImmediateClass(size, b, m))
                /\ Places(place, ModRMListed(size, b), m)
                /\ place = "jump" => e.type \notin {"mov", "lea"}

Sound(size, b, m, whole, e) ==
    /\ e.kind = "op" =>
         /\ IsMiscounted(size, b, m) \/ Counted(size, b, m, whole, e)
         /\ e.type \in {"mov", "lea"} => ~ IsMiscounted(size, b, m)
         /\ IsTransfer(size, b, m) => e.type \in TransferTypes
         /\ IsLoop(size, b) => e.type = "loopcc" /\ e.args = <<Jump("b")>>
    /\ e.kind = "suffix" => size = 2 /\ b = \h0F /\ e.table = "Suffix_3DNOW"

\* What the rows of an entry share: the class and the place of its operands.
Class(size, b, m, type, place, class) ==
    /\ ModRMListed(size, b) <=> HasModRMBy(size, b)
    /\ ImmediateClass(size, b, m) = class
    /\ Places(place, ModRMListed(size, b), m)
    /\ place = "jump" => type \notin {"mov", "lea"}
    /\ type \in {"mov", "lea"} => ~ IsMiscounted(size, b, m)
    /\ IsTransfer(size, b, m) => type \in TransferTypes
    /\ ~ IsLoop(size, b)

\* The same of all the opcodes of a row, apart from the ModRM byte where it
\* does not matter.
Fits(size, codes, type, place, class) ==
    /\ \A b \in codes : ModRMListed(size, b) <=> HasModRMBy(size, b)
    /\ \A b \in codes :
          place \in IF ModRMListed(size, b) THEN {"memory", "register"} ELSE {"none", "jump"}
    /\ \A b \in codes : ~ IsLoop(size, b)
    /\ \A b \in codes, m \in Byte : ImmediateClass(size, b, m) = class
    /\ \A b \in codes, m \in Byte : IsTransfer(size, b, m) => type \in TransferTypes
    /\ place = "jump" => type \notin {"mov", "lea"}
    /\ type \in {"mov", "lea"} => \A b \in codes : ~ (size = 2 /\ b \in {\h0F, \hAE, \hB9})

\* What fits a row's opcodes is the class of each.
LEMMA FitsClass ==
    ASSUME NEW size, NEW codes, NEW type, NEW place, NEW class,
           Fits(size, codes, type, place, class), NEW b \in codes, NEW m \in Byte
    PROVE  /\ Class(size, b, m, type, place, class)
           /\ place = "none" => ~ ModRMListed(size, b)
  BY DEF Fits, Class, Places, IsMiscounted

\* The parts of a row, and of a link to another table.
LEMMA RowFields ==
    \A codes, type, args :
        /\ Row(codes, type, args).codes = codes
        /\ Row(codes, type, args).entry.kind = "op"
        /\ Row(codes, type, args).entry.type = type
        /\ Row(codes, type, args).entry.args = args
  BY DEF Row, Entry

\* A link names another table.
LEMMA LinkFields ==
    \A codes, kind, table :
        /\ Link(codes, kind, table).codes = codes
        /\ Link(codes, kind, table).entry.kind = kind
        /\ Link(codes, kind, table).entry.table = table
  BY DEF Link, Entry

\* An entry with operands of the opcode's class is sound.
LEMMA OperandsSound ==
    ASSUME NEW size, NEW b, NEW m, NEW codes, NEW type, NEW args, NEW place, NEW class, NEW whole,
           Class(size, b, m, type, place, class), Shape(args, place, class)
    PROVE  Sound(size, b, m, whole, Row(codes, type, args).entry)
  <1>1. args # <<>>
    BY DEF Shape
  <1>2. place \in {"memory", "register", "none", "jump"}
    BY DEF Class, Places
  <1>3. Counted(size, b, m, whole, Row(codes, type, args).entry)
    BY <1>1, <1>2, RowFields DEF Counted, Class
  <1>. QED BY <1>3, RowFields DEF Sound, Class

\* So is one without operands, if there is no byte to be counted.
LEMMA NoOperandsSound ==
    ASSUME NEW size, NEW b, NEW m, NEW codes, NEW type, NEW whole,
           Class(size, b, m, type, "none", "none"), ModRMListed(size, b) <=> whole = 1
    PROVE  Sound(size, b, m, whole, Row(codes, type, <<>>).entry)
  <1>1. Counted(size, b, m, whole, Row(codes, type, <<>>).entry)
    BY RowFields DEF Counted, Class, Places
  <1>. QED BY <1>1, RowFields DEF Sound, Class


\* So is one that is counted wrong.
LEMMA MiscountedSound ==
    ASSUME NEW size, NEW b, NEW m, NEW codes, NEW type, NEW args, NEW whole,
           IsMiscounted(size, b, m), type \notin {"mov", "lea"}
    PROVE  Sound(size, b, m, whole, Row(codes, type, args).entry)
  <1>1. ~ IsTransfer(size, b, m) /\ ~ IsLoop(size, b)
    BY DEF IsMiscounted, IsTransfer, IsLoop
  <1>. QED BY <1>1, RowFields DEF Sound

\* No instruction is decoded at an entry without one.
LEMMA InvalidSound ==
    ASSUME NEW size, NEW b, NEW m, NEW whole
    PROVE  Sound(size, b, m, whole, Invalid)
  BY DEF Sound, Invalid, Entry

------------------------------------------------------------------------------
(***************************************************************************)
(* What an entry of an opcode leads to, for a ModRM byte and for 32-bit    *)
(* (k = 0) or 64-bit code (k = 1), and when the ModRM byte is counted.     *)
(***************************************************************************)
EscIndex(m) == IF m < \hC0 THEN Extension(m) ELSE 8 + (m % 64)

Resolved(e, m, k) ==
    CASE e.kind = "group"    -> Lookup(e.table, Extension(m))
      [] e.kind = "fpu"      -> Lookup(e.table, EscIndex(m))
      [] e.kind = "ext64"    -> Lookup(e.table, k)
      [] e.kind = "extmodrm" ->
            LET x == Lookup(e.table, m)
            IN  IF x.kind = "group" THEN Lookup(x.table, Extension(m)) ELSE x
      [] OTHER -> e
Whole(e, m) ==
    IF e.kind = "fpu" \/ (e.kind = "extmodrm" /\ Lookup(e.table, m).kind # "group") THEN 1 ELSE 0

SoundEntry(size, b, e) ==
    \A m \in Byte, k \in {0, 1} : Sound(size, b, m, Whole(e, m), Resolved(e, m, k))
SoundRow(size, r) == \A b \in r.codes : SoundEntry(size, b, r.entry)

\* A row of a table a link leads to, for the opcodes that lead there.
SoundInGroup(size, bs, r) ==
    \A b \in bs, m \in Byte : Extension(m) \in r.codes => Sound(size, b, m, 0, r.entry)
SoundInEsc(bs, r) ==
    \A b \in bs, m \in Byte : EscIndex(m) \in r.codes => Sound(1, b, m, 1, r.entry)

\* What is found in a table is one of its rows' entry, or nothing.
LEMMA FindCases ==
    ASSUME NEW rows, NEW b
    PROVE  \/ Find(rows, b) = Invalid
           \/ \E r \in rows : b \in r.codes /\ Find(rows, b) = r.entry
  BY DEF Find

\* The rules by which the rows of the tables are looked through: a list of
\* operands, none, and the links to other tables.
LEMMA OperandsRow ==
    ASSUME NEW size, NEW codes, NEW type, NEW args, NEW place, NEW class,
           Shape(args, place, class),
           Fits(size, codes, type, place, class)
    PROVE  SoundRow(size, Row(codes, type, args))
  <1>. DEFINE e == Row(codes, type, args).entry
  <1>1. e.kind = "op" /\ Row(codes, type, args).codes = codes
    BY RowFields
  <1>2. ASSUME NEW b \in codes, NEW m \in Byte, NEW k \in {0, 1}
        PROVE  Sound(size, b, m, Whole(e, m), e)
    BY <1>2, OperandsSound, FitsClass
  <1>3. \A m \in Byte, k \in {0, 1} : Resolved(e, m, k) = e
    <2>. HIDE DEF e
    <2>. QED BY <1>1 DEF Resolved
  <1>. HIDE DEF e
  <1>. QED BY <1>1, <1>2, <1>3 DEF SoundRow, SoundEntry, e

\* A row without operands is sound if its opcodes have nothing behind them.
LEMMA NoOperandsRow ==
    ASSUME NEW size, NEW codes, NEW type,
           Fits(size, codes, type, "none", "none")
    PROVE  SoundRow(size, Row(codes, type, <<>>))
  <1>. DEFINE e == Row(codes, type, <<>>).entry
  <1>1. e.kind = "op" /\ Row(codes, type, <<>>).codes = codes
    BY RowFields
  <1>2. \A m \in Byte, k \in {0, 1} : Resolved(e, m, k) = e /\ Whole(e, m) = 0
    <2>. HIDE DEF e
    <2>. QED BY <1>1 DEF Resolved, Whole
  <1>3. ASSUME NEW b \in codes, NEW m \in Byte, NEW k \in {0, 1}
        PROVE  Sound(size, b, m, 0, e)
    <2>1. Class(size, b, m, type, "none", "none") /\ ~ ModRMListed(size, b)
      BY FitsClass
    <2>2. ModRMListed(size, b) <=> 0 = 1
      BY <2>1
    <2>. QED BY <2>1, <2>2, NoOperandsSound
  <1>. HIDE DEF e
  <1>. QED BY <1>1, <1>2, <1>3 DEF SoundRow, SoundEntry, e

\* A link to a group is sound if each row of the group is, for the extensions it
\* is for.
LEMMA GroupRow ==
    ASSUME NEW size, NEW codes, NEW table,
           \A r \in Rows[table] : SoundInGroup(size, codes, r)
    PROVE  SoundRow(size, Link(codes, "group", table))
  <1>. DEFINE e == Link(codes, "group", table).entry
  <1>1. e.kind = "group" /\ e.table = table /\ Link(codes, "group", table).codes = codes
    BY LinkFields
  <1>2. \A m \in Byte, k \in {0, 1} :
            Resolved(e, m, k) = Lookup(table, Extension(m)) /\ Whole(e, m) = 0
    <2>. HIDE DEF e
    <2>. QED BY <1>1 DEF Resolved, Whole
  <1>3. ASSUME NEW b \in codes, NEW m \in Byte
        PROVE  Sound(size, b, m, 0, Lookup(table, Extension(m)))
    BY <1>3, FindCases, InvalidSound DEF Lookup, SoundInGroup
  <1>. HIDE DEF e
  <1>. QED BY <1>1, <1>2, <1>3 DEF SoundRow, SoundEntry, e

\* So is a link to a table of floating point instructions.
LEMMA EscRow ==
    ASSUME NEW codes, NEW table,
           \A r \in Rows[table] : SoundInEsc(codes, r)
    PROVE  SoundRow(1, Link(codes, "fpu", table))
  <1>. DEFINE e == Link(codes, "fpu", table).entry
  <1>1. e.kind = "fpu" /\ e.table = table /\ Link(codes, "fpu", table).codes = codes
    BY LinkFields
  <1>2. \A m \in Byte, k \in {0, 1} :
            Resolved(e, m, k) = Lookup(table, EscIndex(m)) /\ Whole(e, m) = 1
    <2>. HIDE DEF e
    <2>. QED BY <1>1 DEF Resolved, Whole
  <1>3. ASSUME NEW b \in codes, NEW m \in Byte
        PROVE  Sound(1, b, m, 1, Lookup(table, EscIndex(m)))
    BY <1>3, FindCases, InvalidSound DEF Lookup, SoundInEsc
  <1>. HIDE DEF e
  <1>. QED BY <1>1, <1>2, <1>3 DEF SoundRow, SoundEntry, e

\* So is a link to a table of 32-bit and 64-bit entries.
LEMMA Ext64Row ==
    ASSUME NEW size, NEW codes, NEW table,
           \A r \in Rows[table], b \in codes, m \in Byte : Sound(size, b, m, 0, r.entry)
    PROVE  SoundRow(size, Link(codes, "ext64", table))
  <1>. DEFINE e == Link(codes, "ext64", table).entry
  <1>1. e.kind = "ext64" /\ e.table = table /\ Link(codes, "ext64", table).codes = codes
    BY LinkFields
  <1>2. \A m \in Byte, k \in {0, 1} : Resolved(e, m, k) = Lookup(table, k) /\ Whole(e, m) = 0
    <2>. HIDE DEF e
    <2>. QED BY <1>1 DEF Resolved, Whole
  <1>3. ASSUME NEW b \in codes, NEW m \in Byte, NEW k
        PROVE  Sound(size, b, m, 0, Lookup(table, k))
    BY <1>3, FindCases, InvalidSound DEF Lookup
  <1>. HIDE DEF e
  <1>. QED BY <1>1, <1>2, <1>3 DEF SoundRow, SoundEntry, e

\* A link that leads to no instruction: a prefix, or the first of size bytes.
LEMMA NoInstructionRow ==
    ASSUME NEW size, NEW codes, NEW kind \in {"prefix", "twobyte"}, NEW table
    PROVE  SoundRow(size, Link(codes, kind, table))
  <1>. DEFINE e == Link(codes, kind, table).entry
  <1>1. e.kind = kind
    BY LinkFields
  <1>2. \A m \in Byte, k \in {0, 1} : Resolved(e, m, k) = e
    <2>. HIDE DEF e
    <2>. QED BY <1>1 DEF Resolved
  <1>. HIDE DEF e
  <1>. QED BY <1>1, <1>2 DEF SoundRow, SoundEntry, Sound, e
\* The lists of the tables with an operand in memory.
LEMMA MemoryLists ==
    /\ Shape(<<Dst("E")>>, "memory", "none")
    /\ Shape(<<Dst("M")>>, "memory", "none")
    /\ Shape(<<Src("E")>>, "memory", "none")
    /\ Shape(<<Src("Ep")>>, "memory", "none")
    /\ Shape(<<Src("M")>>, "memory", "none")
    /\ Shape(<<Dst("E"), Reg>>, "memory", "none")
    /\ Shape(<<Dst("E"), Src("P")>>, "memory", "none")
    /\ Shape(<<Dst("E"), Xmm>>, "memory", "none")
    /\ Shape(<<Dst("M"), Reg>>, "memory", "none")
    /\ Shape(<<Dst("M"), Src("P")>>, "memory", "none")
    /\ Shape(<<Dst("M"), Xmm>>, "memory", "none")
    /\ Shape(<<Dst("Q"), Src("P")>>, "memory", "none")
    /\ Shape(<<Dst("W"), Xmm>>, "memory", "none")
    /\ Shape(<<Reg, Src("E")>>, "memory", "none")
    /\ Shape(<<Reg, Src("M")>>, "memory", "none")
    /\ Shape(<<Reg, Src("W")>>, "memory", "none")
    /\ Shape(<<Src("E"), Reg>>, "memory", "none")
    /\ Shape(<<Src("P"), Src("E")>>, "memory", "none")
    /\ Shape(<<Src("P"), Src("Q")>>, "memory", "none")
    /\ Shape(<<Src("P"), Src("W")>>, "memory", "none")
    /\ Shape(<<Xmm, Src("E")>>, "memory", "none")
    /\ Shape(<<Xmm, Src("M")>>, "memory", "none")
    /\ Shape(<<Xmm, Src("Q")>>, "memory", "none")
    /\ Shape(<<Xmm, Src("W")>>, "memory", "none")
    /\ Shape(<<Dst("E"), Reg, Reg>>, "memory", "none")
    /\ Shape(<<Dst("M"), Reg, Reg>>, "memory", "none")
    /\ Shape(<<Reg, Src("E"), Reg>>, "memory", "none")
  BY MemoryShapes, OperandKinds DEF InMemory

\* The lists with an immediate value behind such an operand.
LEMMA MemoryImmediateLists ==
    /\ Shape(<<Dst("E"), Imm("b")>>, "memory", "b")
    /\ Shape(<<Src("E"), Imm("b")>>, "memory", "b")
    /\ Shape(<<Dst("E"), Reg, Imm("b")>>, "memory", "b")
    /\ Shape(<<Reg, Src("E"), Imm("b")>>, "memory", "b")
    /\ Shape(<<Src("P"), Src("E"), Imm("b")>>, "memory", "b")
    /\ Shape(<<Src("P"), Src("Q"), Imm("b")>>, "memory", "b")
    /\ Shape(<<Xmm, Src("E"), Imm("b")>>, "memory", "b")
    /\ Shape(<<Xmm, Src("W"), Imm("b")>>, "memory", "b")
    /\ Shape(<<Dst("E"), Imm("z")>>, "memory", "z")
    /\ Shape(<<Src("E"), Imm("z")>>, "memory", "z")
    /\ Shape(<<Reg, Src("E"), Imm("z")>>, "memory", "z")
  BY MemoryImmediateShapes, OperandKinds DEF InMemory

\* The lists without an operand that takes a byte, and those of immediate values.
LEMMA PlainLists ==
    /\ Shape(<<Reg>>, "none", "none")
    /\ Shape(<<Reg, Reg>>, "none", "none")
    /\ Shape(<<Reg, Reg, Reg>>, "none", "none")
    /\ Shape(<<Imm("b")>>, "none", "b")
    /\ Shape(<<Imm("b"), Reg>>, "none", "b")
    /\ Shape(<<Reg, Imm("b")>>, "none", "b")
    /\ Shape(<<Imm("w")>>, "none", "w")
    /\ Shape(<<Imm("z")>>, "none", "z")
    /\ Shape(<<Reg, Imm("z")>>, "none", "z")
    /\ Shape(<<Reg, Imm("v")>>, "none", "v")
  BY PlainShapes, ImmediateShapes, OperandKinds

\* The lists with an operand that has to be in a register.
LEMMA RegisterLists ==
    /\ Shape(<<Reg, Src("PR")>>, "register", "none")
    /\ Shape(<<Reg, Src("R")>>, "register", "none")
    /\ Shape(<<Reg, Src("VR")>>, "register", "none")
    /\ Shape(<<Src("P"), Src("PR")>>, "register", "none")
    /\ Shape(<<Src("P"), Src("VR")>>, "register", "none")
    /\ Shape(<<Src("R"), Reg>>, "register", "none")
    /\ Shape(<<Xmm, Src("PR")>>, "register", "none")
    /\ Shape(<<Xmm, Src("VR")>>, "register", "none")
    /\ Shape(<<Src("PR"), Imm("b")>>, "register", "b")
    /\ Shape(<<Src("VR"), Imm("b")>>, "register", "b")
    /\ Shape(<<Reg, Src("PR"), Imm("b")>>, "register", "b")
    /\ Shape(<<Reg, Src("VR"), Imm("b")>>, "register", "b")
  BY RegisterShapes, OperandKinds DEF InRegister
\* The tables that links name.
LEMMA Tables ==
    /\ Rows["Group_1_b"] = X86_Group_1_b
    /\ Rows["Group_1_z"] = X86_Group_1_z
    /\ Rows["Group_2_b"] = X86_Group_2_b
    /\ Rows["Group_2_r"] = X86_Group_2_r
    /\ Rows["Group_3_F6"] = X86_Group_3("b")
    /\ Rows["Group_3_F7"] = X86_Group_3("z")
    /\ Rows["Group_4"] = X86_Group_4
    /\ Rows["Group_5"] = X86_Group_5
    /\ Rows["Group_6"] = X86_Group_6
    /\ Rows["Group_7"] = X86_Group_7
    /\ Rows["Group_8"] = X86_Group_8
    /\ Rows["Group_9"] = X86_Group_9
    /\ Rows["Group_10"] = X86_Group_10
    /\ Rows["Group_11"] = X86_Group_11
    /\ Rows["Group_12_C6"] = X86_Group_12("b")
    /\ Rows["Group_12_C7"] = X86_Group_12("z")
    /\ Rows["Group_13"] = X86_Group_13_14
    /\ Rows["Group_14"] = X86_Group_13_14
    /\ Rows["Group_15"] = X86_Group_15
    /\ Rows["Group_16"] = X86_Group_16
    /\ Rows["Group_17"] = X86_Group_17
    /\ Rows["Group_P"] = X86_Group_P
    /\ Rows["ESC_0"] = X86_ESC_0
    /\ Rows["ESC_1"] = X86_ESC_1
    /\ Rows["ESC_2"] = X86_ESC_2
    /\ Rows["ESC_3"] = X86_ESC_3
    /\ Rows["ESC_4"] = X86_ESC_4
    /\ Rows["ESC_5"] = X86_ESC_5
    /\ Rows["ESC_6"] = X86_ESC_6
    /\ Rows["ESC_7"] = X86_ESC_7
    /\ Rows["SSE2_Group_13"] = X86_SSE2_Group_13_14
    /\ Rows["SSE2_Group_14"] = X86_SSE2_Group_13_14
    /\ Rows["SSE2_Group_15"] = X86_SSE2_Group_15
    /\ Rows["Suffix_3DNOW"] = X86_3DNOW_0F
    /\ Rows["Opcode_63"] = X86_Opcode_63
    /\ Rows["Opcode_0F05"] = X86_Opcode_0F05
    /\ Rows["ModRM_0F01"] = X86_0F01_ModRM
  BY DEF Rows
\* LOOP and JECXZ have a type of their own.
LEMMA LoopRow == SoundRow(1, Row(\hE0..\hE3, "loopcc", <<Jump("b")>>))
  <1>. DEFINE e == Row(\hE0..\hE3, "loopcc", <<Jump("b")>>).entry
  <1>1. /\ e.kind = "op" /\ e.type = "loopcc" /\ e.args = <<Jump("b")>>
        /\ Row(\hE0..\hE3, "loopcc", <<Jump("b")>>).codes = \hE0..\hE3
    BY RowFields
  <1>2. e.args # <<>>
    <2>1. Shape(e.args, "jump", "b")
      BY <1>1, OtherShapes
    <2>. QED BY <2>1 DEF Shape
  <1>. HIDE DEF e
  <1>3. \A m \in Byte, k \in {0, 1} : Resolved(e, m, k) = e
    BY <1>1 DEF Resolved
  <1>4. ASSUME NEW b \in \hE0..\hE3, NEW m \in Byte, NEW w
        PROVE  Sound(1, b, m, w, e)
    <2>1. /\ ~ ModRMListed(1, b) /\ ~ HasModRMBy(1, b)
          /\ ImmediateClass(1, b, m) = "b"
      BY DEF ModRMListed, HasModRMBy, OneByteModRM, X86_ModRM_1, Alu, ImmediateClass,
             OneByteClass
    <2>2. Shape(e.args, "jump", "b") /\ Places("jump", FALSE, m)
      BY <1>1, OtherShapes DEF Places
    <2>3. Counted(1, b, m, w, e)
      <3>1. Places("jump", ModRMListed(1, b), m)
        BY <2>1 DEF Places
      <3>. QED BY <1>1, <1>2, <2>1, <2>2, <3>1 DEF Counted
    <2>4. ~ IsTransfer(1, b, m)
      BY DEF IsTransfer, Transfers1
    <2>. QED BY <1>1, <2>3, <2>4 DEF Sound
  <1>. QED BY <1>1, <1>3, <1>4 DEF SoundRow, SoundEntry, e

\* The arithmetic operations by the low bits of their opcodes.
LEMMA AluCodes ==
    \A ks \in SUBSET (0..7) : \A b : b \in Alu(ks) <=> b \in \h00..\h3F /\ b % 8 \in ks
  <1>. SUFFICES ASSUME NEW ks \in SUBSET (0..7), NEW b
                PROVE  b \in Alu(ks) <=> b \in \h00..\h3F /\ b % 8 \in ks
    OBVIOUS
  <1>1. ASSUME b \in Alu(ks) PROVE b \in \h00..\h3F /\ b % 8 \in ks
    <2>1. PICK i \in 0..7, k \in ks : b = 8 * i + k
      BY <1>1 DEF Alu
    <2>. QED BY <2>1
  <1>2. ASSUME b \in \h00..\h3F, b % 8 \in ks PROVE b \in Alu(ks)
    <2>1. b = 8 * (b \div 8) + (b % 8) /\ b \div 8 \in 0..7
      BY <1>2
    <2>. QED BY <1>2, <2>1 DEF Alu
  <1>. QED BY <1>1, <1>2

\* The opcodes of the arithmetic instructions, by their last three bits.
LEMMA AluRows ==
    /\ \A b \in Alu({0, 1}) : b \in \h00..\h3F /\ b % 8 \in {0, 1}
    /\ \A b \in Alu({2, 3}) : b \in \h00..\h3F /\ b % 8 \in {2, 3}
    /\ \A b \in Alu({4}) : b \in \h00..\h3F /\ b % 8 = 4
    /\ \A b \in Alu({5}) : b \in \h00..\h3F /\ b % 8 = 5
  <1>1. /\ {0, 1} \in SUBSET (0..7) /\ {2, 3} \in SUBSET (0..7)
        /\ {4} \in SUBSET (0..7) /\ {5} \in SUBSET (0..7)
    OBVIOUS
  <1>2. \A ks \in SUBSET (0..7) : \A b \in Alu(ks) : b \in \h00..\h3F /\ b % 8 \in ks
    BY AluCodes
  <1>. QED BY <1>1, <1>2

\* Of the opcodes of one byte the table lists those with a ModRM byte.
LEMMA ModRM_1_Agrees == X86_ModRM_1 = OneByteModRM
  <1>1. \A b : b \in Alu(0..3) <=> b \in \h00..\h3F /\ b % 8 < 4
    <2>1. 0..3 \in SUBSET (0..7)
      OBVIOUS
    <2>2. \A b \in \h00..\h3F : b % 8 \in 0..3 <=> b % 8 < 4
      OBVIOUS
    <2>. QED BY <2>1, <2>2, AluCodes
  <1>. QED BY <1>1 DEF X86_ModRM_1, OneByteModRM

\* Their rows fit them.
LEMMA AluFits ==
    /\ Fits(1, Alu({0, 1}) \ {\h38, \h39}, "other", "memory", "none")
    /\ Fits(1, Alu({2, 3}), "other", "memory", "none")
    /\ Fits(1, Alu({4}), "other", "none", "b")
    /\ Fits(1, Alu({5}), "other", "none", "z")
  <1>1. \A b : ModRMListed(1, b) <=> HasModRMBy(1, b)
    BY ModRM_1_Agrees DEF ModRMListed, HasModRMBy
  <1>2. /\ \A b \in Alu({0, 1}) \cup Alu({2, 3}) : ModRMListed(1, b)
        /\ \A b \in Alu({4}) \cup Alu({5}) : ~ ModRMListed(1, b)
    BY AluRows, ModRM_1_Agrees DEF ModRMListed, OneByteModRM
  <1>3. \A b \in \h00..\h3F : ~ IsLoop(1, b)
    BY DEF IsLoop
  <1>4. \A b \in \h00..\h3F, m \in Byte : ~ IsTransfer(1, b, m)
    BY DEF IsTransfer, Transfers1
  <1>5. /\ \A b \in Alu({0, 1}) \cup Alu({2, 3}), m \in Byte : ImmediateClass(1, b, m) = "none"
        /\ \A b \in Alu({4}), m \in Byte : ImmediateClass(1, b, m) = "b"
        /\ \A b \in Alu({5}), m \in Byte : ImmediateClass(1, b, m) = "z"
    BY AluRows DEF ImmediateClass, OneByteClass
  <1>6. Fits(1, Alu({0, 1}) \ {\h38, \h39}, "other", "memory", "none")
    BY <1>1, <1>2, <1>3, <1>4, <1>5, AluRows DEF Fits
  <1>7. Fits(1, Alu({2, 3}), "other", "memory", "none")
    BY <1>1, <1>2, <1>3, <1>4, <1>5, AluRows DEF Fits
  <1>8. Fits(1, Alu({4}), "other", "none", "b")
    BY <1>1, <1>2, <1>3, <1>4, <1>5, AluRows DEF Fits
  <1>9. Fits(1, Alu({5}), "other", "none", "z")
    BY <1>1, <1>2, <1>3, <1>4, <1>5, AluRows DEF Fits
  <1>. QED BY <1>6, <1>7, <1>8, <1>9

\* INC, DEC, PUSH, POP and the likes, one byte each.
LEMMA RegisterFits ==
    Fits(1, {\h06, \h07, \h0E, \h16, \h17, \h1E, \h1F, \h27, \h2F, \h37} \cup \h3F..\h5F,
         "other", "none", "none")
  <1>. DEFINE codes == {\h06, \h07, \h0E, \h16, \h17, \h1E, \h1F, \h27, \h2F, \h37} \cup \h3F..\h5F
  <1>1. \A b \in codes : b \in \h40..\h5F \/ (b \in \h00..\h3F /\ b % 8 \in {6, 7})
    OBVIOUS
  <1>. HIDE DEF codes
  <1>2. \A b \in codes : ~ ModRMListed(1, b) /\ ~ HasModRMBy(1, b)
    BY <1>1, ModRM_1_Agrees DEF ModRMListed, HasModRMBy, OneByteModRM
  <1>3. \A b \in codes : ~ IsLoop(1, b)
    BY <1>1 DEF IsLoop
  <1>4. \A b \in codes, m \in Byte : ImmediateClass(1, b, m) = "none"
    BY <1>1 DEF ImmediateClass, OneByteClass
  <1>5. \A b \in codes, m \in Byte : ~ IsTransfer(1, b, m)
    BY <1>1 DEF IsTransfer, Transfers1
  <1>6. Fits(1, codes, "other", "none", "none")
    BY <1>2, <1>3, <1>4, <1>5 DEF Fits
  <1>. QED BY <1>6 DEF codes

------------------------------------------------------------------------------
(***************************************************************************)
(* Groups.  Every opcode that leads to one has a ModRM byte.               *)
(***************************************************************************)
FitsIn(size, bs, index, type, place, class) ==
    /\ \A b \in bs : ModRMListed(size, b) /\ HasModRMBy(size, b) /\ ~ IsLoop(size, b)
    /\ \A b \in bs, m \in Byte : Extension(m) \in index => ImmediateClass(size, b, m) = class
    /\ \A b \in bs, m \in Byte :
          Extension(m) \in index /\ IsTransfer(size, b, m) => type \in TransferTypes
    /\ place \in {"memory", "register"}
    /\ type \in {"mov", "lea"} => size = 1

\* A row of a group with operands is sound.
LEMMA OperandsInGroup ==
    ASSUME NEW size, NEW bs, NEW index, NEW type, NEW args, NEW place, NEW class,
           Shape(args, place, class), FitsIn(size, bs, index, type, place, class)
    PROVE  SoundInGroup(size, bs, Row(index, type, args))
  <1>1. ASSUME NEW b \in bs, NEW m \in Byte, Extension(m) \in index
        PROVE  Class(size, b, m, type, place, class)
    BY <1>1 DEF FitsIn, Class, Places, IsMiscounted
  <1>2. ASSUME NEW b \in bs, NEW m \in Byte, Extension(m) \in index
        PROVE  Sound(size, b, m, 0, Row(index, type, args).entry)
    BY <1>1, <1>2, OperandsSound
  <1>3. Row(index, type, args).codes = index
    BY RowFields
  <1>. QED BY <1>2, <1>3 DEF SoundInGroup

\* So is one whose opcodes are counted wrong.
LEMMA MiscountedInGroup ==
    ASSUME NEW size, NEW bs, NEW index, NEW type, NEW args, type \notin {"mov", "lea"},
           \A b \in bs, m \in Byte : Extension(m) \in index => IsMiscounted(size, b, m)
    PROVE  SoundInGroup(size, bs, Row(index, type, args))
  <1>1. ASSUME NEW b \in bs, NEW m \in Byte, Extension(m) \in index
        PROVE  Sound(size, b, m, 0, Row(index, type, args).entry)
    BY <1>1, MiscountedSound
  <1>2. Row(index, type, args).codes = index
    BY RowFields
  <1>. QED BY <1>1, <1>2 DEF SoundInGroup

\* The groups of the opcodes of one byte.
LEMMA OneByteGroups ==
    /\ SoundRow(1, Link({\h80, \h82, \h83}, "group", "Group_1_b"))
    /\ SoundRow(1, Link({\h81}, "group", "Group_1_z"))
    /\ SoundRow(1, Link({\h8F}, "group", "Group_10"))
    /\ SoundRow(1, Link({\hC0, \hC1}, "group", "Group_2_b"))
    /\ SoundRow(1, Link({\hD0, \hD1, \hD2, \hD3}, "group", "Group_2_r"))
    /\ SoundRow(1, Link({\hC6}, "group", "Group_12_C6"))
    /\ SoundRow(1, Link({\hC7}, "group", "Group_12_C7"))
    /\ SoundRow(1, Link({\hF6}, "group", "Group_3_F6"))
    /\ SoundRow(1, Link({\hF7}, "group", "Group_3_F7"))
    /\ SoundRow(1, Link({\hFE}, "group", "Group_4"))
    /\ SoundRow(1, Link({\hFF}, "group", "Group_5"))
  <1>. DEFINE D == {\h80, \h81, \h82, \h83, \h8F, \hC0, \hC1, \hD0, \hD1, \hD2, \hD3, \hC6, \hC7,
                    \hF6, \hF7, \hFE, \hFF}
  <1>1. \A b \in D : ModRMListed(1, b) /\ HasModRMBy(1, b) /\ ~ IsLoop(1, b)
    BY ModRM_1_Agrees DEF ModRMListed, HasModRMBy, IsLoop, OneByteModRM
  <1>2. \A b \in D \ {\hFF} : \A m : ~ IsTransfer(1, b, m)
    BY DEF IsTransfer, Transfers1
  <1>3. \A b \in {\h80, \h82, \h83, \hC0, \hC1, \hC6} : \A m : ImmediateClass(1, b, m) = "b"
    BY DEF ImmediateClass, OneByteClass
  <1>4. \A b \in {\h81, \hC7} : \A m : ImmediateClass(1, b, m) = "z"
    BY DEF ImmediateClass, OneByteClass
  <1>5. \A b \in {\h8F, \hD0, \hD1, \hD2, \hD3, \hFE, \hFF} : \A m : ImmediateClass(1, b, m) = "none"
    BY DEF ImmediateClass, OneByteClass
  <1>6. \A m : /\ ImmediateClass(1, \hF6, m) = IF Extension(m) \in {0, 1} THEN "b" ELSE "none"
               /\ ImmediateClass(1, \hF7, m) = IF Extension(m) \in {0, 1} THEN "z" ELSE "none"
    BY DEF ImmediateClass, OneByteClass
  <1>7. \A m : IsTransfer(1, \hFF, m) => Extension(m) \in 2..5
    BY DEF IsTransfer, Transfers1
  <1>. HIDE DEF D
  <1>8. SoundRow(1, Link({\h80, \h82, \h83}, "group", "Group_1_b"))
    <2>1. /\ FitsIn(1, {\h80, \h82, \h83}, 0..6, "other", "memory", "b")
          /\ FitsIn(1, {\h80, \h82, \h83}, {7}, "other", "memory", "b")
      BY <1>1, <1>2, <1>3 DEF FitsIn, D
    <2>2. \A r \in X86_Group_1_b : SoundInGroup(1, {\h80, \h82, \h83}, r)
      BY <2>1, OperandsInGroup, MemoryImmediateLists DEF X86_Group_1_b, Other
    <2>. QED BY <2>2, GroupRow, Tables
  <1>9. SoundRow(1, Link({\h81}, "group", "Group_1_z"))
    <2>1. /\ FitsIn(1, {\h81}, 0..6, "other", "memory", "z")
          /\ FitsIn(1, {\h81}, {7}, "other", "memory", "z")
      BY <1>1, <1>2, <1>4 DEF FitsIn, D
    <2>2. \A r \in X86_Group_1_z : SoundInGroup(1, {\h81}, r)
      BY <2>1, OperandsInGroup, MemoryImmediateLists DEF X86_Group_1_z, Other
    <2>. QED BY <2>2, GroupRow, Tables
  <1>10. SoundRow(1, Link({\h8F}, "group", "Group_10"))
    <2>1. FitsIn(1, {\h8F}, {0}, "other", "memory", "none")
      BY <1>1, <1>2, <1>5 DEF FitsIn, D
    <2>2. \A r \in X86_Group_10 : SoundInGroup(1, {\h8F}, r)
      BY <2>1, OperandsInGroup, MemoryLists DEF X86_Group_10, Other
    <2>. QED BY <2>2, GroupRow, Tables
  <1>11. SoundRow(1, Link({\hC0, \hC1}, "group", "Group_2_b"))
    <2>1. FitsIn(1, {\hC0, \hC1}, 0..7, "other", "memory", "b")
      BY <1>1, <1>2, <1>3 DEF FitsIn, D
    <2>2. \A r \in X86_Group_2_b : SoundInGroup(1, {\hC0, \hC1}, r)
      BY <2>1, OperandsInGroup, MemoryImmediateLists DEF X86_Group_2_b, Other
    <2>. QED BY <2>2, GroupRow, Tables
  <1>12. SoundRow(1, Link({\hD0, \hD1, \hD2, \hD3}, "group", "Group_2_r"))
    <2>1. FitsIn(1, {\hD0, \hD1, \hD2, \hD3}, 0..7, "other", "memory", "none")
      BY <1>1, <1>2, <1>5 DEF FitsIn, D
    <2>2. \A r \in X86_Group_2_r : SoundInGroup(1, {\hD0, \hD1, \hD2, \hD3}, r)
      BY <2>1, OperandsInGroup, MemoryLists DEF X86_Group_2_r, Other
    <2>. QED BY <2>2, GroupRow, Tables
  <1>13. SoundRow(1, Link({\hC6}, "group", "Group_12_C6"))
    <2>1. FitsIn(1, {\hC6}, {0}, "mov", "memory", "b")
      BY <1>1, <1>2, <1>3 DEF FitsIn, D
    <2>2. \A r \in X86_Group_12("b") : SoundInGroup(1, {\hC6}, r)
      BY <2>1, OperandsInGroup, MemoryImmediateLists DEF X86_Group_12
    <2>. QED BY <2>2, GroupRow, Tables
  <1>14. SoundRow(1, Link({\hC7}, "group", "Group_12_C7"))
    <2>1. FitsIn(1, {\hC7}, {0}, "mov", "memory", "z")
      BY <1>1, <1>2, <1>4 DEF FitsIn, D
    <2>2. \A r \in X86_Group_12("z") : SoundInGroup(1, {\hC7}, r)
      BY <2>1, OperandsInGroup, MemoryImmediateLists DEF X86_Group_12
    <2>. QED BY <2>2, GroupRow, Tables
  <1>15. SoundRow(1, Link({\hF6}, "group", "Group_3_F6"))
    <2>1. /\ FitsIn(1, {\hF6}, {0, 1}, "other", "memory", "b")
          /\ FitsIn(1, {\hF6}, {2, 3}, "other", "memory", "none")
          /\ FitsIn(1, {\hF6}, 4..7, "other", "memory", "none")
      BY <1>1, <1>2, <1>6 DEF FitsIn, D
    <2>2. \A r \in X86_Group_3("b") : SoundInGroup(1, {\hF6}, r)
      BY <2>1, OperandsInGroup, MemoryLists, MemoryImmediateLists DEF X86_Group_3, Other
    <2>. QED BY <2>2, GroupRow, Tables
  <1>16. SoundRow(1, Link({\hF7}, "group", "Group_3_F7"))
    <2>1. /\ FitsIn(1, {\hF7}, {0, 1}, "other", "memory", "z")
          /\ FitsIn(1, {\hF7}, {2, 3}, "other", "memory", "none")
          /\ FitsIn(1, {\hF7}, 4..7, "other", "memory", "none")
      BY <1>1, <1>2, <1>6 DEF FitsIn, D
    <2>2. \A r \in X86_Group_3("z") : SoundInGroup(1, {\hF7}, r)
      BY <2>1, OperandsInGroup, MemoryLists, MemoryImmediateLists DEF X86_Group_3, Other
    <2>. QED BY <2>2, GroupRow, Tables
  <1>17. SoundRow(1, Link({\hFE}, "group", "Group_4"))
    <2>1. FitsIn(1, {\hFE}, {0, 1}, "other", "memory", "none")
      BY <1>1, <1>2, <1>5 DEF FitsIn, D
    <2>2. \A r \in X86_Group_4 : SoundInGroup(1, {\hFE}, r)
      BY <2>1, OperandsInGroup, MemoryLists DEF X86_Group_4, Other
    <2>. QED BY <2>2, GroupRow, Tables
  <1>18. SoundRow(1, Link({\hFF}, "group", "Group_5"))
    <2>1. /\ FitsIn(1, {\hFF}, {0, 1}, "other", "memory", "none")
          /\ FitsIn(1, {\hFF}, {2}, "call", "memory", "none")
          /\ FitsIn(1, {\hFF}, {3}, "call", "memory", "none")
          /\ FitsIn(1, {\hFF}, {4}, "branch", "memory", "none")
          /\ FitsIn(1, {\hFF}, {5}, "branch", "memory", "none")
          /\ FitsIn(1, {\hFF}, {6}, "other", "memory", "none")
      BY <1>1, <1>5, <1>7 DEF FitsIn, TransferTypes, D
    <2>2. \A r \in X86_Group_5 : SoundInGroup(1, {\hFF}, r)
      BY <2>1, OperandsInGroup, MemoryLists DEF X86_Group_5, Other
    <2>. QED BY <2>2, GroupRow, Tables
  <1>. QED
    BY <1>8, <1>9, <1>10, <1>11, <1>12, <1>13, <1>14, <1>15, <1>16, <1>17, <1>18

\* The groups of the opcodes of two bytes, with and without a prefix that is
\* part of the opcode.
LEMMA TwoByteGroups ==
    /\ SoundRow(2, Link({\h00}, "group", "Group_6"))
    /\ SoundRow(2, Link({\h0D}, "group", "Group_P"))
    /\ SoundRow(2, Link({\h18}, "group", "Group_17"))
    /\ SoundRow(2, Link({\h71}, "group", "Group_13"))
    /\ SoundRow(2, Link({\h72}, "group", "Group_14"))
    /\ SoundRow(2, Link({\h73}, "group", "Group_15"))
    /\ SoundRow(2, Link({\hAE}, "group", "Group_16"))
    /\ SoundRow(2, Link({\hB9}, "group", "Group_11"))
    /\ SoundRow(2, Link({\hBA}, "group", "Group_8"))
    /\ SoundRow(2, Link({\hC7}, "group", "Group_9"))
    /\ SoundRow(2, Link({\h71}, "group", "SSE2_Group_13"))
    /\ SoundRow(2, Link({\h72}, "group", "SSE2_Group_14"))
    /\ SoundRow(2, Link({\h73}, "group", "SSE2_Group_15"))
  <1>. DEFINE D == {\h00, \h0D, \h18, \h71, \h72, \h73, \hAE, \hBA, \hC7}
  <1>1. \A b \in D : ModRMListed(2, b) /\ HasModRMBy(2, b) /\ ~ IsLoop(2, b)
    BY DEF ModRMListed, HasModRMBy, IsLoop, X86_ModRM_2, TwoByteNoModRM
  <1>2. \A b \in D : \A m : ~ IsTransfer(2, b, m)
    BY DEF IsTransfer
  <1>3. \A b \in {\h00, \h0D, \h18, \hAE, \hC7} : \A m : ImmediateClass(2, b, m) = "none"
    BY DEF ImmediateClass, TwoByteClass
  <1>4. \A b \in {\h71, \h72, \h73, \hBA} : \A m : ImmediateClass(2, b, m) = "b"
    BY DEF ImmediateClass, TwoByteClass
  <1>. HIDE DEF D
  <1>5. SoundRow(2, Link({\h00}, "group", "Group_6"))
    <2>1. /\ FitsIn(2, {\h00}, {0, 1}, "other", "memory", "none")
          /\ FitsIn(2, {\h00}, 2..5, "other", "memory", "none")
          /\ FitsIn(2, {\h00}, {6}, "jmpe", "memory", "none")
      BY <1>1, <1>2, <1>3 DEF FitsIn, D
    <2>2. \A r \in X86_Group_6 : SoundInGroup(2, {\h00}, r)
      BY <2>1, OperandsInGroup, MemoryLists DEF X86_Group_6, Other
    <2>. QED BY <2>2, GroupRow, Tables
  <1>6. SoundRow(2, Link({\h0D}, "group", "Group_P"))
    <2>1. FitsIn(2, {\h0D}, {0, 1}, "other", "memory", "none")
      BY <1>1, <1>2, <1>3 DEF FitsIn, D
    <2>2. \A r \in X86_Group_P : SoundInGroup(2, {\h0D}, r)
      BY <2>1, OperandsInGroup, MemoryLists DEF X86_Group_P, Other
    <2>. QED BY <2>2, GroupRow, Tables
  <1>7. SoundRow(2, Link({\h18}, "group", "Group_17"))
    <2>1. FitsIn(2, {\h18}, 0..7, "other", "memory", "none")
      BY <1>1, <1>2, <1>3 DEF FitsIn, D
    <2>2. \A r \in X86_Group_17 : SoundInGroup(2, {\h18}, r)
      BY <2>1, OperandsInGroup, MemoryLists DEF X86_Group_17, Other
    <2>. QED BY <2>2, GroupRow, Tables
  <1>8. SoundRow(2, Link({\h71}, "group", "Group_13"))
    <2>1. FitsIn(2, {\h71}, {2, 4, 6}, "media", "register", "b")
      BY <1>1, <1>2, <1>4 DEF FitsIn, D
    <2>2. \A r \in X86_Group_13_14 : SoundInGroup(2, {\h71}, r)
      BY <2>1, OperandsInGroup, RegisterLists DEF X86_Group_13_14
    <2>. QED BY <2>2, GroupRow, Tables
  <1>9. SoundRow(2, Link({\h72}, "group", "Group_14"))
    <2>1. FitsIn(2, {\h72}, {2, 4, 6}, "media", "register", "b")
      BY <1>1, <1>2, <1>4 DEF FitsIn, D
    <2>2. \A r \in X86_Group_13_14 : SoundInGroup(2, {\h72}, r)
      BY <2>1, OperandsInGroup, RegisterLists DEF X86_Group_13_14
    <2>. QED BY <2>2, GroupRow, Tables
  <1>10. SoundRow(2, Link({\h73}, "group", "Group_15"))
    <2>1. FitsIn(2, {\h73}, {2, 3, 6, 7}, "media", "register", "b")
      BY <1>1, <1>2, <1>4 DEF FitsIn, D
    <2>2. \A r \in X86_Group_15 : SoundInGroup(2, {\h73}, r)
      BY <2>1, OperandsInGroup, RegisterLists DEF X86_Group_15
    <2>. QED BY <2>2, GroupRow, Tables
  <1>11. SoundRow(2, Link({\hAE}, "group", "Group_16"))
    <2>1. /\ FitsIn(2, {\hAE}, {0}, "fpu", "memory", "none")
          /\ FitsIn(2, {\hAE}, {1}, "fpu", "memory", "none")
          /\ FitsIn(2, {\hAE}, {2}, "media", "memory", "none")
          /\ FitsIn(2, {\hAE}, {3}, "media", "memory", "none")
      BY <1>1, <1>2, <1>3 DEF FitsIn, D
    <2>2. \A m \in Byte : Extension(m) \in {5, 6, 7} => IsMiscounted(2, \hAE, m)
      BY DEF IsMiscounted
    <2>3. \A r \in X86_Group_16 : SoundInGroup(2, {\hAE}, r)
      BY <2>1, OperandsInGroup, MemoryLists, <2>2, MiscountedInGroup DEF X86_Group_16, Other
    <2>. QED BY <2>3, GroupRow, Tables
  <1>12. SoundRow(2, Link({\hB9}, "group", "Group_11"))
    <2>1. \A m \in Byte : Extension(m) \in 0..7 => IsMiscounted(2, \hB9, m)
      BY DEF IsMiscounted
    <2>2. \A r \in X86_Group_11 : SoundInGroup(2, {\hB9}, r)
      BY <2>1, MiscountedInGroup DEF X86_Group_11, Other
    <2>. QED BY <2>2, GroupRow, Tables
  <1>13. SoundRow(2, Link({\hBA}, "group", "Group_8"))
    <2>1. FitsIn(2, {\hBA}, 4..7, "other", "memory", "b")
      BY <1>1, <1>2, <1>4 DEF FitsIn, D
    <2>2. \A r \in X86_Group_8 : SoundInGroup(2, {\hBA}, r)
      BY <2>1, OperandsInGroup, MemoryImmediateLists DEF X86_Group_8, Other
    <2>. QED BY <2>2, GroupRow, Tables
  <1>14. SoundRow(2, Link({\hC7}, "group", "Group_9"))
    <2>1. FitsIn(2, {\hC7}, {1}, "other", "memory", "none")
      BY <1>1, <1>2, <1>3 DEF FitsIn, D
    <2>2. \A r \in X86_Group_9 : SoundInGroup(2, {\hC7}, r)
      BY <2>1, OperandsInGroup, MemoryLists DEF X86_Group_9, Other
    <2>. QED BY <2>2, GroupRow, Tables
  <1>15. SoundRow(2, Link({\h71}, "group", "SSE2_Group_13"))
    <2>1. FitsIn(2, {\h71}, {2, 4, 6}, "media", "register", "b")
      BY <1>1, <1>2, <1>4 DEF FitsIn, D
    <2>2. \A r \in X86_SSE2_Group_13_14 : SoundInGroup(2, {\h71}, r)
      BY <2>1, OperandsInGroup, RegisterLists DEF X86_SSE2_Group_13_14, Media
    <2>. QED BY <2>2, GroupRow, Tables
  <1>16. SoundRow(2, Link({\h72}, "group", "SSE2_Group_14"))
    <2>1. FitsIn(2, {\h72}, {2, 4, 6}, "media", "register", "b")
      BY <1>1, <1>2, <1>4 DEF FitsIn, D
    <2>2. \A r \in X86_SSE2_Group_13_14 : SoundInGroup(2, {\h72}, r)
      BY <2>1, OperandsInGroup, RegisterLists DEF X86_SSE2_Group_13_14, Media
    <2>. QED BY <2>2, GroupRow, Tables
  <1>17. SoundRow(2, Link({\h73}, "group", "SSE2_Group_15"))
    <2>1. FitsIn(2, {\h73}, {2, 3, 6, 7}, "media", "register", "b")
      BY <1>1, <1>2, <1>4 DEF FitsIn, D
    <2>2. \A r \in X86_SSE2_Group_15 : SoundInGroup(2, {\h73}, r)
      BY <2>1, OperandsInGroup, RegisterLists DEF X86_SSE2_Group_15, Media
    <2>. QED BY <2>2, GroupRow, Tables
  <1>. QED
    BY <1>5, <1>6, <1>7, <1>8, <1>9, <1>10, <1>11, <1>12, <1>13, <1>14, <1>15, <1>16, <1>17

------------------------------------------------------------------------------
(***************************************************************************)
(* The floating point instructions, and the tables that are no groups.     *)
(***************************************************************************)
LEMMA EscapeOpcodes ==
    \A b \in \hD8..\hDF : \A m :
        /\ ModRMListed(1, b) /\ HasModRMBy(1, b) /\ ~ IsLoop(1, b)
        /\ ImmediateClass(1, b, m) = "none" /\ ~ IsTransfer(1, b, m)
  <1>1. \A b \in \hD8..\hDF : ModRMListed(1, b) /\ HasModRMBy(1, b) /\ ~ IsLoop(1, b)
    BY ModRM_1_Agrees DEF ModRMListed, HasModRMBy, IsLoop, OneByteModRM
  <1>2. \A b \in \hD8..\hDF : \A m : ImmediateClass(1, b, m) = "none"
    BY DEF ImmediateClass, OneByteClass
  <1>3. \A b \in \hD8..\hDF : \A m : ~ IsTransfer(1, b, m)
    BY DEF IsTransfer, Transfers1
  <1>. QED BY <1>1, <1>2, <1>3

\* An instruction with an operand in memory, and one whose ModRM byte says it all.
LEMMA EscapeMemoryRow ==
    ASSUME NEW b \in \hD8..\hDF, NEW mem, NEW type
    PROVE  SoundInEsc({b}, Row(mem, type, <<Src("M")>>))
  <1>1. \A m \in Byte : Class(1, b, m, type, "memory", "none")
    BY EscapeOpcodes DEF Class, Places, IsMiscounted
  <1>2. \A m \in Byte : Sound(1, b, m, 1, Row(mem, type, <<Src("M")>>).entry)
    BY <1>1, MemoryLists, OperandsSound
  <1>3. Row(mem, type, <<Src("M")>>).codes = mem
    BY RowFields
  <1>. QED BY <1>2, <1>3 DEF SoundInEsc

\* A floating point instruction on registers has nothing behind its ModRM byte.
LEMMA EscapeRegisterRow ==
    ASSUME NEW b \in \hD8..\hDF, NEW regs, NEW type, regs \cap 0..7 = {}
    PROVE  /\ SoundInEsc({b}, Row(regs, type, <<Reg>>))
           /\ SoundInEsc({b}, Row(regs, type, <<>>))
  <1>1. ASSUME NEW m \in Byte, EscIndex(m) \in regs
        PROVE  m >= \hC0
    <2>1. m < \hC0 => EscIndex(m) \in 0..7
      BY DEF EscIndex, Extension, Byte
    <2>. QED BY <1>1, <2>1 DEF Byte
  <1>2. \A m \in Byte : EscIndex(m) \in regs => Class(1, b, m, type, "none", "none")
    BY EscapeOpcodes, <1>1 DEF Class, Places, IsMiscounted
  <1>3. \A m \in Byte : EscIndex(m) \in regs => Sound(1, b, m, 1, Row(regs, type, <<Reg>>).entry)
    BY <1>2, PlainLists, OperandsSound
  <1>4. ASSUME NEW m \in Byte, EscIndex(m) \in regs
        PROVE  Sound(1, b, m, 1, Row(regs, type, <<>>).entry)
    <2>1. Counted(1, b, m, 1, Row(regs, type, <<>>).entry)
      BY <1>1, <1>4, EscapeOpcodes, RowFields DEF Counted
    <2>. QED BY <2>1, EscapeOpcodes, RowFields DEF Sound, IsMiscounted
  <1>5. Row(regs, type, <<Reg>>).codes = regs /\ Row(regs, type, <<>>).codes = regs
    BY RowFields
  <1>6. SoundInEsc({b}, Row(regs, type, <<Reg>>))
    BY <1>3, <1>5 DEF SoundInEsc
  <1>7. SoundInEsc({b}, Row(regs, type, <<>>))
    BY <1>4, <1>5 DEF SoundInEsc
  <1>. QED BY <1>6, <1>7

\* Every row of a table of floating point instructions is sound.
LEMMA EscapeTable ==
    ASSUME NEW b \in \hD8..\hDF, NEW mem, NEW regs, regs \cap 0..7 = {}
    PROVE  \A r \in Esc(mem, regs) : SoundInEsc({b}, r)
  BY EscapeMemoryRow, EscapeRegisterRow DEF Esc

\* So are the links to the eight tables.
LEMMA Escapes ==
    /\ SoundRow(1, Link({\hD8}, "fpu", "ESC_0"))
    /\ SoundRow(1, Link({\hD9}, "fpu", "ESC_1"))
    /\ SoundRow(1, Link({\hDA}, "fpu", "ESC_2"))
    /\ SoundRow(1, Link({\hDB}, "fpu", "ESC_3"))
    /\ SoundRow(1, Link({\hDC}, "fpu", "ESC_4"))
    /\ SoundRow(1, Link({\hDD}, "fpu", "ESC_5"))
    /\ SoundRow(1, Link({\hDE}, "fpu", "ESC_6"))
    /\ SoundRow(1, Link({\hDF}, "fpu", "ESC_7"))
  <1>1. SoundRow(1, Link({\hD8}, "fpu", "ESC_0"))
    <2>1. \A r \in X86_ESC_0 : SoundInEsc({\hD8}, r)
      BY EscapeTable DEF X86_ESC_0
    <2>. QED BY <2>1, EscRow, Tables
  <1>2. SoundRow(1, Link({\hD9}, "fpu", "ESC_1"))
    <2>. DEFINE regs == \h08..\h47
                    \ ({\h18, \h2A, \h2B, \h2E, \h2F, \h37, \h3E, \h3F} \cup \h19..\h27)
    <2>1. \A r \in Esc({0, 2, 3, 5, 6, 7}, regs) : SoundInEsc({\hD9}, r)
      BY EscapeTable
    <2>2. SoundInEsc({\hD9}, Row({4}, "fpuenv", <<Src("M")>>))
      BY EscapeMemoryRow
    <2>3. SoundInEsc({\hD9}, Row({\h18, \h3E, \h3F}, "fpu", <<>>))
      BY EscapeRegisterRow
    <2>4. \A r \in X86_ESC_1 : SoundInEsc({\hD9}, r)
      BY <2>1, <2>2, <2>3, Zenon DEF X86_ESC_1
    <2>. QED BY <2>4, EscRow, Tables
  <1>3. SoundRow(1, Link({\hDA}, "fpu", "ESC_2"))
    <2>1. \A r \in X86_ESC_2 : SoundInEsc({\hDA}, r)
      BY EscapeTable DEF X86_ESC_2
    <2>. QED BY <2>1, EscRow, Tables
  <1>4. SoundRow(1, Link({\hDB}, "fpu", "ESC_3"))
    <2>1. \A r \in X86_ESC_3 : SoundInEsc({\hDB}, r)
      BY EscapeTable DEF X86_ESC_3
    <2>. QED BY <2>1, EscRow, Tables
  <1>5. SoundRow(1, Link({\hDC}, "fpu", "ESC_4"))
    <2>1. \A r \in X86_ESC_4 : SoundInEsc({\hDC}, r)
      BY EscapeTable DEF X86_ESC_4
    <2>. QED BY <2>1, EscRow, Tables
  <1>6. SoundRow(1, Link({\hDD}, "fpu", "ESC_5"))
    <2>1. \A r \in Esc({0, 1, 2, 3, 7}, \h08..\h0F \cup \h18..\h37) : SoundInEsc({\hDD}, r)
      BY EscapeTable
    <2>2. SoundInEsc({\hDD}, Row({4, 6}, "fpuenv", <<Src("M")>>))
      BY EscapeMemoryRow
    <2>3. \A r \in X86_ESC_5 : SoundInEsc({\hDD}, r)
      BY <2>1, <2>2, Zenon DEF X86_ESC_5
    <2>. QED BY <2>3, EscRow, Tables
  <1>7. SoundRow(1, Link({\hDE}, "fpu", "ESC_6"))
    <2>1. \A r \in X86_ESC_6 : SoundInEsc({\hDE}, r)
      BY EscapeTable DEF X86_ESC_6
    <2>. QED BY <2>1, EscRow, Tables
  <1>8. SoundRow(1, Link({\hDF}, "fpu", "ESC_7"))
    <2>1. \A r \in X86_ESC_7 : SoundInEsc({\hDF}, r)
      BY EscapeTable DEF X86_ESC_7
    <2>. QED BY <2>1, EscRow, Tables
  <1>. QED BY <1>1, <1>2, <1>3, <1>4, <1>5, <1>6, <1>7, <1>8

\* MOVSXD, which is ARPL in 32-bit code.
LEMMA Opcode63 == SoundRow(1, Link({\h63}, "ext64", "Opcode_63"))
  <1>1. /\ Fits(1, {\h63}, "other", "memory", "none")
        /\ Fits(1, {\h63}, "mov", "memory", "none")
    BY ModRM_1_Agrees DEF Fits, ImmediateClass, OneByteClass, IsTransfer, Transfers1,
       TransferTypes, IsLoop, ModRMListed, HasModRMBy, OneByteModRM, Byte
  <1>2. ASSUME NEW m \in Byte
        PROVE  /\ Class(1, \h63, m, "other", "memory", "none")
               /\ Class(1, \h63, m, "mov", "memory", "none")
    BY <1>1, FitsClass
  <1>. DEFINE r1 == Row({0}, "other", <<Src("E"), Reg>>)
              r2 == Row({1}, "mov", <<Reg, Src("E")>>)
  <1>3. X86_Opcode_63 = {r1, r2}
    BY DEF X86_Opcode_63, Other
  <1>4. ASSUME NEW m \in Byte
        PROVE  Sound(1, \h63, m, 0, r1.entry) /\ Sound(1, \h63, m, 0, r2.entry)
    BY <1>2, OperandsSound, MemoryLists
  <1>. HIDE DEF r1, r2
  <1>5. \A r \in X86_Opcode_63, b \in {\h63}, m \in Byte : Sound(1, b, m, 0, r.entry)
    <2>. SUFFICES ASSUME NEW r \in X86_Opcode_63, NEW m \in Byte
                  PROVE  Sound(1, \h63, m, 0, r.entry)
      OBVIOUS
    <2>1. r = r1 \/ r = r2
      BY <1>3
    <2>. QED BY <2>1, <1>4
  <1>. QED BY <1>5, Ext64Row, Tables

\* SYSCALL.
LEMMA Opcode0F05 == SoundRow(2, Link({\h05}, "ext64", "Opcode_0F05"))
  <1>1. Fits(2, {\h05}, "other", "none", "none")
    BY DEF Fits, ImmediateClass, TwoByteClass, IsTransfer, TransferTypes, IsLoop,
           ModRMListed, HasModRMBy, TwoByteNoModRM, X86_ModRM_2, Byte
  <1>2. ASSUME NEW m \in Byte
        PROVE  Sound(2, \h05, m, 0, Row({0, 1}, "other", <<Reg, Reg, Reg>>).entry)
    BY <1>1, FitsClass, OperandsSound, PlainLists
  <1>3. \A r \in X86_Opcode_0F05, b \in {\h05}, m \in Byte : Sound(2, b, m, 0, r.entry)
    BY <1>2 DEF X86_Opcode_0F05, Other
  <1>. QED BY <1>3, Ext64Row, Tables

\* 3DNow! is decoded once more by the byte behind its operands.
LEMMA SuffixRow == SoundRow(2, Link({\h0F}, "suffix", "Suffix_3DNOW"))
  <1>. DEFINE e == Link({\h0F}, "suffix", "Suffix_3DNOW").entry
  <1>1. /\ e.kind = "suffix" /\ e.table = "Suffix_3DNOW"
        /\ Link({\h0F}, "suffix", "Suffix_3DNOW").codes = {\h0F}
    BY LinkFields
  <1>. HIDE DEF e
  <1>2. \A m \in Byte, k \in {0, 1} : Resolved(e, m, k) = e
    BY <1>1 DEF Resolved
  <1>. QED BY <1>1, <1>2 DEF SoundRow, SoundEntry, Sound, e


\* MONITOR and MWAIT, SWAPGS and group 7 share 0F 01.
LEMMA Opcode0F01 == SoundRow(2, Link({\h01}, "extmodrm", "ModRM_0F01"))
  <1>. DEFINE e == Link({\h01}, "extmodrm", "ModRM_0F01").entry
              r1 == Row({\hC8, \hC9}, "other", <<>>)
              r2 == Row({\hF8}, "swapgs", <<Reg>>)
              r3 == Link(Byte \ {\hC8, \hC9, \hF8}, "group", "Group_7")
  <1>1. X86_0F01_ModRM = {r1, r2, r3}
    BY DEF X86_0F01_ModRM, Other
  <1>2. ASSUME NEW m \in Byte, m >= \hC0
        PROVE  /\ Class(2, \h01, m, "other", "none", "none")
               /\ Class(2, \h01, m, "swapgs", "none", "none")
    BY <1>2 DEF Class, Places, IsMiscounted, ImmediateClass, TwoByteClass, IsTransfer, IsLoop, ModRMListed,
       HasModRMBy, TwoByteNoModRM, X86_ModRM_2, Byte
  <1>3. ModRMListed(2, \h01)
    BY DEF ModRMListed, X86_ModRM_2
  <1>4. ASSUME NEW m \in {\hC8, \hC9}
        PROVE  Sound(2, \h01, m, 1, r1.entry)
    <2>1. Class(2, \h01, m, "other", "none", "none") /\ m >= \hC0
      BY <1>2 DEF Byte
    <2>2. Counted(2, \h01, m, 1, r1.entry)
      BY <1>3, <2>1, RowFields DEF Counted, Class
    <2>. QED BY <2>1, <2>2, RowFields DEF Sound, Class
  <1>5. Sound(2, \h01, \hF8, 1, r2.entry)
    <2>1. Class(2, \h01, \hF8, "swapgs", "none", "none")
      BY <1>2 DEF Byte
    <2>. QED BY <2>1, OperandsSound, PlainLists
  <1>6. \A r \in X86_Group_7 : SoundInGroup(2, {\h01}, r)
    <2>. DEFINE g1 == Row({0, 1}, "other", <<Dst("M")>>)
                g2 == Row({2, 3, 7}, "other", <<Src("M")>>)
                g3 == Row({4}, "other", <<Dst("E"), Reg>>)
                g4 == Row({6}, "other", <<Reg, Src("E")>>)
    <2>1. X86_Group_7 = {g1, g2, g3, g4}
      BY DEF X86_Group_7, Other
    <2>2. \A index : FitsIn(2, {\h01}, index, "other", "memory", "none")
      BY DEF FitsIn, ImmediateClass, TwoByteClass, IsTransfer, IsLoop, ModRMListed, HasModRMBy,
         TwoByteNoModRM, X86_ModRM_2
    <2>3. SoundInGroup(2, {\h01}, g1) /\ SoundInGroup(2, {\h01}, g2)
      BY <2>2, OperandsInGroup, MemoryLists
    <2>4. SoundInGroup(2, {\h01}, g3) /\ SoundInGroup(2, {\h01}, g4)
      BY <2>2, OperandsInGroup, MemoryLists
    <2>. HIDE DEF g1, g2, g3, g4
    <2>. QED BY <2>1, <2>3, <2>4
  <1>7. ASSUME NEW m \in Byte
        PROVE  Sound(2, \h01, m, 0, Lookup("Group_7", Extension(m)))
    BY <1>6, <1>7, FindCases, InvalidSound, Tables DEF Lookup, SoundInGroup
  <1>8. /\ r1.codes = {\hC8, \hC9} /\ r1.entry.kind = "op"
        /\ r2.codes = {\hF8} /\ r2.entry.kind = "op"
        /\ r3.entry.kind = "group" /\ r3.entry.table = "Group_7"
        /\ e.kind = "extmodrm" /\ e.table = "ModRM_0F01"
        /\ Link({\h01}, "extmodrm", "ModRM_0F01").codes = {\h01}
    BY RowFields, LinkFields
  <1>. HIDE DEF e, r1, r2, r3
  <1>9. ASSUME NEW m \in Byte, NEW k \in {0, 1}
        PROVE  Sound(2, \h01, m, Whole(e, m), Resolved(e, m, k))
    <2>. DEFINE x == Lookup("ModRM_0F01", m)
    <2>1. \/ x = Invalid
          \/ \E r \in X86_0F01_ModRM : m \in r.codes /\ x = r.entry
      BY FindCases, Tables DEF Lookup
    <2>. HIDE DEF x
    <2>2. /\ Whole(e, m) = IF x.kind # "group" THEN 1 ELSE 0
          /\ Resolved(e, m, k) = IF x.kind = "group" THEN Lookup(x.table, Extension(m)) ELSE x
      BY <1>8 DEF Whole, Resolved, x
    <2>3. CASE x = Invalid
      BY <2>2, <2>3, InvalidSound DEF Invalid, Entry
    <2>4. CASE m \in r1.codes /\ x = r1.entry
      BY <2>2, <2>4, <1>4, <1>8
    <2>5. CASE m \in r2.codes /\ x = r2.entry
      BY <2>2, <2>5, <1>5, <1>8
    <2>6. CASE x = r3.entry
      <3>1. Whole(e, m) = 0 /\ Resolved(e, m, k) = Lookup("Group_7", Extension(m))
        BY <2>2, <2>6, <1>8
      <3>. QED BY <3>1, <1>7
    <2>. QED BY <2>1, <2>3, <2>4, <2>5, <2>6, <1>1
  <1>. QED BY <1>8, <1>9 DEF SoundRow, SoundEntry, e
\* The opcodes of one byte up to 7F.
LEMMA OneByteLow == \A r \in X86_Opcodes_1_Low : SoundRow(1, r)
  <1>. DEFINE r1 == Other(Alu({0, 1}) \ {\h38, \h39}, <<Dst("E"), Reg>>)
              r2 == Other(Alu({2, 3}), <<Reg, Src("E")>>)
              r3 == Other({\h38, \h39}, <<Src("E"), Reg>>)
              r4 == Other(Alu({4}), <<Reg, Imm("b")>>)
              r5 == Other(Alu({5}), <<Reg, Imm("z")>>)
              r6 == Other({\h06, \h07, \h0E, \h16, \h17, \h1E, \h1F, \h27, \h2F,
            \h37} \cup \h3F..\h5F, <<Reg>>)
              r7 == Other({\h60, \h61}, <<>>)
              r8 == Other({\h62}, <<Reg, Src("M")>>)
              r9 == Other({\h68}, <<Imm("z")>>)
              r10 == Other({\h69}, <<Reg, Src("E"), Imm("z")>>)
              r11 == Other({\h6A}, <<Imm("b")>>)
              r12 == Other({\h6B}, <<Reg, Src("E"), Imm("b")>>)
              r13 == Other(\h6C..\h6F, <<Reg, Reg>>)
              r14 == Row(\h70..\h7F, "branchcc", <<Jump("b")>>)
              r15 == Link(PrefixCodes \cap \h00..\h7F, "prefix", "none")
              r16 == Link({\h0F}, "twobyte", "none")
              r17 == Link({\h63}, "ext64", "Opcode_63")
  <1>1. X86_Opcodes_1_Low = {r1, r2, r3, r4, r5, r6, r7, r8, r9, r10, r11, r12, r13, r14,
             r15, r16, r17}
    BY DEF X86_Opcodes_1_Low
  <1>. HIDE DEF r1, r2, r3, r4, r5, r6, r7, r8, r9, r10, r11, r12, r13, r14, r15, r16, r17
  <1>2. Fits(1, {\h38, \h39}, "other", "memory", "none")
    BY ModRM_1_Agrees DEF Fits, ImmediateClass, OneByteClass, IsTransfer, Transfers1,
       TransferTypes, IsLoop, ModRMListed, HasModRMBy, OneByteModRM, Byte
  <1>3. SoundRow(1, r1) /\ SoundRow(1, r2) /\ SoundRow(1, r3) /\ SoundRow(1, r4)
    BY <1>2, AluFits, OperandsRow, MemoryLists, PlainLists DEF r1, r2, r3, r4, Other
  <1>4. /\ Fits(1, {\h60, \h61}, "other", "none", "none")
        /\ Fits(1, {\h62}, "other", "memory", "none")
    BY ModRM_1_Agrees DEF Fits, ImmediateClass, OneByteClass, IsTransfer, Transfers1,
       TransferTypes, IsLoop, ModRMListed, HasModRMBy, OneByteModRM, Byte
  <1>5. SoundRow(1, r5) /\ SoundRow(1, r6)
    BY <1>4, AluFits, RegisterFits, OperandsRow, PlainLists DEF r5, r6, Other
  <1>6. SoundRow(1, r7) /\ SoundRow(1, r8)
    BY <1>4, AluFits, RegisterFits, NoOperandsRow, OperandsRow, MemoryLists DEF r7, r8,
       Other
  <1>7. /\ Fits(1, {\h68}, "other", "none", "z")
        /\ Fits(1, {\h69}, "other", "memory", "z")
        /\ Fits(1, {\h6A}, "other", "none", "b")
        /\ Fits(1, {\h6B}, "other", "memory", "b")
    BY ModRM_1_Agrees DEF Fits, ImmediateClass, OneByteClass, IsTransfer, Transfers1,
       TransferTypes, IsLoop, ModRMListed, HasModRMBy, OneByteModRM, Byte
  <1>8. SoundRow(1, r9) /\ SoundRow(1, r10) /\ SoundRow(1, r11) /\ SoundRow(1, r12)
    BY <1>7, OperandsRow, PlainLists, MemoryImmediateLists DEF r9, r10, r11, r12, Other
  <1>9. Fits(1, \h6C..\h6F, "other", "none", "none")
    BY ModRM_1_Agrees DEF Fits, ImmediateClass, OneByteClass, IsTransfer, Transfers1,
       TransferTypes, IsLoop, ModRMListed, HasModRMBy, OneByteModRM, Byte
  <1>10. Fits(1, \h70..\h7F, "branchcc", "jump", "b")
    BY ModRM_1_Agrees DEF Fits, ImmediateClass, OneByteClass, IsTransfer, Transfers1,
       TransferTypes, IsLoop, ModRMListed, HasModRMBy, OneByteModRM, Byte
  <1>11. SoundRow(1, r13) /\ SoundRow(1, r14)
    BY <1>9, <1>10, OperandsRow, PlainLists, OtherShapes DEF r13, r14, Other
  <1>12. SoundRow(1, r15) /\ SoundRow(1, r16)
    BY NoInstructionRow DEF r15, r16
  <1>13. SoundRow(1, r17)
    BY Opcode63 DEF r17
  <1>. QED
    BY <1>1, <1>3, <1>5, <1>6, <1>8, <1>11, <1>12, <1>13

\* The opcodes of one byte from 80 on.
LEMMA OneByteHigh == \A r \in X86_Opcodes_1_High : SoundRow(1, r)
  <1>. DEFINE r1 == Other({\h84, \h85}, <<Src("E"), Reg>>)
              r2 == Other({\h86, \h87}, <<Dst("E"), Reg>>)
              r3 == Row({\h88, \h89, \h8C}, "mov", <<Dst("E"), Reg>>)
              r4 == Row({\h8A, \h8B, \h8E}, "mov", <<Reg, Src("E")>>)
              r5 == Row({\h8D}, "lea", <<Reg, Src("M")>>)
              r6 == Row({\hC4, \hC5}, "mov", <<Reg, Src("M")>>)
              r7 == Other({\h90, \h9B, \hCC, \hCE, \hF1, \hF4}, <<>>)
              r8 == Row({\h9E, \h9F}, "mov", <<Reg, Reg>>)
              r9 == Other(\h91..\h99 \cup \hA4..\hA7 \cup \hAA..\hAF \cup {\hD7}
            \cup \hEC..\hEF, <<Reg, Reg>>)
              r10 == Other({\h9C, \h9D, \hC9, \hF5} \cup \hF8..\hFD, <<Reg>>)
              r11 == Other({\hA8, \hD4, \hD5, \hE4, \hE5}, <<Reg, Imm("b")>>)
              r12 == Other({\hA9}, <<Reg, Imm("z")>>)
              r13 == Row({\hA0, \hA1}, "mov", <<Reg, Src("O")>>)
              r14 == Row({\hA2, \hA3}, "mov", <<Src("O"), Reg>>)
              r15 == Row(\hB0..\hB7, "mov", <<Reg, Imm("b")>>)
              r16 == Row(\hB8..\hBF, "mov", <<Reg, Imm("v")>>)
              r17 == Row({\hC2, \hCA}, "ret", <<Imm("w")>>)
              r18 == Row({\hC3, \hCB}, "ret", <<>>)
              r19 == Other({\hC8}, <<Reg, Imm("w"), Imm("b")>>)
              r20 == Other({\hCD}, <<Imm("b")>>)
              r21 == Other({\hCF}, <<>>)
              r22 == Other({\hD6}, <<Reg, Reg, Reg>>)
              r23 == Row(\hE0..\hE3, "loopcc", <<Jump("b")>>)
              r24 == Other({\hE6, \hE7}, <<Imm("b"), Reg>>)
              r25 == Row({\hE8}, "call", <<Jump("z")>>)
              r26 == Row({\hE9}, "branch", <<Jump("z")>>)
              r27 == Row({\hEB}, "branch", <<Jump("b")>>)
              r28 == Row({\h9A}, "call", <<Src("A")>>)
              r29 == Row({\hEA}, "branch", <<Src("A")>>)
              r30 == Link(PrefixCodes \cap \h80..\hFF, "prefix", "none")
              r31 == Link({\h80, \h82, \h83}, "group", "Group_1_b")
              r32 == Link({\h81}, "group", "Group_1_z")
              r33 == Link({\h8F}, "group", "Group_10")
              r34 == Link({\hC0, \hC1}, "group", "Group_2_b")
              r35 == Link({\hD0, \hD1, \hD2, \hD3}, "group", "Group_2_r")
              r36 == Link({\hC6}, "group", "Group_12_C6")
              r37 == Link({\hC7}, "group", "Group_12_C7")
              r38 == Link({\hF6}, "group", "Group_3_F6")
              r39 == Link({\hF7}, "group", "Group_3_F7")
              r40 == Link({\hFE}, "group", "Group_4")
              r41 == Link({\hFF}, "group", "Group_5")
              r42 == Link({\hD8}, "fpu", "ESC_0")
              r43 == Link({\hD9}, "fpu", "ESC_1")
              r44 == Link({\hDA}, "fpu", "ESC_2")
              r45 == Link({\hDB}, "fpu", "ESC_3")
              r46 == Link({\hDC}, "fpu", "ESC_4")
              r47 == Link({\hDD}, "fpu", "ESC_5")
              r48 == Link({\hDE}, "fpu", "ESC_6")
              r49 == Link({\hDF}, "fpu", "ESC_7")
  <1>1. X86_Opcodes_1_High = {r1, r2, r3, r4, r5, r6, r7, r8, r9, r10, r11, r12, r13, r14,
             r15, r16, r17, r18, r19, r20, r21, r22, r23, r24, r25, r26, r27, r28, r29, r30,
             r31, r32, r33, r34, r35, r36, r37, r38, r39, r40, r41, r42, r43, r44, r45, r46,
             r47, r48, r49}
    BY DEF X86_Opcodes_1_High
  <1>. HIDE DEF r1, r2, r3, r4, r5, r6, r7, r8, r9, r10, r11, r12, r13, r14, r15, r16, r17,
                r18, r19, r20, r21, r22, r23, r24, r25, r26, r27, r28, r29, r30, r31, r32,
                r33, r34, r35, r36, r37, r38, r39, r40, r41, r42, r43, r44, r45, r46, r47,
                r48, r49
  <1>2. /\ Fits(1, {\h84, \h85}, "other", "memory", "none")
        /\ Fits(1, {\h86, \h87}, "other", "memory", "none")
        /\ Fits(1, {\h88, \h89, \h8C}, "mov", "memory", "none")
        /\ Fits(1, {\h8A, \h8B, \h8E}, "mov", "memory", "none")
    BY ModRM_1_Agrees DEF Fits, ImmediateClass, OneByteClass, IsTransfer, Transfers1,
       TransferTypes, IsLoop, ModRMListed, HasModRMBy, OneByteModRM, Byte
  <1>3. SoundRow(1, r1) /\ SoundRow(1, r2) /\ SoundRow(1, r3) /\ SoundRow(1, r4)
    BY <1>2, OperandsRow, MemoryLists DEF r1, r2, r3, r4, Other
  <1>4. /\ Fits(1, {\h8D}, "lea", "memory", "none")
        /\ Fits(1, {\hC4, \hC5}, "mov", "memory", "none")
        /\ Fits(1, {\h90, \h9B, \hCC, \hCE, \hF1, \hF4}, "other", "none", "none")
        /\ Fits(1, {\h9E, \h9F}, "mov", "none", "none")
    BY ModRM_1_Agrees DEF Fits, ImmediateClass, OneByteClass, IsTransfer, Transfers1,
       TransferTypes, IsLoop, ModRMListed, HasModRMBy, OneByteModRM, Byte
  <1>5. SoundRow(1, r5) /\ SoundRow(1, r6)
    BY <1>4, OperandsRow, MemoryLists DEF r5, r6
  <1>6. SoundRow(1, r7) /\ SoundRow(1, r8)
    BY <1>4, NoOperandsRow, OperandsRow, PlainLists DEF r7, r8, Other
  <1>7. /\ Fits(1, {\hA8, \hD4, \hD5, \hE4, \hE5}, "other", "none", "b")
        /\ Fits(1, {\hA9}, "other", "none", "z")
    BY ModRM_1_Agrees DEF Fits, ImmediateClass, OneByteClass, IsTransfer, Transfers1,
       TransferTypes, IsLoop, ModRMListed, HasModRMBy, OneByteModRM, Byte
  <1>8. Fits(1, \h91..\h99 \cup \hA4..\hA7 \cup \hAA..\hAF \cup {\hD7} \cup \hEC..\hEF,
            "other", "none", "none")
    BY ModRM_1_Agrees DEF Fits, ImmediateClass, OneByteClass, IsTransfer, Transfers1,
       TransferTypes, IsLoop, ModRMListed, HasModRMBy, OneByteModRM, Byte
  <1>9. Fits(1, {\h9C, \h9D, \hC9, \hF5} \cup \hF8..\hFD, "other", "none", "none")
    BY ModRM_1_Agrees DEF Fits, ImmediateClass, OneByteClass, IsTransfer, Transfers1,
       TransferTypes, IsLoop, ModRMListed, HasModRMBy, OneByteModRM, Byte
  <1>10. SoundRow(1, r9) /\ SoundRow(1, r10) /\ SoundRow(1, r11) /\ SoundRow(1, r12)
    BY <1>7, <1>8, <1>9, OperandsRow, PlainLists DEF r9, r10, r11, r12, Other
  <1>11. /\ Fits(1, {\hA0, \hA1}, "mov", "none", "address")
         /\ Fits(1, {\hA2, \hA3}, "mov", "none", "address")
    BY ModRM_1_Agrees DEF Fits, ImmediateClass, OneByteClass, IsTransfer, Transfers1,
       TransferTypes, IsLoop, ModRMListed, HasModRMBy, OneByteModRM, Byte
  <1>12. Fits(1, \hB0..\hB7, "mov", "none", "b")
    BY ModRM_1_Agrees DEF Fits, ImmediateClass, OneByteClass, IsTransfer, Transfers1,
       TransferTypes, IsLoop, ModRMListed, HasModRMBy, OneByteModRM, Byte
  <1>13. Fits(1, \hB8..\hBF, "mov", "none", "v")
    BY ModRM_1_Agrees DEF Fits, ImmediateClass, OneByteClass, IsTransfer, Transfers1,
       TransferTypes, IsLoop, ModRMListed, HasModRMBy, OneByteModRM, Byte
  <1>14. SoundRow(1, r13) /\ SoundRow(1, r14)
    BY <1>11, <1>12, <1>13, OperandsRow, OtherShapes DEF r13, r14
  <1>15. SoundRow(1, r15) /\ SoundRow(1, r16)
    BY <1>11, <1>12, <1>13, OperandsRow, PlainLists DEF r15, r16
  <1>16. /\ Fits(1, {\hC2, \hCA}, "ret", "none", "w")
         /\ Fits(1, {\hC3, \hCB}, "ret", "none", "none")
         /\ Fits(1, {\hC8}, "other", "none", "wb")
         /\ Fits(1, {\hCD}, "other", "none", "b")
    BY ModRM_1_Agrees DEF Fits, ImmediateClass, OneByteClass, IsTransfer, Transfers1,
       TransferTypes, IsLoop, ModRMListed, HasModRMBy, OneByteModRM, Byte
  <1>17. SoundRow(1, r17) /\ SoundRow(1, r18)
    BY <1>16, OperandsRow, PlainLists, NoOperandsRow DEF r17, r18
  <1>18. SoundRow(1, r19) /\ SoundRow(1, r20)
    BY <1>16, OperandsRow, OtherShapes, PlainLists DEF r19, r20, Other
  <1>19. /\ Fits(1, {\hCF}, "other", "none", "none")
         /\ Fits(1, {\hD6}, "other", "none", "none")
         /\ Fits(1, {\hE6, \hE7}, "other", "none", "b")
         /\ Fits(1, {\hE8}, "call", "jump", "z")
    BY ModRM_1_Agrees DEF Fits, ImmediateClass, OneByteClass, IsTransfer, Transfers1,
       TransferTypes, IsLoop, ModRMListed, HasModRMBy, OneByteModRM, Byte
  <1>20. SoundRow(1, r21) /\ SoundRow(1, r22)
    BY <1>19, NoOperandsRow, OperandsRow, PlainLists DEF r21, r22, Other
  <1>21. SoundRow(1, r24) /\ SoundRow(1, r25)
    BY <1>19, OperandsRow, PlainLists, OtherShapes DEF r24, r25, Other
  <1>22. /\ Fits(1, {\hE9}, "branch", "jump", "z")
         /\ Fits(1, {\hEB}, "branch", "jump", "b")
         /\ Fits(1, {\h9A}, "call", "none", "far")
         /\ Fits(1, {\hEA}, "branch", "none", "far")
    BY ModRM_1_Agrees DEF Fits, ImmediateClass, OneByteClass, IsTransfer, Transfers1,
       TransferTypes, IsLoop, ModRMListed, HasModRMBy, OneByteModRM, Byte
  <1>23. SoundRow(1, r26) /\ SoundRow(1, r27)
    BY <1>22, OperandsRow, OtherShapes DEF r26, r27
  <1>24. SoundRow(1, r28) /\ SoundRow(1, r29)
    BY <1>22, OperandsRow, OtherShapes DEF r28, r29
  <1>25. SoundRow(1, r23)
    BY LoopRow DEF r23
  <1>26. SoundRow(1, r30)
    BY NoInstructionRow DEF r30
  <1>27. SoundRow(1, r31) /\ SoundRow(1, r32) /\ SoundRow(1, r33) /\ SoundRow(1, r34)
    BY OneByteGroups DEF r31, r32, r33, r34
  <1>28. SoundRow(1, r35) /\ SoundRow(1, r36) /\ SoundRow(1, r37) /\ SoundRow(1, r38)
    BY OneByteGroups DEF r35, r36, r37, r38
  <1>29. SoundRow(1, r39) /\ SoundRow(1, r40) /\ SoundRow(1, r41)
    BY OneByteGroups DEF r39, r40, r41
  <1>30. SoundRow(1, r42) /\ SoundRow(1, r43) /\ SoundRow(1, r44) /\ SoundRow(1, r45)
    BY Escapes DEF r42, r43, r44, r45
  <1>31. SoundRow(1, r46) /\ SoundRow(1, r47) /\ SoundRow(1, r48) /\ SoundRow(1, r49)
    BY Escapes DEF r46, r47, r48, r49
  <1>. QED
    BY <1>1, <1>3, <1>5, <1>6, <1>10, <1>14, <1>15, <1>17, <1>18, <1>20, <1>21, <1>23,
       <1>24, <1>25, <1>26, <1>27, <1>28, <1>29, <1>30, <1>31
\* The opcodes of two bytes up to 0F 7F.
LEMMA TwoByteLow == \A r \in X86_Opcodes_2_Low : SoundRow(2, r)
  <1>. DEFINE r1 == Other({\h02, \h03} \cup \h40..\h4F, <<Reg, Src("E")>>)
              r2 == Other({\h06, \h07, \h0E}, <<Reg>>)
              r3 == Row({\h77}, "media", <<Reg>>)
              r4 == Other({\h08, \h09, \h0B}, <<>>)
              r5 == Row({\h10, \h12, \h14, \h15, \h16, \h28, \h2E, \h2F} \cup \h51..\h5F,
            "media", <<Xmm, Src("W")>>)
              r6 == Row({\h11, \h29}, "media", <<Dst("W"), Xmm>>)
              r7 == Row({\h13, \h17, \h2B}, "media", <<Dst("M"), Xmm>>)
              r8 == Row({\h20, \h21}, "mov", <<Src("R"), Reg>>)
              r9 == Row({\h22, \h23}, "mov", <<Reg, Src("R")>>)
              r10 == Row({\h2A}, "media", <<Xmm, Src("Q")>>)
              r11 == Row({\h2C, \h2D}, "media", <<Src("P"), Src("W")>>)
              r12 == Other(\h30..\h33, <<Reg, Reg>>)
              r13 == Other({\h34, \h35}, <<Reg, Reg, Reg>>)
              r14 == Row({\h50}, "media", <<Reg, Src("VR")>>)
              r15 == Row(\h60..\h6B \cup {\h6F} \cup \h74..\h76, "media", <<Src("P"),
            Src("Q")>>)
              r16 == Row({\h6E}, "media", <<Src("P"), Src("E")>>)
              r17 == Row({\h70}, "media", <<Src("P"), Src("Q"), Imm("b")>>)
              r18 == Row({\h7E}, "media", <<Dst("E"), Src("P")>>)
              r19 == Row({\h7F}, "media", <<Dst("Q"), Src("P")>>)
              r20 == Link({\h00}, "group", "Group_6")
              r21 == Link({\h01}, "extmodrm", "ModRM_0F01")
              r22 == Link({\h05}, "ext64", "Opcode_0F05")
              r23 == Link({\h0D}, "group", "Group_P")
              r24 == Link({\h0F}, "suffix", "Suffix_3DNOW")
              r25 == Link({\h18}, "group", "Group_17")
              r26 == Link({\h71}, "group", "Group_13")
              r27 == Link({\h72}, "group", "Group_14")
              r28 == Link({\h73}, "group", "Group_15")
  <1>1. X86_Opcodes_2_Low = {r1, r2, r3, r4, r5, r6, r7, r8, r9, r10, r11, r12, r13, r14,
             r15, r16, r17, r18, r19, r20, r21, r22, r23, r24, r25, r26, r27, r28}
    BY DEF X86_Opcodes_2_Low
  <1>. HIDE DEF r1, r2, r3, r4, r5, r6, r7, r8, r9, r10, r11, r12, r13, r14, r15, r16, r17,
                r18, r19, r20, r21, r22, r23, r24, r25, r26, r27, r28
  <1>2. /\ Fits(2, {\h06, \h07, \h0E}, "other", "none", "none")
        /\ Fits(2, {\h77}, "media", "none", "none")
        /\ Fits(2, {\h08, \h09, \h0B}, "other", "none", "none")
    BY DEF Fits, ImmediateClass, TwoByteClass, IsTransfer, TransferTypes, IsLoop,
           ModRMListed, HasModRMBy, TwoByteNoModRM, X86_ModRM_2, Byte
  <1>3. Fits(2, {\h02, \h03} \cup \h40..\h4F, "other", "memory", "none")
    BY DEF Fits, ImmediateClass, TwoByteClass, IsTransfer, TransferTypes, IsLoop,
           ModRMListed, HasModRMBy, TwoByteNoModRM, X86_ModRM_2, Byte
  <1>4. SoundRow(2, r1) /\ SoundRow(2, r2)
    BY <1>2, <1>3, OperandsRow, MemoryLists, PlainLists DEF r1, r2, Other
  <1>5. SoundRow(2, r3) /\ SoundRow(2, r4)
    BY <1>2, <1>3, OperandsRow, PlainLists, NoOperandsRow DEF r3, r4, Other
  <1>6. /\ Fits(2, {\h11, \h29}, "media", "memory", "none")
        /\ Fits(2, {\h13, \h17, \h2B}, "media", "memory", "none")
        /\ Fits(2, {\h20, \h21}, "mov", "register", "none")
    BY DEF Fits, ImmediateClass, TwoByteClass, IsTransfer, TransferTypes, IsLoop,
           ModRMListed, HasModRMBy, TwoByteNoModRM, X86_ModRM_2, Byte
  <1>7. Fits(2, {\h10, \h12, \h14, \h15, \h16, \h28, \h2E, \h2F} \cup \h51..\h5F, "media",
            "memory", "none")
    BY DEF Fits, ImmediateClass, TwoByteClass, IsTransfer, TransferTypes, IsLoop,
           ModRMListed, HasModRMBy, TwoByteNoModRM, X86_ModRM_2, Byte
  <1>8. SoundRow(2, r5) /\ SoundRow(2, r6) /\ SoundRow(2, r7) /\ SoundRow(2, r8)
    BY <1>6, <1>7, OperandsRow, MemoryLists, RegisterLists DEF r5, r6, r7, r8
  <1>9. /\ Fits(2, {\h22, \h23}, "mov", "register", "none")
        /\ Fits(2, {\h2A}, "media", "memory", "none")
        /\ Fits(2, {\h2C, \h2D}, "media", "memory", "none")
    BY DEF Fits, ImmediateClass, TwoByteClass, IsTransfer, TransferTypes, IsLoop,
           ModRMListed, HasModRMBy, TwoByteNoModRM, X86_ModRM_2, Byte
  <1>10. Fits(2, \h30..\h33, "other", "none", "none")
    BY DEF Fits, ImmediateClass, TwoByteClass, IsTransfer, TransferTypes, IsLoop,
           ModRMListed, HasModRMBy, TwoByteNoModRM, X86_ModRM_2, Byte
  <1>11. SoundRow(2, r9) /\ SoundRow(2, r10)
    BY <1>9, <1>10, OperandsRow, RegisterLists, MemoryLists DEF r9, r10
  <1>12. SoundRow(2, r11) /\ SoundRow(2, r12)
    BY <1>9, <1>10, OperandsRow, MemoryLists, PlainLists DEF r11, r12, Other
  <1>13. /\ Fits(2, {\h34, \h35}, "other", "none", "none")
         /\ Fits(2, {\h50}, "media", "register", "none")
         /\ Fits(2, {\h6E}, "media", "memory", "none")
    BY DEF Fits, ImmediateClass, TwoByteClass, IsTransfer, TransferTypes, IsLoop,
           ModRMListed, HasModRMBy, TwoByteNoModRM, X86_ModRM_2, Byte
  <1>14. Fits(2, \h60..\h6B \cup {\h6F} \cup \h74..\h76, "media", "memory", "none")
    BY DEF Fits, ImmediateClass, TwoByteClass, IsTransfer, TransferTypes, IsLoop,
           ModRMListed, HasModRMBy, TwoByteNoModRM, X86_ModRM_2, Byte
  <1>15. SoundRow(2, r13) /\ SoundRow(2, r14)
    BY <1>13, <1>14, OperandsRow, PlainLists, RegisterLists DEF r13, r14, Other
  <1>16. SoundRow(2, r15) /\ SoundRow(2, r16)
    BY <1>13, <1>14, OperandsRow, MemoryLists DEF r15, r16
  <1>17. /\ Fits(2, {\h70}, "media", "memory", "b")
         /\ Fits(2, {\h7E}, "media", "memory", "none")
         /\ Fits(2, {\h7F}, "media", "memory", "none")
    BY DEF Fits, ImmediateClass, TwoByteClass, IsTransfer, TransferTypes, IsLoop,
           ModRMListed, HasModRMBy, TwoByteNoModRM, X86_ModRM_2, Byte
  <1>18. SoundRow(2, r17) /\ SoundRow(2, r18) /\ SoundRow(2, r19)
    BY <1>17, OperandsRow, MemoryImmediateLists, MemoryLists DEF r17, r18, r19
  <1>19. SoundRow(2, r20) /\ SoundRow(2, r23) /\ SoundRow(2, r25) /\ SoundRow(2, r26)
    BY TwoByteGroups DEF r20, r23, r25, r26
  <1>20. SoundRow(2, r27) /\ SoundRow(2, r28)
    BY TwoByteGroups DEF r27, r28
  <1>21. SoundRow(2, r21)
    BY Opcode0F01 DEF r21
  <1>22. SoundRow(2, r22)
    BY Opcode0F05 DEF r22
  <1>23. SoundRow(2, r24)
    BY SuffixRow DEF r24
  <1>. QED
    BY <1>1, <1>4, <1>5, <1>8, <1>11, <1>12, <1>15, <1>16, <1>18, <1>19, <1>20, <1>21,
       <1>22, <1>23

\* The opcodes of two bytes from 0F 80 on.
LEMMA TwoByteHigh == \A r \in X86_Opcodes_2_High : SoundRow(2, r)
  <1>. DEFINE r1 == Row(\h80..\h8F, "branchcc", <<Jump("z")>>)
              r2 == Other(\h90..\h9F \cup {\hA5, \hAD, \hB0, \hB1}, <<Dst("E"), Reg,
            Reg>>)
              r3 == Other({\hA0, \hA1, \hA8, \hA9} \cup \hC8..\hCF, <<Reg>>)
              r4 == Other({\hA2}, <<Reg, Reg>>)
              r5 == Other({\hA3, \hAB, \hB3, \hBB}, <<Src("E"), Reg>>)
              r6 == Other({\hA4, \hAC}, <<Dst("E"), Reg, Imm("b")>>)
              r7 == Other({\hAA}, <<>>)
              r8 == Other({\hAF, \hBC, \hBD}, <<Reg, Src("E")>>)
              r9 == Row({\hB6, \hB7, \hBE, \hBF}, "mov", <<Reg, Src("E")>>)
              r10 == Row({\hB2, \hB4, \hB5}, "mov", <<Reg, Src("M")>>)
              r11 == Other({\hC0, \hC1}, <<Dst("E"), Reg>>)
              r12 == Row({\hC2, \hC6}, "media", <<Xmm, Src("W"), Imm("b")>>)
              r13 == Row({\hC3}, "media", <<Dst("M"), Reg>>)
              r14 == Row({\hC4}, "media", <<Src("P"), Src("E"), Imm("b")>>)
              r15 == Row({\hC5}, "media", <<Reg, Src("PR"), Imm("b")>>)
              r16 == Row(\hD1..\hD5 \cup \hD8..\hE5 \cup \hE8..\hEF \cup \hF1..\hF6
            \cup \hF8..\hFE, "media", <<Src("P"), Src("Q")>>)
              r17 == Row({\hD7}, "media", <<Reg, Src("PR")>>)
              r18 == Row({\hE7}, "media", <<Dst("M"), Src("P")>>)
              r19 == Row({\hF7}, "media", <<Src("P"), Src("PR")>>)
              r20 == Link({\hAE}, "group", "Group_16")
              r21 == Link({\hB9}, "group", "Group_11")
              r22 == Link({\hBA}, "group", "Group_8")
              r23 == Link({\hC7}, "group", "Group_9")
  <1>1. X86_Opcodes_2_High = {r1, r2, r3, r4, r5, r6, r7, r8, r9, r10, r11, r12, r13, r14,
             r15, r16, r17, r18, r19, r20, r21, r22, r23}
    BY DEF X86_Opcodes_2_High
  <1>. HIDE DEF r1, r2, r3, r4, r5, r6, r7, r8, r9, r10, r11, r12, r13, r14, r15, r16, r17,
                r18, r19, r20, r21, r22, r23
  <1>2. Fits(2, {\hA2}, "other", "none", "none")
    BY DEF Fits, ImmediateClass, TwoByteClass, IsTransfer, TransferTypes, IsLoop,
           ModRMListed, HasModRMBy, TwoByteNoModRM, X86_ModRM_2, Byte
  <1>3. Fits(2, \h80..\h8F, "branchcc", "jump", "z")
    BY DEF Fits, ImmediateClass, TwoByteClass, IsTransfer, TransferTypes, IsLoop,
           ModRMListed, HasModRMBy, TwoByteNoModRM, X86_ModRM_2, Byte
  <1>4. Fits(2, \h90..\h9F \cup {\hA5, \hAD, \hB0, \hB1}, "other", "memory", "none")
    BY DEF Fits, ImmediateClass, TwoByteClass, IsTransfer, TransferTypes, IsLoop,
           ModRMListed, HasModRMBy, TwoByteNoModRM, X86_ModRM_2, Byte
  <1>5. Fits(2, {\hA0, \hA1, \hA8, \hA9} \cup \hC8..\hCF, "other", "none", "none")
    BY DEF Fits, ImmediateClass, TwoByteClass, IsTransfer, TransferTypes, IsLoop,
           ModRMListed, HasModRMBy, TwoByteNoModRM, X86_ModRM_2, Byte
  <1>6. SoundRow(2, r1) /\ SoundRow(2, r2)
    BY <1>2, <1>3, <1>4, <1>5, OperandsRow, OtherShapes, MemoryLists DEF r1, r2, Other
  <1>7. SoundRow(2, r3) /\ SoundRow(2, r4)
    BY <1>2, <1>3, <1>4, <1>5, OperandsRow, PlainLists DEF r3, r4, Other
  <1>8. /\ Fits(2, {\hA3, \hAB, \hB3, \hBB}, "other", "memory", "none")
        /\ Fits(2, {\hA4, \hAC}, "other", "memory", "b")
        /\ Fits(2, {\hAA}, "other", "none", "none")
        /\ Fits(2, {\hAF, \hBC, \hBD}, "other", "memory", "none")
    BY DEF Fits, ImmediateClass, TwoByteClass, IsTransfer, TransferTypes, IsLoop,
           ModRMListed, HasModRMBy, TwoByteNoModRM, X86_ModRM_2, Byte
  <1>9. SoundRow(2, r5) /\ SoundRow(2, r6)
    BY <1>8, OperandsRow, MemoryLists, MemoryImmediateLists DEF r5, r6, Other
  <1>10. SoundRow(2, r7) /\ SoundRow(2, r8)
    BY <1>8, NoOperandsRow, OperandsRow, MemoryLists DEF r7, r8, Other
  <1>11. /\ Fits(2, {\hB6, \hB7, \hBE, \hBF}, "mov", "memory", "none")
         /\ Fits(2, {\hB2, \hB4, \hB5}, "mov", "memory", "none")
         /\ Fits(2, {\hC0, \hC1}, "other", "memory", "none")
         /\ Fits(2, {\hC2, \hC6}, "media", "memory", "b")
    BY DEF Fits, ImmediateClass, TwoByteClass, IsTransfer, TransferTypes, IsLoop,
           ModRMListed, HasModRMBy, TwoByteNoModRM, X86_ModRM_2, Byte
  <1>12. SoundRow(2, r9) /\ SoundRow(2, r10) /\ SoundRow(2, r11) /\ SoundRow(2, r12)
    BY <1>11, OperandsRow, MemoryLists, MemoryImmediateLists DEF r9, r10, r11, r12, Other
  <1>13. /\ Fits(2, {\hC3}, "media", "memory", "none")
         /\ Fits(2, {\hC4}, "media", "memory", "b")
         /\ Fits(2, {\hC5}, "media", "register", "b")
    BY DEF Fits, ImmediateClass, TwoByteClass, IsTransfer, TransferTypes, IsLoop,
           ModRMListed, HasModRMBy, TwoByteNoModRM, X86_ModRM_2, Byte
  <1>14. Fits(2, \hD1..\hD5 \cup \hD8..\hE5 \cup \hE8..\hEF \cup \hF1..\hF6
            \cup \hF8..\hFE, "media", "memory", "none")
    BY DEF Fits, ImmediateClass, TwoByteClass, IsTransfer, TransferTypes, IsLoop,
           ModRMListed, HasModRMBy, TwoByteNoModRM, X86_ModRM_2, Byte
  <1>15. SoundRow(2, r13) /\ SoundRow(2, r14)
    BY <1>13, <1>14, OperandsRow, MemoryLists, MemoryImmediateLists DEF r13, r14
  <1>16. SoundRow(2, r15) /\ SoundRow(2, r16)
    BY <1>13, <1>14, OperandsRow, RegisterLists, MemoryLists DEF r15, r16
  <1>17. /\ Fits(2, {\hD7}, "media", "register", "none")
         /\ Fits(2, {\hE7}, "media", "memory", "none")
         /\ Fits(2, {\hF7}, "media", "register", "none")
    BY DEF Fits, ImmediateClass, TwoByteClass, IsTransfer, TransferTypes, IsLoop,
           ModRMListed, HasModRMBy, TwoByteNoModRM, X86_ModRM_2, Byte
  <1>18. SoundRow(2, r17) /\ SoundRow(2, r18) /\ SoundRow(2, r19)
    BY <1>17, OperandsRow, RegisterLists, MemoryLists DEF r17, r18, r19
  <1>19. SoundRow(2, r20) /\ SoundRow(2, r21) /\ SoundRow(2, r22) /\ SoundRow(2, r23)
    BY TwoByteGroups DEF r20, r21, r22, r23
  <1>. QED
    BY <1>1, <1>6, <1>7, <1>9, <1>10, <1>12, <1>15, <1>16, <1>18, <1>19

\* A row of one of the tables of SSE: the kind of its entry, and that no jump is
\* among its opcodes.
MediaRow(r, kinds) ==
    /\ r.entry.kind \in kinds
    /\ \A b \in \h80..\h8F : b \notin r.codes

\* The opcodes of SSE for prefix 66, up to 7F.
LEMMA SSE_66_Low == \A r \in X86_SSE_66_Low : SoundRow(2, r) /\ MediaRow(r, {"op", "group"})
  <1>. DEFINE r1 == Media({\h10, \h14, \h15, \h28, \h2E, \h2F, \h51, \h6F, \h74, \h75,
            \h76, \h7C, \h7D, \h7F} \cup \h54..\h6D, <<Xmm, Src("W")>>)
              r2 == Media({\h11, \h29}, <<Dst("W"), Xmm>>)
              r3 == Media({\h12, \h16}, <<Xmm, Src("M")>>)
              r4 == Media({\h13, \h17, \h2B}, <<Dst("M"), Xmm>>)
              r5 == Media({\h2A}, <<Xmm, Src("Q")>>)
              r6 == Media({\h2C, \h2D}, <<Src("P"), Src("W")>>)
              r7 == Media({\h50}, <<Reg, Src("VR")>>)
              r8 == Media({\h6E}, <<Xmm, Src("E")>>)
              r9 == Media({\h7E}, <<Dst("E"), Xmm>>)
              r10 == Media({\h70}, <<Xmm, Src("W"), Imm("b")>>)
              r11 == Link({\h71}, "group", "SSE2_Group_13")
              r12 == Link({\h72}, "group", "SSE2_Group_14")
              r13 == Link({\h73}, "group", "SSE2_Group_15")
  <1>1. X86_SSE_66_Low = {r1, r2, r3, r4, r5, r6, r7, r8, r9, r10, r11, r12, r13}
    BY DEF X86_SSE_66_Low
  <1>. HIDE DEF r1, r2, r3, r4, r5, r6, r7, r8, r9, r10, r11, r12, r13
  <1>2. /\ Fits(2, {\h11, \h29}, "media", "memory", "none")
        /\ Fits(2, {\h12, \h16}, "media", "memory", "none")
        /\ Fits(2, {\h13, \h17, \h2B}, "media", "memory", "none")
    BY DEF Fits, ImmediateClass, TwoByteClass, IsTransfer, TransferTypes, IsLoop,
           ModRMListed, HasModRMBy, TwoByteNoModRM, X86_ModRM_2, Byte
  <1>3. Fits(2, {\h10, \h14, \h15, \h28, \h2E, \h2F, \h51, \h6F, \h74, \h75, \h76, \h7C,
            \h7D, \h7F} \cup \h54..\h6D, "media", "memory", "none")
    BY DEF Fits, ImmediateClass, TwoByteClass, IsTransfer, TransferTypes, IsLoop,
           ModRMListed, HasModRMBy, TwoByteNoModRM, X86_ModRM_2, Byte
  <1>4. SoundRow(2, r1) /\ SoundRow(2, r2) /\ SoundRow(2, r3) /\ SoundRow(2, r4)
    BY <1>2, <1>3, OperandsRow, MemoryLists DEF r1, r2, r3, r4, Media
  <1>5. /\ Fits(2, {\h2A}, "media", "memory", "none")
        /\ Fits(2, {\h2C, \h2D}, "media", "memory", "none")
        /\ Fits(2, {\h50}, "media", "register", "none")
        /\ Fits(2, {\h6E}, "media", "memory", "none")
    BY DEF Fits, ImmediateClass, TwoByteClass, IsTransfer, TransferTypes, IsLoop,
           ModRMListed, HasModRMBy, TwoByteNoModRM, X86_ModRM_2, Byte
  <1>6. SoundRow(2, r5) /\ SoundRow(2, r6) /\ SoundRow(2, r7) /\ SoundRow(2, r8)
    BY <1>5, OperandsRow, MemoryLists, RegisterLists DEF r5, r6, r7, r8, Media
  <1>7. /\ Fits(2, {\h7E}, "media", "memory", "none")
        /\ Fits(2, {\h70}, "media", "memory", "b")
    BY DEF Fits, ImmediateClass, TwoByteClass, IsTransfer, TransferTypes, IsLoop,
           ModRMListed, HasModRMBy, TwoByteNoModRM, X86_ModRM_2, Byte
  <1>8. SoundRow(2, r9) /\ SoundRow(2, r10)
    BY <1>7, OperandsRow, MemoryLists, MemoryImmediateLists DEF r9, r10, Media
  <1>9. SoundRow(2, r11) /\ SoundRow(2, r12) /\ SoundRow(2, r13)
    BY TwoByteGroups DEF r11, r12, r13
  <1>10. /\ MediaRow(r1, {"op", "group"})
         /\ MediaRow(r2, {"op", "group"})
         /\ MediaRow(r3, {"op", "group"})
         /\ MediaRow(r4, {"op", "group"})
    BY RowFields DEF r1, r2, r3, r4, MediaRow, Media
  <1>11. /\ MediaRow(r5, {"op", "group"})
         /\ MediaRow(r6, {"op", "group"})
         /\ MediaRow(r7, {"op", "group"})
         /\ MediaRow(r8, {"op", "group"})
    BY RowFields DEF r5, r6, r7, r8, MediaRow, Media
  <1>12. /\ MediaRow(r9, {"op", "group"})
         /\ MediaRow(r10, {"op", "group"})
         /\ MediaRow(r11, {"op", "group"})
         /\ MediaRow(r12, {"op", "group"})
    BY RowFields, LinkFields DEF r9, r10, r11, r12, MediaRow, Media
  <1>13. MediaRow(r13, {"op", "group"})
    BY LinkFields DEF r13, MediaRow
  <1>. QED
    BY <1>1, <1>4, <1>6, <1>8, <1>9, <1>10, <1>11, <1>12, <1>13

\* The opcodes of SSE for prefix 66, from 80 on.
LEMMA SSE_66_High == \A r \in X86_SSE_66_High : SoundRow(2, r) /\ MediaRow(r, {"op"})
  <1>. DEFINE r1 == Media(\hD0..\hD5 \cup \hD8..\hE6 \cup \hE8..\hEF \cup \hF1..\hF6
            \cup \hF8..\hFE, <<Xmm, Src("W")>>)
              r2 == Media({\hD6}, <<Dst("W"), Xmm>>)
              r3 == Media({\hE7}, <<Dst("M"), Xmm>>)
              r4 == Media({\hC2, \hC6}, <<Xmm, Src("W"), Imm("b")>>)
              r5 == Media({\hC4}, <<Xmm, Src("E"), Imm("b")>>)
              r6 == Media({\hC5}, <<Reg, Src("VR"), Imm("b")>>)
              r7 == Media({\hD7}, <<Reg, Src("VR")>>)
              r8 == Media({\hF7}, <<Xmm, Src("VR")>>)
  <1>1. X86_SSE_66_High = {r1, r2, r3, r4, r5, r6, r7, r8}
    BY DEF X86_SSE_66_High
  <1>. HIDE DEF r1, r2, r3, r4, r5, r6, r7, r8
  <1>2. /\ Fits(2, {\hD6}, "media", "memory", "none")
        /\ Fits(2, {\hE7}, "media", "memory", "none")
        /\ Fits(2, {\hC2, \hC6}, "media", "memory", "b")
    BY DEF Fits, ImmediateClass, TwoByteClass, IsTransfer, TransferTypes, IsLoop,
           ModRMListed, HasModRMBy, TwoByteNoModRM, X86_ModRM_2, Byte
  <1>3. Fits(2, \hD0..\hD5 \cup \hD8..\hE6 \cup \hE8..\hEF \cup \hF1..\hF6 \cup \hF8..\hFE,
            "media", "memory", "none")
    BY DEF Fits, ImmediateClass, TwoByteClass, IsTransfer, TransferTypes, IsLoop,
           ModRMListed, HasModRMBy, TwoByteNoModRM, X86_ModRM_2, Byte
  <1>4. SoundRow(2, r1) /\ SoundRow(2, r2) /\ SoundRow(2, r3) /\ SoundRow(2, r4)
    BY <1>2, <1>3, OperandsRow, MemoryLists, MemoryImmediateLists DEF r1, r2, r3, r4, Media
  <1>5. /\ Fits(2, {\hC4}, "media", "memory", "b")
        /\ Fits(2, {\hC5}, "media", "register", "b")
        /\ Fits(2, {\hD7}, "media", "register", "none")
        /\ Fits(2, {\hF7}, "media", "register", "none")
    BY DEF Fits, ImmediateClass, TwoByteClass, IsTransfer, TransferTypes, IsLoop,
           ModRMListed, HasModRMBy, TwoByteNoModRM, X86_ModRM_2, Byte
  <1>6. SoundRow(2, r5) /\ SoundRow(2, r6) /\ SoundRow(2, r7) /\ SoundRow(2, r8)
    BY <1>5, OperandsRow, MemoryImmediateLists, RegisterLists DEF r5, r6, r7, r8, Media
  <1>7. /\ MediaRow(r1, {"op"})
        /\ MediaRow(r2, {"op"})
        /\ MediaRow(r3, {"op"})
        /\ MediaRow(r4, {"op"})
    BY RowFields DEF r1, r2, r3, r4, MediaRow, Media
  <1>8. /\ MediaRow(r5, {"op"})
        /\ MediaRow(r6, {"op"})
        /\ MediaRow(r7, {"op"})
        /\ MediaRow(r8, {"op"})
    BY RowFields DEF r5, r6, r7, r8, MediaRow, Media
  <1>. QED
    BY <1>1, <1>4, <1>6, <1>7, <1>8

\* The opcodes of SSE for prefix F2, up to 7F.
LEMMA SSE_F2_Low == \A r \in X86_SSE_F2_Low : SoundRow(2, r) /\ MediaRow(r, {"op"})
  <1>. DEFINE r1 == Media({\h10, \h12, \h51, \h58, \h59, \h5A, \h6F, \h7C, \h7D}
            \cup \h5C..\h5F, <<Xmm, Src("W")>>)
              r2 == Media({\h11}, <<Dst("W"), Xmm>>)
              r3 == Media({\h2A}, <<Xmm, Src("E")>>)
              r4 == Media({\h2C, \h2D}, <<Reg, Src("W")>>)
              r5 == Media({\h70}, <<Xmm, Src("W"), Imm("b")>>)
  <1>1. X86_SSE_F2_Low = {r1, r2, r3, r4, r5}
    BY DEF X86_SSE_F2_Low
  <1>. HIDE DEF r1, r2, r3, r4, r5
  <1>2. /\ Fits(2, {\h11}, "media", "memory", "none")
        /\ Fits(2, {\h2A}, "media", "memory", "none")
        /\ Fits(2, {\h2C, \h2D}, "media", "memory", "none")
    BY DEF Fits, ImmediateClass, TwoByteClass, IsTransfer, TransferTypes, IsLoop,
           ModRMListed, HasModRMBy, TwoByteNoModRM, X86_ModRM_2, Byte
  <1>3. Fits(2, {\h10, \h12, \h51, \h58, \h59, \h5A, \h6F, \h7C, \h7D} \cup \h5C..\h5F,
            "media", "memory", "none")
    BY DEF Fits, ImmediateClass, TwoByteClass, IsTransfer, TransferTypes, IsLoop,
           ModRMListed, HasModRMBy, TwoByteNoModRM, X86_ModRM_2, Byte
  <1>4. SoundRow(2, r1) /\ SoundRow(2, r2) /\ SoundRow(2, r3) /\ SoundRow(2, r4)
    BY <1>2, <1>3, OperandsRow, MemoryLists DEF r1, r2, r3, r4, Media
  <1>5. Fits(2, {\h70}, "media", "memory", "b")
    BY DEF Fits, ImmediateClass, TwoByteClass, IsTransfer, TransferTypes, IsLoop,
           ModRMListed, HasModRMBy, TwoByteNoModRM, X86_ModRM_2, Byte
  <1>6. SoundRow(2, r5)
    BY <1>5, OperandsRow, MemoryImmediateLists DEF r5, Media
  <1>7. /\ MediaRow(r1, {"op"})
        /\ MediaRow(r2, {"op"})
        /\ MediaRow(r3, {"op"})
        /\ MediaRow(r4, {"op"})
    BY RowFields DEF r1, r2, r3, r4, MediaRow, Media
  <1>8. MediaRow(r5, {"op"})
    BY RowFields DEF r5, MediaRow, Media
  <1>. QED
    BY <1>1, <1>4, <1>6, <1>7, <1>8

\* The opcodes of SSE for prefix F2, from 80 on.
LEMMA SSE_F2_High == \A r \in X86_SSE_F2_High : SoundRow(2, r) /\ MediaRow(r, {"op"})
  <1>. DEFINE r1 == Media({\hD0, \hE6}, <<Xmm, Src("W")>>)
              r2 == Media({\hF0}, <<Xmm, Src("M")>>)
              r3 == Media({\hC2}, <<Xmm, Src("W"), Imm("b")>>)
              r4 == Media({\hD6}, <<Src("P"), Src("VR")>>)
  <1>1. X86_SSE_F2_High = {r1, r2, r3, r4}
    BY DEF X86_SSE_F2_High
  <1>. HIDE DEF r1, r2, r3, r4
  <1>2. /\ Fits(2, {\hD0, \hE6}, "media", "memory", "none")
        /\ Fits(2, {\hF0}, "media", "memory", "none")
        /\ Fits(2, {\hC2}, "media", "memory", "b")
        /\ Fits(2, {\hD6}, "media", "register", "none")
    BY DEF Fits, ImmediateClass, TwoByteClass, IsTransfer, TransferTypes, IsLoop,
           ModRMListed, HasModRMBy, TwoByteNoModRM, X86_ModRM_2, Byte
  <1>3. SoundRow(2, r1) /\ SoundRow(2, r2)
    BY <1>2, OperandsRow, MemoryLists DEF r1, r2, Media
  <1>4. SoundRow(2, r3) /\ SoundRow(2, r4)
    BY <1>2, OperandsRow, MemoryImmediateLists, RegisterLists DEF r3, r4, Media
  <1>5. /\ MediaRow(r1, {"op"})
        /\ MediaRow(r2, {"op"})
        /\ MediaRow(r3, {"op"})
        /\ MediaRow(r4, {"op"})
    BY RowFields DEF r1, r2, r3, r4, MediaRow, Media
  <1>. QED
    BY <1>1, <1>3, <1>4, <1>5

\* The opcodes of SSE for prefix F3, up to 7F.
LEMMA SSE_F3_Low == \A r \in X86_SSE_F3_Low : SoundRow(2, r) /\ MediaRow(r, {"op"})
  <1>. DEFINE r1 == Media({\h10, \h12, \h16, \h51, \h52, \h53, \h6F, \h7E}
            \cup \h58..\h5F, <<Xmm, Src("W")>>)
              r2 == Media({\h11, \h7F}, <<Dst("W"), Xmm>>)
              r3 == Media({\h2A}, <<Xmm, Src("E")>>)
              r4 == Media({\h2C, \h2D}, <<Reg, Src("W")>>)
              r5 == Media({\h70}, <<Xmm, Src("W"), Imm("b")>>)
  <1>1. X86_SSE_F3_Low = {r1, r2, r3, r4, r5}
    BY DEF X86_SSE_F3_Low
  <1>. HIDE DEF r1, r2, r3, r4, r5
  <1>2. /\ Fits(2, {\h11, \h7F}, "media", "memory", "none")
        /\ Fits(2, {\h2A}, "media", "memory", "none")
        /\ Fits(2, {\h2C, \h2D}, "media", "memory", "none")
    BY DEF Fits, ImmediateClass, TwoByteClass, IsTransfer, TransferTypes, IsLoop,
           ModRMListed, HasModRMBy, TwoByteNoModRM, X86_ModRM_2, Byte
  <1>3. Fits(2, {\h10, \h12, \h16, \h51, \h52, \h53, \h6F, \h7E} \cup \h58..\h5F, "media",
            "memory", "none")
    BY DEF Fits, ImmediateClass, TwoByteClass, IsTransfer, TransferTypes, IsLoop,
           ModRMListed, HasModRMBy, TwoByteNoModRM, X86_ModRM_2, Byte
  <1>4. SoundRow(2, r1) /\ SoundRow(2, r2) /\ SoundRow(2, r3) /\ SoundRow(2, r4)
    BY <1>2, <1>3, OperandsRow, MemoryLists DEF r1, r2, r3, r4, Media
  <1>5. Fits(2, {\h70}, "media", "memory", "b")
    BY DEF Fits, ImmediateClass, TwoByteClass, IsTransfer, TransferTypes, IsLoop,
           ModRMListed, HasModRMBy, TwoByteNoModRM, X86_ModRM_2, Byte
  <1>6. SoundRow(2, r5)
    BY <1>5, OperandsRow, MemoryImmediateLists DEF r5, Media
  <1>7. /\ MediaRow(r1, {"op"})
        /\ MediaRow(r2, {"op"})
        /\ MediaRow(r3, {"op"})
        /\ MediaRow(r4, {"op"})
    BY RowFields DEF r1, r2, r3, r4, MediaRow, Media
  <1>8. MediaRow(r5, {"op"})
    BY RowFields DEF r5, MediaRow, Media
  <1>. QED
    BY <1>1, <1>4, <1>6, <1>7, <1>8

\* The opcodes of SSE for prefix F3, from 80 on.
LEMMA SSE_F3_High == \A r \in X86_SSE_F3_High : SoundRow(2, r) /\ MediaRow(r, {"op"})
  <1>. DEFINE r1 == Media({\hE6}, <<Xmm, Src("W")>>)
              r2 == Media({\hC2}, <<Xmm, Src("W"), Imm("b")>>)
              r3 == Media({\hD6}, <<Xmm, Src("PR")>>)
  <1>1. X86_SSE_F3_High = {r1, r2, r3}
    BY DEF X86_SSE_F3_High
  <1>. HIDE DEF r1, r2, r3
  <1>2. /\ Fits(2, {\hE6}, "media", "memory", "none")
        /\ Fits(2, {\hC2}, "media", "memory", "b")
        /\ Fits(2, {\hD6}, "media", "register", "none")
    BY DEF Fits, ImmediateClass, TwoByteClass, IsTransfer, TransferTypes, IsLoop,
           ModRMListed, HasModRMBy, TwoByteNoModRM, X86_ModRM_2, Byte
  <1>3. SoundRow(2, r1) /\ SoundRow(2, r2)
    BY <1>2, OperandsRow, MemoryLists, MemoryImmediateLists DEF r1, r2, Media
  <1>4. SoundRow(2, r3)
    BY <1>2, OperandsRow, RegisterLists DEF r3, Media
  <1>5. /\ MediaRow(r1, {"op"})
        /\ MediaRow(r2, {"op"})
        /\ MediaRow(r3, {"op"})
    BY RowFields DEF r1, r2, r3, MediaRow, Media
  <1>. QED
    BY <1>1, <1>3, <1>4, <1>5

------------------------------------------------------------------------------
(***************************************************************************)
(* The tables as a whole.                                                  *)
(***************************************************************************)
LEMMA FoundSound ==
    ASSUME NEW size, NEW rows, \A r \in rows : SoundRow(size, r), NEW b
    PROVE  SoundEntry(size, b, Find(rows, b))
  <1>1. ASSUME NEW m \in Byte, NEW k \in {0, 1}
        PROVE  Sound(size, b, m, Whole(Invalid, m), Resolved(Invalid, m, k))
    <2>1. Resolved(Invalid, m, k) = Invalid
      BY DEF Resolved, Invalid, Entry
    <2>. QED BY <2>1, InvalidSound
  <1>2. CASE Find(rows, b) = Invalid
    BY <1>1, <1>2 DEF SoundEntry
  <1>3. CASE \E r \in rows : b \in r.codes /\ Find(rows, b) = r.entry
    BY <1>3 DEF SoundRow
  <1>. QED BY <1>2, <1>3, FindCases

(***************************************************************************)
(* For every opcode of one byte, of two bytes, and of two bytes behind an  *)
(* SSE prefix, and for every ModRM byte: the entry that is found counts    *)
(* the bytes the manuals give the instruction, and a jump is marked one.   *)
(* (X86_Opcodes_1, X86_Opcodes_2 and X86_SSE of disasm_x86_tables.h.)      *)
(***************************************************************************)
THEOREM OneByteTable == \A b \in Byte : SoundEntry(1, b, X86_Opcodes_1[b])
  <1>1. \A r \in X86_Opcodes_1_Low \cup X86_Opcodes_1_High : SoundRow(1, r)
    BY OneByteLow, OneByteHigh
  <1>. QED BY <1>1, FoundSound DEF X86_Opcodes_1

\* The same of the opcodes behind 0F.
THEOREM TwoByteTable == \A b \in Byte : SoundEntry(2, b, X86_Opcodes_2[b])
  <1>1. \A r \in X86_Opcodes_2_Low \cup X86_Opcodes_2_High : SoundRow(2, r)
    BY TwoByteLow, TwoByteHigh
  <1>. QED BY <1>1, FoundSound DEF X86_Opcodes_2

\* The same of the opcodes behind a prefix 66, F2 or F3 and 0F, of which only
\* those behind 66 lead to groups, and none is a jump.
THEOREM MediaTable ==
    \A p \in {\h66, \hF2, \hF3}, b \in Byte :
        /\ SoundEntry(2, b, X86_SSE[p][b])
        /\ X86_SSE[p][b].kind \in {"invalid", "op", "group"}
        /\ X86_SSE[p][b].kind = "group" => p = \h66
        /\ b \in \h80..\h8F => X86_SSE[p][b].kind = "invalid"
  <1>. DEFINE rows(p) == CASE p = \h66 -> X86_SSE_66_Low \cup X86_SSE_66_High
                           [] p = \hF2 -> X86_SSE_F2_Low \cup X86_SSE_F2_High
                           [] OTHER    -> X86_SSE_F3_Low \cup X86_SSE_F3_High
  <1>1. \A p \in {\h66, \hF2, \hF3}, b \in Byte : X86_SSE[p][b] = Find(rows(p), b)
    BY DEF X86_SSE
  <1>2. \A r \in X86_SSE_66_Low \cup X86_SSE_66_High :
            SoundRow(2, r) /\ MediaRow(r, {"op", "group"})
    BY SSE_66_Low, SSE_66_High DEF MediaRow
  <1>3. \A r \in X86_SSE_F2_Low \cup X86_SSE_F2_High : SoundRow(2, r) /\ MediaRow(r, {"op"})
    BY SSE_F2_Low, SSE_F2_High
  <1>4. \A r \in X86_SSE_F3_Low \cup X86_SSE_F3_High : SoundRow(2, r) /\ MediaRow(r, {"op"})
    BY SSE_F3_Low, SSE_F3_High
  <1>5. ASSUME NEW p \in {\h66, \hF2, \hF3}, NEW r \in rows(p)
        PROVE  /\ SoundRow(2, r)
               /\ MediaRow(r, {"op", "group"})
               /\ p # \h66 => MediaRow(r, {"op"})
    BY <1>2, <1>3, <1>4, <1>5 DEF MediaRow
  <1>. HIDE DEF rows
  <1>. SUFFICES ASSUME NEW p \in {\h66, \hF2, \hF3}, NEW b \in Byte
                PROVE  /\ SoundEntry(2, b, X86_SSE[p][b])
                       /\ X86_SSE[p][b].kind \in {"invalid", "op", "group"}
                       /\ X86_SSE[p][b].kind = "group" => p = \h66
                       /\ b \in \h80..\h8F => X86_SSE[p][b].kind = "invalid"
    OBVIOUS
  <1>6. SoundEntry(2, b, X86_SSE[p][b])
    BY <1>1, <1>5, FoundSound
  <1>7. /\ X86_SSE[p][b].kind \in {"invalid", "op", "group"}
        /\ X86_SSE[p][b].kind = "group" => p = \h66
        /\ b \in \h80..\h8F => X86_SSE[p][b].kind = "invalid"
    <2>1. CASE X86_SSE[p][b] = Invalid
      BY <2>1 DEF Invalid, Entry
    <2>2. CASE \E r \in rows(p) : b \in r.codes /\ X86_SSE[p][b] = r.entry
      BY <2>2, <1>5 DEF MediaRow
    <2>. QED BY <2>1, <2>2, <1>1, FindCases
  <1>. QED BY <1>6, <1>7

\* The suffixes of 3DNow! are neither jumps nor moves.
LEMMA SuffixTable ==
    \A b : Lookup("Suffix_3DNOW", b).kind = "invalid"
           \/ (Lookup("Suffix_3DNOW", b).kind = "op" /\ Lookup("Suffix_3DNOW", b).type = "other")
  <1>. DEFINE codes == {\h0C, \h0D, \h1C, \h1D, \h8A, \h8E, \h90, \h94, \h96, \h97, \h9A, \h9E,
                        \hA0, \hA4, \hA6, \hA7, \hAA, \hAE, \hB0, \hB4, \hB6, \hB7, \hBB, \hBF}
              row == Row(codes, "other", <<Src("P"), Src("Q")>>)
  <1>1. X86_3DNOW_0F = {row}
    BY DEF X86_3DNOW_0F, Other
  <1>2. row.entry.kind = "op" /\ row.entry.type = "other"
    BY RowFields
  <1>. HIDE DEF codes, row
  <1>3. Invalid.kind = "invalid"
    BY DEF Invalid, Entry
  <1>. QED BY <1>1, <1>2, <1>3, FindCases, Tables DEF Lookup
==============================================================================
