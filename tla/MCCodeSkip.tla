------------------------------ MODULE MCCodeSkip ------------------------------
(***************************************************************************)
(* Instances of CodeSkip for TLC: functions that begin with every opcode   *)
(* of both maps, behind every kind of prefix, with a ModRM byte of every   *)
(* kind, and the first instructions compilers give to Windows functions.   *)
(***************************************************************************)
EXTENDS CodeSkip, X86Manual, TLC

\* Behind the instruction of interest comes this, and zeros.
Nops == <<\h90, \h90, \h90, \h90>>

\* No address registers, a SIB byte with and without a base, the three sizes of
\* displacement, and registers; extensions 0 to 7 where they select an entry.
ModRMs == {<<m + 8 * e>> : m \in {\h05, \hC1}, e \in 0..7}
          \cup {<<m + 8 * e>> : m \in {\h00, \h41, \h86}, e \in {0, 5}}
          \cup {<<m + 8 * e, \h25>> : m \in {\h04, \h44}, e \in {0, 5}}

Opcodes == {<<b>> : b \in Byte \ {\h0F}} \cup {<<\h0F, b>> : b \in Byte}

\* 48 is REX.W in 64-bit code, an instruction of its own in 32-bit code.
Prefixes == {<<>>, <<\h66>>, <<\h67>>, <<\hF3>>, <<\h48>>}

OneInstruction ==
    {p \o o \o m \o Nops : p \in Prefixes, o \in Opcodes, m \in ModRMs}

\* Several prefixes: segments, locks, a REX prefix in the wrong place, the same
\* prefix again, and more of them than are allowed.
Repeated(b, n) == [k \in 1..n |-> b]
PrefixChains ==
    {<<\hF0>>, <<\hF0, \h48>>, <<\h2E>>, <<\h65, \h48>>, <<\h3E, \h3E>>, <<\hF2, \hF3>>,
     <<\h66, \h48>>, <<\h48, \h66>>, <<\h40>>, <<\h66, \h40>>, <<\h66, \hF2, \h67, \hF3, \h2E>>} \cup
    {Repeated(\h2E, n) : n \in 4..16}
PrefixedInstruction ==
    {p \o o \o <<m>> \o Nops :
        p \in PrefixChains, m \in {\h05, \h81, \h84, \hC1},
        o \in {<<\h81>>, <<\hC7>>, <<\h8B>>, <<\hB8>>, <<\hFF>>,
               <<\h0F, \h0D>>, <<\h0F, \hB1>>, <<\h0F, \hAB>>, <<\h0F, \h10>>, <<\h0F, \hC6>>}}

\* The first instructions of Windows functions.
Prologues == {
    \* 32-bit: room for a hot patch and a frame, a system call, a push, a loop
    <<\h8B, \hFF, \h55, \h8B, \hEC>>,
    <<\h55, \h8B, \hEC, \h83, \hEC, \h10>>,
    <<\hB8, \h25, 0, 0, 0, \hBA, 0, 3, \hFE, \h7F, \hFF, \h12>>,
    <<\h6A, \h18, \h68, 1, 2, 3, 4>>,
    <<\h33, \hC9, \hE2, \hFE, \hC3>>,
    \* 64-bit: registers saved, a system call, operands relative to RIP, a test
    <<\h48, \h89, \h5C, \h24, 8, \h57, \h48, \h83, \hEC, \h20>>,
    <<\h4C, \h8B, \hD1, \hB8, \h3C, 0, 0, 0, \h0F, \h05, \hC3>>,
    <<\h40, \h53, \h48, \h83, \hEC, \h20>>,
    <<\h48, \h8B, \h05, 1, 2, 3, 4, \hC3>>,
    <<\h53, \h48, \h8D, \h0D, 1, 2, 3, 4>>,
    <<\h33, \hC0, \h48, \h89, \h05, 1, 2, 3, 4>>,
    <<\h50, \h50, \h50, \h50, \h48, \hC7, \h05, 1, 2, 3, 4, 5, 6, 7, 8>>,
    <<\h48, \h85, \hC9, \h74, \h10>>}

\* Four bytes are taken, and a long instruction comes next.
Longest ==
    {Repeated(\h50, 4) \o Repeated(\h2E, n) \o <<\hC7, \h84, \h24, 1, 2, 3, 4, 5, 6, 7, 8>> :
        n \in 0..15}

MCFunctions == OneInstruction \cup PrefixedInstruction \cup Prologues \cup Longest

------------------------------------------------------------------------------
\* mov to a 64-bit register with zero or sign extension, from memory relative
\* to the instruction pointer; lea for comparison.
Extensions == {<<\h48>> \o o \o <<\h05, 1, 2, 3, 4, \hC3>> :
                  o \in {<<\h8D>>, <<\h0F, \hB6>>, <<\h0F, \hB7>>, <<\h0F, \hBE>>, <<\h0F, \hBF>>}}

\* Functions that begin with a memory fence.
Fences == {<<\h0F, \hAE, m>> \o Nops : m \in {\hE8, \hF0, \hF8}}
==============================================================================
