---------------------------- MODULE SettingsText ----------------------------
(***************************************************************************)
(* The text of ComputerLock: the settings response the server sends, how   *)
(* common::split and the readers of the settings files take it apart, and  *)
(* what the readers conclude from a file's content.                        *)
(*                                                                         *)
(* A text is a sequence of characters.  A character is abstract: one       *)
(* element of Char stands for a run of bytes nobody looks inside of (a     *)
(* process name, an extension, a decimal number), except Colon, Newline    *)
(* and the other members of Space, which the code compares bytes with.     *)
(***************************************************************************)
EXTENDS Integers, Sequences

CONSTANTS
    Char,                   \* every character
    Colon,                  \* MESSAGE_PARAMETER_DELIMITER
    Newline,                \* SETTINGS_DELIMITER
    Space,                  \* the characters isspace() accepts
    FileDataBufferLength    \* fileDataBufferLength: what IsImportant reads, plus one

ASSUME CharAssumption ==
    /\ Colon \in Char
    /\ Space \subseteq Char
    /\ Newline \in Space
    /\ Colon \notin Space

ASSUME BufferAssumption == FileDataBufferLength \in Nat \ {0}

Text == Seq(Char)

Smaller(a, b) == IF a <= b THEN a ELSE b

(***************************************************************************)
(* The position of the first character of s, from position i on, that is   *)
(* in S; one past the end of s when there is none.                         *)
(***************************************************************************)
FirstIn(s, i, S) ==
    IF \E j \in i .. Len(s) : s[j] \in S
    THEN CHOOSE j \in i .. Len(s) :
            /\ s[j] \in S
            /\ \A k \in i .. j - 1 : s[k] \notin S
    ELSE Len(s) + 1

-----------------------------------------------------------------------------
(***************************************************************************)
(* common::split.  std::getline delivers the characters from i up to the   *)
(* next delimiter and moves behind it.  It fails when nothing is left at   *)
(* i, so a delimiter at the very end opens no further element.             *)
(***************************************************************************)
GetLine(s, i, delim) == SubSeq(s, i, FirstIn(s, i, {delim}) - 1)

Lines(s, delim) ==
    {GetLine(s, i, delim) : i \in {j \in 1 .. Len(s) : j = 1 \/ s[j - 1] = delim}}

(***************************************************************************)
(* Where elements 0 to 3 of split(s, ':') begin, and whether the vector    *)
(* has them: the four elements ParseSettingsResponse indexes.              *)
(***************************************************************************)
ElementStart(s, n) ==
    LET Next(i) == FirstIn(s, i, {Colon}) + 1
    IN  CASE n = 0 -> 1
          [] n = 1 -> Next(1)
          [] n = 2 -> Next(Next(1))
          [] n = 3 -> Next(Next(Next(1)))

HasElement(s, n) == ElementStart(s, n) <= Len(s)

Element(s, n) == GetLine(s, ElementStart(s, n), Colon)

-----------------------------------------------------------------------------
(***************************************************************************)
(* common::GetParamsFromFile: the stream operator >> skips leading white   *)
(* space and stops at the next one, so only the first word of the file is  *)
(* ever split at line ends.                                                *)
(***************************************************************************)
FirstWord(s) ==
    LET i == FirstIn(s, 1, Char \ Space)
    IN  SubSeq(s, i, FirstIn(s, i, Space) - 1)

GetParamsFromFile(content) == Lines(FirstWord(content), Newline)

\* ProcessHandler::IsProcessSafe: the name is one of the file's parameters.
IsProcessSafe(name, content) == name \in GetParamsFromFile(content)

-----------------------------------------------------------------------------
\* EndsWith of the hook library; every value ends with the empty text.
EndsWith(value, ending) ==
    /\ Len(ending) <= Len(value)
    /\ SubSeq(value, Len(value) - Len(ending) + 1, Len(value)) = ending

EraseSpace(s) == SelectSeq(s, LAMBDA c : c \notin Space)

IsImportant_OneLine(filePath, content) ==   \* mutant: the first line only
    EndsWith(filePath, EraseSpace(GetLine(content, 1, Newline)))

(***************************************************************************)
(* IsImportant of the hook library: one read of at most                    *)
(* FileDataBufferLength - 1 characters, split at line ends, white space    *)
(* erased from each line, the path compared with every line.               *)
(***************************************************************************)
IsImportant(filePath, content) ==
    LET read == SubSeq(content, 1, Smaller(Len(content), FileDataBufferLength - 1))
    IN  \E line \in Lines(read, Newline) : EndsWith(filePath, EraseSpace(line))

-----------------------------------------------------------------------------
(***************************************************************************)
(* The settings response: a length nobody reads, the processes, the file   *)
(* paths and the file extensions, separated by colons.                     *)
(***************************************************************************)
Response(policy) ==
    policy.length \o <<Colon>> \o policy.processes \o <<Colon>>
        \o policy.paths \o <<Colon>> \o policy.exts

\* What the server may send in a field: text without the field delimiter.
FieldText == Seq(Char \ {Colon})

PolicyType == [length : FieldText, processes : FieldText,
               paths : FieldText, exts : FieldText]
=============================================================================
