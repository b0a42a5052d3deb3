------------------------------- MODULE Gb2312 -------------------------------
(***************************************************************************)
(* The path of a recording as the FTP server of a recorder wants it: in    *)
(* two commands, one that enters the directory and one that names the file *)
(* in it (src/ftp/ftpApi.c), both in GB 2312.  UTF_8ToGB2312 goes through  *)
(* the bytes of a text, copies those below 128 and turns three bytes at a  *)
(* time into the two of GB 2312 (src/ftp/gb2312_utf8.c).  A text is a      *)
(* sequence of code points; Utf8 is how Qt hands it over.                  *)
(***************************************************************************)
EXTENDS Integers, SequencesExt

CONSTANTS
    NameChars,      \* code points in paths
    MaxName         \* bound: characters in a path

ASSUME NameCharsAssumption ==
    /\ \A u \in NameChars : u \in Nat /\ 1 <= u /\ u <= 65535
    /\ MaxName \in Nat

\* giGB2312: three rows of the table, [GB 2312 as two bytes swapped, Unicode].
giGB2312 == <<<<41377, 12288>>, <<41636, 12354>>, <<53462, 20013>>>>
MISSING == 65535

(* getgb: the first row with the Unicode.                                  *)
getgb(u) ==
    LET rows == {i \in DOMAIN giGB2312 : giGB2312[i][2] = u} IN
    IF rows = {} THEN MISSING
    ELSE giGB2312[CHOOSE i \in rows : \A k \in rows : i <= k][1]

(* How a code point is written (external).                                 *)
Utf8(u) ==
    IF u < 128 THEN <<u>>
    ELSE IF u < 2048 THEN <<192 + u \div 64, 128 + (u % 64)>>
    ELSE <<224 + u \div 4096, 128 + ((u \div 64) % 64), 128 + (u % 64)>>

VARIABLES
    fileName,       \* the path, code points
    pText, textAt,  \* its bytes, and how many have been taken
    newBuf,         \* the bytes made so far
    Ctemp           \* two bytes, as the last character left them

nameVars == <<fileName, pText, textAt, newBuf, Ctemp>>

NameInit ==
    /\ fileName \in SeqOf(NameChars, MaxName)
    /\ pText = FlattenSeq([k \in DOMAIN fileName |-> Utf8(fileName[k])])
    /\ textAt = 0
    /\ newBuf = <<>>
    /\ Ctemp = <<0, 0>>

\* Past the end is the 0 that ends the string.
ByteAt(k) == IF k < Len(pText) THEN pText[k + 1] ELSE 0

HighByte == (ByteAt(textAt) % 16) * 16 + ((ByteAt(textAt + 1) \div 4) % 16)

\* Mutant: the low bits of the middle byte are lost.
Unicode_NoMiddle == HighByte * 256 + (ByteAt(textAt + 2) % 64)
(* UTF_8ToUnicode takes three bytes, whatever they are.                    *)
Unicode ==
    HighByte * 256 + (ByteAt(textAt + 1) % 4) * 64 + (ByteAt(textAt + 2) % 64)

(* unicode2gb on one character: one byte is written below 256, and the     *)
(* other byte of Ctemp is the last character's.                            *)
Converted ==
    IF Unicode < 256 THEN <<Unicode, Ctemp[2]>>
    ELSE <<getgb(Unicode) % 256, getgb(Unicode) \div 256>>

CopyByte ==
    /\ textAt < Len(pText) /\ ByteAt(textAt) < 128
    /\ newBuf' = Append(newBuf, ByteAt(textAt))
    /\ textAt' = textAt + 1
    /\ UNCHANGED <<fileName, pText, Ctemp>>

ConvertThree ==
    /\ textAt < Len(pText) /\ ByteAt(textAt) >= 128
    /\ Ctemp' = Converted
    /\ newBuf' = newBuf \o Converted
    /\ textAt' = textAt + 3
    /\ UNCHANGED <<fileName, pText>>

NameNext == CopyByte \/ ConvertThree

NameSpec == NameInit /\ [][NameNext]_nameVars

-----------------------------------------------------------------------------
(* The two commands.                                                       *)

SLASH == 47

(* What is after the last slash.                                           *)
get_file_name(path) ==
    SubSeq(path, SelectLastInSeq(path, LAMBDA c : c = SLASH) + 1, Len(path))

(* Where the file's name is found in the path: strstr() takes the first    *)
(* place, which may be in the name of a directory.                         *)
NamePlaces(path) ==
    LET name == get_file_name(path) IN
    {k \in 1 .. Len(path) - Len(name) + 1 : SubSeq(path, k, k + Len(name) - 1) = name}
NameAt(path) == Min(NamePlaces(path))

(* The directory is what comes before the name.                            *)
make_cwd_comm(path) ==
    IF get_file_name(path) = <<>> THEN path ELSE SubSeq(path, 1, NameAt(path) - 1)

-----------------------------------------------------------------------------
\* What GB 2312 writes for a character, two bytes of 255 if it has none.
Gb(u) == IF u < 128 THEN <<u>> ELSE <<getgb(u) % 256, getgb(u) \div 256>>

\* UTF-8 writes every character with one or three bytes.
Plain == \A k \in DOMAIN fileName : fileName[k] < 128 \/ fileName[k] >= 2048

(* UTF_8ToGB2312: a name of characters that UTF-8 writes with one or three *)
(* bytes comes out character by character, without those it cannot write   *)
(* shifting the ones after them, and is never longer than before; and      *)
(* get_file_name with make_cwd_comm take the path apart without a loss,    *)
(* unless a directory's name has the file's name in it.                    *)
SplitsWell(path) ==
    \/ make_cwd_comm(path) \o get_file_name(path) = path
    \/ \E k, l \in NamePlaces(path) : k < l

NameComesOut ==
    /\ SplitsWell(fileName)
    /\ Len(newBuf) <= textAt
    /\ (textAt >= Len(pText) /\ Plain)
         => newBuf = FlattenSeq([k \in DOMAIN fileName |-> Gb(fileName[k])])
=============================================================================
