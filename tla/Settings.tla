------------------------------ MODULE Settings ------------------------------
(***************************************************************************)
(* The broadcast settings in BroadcastInfoConfig.ini: ReadParam and        *)
(* ModifyParam (src/state/fileConfig.c), and the boot that reads every     *)
(* setting and writes those back which it had to make up                   *)
(* (ReadBrodCastInfo and the setters of src/state/state.c).  ModifyParam   *)
(* writes a new file and copies it over the old one, which is truncated    *)
(* first.  Each of the files may fail to open, and either may come out     *)
(* short; no result of that is looked at, and the setter stores the value  *)
(* all the same.  The train may be switched off at any moment, and         *)
(* whatever part of the text has reached the disk is what the next boot    *)
(* reads.                                                                  *)
(*                                                                         *)
(* A line is what the two functions can see in it.  They compare the       *)
(* beginning of a line with the group or the key, so a torn line counts as *)
(* long as its key is whole, and text glued to it does not hide it.        *)
(***************************************************************************)
EXTENDS Integers, Sequences

CONSTANTS
    Keys,       \* the settings, a sequence in the order of ReadBrodCastInfo
    Default,    \* what a setting is when the file does not tell
    Top,        \* its highest value; the lowest is 0
    Shipped,    \* its value in the file the client is delivered with
    MaxTroubles, \* bound: power cuts and failed writes
    MaxBoots    \* bound: boots

N == Len(Keys)
Names == {Keys[i] : i \in 1 .. N}
GroupName == "[BroadcastInfo]"

ASSUME KeysAssumption ==
    /\ Keys \in Seq(Names) /\ Keys # <<>>
    /\ \A i, j \in 1 .. N : Keys[i] = Keys[j] => i = j
    /\ GroupName \notin Names
ASSUME ValuesAssumption ==
    Default \in [Names -> Nat] /\ Top \in [Names -> Nat] /\ Shipped \in [Names -> Nat]

VARIABLES
    ini,        \* the lines of the file
    ragged,     \* the last one has no newline
    fresh,      \* inside ModifyParam: the new file, and the old one
    settings,   \* g_iMoniEnable, g_iNoiseEnable, g_iLcdVolum, ...: -1 at first
    next,       \* the setting the boot comes to; N + 1: the client is up
    troubles, boots,
    sound       \* complete boots since the last power cut or failed write;
                \* -1 in a boot in which a write has failed

settingsVars == <<ini, ragged, fresh, settings, next, troubles, boots, sound>>

UNREAD == -1
EMPTY == -2             \* "key=" without a value
BARE == -3              \* "key" without "="
Group == [key |-> GroupName, value |-> BARE]
Scrap == [key |-> "scrap", value |-> BARE]
Param(k, v) == [key |-> k, value |-> v]
NoFile == <<>>

-----------------------------------------------------------------------------
(* ReadParam: the first line with the key behind the first with the group. *)

Hits(file, k) ==
    {i \in DOMAIN file :
        file[i].key = k /\ \E j \in 1 .. i - 1 : file[j] = Group}

(* What the caller gets: a value, or UNREAD when there is none.            *)
ReadParam(file, k) ==
    IF Hits(file, k) = {} THEN UNREAD
    ELSE LET i == CHOOSE i \in Hits(file, k) : \A j \in Hits(file, k) : i <= j IN
         IF file[i].value < 0 THEN UNREAD ELSE file[i].value

(* atoi() of the text, or the default; the value is used even when it is   *)
(* out of range.                                                           *)
ValueOf(file, k) ==
    IF ReadParam(file, k) = UNREAD THEN Default[k] ELSE ReadParam(file, k)

InRange(k, v) == v \in 0 .. Top[k]

-----------------------------------------------------------------------------
(* ModifyParam.                                                            *)

(* The group's flag is set by a group line and cleared by a line that is   *)
(* replaced.                                                               *)
Replaced(file, k) ==
    {i \in DOMAIN file :
        /\ file[i].key = k
        /\ \E j \in 1 .. i - 1 :
              file[j] = Group /\ \A l \in j + 1 .. i - 1 : file[l].key # k}

(* A line that is written behind one without a newline is part of it.      *)
Glued(line, text) ==
    IF line.key \notin Names THEN line
    ELSE IF line.value = BARE THEN Param(line.key, text.value)
    ELSE IF line.value = EMPTY THEN Param(line.key, 0)
    ELSE line

AppendLine(file, open, text) ==
    IF open THEN [file EXCEPT ![Len(file)] = Glued(@, text)] ELSE Append(file, text)

\* Mutant: a key that is not there is written, but not its group.
Modified_NoGroup(file, open, k, v) ==
    LET hit == Replaced(file, k) IN
    IF hit # {} THEN [i \in DOMAIN file |-> IF i \in hit THEN Param(k, v) ELSE file[i]]
    ELSE AppendLine(file, open, Param(k, v))
(* The new file.                                                           *)
Modified(file, open, k, v) ==
    LET hit == Replaced(file, k) IN
    IF hit # {} THEN [i \in DOMAIN file |-> IF i \in hit THEN Param(k, v) ELSE file[i]]
    ELSE IF \E i \in DOMAIN file : file[i] = Group
         THEN AppendLine(file, open, Param(k, v))
         ELSE Append(AppendLine(file, open, Group), Param(k, v))

(* It ends with a newline, unless the torn last line was only copied.      *)
StaysRagged(file, open, k) ==
    open /\ Replaced(file, k) # {} /\ Len(file) \notin Replaced(file, k)

-----------------------------------------------------------------------------
ShippedFile == <<Group>> \o [i \in 1 .. N |-> Param(Keys[i], Shipped[Keys[i]])]

SettingsInit ==
    /\ ini = ShippedFile /\ ragged = FALSE
    /\ fresh = NoFile
    /\ settings = [k \in Names |-> UNREAD]
    /\ next = 1
    /\ troubles = 0 /\ boots = 1 /\ sound = 0

Booting == next \in 1 .. N /\ fresh = NoFile
Key == Keys[next]
Known == ValueOf(ini, Key)

\* Mutant: a value that was read is not stored before the setter looks.
Accepted_Never(k) == FALSE
(* ReadBrodCastInfo stores a value that is in range before the setter,     *)
(* which then has nothing to write.                                        *)
Accepted(k) == ReadParam(ini, k) # UNREAD /\ InRange(k, ReadParam(ini, k))

(* The setting is stored; the boot comes to the next one.                  *)
Stored(count) ==
    /\ settings' = [settings EXCEPT ![Key] = Known]
    /\ next' = next + 1
    /\ sound' = IF next = N /\ count >= 0 THEN count + 1 ELSE count

Take ==
    /\ Booting
    /\ Accepted(Key)
    /\ Stored(sound)
    /\ UNCHANGED <<ini, ragged, fresh, troubles, boots>>

(* The setter writes the value: the new file is there, and CopyFile has    *)
(* truncated the old one.                                                  *)
Modify ==
    /\ Booting
    /\ ~Accepted(Key)
    /\ fresh' = Modified(ini, ragged, Key, Known)
    /\ UNCHANGED <<ini, ragged, settings, next, troubles, boots, sound>>

Trouble == troubles < MaxTroubles /\ troubles' = troubles + 1

(* A file cannot be opened, by ModifyParam or by CopyFile.                 *)
NotOpened ==
    /\ Trouble
    /\ Booting
    /\ ~Accepted(Key)
    /\ Stored(-1)
    /\ UNCHANGED <<ini, ragged, fresh, boots>>

(* The copy is on the disk.                                                *)
CopyDone ==
    /\ fresh # NoFile
    /\ ini' = fresh
    /\ ragged' = StaysRagged(ini, ragged, Key)
    /\ fresh' = NoFile
    /\ Stored(sound)
    /\ UNCHANGED <<troubles, boots>>

(* What can be left of a line's text.                                      *)
Torn(line) ==
    {line, Scrap} \cup
    IF line.key \in Names
    THEN {Param(line.key, BARE), Param(line.key, EMPTY)} \cup
         {Param(line.key, line.value \div d) : d \in {d \in {10, 100} : line.value >= d}}
    ELSE {}

(* The new file up to some byte has reached the disk.                      *)
PartCopied ==
    /\ fresh # NoFile
    /\ fresh' = NoFile
    /\ \/ \E n \in 0 .. Len(fresh) :
            /\ ini' = SubSeq(fresh, 1, n)
            /\ ragged' = (n = Len(fresh) /\ StaysRagged(ini, ragged, Key))
       \/ \E n \in 1 .. Len(fresh) :
            /\ \E t \in Torn(fresh[n]) : ini' = Append(SubSeq(fresh, 1, n - 1), t)
            /\ ragged' = TRUE

(* The disk is full: the new file or the copy is short.                    *)
CopyShort ==
    /\ Trouble
    /\ PartCopied
    /\ Stored(-1)
    /\ UNCHANGED boots

Boot ==
    /\ boots < MaxBoots
    /\ boots' = boots + 1
    /\ next' = 1
    /\ settings' = [k \in Names |-> UNREAD]

(* The client is switched off, or rebooted from the maintenance page, when *)
(* nothing is being written.                                               *)
Reboot ==
    /\ fresh = NoFile
    /\ Boot
    /\ sound' = IF sound < 0 THEN 0 ELSE sound
    /\ UNCHANGED <<ini, ragged, fresh, troubles>>

(* The power goes off during the copy: the old file if the truncation has  *)
(* not reached the disk, else part of the new one.                         *)
PowerCut ==
    /\ Trouble
    /\ sound' = 0
    /\ Boot
    /\ \/ fresh # NoFile /\ fresh' = NoFile /\ UNCHANGED <<ini, ragged>>
       \/ PartCopied

SettingsNext ==
    Take \/ Modify \/ NotOpened \/ CopyDone \/ CopyShort \/ Reboot \/ PowerCut

SettingsSpec == SettingsInit /\ [][SettingsNext]_settingsVars

-----------------------------------------------------------------------------
(* Properties.                                                             *)

ClientUp == next = N + 1

(* Whatever a power cut or a failed write has left of the file, two boots  *)
(* without either mend it: from then on the file tells every setting the   *)
(* client runs with, under its group and key.                              *)
TwoBootsMend ==
    ClientUp /\ sound >= 2 => \A k \in Names : ReadParam(ini, k) = settings[k]

(* A file in which every setting is found and in range is not written, so  *)
(* that a power cut cannot hurt it.                                        *)
SoundFileIsLeftAlone ==
    [][ (\A k \in Names : ReadParam(ini, k) \in 0 .. Top[k]) => ini' = ini /\ fresh' = fresh
      ]_settingsVars
=============================================================================
