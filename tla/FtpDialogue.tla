---------------------------- MODULE FtpDialogue ----------------------------
(***************************************************************************)
(* The control connection of a download (src/ftp/ftpApi.c): the commands   *)
(* that log in, ask for the sizes, fetch the files one by one and quit,    *)
(* and the server, which answers in order but may answer late, may refuse, *)
(* and may be gone.                                                        *)
(*                                                                         *)
(* FTP_RecvResponse takes whatever has arrived and looks for the expected  *)
(* code anywhere in it; it gives up when nothing arrives for 10 s.  Some   *)
(* failures end the connection, others are passed over, and then the       *)
(* answer that was not waited for is still to come.                        *)
(*                                                                         *)
(* Up to FTP_FileDownLoad the page runs this, then the download thread,    *)
(* then, when the thread has ended, the page: one at a time.  The data     *)
(* connection is FtpDownload's; here it only ends, one way or another.     *)
(***************************************************************************)
EXTENDS Integers, SequencesExt

CONSTANTS
    FtpFiles,       \* number of files to fetch
    Digits          \* Digits[s]: codes to be found in the numbers step s is told

Commands == {"HELLO", "USER", "PASS", "SIZE", "TYPE", "PASV", "RETR", "END", "QUIT"}
Code == [c \in Commands |->
            CASE c = "HELLO" -> "220" [] c = "USER" -> "331" [] c = "PASS" -> "230"
              [] c = "SIZE" -> "213" [] c = "TYPE" -> "200" [] c = "PASV" -> "227"
              [] c = "RETR" -> "150" [] c = "END" -> "226" [] c = "QUIT" -> "221"]

ASSUME DialogueAssumption ==
    /\ FtpFiles \in Nat \ {0}
    /\ DOMAIN Digits \subseteq {"SIZE", "PASV"} \X (1 .. FtpFiles)

(* The steps in order: the login, the sizes, the files one by one, and the *)
(* end.  END is the 226 after the data, which no command asks for.         *)
Fetch == <<"TYPE", "PASV", "RETR", "END">>
QuitAt == 5 * FtpFiles + 4
Script ==
    [p \in 1 .. QuitAt |->
        LET n == p - 4 - FtpFiles IN
        CASE p = 1 -> <<"HELLO", 0>> [] p = 2 -> <<"USER", 0>> [] p = 3 -> <<"PASS", 0>>
          [] p > 3 /\ n < 0 -> <<"SIZE", p - 3>>
          [] n >= 0 /\ p < QuitAt -> <<Fetch[(n % 4) + 1], (n \div 4) + 1>>
          [] p = QuitAt -> <<"QUIT", 0>>]

VARIABLES
    step,           \* position in Script
    sent,           \* the command of this step is sent
    served,         \* the server is there
    owed,           \* answers the server has yet to give
    arrived,        \* answers that have arrived and are not read
    login,          \* FTP_CreateConnect: "tried", "done", "freed", and "closed"
    passedOver,     \* history: steps that failed and were passed over
    foreign         \* history: steps that succeeded without their own answer

ftpVars == <<step, sent, served, owed, arrived, login, passedOver, foreign>>

Yes(s) == [to |-> s, code |-> Code[s[1]]]
No(s) == [to |-> s, code |-> "550"]
\* A user without a password is logged in at once.
NoPassword(s) == [to |-> s, code |-> "230"]

FtpInit ==
    /\ step = 1 /\ sent = TRUE
    /\ served \in BOOLEAN
    /\ owed = IF served THEN <<Yes(Script[1])>> ELSE <<>>
    /\ arrived = <<>>
    /\ login = "tried"
    /\ passedOver = {} /\ foreign = {}

-----------------------------------------------------------------------------
(* The server.                                                             *)

(* What it answers to the command of step s, at once or later.             *)
Replies(s) ==
    {<<No(s)>>} \cup
    (CASE s[1] = "RETR" -> {<<Yes(s), Yes(<<"END", s[2]>>)>>}
       [] s[1] = "USER" -> {<<Yes(s)>>, <<NoPassword(s)>>}
       [] OTHER -> {<<Yes(s)>>})

Deliver ==
    /\ owed # <<>>
    /\ arrived' = Append(arrived, Head(owed))
    /\ owed' = Tail(owed)
    /\ UNCHANGED <<step, sent, served, login, passedOver, foreign>>

Vanish ==
    /\ served
    /\ served' = FALSE /\ owed' = <<>>
    /\ UNCHANGED <<step, sent, arrived, login, passedOver, foreign>>

-----------------------------------------------------------------------------
(* The client.                                                             *)

Now == Script[step]
Over == login \in {"freed", "closed"}

(* The codes strstr finds in an answer: its own and those its digits spell.*)
Spells(a) ==
    {a.code} \cup (IF a.to \in DOMAIN Digits /\ a = Yes(a.to) THEN Digits[a.to] ELSE {})
Heard == UNION {Spells(a) : a \in Range(arrived)}

\* Mutant: any answer will do.
Confirmed_Any(s) == Heard # {}
(* The code that is expected is found somewhere in it.                     *)
Confirmed(s) == Code[s[1]] \in Heard

Advance(to) == step' = to /\ sent' = (Script[to][1] = "END")

ServerLogin(ok, heard) ==
    /\ UNCHANGED passedOver
    /\ \/ Now[1] # "PASS" /\ ok /\ Advance(step + 1) /\ UNCHANGED login
       \/ Now[1] = "PASS" /\ ok /\ Advance(step + 1) /\ login' = "done"
       \/ /\ ~ok /\ Now[1] = "USER" /\ "230" \in heard
          /\ Advance(step + 2) /\ login' = "done"
       \/ /\ ~ok /\ ~(Now[1] = "USER" /\ "230" \in heard)
          /\ IF Now[1] = "HELLO"
             THEN login' = "freed" /\ UNCHANGED <<step, sent>>
             ELSE Advance(QuitAt) /\ UNCHANGED login

PassOver(ok) ==
    passedOver' = IF ok THEN passedOver ELSE passedOver \cup {Now}

(* FTP_AddDownLoadFile does not ask whether the size was told.             *)
GetFileSize(ok) == PassOver(ok) /\ Advance(step + 1) /\ UNCHANGED login

(* setDownloadProcessBarValueSlot ends the connection: at 100, -1 and -2,  *)
(* as downloadSlot one that does not start, with a QUIT, at -3 without.    *)
DestoryConnect == Advance(QuitAt) /\ UNCHANGED login
DestoryConnect2 == login' = "closed" /\ UNCHANGED <<step, sent>>

(* The data connection to the address of the 227 can be made or not (-3).  *)
DataConnection == (Advance(step + 1) /\ UNCHANGED login) \/ DestoryConnect2

(* The data end and the 226 is waited for; or the transfer ends before     *)
(* that: the whole percentage is reached (100), the stick is gone (-1) or  *)
(* full (-2), the data fail (-3), or the page stops the thread.            *)
Transfer == (Advance(step + 1) /\ UNCHANGED login) \/ DestoryConnect \/ DestoryConnect2

(* A command that is not sent or not confirmed ends the thread with -3;    *)
(* only the 226 may be missing.                                            *)
DownloadFile(ok) ==
    \/ Now[1] = "END" /\ PassOver(ok) /\ Advance(step + 1) /\ UNCHANGED login
    \/ Now[1] # "END" /\ ~ok /\ DestoryConnect2 /\ UNCHANGED passedOver
    \/ Now[1] = "TYPE" /\ ok /\ Advance(step + 1) /\ UNCHANGED <<login, passedOver>>
    \/ Now[1] = "PASV" /\ ok /\ DataConnection /\ UNCHANGED passedOver
    \/ Now[1] = "RETR" /\ ok /\ Transfer /\ UNCHANGED passedOver

(* FTP_Quit is over: what was logged in is closed, what could not log in   *)
(* is only freed (FTP_CreateConnect).                                      *)
Quit ==
    /\ login' = IF login = "done" THEN "closed" ELSE "freed"
    /\ UNCHANGED <<step, sent, passedOver>>

Goes(ok, heard) ==
    CASE Now[1] \in {"HELLO", "USER", "PASS"} -> ServerLogin(ok, heard)
      [] Now[1] = "SIZE" -> GetFileSize(ok)
      [] Now[1] \in {"TYPE", "PASV", "RETR", "END"} -> DownloadFile(ok)
      [] Now[1] = "QUIT" -> Quit

(* FTP_SendCmd: the command gets to the server, gets lost, or fails.       *)
Send ==
    /\ ~Over /\ ~sent
    /\ \/ /\ served
          /\ \E r \in Replies(Now) : owed' = owed \o r
          /\ sent' = TRUE
          /\ UNCHANGED <<step, login, passedOver>>
       \/ /\ ~served
          /\ sent' = TRUE
          /\ UNCHANGED <<step, login, owed, passedOver>>
       \/ ~served /\ Goes(FALSE, {}) /\ UNCHANGED owed
    /\ UNCHANGED <<served, arrived, foreign>>

(* FTP_RecvResponse: nothing (10 s passed, or the connection was lost), or *)
(* all that has arrived.                                                   *)
RecvResponse ==
    /\ ~Over /\ sent
    /\ Goes(Confirmed(Now), Heard)
    /\ foreign' = IF Confirmed(Now) /\ Yes(Now) \notin Range(arrived)
                  THEN foreign \cup {Now} ELSE foreign
    /\ arrived' = <<>>
    /\ UNCHANGED <<served, owed>>

(* The thread is at the top of its loop, with files left or without.       *)
BetweenFiles == ~sent /\ login = "done" /\ Now[1] \in {"TYPE", "QUIT"}

(* The file cannot be opened on the stick: nothing is asked for it.        *)
SkipFile ==
    /\ BetweenFiles /\ Now[1] = "TYPE"
    /\ Advance(step + 4)
    /\ UNCHANGED <<served, owed, arrived, login, passedOver, foreign>>

(* The stick is gone (-1), or the page ends this connection at the end of  *)
(* a download from another recorder.                                       *)
EndHere ==
    /\ BetweenFiles
    /\ DestoryConnect \/ DestoryConnect2
    /\ UNCHANGED <<served, owed, arrived, passedOver, foreign>>

FtpNext == Deliver \/ Vanish \/ Send \/ RecvResponse \/ SkipFile \/ EndHere

-----------------------------------------------------------------------------
(* FTP_RecvResponse: however late the answers to earlier steps come, and   *)
(* the 226 of one file above all, no step is taken for done by the answer  *)
(* to another, unless a size was not waited for: its digits may then be    *)
(* read where another answer is expected.                                  *)
OwnAnswers ==
    foreign # {} => \E f \in 1 .. FtpFiles : <<"SIZE", f>> \in passedOver
=============================================================================
