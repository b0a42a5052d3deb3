------------------------------ MODULE MCLogFile ------------------------------
(* TLC instance of LogFile and its reader: a log of four lines that loses   *)
(* two when it is full, so that it fills up three times within eight        *)
(* records; all but two of them are searched for.                           *)
EXTENDS LogSearch

MCAsked == {1, 2, 4, 5, 6, 8}
=============================================================================
