---------------------------- MODULE MCFtpDownload ----------------------------
(* TLC instance of FtpDownload: two recorders, two files of a block each    *)
(* and two clicks on the download button.                                   *)
EXTENDS FtpDownload

MCFiles == <<1, 1>>
=============================================================================
