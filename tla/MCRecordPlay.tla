---------------------------- MODULE MCRecordPlay ----------------------------
(* TLC instance of RecordPlay: a table of two rows, two recordings started  *)
(* one after the other, a thread that gives up after one vain question.     *)
EXTENDS RecordPlay
=============================================================================
