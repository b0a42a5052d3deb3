--------------------------- MODULE MCRecordSearch ---------------------------
(***************************************************************************)
(* TLC instance of RecordSearch: two searches, of one recorder or of two,  *)
(* answered in up to two packets (three in MCRecordSearchWhole.cfg), with  *)
(* a report among them, and one download that ends meanwhile.              *)
(***************************************************************************)
EXTENDS RecordSearch
=============================================================================
