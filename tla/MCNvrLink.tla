------------------------------ MODULE MCNvrLink ------------------------------
(* Two recorders, so that one link's descriptor number can be reused by    *)
(* the other, and one descriptor of the rest of the process.               *)
EXTENDS NvrLink

MCNvrs == {0, 1}
MCFds  == {3, 4}

(* Liveness of one link: the others only share the descriptor table.       *)
OneNvr == {0}
=============================================================================
