----------------------------- MODULE MCNvrStream -----------------------------
(* TLC instance of NvrStream: four messages, one of them a heartbeat, two   *)
(* of them with data, over a connection that is lost up to twice.           *)
EXTENDS NvrStream

MCMessages == <<[size |-> 4, heart |-> FALSE], [size |-> 3, heart |-> TRUE],
                [size |-> 3, heart |-> FALSE], [size |-> 4, heart |-> FALSE]>>
=============================================================================
