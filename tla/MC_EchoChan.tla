---------------------------- MODULE MC_EchoChan ----------------------------
(* Model checking EchoChan.  The echo service has msg_num = 8 slots and    *)
(* as many receive buffers; the runs scale both down together (3 in the    *)
(* passing run, 2 in the violation runs), which keeps every relation      *)
(* between them: a full drain, a drain that stops early, a second round.   *)
(* A client queue smaller than msg_num makes the server block in           *)
(* send_msg_wait within one round of replies.                              *)
EXTENDS EchoChan, TLC
====
