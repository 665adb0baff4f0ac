---------------------------- MODULE MC_TipcSrv ----------------------------
(* Model-checking instances of TipcSrv: which services of _services[] are *)
(* brought up, in table order, and the handle-id symmetry.                *)
EXTENDS TipcSrv, TLC

(* closer1, closer2, the datasink port and channel handlers, echo and    *)
(* connect.                                                              *)
SrvsChurn == <<"closer1", "closer2", "datasink", "echo", "connect">>

(* closer3's pool (whose channels run the datasink channel handler),     *)
(* with the uuid one-shot responder.                                     *)
SrvsPool == <<"closer3", "uuid">>

(* datasink alone: its channels' drain loop. *)
SrvsDatasink == <<"datasink">>

(* closer3 next to echo: pooled handles and echo channels share ids. *)
SrvsPoolEcho == <<"closer3", "echo">>

(* closer1 next to datasink, whose open channels can fill the handle    *)
(* table so that closer1's accept fails.                                 *)
SrvsCloser1 == <<"closer1", "datasink">>

(* closer2 alone: its restart on every connection. *)
SrvsCloser2 == <<"closer2">>

HandleSymmetry == Permutations(Handles)
=============================================================================
