------------------------------ MODULE EchoSpec ------------------------------
(***************************************************************************)
(* What the echo service promises one client (spec sections 4.7 and 8):   *)
(* while the channel is open, each reply is the next request not yet      *)
(* answered, with its payload and its attached handles, so the replies    *)
(* are always a prefix of the requests.  Once the service closes the      *)
(* channel nothing more is answered; requests not yet answered are lost.  *)
(***************************************************************************)
EXTENDS Naturals, Sequences

CONSTANT Msgs       \* the messages a client may send

VARIABLES
    requests,       \* what the client has sent, in order
    replies,        \* what the service has sent back, in order
    open            \* the service has not closed the channel

Init == requests = << >> /\ replies = << >> /\ open = TRUE

Request ==
    /\ open
    /\ \E m \in Msgs : requests' = Append(requests, m)
    /\ UNCHANGED << replies, open >>

Reply ==
    /\ open
    /\ Len(replies) < Len(requests)
    /\ replies' = Append(replies, requests[Len(replies) + 1])
    /\ UNCHANGED << requests, open >>

Close ==
    /\ open
    /\ open' = FALSE
    /\ UNCHANGED << requests, replies >>

Next == Request \/ Reply \/ Close

Spec == Init /\ [][Next]_<< requests, replies, open >>

====
