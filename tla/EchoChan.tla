------------------------------ MODULE EchoChan ------------------------------
(***************************************************************************)
(* One channel of the echo service (srv.c 583-729) in full, against one   *)
(* client in another task.  The kernel keeps a bounded queue of messages  *)
(* in each direction: the server's end has srv->msg_num buffers, the      *)
(* client's end ClientQueue.  send_msg into a full queue fails with       *)
(* ERR_NOT_ENOUGH_BUFFER, and when the receiver then retires a message    *)
(* the sender's handle gets IPC_HANDLE_POLL_SEND_UNBLOCKED.  The server   *)
(* runs echo_handle_chan to completion in the dispatcher's thread; every  *)
(* kernel call of it is one step, so the client's steps interleave with   *)
(* the drain loop, the send loop and the wait inside send_msg_wait.       *)
(***************************************************************************)
EXTENDS Integers, Sequences, SequencesExt, FiniteSets

CONSTANTS
    MsgNum,         \* srv->msg_num: echo_msgs[] slots and the server's receive buffers
    ClientQueue,    \* receive buffers of the client's end
    N,              \* messages the client sends
    MaxHandles,     \* handles attached to one message (IPC_MAX_MSG_HANDLES)
    MaxFail,        \* failures of the kernel calls on the channel, in total
    MayHangup,      \* the client may close its end at any time
    ReadAfterSend   \* the client reads only after sending all N (spec section 8)

\* A message: its place in the client's sequence (standing for its payload)
\* and the number of handles attached to it.
Msgs == [id : 1..N, h : 0..MaxHandles]

VARIABLES
    pc,         \* server: "idle" in wait_any, "drain" and "send" in
                \* echo_handle_msg, "wait" in send_msg_wait, "closed"
    evHup,      \* ev->event & IPC_HANDLE_POLL_HUP, as the handler was called
    slots,      \* st->echo_msgs[0 .. msg_cnt-1]
    i,          \* the send loop's index into slots (1-based)
    held,       \* ids of messages whose received handles the server has open
    err,        \* IPC_HANDLE_POLL_ERROR on the server's handle
    c2s,        \* kernel: messages queued to the server, oldest first
    s2c,        \* kernel: replies queued to the client
    txBlocked,  \* the server's last send_msg failed with ERR_NOT_ENOUGH_BUFFER
    unblocked,  \* IPC_HANDLE_POLL_SEND_UNBLOCKED pending on the server's handle
    alive,      \* the client has not closed its end (else HUP on the server's)
    csent,      \* the client's messages, in the order it sent them
    cgot,       \* the replies the client has read
    fails       \* kernel call failures so far

vars == << pc, evHup, slots, i, held, err, c2s, s2c, txBlocked, unblocked,
          alive, csent, cgot, fails >>

srvVars == << pc, evHup, slots, i, held >>

Init ==
    /\ pc = "idle" /\ evHup = FALSE /\ slots = << >> /\ i = 1 /\ held = {}
    /\ err = FALSE /\ c2s = << >> /\ s2c = << >> /\ txBlocked = FALSE
    /\ unblocked = FALSE /\ alive = TRUE /\ csent = << >> /\ cgot = << >>
    /\ fails = 0

\* The handles read_msg installed with message m.
HandlesOf(m) == IF m.h > 0 THEN {m.id} ELSE {}

\* The events wait_any reports on the server's handle.
Events ==
    (IF c2s # << >> THEN {"MSG"} ELSE {}) \cup (IF unblocked THEN {"SEND_UNBLOCKED"} ELSE {})
    \cup (IF ~alive THEN {"HUP"} ELSE {}) \cup (IF err THEN {"ERROR"} ELSE {})

\* close_it: free(ev->cookie); close(ev->handle).  The slots go with the
\* state; handles still installed from them stay open.
close_it ==
    /\ pc' = "closed"
    /\ slots' = << >>

CanFail == fails < MaxFail

----------------------------------------------------------------------------
(* echo_handle_chan, entered from wait_any.  SEND_UNBLOCKED is delivered  *)
(* once; MSG, HUP and ERROR stay raised while their condition holds.      *)

Mutant_chan_ignore_hup ==
    /\ pc = "idle"
    /\ Events # {}
    /\ \/ /\ "ERROR" \in Events
          /\ close_it
          /\ UNCHANGED << evHup, i, unblocked >>
       \/ /\ "ERROR" \notin Events
          /\ Events \cap {"MSG", "SEND_UNBLOCKED"} # {}
          /\ pc' = "drain" /\ slots' = << >> /\ i' = 1
          /\ evHup' = ("HUP" \in Events)
          /\ unblocked' = FALSE
    /\ UNCHANGED << held, err, c2s, s2c, txBlocked, alive, csent, cgot, fails >>

echo_handle_chan ==
    /\ pc = "idle"
    /\ Events # {}
    /\ \/ /\ "ERROR" \in Events
          /\ close_it
          /\ UNCHANGED << evHup, i, unblocked >>
       \/ /\ "ERROR" \notin Events
          /\ Events \cap {"MSG", "SEND_UNBLOCKED"} # {}
          /\ pc' = "drain" /\ slots' = << >> /\ i' = 1
          /\ evHup' = ("HUP" \in Events)
          /\ unblocked' = FALSE
       \/ /\ Events = {"HUP"}
          /\ close_it
          /\ UNCHANGED << evHup, i, unblocked >>
    /\ UNCHANGED << held, err, c2s, s2c, txBlocked, alive, csent, cgot, fails >>

\* echo_handle_msg, first loop: get_msg, read_msg, put_msg of the oldest
\* message into the next slot, until msg_max_num or ERR_NO_MSG.  A failing
\* call returns its error and echo_handle_chan goes to close_it.
Mutant_get_reversed ==
    /\ pc = "drain"
    /\ \/ /\ Len(slots) = MsgNum \/ c2s = << >>
          /\ pc' = "send" /\ i' = 1
          /\ UNCHANGED << slots, held, c2s, fails >>
       \/ /\ Len(slots) < MsgNum /\ c2s # << >>
          /\ slots' = << Head(c2s) >> \o slots
          /\ held' = held \cup HandlesOf(Head(c2s))
          /\ c2s' = Tail(c2s)
          /\ UNCHANGED << pc, i, fails >>
       \/ /\ Len(slots) < MsgNum /\ c2s # << >> /\ CanFail
          /\ \E call \in {"get_msg", "read_msg", "put_msg"} :
               held' = IF call = "put_msg" THEN held \cup HandlesOf(Head(c2s)) ELSE held
          /\ fails' = fails + 1
          /\ close_it
          /\ UNCHANGED << i, c2s >>
    /\ UNCHANGED << evHup, err, s2c, txBlocked, unblocked, alive, csent, cgot >>

Mutant_get_no_bound ==
    /\ pc = "drain"
    /\ \/ /\ Len(slots) = MsgNum + 1 \/ c2s = << >>
          /\ pc' = "send" /\ i' = 1
          /\ UNCHANGED << slots, held, c2s, fails >>
       \/ /\ Len(slots) <= MsgNum /\ c2s # << >>
          /\ slots' = Append(slots, Head(c2s))
          /\ held' = held \cup HandlesOf(Head(c2s))
          /\ c2s' = Tail(c2s)
          /\ UNCHANGED << pc, i, fails >>
       \/ /\ Len(slots) < MsgNum /\ c2s # << >> /\ CanFail
          /\ \E call \in {"get_msg", "read_msg", "put_msg"} :
               held' = IF call = "put_msg" THEN held \cup HandlesOf(Head(c2s)) ELSE held
          /\ fails' = fails + 1
          /\ close_it
          /\ UNCHANGED << i, c2s >>
    /\ UNCHANGED << evHup, err, s2c, txBlocked, unblocked, alive, csent, cgot >>

echo_handle_msg_get ==
    /\ pc = "drain"
    /\ \/ /\ Len(slots) = MsgNum \/ c2s = << >>
          /\ pc' = "send" /\ i' = 1
          /\ UNCHANGED << slots, held, c2s, fails >>
       \/ /\ Len(slots) < MsgNum /\ c2s # << >>
          /\ slots' = Append(slots, Head(c2s))
          /\ held' = held \cup HandlesOf(Head(c2s))
          /\ c2s' = Tail(c2s)
          /\ UNCHANGED << pc, i, fails >>
       \/ /\ Len(slots) < MsgNum /\ c2s # << >> /\ CanFail
          /\ \E call \in {"get_msg", "read_msg", "put_msg"} :
               held' = IF call = "put_msg" THEN held \cup HandlesOf(Head(c2s)) ELSE held
          /\ fails' = fails + 1
          /\ close_it
          /\ UNCHANGED << i, c2s >>
    /\ UNCHANGED << evHup, err, s2c, txBlocked, unblocked, alive, csent, cgot >>

\* echo_handle_msg, second loop: send_msg_wait of slot i, then close the
\* handles received with it, then return if the send failed.  After the
\* last slot echo_handle_chan closes the channel if the event had HUP.
Mutant_send_skip_last ==
    /\ pc = "send"
    /\ \/ /\ i >= Len(slots)
          /\ IF evHup THEN close_it ELSE pc' = "idle" /\ slots' = << >>
          /\ UNCHANGED << i, held, s2c, txBlocked, fails >>
       \/ /\ i < Len(slots) /\ alive /\ Len(s2c) < ClientQueue
          /\ s2c' = Append(s2c, slots[i])
          /\ held' = held \ HandlesOf(slots[i])
          /\ i' = i + 1
          /\ UNCHANGED << pc, slots, txBlocked, fails >>
       \/ /\ i < Len(slots) /\ alive /\ Len(s2c) = ClientQueue
          /\ txBlocked' = TRUE /\ pc' = "wait"
          /\ UNCHANGED << slots, i, held, s2c, fails >>
       \/ /\ i < Len(slots) /\ (~alive \/ CanFail)
          /\ held' = held \ HandlesOf(slots[i])
          /\ fails' = IF alive THEN fails + 1 ELSE fails
          /\ close_it
          /\ UNCHANGED << i, s2c, txBlocked >>
    /\ UNCHANGED << evHup, err, c2s, unblocked, alive, csent, cgot >>

echo_handle_msg_send ==
    /\ pc = "send"
    /\ \/ /\ i > Len(slots)
          /\ IF evHup THEN close_it ELSE pc' = "idle" /\ slots' = << >>
          /\ UNCHANGED << i, held, s2c, txBlocked, fails >>
       \/ /\ i <= Len(slots) /\ alive /\ Len(s2c) < ClientQueue
          /\ s2c' = Append(s2c, slots[i])
          /\ held' = held \ HandlesOf(slots[i])
          /\ i' = i + 1
          /\ UNCHANGED << pc, slots, txBlocked, fails >>
       \/ /\ i <= Len(slots) /\ alive /\ Len(s2c) = ClientQueue
          /\ txBlocked' = TRUE /\ pc' = "wait"
          /\ UNCHANGED << slots, i, held, s2c, fails >>
       \/ /\ i <= Len(slots) /\ (~alive \/ CanFail)
          /\ held' = held \ HandlesOf(slots[i])
          /\ fails' = IF alive THEN fails + 1 ELSE fails
          /\ close_it
          /\ UNCHANGED << i, s2c, txBlocked >>
    /\ UNCHANGED << evHup, err, c2s, unblocked, alive, csent, cgot >>

\* send_msg_wait's wait(chan, &ev, INFINITE_TIME): a failed wait returns
\* its error; HUP returns ERR_CHANNEL_CLOSED; SEND_UNBLOCKED retries the
\* send.  An event with MSG alone makes it wait again, which changes no
\* state, so it is not a step here.  Either error ends like a failed send.
Mutant_wait_no_break ==
    /\ pc = "wait"
    /\ \/ /\ alive /\ unblocked
          /\ unblocked' = FALSE
          /\ UNCHANGED << pc, slots, held, fails >>
       \/ /\ ~alive \/ CanFail
          /\ held' = held \ HandlesOf(slots[i])
          /\ fails' = IF alive THEN fails + 1 ELSE fails
          /\ close_it
          /\ UNCHANGED unblocked
    /\ UNCHANGED << evHup, i, err, c2s, s2c, txBlocked, alive, csent, cgot >>

send_msg_wait ==
    /\ pc = "wait"
    /\ \/ /\ alive /\ unblocked
          /\ unblocked' = FALSE /\ pc' = "send"
          /\ UNCHANGED << slots, held, fails >>
       \/ /\ ~alive \/ CanFail
          /\ held' = held \ HandlesOf(slots[i])
          /\ fails' = IF alive THEN fails + 1 ELSE fails
          /\ close_it
          /\ UNCHANGED unblocked
    /\ UNCHANGED << evHup, i, err, c2s, s2c, txBlocked, alive, csent, cgot >>

Server == echo_handle_chan \/ echo_handle_msg_get \/ echo_handle_msg_send \/ send_msg_wait

----------------------------------------------------------------------------
(* The client and the kernel.  A send into the server's full queue waits  *)
(* for SEND_UNBLOCKED, so it is enabled only when a buffer is free; a send *)
(* to a closed channel fails, and the client stops.                        *)

ClientSend ==
    /\ alive /\ pc # "closed"
    /\ Len(csent) < N
    /\ Len(c2s) < MsgNum
    /\ \E h \in 0..MaxHandles :
         LET m == [id |-> Len(csent) + 1, h |-> h]
         IN c2s' = Append(c2s, m) /\ csent' = Append(csent, m)
    /\ UNCHANGED << srvVars, err, s2c, txBlocked, unblocked, alive, cgot, fails >>

\* get_msg, read_msg, put_msg on the client's end; retiring a buffer the
\* blocked server was waiting for raises SEND_UNBLOCKED.
ClientRead ==
    /\ alive /\ s2c # << >>
    /\ ReadAfterSend => Len(csent) = N
    /\ cgot' = Append(cgot, Head(s2c))
    /\ s2c' = Tail(s2c)
    /\ unblocked' = (unblocked \/ txBlocked)
    /\ txBlocked' = FALSE
    /\ UNCHANGED << srvVars, err, c2s, alive, csent, fails >>

ClientHangup ==
    /\ MayHangup /\ alive
    /\ alive' = FALSE
    /\ UNCHANGED << srvVars, err, c2s, s2c, txBlocked, unblocked, csent, cgot, fails >>

KernelError ==
    /\ CanFail /\ ~err /\ pc # "closed"
    /\ err' = TRUE /\ fails' = fails + 1
    /\ UNCHANGED << srvVars, c2s, s2c, txBlocked, unblocked, alive, csent, cgot >>

Next == Server \/ ClientSend \/ ClientRead \/ ClientHangup \/ KernelError

\* The dispatcher serves the channel's events in turn and the client keeps
\* sending; nothing makes the client read.
Spec == Init /\ [][Next]_vars /\ WF_vars(Server) /\ WF_vars(ClientSend)

\* A client that reads its replies.
FairSpec == Spec /\ WF_vars(ClientRead)

----------------------------------------------------------------------------
(* Properties.                                                             *)

TypeOK ==
    /\ pc \in {"idle", "drain", "send", "wait", "closed"}
    /\ slots \in BoundedSeq(Msgs, MsgNum)
    /\ i \in 1..MsgNum + 1
    /\ held \subseteq 1..N
    /\ c2s \in BoundedSeq(Msgs, MsgNum)
    /\ s2c \in BoundedSeq(Msgs, ClientQueue)
    /\ fails \in 0..MaxFail

\* The channel implements EchoSpec: the replies the client reads or has
\* queued are, in order, the requests it sent, across drain rounds,
\* ERR_NOT_ENOUGH_BUFFER retries and failures (echo_handle_msg's two loops
\* and send_msg_wait).
Abs == INSTANCE EchoSpec WITH requests <- csent, replies <- cgot \o s2c,
                              open <- pc # "closed"

EchoRefines == Abs!Spec

\* Whenever the handler has returned, the server has closed every handle
\* it received: echo_handle_msg closes a slot's handles after its send.
NoHandleLeak == pc \in {"idle", "closed"} => held = {}

\* A client that closes its end is answered by the server closing the
\* channel, also when the HUP came while the handler ran: echo_handle_chan
\* tests the HUP bit of the event it was called with, and a later
\* wait_any reports HUP again.
HangupCloses == ~alive ~> pc = "closed"

\* echo_handle_chan always returns to the dispatcher (spec section 8: a
\* peer that never drains must surface as a closed channel, not hang it).
HandlerReturns == pc \in {"drain", "send", "wait"} ~> pc \in {"idle", "closed"}

\* The client reads a reply to every one of its N requests, across as many
\* drain rounds and ERR_NOT_ENOUGH_BUFFER retries as that takes, unless
\* the channel is closed by a hangup or a failure (echo_handle_msg's send
\* loop and send_msg_wait; spec section 8).
AllEchoed == <>(Len(cgot) = N \/ pc = "closed")

====
