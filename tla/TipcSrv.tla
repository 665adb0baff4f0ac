------------------------------ MODULE TipcSrv ------------------------------
(***************************************************************************)
(* The ipc-unittest service task (src/lib/tipc/test/srv/srv.c): the        *)
(* registry of services (_srv_states), its lifecycle (_create_service,     *)
(* _destroy_service, restart_service, init_services, kill_services), the   *)
(* single-threaded dispatcher (main, dispatch_event) and every port and    *)
(* channel handler it dispatches to.                                       *)
(*                                                                         *)
(* The kernel's handle table is modelled as the variable kh: one record    *)
(* per handle id.  The kernel hands out any free id (ids are reused after  *)
(* close).  Peers (the test client) connect, send, hang up; the kernel may *)
(* raise an error condition on a handle.  A handler runs to completion     *)
(* before the next event is taken, so each handler invocation is one step. *)
(* The echo channel's message path is abstracted here to "drain, reply,    *)
(* fail if the peer has gone"; its bounded buffering and backpressure are  *)
(* the subject of module EchoChan.                                         *)
(***************************************************************************)
EXTENDS Naturals, Sequences, FiniteSets, Functions, SequencesExt

CONSTANTS
    SrvList,        \* the _services[] table order, a sequence of names
    Handles,        \* the handle ids the kernel can hand out
    NoHandle,       \* INVALID_IPC_HANDLE
    NULL,           \* a NULL pointer (priv, cookie)
    MaxConns,       \* bound: connection requests peers make in a behaviour
    MaxPending,     \* bound: connection requests queued on one port
    MaxInq,         \* bound: unread messages queued on one channel
    MaxFaults,      \* bound: error conditions the kernel raises
    MaxAllocFail    \* bound: calloc failures

Srvs == {SrvList[i] : i \in DOMAIN SrvList}

ASSUME /\ NoHandle \notin Handles
       /\ Srvs \subseteq {"closer1", "closer2", "closer3", "connect",
                          "datasink", "ns_only", "ta_only", "echo", "uuid"}

(* The descriptor table _services[]: which port handler a service uses and *)
(* whether it has port_state_size != 0 (closer1/2/3 only).                 *)
PortHandler(s) ==
    IF s \in {"datasink", "ns_only", "ta_only"} THEN "datasink" ELSE s

HasPortState(s) == s \in {"closer1", "closer2", "closer3"}

(* calloc(1, port_state_size): zeroed closerN_state. *)
PrivInit(s) ==
    IF s = "closer3" THEN [chans |-> <<>>] ELSE [conn_cnt |-> 0]

POOL_SIZE == 4      \* countof(closer3_state.chans)

(* Cookies bound to handles: a service slot's &state->handler (the name of *)
(* the slot), the static _datasink_chan_handler, or an echo_chan_state.    *)
Cookies == Srvs \cup {"datasink_chan", "echo_chan"}

HRec == [kind: {"free", "port", "chan"}, cookie: Cookies \cup {NULL},
         name: Srvs \cup {NULL}, pend: 0..MaxPending, peer: BOOLEAN,
         inq: 0..MaxInq, err: BOOLEAN]

FreeRec == [kind |-> "free", cookie |-> NULL, name |-> NULL, pend |-> 0,
            peer |-> FALSE, inq |-> 0, err |-> FALSE]

PortRec(s) == [FreeRec EXCEPT !.kind = "port", !.cookie = s, !.name = s]

(* A channel accepted on service s's port, with cookie c. *)
ChanRec(c, s) ==
    [FreeRec EXCEPT !.kind = "chan", !.cookie = c, !.name = s, !.peer = TRUE]

VARIABLES
    phase,      \* "init" (init_services running), "running", "failed"
    idx,        \* next _services[] index init_services creates
    port,       \* _srv_states[s].port
    priv,       \* _srv_states[s].priv
    kh,         \* the kernel's handle table
    echoAlloc,  \* echo_chan_state blocks allocated and not freed
    allocFails, faults, conns,   \* environment budgets
    c1Accepts, c1Sleeps,         \* closer1 connections accepted and sleeps taken
    busy        \* the channel datasink_handle_msg is draining, with the HUP
                \* bit of its event; h = NoHandle when the task is in wait_any

vars == <<phase, idx, port, priv, kh, echoAlloc, allocFails, faults, conns,
          c1Accepts, c1Sleeps, busy>>

-----------------------------------------------------------------------------
(* Kernel primitives (external to this repository).                        *)

FreeIn(k) == {h \in Handles : k[h].kind = "free"}

(* close(h): a closed port drops its queued connection requests. *)
Close(k, h) == [k EXCEPT ![h] = FreeRec]

CloseAll(k, S) == [h \in Handles |-> IF h \in S THEN FreeRec ELSE k[h]]

(* The event mask wait_any reports for a handle. *)
Events(h) ==
    LET r == kh[h] IN
    IF r.kind = "port"
    THEN {e \in {"READY", "ERROR"} :
             \/ e = "READY" /\ r.pend > 0
             \/ e = "ERROR" /\ r.err}
    ELSE IF r.kind = "chan"
    THEN {e \in {"MSG", "HUP", "ERROR"} :
             \/ e = "MSG" /\ r.inq > 0
             \/ e = "HUP" /\ ~r.peer
             \/ e = "ERROR" /\ r.err}
    ELSE {}

-----------------------------------------------------------------------------
(* Registry and lifecycle.                                                 *)

(* _destroy_service: free priv, close the port the slot names, reset. The  *)
(* kernel table after it; the slot itself becomes (NoHandle, NULL).        *)
_destroy_service(s, k) ==
    IF port[s] # NoHandle THEN Close(k, port[s]) ELSE k

(* Mutant (see PROJECT.json "mutants"): _create_service ignoring a       *)
(* failed calloc and keeping the port with priv NULL.                     *)
Mutant_create_ignore_calloc(s, k) ==
    LET free == FreeIn(k)
        fail(a) == [ok |-> FALSE, port |-> NoHandle, priv |-> NULL,
                    kh |-> k, af |-> a]
    IN  (IF free = {} THEN {fail(allocFails)} ELSE {})
        \cup {[ok |-> TRUE, port |-> p,
               priv |-> IF HasPortState(s) THEN PrivInit(s) ELSE NULL,
               kh |-> [k EXCEPT ![p] = PortRec(s)], af |-> allocFails] :
              p \in free}
        \cup {[ok |-> TRUE, port |-> p, priv |-> NULL,
               kh |-> [k EXCEPT ![p] = PortRec(s)], af |-> allocFails + 1] :
              p \in IF HasPortState(s) /\ allocFails < MaxAllocFail
                    THEN free ELSE {}}

(* _create_service on kernel table k: the set of its possible outcomes.    *)
(* port_create fails when no handle is free; calloc of the port state may  *)
(* fail, and then the error path destroys the half-built slot.            *)
_create_service(s, k) ==
    LET free == FreeIn(k)
        fail(a) == [ok |-> FALSE, port |-> NoHandle, priv |-> NULL,
                    kh |-> k, af |-> a]
    IN  (IF free = {} THEN {fail(allocFails)} ELSE {})
        \cup {[ok |-> TRUE, port |-> p,
               priv |-> IF HasPortState(s) THEN PrivInit(s) ELSE NULL,
               kh |-> [k EXCEPT ![p] = PortRec(s)], af |-> allocFails] :
              p \in free}
        \cup (IF free # {} /\ HasPortState(s) /\ allocFails < MaxAllocFail
              THEN {fail(allocFails + 1)} ELSE {})

(* Apply an outcome r of _create_service to slot s. *)
SetSlot(s, r) ==
    /\ port' = [port EXCEPT ![s] = r.port]
    /\ priv' = [priv EXCEPT ![s] = r.priv]
    /\ kh' = r.kh
    /\ allocFails' = r.af

(* restart_service: destroy, then create from the same descriptor, on the  *)
(* kernel table k left by the handler so far.                              *)
restart_service(s, k) ==
    \E r \in _create_service(s, _destroy_service(s, k)) : SetSlot(s, r)

(* handle_port_errors: any of these on a port restarts the service. *)
PortErr(ev) == ev \cap {"ERROR", "HUP", "MSG", "SEND_UNBLOCKED"} # {}

-----------------------------------------------------------------------------
(* Startup: init_services creates the services in table order; on the     *)
(* first failure main calls kill_services and returns -1.                  *)

(* The task is in wait_any, not inside datasink_handle_msg. *)
Idle == [h |-> NoHandle, hup |-> FALSE]

Init ==
    /\ phase = "init"
    /\ idx = 1
    /\ port = [s \in Srvs |-> NoHandle]
    /\ priv = [s \in Srvs |-> NULL]
    /\ kh = [h \in Handles |-> FreeRec]
    /\ echoAlloc = 0
    /\ allocFails = 0 /\ faults = 0 /\ conns = 0
    /\ c1Accepts = 0 /\ c1Sleeps = 0
    /\ busy = Idle

(* Mutant: kill_services' loop starting at index 1. *)
Mutant_kill_skip_first(k) ==
    CloseAll(k, {port[SrvList[i]] : i \in 2..Len(SrvList)} \ {NoHandle})

(* kill_services: _destroy_service on every slot. *)
kill_services(k) ==
    CloseAll(k, {port[s] : s \in Srvs} \ {NoHandle})

init_services ==
    /\ phase = "init"
    /\ LET s == SrvList[idx] IN
       \E r \in _create_service(s, kh) :
          IF r.ok
          THEN /\ SetSlot(s, r)
               /\ idx' = idx + 1
               /\ phase' = IF idx = Len(SrvList) THEN "running" ELSE "init"
          ELSE /\ phase' = "failed"
               /\ kh' = kill_services(r.kh)
               /\ port' = [x \in Srvs |-> NoHandle]
               /\ priv' = [x \in Srvs |-> NULL]
               /\ allocFails' = r.af
               /\ UNCHANGED idx
    /\ UNCHANGED <<echoAlloc, faults, conns, c1Accepts, c1Sleeps, busy>>

-----------------------------------------------------------------------------
(* Port handlers.  h is the port handle the event is for, s the slot its  *)
(* cookie names.  Accepting takes a queued request off the port; it fails  *)
(* (and the request is dropped) when no handle is free.                    *)

Dequeue(h) == [kh EXCEPT ![h].pend = @ - 1]

(* closer1_handle_port: bump conn_cnt, accept, sleep when odd, close. *)
(* accept fails when no handle is free, after conn_cnt was bumped.        *)
closer1_handle_port(h, s, ev) ==
    \/ PortErr(ev) /\ restart_service(s, kh) /\ UNCHANGED <<c1Accepts, c1Sleeps>>
    \/ /\ ~PortErr(ev) /\ "READY" \in ev
       /\ priv' = [priv EXCEPT ![s].conn_cnt = @ + 1]
       /\ kh' = Dequeue(h)     \* accepted then closed, or accept failed
       /\ UNCHANGED <<port, allocFails>>
       /\ \/ FreeIn(kh) = {} /\ UNCHANGED <<c1Accepts, c1Sleeps>>
          \/ /\ FreeIn(kh) # {}
             /\ c1Accepts' = c1Accepts + 1
             /\ c1Sleeps' = c1Sleeps + ((priv[s].conn_cnt + 1) % 2)

(* closer2_handle_port: bump conn_cnt, sleep when odd, restart the port   *)
(* without accepting.                                                     *)
closer2_handle_port(h, s, ev) ==
    \/ PortErr(ev) /\ restart_service(s, kh)
    \/ /\ ~PortErr(ev) /\ "READY" \in ev
       /\ restart_service(s, kh)

(* Mutant: the pool counted full one entry late. *)
Mutant_pool_full_late(pool) == Len(pool) = POOL_SIZE + 1

(* closer3: "when max number of connection reached". *)
PoolFull(pool) == Len(pool) = POOL_SIZE

(* closer3_handle_port: accept into the pool, bind the datasink channel   *)
(* handler; when the pool is full close every pooled handle and empty it. *)
closer3_handle_port(h, s, ev) ==
    \/ PortErr(ev) /\ restart_service(s, kh)
    \/ /\ ~PortErr(ev) /\ "READY" \in ev
       /\ UNCHANGED <<port, allocFails>>
       /\ \/ FreeIn(kh) = {} /\ kh' = Dequeue(h) /\ UNCHANGED priv
          \/ \E c \in FreeIn(kh) :
                LET pool == Append(priv[s].chans, c)
                    k1   == [Dequeue(h) EXCEPT ![c] = ChanRec("datasink_chan", s)]
                IN IF PoolFull(pool)
                   THEN /\ kh' = CloseAll(k1, Range(pool))
                        /\ priv' = [priv EXCEPT ![s].chans = <<>>]
                   ELSE /\ kh' = k1
                        /\ priv' = [priv EXCEPT ![s].chans = pool]

(* connect_handle_port: accept and close, then a flood of sync_connect to *)
(* the client's accept ports, each resulting channel closed at once: no   *)
(* handle outlives the call.                                               *)
connect_handle_port(h, s, ev) ==
    \/ PortErr(ev) /\ restart_service(s, kh)
    \/ /\ ~PortErr(ev) /\ "READY" \in ev
       /\ kh' = Dequeue(h)
       /\ UNCHANGED <<port, priv, allocFails>>

(* uuid_handle_port: accept, send the peer's uuid, close. *)
uuid_handle_port(h, s, ev) ==
    \/ PortErr(ev) /\ restart_service(s, kh)
    \/ /\ ~PortErr(ev) /\ "READY" \in ev
       /\ kh' = Dequeue(h)
       /\ UNCHANGED <<port, priv, allocFails>>

(* datasink_handle_port: accept, bind _datasink_chan_handler. *)
datasink_handle_port(h, s, ev) ==
    \/ PortErr(ev) /\ restart_service(s, kh)
    \/ /\ ~PortErr(ev) /\ "READY" \in ev
       /\ UNCHANGED <<port, priv, allocFails>>
       /\ \/ FreeIn(kh) = {} /\ kh' = Dequeue(h)
          \/ \E c \in FreeIn(kh) :
                kh' = [Dequeue(h) EXCEPT ![c] = ChanRec("datasink_chan", s)]

(* echo_handle_port: accept, calloc the channel state (on failure close   *)
(* the channel), bind it as the channel's cookie.                          *)
echo_handle_port(h, s, ev) ==
    \/ PortErr(ev) /\ restart_service(s, kh) /\ UNCHANGED echoAlloc
    \/ /\ ~PortErr(ev) /\ "READY" \in ev
       /\ UNCHANGED <<port, priv>>
       /\ \/ /\ FreeIn(kh) = {} /\ kh' = Dequeue(h)
             /\ UNCHANGED <<allocFails, echoAlloc>>
          \/ /\ FreeIn(kh) # {} /\ allocFails < MaxAllocFail
             /\ kh' = Dequeue(h) /\ allocFails' = allocFails + 1
             /\ UNCHANGED echoAlloc
          \/ \E c \in FreeIn(kh) :
                /\ kh' = [Dequeue(h) EXCEPT ![c] = ChanRec("echo_chan", s)]
                /\ echoAlloc' = echoAlloc + 1
                /\ UNCHANGED allocFails

-----------------------------------------------------------------------------
(* Channel handlers.                                                       *)

(* Mutant: datasink_handle_chan testing HUP only after a drain, so an    *)
(* event of HUP alone returns without closing.                           *)
Mutant_datasink_hup_in_msg(h, ev) ==
    /\ \/ "ERROR" \in ev /\ kh' = Close(kh, h) /\ UNCHANGED busy
       \/ "ERROR" \notin ev /\ "MSG" \in ev
          /\ busy' = [h |-> h, hup |-> "HUP" \in ev] /\ UNCHANGED kh
       \/ ev = {"HUP"} /\ UNCHANGED <<kh, busy>>
    /\ UNCHANGED <<port, priv, allocFails, faults>>

(* Mutant: datasink_handle_chan testing HUP before MSG, so a hangup that *)
(* comes with queued messages closes the channel without draining them.  *)
Mutant_datasink_hup_first(h, ev) ==
    /\ \/ "ERROR" \in ev /\ kh' = Close(kh, h) /\ UNCHANGED busy
       \/ "ERROR" \notin ev /\ "HUP" \in ev /\ kh' = Close(kh, h) /\ UNCHANGED busy
       \/ ev = {"MSG"} /\ busy' = [h |-> h, hup |-> FALSE] /\ UNCHANGED kh
    /\ UNCHANGED <<port, priv, allocFails, faults>>

(* datasink_handle_chan: ERROR closes; MSG enters datasink_handle_msg's   *)
(* loop (below), and HUP is tested when it returns; HUP alone closes.     *)
(* The code also closes on SEND_UNBLOCKED, which never reaches a datasink *)
(* channel: the handler never sends, so no send of it was ever blocked.   *)
datasink_handle_chan(h, ev) ==
    /\ \/ "ERROR" \in ev /\ kh' = Close(kh, h) /\ UNCHANGED busy
       \/ "ERROR" \notin ev /\ "MSG" \in ev
          /\ busy' = [h |-> h, hup |-> "HUP" \in ev] /\ UNCHANGED kh
       \/ ev = {"HUP"} /\ kh' = Close(kh, h) /\ UNCHANGED busy
    /\ UNCHANGED <<port, priv, allocFails, faults>>

(* One turn of datasink_handle_msg's for (;;) loop, run by the task while *)
(* no other event is taken: get_msg and put_msg retire a message, or one  *)
(* of them fails (a kernel failure) and the channel is closed; on         *)
(* ERR_NO_MSG the loop ends and datasink_handle_chan closes the channel   *)
(* if its event had HUP.  The loop has no bound but the peer's sending.   *)
datasink_handle_msg ==
    LET h == busy.h IN
    /\ h # NoHandle
    /\ \/ /\ kh[h].inq > 0
          /\ kh' = [kh EXCEPT ![h].inq = @ - 1]
          /\ UNCHANGED <<busy, faults>>
       \/ /\ kh[h].inq > 0 /\ faults < MaxFaults
          /\ kh' = Close(kh, h) /\ faults' = faults + 1
          /\ busy' = Idle
       \/ /\ kh[h].inq = 0
          /\ kh' = IF busy.hup THEN Close(kh, h) ELSE kh
          /\ busy' = Idle
          /\ UNCHANGED faults
    /\ UNCHANGED <<phase, idx, port, priv, echoAlloc, allocFails, conns,
                   c1Accepts, c1Sleeps>>

(* Mutant: echo_handle_chan closing on HUP without free(). *)
Mutant_echo_hup_no_free(h, ev) ==
    LET msgFails == "MSG" \in ev /\ ~kh[h].peer
        closeIt  == "ERROR" \in ev \/ msgFails \/ "HUP" \in ev
    IN /\ kh' = IF closeIt THEN Close(kh, h) ELSE [kh EXCEPT ![h].inq = 0]
       /\ echoAlloc' = IF "ERROR" \in ev \/ msgFails THEN echoAlloc - 1 ELSE echoAlloc
       /\ UNCHANGED <<port, priv, allocFails>>

(* echo_handle_chan: error frees the state and closes; MSG runs           *)
(* echo_handle_msg (drain, send replies: fails once the peer has hung     *)
(* up), a failure frees and closes; HUP frees and closes.                 *)
echo_handle_chan(h, ev) ==
    LET msgFails == "MSG" \in ev /\ ~kh[h].peer
        closeIt  == "ERROR" \in ev \/ msgFails \/ "HUP" \in ev
    IN /\ kh' = IF closeIt THEN Close(kh, h) ELSE [kh EXCEPT ![h].inq = 0]
       /\ echoAlloc' = IF closeIt THEN echoAlloc - 1 ELSE echoAlloc
       /\ UNCHANGED <<port, priv, allocFails>>

-----------------------------------------------------------------------------
(* dispatch_event: resolve the handler by the event's cookie and run it.  *)
(* An empty event or NoHandle is a no-op; a handle with no cookie is      *)
(* closed: every handle gets its cookie in the step that opens it, so     *)
(* that branch is never taken here.                                       *)
dispatch_event(h) ==
    LET ev == Events(h)
        c  == kh[h].cookie
    IN /\ phase = "running"
       /\ ev # {}
       /\ busy.h = NoHandle
       /\ UNCHANGED <<phase, idx, faults, conns>>
       /\ \/ /\ c \in Srvs
             /\ UNCHANGED busy
             /\ PortHandler(c) # "closer1" => UNCHANGED <<c1Accepts, c1Sleeps>>
             /\ PortHandler(c) # "echo" => UNCHANGED echoAlloc
             /\ CASE PortHandler(c) = "closer1"  -> closer1_handle_port(h, c, ev)
                  [] PortHandler(c) = "closer2"  -> closer2_handle_port(h, c, ev)
                  [] PortHandler(c) = "closer3"  -> closer3_handle_port(h, c, ev)
                  [] PortHandler(c) = "connect"  -> connect_handle_port(h, c, ev)
                  [] PortHandler(c) = "datasink" -> datasink_handle_port(h, c, ev)
                  [] PortHandler(c) = "echo"     -> echo_handle_port(h, c, ev)
                  [] PortHandler(c) = "uuid"     -> uuid_handle_port(h, c, ev)
          \/ /\ c = "datasink_chan"
             /\ datasink_handle_chan(h, ev)
             /\ UNCHANGED <<echoAlloc, c1Accepts, c1Sleeps>>
          \/ /\ c = "echo_chan"
             /\ echo_handle_chan(h, ev)
             /\ UNCHANGED <<c1Accepts, c1Sleeps, busy>>

-----------------------------------------------------------------------------
(* The environment: peers and the kernel's error conditions.               *)

PeerConnect(h) ==
    /\ kh[h].kind = "port" /\ kh[h].pend < MaxPending /\ conns < MaxConns
    /\ kh' = [kh EXCEPT ![h].pend = @ + 1]
    /\ conns' = conns + 1
    /\ UNCHANGED <<phase, idx, port, priv, echoAlloc, allocFails, faults,
                   c1Accepts, c1Sleeps, busy>>

PeerSend(h) ==
    /\ kh[h].kind = "chan" /\ kh[h].peer /\ kh[h].inq < MaxInq
    /\ kh' = [kh EXCEPT ![h].inq = @ + 1]
    /\ UNCHANGED <<phase, idx, port, priv, echoAlloc, allocFails, faults,
                   conns, c1Accepts, c1Sleeps, busy>>

PeerHangup(h) ==
    /\ kh[h].kind = "chan" /\ kh[h].peer
    /\ kh' = [kh EXCEPT ![h].peer = FALSE]
    /\ UNCHANGED <<phase, idx, port, priv, echoAlloc, allocFails, faults,
                   conns, c1Accepts, c1Sleeps, busy>>

KernelFault(h) ==
    /\ kh[h].kind # "free" /\ ~kh[h].err /\ faults < MaxFaults
    /\ kh' = [kh EXCEPT ![h].err = TRUE]
    /\ faults' = faults + 1
    /\ UNCHANGED <<phase, idx, port, priv, echoAlloc, allocFails, conns,
                   c1Accepts, c1Sleeps, busy>>

Next ==
    \/ init_services
    \/ datasink_handle_msg
    \/ \E h \in Handles :
          \/ dispatch_event(h)
          \/ PeerConnect(h) \/ PeerSend(h) \/ PeerHangup(h) \/ KernelFault(h)

(* wait_any takes events from the kernel's ready list in order, so a     *)
(* handle that is ready whenever the task is back in wait_any is served:  *)
(* strong fairness, since a running handler disables dispatch in between. *)
(* Startup and a running handler run on: weak fairness.  Peers and the    *)
(* kernel's faults are not fair.                                          *)
Fairness ==
    /\ WF_vars(init_services)
    /\ WF_vars(datasink_handle_msg)
    /\ \A h \in Handles : SF_vars(dispatch_event(h))

Spec == Init /\ [][Next]_vars /\ Fairness

(* Peers that, from some point on, send no more messages. *)
QuietSpec == Spec /\ <>[][\A h \in Handles : ~PeerSend(h)]_vars

-----------------------------------------------------------------------------
(* Properties.                                                             *)

(* Types; in particular closer3's pool index chan_cnt is 0..3 between     *)
(* events, so chans[chan_cnt++] never writes past the 4-entry array.      *)
TypeOK ==
    /\ phase \in {"init", "running", "failed"}
    /\ idx \in 1..Len(SrvList) + 1
    /\ port \in [Srvs -> Handles \cup {NoHandle}]
    /\ kh \in [Handles -> HRec]
    /\ \A s \in Srvs :
          priv[s] \in {NULL} \cup {[conn_cnt |-> n] : n \in 0..MaxConns}
                      \cup {[chans |-> q] : q \in BoundedSeq(Handles, POOL_SIZE - 1)}
    /\ echoAlloc \in Nat
    /\ busy.h \in Handles \cup {NoHandle} /\ busy.hup \in BOOLEAN

(* Startup is all-or-nothing: once init_services has failed and main has  *)
(* run kill_services, no port is open and no port state is allocated.     *)
StartupRollback ==
    phase = "failed" =>
        /\ \A h \in Handles : kh[h].kind = "free"
        /\ \A s \in Srvs : port[s] = NoHandle /\ priv[s] = NULL

(* Every slot is either "not open" (NoHandle, no priv) or names an open   *)
(* port of its own service that carries the slot's cookie, with priv      *)
(* allocated exactly when the descriptor asks for port state: no other    *)
(* handler has closed or taken over a service's port.                     *)
RegistryConsistent ==
    \A s \in Srvs :
        IF port[s] = NoHandle
        THEN priv[s] = NULL
        ELSE /\ kh[port[s]].kind = "port"
             /\ kh[port[s]].name = s
             /\ kh[port[s]].cookie = s
             /\ HasPortState(s) <=> priv[s] # NULL

(* Every echo_chan_state allocated by echo_handle_port is still bound to  *)
(* an open channel: a channel's state is freed exactly when it is closed, *)
(* whoever closes it.                                                     *)
EchoStateAccounted ==
    echoAlloc = Cardinality({h \in Handles :
                                kh[h].kind = "chan" /\ kh[h].cookie = "echo_chan"})

(* A channel bound to _datasink_chan_handler whose peer has hung up is    *)
(* eventually closed (datasink_handle_chan on HUP, after its drain loop): *)
(* no such channel is leaked, and neither its own drain nor another       *)
(* channel's keeps the single dispatcher from reaching it.  Echo channels *)
(* are left to EchoChan: echo_handle_chan can block the dispatcher in     *)
(* send_msg_wait, which this module does not model.                       *)
DatasinkHangupClosed ==
    \A h \in Handles :
        (kh[h].kind = "chan" /\ kh[h].cookie = "datasink_chan" /\ ~kh[h].peer)
            ~> (kh[h].kind # "chan")

(* The spec (section 8): M messages sent to the datasink service and a    *)
(* disconnect retire all M.  datasink_handle_chan drains on MSG before it  *)
(* tests HUP, and the drain runs until ERR_NO_MSG (srv.c 542-553): a       *)
(* channel of a datasink-handled service is closed with messages unread    *)
(* only when the kernel failed it, by an ERROR on it or a failed           *)
(* get_msg/put_msg in the drain.                                           *)
DatasinkRetiresAll ==
    [][\A h \in Handles :
          (/\ kh[h].kind = "chan" /\ kh[h].cookie = "datasink_chan"
           /\ PortHandler(kh[h].name) = "datasink"
           /\ kh'[h].kind = "free")
          => (kh[h].inq = 0 \/ kh[h].err \/ faults' = faults + 1)]_vars

(* The spec (section 8): after k accepted connections closer1 has slept  *)
(* exactly ceil(k/2) times, on every other one.  closer1_handle_port bumps *)
(* conn_cnt before accept and tests its parity after it (srv.c 423-435).   *)
Closer1SleepsEveryOther ==
    c1Sleeps = (c1Accepts + 1) \div 2

(* The spec (sections 4.3, 7): a failing port is recovered by restart; a  *)
(* service that is not open while running is eventually open again.       *)
ServiceRestored ==
    \A s \in Srvs :
        (phase = "running" /\ port[s] = NoHandle) ~> (port[s] # NoHandle)

=============================================================================
