# TLA+ models of the ipc-unittest service task and the storage and keymaster wire formats

This directory holds TLA+ models of two parts of the repository:

- `src/lib/tipc/test/srv/srv.c`, a Trusty IPC test server. It is one
  single-threaded task that publishes nine ports and serves them from one
  `wait_any` loop.
- The two wire-format headers, `interface/storage/storage.h` and
  `interface/keymaster/keymaster.h`. They define the messages that two tasks,
  possibly built for different ABIs, exchange over such channels.

| Module | Models |
|---|---|
| `TipcSrv` (+ `MC_TipcSrv`) | the whole server: registry, lifecycle, dispatcher and all seven handlers over a shared kernel handle table |
| `EchoChan` (+ `MC_EchoChan`) | one echo channel in full detail, against a client with its own bounded queue |
| `EchoSpec` | what the echo service promises; `EchoChan` is checked to implement it |
| `WireFormat` (+ `MC_WireFormat`) | C layout of every storage and keymaster message on three ABIs, encoding and decoding, a sender and a receiver |

The other files under `src/` declare functions implemented elsewhere (lib
`keymaster.h`, `package.h`), wrap gtest (`trusty-gtest.h`) or define
constants (`common.h`). They have no behaviour of their own and are not
modelled (section 7).

## 1. Inventory

### Components and their state

| Component | Code | State it keeps | Operations |
|---|---|---|---|
| Registry | `_services[]` (122-201), `_srv_states[]` (203-208) | per slot: `port` handle or `INVALID_IPC_HANDLE`, `priv` port state, `handler` cookie, `service` | - |
| Lifecycle | `_create_service`, `_destroy_service`, `restart_service`, `init_services`, `kill_services` (216-333) | the slots | create (port_create, calloc, set_cookie, error path destroys), destroy (idempotent), restart (destroy then create), startup with rollback |
| Dispatcher | `main`, `dispatch_event` (823-886) | none between events | wait_any, look up the cookie, call the handler; close a handle with no cookie |
| Port-error policy | `handle_port_errors` (338-352) | - | restart the service on ERROR/HUP/MSG/SEND_UNBLOCKED on a port |
| closer1 | 414-443 | `conn_cnt` | bump, accept, sleep if odd, close |
| closer2 | 445-465 | `conn_cnt` | bump, sleep if odd, restart its own port |
| closer3 | 467-499 | `chans[4]`, `chan_cnt` | accept into the pool and bind the datasink channel handler; bulk close when full |
| connect | 356-410 | - | accept and close, then a flood of `sync_connect` calls, each closed at once |
| datasink | 503-579 | - (static cookie) | accept and bind; on the channel: drain, close on error or HUP |
| echo | 583-775 | per channel `echo_chan_state`: up to `msg_num` slots of payload and handles | accept and calloc; on the channel: drain up to `msg_num`, re-send each with `send_msg_wait` (blocks on backpressure), close the attached handles, free and close on error or HUP |
| uuid | 782-816 | - | accept, send the peer uuid, close |
| Kernel (external) | trusty_ipc | handle table: kind, cookie, pending connections, unread messages, peer state | port_create, accept, close, set_cookie, get/put/read/send_msg, wait, wait_any |

### How they interact

There is one thread. `wait_any` returns one event, and the handler bound to the
event's cookie runs to completion before the next event is taken. So the
handlers of different services never interleave with each other. They do
interleave with the peers, which run in other tasks and connect, send and hang
up at any time. All services share one thing: the task's handle-id space.
The kernel reissues a closed id to the next `accept` or `port_create` in any
service. A handler that keeps an id after some other code path has closed it
can therefore close another service's handle. Handlers reach the registry only
through `restart_service`.

### The hard behaviours

- **Handle-id reuse across services.** closer3's pool holds ids whose channels
  the datasink handler may close (`srv.c:551`). `srv.c:494` closes them again
  later.
- **Failure paths.** Five allocation or creation paths can fail: `port_create`
  and `calloc` in `_create_service`, `accept` when the handle table is full,
  and `calloc` of the echo channel state. Each must release exactly what it
  took. `init_services` must roll back completely.
- **Restarts.** `restart_service` frees the port state and reallocates it
  zeroed. A failed restart is never retried.
- **Backpressure in echo.** `send_msg_wait` waits inside a handler with
  `INFINITE_TIME` on one channel, which stalls the whole dispatcher. Replies
  must keep their arrival order across drain rounds.
- **Liveness.** A hung-up channel must eventually be closed. A failed service
  must eventually come back, as the spec claims.

### What makes each component correct

- Registry and lifecycle: each slot is either fully "not open" or names an
  open port of its own service carrying its own cookie, with `priv` allocated
  exactly when the descriptor asks for it. A failed startup leaves nothing open.
- Dispatcher: every pending event is eventually served (weak fairness). A
  handle whose peer hung up is eventually closed.
- closer3: the pool index stays within `chans[4]`. The pool closes only
  handles it owns.
- echo: the channel state is freed exactly when its channel is closed. Every
  received handle is closed. Replies equal the requests, in order.
- closer1 and closer2: they sleep on every other connection (spec 4.4).

## 2. Plan and status

1. **TipcSrv** (done): registry, lifecycle, dispatcher and every handler,
   with the kernel handle table as shared state. The echo message path is
   abstracted to "drain and reply, fail if the peer has gone".
2. **EchoChan** (done): one echo channel step by step, with a refinement
   of `EchoSpec` (section 5).
3. **WireFormat** (done): the storage and keymaster messages (section 6).
4. **Closer accounting** (done): ghost counters of closer1's accepts and
   sleeps, checked against the spec's ceil(k/2) claim.
5. **Datasink drain loop** (done): `datasink_handle_msg` one turn at a
   time, with the dispatcher blocked, and strong fairness for `wait_any`.
6. **Datasink retirement** (done): `DatasinkRetiresAll`, the spec's "M
   messages sent and a disconnect retire all M", as an action property of
   the `hangup` run.
7. **Connect handler** (done): the `sync_connect` flood has no net effect
   on the service's state (section 7), so the handler is fully modelled.
8. Not done, for lack of a run slot (the project keeps 12 runs):
   - a violation run of closer3 next to closer2, where a stale pool id is
     reissued to a restarted port (`RegistryConsistent`);
   - a violation run of closer3 orphaning its pool on restart (section 4).
9. Not done: refining TipcSrv's echo abstraction against EchoChan. TipcSrv
   drains and replies in one step that cannot block, while EchoChan's
   handler can block for ever in `send_msg_wait` (section 5). So only the
   non-blocking behaviours would refine. The composed state space (5 ports
   and a step-by-step echo channel) is also beyond the 5-minute budget.

## 3. Module TipcSrv

### Correspondence with the code

| Model | Code |
|---|---|
| `port[s]`, `priv[s]` | `_srv_states[s].port`, `.priv` (`.handler` and `.service` are non-NULL exactly when `port` is open, so they are not separate variables) |
| `kh[h]` | the kernel's handle `h`: `kind` (free, port or chan), `cookie`, `name` (a port's service, or the service whose port accepted a channel), queued connections `pend`, channel `peer` alive and unread messages `inq`, error condition `err` |
| `echoAlloc` | number of live `echo_chan_state` blocks |
| `phase`, `idx` | `main` before or after `init_services`, and the loop index |
| `_create_service(s, k)` | the set of outcomes of `_create_service` on kernel table `k`: port_create fails with no free id; calloc fails (bounded), and the error path closes the new port |
| `_destroy_service`, `restart_service`, `kill_services`, `init_services` | the functions of the same names. A failing `init_services` step includes `main`'s `kill_services` |
| `PortErr` | `handle_port_errors`'s condition. Each port handler's first disjunct is its restart |
| `c1Accepts`, `c1Sleeps` | ghost counters: connections closer1 accepted, and its sleeps. An accept fails, after `conn_cnt++`, when no handle id is free |
| `<name>_handle_port`, `<name>_handle_chan` | the handlers. `accept` takes one queued connection off the port, and fails (dropping it) when no id is free |
| `dispatch_event(h)` | `dispatch_event` with `main`'s loop body: enabled when the task is in `wait_any` and `h` has a non-empty event mask |
| `busy`, `datasink_handle_msg` | the channel whose `for (;;)` drain loop (502-527) the task is running, and one turn of that loop: `get_msg` and `put_msg` retire a message or fail (a kernel fault, which closes the channel); `ERR_NO_MSG` ends the loop, and the HUP bit of the event then closes the channel. No event is taken meanwhile, while the peer may keep sending |
| `PeerConnect`, `PeerSend`, `PeerHangup`, `KernelFault` | the environment: peers and the kernel (not fair) |

What the model leaves out:
- Sleeps and payloads.
- The `sync_connect` flood, which opens and closes every handle within one
  call (section 7).
- The step-by-step drain of echo channels, which is bounded by `msg_num`,
  and the block in `send_msg_wait` (EchoChan models both in full). TipcSrv's
  echo step never blocks, so no TipcSrv liveness property is stated over
  echo channels.
- `set_cookie` failures: it cannot fail on a handle the task has just obtained.
- `dispatch_event`'s no-cookie branch. Every handle gets its cookie in the step
  that opens it, so that branch is unreachable here.
- The never-set `stopped` flag.

### Fairness

- `wait_any` takes events from the kernel's ready list in order. A handle
  that is ready each time the task comes back to `wait_any` is therefore
  served. While a handler runs, no dispatch is enabled, so dispatch is
  enabled only intermittently. This is strong fairness:
  `SF_vars(dispatch_event(h))`. With weak fairness the dispatcher could
  legally pick one busy channel for ever.
- Startup and the datasink drain loop run straight through: weak fairness.
- Peers and the kernel's faults are not fair.
- `QuietSpec` adds `<>[][\A h : ~PeerSend(h)]_vars`: from some point on no
  peer sends. `hangup` checks `DatasinkHangupClosed` under it. `datasink_starve`
  checks it under `Spec`, where a peer may send for ever.
- The model may stop in a state with no event, which is `wait_any` blocking
  forever, so the runs use `CHECK_DEADLOCK FALSE`.

### Runs (MC_TipcSrv)

| Run | Services | Bounds | Checks | Result |
|---|---|---|---|---|
| churn | closer1, closer2, datasink, echo, connect | 6 ids (5 ports, 1 spare: accept exhaustion happens), 4 connections, 1 fault, 1 calloc failure | StartupRollback, RegistryConsistent, EchoStateAccounted | pass |
| pool | closer3, uuid | 6 ids (2 ports and a full pool of 4), 5 connections, 1 fault, 1 calloc failure | TypeOK (pool index in 0..3) | pass |
| hangup | datasink | 4 ids (port and three channels), 3 connections, 2 queued messages per channel, 1 fault; no symmetry (liveness); `QuietSpec` | DatasinkHangupClosed, DatasinkRetiresAll | pass |
| datasink_starve | datasink | 3 ids (port, two channels), 2 connections; `Spec` | DatasinkHangupClosed | violation: one peer hangs up; the other sends again after each `put_msg`, and the drain loop on its channel never ends |
| pool_echo_leak | closer3, echo | 6 ids, 5 connections | EchoStateAccounted | violation: closer3 closes an echo channel through a stale pooled id and leaks its state |
| closer1_sleep | closer1, datasink | 3 ids (a datasink channel fills the table), 3 connections | Closer1SleepsEveryOther | violation: a failed accept bumps conn_cnt, so the next accepted connection is not slept on |
| closer2_dead | closer2 | 1 calloc failure | ServiceRestored | violation: a failed restart is never retried |

Why these bounds are enough:
- Handle ids are symmetric (`SYMMETRY HandleSymmetry` in the safety runs).
- Six ids are enough to fill closer3's pool next to two ports, or to fill the
  table next to five ports so that `accept` fails.
- Five connections are one more than the pool, so a bulk close and a reuse
  of a freed id both happen.
- One fault and one calloc failure reach every error branch.

## 4. TipcSrv results

- The core lifecycle holds under restarts, faults, calloc failures and handle
  exhaustion:
  - slots stay consistent;
  - startup rolls back completely;
  - echo state is freed with its channel;
  - hung-up datasink channels are closed once the peers stop sending
    (`DatasinkHangupClosed`). Echo channels are not covered by this
    claim. TipcSrv's echo handler never blocks, but the code's
    `send_msg_wait` waits with `INFINITE_TIME` (`srv.c:588-620`). A client
    that stops reading therefore holds the dispatcher, and then no hung-up
    channel of any service is closed. EchoChan's `echo_never_drains` run
    shows this;
  - a datasink channel is closed with messages still queued only after a
    kernel failure (`DatasinkRetiresAll`). This holds because
    `datasink_handle_chan` tests MSG before HUP (`srv.c:542-553`), and a
    HUP that arrives during the drain is handled on the next `wait_any`.
- **Bug (`srv.c:494`).** closer3 keeps handle ids that the datasink channel
  handler has closed. After the kernel reuses an id, closer3's bulk close
  closes another service's channel (here an echo channel, whose state then
  leaks) or port.
- **Divergence (`srv.c:423`).** closer1 bumps `conn_cnt` before `accept`. An
  accept that fails because the handle table is full still counts, so the
  next accepted connection is not slept on. A restart also resets the count.
  After k accepted connections closer1 has not slept ceil(k/2) times, as
  spec section 8 says it has.
- **Gap (`srv.c:507`).** `datasink_handle_msg` drains until
  `ERR_NO_MSG` with no bound. A peer that keeps sending holds the task's
  only dispatcher in one handler, and every other handle starves: a
  hung-up channel is never closed. The spec's first requirement is that
  the service never blocks on one endpoint while starving others. The
  echo drain is bounded by `msg_num`; the datasink drain is not, and spec
  section 4.6 itself asks for it to run "until none remain".
- Not checked, from reading `srv.c:453-463`: closer2's `conn_cnt` lives in
  the block that its own restart frees and reallocates zeroed, so closer2
  sleeps on every connection, not every other one (spec 4.4).
- Not checked, from reading `srv.c:224`: a port error on closer3 restarts
  it, and `_destroy_service` frees its pool with the pooled channels still
  open. closer3 never closes them. They are closed only when their peer
  hangs up or errors, through the datasink cookie closer3 binds "just in
  case". The `pool` run reaches this state, but no run checks it: a
  `hangup` run with closer3 added did not finish in 15 minutes.
- **Gap (`srv.c:303`).** A restart that fails is never retried, so the
  service is gone for good. The spec calls port errors self-healing.

## 5. Module EchoChan: one echo channel

### Correspondence with the code

`EchoChan` follows one channel from `echo_handle_port`'s successful accept
(`Init`) until `close_it`. Every kernel call of the handler is one step, so
the client's steps interleave with the drain loop, with the send loop and
with the wait inside `send_msg_wait`.

| Model | Code |
|---|---|
| `pc` | where the handler is: `idle` in `wait_any`, `drain` in the get loop (626-674), `send` in the send loop (677-699), `wait` in `send_msg_wait`'s inner `wait` (594-620), `closed` after `close_it` |
| `slots`, `i` | `st->echo_msgs[0..msg_cnt-1]` and the send loop's index |
| `held` | the handles `read_msg` installed in the task and nobody has closed yet |
| `evHup` | the HUP bit of the event `echo_handle_chan` was called with (line 720) |
| `c2s`, `s2c` | the kernel's queues: `MsgNum` buffers towards the server (`srv->msg_num`), `ClientQueue` towards the client |
| `txBlocked`, `unblocked` | a send failed with `ERR_NOT_ENOUGH_BUFFER`; `IPC_HANDLE_POLL_SEND_UNBLOCKED` raised when the client then retires a reply |
| `echo_handle_chan` | 706-729: ERROR closes; MSG or SEND_UNBLOCKED runs `echo_handle_msg`; HUP alone closes |
| `echo_handle_msg_get` | one round of the get loop: stop at `msg_max_num` or `ERR_NO_MSG`; `get_msg`, `read_msg`, `put_msg` may fail, and then the handler returns and closes the channel |
| `echo_handle_msg_send` | one message of the send loop: `send_msg` succeeds, hits a full queue (to `wait`), or fails. After it, the message's handles are closed, and an error returns at once (line 695) |
| `send_msg_wait` | the inner wait: SEND_UNBLOCKED retries the send, HUP or a failed wait returns an error |
| `ClientSend`, `ClientRead`, `ClientHangup`, `KernelError` | the client task and the kernel's error condition |

A message is a record of its place in the client's sequence (standing for
its payload) and its number of attached handles, 0 or 1.

Not a step of the model: an event of MSG alone while `send_msg_wait` waits.
MSG is level-triggered, so line 619 loops back into `wait` at once, and the
server spins without changing any state until the client reads or hangs up.

### Refinement

`EchoSpec` is the service's promise: while the channel is open each reply is
the next request not yet answered. `EchoChan` maps onto it with
`requests <- csent`, `replies <- cgot \o s2c` (the replies read or queued)
and `open <- pc # "closed"`. The run `echo` checks `EchoRefines == Abs!Spec`
as a property. Every step of `EchoChan` is then a step of `EchoSpec` or
leaves its variables unchanged.

### Fairness

- `WF(Server)`: the dispatcher serves the channel's events in turn, and a
  handler that can make progress does.
- `WF(ClientSend)`: the client keeps sending while it has messages left.
- `FairSpec` adds `WF(ClientRead)`: a client that reads its replies. Without
  it a client may never read, and `send_msg_wait` then waits for ever.
  `echo_never_drains` shows this.
- Hangups and kernel errors are not fair: they may never happen.

### Runs (MC_EchoChan)

| Run | Client | Bounds | Checks | Result |
|---|---|---|---|---|
| echo | reads as it goes; may hang up; 1 kernel failure | `msg_num` 3, client queue 2, N 6 | TypeOK, EchoRefines, HangupCloses, HandlerReturns, AllEchoed | pass (177580 states) |
| echo_handle_leak | may hang up | `msg_num` 2, client queue 1, N 3 | NoHandleLeak | violation: two messages drained, the client hangs up, the send of the first fails, and the second's handle stays open |
| echo_never_drains | sends all N before reading (spec section 8) | `msg_num` 2, client queue 1, N 5 | HandlerReturns | violation: the server waits in `send_msg_wait` for the client to read; the client waits for a buffer to send its 5th message |

Why these bounds are enough:
- `msg_num` is 8 in the code. Two slots are the least that give a drain
  round of more than one message, a later slot whose handles can leak, and a
  full server queue. The passing run uses three, so a round can also stop
  early (between one and three messages) with the client still sending.
- A client queue smaller than `msg_num` makes `ERR_NOT_ENOUGH_BUFFER`
  happen inside a round of replies.
- N is two full rounds in the passing run (6 for 3 slots), so ordering
  across rounds, and across a retry after SEND_UNBLOCKED, is checked.
- N 5 in `echo_never_drains` exceeds what both queues hold (2 + 1) plus the
  reply in flight, which the deadlock needs.

### Results

- Replies are the requests, in order, across drain rounds, full-queue
  retries, hangups and a kernel failure. A hangup always ends with the
  channel closed. With a reading client the handler always returns and
  every request is echoed unless the channel closes.
- **Bug (`srv.c:695`).** When a send fails, `echo_handle_msg` returns
  after closing only that message's handles. The handles of the later
  drained messages stay open in the task for ever. The failures of
  `get_msg`, `read_msg` and `put_msg` at 640-671 leak in the same way.
- **Divergence (`srv.c:595`).** `send_msg_wait` waits with
  `INFINITE_TIME`. A client that does not read blocks the task's only
  dispatcher, and every other service with it. The spec (sections 5 and 8)
  says this wait is bounded and must end in a closed channel. The spec's
  own scenario, N messages sent before any reply is read, deadlocks this
  way once N exceeds the two queues.

## 6. Module WireFormat: storage and keymaster messages

### Correspondence with the code

- Each struct of `storage.h` and the keymaster `keymaster_message` are
  sequences of members in declaration order, with C types.
- `Offsets`, `SizeOf` and `StructAlign` are the C layout rules for an ABI.
  `uint64_t` is 8-aligned on arm64 and arm32 and 4-aligned on i386. A flexible
  array member adds nothing.
- `Encode` writes the members little-endian and fills padding with the
  sender's memory (`PadBytes`). `Decode` reads them back.
- `StorageCode`, `EncodeStorage` and `DecodeStorage` build and take apart
  `storage_msg` with the command code (`STORAGE_REQ_SHIFT`,
  `STORAGE_RESP_BIT`) and the payload struct that code selects.
- `KmCode`, `EncodeKm` and `DecodeKm` do the same for `keymaster_message`
  (`KM_REQ_SHIFT`, `KM_RESP_BIT`, `KM_STOP_BIT`).
- Member values are the boundary values of each type. Flags range over their
  masks, and `__reserved` members are 0.
- The state machine is a sender and a receiver, each built for an ABI. The
  sender sends one message, the receiver decodes it, and then both start
  again.

TLC's integers are 32 bits wide, so 32- and 64-bit unsigned values are kept
as tuples of bytes.

### Runs (MC_WireFormat)

| Run | Checks | Result |
|---|---|---|
| wire_roundtrip | RoundTrip: between two ends of the same ABI every message decodes to the one sent | pass (9137 states, every command, request and response, three ABIs) |
| wire_layout | FixedLayout: the bytes on the wire depend on the message alone | violation: `storage_file_set_size_req` is 12 bytes on i386 and 16 on arm, and on arm its 4 trailing padding bytes carry the sender's memory (`storage.h:343-345`) |

Also noted: the comment above `storage_file_move_req` (`storage.h:213`)
names it the request format for STORAGE_FILE_OPEN.

## 7. Not modelled

- Lib `keymaster.h` and `apploader/package.h` declare functions whose code is
  not in this repository. `trusty-gtest.h` is one macro that wraps gtest's
  `main`. `common.h` defines constants and has no behaviour.
- Port names and the paths built from `SRV_PATH_BASE`: strings that only
  name ports.
- Sleeps and payload bytes, as they change no state a property observes.
- `connect`'s `sync_connect` flood (`srv.c:403-408`) is modelled as no
  change, which is exact for the service's state. `sync_connect`
  (`srv.c:360-382`) returns the channel only on READY, and the caller
  closes it at once. On HUP, on another event and on a timeout it closes
  the channel itself. A failed `connect` opens nothing. The caller's
  `close` of an error code (a negative id) is rejected by the kernel and
  touches no handle. So no handle outlives the handler call, and no
  other handler can see one. What is left out is the time the flood blocks the
  dispatcher: one `sync_connect` timeout of 1000 ms per handle slot.
