# Formal model of the ziti-sdk-c connection bridge

This directory holds TLA+ models of two files under `src/library/`:

- `conn_bridge.c` bridges a local libuv handle (a TCP, pipe, TTY or UDP handle, or a pair of fds) to a Ziti connection.
- `ziti_src.c` adapts a Ziti connection to a tlsuv stream source (a `uv_link_t`).

It has TLC configurations that model-check them, an abstract specification of the bridge session that the bridge is shown to implement, and TLAPS proofs of every safety invariant and action property that a passing run checks, the two refinements included.

## 1. Inventory of the system

| Part | Source | Status |
|---|---|---|
| Bridge attach (`ziti_conn_bridge`, `ziti_conn_bridge_fds`) | conn_bridge.c:59-200 | modelled (`Attach`, `BridgeHandle`, `BridgeFdPair`) |
| Local input path (`bridge_alloc`, `on_input`, `on_udp_input`) | conn_bridge.c:314-327, 354-412 | modelled (`LocalRead` and its branches) |
| Write completion (`on_ziti_write`) | conn_bridge.c:329-352 | modelled (`WriteDone`, `ResumeInput`) |
| Remote input (`on_ziti_data`) | conn_bridge.c:257-312 | modelled (`RemoteData`, `RemoteEOF`, `RemoteError`) |
| Output half-close (`on_shutdown`) | conn_bridge.c:246-255 | modelled (`ShutdownDone`) |
| Idle timeout (`br_set_idle_timeout`, `on_bridge_idle`, `ziti_conn_bridge_idle_timeout`) | conn_bridge.c:202-223 | modelled (`ResetIdle`, `IdleExpire`, `SetIdleTimeout`) |
| Teardown (`close_bridge`, `on_ziti_close`) | conn_bridge.c:225-244 | modelled (`CloseBridge`, `ZitiClosed`) |
| Handle close callbacks (`on_sock_close`, `on_pipes_close`) | conn_bridge.c:110-131 | not modelled. They only free handles. |
| `conn_bridge_info`, `fmt_addr` | conn_bridge.c:414-479 | not modelled. They are pure formatting. |
| Stream-link adapter (`ziti_src_init`, `connect`, `release`, `zlnf_*` callbacks, `zl_write`, `zl_close`) | ziti_src.c | modelled (`ZitiSrc`) |
| Ziti transport, buffer pool, libuv | outside `src/library` | environment only |

### How the parts interact

Everything runs on one libuv loop thread. So each callback runs to completion, and it is one atomic step of the model.

A bridge owns a pool of `BRIDGE_POOL_SIZE` buffers. The data flows in two directions:

- **Local to Ziti.** libuv asks `bridge_alloc` for a buffer and then calls `on_input`. A chunk is handed to `ziti_write`, which owns the buffer until `on_ziti_write` returns it to the pool.
  - When the pool is empty, `bridge_alloc` returns an empty buffer. libuv then reports `UV_ENOBUFS`, and the bridge stops reading and sets `input_throttle`.
  - The next successful `on_ziti_write` restarts reading.
- **Ziti to local.** `on_ziti_data` writes the chunk with `uv_try_write` and returns the number of bytes it consumed.

End of stream works as a half-close in each direction:

- A local `UV_EOF` calls `ziti_close_write`.
- A `ZITI_EOF` calls `uv_shutdown` on the output.
- When both directions have ended, `close_bridge` runs.

`close_bridge` hands the local handle to the close callback and calls `ziti_close`. Its completion, `on_ziti_close`, destroys the pool and frees `br`.

An optional idle deadline is re-armed on every read and closes the bridge when it fires.

## 2. Modules

- **`ConnBridge.tla`** models one `struct ziti_bridge_s`.
  - Most variables are fields of the struct: `closed`, `ziti_eof`, `input_eof`, `input_throttle`, `idle_timeout`, `idler`. The variable `idler` means the deadline is armed.
  - Some variables stand for state held by the environment:
    - `reading`: whether the libuv read is active.
    - `close_write`: whether `ziti_close_write` has been issued.
    - `shutdown_req`: the state of the `uv_shutdown` request.
    - `writes`: the number of `ziti_write` calls in flight.
    - `pool_out`: the number of buffers taken from the pool.
    - `zconn`: the state of the Ziti connection (open, closing, closed).
    - `zin`: whether the Ziti inbound stream has ended.
  - `state` records whether `br` is not yet attached, refused, bridged or freed.
  - `kind` is the handle type: stream, udp, fdpair or other.
  - Four variables are auxiliary:
    - `closeReason` records why `close_bridge` ran.
    - `crashed` records a NULL dereference of `br->input`.
    - `attachRc` is what the attach call returned to the embedder.
    - `leaked` records that a refused `ziti_conn_bridge_fds` lost the `fdbr` it allocated (and, on one fd, the socket handle it wrapped).
  - `Attach` is one of three calls:
    - `BridgeHandle(k, FALSE)` is `ziti_conn_bridge` on a handle of kind `k`. It returns `UV_EINVAL` for an unsupported handle or an unconnected UDP socket, `UV_ECONNRESET` when `ziti_conn_set_data_cb` fails, `UV_ECONNABORTED` when the read start fails (after `close_bridge`), and `ZITI_OK` otherwise.
    - `BridgeHandle(k, TRUE)` is `ziti_conn_bridge_fds` with one fd. `getsockopt` gives a stream or datagram socket, or `"other"` (the `UV_EINVAL` at line 163). A refusal loses what the fd path allocated.
    - `BridgeFdPair` is `ziti_conn_bridge_fds` with two fds. It ignores the result of `ziti_conn_set_data_cb` and returns `ZITI_OK` even when the read start failed.
  - Byte contents are abstracted away. A buffer is counted, and a chunk is an event.
  - Each C handler is one action. The branches of a handler are disjuncts inside that action. For example, `LocalRead` is `bridge_alloc` followed by one of the `len` branches of `on_input`.
  - The trailing `br_set_idle_timeout` is part of every handler that calls it.
  - A failure of a libuv or Ziti call is a nondeterministic choice, because the code checks its result. Examples are a failed `uv_read_start`, a failed `ziti_write` or `uv_try_write`, and a failed `uv_shutdown` submission.
  - Constants:
    - `PoolSize` is `BRIDGE_POOL_SIZE`.
    - `IdleValues` is the set of timeouts an embedder may pass.
    - `LateRemoteEvents` says whether the Ziti connection may still deliver `on_ziti_data` after `ziti_close` and before the close completes.
- **`BridgeSession.tla`** is the abstract specification: the teardown state machine of spec §4.3 and §8.1-8.2.
  - Its state is a `phase` (`idle`, `refused`, `active`, `closed`, `freed`), the two ends of stream `localEOF` and `remoteEOF`, the reason `why`, and whether the endpoint is connectionless (`dgram`).
  - Its actions: `Open` (an attach: refused, active, or torn down at once), `LocalEnd`, `RemoteEnd`, `Fail(r)` for an error or idleness, and `Release`.
  - Only `Teardown` leaves `active`, so a session closes once with one reason. `LocalEnd` closes only when the remote side has ended, and `RemoteEnd` only when the local side has ended or the endpoint is connectionless.
  - `ConnBridge` defines the mapping `Session`: `SessionPhase` is computed from `state` and `closed`; `localEOF` is `input_eof`, `remoteEOF` is `ziti_eof`, `why` is `closeReason`, and `dgram` is `kind = "udp"`. `ImplementsSession` is `Session!SessionSpec`.
  - It models the spec's promise, not a function, so it has no entry in the map.
- **`MCConnBridge.tla`** fixes `PoolSize = 2` and `IdleValues = {0, 5}`.
- **`ConnBridgeProofs.tla`**, **`ConnBridgeRefinement.tla`** and **`ConnBridgeActionProofs.tla`** hold the TLAPS proofs (section 5).

- **`ZitiSrc.tla`** models one tlsuv source and its `ziti_link_t`.
  - Variables:
    - `link`: whether the link is live or released by `ziti_src_release`.
    - `service`: whether `zl->service` is set.
    - `conn`: the state of `zl->conn`. `"garbage"` means no `ziti_conn_init` ever set it since `malloc`. The other states are `init`, `dialing`, `connected`, `failed` and `closed`.
    - `sent`, `buffered`, `got`: the bytes the peer sent, the bytes the Ziti connection still holds, and the bytes copied to the consumer.
    - `writes`, `issued`, `leakedReqs`: the write requests pending, the write requests issued, and the requests that are never freed.
    - `ub` and `uaf`: auxiliary flags for a call on the uninitialized `zl->conn` and for a callback on the freed link.
  - One action per operation: `Connect`, `ConnCb`, `DataCb` (data branch), `DataCbEnd` (EOF and error branches), `Write`, `WriteCb`, `Close` and `Release`. `Init` is `ziti_src_init`.
  - The remote peer (`PeerSend`, `PeerEnd`) is the environment. The Ziti connection keeps what `zlnf_data_cb` did not consume and delivers it again. This is the same return-value contract that the bridge's `on_ziti_data` relies on.
  - The consumer (tlsuv) is assumed to do three things:
    - connect only a source with no open connection;
    - write only on a connected link;
    - release only after closing, or without ever connecting.
  - A synchronous `ziti_write` failure is modelled after the peer failed the connection.
  - Constants: `MaxBytes` bounds the peer's bytes, `MaxAlloc` the consumer's buffer, and `MaxWrites` the writes. The cfgs use 3, 2 and 2, which is enough for a chunk of 3 bytes to be truncated to 2 and then 1.
- **`ByteStream.tla`** is the abstract specification of the adapter: what the consumer reads is a prefix of what the peer sent, and then the peer's own end after every byte.
  - Variables: `sent`, `got`, `peerEnd`, `seenEnd`.
  - Actions: `Send`, `End`, `Deliver` (the next `n` bytes, with `n` at most what was sent and not yet read), and `DeliverEnd` (once, after every byte).
  - `ZitiSrc` maps onto it as `Stream`: `sent` and `got` unchanged, `peerEnd <- peer`, `seenEnd <- consumerEnd`. `ImplementsByteStream` is `Stream!StreamSpec`.
- **`ZitiSrcProofs.tla`** and **`ZitiSrcRefinement.tla`** hold its TLAPS proofs.

The "map" of `PROJECT.json` gives the source lines of every definition.

## 3. Runs

| Run | cfg | Expect | Checks |
|---|---|---|---|
| bridge_safety | MCConnBridge.cfg (`LateRemoteEvents = TRUE`) | pass (1325 states) | `TypeOK`, `ReadControl`, `BufferOwnership`, `HalfCloseStateMachine`, `ImplementsSession`, `ResumeOnlyOnCompletion` |
| bridge_liveness | MCConnBridgeLive.cfg | pass | `ThrottleReleased`, `TeardownCompletes` under `FairSpec` |
| idle_timer_after_free | MCConnBridge_NoDanglingDeadline.cfg | violation | `NoDanglingDeadline` |
| buffer_leak_on_write_error | MCConnBridge_BuffersReturnedAtFree.cfg | violation | `BuffersReturnedAtFree` |
| idle_zero_does_not_disarm | MCConnBridge_IdleCloseOnlyWhenEnabled.cfg | violation | `IdleCloseOnlyWhenEnabled` |
| late_remote_eof | MCConnBridge_NoNullInput.cfg (`LateRemoteEvents = TRUE`) | violation | `NoNullInput` |
| attach_result_after_failed_read | MCConnBridge_AttachResultTruthful.cfg | violation | `AttachResultTruthful` |
| fds_refusal_leak | MCConnBridge_NoLeakOnRefusal.cfg | violation | `NoLeakOnRefusal` |
| src_safety | MCZitiSrc.cfg | pass (5320 states) | `TypeOK`, `StreamIntegrity`, `ImplementsByteStream` |
| src_close_before_connect | MCZitiSrc_NoUninitializedConn.cfg | violation | `NoUninitializedConn` |
| src_write_cb_after_release | MCZitiSrc_NoCallbackAfterRelease.cfg | violation | `NoCallbackAfterRelease` |
| src_write_request_leak | MCZitiSrc_NoLeakedWriteRequests.cfg | violation | `NoLeakedWriteRequests` |

What the safety invariants say:

- **`ReadControl`:**
  - A closed bridge never reads.
  - A throttled, open bridge has stopped reading, and every pool buffer is in a pending write, so a completion will come and resume it.
- **`BufferOwnership`:**
  - No more writes are in flight than buffers are out.
  - While the bridge is open, every buffer out of the pool is owned by a write.
- **`HalfCloseStateMachine`:**
  - Each side is half-closed only after its own EOF.
  - Both EOFs together, or a Ziti EOF on UDP, mean the bridge is closed.
  - A close for EOF really saw both.

- **`ImplementsSession`:** every step of the bridge is a step of `BridgeSession` or leaves the mapped state unchanged. In code terms, `close_bridge` tears down at most once, since its `br->closed` check turns every later call from the six handlers that reach it into a no-op, and the first reason sticks. An EOF closes the bridge only together with the other side's EOF, or on UDP. `on_ziti_close` frees only a closed bridge. The run allows events after `ziti_close`, so a remote EOF reaching a closed bridge is covered too.

- **`ResumeOnlyOnCompletion`** (spec §8.3 and §5): once bridged, reading restarts only in `on_ziti_write`. The restart needs a completion that returned its buffer to the pool, on a bridge that is still open, was throttled, and never saw the local `UV_EOF`. The last condition is not checked by the code. It holds because `on_input`'s `UV_EOF` clears the throttle and stops reading, and nothing sets the throttle again once reading has stopped.
- **`ImplementsByteStream`** (ziti_src, spec §4.6): `zlnf_data_cb` relays the peer's stream. The consumer reads a prefix of the bytes sent, in order and each once, and then the peer's own end: `UV_EOF` for `ZITI_EOF`, or the error.

These properties take several steps of several actors to break: a read, a write completion, a remote EOF and a failure in between.

Each property of a passing run has a mutant in `ConnBridge.tla` that TLC catches:

- an off-by-one pool check;
- an `ENOBUFS` that does not stop reading;
- a zero-length read that keeps its buffer;
- a local EOF that ignores `ziti_eof`;
- a write completion that never resumes;
- a `close_bridge` without `ziti_close`;
- a `close_bridge` without its `closed` check (`CloseBridgeTwice`), which tears a closed bridge down again for a new reason and breaks `ImplementsSession`;
- an `on_ziti_write` that restarts reading without checking `input_throttle` (`ResumeInputUnthrottled`), which breaks `ResumeOnlyOnCompletion`.

`StreamIntegrity` (ziti_src) says that `got + buffered = sent`: no byte is lost or delivered twice, however the consumer's buffer truncates chunks.

- It depends on `zlnf_data_cb` returning the copied count rather than the original length. The mutant `DataCbReturnsLength` breaks it.
- Spec §4.6 and §8.8 say the truncated remainder is "discarded" while 60 bytes are reported consumed. Under the return-value contract, the code does not discard the remainder: it is delivered again, and the model shows nothing is lost.

The ziti_src mutants are a write completion without the pending check, the full length returned after truncation, and an end of stream always propagated as `UV_EOF` (`DataCbEndAsEOF`, which breaks `ImplementsByteStream`).

### Findings (the violation runs)

1. **`NoDanglingDeadline`** (conn_bridge.c:228). `on_ziti_close` frees `br` but does not clear its deadline. Two calls can leave the deadline armed:
   - `ziti_conn_bridge_idle_timeout`;
   - `on_ziti_data`, which even runs after close when the connection delivers late.

   So `on_bridge_idle` can later run on freed memory. TLC's shortest trace is short: an attach whose read start fails (so the bridge closes at once), then `ziti_conn_bridge_idle_timeout(conn, 5)` arming the deadline, then `on_ziti_close` freeing the bridge.
2. **`IdleCloseOnlyWhenEnabled`** (conn_bridge.c:217). Setting the timeout to 0 stores 0 but does not disarm the deadline, which still closes the bridge.
3. **`BuffersReturnedAtFree`** (conn_bridge.c:387, 361). When `ziti_write` fails synchronously, nobody returns the buffer. This assumes, as the code does, that a synchronous failure does not call the write callback.
4. **`NoNullInput`** (conn_bridge.c:290). `on_ziti_data` never checks `br->closed`. A `ZITI_EOF` that arrives after `close_bridge` set `br->input = NULL`, while `input_eof` is false, dereferences NULL. Whether the transport can deliver such an event is the constant `LateRemoteEvents`. The liveness run and the other violation runs use `FALSE`. The safety run uses `TRUE`: a crashed bridge runs no further handler, and the invariants hold either way.
8. **`AttachResultTruthful`** (conn_bridge.c:199). Spec §6(a) and §7 say the attach reports a typed failure when no session exists. `ziti_conn_bridge` returns `UV_ECONNABORTED` when the read start fails and it has already torn the bridge down. `ziti_conn_bridge_fds` on a pipe pair returns `ZITI_OK` in the same situation, and it also ignores a failed `ziti_conn_set_data_cb`. The embedder then believes a bridge is up that is already closing.
9. **`NoLeakOnRefusal`** (conn_bridge.c:163). Spec §7 says a refused attach creates nothing. `ziti_conn_bridge_fds` allocates `fdbr` at line 138 and returns `UV_EINVAL` for an unsupported fd without freeing it. When it wraps the fd in a socket and `ziti_conn_bridge` refuses that socket (an unconnected UDP socket, or a failed `ziti_conn_set_data_cb`), the `calloc`ed handle and `fdbr` are both lost. TLC's trace is a stream socket whose `ziti_conn_set_data_cb` fails.

5. **`NoUninitializedConn`** (ziti_src.c:201). `zl_close` on a link whose connect never reached `ziti_conn_init` passes the uninitialized `zl->conn` to `ziti_close`. One example is a connect that failed with `ZITI_SERVICE_UNAVAILABLE`.
6. **`NoCallbackAfterRelease`** (ziti_src.c:175). `zl_close` does not wait for pending writes. A write that completes after `ziti_src_release` calls the consumer's cb with the freed link. This assumes that `ziti_close` completes pending writes with an error.
7. **`NoLeakedWriteRequests`** (ziti_src.c:194). When `ziti_write` fails synchronously, `zl_write` never frees its request.

### Bounds

- **`PoolSize = 2`.** This is the smallest pool in which the throttle engages while more than one write is pending, and in which a buffer is read while another is in flight. A larger pool repeats the same cases with bigger counters.
- **`IdleValues = {0, 5}`.** The value 5 stands for any positive timeout; the code only compares it with 0.
- **One bridge.** Bridges share no state, so one is enough.

### Fairness

The liveness run assumes weak fairness of two actions:

- **`WriteDone`:** the Ziti connection completes every write it accepted.
- **`ZitiClosed`:** it completes the `ziti_close` it accepted once writes have drained.

Both are promises of the transport that the bridge relies on. There is no fairness on the local reads or remote events, which the peer may never send.

## 4. Deadlock

Deadlock checking is off. After `ZitiClosed` frees the bridge, or after a refused attach, no handler runs any more, and that is the correct final state.

## 5. Proofs (`ConnBridgeProofs.tla`)

The proofs hold for every `PoolSize \in Nat \ {0}`, every set of idle values containing 0, and both values of `LateRemoteEvents`. The theorems are:

- `TypeCorrect`
- `ReadControlHolds`
- `BufferOwnershipHolds`
- `HalfCloseHolds`

They follow from `IInvHolds`: `Spec => []IInv`.

None of these invariants is inductive on its own, so they are proved together as `IInv`. `IInv` is the conjunction of:

- the type invariant, split into counters, state strings and booleans;
- `ReadControl`, `BufferOwnership` and `HalfCloseStateMachine`;
- `Fresh`: an unattached bridge has its zeroed initial fields.

The properties need each other:

- **`ReadControl` needs `BufferOwnership`.** When the pool is empty and the bridge is open, `pool_out = writes`, so the throttle's claim `writes = PoolSize` holds.
- **`BufferOwnership` needs `ReadControl`.** A read happens only while open, so `pool_out = writes` before the read.
- **`Attach` needs `Fresh`.** Without it, `Attach` could start from an arbitrary state.

TLC checked `IInv` as an invariant on the model before the proof.

The argument is the following:

- `InitIInv` proves `Init => IInv`.
- `NextIInv` proves `IInv /\ [Next]_vars => IInv'`. It has one case per action and one step per part of the invariant the action can disturb.
- PTL combines the two.

### The refinement (`ConnBridgeRefinement.tla`)

`RefinementHolds` proves `Spec => ImplementsSession` under the same assumptions.

- `Init` maps to `SessionInit`: an unattached bridge of kind `"other"` is `idle` with no ends of stream.
- `NextRefines` proves `IInv /\ RInv /\ [Next]_vars => [Session!SessionNext]_AbsVars`. It has one case per action:
  - `Attach` is `Open`. The lemma `AttachEffectHolds` collects what the three attach calls leave behind: refused, reading, or closed for an error.
  - `LocalRead`'s EOF branch is `LocalEnd`, and `RemoteEOF` is `RemoteEnd`.
  - Every other call of `close_bridge` is `Fail` on an open bridge and a stutter on a closed one. The lemma `CloseBridgeStep` states this once.
  - `ZitiClosed` is `Release`.
- The step needs facts that `IInv` does not state. `RInv` adds them, and `NextRInv` proves them inductive together with `IInv`:
  - `zconn` is `"open"` exactly while the bridge is not closed;
  - `zconn` is `"closed"` exactly when the bridge is freed;
  - a reason is recorded exactly when the bridge is closed;
  - a refused or unattached bridge has no write, shutdown, read or end of stream, and an unattached one has kind `"other"`.

  Without `RInv`, `ZitiClosed` could free an open bridge, and a `WriteDone` before the attach could close a bridge that is not yet a session. TLC checked `RInv` and `IInv` as invariants (`LateRemoteEvents = TRUE`) before the proof.

`TypeCorrect` now also covers `attachRc` and `leaked`, through `TypeAttach` and the lemma `NextTypeAttach`. Only `Attach` writes them.

### The resume action property (`ConnBridgeActionProofs.tla`)

`ResumeOnlyOnCompletionHolds` proves `Spec => ResumeOnlyOnCompletion` for every pool size and set of idle timeouts.

- `NextResume` looks at each action in turn:
  - `Attach` runs before the bridge exists.
  - `LocalRead` runs only while reading.
  - `close_bridge` and `on_input`'s EOF and `ENOBUFS` branches only stop reading.
  - The only step left is the resume branch of `ResumeInput`, which `WriteDone` takes after it returned the buffer.
- The step alone does not show that the restarted input had not ended. That needs the invariant `EOFStopsReading`: after `UV_EOF` the input is neither read nor throttled. `NextEOF` proves it inductive together with `IInv`. TLC checked it before the proof.

### ZitiSrcRefinement

`ByteStreamRefinement` proves `Spec => ImplementsByteStream` for all bounds.

- A `zlnf_data_cb` that copies `MinOf(buffered, avail)` bytes is a `Deliver` of that many bytes. `StreamIntegrity` (`got + buffered = sent`) puts the count in `1..(sent - got)`; the lemma `MinOfRange` states the bounds of `MinOf` once, for this proof and for `NextCounts`.
- The end branch is `DeliverEnd`: `buffered = 0` and `StreamIntegrity` give `got = sent`.
- That no data is delivered after the end, and that the end read is the peer's, needs the invariant `EndSeen`. TLC checked it before the proof.

### ZitiSrcProofs

`StreamIntegrityHolds` and `ZitiSrcTypeCorrect` hold for all bounds.

The counters alone are not inductive: `got + n` stays within `MaxBytes` only because `got <= sent`. So the invariant couples the counter ranges with `StreamIntegrity` and with `writes + leakedReqs <= issued`. The state fields are proved separately (`NextFields`).

## 6. What only TLC checks

Two kinds of result stay with TLC:

- **Liveness.** `ThrottleReleased` and `TeardownCompletes` rely on fairness and `ENABLED`, which TLAPS does not handle here.
- **Properties of the violation runs.** `NoDanglingDeadline`, `IdleCloseOnlyWhenEnabled`, `BuffersReturnedAtFree`, `NoNullInput`, `AttachResultTruthful`, `NoLeakOnRefusal` and the three ziti_src ones are false of the code, so there is nothing to prove.

Every invariant and action property of a passing run is stated by a theorem.
- **The violation results.** Each is a concrete trace.

## 7. Not modelled

- **Formatting code.** `conn_bridge_info` and `fmt_addr` only format addresses.
- **Handle close callbacks.** `on_sock_close` and `on_pipes_close` free handles and call the embedder. In the model they are the moment `close_bridge` stops reading.
- **Which allocation is lost.** `leaked` records that the fd path lost something on a refusal. It does not say whether that was `fdbr` alone or also the socket handle.
- **`zl_strerror` and `zl_read_start`.** The first is a lookup and the second a no-op.
- **A property for `on_shutdown`'s status handling.** `ShutdownDone` models it: `UV_ECANCELED` and success are ignored, and any other status closes the bridge. But no property tells a swallowed error apart from a shutdown that has not completed yet, so the hazard at conn_bridge.c:249 has no property.
- **The bytes of a write.** `zl_write` forwards only `bufs[0]`, and the model counts writes, not their bytes. Spec §4.6 and §9 document the single-buffer restriction as a contract the consumer must honour.

## 8. Plan for the following sittings

1. Check `BridgeSession` with fairness (`Release` weakly fair) against `FairSpec`, as the liveness counterpart of `TeardownCompletes`. It stays with TLC.
2. Lift the refinement proofs onto the fair specifications where the safety part allows, and state the session invariants of spec §8.2 on `BridgeSession` itself with a proof that `ConnBridge` inherits them.
