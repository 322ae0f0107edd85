----------------------------- MODULE ConnBridge -----------------------------
(***************************************************************************)
(* The bridge between a local libuv handle and a Ziti connection           *)
(* (src/library/conn_bridge.c): one struct ziti_bridge_s, driven by the    *)
(* single-threaded event loop.  Every callback of the code is one action:  *)
(*   Attach       ziti_conn_bridge / ziti_conn_bridge_fds                  *)
(*   LocalRead    bridge_alloc followed by on_input / on_udp_input         *)
(*   WriteDone    on_ziti_write (completion of a ziti_write)               *)
(*   RemoteData, RemoteEOF, RemoteError   the three branches of on_ziti_data *)
(*   ShutdownDone on_shutdown (completion of uv_shutdown on the output)    *)
(*   IdleExpire   on_bridge_idle (the idle deadline fires)                 *)
(*   SetIdleTimeout  ziti_conn_bridge_idle_timeout (embedder call)         *)
(*   ZitiClosed   on_ziti_close (completion of ziti_close)                 *)
(* Byte contents are abstracted away: a pooled buffer is counted, not      *)
(* filled, and a chunk is an event, not a string.                          *)
(***************************************************************************)
EXTENDS Naturals

CONSTANTS
  PoolSize,          \* BRIDGE_POOL_SIZE: buffers of the per-bridge input pool
  IdleValues,        \* the millisecond values an embedder may pass as idle timeout
  LateRemoteEvents   \* may the Ziti connection deliver data after ziti_close?

ASSUME PoolSizeAssumption == PoolSize \in Nat \ {0}
ASSUME IdleAssumption == IdleValues \subseteq Nat /\ 0 \in IdleValues
ASSUME LateAssumption == LateRemoteEvents \in BOOLEAN

(* The kinds of local handle: a duplex stream (UV_TCP, UV_NAMED_PIPE,      *)
(* UV_TTY or a SOCK_STREAM fd), a connected UDP socket, the pair of pipes  *)
(* of ziti_conn_bridge_fds with input # output, and anything else.         *)
HandleKinds == {"stream", "udp", "fdpair", "other"}

(* What ziti_conn_bridge / ziti_conn_bridge_fds return: ZITI_OK, UV_EINVAL, *)
(* UV_ECONNRESET, UV_ECONNABORTED, or "none" before the call.              *)
AttachResults == {"none", "ok", "einval", "econnreset", "econnaborted"}

(* Why close_bridge ran: an auxiliary variable, written only by CloseBridge. *)
Reasons == {"none", "eof", "error", "idle"}

VARIABLES
  state,          \* "unbridged", "refused" (attach failed), "bridged", "freed"
  kind,           \* the kind of br->input / br->output
  closed,         \* br->closed
  ziti_eof,       \* br->ziti_eof
  input_eof,      \* br->input_eof
  input_throttle, \* br->input_throttle
  reading,        \* libuv read (or recv) is active on br->input
  close_write,    \* ziti_close_write(br->conn) has been issued
  shutdown_req,   \* the uv_shutdown request on br->output: "none", "pending", "done"
  writes,         \* ziti_write requests in flight, each owning one pooled buffer
  pool_out,       \* objects of br->input_pool currently allocated
  zconn,          \* br->conn: "open", "closing" (ziti_close issued), "closed"
  zin,            \* the Ziti inbound stream: "open", or "done" after EOF or error
  idle_timeout,   \* br->idle_timeout
  idler,          \* br->idler is armed in the context's deadline list
  closeReason,    \* auxiliary: why the bridge was closed
  crashed,        \* the process dereferenced a NULL br->input
  attachRc,       \* what the attach call returned: "none" before it
  leaked          \* a refused ziti_conn_bridge_fds lost the fdbr (and socket) it allocated

vars == <<state, kind, closed, ziti_eof, input_eof, input_throttle, reading,
          close_write, shutdown_req, writes, pool_out, zconn, zin,
          idle_timeout, idler, closeReason, crashed, attachRc, leaked>>

TypeOK ==
  /\ state \in {"unbridged", "refused", "bridged", "freed"}
  /\ kind \in HandleKinds
  /\ closed \in BOOLEAN /\ ziti_eof \in BOOLEAN /\ input_eof \in BOOLEAN
  /\ input_throttle \in BOOLEAN /\ reading \in BOOLEAN /\ close_write \in BOOLEAN
  /\ shutdown_req \in {"none", "pending", "done"}
  /\ writes \in 0..PoolSize
  /\ pool_out \in 0..PoolSize
  /\ zconn \in {"open", "closing", "closed"}
  /\ zin \in {"open", "done"}
  /\ idle_timeout \in IdleValues
  /\ idler \in BOOLEAN
  /\ closeReason \in Reasons
  /\ crashed \in BOOLEAN
  /\ attachRc \in AttachResults
  /\ leaked \in BOOLEAN

-----------------------------------------------------------------------------
(* Helpers called by several handlers.                                     *)

(* Mutant: close_bridge that forgets to call ziti_close.                  *)
CloseBridgeNoZitiClose(reason) ==
  IF closed
  THEN UNCHANGED <<closed, reading, zconn, closeReason>>
  ELSE /\ closed' = TRUE
       /\ reading' = FALSE
       /\ UNCHANGED zconn
       /\ closeReason' = reason

(* Mutant: close_bridge without its closed check, so a second call      *)
(* tears the bridge down again.                                            *)
CloseBridgeTwice(reason) ==
  /\ closed' = TRUE
  /\ reading' = FALSE
  /\ zconn' = "closing"
  /\ closeReason' = reason

(* close_bridge: a no-op once closed; otherwise mark closed, hand the      *)
(* input to the close callback (which closes the handle, so reading stops) *)
(* and ziti_close the connection.                                          *)
CloseBridge(reason) ==
  IF closed
  THEN UNCHANGED <<closed, reading, zconn, closeReason>>
  ELSE /\ closed' = TRUE
       /\ reading' = FALSE
       /\ zconn' = "closing"
       /\ closeReason' = reason

(* br_set_idle_timeout: re-arm the deadline when a timeout is configured.  *)
ResetIdle ==
  IF idle_timeout > 0 THEN idler' = TRUE ELSE UNCHANGED idler

-----------------------------------------------------------------------------
Init ==
  /\ state = "unbridged"
  /\ kind = "other"
  /\ closed = FALSE /\ ziti_eof = FALSE /\ input_eof = FALSE
  /\ input_throttle = FALSE /\ reading = FALSE /\ close_write = FALSE
  /\ shutdown_req = "none"
  /\ writes = 0 /\ pool_out = 0
  /\ zconn = "open" /\ zin = "open"
  /\ idle_timeout = 0 /\ idler = FALSE
  /\ closeReason = "none"
  /\ crashed = FALSE
  /\ attachRc = "none" /\ leaked = FALSE

(* ziti_conn_bridge on a handle of kind k: an unsupported handle and an    *)
(* unconnected UDP socket give UV_EINVAL, a failed ziti_conn_set_data_cb   *)
(* UV_ECONNRESET; otherwise the bridge exists and a failed read start      *)
(* closes it at once (UV_ECONNABORTED).  ziti_conn_bridge_fds with one fd  *)
(* wraps it in a socket of kind k first ("other" when getsockopt reports   *)
(* neither SOCK_STREAM nor SOCK_DGRAM); a refusal then loses the fdbr and  *)
(* the socket it allocated, which is what leakOnRefuse says.               *)
BridgeHandle(k, leakOnRefuse) ==
  \E peerConnected, dataCbOk, readOk \in BOOLEAN :
    LET rc == CASE k = "other" \/ (k = "udp" /\ ~peerConnected) -> "einval"
                [] ~dataCbOk -> "econnreset"
                [] readOk -> "ok"
                [] OTHER -> "econnaborted"
    IN /\ kind' = k
       /\ attachRc' = rc
       /\ IF rc \in {"einval", "econnreset"}
          THEN /\ state' = "refused"
               /\ leaked' = leakOnRefuse
               /\ UNCHANGED <<closed, reading, zconn, closeReason>>
          ELSE /\ state' = "bridged"
               /\ UNCHANGED leaked
               /\ IF readOk
                  THEN /\ reading' = TRUE
                       /\ UNCHANGED <<closed, zconn, closeReason>>
                  ELSE CloseBridge("error")

(* ziti_conn_bridge_fds with two fds: a pipe pair is bridged whatever      *)
(* ziti_conn_set_data_cb returns, and ZITI_OK is returned even when the    *)
(* read start failed and close_bridge already ran.                         *)
BridgeFdPair ==
  \E readOk \in BOOLEAN :
    /\ kind' = "fdpair" /\ state' = "bridged" /\ attachRc' = "ok"
    /\ UNCHANGED leaked
    /\ IF readOk
       THEN /\ reading' = TRUE
            /\ UNCHANGED <<closed, zconn, closeReason>>
       ELSE CloseBridge("error")

(* The embedder attaches the connection once: ziti_conn_bridge, or        *)
(* ziti_conn_bridge_fds with one fd or with two.                           *)
Attach ==
  /\ state = "unbridged"
  /\ \/ \E k \in HandleKinds \ {"fdpair"} : BridgeHandle(k, FALSE)
     \/ \E k \in HandleKinds \ {"fdpair"} : BridgeHandle(k, TRUE)
     \/ BridgeFdPair
  /\ UNCHANGED <<ziti_eof, input_eof, input_throttle, close_write, shutdown_req,
                 writes, pool_out, zin, idle_timeout, idler, crashed>>

(* Mutant: an off-by-one pool capacity check.                             *)
PoolHasRoomOffByOne == pool_out <= PoolSize

(* bridge_alloc: pool_alloc_obj returns a buffer while the pool has room. *)
PoolHasRoom == pool_out < PoolSize

(* on_input / on_udp_input with len > 0: ziti_write the buffer, which owns *)
(* it until on_ziti_write; a synchronous failure closes the bridge and     *)
(* the buffer is never returned.                                           *)
InputData ==
  /\ pool_out' = pool_out + 1
  /\ \/ /\ writes' = writes + 1
        /\ UNCHANGED <<closed, reading, zconn, closeReason>>
     \/ /\ CloseBridge("error")
        /\ UNCHANGED writes
  /\ UNCHANGED <<input_eof, close_write>>

(* Mutant: len == 0 keeps the buffer instead of returning it.             *)
InputNoneNoReturn ==
  /\ pool_out' = pool_out + 1
  /\ UNCHANGED <<closed, reading, zconn, closeReason, writes,
                 input_eof, close_write>>

(* len == 0: nothing was read, the buffer goes back to the pool.          *)
InputNone ==
  UNCHANGED <<closed, reading, zconn, closeReason, writes, pool_out,
              input_eof, close_write>>

(* Mutant: UV_EOF always half-closes, without looking at ziti_eof.        *)
InputEOFNoCheck ==
  /\ input_eof' = TRUE
  /\ reading' = FALSE
  /\ close_write' = TRUE
  /\ UNCHANGED <<closed, zconn, closeReason, writes, pool_out>>

(* on_input with UV_EOF: the buffer goes back; with the Ziti side at EOF   *)
(* the bridge closes, otherwise ziti_close_write half-closes it.  libuv    *)
(* stops reading after UV_EOF.                                             *)
InputEOF ==
  /\ input_eof' = TRUE
  /\ \/ /\ ziti_eof
        /\ CloseBridge("eof")
        /\ UNCHANGED close_write
     \/ /\ ~ziti_eof
        /\ reading' = FALSE
        /\ close_write' = TRUE
        /\ UNCHANGED <<closed, zconn, closeReason>>
  /\ UNCHANGED <<writes, pool_out>>

(* Any other negative len: the buffer goes back, the bridge closes.       *)
InputError ==
  /\ CloseBridge("error")
  /\ UNCHANGED <<writes, pool_out, input_eof, close_write>>

(* Mutant: UV_ENOBUFS sets the throttle but leaves reading on.            *)
InputNoBufsNoStop ==
  /\ IF ~input_throttle
     THEN input_throttle' = TRUE /\ UNCHANGED reading
     ELSE UNCHANGED <<input_throttle, reading>>
  /\ UNCHANGED <<closed, zconn, closeReason, writes, pool_out,
                 input_eof, close_write>>

(* UV_ENOBUFS, reported when bridge_alloc got no buffer: pause reading     *)
(* and set the throttle, unless it is already set.                         *)
InputNoBufs ==
  /\ IF ~input_throttle
     THEN input_throttle' = TRUE /\ reading' = FALSE
     ELSE UNCHANGED <<input_throttle, reading>>
  /\ UNCHANGED <<closed, zconn, closeReason, writes, pool_out,
                 input_eof, close_write>>

(* One libuv read: bridge_alloc (which clears the throttle when it gets a  *)
(* buffer) followed by on_input, or on_udp_input for UDP (no UV_EOF there: *)
(* a datagram socket has no end of stream).  Both re-arm the idle timer.   *)
LocalRead ==
  /\ state = "bridged" /\ reading /\ ~crashed
  /\ ResetIdle
  /\ \/ /\ PoolHasRoom
        /\ input_throttle' = FALSE
        /\ \/ InputData
           \/ InputNone
           \/ kind # "udp" /\ InputEOF
           \/ InputError
     \/ /\ ~PoolHasRoom
        /\ InputNoBufs
  /\ UNCHANGED <<attachRc, leaked, state, kind, ziti_eof, shutdown_req, zin, idle_timeout, crashed>>

(* Mutant: on_ziti_write never resumes a throttled input.                 *)
ResumeInputDropped ==
  UNCHANGED <<input_throttle, closed, reading, zconn, closeReason>>

(* Mutant: on_ziti_write restarts reading on every successful completion *)
(* of an open bridge, without checking br->input_throttle.                 *)
ResumeInputUnthrottled ==
  IF ~closed
  THEN /\ input_throttle' = FALSE
       /\ \/ /\ reading' = TRUE
             /\ UNCHANGED <<closed, zconn, closeReason>>
          \/ CloseBridge("error")
  ELSE UNCHANGED <<input_throttle, closed, reading, zconn, closeReason>>

(* The successful branch of on_ziti_write: while br->input is still set   *)
(* (the bridge is not closed) a throttled input clears the throttle and    *)
(* restarts reading; a failed restart closes the bridge.                   *)
ResumeInput ==
  IF ~closed /\ input_throttle
  THEN /\ input_throttle' = FALSE
       /\ \/ /\ reading' = TRUE
             /\ UNCHANGED <<closed, zconn, closeReason>>
          \/ CloseBridge("error")
  ELSE UNCHANGED <<input_throttle, closed, reading, zconn, closeReason>>

(* on_ziti_write: return the buffer to the pool first; a failed write      *)
(* closes the bridge, a successful one may resume the input.  The Ziti     *)
(* connection completes every write before it reports its own close, so    *)
(* the bridge still exists here.                                           *)
WriteDone ==
  /\ writes > 0 /\ zconn # "closed" /\ ~crashed
  /\ writes' = writes - 1
  /\ pool_out' = pool_out - 1
  /\ \/ /\ CloseBridge("error")
        /\ UNCHANGED input_throttle
     \/ ResumeInput
  /\ UNCHANGED <<attachRc, leaked, state, kind, ziti_eof, input_eof, close_write, shutdown_req,
                 zin, idle_timeout, idler, crashed>>

(* on_ziti_data is called while the connection is open and, when           *)
(* LateRemoteEvents holds, also after ziti_close until the close completes. *)
RemoteCanDeliver ==
  /\ state = "bridged" /\ zin = "open" /\ ~crashed
  /\ \/ zconn = "open"
     \/ LateRemoteEvents /\ zconn = "closing"

(* on_ziti_data with len > 0: uv_try_write / uv_udp_try_send to the output *)
(* either consumes bytes (all, some or, with UV_EAGAIN, none: the count is *)
(* returned to the Ziti connection) or fails and closes the bridge.  The   *)
(* output of a closed bridge is closed, so its writes fail.                *)
RemoteData ==
  /\ RemoteCanDeliver
  /\ ResetIdle
  /\ \/ /\ ~closed
        /\ UNCHANGED <<closed, reading, zconn, closeReason>>
     \/ CloseBridge("error")
  /\ UNCHANGED <<attachRc, leaked, state, kind, ziti_eof, input_eof, input_throttle, close_write,
                 shutdown_req, writes, pool_out, zin, idle_timeout, crashed>>

(* on_ziti_data with ZITI_EOF: set ziti_eof; when the input is at EOF or   *)
(* is UDP the bridge closes, otherwise uv_shutdown half-closes the output  *)
(* (a failed submission closes the bridge).  The test reads                *)
(* br->input->type unless input_eof is set, and close_bridge has set       *)
(* br->input to NULL.                                                      *)
RemoteEOF ==
  /\ RemoteCanDeliver
  /\ ResetIdle
  /\ ziti_eof' = TRUE
  /\ zin' = "done"
  /\ \/ /\ closed /\ ~input_eof
        /\ crashed' = TRUE
        /\ UNCHANGED <<closed, reading, zconn, closeReason, shutdown_req>>
     \/ /\ input_eof \/ ~closed
        /\ UNCHANGED crashed
        /\ \/ /\ input_eof \/ kind = "udp"
              /\ CloseBridge("eof")
              /\ UNCHANGED shutdown_req
           \/ /\ ~input_eof /\ kind # "udp"
              /\ \/ /\ shutdown_req' = "pending"
                    /\ UNCHANGED <<closed, reading, zconn, closeReason>>
                 \/ /\ CloseBridge("error")
                    /\ UNCHANGED shutdown_req
  /\ UNCHANGED <<attachRc, leaked, state, kind, input_eof, input_throttle, close_write, writes,
                 pool_out, idle_timeout>>

(* on_ziti_data with ZITI_CONN_CLOSED or another error: close the bridge. *)
RemoteError ==
  /\ RemoteCanDeliver
  /\ ResetIdle
  /\ zin' = "done"
  /\ CloseBridge("error")
  /\ UNCHANGED <<attachRc, leaked, state, kind, ziti_eof, input_eof, input_throttle, close_write,
                 shutdown_req, writes, pool_out, idle_timeout, crashed>>

(* on_shutdown: UV_ECANCELED (the handle was closed first, which is the    *)
(* only status a closed bridge sees) and success are ignored; any other    *)
(* status closes the bridge.                                               *)
ShutdownDone ==
  /\ shutdown_req = "pending" /\ ~crashed
  /\ shutdown_req' = "done"
  /\ \/ UNCHANGED <<closed, reading, zconn, closeReason>>
     \/ /\ ~closed
        /\ CloseBridge("error")
  /\ UNCHANGED <<attachRc, leaked, state, kind, ziti_eof, input_eof, input_throttle, close_write,
                 writes, pool_out, zin, idle_timeout, idler, crashed>>

(* on_bridge_idle: the armed deadline fires and closes the bridge.         *)
IdleExpire ==
  /\ state = "bridged" /\ idler /\ ~crashed
  /\ idler' = FALSE
  /\ CloseBridge("idle")
  /\ UNCHANGED <<attachRc, leaked, state, kind, ziti_eof, input_eof, input_throttle, close_write,
                 shutdown_req, writes, pool_out, zin, idle_timeout, crashed>>

(* ziti_conn_bridge_idle_timeout: 0 only stores 0; another value is stored *)
(* and (re)arms the deadline.                                              *)
SetIdleTimeout ==
  /\ state = "bridged" /\ ~crashed
  /\ \E millis \in IdleValues :
       /\ idle_timeout' = millis
       /\ IF millis = 0 THEN UNCHANGED idler ELSE idler' = TRUE
  /\ UNCHANGED <<attachRc, leaked, state, kind, closed, ziti_eof, input_eof, input_throttle,
                 reading, close_write, shutdown_req, writes, pool_out, zconn,
                 zin, closeReason, crashed>>

(* on_ziti_close: the close completes once every write has completed;      *)
(* the pool is destroyed and br is freed.                                  *)
ZitiClosed ==
  /\ zconn = "closing" /\ writes = 0 /\ ~crashed
  /\ zconn' = "closed"
  /\ state' = "freed"
  /\ UNCHANGED <<attachRc, leaked, kind, closed, ziti_eof, input_eof, input_throttle, reading,
                 close_write, shutdown_req, writes, pool_out, zin,
                 idle_timeout, idler, closeReason, crashed>>

Next ==
  \/ Attach
  \/ LocalRead
  \/ WriteDone
  \/ RemoteData
  \/ RemoteEOF
  \/ RemoteError
  \/ ShutdownDone
  \/ IdleExpire
  \/ SetIdleTimeout
  \/ ZitiClosed

(* The Ziti connection completes every write and every close it accepted. *)
Fairness == WF_vars(WriteDone) /\ WF_vars(ZitiClosed)

Spec == Init /\ [][Next]_vars

FairSpec == Spec /\ Fairness

-----------------------------------------------------------------------------
(* Properties.                                                             *)

(* Flow control of the input (on_input, on_udp_input, on_ziti_write): a   *)
(* closed bridge never reads, and a throttle on an open bridge means that  *)
(* reading is paused while every pool buffer is in a ziti_write whose      *)
(* completion will resume it.                                              *)
ReadControl ==
  /\ closed => ~reading
  /\ input_throttle /\ ~closed => ~reading /\ writes = PoolSize

(* Buffer ownership (bridge_alloc, on_input, on_ziti_write): every pooled  *)
(* buffer out of the pool is owned by a ziti_write in flight, and while    *)
(* the bridge is open no buffer is out without one.                        *)
BufferOwnership ==
  /\ writes <= pool_out
  /\ ~closed => pool_out = writes

(* The half-close state machine (on_input's UV_EOF, on_ziti_data's         *)
(* ZITI_EOF): a side is half-closed only after its own EOF; once both      *)
(* sides are at EOF, or the Ziti side is at EOF on a UDP handle, the       *)
(* bridge is closed; and a bridge closed for EOF reached it on both sides. *)
HalfCloseStateMachine ==
  /\ close_write => input_eof
  /\ shutdown_req # "none" => ziti_eof /\ kind # "udp"
  /\ ziti_eof /\ (input_eof \/ kind = "udp") => closed
  /\ closeReason = "eof" => ziti_eof /\ (input_eof \/ kind = "udp")

(* A throttled input is eventually resumed or the bridge closed           *)
(* (on_ziti_write's resume after UV_ENOBUFS).                             *)
ThrottleReleased == input_throttle ~> (~input_throttle \/ closed)

(* Every close_bridge leads to on_ziti_close freeing the bridge.          *)
TeardownCompletes == closed ~> (state = "freed")

(* Spec 4.3 / 3: when on_ziti_close frees the bridge its idle deadline is *)
(* no longer armed (otherwise on_bridge_idle runs on freed memory).       *)
NoDanglingDeadline == state = "freed" => ~idler

(* Spec 8.3 / 5: once bridged, reading restarts only in on_ziti_write: a  *)
(* completion that returned its buffer to the pool, on a bridge that is    *)
(* still open, was throttled, and never saw the local end of stream.       *)
ResumeOnlyOnCompletion ==
  [][state = "bridged" /\ ~reading /\ reading' =>
       /\ input_throttle /\ ~input_throttle'
       /\ ~closed /\ ~input_eof
       /\ pool_out' = pool_out - 1]_vars

(* Spec 4.4: an idle timeout of 0 disables the timeout, so a close for    *)
(* idleness happens only while the timeout is enabled.                    *)
IdleCloseOnlyWhenEnabled ==
  [][closeReason = "none" /\ closeReason' = "idle" => idle_timeout > 0]_vars

(* Spec 6(a) / 7: the attach call reports success exactly when it leaves  *)
(* a live bridge; a session torn down during setup is reported as a       *)
(* failure (ziti_conn_bridge's UV_ECONNABORTED).                          *)
AttachResultTruthful ==
  [][state = "unbridged" /\ state' # "unbridged" =>
       (attachRc' = "ok" <=> state' = "bridged" /\ ~closed')]_vars

(* Spec 7: a refused attach creates no session and holds nothing: every   *)
(* allocation of ziti_conn_bridge_fds is released on its error paths.     *)
NoLeakOnRefusal == ~leaked

(* The bridge as a session of BridgeSession: attached or not, refused,    *)
(* open, closed (close_bridge ran) or freed (on_ziti_close ran); the ends  *)
(* of stream are br->input_eof and br->ziti_eof, and a UDP handle is the   *)
(* connectionless endpoint.                                                *)
SessionPhase ==
  CASE state = "unbridged"          -> "idle"
    [] state = "refused"            -> "refused"
    [] state = "bridged" /\ ~closed -> "active"
    [] state = "bridged" /\ closed  -> "closed"
    [] state = "freed"              -> "freed"

Session == INSTANCE BridgeSession
             WITH phase <- SessionPhase, localEOF <- input_eof,
                  remoteEOF <- ziti_eof, why <- closeReason,
                  dgram <- (kind = "udp")

(* Spec 4.3 / 8.1-8.2: the bridge implements the session state machine:   *)
(* close_bridge tears down at most once and only for both ends of stream  *)
(* (one on UDP), an error or idleness, and on_ziti_close releases only a  *)
(* closed bridge.                                                          *)
ImplementsSession == Session!SessionSpec

(* Spec 3 / 8.1: every pooled buffer is returned before on_ziti_close     *)
(* destroys the pool.                                                     *)
BuffersReturnedAtFree == state = "freed" => pool_out = 0

(* Spec 5: events arriving after teardown began are no-ops; on_ziti_data  *)
(* never dereferences the input that close_bridge cleared.                *)
NoNullInput == ~crashed

=============================================================================
