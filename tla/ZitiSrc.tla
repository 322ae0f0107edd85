------------------------------ MODULE ZitiSrc ------------------------------
(***************************************************************************)
(* The stream-link adapter of src/library/ziti_src.c: a tlsuv source whose *)
(* link (ziti_link_t) carries a consumer's bytes over a Ziti connection.   *)
(* The consumer (tlsuv) calls connect, write, close and release; the Ziti  *)
(* connection calls back zlnf_conn_cb, zlnf_data_cb and zlnf_write_cb.     *)
(* Everything runs on one loop thread, so each call is one atomic step.    *)
(*   Connect   ziti_src_connect        ConnCb   zlnf_conn_cb               *)
(*   DataCb    zlnf_data_cb            WriteCb  zlnf_write_cb              *)
(*   Write     zl_write                Close    zl_close                   *)
(*   Release   ziti_src_release        (zl_read_start is a no-op)          *)
(* Bytes are counted, not stored: the remote peer sends bytes that the     *)
(* Ziti connection buffers until zlnf_data_cb reports them consumed; what  *)
(* it does not consume is delivered again (the return-value contract the   *)
(* bridge's on_ziti_data relies on as well).                               *)
(***************************************************************************)
EXTENDS Naturals

CONSTANTS
  MaxBytes,   \* bytes the remote peer sends in one run
  MaxAlloc,   \* the largest buffer the consumer's alloc_cb offers
  MaxWrites   \* zl_write calls the consumer makes in one run

ASSUME BoundsAssumption ==
  MaxBytes \in Nat /\ MaxAlloc \in Nat \ {0} /\ MaxWrites \in Nat

VARIABLES
  link,        \* src->link: "live", or "released" by ziti_src_release
  service,     \* zl->service: "none" (NULL) or "set"
  conn,        \* zl->conn: "garbage" (never set since the malloc), "init",
               \*   "dialing", "connected", "failed" or "closed"
  peer,        \* what the remote peer sent after its data: "open", "eof", "error"
  sent,        \* bytes the peer sent
  buffered,    \* bytes held by the Ziti connection, not yet consumed
  got,         \* bytes copied into the consumer's buffers
  consumerEnd, \* read_cb with UV_EOF or an error was propagated: "none", "eof", "error"
  writes,      \* zl_write requests whose zlnf_write_cb is pending
  issued,      \* zl_write calls made so far
  leakedReqs,  \* zl_write requests never freed
  ub,          \* a Ziti call was made on the uninitialized zl->conn
  uaf          \* a callback used the link after ziti_src_release freed it

vars == <<link, service, conn, peer, sent, buffered, got, consumerEnd,
          writes, issued, leakedReqs, ub, uaf>>

ConnStates == {"garbage", "init", "dialing", "connected", "failed", "closed"}

TypeOK ==
  /\ link \in {"live", "released"}
  /\ service \in {"none", "set"}
  /\ conn \in ConnStates
  /\ peer \in {"open", "eof", "error"}
  /\ sent \in 0..MaxBytes /\ buffered \in 0..MaxBytes /\ got \in 0..MaxBytes
  /\ consumerEnd \in {"none", "eof", "error"}
  /\ writes \in 0..MaxWrites /\ issued \in 0..MaxWrites
  /\ leakedReqs \in 0..MaxWrites
  /\ ub \in BOOLEAN /\ uaf \in BOOLEAN

MinOf(a, b) == IF a < b THEN a ELSE b

-----------------------------------------------------------------------------
(* ziti_src_init: the link is malloc'ed (zl->conn is left unset) and the   *)
(* service is copied when one is given.                                    *)
Init ==
  /\ link = "live"
  /\ service \in {"none", "set"}
  /\ conn = "garbage"
  /\ peer = "open"
  /\ sent = 0 /\ buffered = 0 /\ got = 0
  /\ consumerEnd = "none"
  /\ writes = 0 /\ issued = 0 /\ leakedReqs = 0
  /\ ub = FALSE /\ uaf = FALSE

(* ziti_src_connect, called by the consumer on a live source that has no  *)
(* open connection.  Without a service the intercept lookup may fail       *)
(* (ZITI_SERVICE_UNAVAILABLE, nothing else changes); ziti_conn_init may    *)
(* fail; ziti_dial_with_options may fail synchronously.                    *)
Connect ==
  /\ link = "live" /\ conn \in {"garbage", "closed"}
  /\ \E found, initOk, dialOk \in BOOLEAN :
       IF service = "none" /\ ~found
       THEN UNCHANGED <<service, conn>>
       ELSE /\ service' = "set"
            /\ IF ~initOk THEN UNCHANGED conn
               ELSE conn' = IF dialOk THEN "dialing" ELSE "init"
  /\ UNCHANGED <<link, peer, sent, buffered, got, consumerEnd, writes, issued,
                 leakedReqs, ub, uaf>>

(* zlnf_conn_cb: the dial completes and connect_cb gets its status.        *)
ConnCb ==
  /\ conn = "dialing"
  /\ conn' \in {"connected", "failed"}
  /\ UNCHANGED <<link, service, peer, sent, buffered, got, consumerEnd,
                 writes, issued, leakedReqs, ub, uaf>>

(* Mutant: report the whole chunk consumed even when it was truncated.    *)
DataCbReturnsLength ==
  /\ conn = "connected" /\ link = "live"
  /\ buffered > 0
  /\ \E avail \in 0..MaxAlloc :
       IF avail = 0
       THEN UNCHANGED <<got, buffered>>
       ELSE /\ got' = got + MinOf(buffered, avail)
            /\ buffered' = 0
  /\ UNCHANGED <<link, service, conn, peer, sent, consumerEnd, writes, issued,
                 leakedReqs, ub, uaf>>

(* zlnf_data_cb with data: the consumer's alloc_cb offers avail bytes.     *)
(* With no buffer it returns 0 (nothing consumed); otherwise it copies at  *)
(* most avail bytes, propagates them and returns the copied count, so the  *)
(* Ziti connection keeps the rest.                                         *)
DataCb ==
  /\ conn = "connected" /\ link = "live"
  /\ buffered > 0
  /\ \E avail \in 0..MaxAlloc :
       IF avail = 0
       THEN UNCHANGED <<got, buffered>>
       ELSE /\ got' = got + MinOf(buffered, avail)
            /\ buffered' = buffered - MinOf(buffered, avail)
  /\ UNCHANGED <<link, service, conn, peer, sent, consumerEnd, writes, issued,
                 leakedReqs, ub, uaf>>

(* Mutant: every end of stream is propagated as UV_EOF, errors included.  *)
DataCbEndAsEOF ==
  /\ conn = "connected" /\ link = "live"
  /\ buffered = 0 /\ peer # "open" /\ consumerEnd = "none"
  /\ consumerEnd' = "eof"
  /\ UNCHANGED <<link, service, conn, peer, sent, buffered, got, writes, issued,
                 leakedReqs, ub, uaf>>

(* zlnf_data_cb with ZITI_EOF or an error: propagate UV_EOF or the error   *)
(* to the consumer's read_cb.  The connection reports the end once, after  *)
(* the data before it.                                                     *)
DataCbEnd ==
  /\ conn = "connected" /\ link = "live"
  /\ buffered = 0 /\ peer # "open" /\ consumerEnd = "none"
  /\ consumerEnd' = peer
  /\ UNCHANGED <<link, service, conn, peer, sent, buffered, got, writes, issued,
                 leakedReqs, ub, uaf>>

(* zl_write: allocate a request and ziti_write bufs[0].  A synchronous     *)
(* failure (the connection is no longer writable) is returned to the      *)
(* consumer and the request is never freed.                                *)
Write ==
  /\ link = "live" /\ conn = "connected" /\ issued < MaxWrites
  /\ issued' = issued + 1
  /\ IF peer = "error"
     THEN leakedReqs' = leakedReqs + 1 /\ UNCHANGED writes
     ELSE writes' = writes + 1 /\ UNCHANGED leakedReqs
  /\ UNCHANGED <<link, service, conn, peer, sent, buffered, got, consumerEnd,
                 ub, uaf>>

(* Mutant: a completion that does not check for a pending request.       *)
WriteCbNoGuard ==
  /\ writes' = writes - 1
  /\ IF link = "released" THEN uaf' = TRUE ELSE UNCHANGED uaf
  /\ UNCHANGED <<link, service, conn, peer, sent, buffered, got, consumerEnd,
                 issued, leakedReqs, ub>>

(* zlnf_write_cb: the Ziti connection completes a write (also with an      *)
(* error after ziti_close); the consumer's cb is called on req->zl, the    *)
(* link, and the request freed.                                            *)
WriteCb ==
  /\ writes > 0
  /\ writes' = writes - 1
  /\ IF link = "released" THEN uaf' = TRUE ELSE UNCHANGED uaf
  /\ UNCHANGED <<link, service, conn, peer, sent, buffered, got, consumerEnd,
                 issued, leakedReqs, ub>>

(* zl_close: ziti_close(zl->conn, NULL) without waiting, then the          *)
(* consumer's close callback.  Before any successful ziti_conn_init,       *)
(* zl->conn is the uninitialized field of the malloc'ed link.              *)
Close ==
  /\ link = "live" /\ conn # "closed"
  /\ IF conn = "garbage"
     THEN ub' = TRUE /\ UNCHANGED conn
     ELSE conn' = "closed" /\ UNCHANGED ub
  /\ UNCHANGED <<link, service, peer, sent, buffered, got, consumerEnd, writes,
                 issued, leakedReqs, uaf>>

(* ziti_src_release: free the service name and the link, once the consumer *)
(* has closed it (or never connected).  Pending write requests are left.   *)
Release ==
  /\ link = "live" /\ conn \in {"garbage", "closed", "failed", "init"}
  /\ link' = "released"
  /\ UNCHANGED <<service, conn, peer, sent, buffered, got, consumerEnd, writes,
                 issued, leakedReqs, ub, uaf>>

(* The remote peer: it sends bytes while the connection is up, then ends  *)
(* the stream with EOF or fails it.                                        *)
PeerSend ==
  /\ conn = "connected" /\ peer = "open" /\ sent < MaxBytes
  /\ sent' = sent + 1 /\ buffered' = buffered + 1
  /\ UNCHANGED <<link, service, conn, peer, got, consumerEnd, writes, issued,
                 leakedReqs, ub, uaf>>

PeerEnd ==
  /\ conn = "connected" /\ peer = "open"
  /\ peer' \in {"eof", "error"}
  /\ UNCHANGED <<link, service, conn, sent, buffered, got, consumerEnd, writes,
                 issued, leakedReqs, ub, uaf>>

Next ==
  \/ Connect \/ ConnCb \/ DataCb \/ DataCbEnd \/ Write \/ WriteCb
  \/ Close \/ Release \/ PeerSend \/ PeerEnd

Spec == Init /\ [][Next]_vars

-----------------------------------------------------------------------------
(* Properties.                                                             *)

(* zlnf_data_cb's return value: every byte the peer sent is either copied *)
(* to the consumer or still held by the Ziti connection, never both and    *)
(* never neither, whatever buffer sizes the consumer offers and however    *)
(* often a chunk is truncated to them.                                     *)
StreamIntegrity == got + buffered = sent

(* The adapter as a byte stream: the consumer's bytes and end are what    *)
(* zlnf_data_cb propagated, the peer's are what it sent.                   *)
Stream == INSTANCE ByteStream
            WITH sent <- sent, got <- got, peerEnd <- peer, seenEnd <- consumerEnd

(* Spec 4.6: zlnf_data_cb relays the peer's stream to the consumer: the   *)
(* bytes read are a prefix of those sent, in order and each once, and the *)
(* end read (UV_EOF or the error) is the peer's, after all of its bytes.   *)
ImplementsByteStream == Stream!StreamSpec

(* zl_close and zl_write only pass zl->conn to Ziti once ziti_conn_init    *)
(* has set it.                                                             *)
NoUninitializedConn == ~ub

(* No zlnf_write_cb reaches the link after ziti_src_release freed it.     *)
NoCallbackAfterRelease == ~uaf

(* Every request zl_write allocates is freed by zlnf_write_cb.            *)
NoLeakedWriteRequests == leakedReqs = 0

=============================================================================
