---------------------------- MODULE BridgeSession ----------------------------
(***************************************************************************)
(* What a bridge session promises its embedder, independent of buffers,   *)
(* throttling, timers and the half-close requests that carry it out: the  *)
(* teardown state machine.  An attach either refuses (no session) or opens *)
(* a session, possibly one that fails at once; each side's end of stream   *)
(* is recorded; the session closes exactly once, for both ends (or one end *)
(* of a datagram session), for an error or for idleness; and only a       *)
(* closed session is released.  ConnBridge implements this specification  *)
(* under the mapping given there.                                          *)
(***************************************************************************)
EXTENDS Naturals

VARIABLES
  phase,      \* "idle" (not attached), "refused", "active", "closed", "freed"
  localEOF,   \* the local endpoint reached end of stream
  remoteEOF,  \* the remote connection reached end of stream
  why,        \* why the session closed: "none", "eof", "error", "idle"
  dgram       \* the local endpoint is connectionless

svars == <<phase, localEOF, remoteEOF, why, dgram>>

SessionInit ==
  /\ phase = "idle"
  /\ localEOF = FALSE /\ remoteEOF = FALSE
  /\ why = "none"
  /\ dgram = FALSE

(* Teardown: the only way out of "active"; the reason is fixed once.      *)
Teardown(r) == phase' = "closed" /\ why' = r

(* The embedder attaches: a refusal creates nothing, otherwise a session  *)
(* exists, and a failed start tears it down before it ever runs.           *)
Open ==
  /\ phase = "idle"
  /\ dgram' \in BOOLEAN
  /\ \/ phase' \in {"refused", "active"} /\ UNCHANGED why
     \/ Teardown("error")
  /\ UNCHANGED <<localEOF, remoteEOF>>

(* The local endpoint ends its stream (never a datagram endpoint): the    *)
(* session closes when the remote side has already ended.                  *)
LocalEnd ==
  /\ phase = "active" /\ ~dgram
  /\ localEOF' = TRUE
  /\ IF remoteEOF THEN Teardown("eof") ELSE UNCHANGED <<phase, why>>
  /\ UNCHANGED <<remoteEOF, dgram>>

(* The remote connection ends its stream.  An active session closes when  *)
(* the local side has ended or is connectionless; otherwise it stays open *)
(* for the local side to finish, or fails while half-closing.  A closed   *)
(* session only records it.                                                *)
RemoteEnd ==
  /\ phase \in {"active", "closed"}
  /\ remoteEOF' = TRUE
  /\ \/ phase = "active" /\ (localEOF \/ dgram) /\ Teardown("eof")
     \/ /\ phase = "active" /\ ~(localEOF \/ dgram)
        /\ \/ UNCHANGED <<phase, why>>
           \/ Teardown("error")
     \/ phase = "closed" /\ UNCHANGED <<phase, why>>
  /\ UNCHANGED <<localEOF, dgram>>

(* A transport error or the idle deadline tears an active session down.   *)
Fail(r) ==
  /\ phase = "active"
  /\ Teardown(r)
  /\ UNCHANGED <<localEOF, remoteEOF, dgram>>

(* The remote close completes and the session is released.               *)
Release ==
  /\ phase = "closed"
  /\ phase' = "freed"
  /\ UNCHANGED <<localEOF, remoteEOF, why, dgram>>

SessionNext ==
  \/ Open
  \/ LocalEnd
  \/ RemoteEnd
  \/ \E r \in {"error", "idle"} : Fail(r)
  \/ Release

SessionSpec == SessionInit /\ [][SessionNext]_svars

=============================================================================
