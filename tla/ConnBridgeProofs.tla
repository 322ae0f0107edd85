-------------------------- MODULE ConnBridgeProofs --------------------------
(***************************************************************************)
(* Proofs about ConnBridge for every pool size and every set of idle       *)
(* timeout values: type correctness, input flow control, buffer ownership  *)
(* and the half-close state machine.  None of the four is inductive on its *)
(* own (the type of writes rests on BufferOwnership, the throttle part of  *)
(* ReadControl on BufferOwnership, and every part on what a bridge looks   *)
(* like before Attach), so they are proved together with Fresh.            *)
(***************************************************************************)
EXTENDS ConnBridge, TLAPS

(* Before ziti_conn_bridge runs, the bridge holds nothing: no flag is set, *)
(* no buffer or request is out and the connection is open.                 *)
Fresh ==
  state = "unbridged" =>
    /\ ~closed /\ ~ziti_eof /\ ~input_eof /\ ~input_throttle /\ ~reading
    /\ ~close_write /\ shutdown_req = "none"
    /\ writes = 0 /\ pool_out = 0
    /\ zconn = "open" /\ closeReason = "none"

(* TypeOK in two halves, the counters and the rest, which the provers    *)
(* handle better apart.                                                    *)
TypeCounts ==
  /\ writes \in 0..PoolSize
  /\ pool_out \in 0..PoolSize
  /\ idle_timeout \in IdleValues

TypeStates ==
  /\ state \in {"unbridged", "refused", "bridged", "freed"}
  /\ kind \in HandleKinds
  /\ shutdown_req \in {"none", "pending", "done"}
  /\ zconn \in {"open", "closing", "closed"}
  /\ zin \in {"open", "done"}
  /\ closeReason \in Reasons

TypeBools ==
  /\ closed \in BOOLEAN /\ ziti_eof \in BOOLEAN /\ input_eof \in BOOLEAN
  /\ input_throttle \in BOOLEAN /\ reading \in BOOLEAN /\ close_write \in BOOLEAN
  /\ idler \in BOOLEAN /\ crashed \in BOOLEAN

TypeFlags == TypeStates /\ TypeBools

(* What the attach call returned and whether it lost an allocation: only   *)
(* Attach writes them, so they are kept apart from the invariant below.    *)
TypeAttach == attachRc \in AttachResults /\ leaked \in BOOLEAN

LEMMA TypeSplit == TypeOK <=> TypeCounts /\ TypeFlags /\ TypeAttach
BY Zenon DEF TypeOK, TypeCounts, TypeFlags, TypeStates, TypeBools, TypeAttach

(* The inductive invariant.                                                *)
IInv == TypeCounts /\ TypeFlags /\ ReadControl /\ BufferOwnership
        /\ HalfCloseStateMachine /\ Fresh

USE PoolSizeAssumption, IdleAssumption, LateAssumption

(* The invariant holds before the bridge is attached.                      *)
LEMMA InitIInv == Init => IInv
<1> SUFFICES ASSUME Init PROVE IInv
  OBVIOUS
<1>1. TypeCounts
  BY DEF Init, TypeCounts
<1>2. TypeFlags
  BY DEF Init, TypeFlags, TypeStates, TypeBools, HandleKinds, Reasons
<1>3. ReadControl /\ BufferOwnership /\ HalfCloseStateMachine /\ Fresh
  BY DEF Init, ReadControl, BufferOwnership, HalfCloseStateMachine, Fresh
<1>4. QED
  BY <1>1, <1>2, <1>3 DEF IInv

(* Every step of the bridge preserves the invariant: one step per handler, *)
(* and under it one per part of the invariant.                             *)
(* What an attach leaves behind: a refused call changes nothing of the    *)
(* bridge, an accepted one is reading or already closed for an error.      *)
AttachEffect ==
  /\ kind' \in HandleKinds /\ attachRc' \in AttachResults
  /\ \/ /\ state' = "refused"
        /\ UNCHANGED <<closed, reading, zconn, closeReason>>
     \/ /\ state' = "bridged" /\ reading' = TRUE
        /\ UNCHANGED <<closed, zconn, closeReason>>
     \/ /\ state' = "bridged" /\ closed' = TRUE /\ reading' = FALSE
        /\ zconn' = "closing" /\ closeReason' = "error"

LEMMA BridgeHandleEffect ==
  ASSUME NEW k \in HandleKinds, NEW b \in BOOLEAN, closed = FALSE,
         BridgeHandle(k, b)
  PROVE  AttachEffect
<1>1. PICK peerConnected, dataCbOk, readOk \in BOOLEAN :
         LET rc == CASE k = "other" \/ (k = "udp" /\ ~peerConnected) -> "einval"
                     [] ~dataCbOk -> "econnreset"
                     [] readOk -> "ok"
                     [] OTHER -> "econnaborted"
         IN /\ kind' = k
            /\ attachRc' = rc
            /\ IF rc \in {"einval", "econnreset"}
               THEN /\ state' = "refused"
                    /\ leaked' = b
                    /\ UNCHANGED <<closed, reading, zconn, closeReason>>
               ELSE /\ state' = "bridged"
                    /\ UNCHANGED leaked
                    /\ IF readOk
                       THEN /\ reading' = TRUE
                            /\ UNCHANGED <<closed, zconn, closeReason>>
                       ELSE CloseBridge("error")
  BY DEF BridgeHandle
<1>2. attachRc' \in AttachResults
  BY <1>1 DEF AttachResults
<1>3. CASE attachRc' \in {"einval", "econnreset"}
  BY <1>1, <1>2, <1>3 DEF AttachEffect
<1>4. CASE attachRc' \notin {"einval", "econnreset"} /\ readOk
  BY <1>1, <1>2, <1>4 DEF AttachEffect
<1>5. CASE attachRc' \notin {"einval", "econnreset"} /\ ~readOk
  BY <1>1, <1>2, <1>5 DEF AttachEffect, CloseBridge
<1>6. QED
  BY <1>3, <1>4, <1>5

LEMMA AttachEffectHolds ==
  ASSUME Attach, closed = FALSE
  PROVE  AttachEffect
<1>1. CASE \E k \in HandleKinds \ {"fdpair"} : BridgeHandle(k, FALSE)
  BY <1>1, BridgeHandleEffect
<1>2. CASE \E k \in HandleKinds \ {"fdpair"} : BridgeHandle(k, TRUE)
  BY <1>2, BridgeHandleEffect
<1>3. CASE BridgeFdPair
  BY <1>3 DEF BridgeFdPair, AttachEffect, CloseBridge, HandleKinds, AttachResults
<1>4. QED
  BY <1>1, <1>2, <1>3 DEF Attach

(* Only an attach writes the attach outcome, and it writes it in range.   *)
LEMMA NextTypeAttach == TypeAttach /\ IInv /\ [Next]_vars => TypeAttach'
<1> SUFFICES ASSUME TypeAttach, IInv, [Next]_vars PROVE TypeAttach'
  OBVIOUS
<1>1. CASE Attach
  <2>1. closed = FALSE
    BY <1>1 DEF Attach, IInv, Fresh
  <2>2. attachRc' \in AttachResults
    BY <1>1, <2>1, AttachEffectHolds DEF AttachEffect
  <2>3. leaked' \in BOOLEAN
    BY <1>1 DEF Attach, BridgeHandle, BridgeFdPair, TypeAttach
  <2>4. QED
    BY <2>2, <2>3 DEF TypeAttach
<1>2. CASE ~Attach
  BY <1>2 DEF Next, vars, TypeAttach, LocalRead, WriteDone, RemoteData,
              RemoteEOF, RemoteError, ShutdownDone, IdleExpire,
              SetIdleTimeout, ZitiClosed
<1>3. QED
  BY <1>1, <1>2

LEMMA NextIInv == IInv /\ [Next]_vars => IInv'
<1> SUFFICES ASSUME IInv, [Next]_vars PROVE IInv'
  OBVIOUS
<1>0. /\ TypeCounts /\ TypeFlags /\ ReadControl /\ BufferOwnership
      /\ HalfCloseStateMachine /\ Fresh
  BY DEF IInv
<1> HIDE DEF IInv
<1>1. CASE Attach
  <2>0. /\ state = "unbridged"
        /\ UNCHANGED <<ziti_eof, input_eof, input_throttle, close_write,
                       shutdown_req, writes, pool_out, zin, idle_timeout,
                       idler, crashed>>
        /\ AttachEffect
    <3>1. state = "unbridged" /\ closed = FALSE
      BY <1>1, <1>0 DEF Attach, Fresh, TypeFlags, TypeBools
    <3>2. QED
      BY <1>1, <3>1, AttachEffectHolds DEF Attach
  <2>1. TypeCounts'
    BY <2>0, <1>0 DEF TypeCounts, Fresh
  <2>2. TypeFlags'
    <3>1. TypeStates'
      BY <2>0, <1>0 DEF TypeStates, TypeFlags, Reasons, AttachEffect
    <3>2. TypeBools'
      BY <2>0, <1>0 DEF TypeBools, TypeFlags, AttachEffect
    <3>3. QED
      BY <3>1, <3>2 DEF TypeFlags
  <2>3. ReadControl'
    BY <2>0, <1>0 DEF ReadControl, Fresh, AttachEffect
  <2>4. BufferOwnership'
    BY <2>0, <1>0 DEF BufferOwnership, Fresh, AttachEffect
  <2>5. HalfCloseStateMachine'
    BY <2>0, <1>0 DEF HalfCloseStateMachine, Fresh, AttachEffect
  <2>6. Fresh'
    BY <2>0 DEF Fresh, AttachEffect
  <2>7. QED
    BY <2>1, <2>2, <2>3, <2>4, <2>5, <2>6 DEF IInv
<1>2. CASE LocalRead
  <2>0. /\ state = "bridged" /\ reading /\ ~closed
        /\ idler' \in BOOLEAN
        /\ UNCHANGED <<state, kind, ziti_eof, shutdown_req, zin, idle_timeout, crashed>>
    BY <1>2, <1>0 DEF LocalRead, ResetIdle, ReadControl, TypeFlags, TypeBools
  <2>1. CASE PoolHasRoom /\ input_throttle' = FALSE /\ InputData
    <3>0. /\ pool_out' = pool_out + 1 /\ pool_out < PoolSize
          /\ writes \in Nat /\ pool_out \in Nat /\ writes <= pool_out /\ pool_out = writes
          /\ UNCHANGED <<input_eof, close_write>>
      BY <2>0, <2>1, <1>0 DEF InputData, PoolHasRoom, TypeCounts, BufferOwnership
    <3>1. CASE writes' = writes + 1 /\ UNCHANGED <<closed, reading, zconn, closeReason>>
      <4>1. TypeCounts' /\ BufferOwnership'
        <5>1. writes' = writes + 1 /\ pool_out' = pool_out + 1 /\ ~closed' /\ idle_timeout' = idle_timeout
          BY <2>0, <3>0, <3>1
        <5>2. QED
          BY <5>1, <3>0, <1>0, PoolSizeAssumption DEF TypeCounts, BufferOwnership
      <4>2. TypeFlags'
        BY <2>0, <2>1, <3>0, <3>1, <1>0 DEF TypeFlags, TypeStates, TypeBools
      <4>3. ReadControl'
        BY <2>0, <2>1, <3>1 DEF ReadControl
      <4>4. HalfCloseStateMachine' /\ Fresh'
        BY <2>0, <3>0, <3>1, <1>0 DEF HalfCloseStateMachine, Fresh
      <4>5. QED
        BY <4>1, <4>2, <4>3, <4>4 DEF IInv
    <3>2. CASE CloseBridge("error") /\ UNCHANGED writes
      <4>0. closed' = TRUE /\ reading' = FALSE /\ zconn' = "closing" /\ closeReason' = "error"
        BY <2>0, <3>2 DEF CloseBridge
      <4>1. TypeCounts' /\ BufferOwnership'
        <5>1. writes' = writes /\ pool_out' = pool_out + 1 /\ idle_timeout' = idle_timeout
          BY <2>0, <3>0, <3>2
        <5>2. QED
          BY <5>1, <4>0, <3>0, <1>0, PoolSizeAssumption DEF TypeCounts, BufferOwnership
      <4>2. TypeFlags'
        <5>1. TypeStates'
          BY <2>0, <3>0, <4>0, <1>0 DEF TypeFlags, TypeStates, Reasons
        <5>2. TypeBools'
          <6>1. closed' \in BOOLEAN /\ reading' \in BOOLEAN
            BY <4>0
          <6>2. input_throttle' \in BOOLEAN
            BY <2>1
          <6>3. input_eof' \in BOOLEAN /\ close_write' \in BOOLEAN
            BY <3>0, <1>0 DEF TypeFlags, TypeBools
          <6>4. ziti_eof' \in BOOLEAN /\ crashed' \in BOOLEAN /\ idler' \in BOOLEAN
            BY <2>0, <1>0 DEF TypeFlags, TypeBools
          <6>5. QED
            BY <6>1, <6>2, <6>3, <6>4 DEF TypeBools
        <5>3. QED
          BY <5>1, <5>2 DEF TypeFlags
      <4>3. ReadControl'
        BY <4>0 DEF ReadControl
      <4>4. HalfCloseStateMachine' /\ Fresh'
        BY <2>0, <3>0, <3>2, <4>0, <1>0 DEF HalfCloseStateMachine, Fresh
      <4>5. QED
        BY <4>1, <4>2, <4>3, <4>4 DEF IInv
    <3>3. QED
      BY <2>1, <3>1, <3>2 DEF InputData
  <2>2. CASE PoolHasRoom /\ input_throttle' = FALSE /\ InputNone
    <3>1. TypeCounts'
      BY <2>0, <2>2, <1>0 DEF TypeCounts, BufferOwnership, TypeFlags, TypeBools, PoolHasRoom, InputNone
    <3>2. TypeFlags'
      <4>1. TypeStates'
        BY <2>0, <2>2, <1>0 DEF TypeStates, TypeFlags, HandleKinds, Reasons, PoolHasRoom, InputNone
      <4>2. TypeBools'
        BY <2>0, <2>2, <1>0 DEF TypeBools, TypeFlags, PoolHasRoom, InputNone
      <4>3. QED
        BY <4>1, <4>2 DEF TypeFlags
    <3>3. ReadControl'
      BY <2>0, <2>2, <1>0 DEF ReadControl, BufferOwnership, TypeCounts, Fresh, TypeFlags, TypeBools, PoolHasRoom, InputNone
    <3>4. BufferOwnership'
      BY <2>0, <2>2, <1>0 DEF BufferOwnership, Fresh, TypeCounts, TypeFlags, TypeBools, PoolHasRoom, InputNone
    <3>5. HalfCloseStateMachine'
      BY <2>0, <2>2, <1>0 DEF HalfCloseStateMachine, Fresh, PoolHasRoom, InputNone
    <3>6. Fresh'
      BY <2>0, <2>2, <1>0 DEF Fresh, PoolHasRoom, InputNone
    <3>7. QED
      BY <3>1, <3>2, <3>3, <3>4, <3>5, <3>6 DEF IInv
  <2>3. CASE PoolHasRoom /\ input_throttle' = FALSE /\ kind # "udp" /\ InputEOF
    <3>1. TypeCounts'
      BY <2>0, <2>3, <1>0 DEF TypeCounts, BufferOwnership, TypeFlags, TypeBools, PoolHasRoom, InputEOF, CloseBridge
    <3>2. TypeFlags'
      <4>1. TypeStates'
        BY <2>0, <2>3, <1>0 DEF TypeStates, TypeFlags, HandleKinds, Reasons, PoolHasRoom, InputEOF, CloseBridge
      <4>2. TypeBools'
        BY <2>0, <2>3, <1>0 DEF TypeBools, TypeFlags, PoolHasRoom, InputEOF, CloseBridge
      <4>3. QED
        BY <4>1, <4>2 DEF TypeFlags
    <3>3. ReadControl'
      BY <2>0, <2>3, <1>0 DEF ReadControl, BufferOwnership, TypeCounts, Fresh, TypeFlags, TypeBools, PoolHasRoom, InputEOF, CloseBridge
    <3>4. BufferOwnership'
      BY <2>0, <2>3, <1>0 DEF BufferOwnership, Fresh, TypeCounts, TypeFlags, TypeBools, PoolHasRoom, InputEOF, CloseBridge
    <3>5. HalfCloseStateMachine'
      BY <2>0, <2>3, <1>0 DEF HalfCloseStateMachine, Fresh, PoolHasRoom, InputEOF, CloseBridge
    <3>6. Fresh'
      BY <2>0, <2>3, <1>0 DEF Fresh, PoolHasRoom, InputEOF, CloseBridge
    <3>7. QED
      BY <3>1, <3>2, <3>3, <3>4, <3>5, <3>6 DEF IInv
  <2>4. CASE PoolHasRoom /\ input_throttle' = FALSE /\ InputError
    <3>1. TypeCounts'
      BY <2>0, <2>4, <1>0 DEF TypeCounts, BufferOwnership, TypeFlags, TypeBools, PoolHasRoom, InputError, CloseBridge
    <3>2. TypeFlags'
      <4>1. TypeStates'
        BY <2>0, <2>4, <1>0 DEF TypeStates, TypeFlags, HandleKinds, Reasons, PoolHasRoom, InputError, CloseBridge
      <4>2. TypeBools'
        BY <2>0, <2>4, <1>0 DEF TypeBools, TypeFlags, PoolHasRoom, InputError, CloseBridge
      <4>3. QED
        BY <4>1, <4>2 DEF TypeFlags
    <3>3. ReadControl'
      BY <2>0, <2>4, <1>0 DEF ReadControl, BufferOwnership, TypeCounts, Fresh, TypeFlags, TypeBools, PoolHasRoom, InputError, CloseBridge
    <3>4. BufferOwnership'
      BY <2>0, <2>4, <1>0 DEF BufferOwnership, Fresh, TypeCounts, TypeFlags, TypeBools, PoolHasRoom, InputError, CloseBridge
    <3>5. HalfCloseStateMachine'
      BY <2>0, <2>4, <1>0 DEF HalfCloseStateMachine, Fresh, PoolHasRoom, InputError, CloseBridge
    <3>6. Fresh'
      BY <2>0, <2>4, <1>0 DEF Fresh, PoolHasRoom, InputError, CloseBridge
    <3>7. QED
      BY <3>1, <3>2, <3>3, <3>4, <3>5, <3>6 DEF IInv
  <2>5. CASE ~PoolHasRoom /\ InputNoBufs
    <3>1. TypeCounts'
      BY <2>0, <2>5, <1>0 DEF TypeCounts, BufferOwnership, TypeFlags, TypeBools, PoolHasRoom, InputNoBufs
    <3>2. TypeFlags'
      <4>1. TypeStates'
        BY <2>0, <2>5, <1>0 DEF TypeStates, TypeFlags, HandleKinds, Reasons, PoolHasRoom, InputNoBufs
      <4>2. TypeBools'
        BY <2>0, <2>5, <1>0 DEF TypeBools, TypeFlags, PoolHasRoom, InputNoBufs
      <4>3. QED
        BY <4>1, <4>2 DEF TypeFlags
    <3>3. ReadControl'
      <4>1. pool_out = PoolSize /\ writes = PoolSize
        BY <2>0, <2>5, <1>0 DEF TypeCounts, BufferOwnership, PoolHasRoom
      <4>2. ~input_throttle
        BY <2>0, <1>0 DEF ReadControl
      <4>3. input_throttle' /\ ~reading' /\ UNCHANGED <<closed, writes>>
        BY <2>5, <4>2 DEF InputNoBufs
      <4>4. QED
        BY <4>1, <4>3 DEF ReadControl
    <3>4. BufferOwnership'
      BY <2>0, <2>5, <1>0 DEF BufferOwnership, Fresh, TypeCounts, TypeFlags, TypeBools, PoolHasRoom, InputNoBufs
    <3>5. HalfCloseStateMachine'
      BY <2>0, <2>5, <1>0 DEF HalfCloseStateMachine, Fresh, PoolHasRoom, InputNoBufs
    <3>6. Fresh'
      BY <2>0, <2>5, <1>0 DEF Fresh, PoolHasRoom, InputNoBufs
    <3>7. QED
      BY <3>1, <3>2, <3>3, <3>4, <3>5, <3>6 DEF IInv
  <2>6. QED
    BY <1>2, <2>1, <2>2, <2>3, <2>4, <2>5 DEF LocalRead
<1>3. CASE WriteDone
  <2>0. /\ writes > 0 /\ zconn # "closed"
        /\ writes' = writes - 1 /\ pool_out' = pool_out - 1
        /\ UNCHANGED <<state, kind, ziti_eof, input_eof, close_write, shutdown_req,
                       zin, idle_timeout, idler, crashed>>
    BY <1>3 DEF WriteDone
  <2>1. CASE CloseBridge("error") /\ UNCHANGED input_throttle
    <3>1. TypeCounts'
      BY <2>0, <2>1, <1>0 DEF TypeCounts, BufferOwnership, TypeFlags, TypeBools, CloseBridge
    <3>2. TypeFlags'
      <4>1. TypeStates'
        BY <2>0, <2>1, <1>0 DEF TypeStates, TypeFlags, HandleKinds, Reasons, CloseBridge
      <4>2. TypeBools'
        BY <2>0, <2>1, <1>0 DEF TypeBools, TypeFlags, CloseBridge
      <4>3. QED
        BY <4>1, <4>2 DEF TypeFlags
    <3>3. ReadControl'
      BY <2>0, <2>1, <1>0 DEF ReadControl, BufferOwnership, TypeCounts, Fresh, TypeFlags, TypeBools, CloseBridge
    <3>4. BufferOwnership'
      BY <2>0, <2>1, <1>0 DEF BufferOwnership, Fresh, TypeCounts, TypeFlags, TypeBools, CloseBridge
    <3>5. HalfCloseStateMachine'
      BY <2>0, <2>1, <1>0 DEF HalfCloseStateMachine, Fresh, CloseBridge
    <3>6. Fresh'
      BY <2>0, <2>1, <1>0 DEF Fresh, CloseBridge
    <3>7. QED
      BY <3>1, <3>2, <3>3, <3>4, <3>5, <3>6 DEF IInv
  <2>2. CASE ResumeInput /\ ~closed /\ input_throttle
    <3>0. input_throttle' = FALSE
      BY <2>2 DEF ResumeInput
    <3>1. CASE reading' = TRUE /\ UNCHANGED <<closed, zconn, closeReason>>
      <4>1. TypeCounts'
        BY <2>0, <2>2, <3>0, <3>1, <1>0 DEF TypeCounts, BufferOwnership, TypeFlags, TypeBools
      <4>2. TypeFlags'
        <5>1. TypeStates'
          BY <2>0, <2>2, <3>0, <3>1, <1>0 DEF TypeStates, TypeFlags, HandleKinds, Reasons
        <5>2. TypeBools'
          BY <2>0, <2>2, <3>0, <3>1, <1>0 DEF TypeBools, TypeFlags
        <5>3. QED
          BY <5>1, <5>2 DEF TypeFlags
      <4>3. ReadControl'
        BY <2>0, <2>2, <3>0, <3>1, <1>0 DEF ReadControl, BufferOwnership, TypeCounts, Fresh, TypeFlags, TypeBools
      <4>4. BufferOwnership'
        BY <2>0, <2>2, <3>0, <3>1, <1>0 DEF BufferOwnership, Fresh, TypeCounts, TypeFlags, TypeBools
      <4>5. HalfCloseStateMachine'
        BY <2>0, <2>2, <3>0, <3>1, <1>0 DEF HalfCloseStateMachine, Fresh
      <4>6. Fresh'
        BY <2>0, <2>2, <3>0, <3>1, <1>0 DEF Fresh
      <4>7. QED
        BY <4>1, <4>2, <4>3, <4>4, <4>5, <4>6 DEF IInv
    <3>2. CASE CloseBridge("error")
      <4>1. TypeCounts'
        BY <2>0, <2>2, <3>0, <3>2, <1>0 DEF TypeCounts, BufferOwnership, TypeFlags, TypeBools, CloseBridge
      <4>2. TypeFlags'
        <5>1. TypeStates'
          BY <2>0, <2>2, <3>0, <3>2, <1>0 DEF TypeStates, TypeFlags, HandleKinds, Reasons, CloseBridge
        <5>2. TypeBools'
          BY <2>0, <2>2, <3>0, <3>2, <1>0 DEF TypeBools, TypeFlags, CloseBridge
        <5>3. QED
          BY <5>1, <5>2 DEF TypeFlags
      <4>3. ReadControl'
        BY <2>0, <2>2, <3>0, <3>2, <1>0 DEF ReadControl, BufferOwnership, TypeCounts, Fresh, TypeFlags, TypeBools, CloseBridge
      <4>4. BufferOwnership'
        BY <2>0, <2>2, <3>0, <3>2, <1>0 DEF BufferOwnership, Fresh, TypeCounts, TypeFlags, TypeBools, CloseBridge
      <4>5. HalfCloseStateMachine'
        BY <2>0, <2>2, <3>0, <3>2, <1>0 DEF HalfCloseStateMachine, Fresh, CloseBridge
      <4>6. Fresh'
        BY <2>0, <2>2, <3>0, <3>2, <1>0 DEF Fresh, CloseBridge
      <4>7. QED
        BY <4>1, <4>2, <4>3, <4>4, <4>5, <4>6 DEF IInv
    <3>3. QED
      BY <2>2, <3>1, <3>2 DEF ResumeInput
  <2>3. CASE ResumeInput /\ ~(~closed /\ input_throttle)
    <3>1. TypeCounts'
      BY <2>0, <2>3, <1>0 DEF TypeCounts, BufferOwnership, TypeFlags, TypeBools, ResumeInput
    <3>2. TypeFlags'
      <4>1. TypeStates'
        BY <2>0, <2>3, <1>0 DEF TypeStates, TypeFlags, HandleKinds, Reasons, ResumeInput
      <4>2. TypeBools'
        BY <2>0, <2>3, <1>0 DEF TypeBools, TypeFlags, ResumeInput
      <4>3. QED
        BY <4>1, <4>2 DEF TypeFlags
    <3>3. ReadControl'
      BY <2>0, <2>3, <1>0 DEF ReadControl, BufferOwnership, TypeCounts, Fresh, TypeFlags, TypeBools, ResumeInput
    <3>4. BufferOwnership'
      BY <2>0, <2>3, <1>0 DEF BufferOwnership, Fresh, TypeCounts, TypeFlags, TypeBools, ResumeInput
    <3>5. HalfCloseStateMachine'
      BY <2>0, <2>3, <1>0 DEF HalfCloseStateMachine, Fresh, ResumeInput
    <3>6. Fresh'
      BY <2>0, <2>3, <1>0 DEF Fresh, ResumeInput
    <3>7. QED
      BY <3>1, <3>2, <3>3, <3>4, <3>5, <3>6 DEF IInv
  <2>4. QED
    BY <1>3, <2>1, <2>2, <2>3 DEF WriteDone
<1>4. CASE RemoteData
  <2>1. TypeCounts'
    BY <1>4, <1>0 DEF TypeCounts, BufferOwnership, TypeFlags, TypeBools, RemoteData, RemoteCanDeliver, CloseBridge, ResetIdle
  <2>2. TypeFlags'
    <3>1. TypeStates'
      BY <1>4, <1>0 DEF TypeStates, TypeFlags, HandleKinds, Reasons, RemoteData, RemoteCanDeliver, CloseBridge, ResetIdle
    <3>2. TypeBools'
      BY <1>4, <1>0 DEF TypeBools, TypeFlags, RemoteData, RemoteCanDeliver, CloseBridge, ResetIdle
    <3>3. QED
      BY <3>1, <3>2 DEF TypeFlags
  <2>3. ReadControl'
    BY <1>4, <1>0 DEF ReadControl, BufferOwnership, TypeCounts, Fresh, TypeFlags, TypeBools, RemoteData, RemoteCanDeliver, CloseBridge, ResetIdle
  <2>4. BufferOwnership'
    BY <1>4, <1>0 DEF BufferOwnership, Fresh, TypeCounts, TypeFlags, TypeBools, RemoteData, RemoteCanDeliver, CloseBridge, ResetIdle
  <2>5. HalfCloseStateMachine'
    BY <1>4, <1>0 DEF HalfCloseStateMachine, Fresh, RemoteData, RemoteCanDeliver, CloseBridge, ResetIdle
  <2>6. Fresh'
    BY <1>4, <1>0 DEF Fresh, RemoteData, RemoteCanDeliver, CloseBridge, ResetIdle
  <2>7. QED
    BY <2>1, <2>2, <2>3, <2>4, <2>5, <2>6 DEF IInv
<1>5. CASE RemoteEOF
  <2>1. TypeCounts'
    BY <1>5, <1>0 DEF TypeCounts, BufferOwnership, TypeFlags, TypeBools, RemoteEOF, RemoteCanDeliver, CloseBridge, ResetIdle
  <2>2. TypeFlags'
    <3>1. TypeStates'
      BY <1>5, <1>0 DEF TypeStates, TypeFlags, HandleKinds, Reasons, RemoteEOF, RemoteCanDeliver, CloseBridge, ResetIdle
    <3>2. TypeBools'
      BY <1>5, <1>0 DEF TypeBools, TypeFlags, RemoteEOF, RemoteCanDeliver, CloseBridge, ResetIdle
    <3>3. QED
      BY <3>1, <3>2 DEF TypeFlags
  <2>3. ReadControl'
    BY <1>5, <1>0 DEF ReadControl, BufferOwnership, TypeCounts, Fresh, TypeFlags, TypeBools, RemoteEOF, RemoteCanDeliver, CloseBridge, ResetIdle
  <2>4. BufferOwnership'
    BY <1>5, <1>0 DEF BufferOwnership, Fresh, TypeCounts, TypeFlags, TypeBools, RemoteEOF, RemoteCanDeliver, CloseBridge, ResetIdle
  <2>5. HalfCloseStateMachine'
    BY <1>5, <1>0 DEF HalfCloseStateMachine, Fresh, RemoteEOF, RemoteCanDeliver, CloseBridge, ResetIdle
  <2>6. Fresh'
    BY <1>5, <1>0 DEF Fresh, RemoteEOF, RemoteCanDeliver, CloseBridge, ResetIdle
  <2>7. QED
    BY <2>1, <2>2, <2>3, <2>4, <2>5, <2>6 DEF IInv
<1>6. CASE RemoteError
  <2>1. TypeCounts'
    BY <1>6, <1>0 DEF TypeCounts, BufferOwnership, TypeFlags, TypeBools, RemoteError, RemoteCanDeliver, CloseBridge, ResetIdle
  <2>2. TypeFlags'
    <3>1. TypeStates'
      BY <1>6, <1>0 DEF TypeStates, TypeFlags, HandleKinds, Reasons, RemoteError, RemoteCanDeliver, CloseBridge, ResetIdle
    <3>2. TypeBools'
      BY <1>6, <1>0 DEF TypeBools, TypeFlags, RemoteError, RemoteCanDeliver, CloseBridge, ResetIdle
    <3>3. QED
      BY <3>1, <3>2 DEF TypeFlags
  <2>3. ReadControl'
    BY <1>6, <1>0 DEF ReadControl, BufferOwnership, TypeCounts, Fresh, TypeFlags, TypeBools, RemoteError, RemoteCanDeliver, CloseBridge, ResetIdle
  <2>4. BufferOwnership'
    BY <1>6, <1>0 DEF BufferOwnership, Fresh, TypeCounts, TypeFlags, TypeBools, RemoteError, RemoteCanDeliver, CloseBridge, ResetIdle
  <2>5. HalfCloseStateMachine'
    BY <1>6, <1>0 DEF HalfCloseStateMachine, Fresh, RemoteError, RemoteCanDeliver, CloseBridge, ResetIdle
  <2>6. Fresh'
    BY <1>6, <1>0 DEF Fresh, RemoteError, RemoteCanDeliver, CloseBridge, ResetIdle
  <2>7. QED
    BY <2>1, <2>2, <2>3, <2>4, <2>5, <2>6 DEF IInv
<1>7. CASE ShutdownDone
  <2>1. TypeCounts'
    BY <1>7, <1>0 DEF TypeCounts, BufferOwnership, TypeFlags, TypeBools, ShutdownDone, CloseBridge
  <2>2. TypeFlags'
    <3>1. TypeStates'
      BY <1>7, <1>0 DEF TypeStates, TypeFlags, HandleKinds, Reasons, ShutdownDone, CloseBridge
    <3>2. TypeBools'
      BY <1>7, <1>0 DEF TypeBools, TypeFlags, ShutdownDone, CloseBridge
    <3>3. QED
      BY <3>1, <3>2 DEF TypeFlags
  <2>3. ReadControl'
    BY <1>7, <1>0 DEF ReadControl, BufferOwnership, TypeCounts, Fresh, TypeFlags, TypeBools, ShutdownDone, CloseBridge
  <2>4. BufferOwnership'
    BY <1>7, <1>0 DEF BufferOwnership, Fresh, TypeCounts, TypeFlags, TypeBools, ShutdownDone, CloseBridge
  <2>5. HalfCloseStateMachine'
    BY <1>7, <1>0 DEF HalfCloseStateMachine, Fresh, ShutdownDone, CloseBridge
  <2>6. Fresh'
    BY <1>7, <1>0 DEF Fresh, ShutdownDone, CloseBridge
  <2>7. QED
    BY <2>1, <2>2, <2>3, <2>4, <2>5, <2>6 DEF IInv
<1>8. CASE IdleExpire
  <2>1. TypeCounts'
    BY <1>8, <1>0 DEF TypeCounts, BufferOwnership, TypeFlags, TypeBools, IdleExpire, CloseBridge
  <2>2. TypeFlags'
    <3>1. TypeStates'
      BY <1>8, <1>0 DEF TypeStates, TypeFlags, HandleKinds, Reasons, IdleExpire, CloseBridge
    <3>2. TypeBools'
      BY <1>8, <1>0 DEF TypeBools, TypeFlags, IdleExpire, CloseBridge
    <3>3. QED
      BY <3>1, <3>2 DEF TypeFlags
  <2>3. ReadControl'
    BY <1>8, <1>0 DEF ReadControl, BufferOwnership, TypeCounts, Fresh, TypeFlags, TypeBools, IdleExpire, CloseBridge
  <2>4. BufferOwnership'
    BY <1>8, <1>0 DEF BufferOwnership, Fresh, TypeCounts, TypeFlags, TypeBools, IdleExpire, CloseBridge
  <2>5. HalfCloseStateMachine'
    BY <1>8, <1>0 DEF HalfCloseStateMachine, Fresh, IdleExpire, CloseBridge
  <2>6. Fresh'
    BY <1>8, <1>0 DEF Fresh, IdleExpire, CloseBridge
  <2>7. QED
    BY <2>1, <2>2, <2>3, <2>4, <2>5, <2>6 DEF IInv
<1>9. CASE SetIdleTimeout
  <2>1. TypeCounts'
    BY <1>9, <1>0 DEF TypeCounts, BufferOwnership, TypeFlags, TypeBools, SetIdleTimeout
  <2>2. TypeFlags'
    <3>1. TypeStates'
      BY <1>9, <1>0 DEF TypeStates, TypeFlags, HandleKinds, Reasons, SetIdleTimeout
    <3>2. TypeBools'
      BY <1>9, <1>0 DEF TypeBools, TypeFlags, SetIdleTimeout
    <3>3. QED
      BY <3>1, <3>2 DEF TypeFlags
  <2>3. ReadControl'
    BY <1>9, <1>0 DEF ReadControl, BufferOwnership, TypeCounts, Fresh, TypeFlags, TypeBools, SetIdleTimeout
  <2>4. BufferOwnership'
    BY <1>9, <1>0 DEF BufferOwnership, Fresh, TypeCounts, TypeFlags, TypeBools, SetIdleTimeout
  <2>5. HalfCloseStateMachine'
    BY <1>9, <1>0 DEF HalfCloseStateMachine, Fresh, SetIdleTimeout
  <2>6. Fresh'
    BY <1>9, <1>0 DEF Fresh, SetIdleTimeout
  <2>7. QED
    BY <2>1, <2>2, <2>3, <2>4, <2>5, <2>6 DEF IInv
<1>10. CASE ZitiClosed
  <2>1. TypeCounts'
    BY <1>10, <1>0 DEF TypeCounts, BufferOwnership, TypeFlags, TypeBools, ZitiClosed
  <2>2. TypeFlags'
    <3>1. TypeStates'
      BY <1>10, <1>0 DEF TypeStates, TypeFlags, HandleKinds, Reasons, ZitiClosed
    <3>2. TypeBools'
      BY <1>10, <1>0 DEF TypeBools, TypeFlags, ZitiClosed
    <3>3. QED
      BY <3>1, <3>2 DEF TypeFlags
  <2>3. ReadControl'
    BY <1>10, <1>0 DEF ReadControl, BufferOwnership, TypeCounts, Fresh, TypeFlags, TypeBools, ZitiClosed
  <2>4. BufferOwnership'
    BY <1>10, <1>0 DEF BufferOwnership, Fresh, TypeCounts, TypeFlags, TypeBools, ZitiClosed
  <2>5. HalfCloseStateMachine'
    BY <1>10, <1>0 DEF HalfCloseStateMachine, Fresh, ZitiClosed
  <2>6. Fresh'
    BY <1>10, <1>0 DEF Fresh, ZitiClosed
  <2>7. QED
    BY <2>1, <2>2, <2>3, <2>4, <2>5, <2>6 DEF IInv
<1>11. CASE UNCHANGED vars
  <2>1. TypeCounts' /\ TypeStates' /\ TypeBools'
    BY <1>11, <1>0 DEF vars, TypeCounts, TypeFlags, TypeStates, TypeBools
  <2>2. ReadControl' /\ BufferOwnership' /\ HalfCloseStateMachine' /\ Fresh'
    BY <1>11, <1>0 DEF vars, ReadControl, BufferOwnership, HalfCloseStateMachine, Fresh
  <2>3. QED
    BY <2>1, <2>2 DEF IInv, TypeFlags
<1>12. QED
  BY <1>0, <1>1, <1>2, <1>3, <1>4, <1>5, <1>6, <1>7, <1>8, <1>9, <1>10, <1>11
  DEF Next, IInv

(* The strengthened invariant holds in every reachable state of the bridge. *)
THEOREM IInvHolds == Spec => []IInv
<1>1. Init => IInv
  BY InitIInv
<1>2. IInv /\ [Next]_vars => IInv'
  BY NextIInv
<1>3. QED
  BY <1>1, <1>2, PTL DEF Spec

(* Every field of the bridge keeps its type: the counters of submitted      *)
(* ziti_write calls and of pool buffers stay within 0..BRIDGE_POOL_SIZE.    *)
THEOREM TypeCorrect == Spec => []TypeOK
<1>1. Init => TypeAttach
  BY DEF Init, TypeAttach, AttachResults
<1>2. TypeAttach /\ IInv /\ [Next]_vars => TypeAttach'
  BY NextTypeAttach
<1>3. IInv /\ TypeAttach => TypeOK
  BY TypeSplit DEF IInv
<1>4. QED
  BY <1>1, <1>2, <1>3, IInvHolds, PTL DEF Spec

(* on_input / on_udp_input stop reading when throttled or closed, and the   *)
(* throttle is only set while every pool buffer is held by a pending write. *)
THEOREM ReadControlHolds == Spec => []ReadControl
<1>1. IInv => ReadControl
  BY DEF IInv
<1>2. QED
  BY <1>1, IInvHolds, PTL

(* Until close_bridge runs, every buffer taken from the pool is held by a   *)
(* pending ziti_write, and on_ziti_write never returns more than was taken. *)
THEOREM BufferOwnershipHolds == Spec => []BufferOwnership
<1>1. IInv => BufferOwnership
  BY DEF IInv
<1>2. QED
  BY <1>1, IInvHolds, PTL

(* The half-close protocol of on_input / on_ziti_data: a write-side close   *)
(* follows a local EOF, uv_shutdown follows a remote EOF on a stream, and   *)
(* once both directions have ended the bridge is closed.                   *)
THEOREM HalfCloseHolds == Spec => []HalfCloseStateMachine
<1>1. IInv => HalfCloseStateMachine
  BY DEF IInv
<1>2. QED
  BY <1>1, IInvHolds, PTL

=============================================================================
