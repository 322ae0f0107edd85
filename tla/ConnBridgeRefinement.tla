------------------------- MODULE ConnBridgeRefinement -------------------------
(***************************************************************************)
(* Proof that ConnBridge implements BridgeSession under the mapping        *)
(* Session of ConnBridge, for every pool size, set of idle timeouts and    *)
(* either behaviour of the Ziti connection after ziti_close.  Each step of *)
(* the bridge is a session step or a stutter; which one depends on facts  *)
(* the invariants of ConnBridgeProofs do not state: which values zconn and *)
(* closeReason take while the bridge is open, and that nothing happens    *)
(* before a successful attach.  RInv states them.                          *)
(***************************************************************************)
EXTENDS ConnBridgeProofs, TLAPS

(* ziti_close is issued exactly when close_bridge runs and on_ziti_close  *)
(* is what frees br; a reason is recorded exactly when close_bridge ran;  *)
(* a bridge that was refused or never attached holds no request, flag or  *)
(* end of stream, and a bridge never attached has no handle kind yet.     *)
RInv ==
  /\ (zconn = "open") <=> (closed = FALSE)
  /\ (zconn = "closed") <=> (state = "freed")
  /\ (closeReason = "none") <=> (closed = FALSE)
  /\ state \in {"unbridged", "refused"} =>
       /\ writes = 0 /\ shutdown_req = "none"
       /\ closed = FALSE /\ reading = FALSE
       /\ input_eof = FALSE /\ ziti_eof = FALSE
  /\ state = "unbridged" => kind = "other"

LEMMA InitRInv == Init => RInv
  BY DEF Init, RInv

(* Every step of the bridge preserves RInv.                                *)
LEMMA NextRInv == IInv /\ RInv /\ [Next]_vars => RInv'
<1> SUFFICES ASSUME IInv, RInv, [Next]_vars PROVE RInv'
  OBVIOUS
<1>0. TypeCounts /\ TypeFlags /\ Fresh /\ ReadControl
  BY DEF IInv
<1>1. CASE Attach
  <2>1. state = "unbridged" /\ closed = FALSE
    BY <1>1 DEF Attach, RInv
  <2>2. AttachEffect
    BY <1>1, <2>1, AttachEffectHolds
  <2>3. UNCHANGED <<ziti_eof, input_eof, shutdown_req, writes>>
    BY <1>1 DEF Attach
  <2>4. state' \in {"refused", "bridged"}
    BY <2>2 DEF AttachEffect
  <2>5. QED
    BY <2>1, <2>2, <2>3, <2>4 DEF AttachEffect, RInv
<1>2. CASE LocalRead
  <2>1. state = "bridged" /\ state' = "bridged" /\ UNCHANGED kind
    BY <1>2 DEF LocalRead
  <2>2. (zconn' = "open" <=> closed' = FALSE)
        /\ (closeReason' = "none" <=> closed' = FALSE)
        /\ zconn' # "closed"
    BY <1>2, <1>0 DEF LocalRead, RInv, InputData, InputNone, InputEOF,
                      InputError, InputNoBufs, CloseBridge, TypeFlags, TypeBools
  <2>3. QED
    BY <2>1, <2>2 DEF RInv
<1>3. CASE WriteDone
  <2>1. state = "bridged"
    BY <1>3, <1>0 DEF WriteDone, RInv, TypeCounts, TypeFlags, TypeStates
  <2>2. (zconn' = "open" <=> closed' = FALSE)
        /\ (closeReason' = "none" <=> closed' = FALSE)
        /\ zconn' # "closed"
    BY <1>3, <1>0 DEF WriteDone, RInv, ResumeInput, CloseBridge,
                      TypeFlags, TypeBools
  <2>3. QED
    BY <1>3, <2>1, <2>2 DEF WriteDone, RInv
<1>4. CASE RemoteData
  BY <1>4, <1>0 DEF RemoteData, RemoteCanDeliver, RInv, CloseBridge,
                    TypeFlags, TypeBools
<1>5. CASE RemoteEOF
  <2>1. state = "bridged" /\ UNCHANGED <<state, kind>>
    BY <1>5 DEF RemoteEOF, RemoteCanDeliver
  <2>2. (zconn' = "open" <=> closed' = FALSE)
        /\ (closeReason' = "none" <=> closed' = FALSE)
        /\ zconn' # "closed"
    BY <1>5, <1>0 DEF RemoteEOF, RemoteCanDeliver, RInv, CloseBridge,
                      TypeFlags, TypeBools
  <2>3. QED
    BY <2>1, <2>2 DEF RInv
<1>6. CASE RemoteError
  BY <1>6, <1>0 DEF RemoteError, RemoteCanDeliver, RInv, CloseBridge,
                    TypeFlags, TypeBools
<1>7. CASE ShutdownDone
  BY <1>7, <1>0 DEF ShutdownDone, RInv, CloseBridge, TypeFlags, TypeBools
<1>8. CASE IdleExpire
  BY <1>8, <1>0 DEF IdleExpire, RInv, CloseBridge, TypeFlags, TypeBools
<1>9. CASE SetIdleTimeout
  BY <1>9 DEF SetIdleTimeout, RInv
<1>10. CASE ZitiClosed
  BY <1>10 DEF ZitiClosed, RInv
<1>11. CASE UNCHANGED vars
  BY <1>11 DEF vars, RInv
<1>12. QED
  BY <1>1, <1>2, <1>3, <1>4, <1>5, <1>6, <1>7, <1>8, <1>9, <1>10, <1>11
  DEF Next

(* Both invariants together hold in every reachable state.                 *)
LEMMA RInvHolds == Spec => [](IInv /\ RInv)
<1>1. Init => IInv /\ RInv
  BY InitIInv, InitRInv
<1>2. IInv /\ RInv /\ [Next]_vars => IInv' /\ RInv'
  BY NextIInv, NextRInv
<1>3. QED
  BY <1>1, <1>2, PTL DEF Spec

(* The mapped session state of the bridge.                                 *)
AbsVars == <<SessionPhase, input_eof, ziti_eof, closeReason, kind = "udp">>

(* A close_bridge on an open bridge is a teardown for its reason, and on a *)
(* closed one a stutter of the session.                                    *)
LEMMA CloseBridgeStep ==
  ASSUME NEW r \in {"error", "idle"}, IInv, RInv, state = "bridged",
         CloseBridge(r), UNCHANGED <<state, kind, input_eof, ziti_eof>>
  PROVE  [Session!SessionNext]_AbsVars
<1>0. closed \in BOOLEAN
  BY DEF IInv, TypeFlags, TypeBools
<1>1. CASE closed = FALSE
  <2>1. Session!Fail(r)
    BY <1>1 DEF CloseBridge, Session!Fail, Session!Teardown, SessionPhase
  <2>2. QED
    BY <2>1 DEF Session!SessionNext
<1>2. CASE closed = TRUE
  BY <1>2 DEF CloseBridge, AbsVars, SessionPhase
<1>3. QED
  BY <1>0, <1>1, <1>2

(* Every step of the bridge is a step of the session or leaves the mapped  *)
(* state unchanged.                                                        *)
LEMMA NextRefines ==
  IInv /\ RInv /\ [Next]_vars => [Session!SessionNext]_AbsVars
<1> SUFFICES ASSUME IInv, RInv, [Next]_vars
             PROVE  [Session!SessionNext]_AbsVars
  OBVIOUS
<1>0. TypeCounts /\ TypeFlags /\ ReadControl /\ HalfCloseStateMachine
  BY DEF IInv
<1>1. CASE Attach
  <2>1. state = "unbridged" /\ closed = FALSE /\ closeReason = "none"
        /\ UNCHANGED <<input_eof, ziti_eof>>
    BY <1>1 DEF Attach, RInv
  <2>2. AttachEffect
    BY <1>1, <2>1, AttachEffectHolds
  <2>3. Session!Open
    BY <2>1, <2>2 DEF AttachEffect, Session!Open, Session!Teardown, SessionPhase
  <2>4. QED
    BY <2>3 DEF Session!SessionNext
<1>2. CASE LocalRead
  <2>1. state = "bridged" /\ closed = FALSE /\ UNCHANGED <<state, kind, ziti_eof>>
    BY <1>2, <1>0 DEF LocalRead, ReadControl, TypeFlags, TypeBools
  <2>2. CASE PoolHasRoom /\ InputEOF /\ kind # "udp"
    <3>1. Session!LocalEnd
      BY <2>1, <2>2, <1>0 DEF InputEOF, CloseBridge, Session!LocalEnd,
                              Session!Teardown, SessionPhase, TypeFlags, TypeBools
    <3>2. QED
      BY <3>1 DEF Session!SessionNext
  <2>3. CASE PoolHasRoom /\ (InputData \/ InputError)
    BY <2>1, <2>3, CloseBridgeStep DEF InputData, InputError, AbsVars,
                                       SessionPhase
  <2>4. CASE (PoolHasRoom /\ InputNone) \/ (~PoolHasRoom /\ InputNoBufs)
    BY <2>1, <2>4 DEF InputNone, InputNoBufs, AbsVars, SessionPhase
  <2>5. QED
    BY <1>2, <2>2, <2>3, <2>4 DEF LocalRead
<1>3. CASE WriteDone
  <2>1. state = "bridged" /\ UNCHANGED <<state, kind, input_eof, ziti_eof>>
    BY <1>3, <1>0 DEF WriteDone, RInv, TypeCounts, TypeFlags, TypeStates
  <2>2. CASE CloseBridge("error")
    BY <2>1, <2>2, CloseBridgeStep
  <2>3. CASE ResumeInput
    <3>1. CASE ~closed /\ input_throttle /\ CloseBridge("error")
      BY <2>1, <3>1, CloseBridgeStep
    <3>2. CASE UNCHANGED <<closed, closeReason>>
      BY <2>1, <3>2 DEF AbsVars, SessionPhase
    <3>3. QED
      BY <2>3, <3>1, <3>2 DEF ResumeInput
  <2>4. QED
    BY <1>3, <2>2, <2>3 DEF WriteDone
<1>4. CASE RemoteData
  <2>1. state = "bridged" /\ UNCHANGED <<state, kind, input_eof, ziti_eof>>
    BY <1>4 DEF RemoteData, RemoteCanDeliver
  <2>2. QED
    BY <1>4, <2>1, CloseBridgeStep DEF RemoteData, AbsVars, SessionPhase
<1>5. CASE RemoteEOF
  <2>1. state = "bridged" /\ UNCHANGED <<state, kind, input_eof>>
        /\ ziti_eof' = TRUE
    BY <1>5 DEF RemoteEOF, RemoteCanDeliver
  <2>2. closed \in BOOLEAN /\ input_eof \in BOOLEAN
    BY <1>0 DEF TypeFlags, TypeBools
  <2>3. CASE closed = TRUE
    <3>1. UNCHANGED <<closed, closeReason>>
      BY <1>5, <2>3 DEF RemoteEOF, CloseBridge
    <3>2. Session!RemoteEnd
      BY <2>1, <2>3, <3>1 DEF Session!RemoteEnd, SessionPhase
    <3>3. QED
      BY <3>2 DEF Session!SessionNext
  <2>4. CASE closed = FALSE
    <3>1. Session!RemoteEnd
      BY <1>5, <2>1, <2>4 DEF RemoteEOF, CloseBridge, Session!RemoteEnd,
                              Session!Teardown, SessionPhase
    <3>2. QED
      BY <3>1 DEF Session!SessionNext
  <2>5. QED
    BY <2>2, <2>3, <2>4
<1>6. CASE RemoteError
  BY <1>6, CloseBridgeStep DEF RemoteError, RemoteCanDeliver
<1>7. CASE ShutdownDone
  <2>1. CASE UNCHANGED <<closed, closeReason>>
    BY <1>7, <2>1 DEF ShutdownDone, AbsVars, SessionPhase
  <2>2. CASE closed = FALSE /\ CloseBridge("error")
    <3>1. state = "bridged"
      BY <1>7, <2>2, <1>0 DEF ShutdownDone, RInv, TypeFlags, TypeStates
    <3>2. QED
      BY <1>7, <2>2, <3>1, CloseBridgeStep DEF ShutdownDone
  <2>3. QED
    BY <1>7, <2>1, <2>2, <1>0 DEF ShutdownDone, TypeFlags, TypeBools
<1>8. CASE IdleExpire
  BY <1>8, CloseBridgeStep DEF IdleExpire
<1>9. CASE SetIdleTimeout
  BY <1>9 DEF SetIdleTimeout, AbsVars, SessionPhase
<1>10. CASE ZitiClosed
  <2>1. state = "bridged" /\ closed = TRUE
    BY <1>10, <1>0 DEF ZitiClosed, RInv, TypeFlags, TypeStates
  <2>2. Session!Release
    BY <1>10, <2>1 DEF ZitiClosed, Session!Release, SessionPhase
  <2>3. QED
    BY <2>2 DEF Session!SessionNext
<1>11. CASE UNCHANGED vars
  BY <1>11 DEF vars, AbsVars, SessionPhase
<1>12. QED
  BY <1>1, <1>2, <1>3, <1>4, <1>5, <1>6, <1>7, <1>8, <1>9, <1>10, <1>11
  DEF Next

(* The bridge implements the session state machine (spec 4.3, 8.1-8.2)   *)
(* for every pool size, set of idle timeouts and behaviour of the Ziti    *)
(* connection after ziti_close: close_bridge tears down at most once, for *)
(* both ends of stream (one on UDP), an error or idleness, and            *)
(* on_ziti_close frees only a closed bridge.                              *)
THEOREM RefinementHolds == Spec => ImplementsSession
<1>1. Init => Session!SessionInit
  BY DEF Init, Session!SessionInit, SessionPhase
<1>2. IInv /\ RInv /\ [Next]_vars => [Session!SessionNext]_AbsVars
  BY NextRefines
<1>3. QED
  BY <1>1, <1>2, RInvHolds, PTL
  DEF Spec, ImplementsSession, Session!SessionSpec, Session!svars, AbsVars

=============================================================================
