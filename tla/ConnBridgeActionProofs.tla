------------------------ MODULE ConnBridgeActionProofs ------------------------
(***************************************************************************)
(* Proof of the action property ResumeOnlyOnCompletion of ConnBridge for   *)
(* every pool size and set of idle timeouts: once bridged, reading         *)
(* restarts only in on_ziti_write.  The step alone does not show that the  *)
(* restarted stream had not ended; that rests on EOFStopsReading, an       *)
(* invariant proved here together with IInv.                               *)
(***************************************************************************)
EXTENDS ConnBridgeProofs, TLAPS

(* After on_input saw UV_EOF the input is neither read nor throttled, so   *)
(* no on_ziti_write can restart it.                                        *)
EOFStopsReading == input_eof = TRUE => reading = FALSE /\ input_throttle = FALSE

LEMMA InitEOF == Init => EOFStopsReading
  BY DEF Init, EOFStopsReading

(* Every step keeps a stream that ended stopped and unthrottled.           *)
LEMMA NextEOF == IInv /\ EOFStopsReading /\ [Next]_vars => EOFStopsReading'
<1> SUFFICES ASSUME IInv, EOFStopsReading, [Next]_vars
             PROVE  EOFStopsReading'
  OBVIOUS
<1>0. TypeFlags /\ ReadControl /\ Fresh
  BY DEF IInv
<1>1. CASE Attach
  BY <1>1, <1>0 DEF Attach, Fresh, EOFStopsReading
<1>2. CASE LocalRead
  <2>1. reading = TRUE /\ closed = FALSE /\ input_eof = FALSE
    BY <1>2, <1>0 DEF LocalRead, ReadControl, EOFStopsReading,
                      TypeFlags, TypeBools
  <2>2. CASE PoolHasRoom /\ input_throttle' = FALSE /\ InputEOF
    <3>1. reading' = FALSE
      BY <2>1, <2>2 DEF InputEOF, CloseBridge
    <3>2. QED
      BY <2>2, <3>1 DEF EOFStopsReading
  <2>3. CASE PoolHasRoom /\ (InputData \/ InputNone \/ InputError)
    BY <2>1, <2>3 DEF InputData, InputNone, InputError, EOFStopsReading
  <2>4. CASE ~PoolHasRoom /\ InputNoBufs
    BY <2>1, <2>4 DEF InputNoBufs, EOFStopsReading
  <2>5. QED
    BY <1>2, <2>2, <2>3, <2>4 DEF LocalRead
<1>3. CASE WriteDone
  <2>1. UNCHANGED input_eof
    BY <1>3 DEF WriteDone
  <2>2. CASE CloseBridge("error") /\ UNCHANGED input_throttle
    BY <2>1, <2>2 DEF CloseBridge, EOFStopsReading
  <2>3. CASE ResumeInput
    BY <2>1, <2>3 DEF ResumeInput, CloseBridge, EOFStopsReading
  <2>4. QED
    BY <1>3, <2>2, <2>3 DEF WriteDone
<1>4. CASE RemoteData
  BY <1>4 DEF RemoteData, CloseBridge, EOFStopsReading
<1>5. CASE RemoteEOF
  BY <1>5 DEF RemoteEOF, CloseBridge, EOFStopsReading
<1>6. CASE RemoteError
  BY <1>6 DEF RemoteError, CloseBridge, EOFStopsReading
<1>7. CASE ShutdownDone
  BY <1>7 DEF ShutdownDone, CloseBridge, EOFStopsReading
<1>8. CASE IdleExpire
  BY <1>8 DEF IdleExpire, CloseBridge, EOFStopsReading
<1>9. CASE SetIdleTimeout
  BY <1>9 DEF SetIdleTimeout, EOFStopsReading
<1>10. CASE ZitiClosed
  BY <1>10 DEF ZitiClosed, EOFStopsReading
<1>11. CASE UNCHANGED vars
  BY <1>11 DEF vars, EOFStopsReading
<1>12. QED
  BY <1>1, <1>2, <1>3, <1>4, <1>5, <1>6, <1>7, <1>8, <1>9, <1>10, <1>11
  DEF Next

(* The body of ResumeOnlyOnCompletion.                                     *)
ResumeStep ==
  state = "bridged" /\ ~reading /\ reading' =>
    /\ input_throttle /\ ~input_throttle'
    /\ ~closed /\ ~input_eof
    /\ pool_out' = pool_out - 1

(* A step that restarts reading on a bridged input is on_ziti_write's      *)
(* resume: every other handler leaves reading alone, stops it, or runs     *)
(* only while reading.                                                     *)
LEMMA NextResume == IInv /\ EOFStopsReading /\ [Next]_vars => ResumeStep
<1> SUFFICES ASSUME IInv, EOFStopsReading, [Next]_vars,
                    state = "bridged", ~reading, reading'
             PROVE  /\ input_throttle /\ ~input_throttle'
                    /\ ~closed /\ ~input_eof
                    /\ pool_out' = pool_out - 1
  BY DEF ResumeStep
<1>1. CASE WriteDone
  <2>1. pool_out' = pool_out - 1
    BY <1>1 DEF WriteDone
  <2>2. CASE CloseBridge("error") /\ UNCHANGED input_throttle
    BY <2>2 DEF CloseBridge
  <2>3. CASE ResumeInput
    <3>1. closed = FALSE /\ input_throttle = TRUE /\ input_throttle' = FALSE
      BY <2>3 DEF ResumeInput, CloseBridge, IInv, TypeFlags, TypeBools
    <3>2. ~input_eof
      BY <3>1 DEF EOFStopsReading, IInv, TypeFlags, TypeBools
    <3>3. QED
      BY <2>1, <3>1, <3>2
  <2>4. QED
    BY <1>1, <2>2, <2>3 DEF WriteDone
<1>2. CASE ~WriteDone
  <2>1. CASE Attach
    BY <2>1 DEF Attach
  <2>2. CASE LocalRead
    BY <2>2 DEF LocalRead
  <2>3. CASE RemoteData \/ RemoteError \/ IdleExpire \/ ShutdownDone
    BY <2>3 DEF RemoteData, RemoteError, IdleExpire, ShutdownDone, CloseBridge
  <2>4. CASE RemoteEOF
    BY <2>4 DEF RemoteEOF, CloseBridge
  <2>5. CASE SetIdleTimeout \/ ZitiClosed \/ UNCHANGED vars
    BY <2>5 DEF SetIdleTimeout, ZitiClosed, vars
  <2>6. QED
    BY <1>2, <2>1, <2>2, <2>3, <2>4, <2>5 DEF Next
<1>3. QED
  BY <1>1, <1>2

(* Spec 8.3 / 5 for every pool size and set of idle timeouts: once        *)
(* bridged, the input is read again only by on_ziti_write returning a      *)
(* buffer on an open, throttled bridge whose input had not ended.          *)
THEOREM ResumeOnlyOnCompletionHolds == Spec => ResumeOnlyOnCompletion
<1>1. Init => IInv /\ EOFStopsReading
  BY InitIInv, InitEOF
<1>2. IInv /\ EOFStopsReading /\ [Next]_vars => IInv' /\ EOFStopsReading'
  BY NextIInv, NextEOF
<1>3. IInv /\ EOFStopsReading /\ [Next]_vars => [ResumeStep]_vars
  BY NextResume
<1>4. QED
  BY <1>1, <1>2, <1>3, PTL DEF Spec, ResumeOnlyOnCompletion, ResumeStep

=============================================================================
