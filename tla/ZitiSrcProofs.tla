---------------------------- MODULE ZitiSrcProofs ----------------------------
(***************************************************************************)
(* Proofs about the stream-link adapter (ZitiSrc).  The byte accounting of *)
(* zlnf_data_cb is proved for every bound: the counters alone are not      *)
(* inductive (got' = got + n stays within MaxBytes only because got never  *)
(* exceeds sent), so the type of the counters and StreamIntegrity are      *)
(* proved together.                                                        *)
(***************************************************************************)
EXTENDS ZitiSrc, TLAPS

(* The counters and their relation.                                        *)
Counts ==
  /\ sent \in 0..MaxBytes /\ buffered \in 0..MaxBytes /\ got \in 0..MaxBytes
  /\ writes \in 0..MaxWrites /\ issued \in 0..MaxWrites
  /\ leakedReqs \in 0..MaxWrites
  /\ writes + leakedReqs <= issued
  /\ StreamIntegrity

(* The state fields.                                                       *)
Fields ==
  /\ link \in {"live", "released"}
  /\ service \in {"none", "set"}
  /\ conn \in ConnStates
  /\ peer \in {"open", "eof", "error"}
  /\ consumerEnd \in {"none", "eof", "error"}
  /\ ub \in BOOLEAN /\ uaf \in BOOLEAN

IInv == Counts /\ Fields

USE BoundsAssumption

(* What zlnf_data_cb copies from a non-empty chunk into a non-empty        *)
(* buffer: at least one byte, at most the chunk and at most the buffer.   *)
LEMMA MinOfRange ==
  ASSUME NEW a \in Nat, NEW b \in Nat, a > 0, b > 0
  PROVE  MinOf(a, b) \in 1..a /\ MinOf(a, b) <= b
  BY DEF MinOf

LEMMA IInvTypeOK == IInv => TypeOK /\ StreamIntegrity
  BY DEF IInv, Counts, Fields, TypeOK

LEMMA InitIInv == Init => IInv
<1> SUFFICES ASSUME Init PROVE IInv
  OBVIOUS
<1>1. Counts
  BY DEF Init, Counts, StreamIntegrity
<1>2. Fields
  BY DEF Init, Fields, ConnStates
<1>3. QED
  BY <1>1, <1>2 DEF IInv

(* Every action keeps the state fields in their sets.                      *)
LEMMA NextFields == Fields /\ [Next]_vars => Fields'
<1> SUFFICES ASSUME Fields, [Next]_vars PROVE Fields'
  OBVIOUS
<1>1. CASE Connect
  BY <1>1 DEF Connect, Fields, ConnStates
<1>2. CASE ConnCb
  BY <1>2 DEF ConnCb, Fields, ConnStates
<1>3. CASE DataCb
  BY <1>3 DEF DataCb, Fields
<1>4. CASE DataCbEnd
  BY <1>4 DEF DataCbEnd, Fields
<1>5. CASE Write
  BY <1>5 DEF Write, Fields
<1>6. CASE WriteCb
  BY <1>6 DEF WriteCb, Fields
<1>7. CASE Close
  BY <1>7 DEF Close, Fields, ConnStates
<1>8. CASE Release
  BY <1>8 DEF Release, Fields
<1>9. CASE PeerSend
  BY <1>9 DEF PeerSend, Fields
<1>10. CASE PeerEnd
  BY <1>10 DEF PeerEnd, Fields
<1>11. CASE UNCHANGED vars
  BY <1>11 DEF vars, Fields
<1>12. QED
  BY <1>1, <1>2, <1>3, <1>4, <1>5, <1>6, <1>7, <1>8, <1>9, <1>10, <1>11 DEF Next

(* Every action keeps the counters in range and the byte accounting exact. *)
LEMMA NextCounts == Counts /\ [Next]_vars => Counts'
<1> SUFFICES ASSUME Counts, [Next]_vars PROVE Counts'
  OBVIOUS
<1>1. CASE Connect
  BY <1>1 DEF Connect, Counts, StreamIntegrity
<1>2. CASE ConnCb
  BY <1>2 DEF ConnCb, Counts, StreamIntegrity
<1>3. CASE DataCb
  <2>1. PICK avail \in 0..MaxAlloc :
          IF avail = 0
          THEN UNCHANGED <<got, buffered>>
          ELSE /\ got' = got + MinOf(buffered, avail)
               /\ buffered' = buffered - MinOf(buffered, avail)
    BY <1>3 DEF DataCb
  <2>2. UNCHANGED <<sent, writes, issued, leakedReqs>>
    BY <1>3 DEF DataCb
  <2>3. CASE avail = 0
    BY <2>1, <2>2, <2>3 DEF Counts, StreamIntegrity
  <2>4. CASE avail # 0
    <3>1. MinOf(buffered, avail) \in 1..buffered
      BY <2>4, <1>3, MinOfRange DEF DataCb, Counts
    <3>2. QED
      BY <2>1, <2>2, <2>4, <3>1 DEF Counts, StreamIntegrity
  <2>5. QED
    BY <2>3, <2>4
<1>4. CASE DataCbEnd
  BY <1>4 DEF DataCbEnd, Counts, StreamIntegrity
<1>5. CASE Write
  BY <1>5 DEF Write, Counts, StreamIntegrity
<1>6. CASE WriteCb
  BY <1>6 DEF WriteCb, Counts, StreamIntegrity
<1>7. CASE Close
  BY <1>7 DEF Close, Counts, StreamIntegrity
<1>8. CASE Release
  BY <1>8 DEF Release, Counts, StreamIntegrity
<1>9. CASE PeerSend
  BY <1>9 DEF PeerSend, Counts, StreamIntegrity
<1>10. CASE PeerEnd
  BY <1>10 DEF PeerEnd, Counts, StreamIntegrity
<1>11. CASE UNCHANGED vars
  BY <1>11 DEF vars, Counts, StreamIntegrity
<1>12. QED
  BY <1>1, <1>2, <1>3, <1>4, <1>5, <1>6, <1>7, <1>8, <1>9, <1>10, <1>11 DEF Next

(* zlnf_data_cb's byte accounting holds in every reachable state for every *)
(* bound on the bytes, buffer sizes and writes: no byte the peer sent is   *)
(* lost or delivered twice, however chunks are truncated.                  *)
THEOREM StreamIntegrityHolds == Spec => []StreamIntegrity
<1>1. Init => IInv
  BY InitIInv
<1>2. IInv /\ [Next]_vars => IInv'
  BY NextCounts, NextFields DEF IInv
<1>3. IInv => StreamIntegrity
  BY IInvTypeOK
<1>4. QED
  BY <1>1, <1>2, <1>3, PTL DEF Spec

(* The adapter's fields and counters keep their types: in particular no   *)
(* zlnf_write_cb completes a request that zl_write did not issue.          *)
THEOREM ZitiSrcTypeCorrect == Spec => []TypeOK
<1>1. Init => IInv
  BY InitIInv
<1>2. IInv /\ [Next]_vars => IInv'
  BY NextCounts, NextFields DEF IInv
<1>3. IInv => TypeOK
  BY IInvTypeOK
<1>4. QED
  BY <1>1, <1>2, <1>3, PTL DEF Spec

=============================================================================
