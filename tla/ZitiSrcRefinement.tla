-------------------------- MODULE ZitiSrcRefinement --------------------------
(***************************************************************************)
(* Proof that ZitiSrc implements ByteStream under the mapping Stream of    *)
(* ZitiSrc, for every bound on bytes, buffer sizes and writes.  A chunk    *)
(* zlnf_data_cb copies is the next part of the stream because of the byte  *)
(* accounting StreamIntegrity (proved in ZitiSrcProofs); that no data      *)
(* follows the end the consumer read needs EndSeen as well.                *)
(***************************************************************************)
EXTENDS ZitiSrcProofs, TLAPS

(* Once zlnf_data_cb has propagated an end, it is the peer's, and the Ziti *)
(* connection holds no byte that could still be delivered.                 *)
EndSeen == consumerEnd # "none" => consumerEnd = peer /\ buffered = 0

LEMMA InitEndSeen == Init => EndSeen
  BY DEF Init, EndSeen

(* Every step keeps EndSeen.                                               *)
LEMMA NextEndSeen == IInv /\ EndSeen /\ [Next]_vars => EndSeen'
<1> SUFFICES ASSUME IInv, EndSeen, [Next]_vars PROVE EndSeen'
  OBVIOUS
<1>1. CASE DataCb
  <2>1. buffered > 0 /\ UNCHANGED <<peer, consumerEnd>>
    BY <1>1 DEF DataCb
  <2>2. consumerEnd = "none"
    BY <2>1 DEF EndSeen
  <2>3. QED
    BY <2>1, <2>2 DEF EndSeen
<1>2. CASE DataCbEnd
  BY <1>2 DEF DataCbEnd, EndSeen
<1>3. CASE PeerSend \/ PeerEnd
  <2>1. peer = "open" /\ UNCHANGED consumerEnd
    BY <1>3 DEF PeerSend, PeerEnd
  <2>2. consumerEnd = "none"
    BY <2>1 DEF EndSeen, IInv, Fields
  <2>3. QED
    BY <2>1, <2>2 DEF EndSeen
<1>4. CASE Connect \/ ConnCb \/ Write \/ WriteCb \/ Close \/ Release
  BY <1>4 DEF Connect, ConnCb, Write, WriteCb, Close, Release, EndSeen
<1>5. CASE UNCHANGED vars
  BY <1>5 DEF vars, EndSeen
<1>6. QED
  BY <1>1, <1>2, <1>3, <1>4, <1>5 DEF Next

(* The mapped stream state of the adapter.                                 *)
StreamVars == <<sent, got, peer, consumerEnd>>

(* Every step of the adapter is a step of the byte stream or leaves the    *)
(* mapped state unchanged.                                                 *)
LEMMA NextRefines == IInv /\ EndSeen /\ [Next]_vars => [Stream!StreamNext]_StreamVars
<1> SUFFICES ASSUME IInv, EndSeen, [Next]_vars
             PROVE  [Stream!StreamNext]_StreamVars
  OBVIOUS
<1>0. Counts /\ Fields
  BY DEF IInv
<1>1. CASE DataCb
  <2>1. PICK avail \in 0..MaxAlloc :
          IF avail = 0
          THEN UNCHANGED <<got, buffered>>
          ELSE /\ got' = got + MinOf(buffered, avail)
               /\ buffered' = buffered - MinOf(buffered, avail)
    BY <1>1 DEF DataCb
  <2>2. buffered > 0 /\ UNCHANGED <<sent, peer, consumerEnd>>
    BY <1>1 DEF DataCb
  <2>3. CASE avail = 0
    BY <2>1, <2>2, <2>3 DEF StreamVars
  <2>4. CASE avail # 0
    <3>1. consumerEnd = "none"
      BY <2>2 DEF EndSeen
    <3>2. MinOf(buffered, avail) \in 1..(sent - got)
      <4>1. MinOf(buffered, avail) \in 1..buffered
        BY <2>2, <2>4, <1>0, MinOfRange DEF Counts
      <4>2. QED
        BY <4>1, <1>0 DEF Counts, StreamIntegrity
    <3>3. Stream!Deliver
      BY <2>1, <2>2, <2>4, <3>1, <3>2 DEF Stream!Deliver
    <3>4. QED
      BY <3>3 DEF Stream!StreamNext
  <2>5. QED
    BY <2>3, <2>4
<1>2. CASE DataCbEnd
  <2>1. got = sent
    BY <1>2, <1>0 DEF DataCbEnd, Counts, StreamIntegrity
  <2>2. Stream!DeliverEnd
    BY <1>2, <2>1 DEF DataCbEnd, Stream!DeliverEnd
  <2>3. QED
    BY <2>2 DEF Stream!StreamNext
<1>3. CASE PeerSend
  <2>1. Stream!Send
    BY <1>3 DEF PeerSend, Stream!Send
  <2>2. QED
    BY <2>1 DEF Stream!StreamNext
<1>4. CASE PeerEnd
  <2>1. Stream!End
    BY <1>4 DEF PeerEnd, Stream!End
  <2>2. QED
    BY <2>1 DEF Stream!StreamNext
<1>5. CASE Connect \/ ConnCb \/ Write \/ WriteCb \/ Close \/ Release
  BY <1>5 DEF Connect, ConnCb, Write, WriteCb, Close, Release, StreamVars
<1>6. CASE UNCHANGED vars
  BY <1>6 DEF vars, StreamVars
<1>7. QED
  BY <1>1, <1>2, <1>3, <1>4, <1>5, <1>6 DEF Next

(* zlnf_data_cb relays the peer's stream (spec 4.6) for every bound: the  *)
(* consumer reads a prefix of the bytes sent, in order and each once, and *)
(* then the peer's own end, UV_EOF or its error.                           *)
THEOREM ByteStreamRefinement == Spec => ImplementsByteStream
<1>1. Init => IInv /\ EndSeen
  BY InitIInv, InitEndSeen
<1>2. IInv /\ EndSeen /\ [Next]_vars => IInv' /\ EndSeen'
  BY NextCounts, NextFields, NextEndSeen DEF IInv
<1>3. Init => Stream!StreamInit
  BY DEF Init, Stream!StreamInit
<1>4. IInv /\ EndSeen /\ [Next]_vars => [Stream!StreamNext]_StreamVars
  BY NextRefines
<1>5. QED
  BY <1>1, <1>2, <1>3, <1>4, PTL
  DEF Spec, ImplementsByteStream, Stream!StreamSpec, Stream!bsvars, StreamVars

=============================================================================
