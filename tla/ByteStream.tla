----------------------------- MODULE ByteStream -----------------------------
(***************************************************************************)
(* What the stream-link adapter promises the consumer of a tlsuv source:   *)
(* the bytes it reads are the bytes the remote peer sent, in order, each   *)
(* once (a prefix of the stream at every moment), and the end it reads is  *)
(* the end the peer sent (end of stream or error), after every byte        *)
(* before it.  Bytes are counted: the i-th byte read is the i-th sent.     *)
(* ZitiSrc implements this specification under the mapping given there.   *)
(***************************************************************************)
EXTENDS Naturals

VARIABLES
  sent,     \* bytes the remote peer sent
  got,      \* bytes the consumer has read
  peerEnd,  \* how the peer ended its stream: "open", "eof", "error"
  seenEnd   \* the end the consumer has read: "none", "eof", "error"

bsvars == <<sent, got, peerEnd, seenEnd>>

StreamInit ==
  /\ sent = 0 /\ got = 0
  /\ peerEnd = "open" /\ seenEnd = "none"

(* The peer sends a byte, then ends the stream one way or the other.      *)
Send ==
  /\ peerEnd = "open"
  /\ sent' = sent + 1
  /\ UNCHANGED <<got, peerEnd, seenEnd>>

End ==
  /\ peerEnd = "open"
  /\ peerEnd' \in {"eof", "error"}
  /\ UNCHANGED <<sent, got, seenEnd>>

(* The consumer reads the next n bytes: never one that was not sent.      *)
Deliver ==
  /\ seenEnd = "none"
  /\ \E n \in 1..(sent - got) : got' = got + n
  /\ UNCHANGED <<sent, peerEnd, seenEnd>>

(* The consumer reads the end once, and only after every byte.            *)
DeliverEnd ==
  /\ seenEnd = "none" /\ peerEnd # "open"
  /\ got = sent
  /\ seenEnd' = peerEnd
  /\ UNCHANGED <<sent, got, peerEnd>>

StreamNext == Send \/ End \/ Deliver \/ DeliverEnd

StreamSpec == StreamInit /\ [][StreamNext]_bsvars

=============================================================================
