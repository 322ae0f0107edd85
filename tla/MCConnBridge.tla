---------------------------- MODULE MCConnBridge ----------------------------
(* Model-checking instance of ConnBridge: a pool of two buffers (enough   *)
(* for one buffer in flight while another is read, and for the throttle   *)
(* to engage with more than one completion to wait for), an idle timeout  *)
(* that is either disabled or set.                                         *)
EXTENDS ConnBridge

MCPoolSize == 2
MCIdleValues == {0, 5}
=============================================================================
