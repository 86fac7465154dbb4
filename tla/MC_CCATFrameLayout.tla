-------------------------- MODULE MC_CCATFrameLayout -------------------------
EXTENDS CCATFrameLayout

(* Windows of one to eight slots, and one that is not a slot multiple.    *)
MC_TxSizes == {FrameSize * i : i \in 1 .. 8} \cup {3000}
MC_RxSizes == {FrameSize, 4 * FrameSize}
(* Minimum Ethernet frame, full MTU, the largest payload and one below.  *)
MC_TxLens == {60, 1514, MaxPayloadSize - 1, MaxPayloadSize}
=============================================================================
