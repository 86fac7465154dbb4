---------------------------- MODULE FrameChannel ----------------------------
(***************************************************************************)
(* What a CCAT frame ring promises the two ends that share it: a first-in *)
(* first-out channel of frames.  Frames are numbered in arrival order; the *)
(* consumer takes the oldest one and either hands it on (out) or loses it *)
(* (lost), and a reset of the ring discards every frame still in it.     *)
(*                                                                         *)
(* The rx ring is such a channel from the CCAT (arrival: a reception) to  *)
(* netif_rx (out) with dev_alloc_skb failures as losses; the tx ring is   *)
(* one from ccat_eth_start_xmit (arrival: a publication) to the wire.     *)
(* CCATEthRefinement maps both rings onto this module.                    *)
(***************************************************************************)
EXTENDS Naturals, Sequences

VARIABLES
  arrived,  \* frames that entered the channel so far
  queue,    \* frames in the channel, oldest first
  out,      \* frames handed on by the consumer, in order
  lost      \* frames the consumer took and discarded

vars == <<arrived, queue, out, lost>>

Init ==
  /\ arrived = 0 /\ queue = <<>> /\ out = <<>> /\ lost = 0

(* The producer puts the next frame at the back of the channel.           *)
Arrive ==
  /\ arrived' = arrived + 1
  /\ queue' = Append(queue, arrived + 1)
  /\ UNCHANGED <<out, lost>>

(* The consumer hands on the oldest frame.                                *)
Deliver ==
  /\ queue # <<>>
  /\ out' = Append(out, Head(queue))
  /\ queue' = Tail(queue)
  /\ UNCHANGED <<arrived, lost>>

(* The consumer takes the oldest frame and drops it.                      *)
Discard ==
  /\ queue # <<>>
  /\ queue' = Tail(queue)
  /\ lost' = lost + 1
  /\ UNCHANGED <<arrived, out>>

(* A reset of the ring: every frame still in the channel is discarded.    *)
Flush ==
  /\ queue' = <<>>
  /\ UNCHANGED <<arrived, out, lost>>

Next == Arrive \/ Deliver \/ Discard \/ Flush

Spec == Init /\ [][Next]_vars

(* The channel is first-in first-out: every frame the consumer hands on  *)
(* arrived after the one it handed on before, so no frame is handed on    *)
(* twice or overtaken.                                                    *)
OutInOrder == \A i \in 1 .. Len(out) - 1 : out[i] < out[i + 1]

=============================================================================
