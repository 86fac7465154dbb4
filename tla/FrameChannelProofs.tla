------------------------- MODULE FrameChannelProofs -------------------------
(***************************************************************************)
(* Proof that a FrameChannel hands frames on in arrival order.  The       *)
(* frames in the channel are increasing, newer than the last one handed   *)
(* on, and no newer than the last arrival; each action keeps the three.   *)
(***************************************************************************)
EXTENDS FrameChannel, SequenceTheorems, TLAPS

Last(s) == s[Len(s)]

ChannelInv ==
  /\ arrived \in Nat /\ lost \in Nat
  /\ queue \in Seq(Nat) /\ out \in Seq(Nat)
  /\ OutInOrder
  /\ \A i \in 1 .. Len(queue) - 1 : queue[i] < queue[i + 1]
  /\ out # <<>> /\ queue # <<>> => Last(out) < queue[1]
  /\ \A i \in 1 .. Len(queue) : queue[i] <= arrived
  /\ out # <<>> => Last(out) <= arrived

(* Appending a value above the last element keeps a sequence in order.    *)
LEMMA AppendInOrder ==
  ASSUME NEW s \in Seq(Nat), NEW v \in Nat,
         \A i \in 1 .. Len(s) - 1 : s[i] < s[i + 1],
         s # <<>> => s[Len(s)] < v
  PROVE  LET t == Append(s, v) IN
           /\ t \in Seq(Nat) /\ Len(t) = Len(s) + 1 /\ t[Len(t)] = v
           /\ \A i \in 1 .. Len(t) - 1 : t[i] < t[i + 1]
<1>1. /\ Append(s, v) \in Seq(Nat) /\ Len(Append(s, v)) = Len(s) + 1
      /\ \A i \in 1 .. Len(s) : Append(s, v)[i] = s[i]
      /\ Append(s, v)[Len(s) + 1] = v
  BY AppendProperties
<1>2. s # <<>> => Len(s) \in Nat \ {0}
  BY EmptySeq
<1>. QED
  BY <1>1, <1>2

(* The tail of a sequence in order is in order and starts above its head. *)
LEMMA TailInOrder ==
  ASSUME NEW s \in Seq(Nat), s # <<>>,
         \A i \in 1 .. Len(s) - 1 : s[i] < s[i + 1]
  PROVE  /\ Tail(s) \in Seq(Nat) /\ Len(Tail(s)) = Len(s) - 1
         /\ \A i \in 1 .. Len(Tail(s)) - 1 : Tail(s)[i] < Tail(s)[i + 1]
         /\ Tail(s) # <<>> => s[1] < Tail(s)[1]
         /\ \A i \in 1 .. Len(Tail(s)) : Tail(s)[i] = s[i + 1]
<1>1. /\ Tail(s) \in Seq(Nat) /\ Len(Tail(s)) = Len(s) - 1
      /\ \A i \in 1 .. Len(Tail(s)) : Tail(s)[i] = s[i + 1]
  BY HeadTailProperties
<1>2. Tail(s) # <<>> => Len(Tail(s)) \in Nat \ {0}
  BY <1>1, EmptySeq
<1>. QED
  BY <1>1, <1>2

(* Every reachable state of a FrameChannel satisfies ChannelInv.          *)
LEMMA ChannelInvariant == Spec => []ChannelInv
<1>1. Init => ChannelInv
  BY EmptySeq DEF Init, ChannelInv, OutInOrder
<1>2. ChannelInv /\ [Next]_vars => ChannelInv'
  <2>. SUFFICES ASSUME ChannelInv, [Next]_vars PROVE ChannelInv'
    OBVIOUS
  <2>1. CASE Arrive
    <3>1. /\ queue' \in Seq(Nat) /\ Len(queue') = Len(queue) + 1
          /\ queue'[Len(queue')] = arrived + 1
          /\ \A i \in 1 .. Len(queue') - 1 : queue'[i] < queue'[i + 1]
      <4>1. queue # <<>> => queue[Len(queue)] < arrived + 1
        BY EmptySeq DEF ChannelInv
      <4>. QED
        BY <2>1, <4>1, AppendInOrder DEF Arrive, ChannelInv
    <3>2. \A i \in 1 .. Len(queue) : queue'[i] = queue[i]
      BY <2>1, AppendProperties DEF Arrive, ChannelInv
    <3>3. queue' # <<>> /\ queue'[1] \in Nat
      BY <3>1, EmptySeq
    <3>4. out # <<>> /\ queue' # <<>> => Last(out) < queue'[1]
      <4>1. CASE queue = <<>>
        <5>1. queue'[1] = arrived + 1
          BY <3>1, <4>1, EmptySeq
        <5>. QED
          BY <5>1 DEF ChannelInv, Last
      <4>2. CASE queue # <<>>
        BY <3>2, <4>2, EmptySeq DEF ChannelInv
      <4>. QED
        BY <4>1, <4>2
    <3>5. \A i \in 1 .. Len(queue') : queue'[i] <= arrived'
      BY <2>1, <3>1, <3>2 DEF Arrive, ChannelInv
    <3>6. /\ arrived' \in Nat /\ lost' \in Nat /\ out' \in Seq(Nat)
          /\ OutInOrder' /\ (out' # <<>> => Last(out') <= arrived')
      <4>1. out # <<>> => Last(out) \in Nat
        BY EmptySeq DEF ChannelInv, Last
      <4>. QED
        BY <2>1, <4>1 DEF Arrive, ChannelInv, OutInOrder, Last
    <3>7. out' # <<>> /\ queue' # <<>> => Last(out') < queue'[1]
      BY <2>1, <3>4 DEF Arrive, Last
    <3>. QED
      BY <3>1, <3>5, <3>6, <3>7 DEF ChannelInv
  <2>2. CASE Deliver
    <3>1. queue \in Seq(Nat) /\ queue # <<>>
      BY <2>2 DEF Deliver, ChannelInv
    <3>2. /\ Tail(queue) \in Seq(Nat) /\ Len(Tail(queue)) = Len(queue) - 1
          /\ \A i \in 1 .. Len(Tail(queue)) - 1 :
               Tail(queue)[i] < Tail(queue)[i + 1]
          /\ Tail(queue) # <<>> => queue[1] < Tail(queue)[1]
          /\ \A i \in 1 .. Len(Tail(queue)) : Tail(queue)[i] = queue[i + 1]
      BY <3>1, TailInOrder DEF ChannelInv
    <3>3. Head(queue) = queue[1] /\ queue[1] \in Nat /\ queue[1] <= arrived
      BY <3>1, EmptySeq DEF ChannelInv
    <3>4. /\ out' \in Seq(Nat) /\ Len(out') = Len(out) + 1
          /\ out'[Len(out')] = queue[1]
          /\ \A i \in 1 .. Len(out') - 1 : out'[i] < out'[i + 1]
      <4>1. out # <<>> => out[Len(out)] < queue[1]
        BY <3>1 DEF ChannelInv, Last
      <4>. QED
        BY <2>2, <3>3, <4>1, AppendInOrder DEF Deliver, ChannelInv, OutInOrder
    <3>5. out' # <<>> /\ Last(out') = queue[1]
      BY <3>4, EmptySeq DEF Last
    <3>6. \A i \in 1 .. Len(queue') : queue'[i] <= arrived
      BY <2>2, <3>1, <3>2 DEF Deliver, ChannelInv
    <3>. QED
      BY <2>2, <3>2, <3>3, <3>4, <3>5, <3>6 DEF Deliver, ChannelInv, OutInOrder
  <2>3. CASE Discard
    <3>1. queue \in Seq(Nat) /\ queue # <<>>
      BY <2>3 DEF Discard, ChannelInv
    <3>2. /\ Tail(queue) \in Seq(Nat) /\ Len(Tail(queue)) = Len(queue) - 1
          /\ \A i \in 1 .. Len(Tail(queue)) - 1 :
               Tail(queue)[i] < Tail(queue)[i + 1]
          /\ Tail(queue) # <<>> => queue[1] < Tail(queue)[1]
          /\ \A i \in 1 .. Len(Tail(queue)) : Tail(queue)[i] = queue[i + 1]
      BY <3>1, TailInOrder DEF ChannelInv
    <3>3. out # <<>> /\ Tail(queue) # <<>> => Last(out) < Tail(queue)[1]
      <4>1. queue[1] \in Nat /\ (out # <<>> => Last(out) \in Nat)
        BY <3>1, EmptySeq DEF ChannelInv, Last
      <4>. QED
        BY <3>1, <3>2, <4>1 DEF ChannelInv
    <3>4. \A i \in 1 .. Len(queue') : queue'[i] <= arrived
      BY <2>3, <3>1, <3>2 DEF Discard, ChannelInv
    <3>. QED
      BY <2>3, <3>2, <3>3, <3>4 DEF Discard, ChannelInv, OutInOrder
  <2>4. CASE Flush
    BY <2>4, EmptySeq DEF Flush, ChannelInv, OutInOrder
  <2>5. CASE UNCHANGED vars
    BY <2>5 DEF vars, ChannelInv, OutInOrder, Last
  <2>. QED
    BY <2>1, <2>2, <2>3, <2>4, <2>5 DEF Next
<1>. QED
  BY <1>1, <1>2, PTL DEF Spec

(* A FrameChannel hands its frames on in arrival order (OutInOrder).      *)
LEMMA ChannelInOrder == Spec => []OutInOrder
BY ChannelInvariant, PTL DEF ChannelInv
=============================================================================
