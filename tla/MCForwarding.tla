----------------------------- MODULE MCForwarding -----------------------------
(* Instances of Forwarding: one shard, one session, small buffers. *)
EXTENDS Forwarding, TLC

CONSTANTS sh1, s1, s2, c1

OneShard == {sh1}
TwoStreams == {s1, s2}
OneStream == {s1}
OneSession == {c1}
HomeOne == [c \in {c1} |-> sh1]
Redials == Permutations(TwoStreams)
=============================================================================
