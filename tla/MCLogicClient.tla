---------------------------- MODULE MCLogicClient ----------------------------
EXTENDS LogicClient, TLC

CONSTANTS sh1, sh2, s1, s2, s3

\* Two shards of which the first is dialed twice: its stream is replaced or
\* redialed while the other shard's stream comes and goes.
TwoShards == {sh1, sh2}
MCStreams == {s1, s2, s3}
TwoShardIdx == [s \in MCStreams |-> IF s = s3 THEN sh2 ELSE sh1]

\* One shard dialed three times.
OneShard == {sh1}
OneShardIdx == [s \in MCStreams |-> sh1]
Redials == Permutations(MCStreams)

\* Two shards dialed once each.
OnceStreams == {s1, s3}
OnceShardIdx == [s \in OnceStreams |-> IF s = s3 THEN sh2 ELSE sh1]
=============================================================================
