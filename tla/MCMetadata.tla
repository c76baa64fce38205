------------------------------ MODULE MCMetadata ------------------------------
(* Small instances of MetadataOwner for TLC: one topic of one partition, two   *)
(* brokers, and the answers that tell the cases of a refresh apart.            *)
EXTENDS MetadataOwner

CONSTANTS b1, b2, topic, c1, c2

MCBrokers == {b1, b2}
MCTopics == {topic}
MCCalls == {c1, c2}

\* Calls are only compared.
CallSymmetry == Permutations(MCCalls)

Answer(brokers, controller, error, leader, epoch) ==
    [brokers |-> brokers, controller |-> controller, error |-> error,
     leaders |-> [p \in Partitions |-> [broker |-> leader, epoch |-> epoch]]]

\* Two controllers and leaders, a leader that regressed, a topic error, and a
\* leader outside the directory.
MCResponses ==
    {Answer(MCBrokers, b1, FALSE, b1, 1), Answer(MCBrokers, b2, FALSE, b2, 2),
     Answer(MCBrokers, b1, TRUE, NoBroker, 0), Answer({b2}, b2, FALSE, b1, 1)}

===============================================================================
