-------------------------- MODULE MCThroughputClient --------------------------
\* A small instance of ThroughputClient for TLC.
EXTENDS ThroughputClient

CONSTANTS d1, d2, c1, c2    \* payloads and their commitments

MCData            == {d1, d2}
MCCommitments     == {c1, c2}
MCShareCommitment == [d \in Data |-> IF d = d1 THEN c1 ELSE c2]
=============================================================================
