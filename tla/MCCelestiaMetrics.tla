-------------------------- MODULE MCCelestiaMetrics --------------------------
(***************************************************************************)
(* Small instances of CelestiaMetrics, with the refinement, for TLC.       *)
(***************************************************************************)
EXTENDS CelestiaMetrics, CelestiaServerRefinement, TLC

\* Different data, different commitments: commitments are collision free.
MCShareCommitment == [d \in Data |-> d]

Symmetry == Permutations(Req) \cup Permutations(Data)

\* Full blob IDs, or compact ones in another mode without legacy objects.
FullBoth ==
    [available |-> TRUE, mode |-> "both", legacy |-> TRUE,
     compact |-> FALSE, metrics |-> TRUE]

CompactWriteThrough ==
    [FullBoth EXCEPT !.mode = "write_through", !.legacy = FALSE,
                     !.compact = TRUE]

MCSwitchTail == {FullBoth, CompactWriteThrough}
MCOneConfig  == {[FullBoth EXCEPT !.compact = TRUE]}
=============================================================================
