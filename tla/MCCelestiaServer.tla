-------------------------- MODULE MCCelestiaServer --------------------------
(***************************************************************************)
(* Small instances of CelestiaServer for TLC.                              *)
(***************************************************************************)
EXTENDS CelestiaServer, TLC

\* Different data, different commitments: commitments are collision free.
MCShareCommitment == [d \in Data |-> d]

Symmetry == Permutations(Req) \cup Permutations(Data)

\* Compact blob IDs and a fallback that is written and read.
CompactBoth ==
    [available |-> TRUE, mode |-> "both", legacy |-> TRUE,
     compact |-> TRUE, metrics |-> TRUE]

\* The fallback is only written, though legacy objects are read.
WriteThrough == [CompactBoth EXCEPT !.mode = "write_through", !.metrics = FALSE]

\* No fallback is configured: provider and mode are NoopProvider's and "".
FullNoFallback ==
    [available |-> FALSE, mode |-> "", legacy |-> FALSE,
     compact |-> FALSE, metrics |-> TRUE]

MCOneConfig     == {CompactBoth}
MCSwitchBackend == {WriteThrough, FullNoFallback}
=============================================================================
