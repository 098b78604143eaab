---------------------------- MODULE MCRunFilter ----------------------------
(***************************************************************************)
(* Instances of RunFilter.  Traders are interchangeable, and so are the    *)
(* handlers; no liveness is checked under the symmetry.                    *)
(***************************************************************************)
EXTENDS RunFilter, TLC

Symmetry == Permutations(Addr) \cup Permutations(Handlers)

\* The service starts at the configured block, and all events come after it:
\* of those before, no property of the indexer speaks.
FromGenesis ==
    /\ Init
    /\ head = Genesis
    /\ \A s \in Streams, e \in Event : blockOf[s][e] > Genesis

SpecFromGenesis == FromGenesis /\ [][Next]_vars
=============================================================================
