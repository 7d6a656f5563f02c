--------------------------- MODULE LiveThreadsMC ---------------------------
(***************************************************************************)
(* Small instances of LiveThreads for TLC.                                 *)
(***************************************************************************)
EXTENDS LiveThreads

CONSTANTS own, other

MCThreads == {own, other}

\* A thread of this page, and one whose second version is this preview.
MCRelevantFrom == [t \in MCThreads |-> IF t = own THEN 1 ELSE 2]
=============================================================================
