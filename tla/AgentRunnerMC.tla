--------------------------- MODULE AgentRunnerMC ---------------------------
(***************************************************************************)
(* Small instances of AgentRunner for TLC.                                 *)
(***************************************************************************)
EXTENDS AgentRunner, TLC

MCTasks == 1 .. MaxComments

\* Comments without a capture.
Uncaptured == {NoCapture}

\* Comments without a capture, made on the production page, or made on the
\* first preview, so that lineages fork.
Captured == {NoCapture, Production, 1}

\* Workers and flow slots are interchangeable: no action compares them.
WorkerSymmetry == Permutations(Workers) \cup Permutations(Flows)
=============================================================================
