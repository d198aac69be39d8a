-------------------------- MODULE MCImportPipeline ---------------------------
(* Instances of ImportPipeline for TLC. *)
EXTENDS ImportPipeline, TLC

\* What the clients in the repository report: the device's progress up to the
\* upload, and the completion that accepting a plan performs.
ClientReports ==
  { <<"draft", "capturing">>, <<"capturing", "local_review">>,
    <<"local_review", "queued_upload">>, <<"queued_upload", "uploading">>,
    <<"uploading", "queued_upload">>, <<"needs_review", "completed">> }

\* Everything the status endpoint lets through.
EveryReport == Lifecycle!Transitions

Symmetry == Permutations(Workers) \cup Permutations(Requests)
              \cup Permutations(Runs) \cup Permutations(Readable)
=============================================================================
