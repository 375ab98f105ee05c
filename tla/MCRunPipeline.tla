---------------------------- MODULE MCRunPipeline ----------------------------
EXTENDS RunPipeline

\* The default plan, and one that repairs, and reviews what it delivers.
SomeRequests == {{"terminology", "model_review"}, {"repair", "export_review"}}
NoAgents     == {{}}
Pair == {1, 2}
One  == {1}
=============================================================================
