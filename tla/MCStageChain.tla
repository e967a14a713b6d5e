--------------------------- MODULE MCStageChain ---------------------------
\* A chain with one stage of each kind, in the order of the flow.
EXTENDS StageChain

MCKinds == <<"input", "tool", "spef", "sta", "calibre">>
=============================================================================
