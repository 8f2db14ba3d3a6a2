--------------------------- MODULE MCOrchestrator ---------------------------
EXTENDS Orchestrator, TLC
CONSTANTS post1, post2
Callers == Permutations({post1, post2})
=============================================================================
