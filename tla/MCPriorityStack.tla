--------------------------- MODULE MCPriorityStack ---------------------------
\* PriorityStack with the cards of an admitted scenario, chosen by the cfg.
EXTENDS PriorityStackInvariant, Scenarios
=============================================================================
