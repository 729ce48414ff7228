------------------------ MODULE MCPriorityStackHistory ------------------------
\* PriorityStackHistory with the cards of an admitted scenario.
EXTENDS PriorityStackHistoryInvariant, Scenarios
=============================================================================
