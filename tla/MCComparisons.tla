--------------------------- MODULE MCComparisons ----------------------------
(***************************************************************************)
(* A graph, the throughput graph with its ratio to the first VM, and a     *)
(* RatioGraph of both; three VMs, compared as first and last two.          *)
(***************************************************************************)
EXTENDS Comparisons, TLC

CONSTANTS throughput, log, packets, ratio

MCGraphs   == <<throughput, log, packets, ratio>>
MCRatio    == ratio :> <<packets, throughput>>
MCSameData == log :> throughput
MCPairs    == <<<<2, 1>>, <<3, 2>>>>
=============================================================================
