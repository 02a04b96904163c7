-------------------------- MODULE MCOfflineReports --------------------------
\* OfflineReports for TLC: pages, reports and flushes are interchangeable.
EXTENDS OfflineReports, TLC

Symmetry == Permutations(Tabs) \union Permutations(Reports) \union Permutations(Flushes)
=============================================================================
