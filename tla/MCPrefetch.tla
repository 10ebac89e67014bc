------------------------------ MODULE MCPrefetch ------------------------------
EXTENDS PrefetchPipeline

CONSTANTS p1, c1, c2, s1, s2, loader

=============================================================================
