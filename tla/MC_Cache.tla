------------------------------ MODULE MC_Cache ------------------------------
EXTENDS Cache

\* Two sets of two blocks, one set of three, arguments that are rejected, and
\* two that are not: no block at all, and as many bytes in the sets' first
\* blocks as there are addresses.
Shapes == {<<2, 2, 4>>, <<1, 3, 8>>, <<3, 2, 4>>, <<2, 2, 2>>,
           <<1, 0, 4>>, <<8, 1, 4>>}

CommandLines == {[num_sets |-> g[1], num_blocks |-> g[2], block_size |-> g[3],
                  write_allocate |-> wa, write_through |-> wt,
                  lru_eviction |-> lru] :
                 g \in Shapes, wa, wt, lru \in BOOLEAN}
=============================================================================
