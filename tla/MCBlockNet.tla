----------------------------- MODULE MCBlockNet -----------------------------
(***************************************************************************)
(* Instances of BlockNet: three blocks of two clusters of two sectors.       *)
(***************************************************************************)
EXTENDS BlockNet

\* The contents of a sector of the image tell which sector it is.
MCImage == [s \in 0 .. 11 |-> s]
MCValue == 0 .. 23
Read(first, n)  == [is_write |-> FALSE, sector_num |-> first,
                    data |-> [i \in 1 .. n |-> Garbage]]
Write(first, n) == [is_write |-> TRUE, sector_num |-> first,
                    data |-> [i \in 1 .. n |-> 20 + i]]
MCGarbage == 99

\* Reads that do not take two clusters of one block, one of them across the
\* blocks; writes within a cluster, across clusters and across the blocks.
MCRequest == {Read(0, 2), Read(2, 4), Read(6, 2), Read(9, 1),
              Write(0, 1), Write(1, 2), Write(2, 3), Write(7, 2)}

\* One read across the two clusters of a block.
MCSpanningRequest == MCRequest \cup {Read(1, 2)}

\* Blocks 1 and 0 in a group; block 1 again, already being loaded.
MCPrefetch == <<1, 0, 1>>
=============================================================================
