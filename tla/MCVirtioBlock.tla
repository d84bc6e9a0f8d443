--------------------------- MODULE MCVirtioBlock ---------------------------
(***************************************************************************)
(* Instances of VirtioBlock: one queue of at most two chains, indices that *)
(* wrap around at four, a disk of two sectors.                             *)
(***************************************************************************)
EXTENDS VirtioBlock

R(n) == [write |-> FALSE, len |-> n]
W(n) == [write |-> TRUE, len |-> n]

\* A read of both sectors in descriptors that divide them, a write, a chain
\* with its parts in the wrong order and a request of an unknown type.  The write
\* stores what the sector holds already: fewer disks, and garbage still shows.
MCTemplate == {
    [chain |-> <<R(1), R(1), W(1), W(2)>>, contents |-> <<0, 0>>],
    [chain |-> <<R(2), R(1), W(1)>>,       contents |-> <<1, 1, 6>>],
    [chain |-> <<W(1), R(2)>>,             contents |-> <<0, 0>>],
    [chain |-> <<R(2), W(1)>>,             contents |-> <<4, 0>>]}

MCContents == [s \in 0 .. 1 |-> 5 + s]
MCLayout == <<[field |-> "desc_addr", addr |-> 1],
              [field |-> "avail_addr", addr |-> 2],
              [field |-> "used_addr", addr |-> 3]>>
MCAddr == 0 .. 3
MCCell == 0 .. 9
=============================================================================
