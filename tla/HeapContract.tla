---------------------------- MODULE HeapContract ----------------------------
(***************************************************************************)
(* What RM relies on when it allocates through libnv-darwin: a block has   *)
(* at most one owner, it reaches a caller only after the heap reserved it, *)
(* and a block that RM gave back becomes available again.  The names of    *)
(* the four stages are those of the life of one block.                     *)
(***************************************************************************)
CONSTANT Addresses      \* the addresses at which the heap can place a block

VARIABLE block          \* block[p]: the stage of the block at address p

Stages == {"free", "reserved", "held", "returned"}

Init == block = [p \in Addresses |-> "free"]

Advance(p, from, to) ==
    /\ block[p] = from
    /\ block' = [block EXCEPT ![p] = to]

\* The heap sets the block aside for a caller.
Reserve(p) == Advance(p, "free", "reserved")
\* The caller receives the pointer.
Grant(p)   == Advance(p, "reserved", "held")
\* The caller gives the pointer back.
Return(p)  == Advance(p, "held", "returned")
\* The memory is available again.
Reclaim(p) == Advance(p, "returned", "free")

Next == \E p \in Addresses : Reserve(p) \/ Grant(p) \/ Return(p) \/ Reclaim(p)

Safety == Init /\ [][Next]_block
=============================================================================
