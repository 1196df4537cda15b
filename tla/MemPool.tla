------------------------------ MODULE MemPool -------------------------------
(***************************************************************************)
(* The pools of blocks of one size of kernel/mempool.c: a stack of the     *)
(* indices of the free blocks.  A free is refused only when the stack is   *)
(* full; so the application must free what it holds, and nobody may be in  *)
(* a call for a pool that is deleted.                                      *)
(***************************************************************************)
EXTENDS Integers, Sequences, SequencesExt

CONSTANTS
    Pools,          (* the slots of g_pools                                *)
    BlockCounts     (* the block_count arguments                           *)

ASSUME PoolAssumption == BlockCounts \subseteq Nat \ {0}

VARIABLES
    blocks,     (* block_count; 0 marks a free slot                        *)
    freeStack,  (* free_stack, the indices it holds below free_top         *)
    freeCount,  (* free_count                                              *)
    lent        (* history: the indices the application holds              *)

poolVars == <<blocks, freeStack, freeCount, lent>>

PoolInit ==
    /\ blocks = [p \in Pools |-> 0] /\ freeStack = [p \in Pools |-> << >>]
    /\ freeCount = [p \in Pools |-> 0] /\ lent = [p \in Pools |-> {}]

(* cgrtos_mempool_create                                                   *)
PoolCreate(p, n) ==
    /\ blocks[p] = 0
    /\ blocks' = [blocks EXCEPT ![p] = n]
    /\ freeStack' = [freeStack EXCEPT ![p] = [i \in 1..n |-> i - 1]]
    /\ freeCount' = [freeCount EXCEPT ![p] = n]
    /\ lent' = [lent EXCEPT ![p] = {}]

(* Bug form: the top is read before it is moved                            *)
PoolAllocBelow(p) ==
    /\ blocks[p] > 0 /\ freeStack[p] # << >>
    /\ lent' = [lent EXCEPT ![p] = @ \cup {Head(freeStack[p])}]
    /\ freeStack' = [freeStack EXCEPT ![p] = Front(@)]
    /\ freeCount' = [freeCount EXCEPT ![p] = @ - 1]
    /\ UNCHANGED blocks

(* cgrtos_mempool_alloc                                                    *)
PoolAlloc(p) ==
    /\ blocks[p] > 0 /\ freeStack[p] # << >>
    /\ lent' = [lent EXCEPT ![p] = @ \cup {Last(freeStack[p])}]
    /\ freeStack' = [freeStack EXCEPT ![p] = Front(@)]
    /\ freeCount' = [freeCount EXCEPT ![p] = @ - 1]
    /\ UNCHANGED blocks

(* cgrtos_mempool_free                                                     *)
PoolFree(p, i) ==
    /\ blocks[p] > 0 /\ i \in lent[p]
    /\ Len(freeStack[p]) < blocks[p]
    /\ freeStack' = [freeStack EXCEPT ![p] = Append(@, i)]
    /\ freeCount' = [freeCount EXCEPT ![p] = @ + 1]
    /\ lent' = [lent EXCEPT ![p] = @ \ {i}]
    /\ UNCHANGED blocks

(* cgrtos_mempool_delete                                                   *)
PoolDelete(p) ==
    /\ blocks[p] > 0
    /\ blocks' = [blocks EXCEPT ![p] = 0] /\ freeStack' = [freeStack EXCEPT ![p] = << >>]
    /\ freeCount' = [freeCount EXCEPT ![p] = 0] /\ lent' = [lent EXCEPT ![p] = {}]

PoolStep ==
    \E p \in Pools :
        \/ PoolAlloc(p) \/ PoolDelete(p)
        \/ \E n \in BlockCounts : PoolCreate(p, n)
        \/ \E i \in lent[p] : PoolFree(p, i)

-----------------------------------------------------------------------------
(* No block is lent to two users and none is lost: the stack and what is   *)
(* out share the blocks of the pool between them, in whatever order they   *)
(* come back, and a free of a lent block always finds room.                *)
BlocksShared ==
    \A p \in Pools :
        /\ IsInjective(freeStack[p]) /\ ToSet(freeStack[p]) \cap lent[p] = {}
        /\ ToSet(freeStack[p]) \cup lent[p] = 0..(blocks[p] - 1)
        /\ freeCount[p] = Len(freeStack[p])
=============================================================================
