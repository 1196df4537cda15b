------------------------------ MODULE TlsfHeap ------------------------------
(***************************************************************************)
(* The heap of kernel/mem.c, a two-level segregated fit allocator: the     *)
(* heap is a row of blocks, each a header and a payload; the free ones are *)
(* kept in lists by size class, with a bitmap of the lists that are not    *)
(* empty.  Every call is one section under g_klock.  The application frees *)
(* what it was given, and once.                                            *)
(***************************************************************************)
EXTENDS Integers, Sequences, FiniteSets, SequencesExt, FiniteSetsExt, TLC

CONSTANTS
    HeapSize,   (* CONFIG_HEAP_SIZE                                        *)
    Hdr,        (* TLSF_BLOCK_HDR                                          *)
    MinBlock,   (* TLSF_MIN_BLOCK                                          *)
    AlignLog2,  (* TLSF_ALIGN_LOG2                                         *)
    SlBits,     (* TLSF_SL_BITS                                            *)
    Word,       (* 2^32: sizes of blocks are uint32_t, those asked for are *)
                (* unsigned long                                           *)
    Requests    (* the sizes the application asks for                      *)

ASSUME HeapAssumption ==
    /\ {HeapSize, Hdr, MinBlock, SlBits} \subseteq Nat \ {0} /\ AlignLog2 \in Nat
    /\ Word \in Nat /\ HeapSize < Word /\ Word % 2^AlignLog2 = 0
    /\ Requests \subseteq Nat \ {0}
    /\ \A x \in {HeapSize, Hdr, MinBlock} : x % 2^AlignLog2 = 0

VARIABLES
    pool,       (* blk: the headers, by address; bucket and marked: the    *)
                (* free lists and their bitmaps, g_pool                    *)
    heapUsed,   (* g_heap_used                                             *)
    minFree,    (* g_heap_min_free                                         *)
    taken        (* history: what the application holds, with what it asked *)

heapVars == <<pool, heapUsed, minFree, taken>>

NoBlock == HeapSize
FlShift == SlBits + AlignLog2
MaxFl   == CHOOSE k \in 0..HeapSize : 2^k <= HeapSize /\ HeapSize < 2^(k + 1)
SizeClasses == (0..MaxFl) \X (0..(2^SlBits - 1))

Unit == 2^AlignLog2

(* tlsf_align_up, of and in 32 bits                                        *)
AlignUp(n) == (((n + Unit - 1) % Word) \div Unit) * Unit
Larger(m, n) == IF m > n THEN m ELSE n

(* tlsf_mapping: linear classes for small blocks, and 2^SlBits to each     *)
(* power of two for the others                                             *)
Mapping(n) ==
    LET s   == Larger(n, MinBlock)
        fls == CHOOSE k \in 0..s : 2^k <= s /\ s < 2^(k + 1)
    IN  IF s < 2^FlShift THEN <<0, s \div 2^AlignLog2>>
        ELSE <<fls - (FlShift - 1), (s \div 2^(fls - SlBits)) - 2^SlBits>>

NotBefore(b, c) == b[1] > c[1] \/ (b[1] = c[1] /\ b[2] >= c[2])

NextPhys(p, a) == a + Hdr + p.blk[a].size

(* tlsf_list_remove                                                        *)
Taken(p, a) ==
    LET b == Mapping(p.blk[a].size)
        q == RemoveFirst(p.bucket[b], a)
    IN  [p EXCEPT !.bucket[b] = q, !.marked = IF q = << >> THEN @ \ {b} ELSE @]

(* tlsf_list_insert                                                        *)
Put(p, a) ==
    LET b == Mapping(p.blk[a].size)
    IN  [p EXCEPT !.bucket[b] = <<a>> \o @, !.marked = @ \cup {b}]

(* Bug form: the list of the class of n is not searched                    *)
FindAbove(p, n) ==
    LET fits(b) == \E i \in 1..Len(p.bucket[b]) : p.blk[p.bucket[b][i]].size >= n
        found   == {b \in p.marked : NotBefore(b, Mapping(n)) /\ b # Mapping(n) /\ fits(b)}
        best    == CHOOSE b \in found : \A c \in found : NotBefore(c, b)
    IN  IF found = {} THEN NoBlock
        ELSE SelectSeq(p.bucket[best], LAMBDA a : p.blk[a].size >= n)[1]

(* tlsf_find_suitable: the first block large enough, from the class of n   *)
(* upwards, along the lists the bitmaps name                               *)
Find(p, n) ==
    LET fits(b) == \E i \in 1..Len(p.bucket[b]) : p.blk[p.bucket[b][i]].size >= n
        found   == {b \in p.marked : NotBefore(b, Mapping(n)) /\ fits(b)}
        best    == CHOOSE b \in found : \A c \in found : NotBefore(c, b)
    IN  IF found = {} THEN NoBlock
        ELSE SelectSeq(p.bucket[best], LAMBDA a : p.blk[a].size >= n)[1]

(* blocks with a the physical predecessor of the block at x, if any        *)
Follows(blk, x, a) == IF x < HeapSize THEN [blk EXCEPT ![x].prev = a] ELSE blk

(* Bug form: the block after is left pointing at the first half            *)
SplitForgetsNext(p, a, n) ==
    LET total == p.blk[a].size
        r     == a + Hdr + n
        rest  == [size |-> total - n - Hdr, free |-> TRUE, prev |-> a]
    IN  IF total < n + Hdr + MinBlock THEN p
        ELSE Put([p EXCEPT !.blk = (r :> rest) @@ [@ EXCEPT ![a].size = n]], r)

(* tlsf_split_block: what is too much for n becomes a free block           *)
Split(p, a, n) ==
    LET total == p.blk[a].size
        r     == a + Hdr + n
        rest  == [size |-> total - n - Hdr, free |-> TRUE, prev |-> a]
        blk   == (r :> rest) @@ [p.blk EXCEPT ![a].size = n]
    IN  IF total < n + Hdr + MinBlock THEN p
        ELSE Put([p EXCEPT !.blk = Follows(blk, NextPhys(p, a), r)], r)

(* the block at gone becomes part of the one before it                     *)
Absorb(p, into, gone) ==
    LET blk == [x \in DOMAIN p.blk \ {gone} |->
                   IF x = into THEN [p.blk[x] EXCEPT !.size = @ + Hdr + p.blk[gone].size]
                   ELSE p.blk[x]]
    IN  [p EXCEPT !.blk = Follows(blk, NextPhys(p, gone), into)]

(* tlsf_merge_block: a free block that is in no list yet joins its         *)
(* neighbours                                                              *)
Merge(p, a) ==
    LET next == NextPhys(p, a)
        one  == IF next < HeapSize /\ p.blk[next].free THEN Absorb(Taken(p, next), a, next) ELSE p
        prev == p.blk[a].prev
    IN  IF prev # NoBlock /\ p.blk[prev].free
        THEN Put(Absorb(Taken(one, prev), prev, a), prev)
        ELSE Put(one, a)

-----------------------------------------------------------------------------
(* tlsf_init_pool                                                          *)
HeapInit ==
    /\ pool = Put([blk |-> (0 :> [size |-> HeapSize - Hdr, free |-> TRUE, prev |-> NoBlock]),
                   bucket |-> [b \in SizeClasses |-> << >>], marked |-> {}], 0)
    /\ heapUsed = 0 /\ minFree = HeapSize
    /\ taken = << >>

(* heap_update_min_free                                                    *)
LowWater(u) == IF HeapSize - u < minFree THEN HeapSize - u ELSE minFree

(* cgrtos_malloc: of the size asked for only 32 bits are looked at         *)
Malloc(n) ==
    LET req == Larger(AlignUp(n % Word), MinBlock)
        a   == Find(pool, req)
        p   == Split(Taken(pool, a), a, req)
    IN  /\ a # NoBlock
        /\ pool' = [p EXCEPT !.blk[a].free = FALSE]
        /\ heapUsed' = heapUsed + Hdr + p.blk[a].size
        /\ minFree' = LowWater(heapUsed')
        /\ taken' = (a :> n) @@ taken

(* cgrtos_free                                                             *)
HeapFree(a) ==
    /\ a \in DOMAIN taken
    /\ heapUsed' = heapUsed - (Hdr + pool.blk[a].size)
    /\ pool' = Merge([pool EXCEPT !.blk[a].free = TRUE], a)
    /\ minFree' = LowWater(heapUsed')
    /\ taken' = [x \in DOMAIN taken \ {a} |-> taken[x]]

HeapStep == (\E n \in Requests : Malloc(n)) \/ (\E a \in DOMAIN taken : HeapFree(a))

-----------------------------------------------------------------------------
Size(a) == pool.blk[a].size

(* The blocks tile the heap and know their predecessors; what the          *)
(* application holds is in blocks of their own, whatever splits and merges *)
(* there were, and large enough unless the request wrapped in 32 bits; the *)
(* others are free, no two of them adjacent, each in the list of its class *)
(* once; the bytes in use are accounted for; and a search fails only if no *)
(* free block is large enough.                                             *)
HeapSound ==
    /\ \A a \in DOMAIN pool.blk :
         LET next == NextPhys(pool, a)
         IN  /\ next = HeapSize \/ (next \in DOMAIN pool.blk /\ pool.blk[next].prev = a)
             /\ pool.blk[a].free /\ next < HeapSize => ~pool.blk[next].free
             /\ pool.blk[a].free <=> a \notin DOMAIN taken
             /\ a \in DOMAIN taken /\ taken[a] <= Word - Unit => Size(a) >= taken[a]
    /\ MapThenSumSet(LAMBDA a : Hdr + Size(a), DOMAIN pool.blk) = HeapSize
    /\ MapThenSumSet(LAMBDA a : Hdr + Size(a), DOMAIN taken) = heapUsed
    /\ \A b \in SizeClasses :
         /\ ToSet(pool.bucket[b]) = {a \in DOMAIN pool.blk : pool.blk[a].free /\ Mapping(Size(a)) = b}
         /\ IsInjective(pool.bucket[b])
         /\ b \in pool.marked <=> pool.bucket[b] # << >>
    /\ \A n \in MinBlock..HeapSize :
         Find(pool, n) = NoBlock => \A a \in DOMAIN pool.blk : pool.blk[a].free => Size(a) < n

(* A block that malloc returned is as large as what was asked for (mem.c,  *)
(* on cgrtos_malloc: NULL when the heap is short of space).  It is not so  *)
(* of a request that wraps.                                                *)
GrantedIsHeld == \A a \in DOMAIN taken : Size(a) >= taken[a]
=============================================================================
