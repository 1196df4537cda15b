----------------------------- MODULE LinkedList -----------------------------
(***************************************************************************)
(* The doubly linked lists of kernel/list.c, on which the delayed list,    *)
(* the CFS and EDF lists and the release wheel are built, pointer by       *)
(* pointer.  The other modules take a list for a sequence: here it is      *)
(* shown to be one.  Nothing stops a caller from putting an item into two  *)
(* lists; the kernel takes it out of the first before.                     *)
(***************************************************************************)
EXTENDS Integers, Sequences, SequencesExt

CONSTANTS
    Items,      (* the list_item_t of the tasks                            *)
    NullItem,
    Keys        (* the values items are sorted by                          *)

ASSUME ListAssumption == NullItem \notin Items /\ Keys \subseteq Nat

VARIABLES
    next, prev, val,        (* the fields of each item                     *)
    head, tail, count,      (* those of the list                           *)
    order                   (* history: the items in the order they should *)
                            (* be in                                       *)

listPtrs == <<next, prev, val, head, tail, count, order>>

(* list_init, list_init_item                                               *)
ListInit ==
    /\ next = [i \in Items |-> NullItem] /\ prev = [i \in Items |-> NullItem]
    /\ val = [i \in Items |-> 0]
    /\ head = NullItem /\ tail = NullItem /\ count = 0
    /\ order = << >>

(* the test by which the kernel knows that i is in the list                *)
Member(i) == next[i] # NullItem \/ prev[i] # NullItem \/ head = i

(* list_insert_end, with the value v written to i before                   *)
LinkLast(i, v) ==
    /\ next' = [x \in Items |-> IF x = tail THEN i ELSE IF x = i THEN NullItem ELSE next[x]]
    /\ prev' = [prev EXCEPT ![i] = tail]
    /\ head' = IF tail = NullItem THEN i ELSE head
    /\ tail' = i
    /\ val' = [val EXCEPT ![i] = v]
    /\ count' = count + 1

(* i is linked in before c                                                 *)
LinkBefore(c, i, v) ==
    /\ next' = [x \in Items |-> IF x = i THEN c ELSE IF x = prev[c] THEN i ELSE next[x]]
    /\ prev' = [prev EXCEPT ![i] = prev[c], ![c] = i]
    /\ head' = IF prev[c] = NullItem THEN i ELSE head
    /\ UNCHANGED tail
    /\ val' = [val EXCEPT ![i] = v]
    /\ count' = count + 1

(* the first item from the head on whose value does not pass; a list that  *)
(* was not always filled by one order need not be sorted                   *)
FirstNot(passes(_)) ==
    LET from[n \in 0..count] ==     (* the n-th item, counted from 0       *)
            IF n = 0 THEN head
            ELSE IF from[n - 1] = NullItem \/ ~passes(val[from[n - 1]]) THEN from[n - 1]
            ELSE next[from[n - 1]]
    IN  from[count]

LinkSorted(i, v, passes(_)) ==
    LET c == FirstNot(passes)
        n == SelectInSeq(order, LAMBDA x : ~passes(val[x]))
    IN  /\ IF c = NullItem THEN LinkLast(i, v) ELSE LinkBefore(c, i, v)
        /\ order' = IF n = 0 THEN Append(order, i) ELSE InsertAt(order, n, i)

InsertEnd(i) == ~Member(i) /\ LinkLast(i, val[i]) /\ order' = Append(order, i)

(* list_insert_sorted: after its equals                                    *)
InsertSorted(i, v) == ~Member(i) /\ LinkSorted(i, v, LAMBDA w : w <= v)

(* list_insert_sorted_asc: before its equals                               *)
InsertSortedAsc(i, v) == ~Member(i) /\ LinkSorted(i, v, LAMBDA w : w < v)

(* Bug form: the tail is left where it is                                  *)
UnlinkKeepsTail(i) ==
    /\ Member(i)
    /\ next' = [x \in Items |-> IF x = i THEN NullItem ELSE IF x = prev[i] THEN next[i] ELSE next[x]]
    /\ prev' = [x \in Items |-> IF x = i THEN NullItem ELSE IF x = next[i] THEN prev[i] ELSE prev[x]]
    /\ head' = IF head = i THEN next[i] ELSE head
    /\ UNCHANGED tail
    /\ count' = IF count > 0 THEN count - 1 ELSE 0
    /\ order' = RemoveFirst(order, i)
    /\ UNCHANGED val

(* list_remove                                                             *)
Unlink(i) ==
    /\ Member(i)
    /\ next' = [x \in Items |-> IF x = i THEN NullItem ELSE IF x = prev[i] THEN next[i] ELSE next[x]]
    /\ prev' = [x \in Items |-> IF x = i THEN NullItem ELSE IF x = next[i] THEN prev[i] ELSE prev[x]]
    /\ head' = IF head = i THEN next[i] ELSE head
    /\ tail' = IF tail = i THEN prev[i] ELSE tail
    /\ count' = IF count > 0 THEN count - 1 ELSE 0
    /\ order' = RemoveFirst(order, i)
    /\ UNCHANGED val

ListStep ==
    \/ \E i \in Items : InsertEnd(i) \/ Unlink(i)
    \/ \E i \in Items, v \in Keys : InsertSorted(i, v) \/ InsertSortedAsc(i, v)

-----------------------------------------------------------------------------
(* The pointers describe the sequence: forwards, backwards, at both ends   *)
(* and in number, after any mix of sorted and unsorted insertions and      *)
(* removals; and the test for membership is right, of a single item too.   *)
ListIsSequence ==
    LET n == Len(order)
    IN  /\ count = n
        /\ head = IF n = 0 THEN NullItem ELSE order[1]
        /\ tail = IF n = 0 THEN NullItem ELSE order[n]
        /\ \A k \in 1..n :
             /\ next[order[k]] = IF k = n THEN NullItem ELSE order[k + 1]
             /\ prev[order[k]] = IF k = 1 THEN NullItem ELSE order[k - 1]
        /\ \A i \in Items : Member(i) <=> Contains(order, i)
=============================================================================
