----------------------------- MODULE Containers -----------------------------
(***************************************************************************)
(* The containers of kvs_utils at the level of their pointers: the single  *)
(* linked list with the stack/queue on top of it (single_linked_list.c,    *)
(* stack_queue.c), the double linked list (double_linked_list.c) and the   *)
(* hash table with its growing buckets (hash_table.c).  Every caller holds *)
(* a lock of its own around a call, so a call is one step.  Beside the     *)
(* memory the module keeps what the caller put in (`order`, `table`), and  *)
(* the properties compare the two after any sequence of calls.             *)
(*                                                                         *)
(* A behaviour uses one container, `kind`; cell 0 is NULL.  Which cell the *)
(* allocator returns makes no difference, so it returns the lowest one.    *)
(***************************************************************************)
EXTENDS Integers, Sequences, FiniteSets, SequencesExt

CONSTANTS CellCount,      \* cells the allocator has for list nodes
          Items,          \* what is put in a list, and the values of the table
          HashKeys,       \* keys of the table
          HashOf,         \* getKeyHash(key) % bucketCount, as a function
          BucketLength,   \* entries a bucket has in the table's own block
          MinAlloc        \* MIN_HASH_TABLE_ENTRIES_ALLOC_LENGTH

ASSUME ContainersAssumption ==
    /\ CellCount \in Nat /\ BucketLength \in Nat \ {0} /\ MinAlloc \in Nat
    /\ DOMAIN HashOf = HashKeys

VARIABLES kind,     \* "single", "double" or "hash"
          cell,     \* list nodes: [next, prev, item, live]
          hdr,      \* list headers: [head, tail, count, live]
          order,    \* what each list should hold, first to last: cells
          bucket,   \* buckets: [mem, count, length, grown]
          itemCount,\* HashTable.itemCount
          table,    \* what the table should hold: key -> value
          blocks    \* entry blocks on the heap: allocated and not yet freed

cnVars == <<kind, cell, hdr, order, bucket, itemCount, table, blocks>>
listVars == <<cell, hdr, order>>
hashVars == <<bucket, itemCount, table, blocks>>

CellIds == 1..CellCount
Lists == {1, 2}
Buckets == {HashOf[k] : k \in HashKeys}
NoEntry == [key |-> 0, value |-> 0]
FreshCell == [next |-> 0, prev |-> 0, item |-> 0, live |-> FALSE]
EmptyList == [head |-> 0, tail |-> 0, count |-> 0, live |-> TRUE]
FreshBucket == [mem |-> [i \in 1..BucketLength |-> NoEntry], count |-> 0, length |-> BucketLength, grown |-> FALSE]

-----------------------------------------------------------------------------
(* What the pointers say.  Both walks give up after CellCount nodes, so    *)
(* that a cycle shows as a walk that is too long.                          *)

\* singleListGetHeadNode, GetNextNode, GetNodeData, GetNodeCount
HeadNode(l) == hdr[l].head
NextNode(c) == cell[c].next
NodeData(c) == cell[c].item
NodeCount(l) == hdr[l].count

\* The nodes from c on, or from c back, along `step`.
Walk(c, step(_)) ==
    LET walk[n \in 0..CellCount + 1] ==
            IF n = 0 THEN <<c>>
            ELSE IF Last(walk[n - 1]) = 0 THEN walk[n - 1]
                 ELSE Append(walk[n - 1], step(Last(walk[n - 1])))
    IN SelectSeq(walk[CellCount + 1], LAMBDA d : d # 0)

\* stackQueueGetIterator, IteratorNext and IteratorGetItem: the nodes from the head on.
Forward(l) == Walk(HeadNode(l), NextNode)

\* doubleListGetTailNode and doubleListGetPrevNode: the nodes from the tail back.
Backward(l) == Walk(hdr[l].tail, LAMBDA c : cell[c].prev)

\* priv_single_list_getNodeAt: the node after i - 1 steps from the head.
NodeAt(l, i) == Forward(l)[i]

FreeCells == {c \in CellIds : ~cell[c].live}
LowestFree == CHOOSE c \in FreeCells : \A d \in FreeCells : c <= d

Pos(s, c) == CHOOSE i \in 1..Len(s) : s[i] = c
InsertedAt(s, i, c) == SubSeq(s, 1, i - 1) \o <<c>> \o SubSeq(s, i, Len(s))
Without(s, c) == SelectSeq(s, LAMBDA d : d # c)

-----------------------------------------------------------------------------
(* Inserting.  `c` is the node: a new one for the Item calls, a node the   *)
(* caller took off a list before for the Node calls.                       *)

\* priv_single_list_allocateNode, doubleListAllocNode: the node an Item call inserts; without memory the call returns.
Alloc(l, c, x) == /\ hdr[l].live /\ FreeCells # {} /\ c = LowestFree /\ x \in Items

NewNode(x, n, p) == [next |-> n, prev |-> p, item |-> x, live |-> TRUE]

\* The header after c became the first node, after it became the last one.
HeadHeader(l, c) == [hdr EXCEPT ![l].head = c, ![l].tail = IF hdr[l].head = 0 THEN c ELSE @, ![l].count = @ + 1]
TailHeader(l, c) == [hdr EXCEPT ![l].tail = c, ![l].head = IF hdr[l].tail = 0 THEN c ELSE @, ![l].count = @ + 1]

\* priv_single_list_insertNodeHead, doubleListInsertNodeHeadInternal: cells after linking c in front.
SingleHeadLinked(l, c, x) == [cell EXCEPT ![c] = NewNode(x, hdr[l].head, 0)]
DoubleHeadLinked(l, c, x) ==
    [d \in CellIds |-> IF d = c THEN NewNode(x, hdr[l].head, 0)
                       ELSE IF d = hdr[l].head THEN [cell[d] EXCEPT !.prev = c] ELSE cell[d]]

\* singleListInsertItemHead (stackQueuePush), doubleListInsertItemHead
InsertHead(l, c, x) ==
    /\ Alloc(l, c, x)
    /\ cell' = IF kind = "single" THEN SingleHeadLinked(l, c, x) ELSE DoubleHeadLinked(l, c, x)
    /\ hdr' = HeadHeader(l, c)
    /\ order' = [order EXCEPT ![l] = <<c>> \o @]
    /\ UNCHANGED <<kind, hashVars>>

\* priv_single_list_insertNodeTail, doubleListInsertNodeTailInternal: cells after linking c behind the last one.
SingleTailLinked(l, c, x) ==
    [d \in CellIds |-> IF d = c THEN NewNode(x, 0, 0)
                       ELSE IF d = hdr[l].tail THEN [cell[d] EXCEPT !.next = c] ELSE cell[d]]
DoubleTailLinked(l, c, x) ==
    [d \in CellIds |-> IF d = c THEN NewNode(x, 0, hdr[l].tail)
                       ELSE IF d = hdr[l].tail THEN [cell[d] EXCEPT !.next = c] ELSE cell[d]]

\* singleListInsertItemTail (stackQueueEnqueue), doubleListInsertItemTail
InsertTail(l, c, x) ==
    /\ Alloc(l, c, x)
    /\ cell' = IF kind = "single" THEN SingleTailLinked(l, c, x) ELSE DoubleTailLinked(l, c, x)
    /\ hdr' = TailHeader(l, c)
    /\ order' = [order EXCEPT ![l] = Append(@, c)]
    /\ UNCHANGED <<kind, hashVars>>

\* doubleListInsertItemBefore: only the double list has it; n is a node of the list.
InsertBefore(l, n, c, x) ==
    /\ kind = "double" /\ Alloc(l, c, x) /\ n \in Range(order[l])
    /\ LET p == cell[n].prev IN
       /\ p = 0 => hdr[l].head = n
       /\ cell' = [d \in CellIds |-> IF d = c THEN NewNode(x, n, p)
                                     ELSE IF d = n THEN [cell[d] EXCEPT !.prev = c]
                                     ELSE IF d = p THEN [cell[d] EXCEPT !.next = c] ELSE cell[d]]
       /\ hdr' = [hdr EXCEPT ![l].head = IF p = 0 THEN c ELSE @, ![l].count = @ + 1]
    /\ order' = [order EXCEPT ![l] = InsertedAt(@, Pos(@, n), c)]
    /\ UNCHANGED <<kind, hashVars>>

\* priv_single_list_insertNodeAfter, doubleListInsertNodeAfterInternal: cells after linking c behind n.
SingleAfterLinked(n, c, x) ==
    [d \in CellIds |-> IF d = c THEN NewNode(x, cell[n].next, 0)
                       ELSE IF d = n THEN [cell[d] EXCEPT !.next = c] ELSE cell[d]]
DoubleAfterLinked(n, c, x) ==
    [d \in CellIds |-> IF d = c THEN NewNode(x, cell[n].next, n)
                       ELSE IF d = n THEN [cell[d] EXCEPT !.next = c]
                       ELSE IF d = cell[n].next THEN [cell[d] EXCEPT !.prev = c] ELSE cell[d]]

\* singleListInsertItemAfter, doubleListInsertItemAfter
InsertAfter(l, n, c, x) ==
    /\ Alloc(l, c, x) /\ n \in Range(order[l])
    /\ cell[n].next = 0 => hdr[l].tail = n
    /\ cell' = IF kind = "single" THEN SingleAfterLinked(n, c, x) ELSE DoubleAfterLinked(n, c, x)
    /\ hdr' = [hdr EXCEPT ![l].tail = IF cell[n].next = 0 THEN c ELSE @, ![l].count = @ + 1]
    /\ order' = [order EXCEPT ![l] = InsertedAt(@, Pos(@, n) + 1, c)]
    /\ UNCHANGED <<kind, hashVars>>

-----------------------------------------------------------------------------
(* Removing *)

\* The single list: the head moves on; the tail goes with the last node.
SingleDeleteHead(l) ==
    LET h == hdr[l].head
        s == cell[h].next
    IN /\ cell' = [cell EXCEPT ![h] = FreshCell]
       /\ hdr' = [hdr EXCEPT ![l].head = s, ![l].tail = IF s = 0 THEN 0 ELSE @, ![l].count = @ - 1]

\* singleListDeleteNextNode without its "last node" branch
SingleDeleteNextKeepingTail(l, p) ==
    LET n == cell[p].next
    IN /\ cell' = [cell EXCEPT ![p].next = cell[n].next, ![n] = FreshCell]
       /\ hdr' = [hdr EXCEPT ![l].count = @ - 1]

\* The single list: the successor of p is unlinked; p becomes the tail when it was the last one.
SingleDeleteNext(l, p) ==
    LET n == cell[p].next
    IN /\ cell[n].next = 0 => hdr[l].tail = n
       /\ cell' = [cell EXCEPT ![p].next = cell[n].next, ![n] = FreshCell]
       /\ hdr' = [hdr EXCEPT ![l].tail = IF cell[n].next = 0 THEN p ELSE @, ![l].count = @ - 1]

\* singleListDeleteNode looks for the predecessor from the head on.
SingleDelete(l, n) ==
    IF hdr[l].head = n THEN SingleDeleteHead(l)
    ELSE \E p \in Range(Forward(l)) : cell[p].next = n /\ SingleDeleteNext(l, p)

\* doubleListRemoveNodeInternal without the tail's update
DoubleUnlinkKeepingTail(l, n, c0) ==
    LET p == cell[n].prev
        s == cell[n].next
    IN /\ cell' = [d \in CellIds |-> IF d = n THEN c0
                                     ELSE [cell[d] EXCEPT !.next = IF d = p THEN s ELSE @, !.prev = IF d = s THEN p ELSE @]]
       /\ hdr' = [hdr EXCEPT ![l].head = IF p = 0 THEN s ELSE @, ![l].count = @ - 1]

\* The double list: both neighbours, or the ends, are joined; c0 is what becomes of the node.
DoubleUnlink(l, n, c0) ==
    LET p == cell[n].prev
        s == cell[n].next
    IN /\ (p = 0 => hdr[l].head = n) /\ (s = 0 => hdr[l].tail = n)
       /\ cell' = [d \in CellIds |-> IF d = n THEN c0
                                     ELSE [cell[d] EXCEPT !.next = IF d = p THEN s ELSE @, !.prev = IF d = s THEN p ELSE @]]
       /\ hdr' = [hdr EXCEPT ![l].head = IF p = 0 THEN s ELSE @, ![l].tail = IF s = 0 THEN p ELSE @, ![l].count = @ - 1]

DeleteNode(l, n) == IF kind = "single" THEN SingleDelete(l, n) ELSE DoubleUnlink(l, n, FreshCell)

\* stackQueuePop, stackQueueDequeue, doubleListDeleteHead: an empty list is left alone.
DeleteHead(l) ==
    /\ hdr[l].live /\ hdr[l].head # 0
    /\ IF kind = "single" THEN SingleDeleteHead(l) ELSE DoubleUnlink(l, hdr[l].head, FreshCell)
    /\ order' = [order EXCEPT ![l] = Tail(@)]
    /\ UNCHANGED <<kind, hashVars>>

DeleteTail(l) ==
    /\ kind = "double" /\ hdr[l].live /\ hdr[l].tail # 0
    /\ DoubleUnlink(l, hdr[l].tail, FreshCell)
    /\ order' = [order EXCEPT ![l] = Front(@)]
    /\ UNCHANGED <<kind, hashVars>>

\* doubleListRemoveNode and then doubleListInsertNodeTail: the caller keeps the node and moves it to the other list.
MoveNode(l, m, n) ==
    /\ kind = "double" /\ hdr[l].live /\ hdr[m].live /\ l # m /\ n \in Range(order[l])
    /\ LET p == cell[n].prev
           s == cell[n].next
           t == hdr[m].tail
       IN /\ cell' = [d \in CellIds |->
                          IF d = n THEN [cell[n] EXCEPT !.prev = t, !.next = 0]
                          ELSE [cell[d] EXCEPT !.next = IF d = p THEN s ELSE IF d = t THEN n ELSE @,
                                               !.prev = IF d = s THEN p ELSE @]]
          /\ hdr' = [hdr EXCEPT ![l].head = IF p = 0 THEN s ELSE @, ![l].tail = IF s = 0 THEN p ELSE @,
                                ![l].count = @ - 1,
                                ![m].head = IF t = 0 THEN n ELSE @, ![m].tail = n, ![m].count = @ + 1]
    /\ order' = [order EXCEPT ![l] = Without(@, n), ![m] = Append(@, n)]
    /\ UNCHANGED <<kind, hashVars>>

\* stackQueueGetIndexOf: the first node that holds x.
IndexOf(l, x) == SelectInSeq(Forward(l), LAMBDA c : NodeData(c) = x)

\* stackQueueRemoveAt: GetNodeAt(index) and delete.
UnlinkAt(l, i) == i <= NodeCount(l) /\ DeleteNode(l, NodeAt(l, i))

\* stackQueueRemoveItem: NOT_FOUND leaves the queue alone.
RemoveItem(l, x) ==
    /\ hdr[l].live /\ IndexOf(l, x) # 0
    /\ UnlinkAt(l, IndexOf(l, x))
    /\ LET first == CHOOSE i \in 1..Len(order[l]) :
                       cell[order[l][i]].item = x /\ \A j \in 1..i - 1 : cell[order[l][j]].item # x
       IN order' = [order EXCEPT ![l] = Without(@, @[first])]
    /\ UNCHANGED <<kind, hashVars>>

\* stackQueueSetAt: the item of the index-th node is replaced.
SetAt(l, i, x) ==
    /\ hdr[l].live /\ i \in 1..NodeCount(l) /\ x \in Items
    /\ cell' = [cell EXCEPT ![NodeAt(l, i)].item = x]
    /\ UNCHANGED <<kind, hdr, order, hashVars>>

\* singleListClear, doubleListClear: every node is freed, the next one read before it is.
Cleared(l) == [c \in CellIds |-> IF c \in Range(Forward(l)) THEN FreshCell ELSE cell[c]]

\* stackQueueClear, doubleListClear
ClearList(l) ==
    /\ hdr[l].live
    /\ cell' = Cleared(l)
    /\ hdr' = [hdr EXCEPT ![l] = EmptyList]
    /\ order' = [order EXCEPT ![l] = <<>>]
    /\ UNCHANGED <<kind, hashVars>>

\* singleListAppendList, doubleListAppendList: cells after the nodes of m were linked behind those of l.
SingleJoined(a, b) ==
    IF a.count = 0 \/ b.count = 0 THEN cell ELSE [cell EXCEPT ![a.tail].next = b.head]
DoubleJoined(a, b) ==
    IF a.count = 0 \/ b.count = 0 THEN cell
    ELSE [cell EXCEPT ![a.tail].next = b.head, ![b.head].prev = a.tail]

\* The nodes of m go to the end of l and m's header is freed.
AppendList(l, m) ==
    /\ l # m /\ hdr[l].live /\ hdr[m].live
    /\ LET a == hdr[l]
           b == hdr[m]
       IN /\ cell' = IF kind = "single" THEN SingleJoined(a, b) ELSE DoubleJoined(a, b)
          /\ hdr' = [hdr EXCEPT ![l] = [head |-> IF a.count = 0 THEN b.head ELSE a.head,
                                        tail |-> IF a.count = 0 \/ b.count # 0 THEN b.tail ELSE a.tail,
                                        count |-> a.count + b.count, live |-> TRUE],
                                ![m] = [EmptyList EXCEPT !.live = FALSE]]
    /\ order' = [order EXCEPT ![l] = @ \o order[m], ![m] = <<>>]
    /\ UNCHANGED <<kind, hashVars>>

\* singleListCreate, doubleListCreate: the caller makes a new list for the one it gave away.
CreateList(l) ==
    /\ ~hdr[l].live
    /\ hdr' = [hdr EXCEPT ![l] = EmptyList]
    /\ UNCHANGED <<kind, cell, order, hashVars>>

ListNext ==
    /\ kind # "hash"
    /\ \E l \in Lists :
         \/ \E x \in Items, c \in FreeCells :
               \/ InsertHead(l, c, x)
               \/ InsertTail(l, c, x)
               \/ \E n \in Range(order[l]) : InsertBefore(l, n, c, x)
               \/ \E n \in Range(order[l]) : InsertAfter(l, n, c, x)
         \/ DeleteHead(l)
         \/ DeleteTail(l)
         \/ \E m \in Lists, n \in Range(order[l]) : MoveNode(l, m, n)
         \/ \E x \in Items : RemoveItem(l, x)
         \/ \E i \in 1..CellCount, x \in Items : SetAt(l, i, x)
         \/ ClearList(l)
         \/ \E m \in Lists : AppendList(l, m)
         \/ CreateList(l)

-----------------------------------------------------------------------------
(* The hash table.  A bucket starts in the table's own block; the first    *)
(* growth takes a block from the heap, later ones replace that block.      *)

\* hashTableGet: the entry of the key in the first `count` entries of its bucket.
Hit(k) == LET b == bucket[HashOf[k]] IN {i \in 1..b.count : b.mem[i].key = k}

HasKey(k) == Hit(k) # {}

Bigger(n) == IF 2 * n > MinAlloc THEN 2 * n ELSE MinAlloc

\* The growth of a full bucket: the entries are copied and a former heap block is freed.
Grown(b) == [mem |-> [i \in 1..Bigger(b.length) |-> IF i <= b.count THEN b.mem[i] ELSE NoEntry],
             count |-> b.count, length |-> Bigger(b.length), grown |-> TRUE]

WithEntry(b, k, v) == [b EXCEPT !.mem[b.count + 1] = [key |-> k, value |-> v], !.count = @ + 1]

\* hashTableUpsert without the search for the key
UpsertAppending(k, v) ==
    LET h == HashOf[k]
        b == bucket[h]
    IN /\ bucket' = [bucket EXCEPT ![h] = WithEntry(IF b.count = b.length THEN Grown(b) ELSE b, k, v)]
       /\ itemCount' = itemCount + 1
       /\ blocks' = blocks + (IF b.count = b.length /\ b.length = BucketLength THEN 1 ELSE 0)

\* hashTableUpsert: the value is replaced in place, or an entry is added behind the last one.
Upsert(k, v) ==
    LET h == HashOf[k]
        b == bucket[h]
    IN IF HasKey(k)
       THEN /\ bucket' = [bucket EXCEPT ![h].mem = [i \in 1..b.length |->
                              IF i \in Hit(k) THEN [key |-> k, value |-> v] ELSE b.mem[i]]]
            /\ UNCHANGED <<itemCount, blocks>>
       ELSE /\ bucket' = [bucket EXCEPT ![h] = WithEntry(IF b.count = b.length THEN Grown(b) ELSE b, k, v)]
            /\ itemCount' = itemCount + 1
            /\ blocks' = blocks + (IF b.count = b.length /\ b.length = BucketLength THEN 1 ELSE 0)

HashUpsert(k, v) ==
    /\ Upsert(k, v)
    /\ table' = [j \in DOMAIN table \cup {k} |-> IF j = k THEN v ELSE table[j]]
    /\ UNCHANGED <<kind, listVars>>

\* hashTablePut: a key that is present is refused.
HashPut(k, v) == ~HasKey(k) /\ HashUpsert(k, v)

\* hashTableRemove: the entries behind the hit move up by one; i is already one past it.
HashRemove(k) ==
    LET h == HashOf[k]
        b == bucket[h]
    IN /\ HasKey(k)
       /\ \E i \in Hit(k) :
            bucket' = [bucket EXCEPT ![h].mem = [j \in 1..b.length |->
                           IF j >= i /\ j < i + (b.count - i) THEN b.mem[j + 1] ELSE b.mem[j]],
                                     ![h].count = @ - 1]
       /\ itemCount' = itemCount - 1
       /\ table' = [j \in DOMAIN table \ {k} |-> table[j]]
       /\ UNCHANGED <<kind, blocks, listVars>>

\* hashTableClear: only the counts are reset; a grown bucket keeps its block.
HashClear ==
    /\ bucket' = [h \in Buckets |-> [bucket[h] EXCEPT !.count = 0]]
    /\ itemCount' = 0
    /\ table' = <<>>
    /\ UNCHANGED <<kind, blocks, listVars>>

\* hashTableFree, then hashTableCreateWithParams: a block is freed when the bucket's length says it is one of the heap.
HashRecreate ==
    /\ blocks' = blocks - Cardinality({h \in Buckets : bucket[h].length # BucketLength})
    /\ bucket' = [h \in Buckets |-> FreshBucket]
    /\ itemCount' = 0
    /\ table' = <<>>
    /\ UNCHANGED <<kind, listVars>>

\* hashTableGetAllEntries, hashTableIterateEntries: bucket after bucket, the first `count` entries.
AllEntries == FlattenSeq([i \in 1..Len(SetToSeq(Buckets)) |->
                  LET b == bucket[SetToSeq(Buckets)[i]] IN SubSeq(b.mem, 1, b.count)])

HashNext ==
    /\ kind = "hash"
    /\ \/ \E k \in HashKeys, v \in Items : HashUpsert(k, v) \/ HashPut(k, v)
       \/ \E k \in HashKeys : HashRemove(k)
       \/ HashClear
       \/ HashRecreate

CnInit ==
    /\ kind \in {"single", "double", "hash"}
    /\ cell = [c \in CellIds |-> FreshCell]
    /\ hdr = [l \in Lists |-> EmptyList]
    /\ order = [l \in Lists |-> <<>>]
    /\ bucket = [h \in Buckets |-> FreshBucket]
    /\ itemCount = 0 /\ table = <<>> /\ blocks = 0

CnNext == ListNext \/ HashNext

-----------------------------------------------------------------------------
(* Properties *)

\* After any sequence of calls on two lists that exchange nodes, walking a list from the head, and a double list from
\* the tail, meets exactly the nodes put into it in their order; the header's count and tail agree, no freed node is
\* linked and none that was allocated is lost.  (A tail left at a freed node by a removal only shows when the next
\* enqueue writes through it.)
ListsMatch ==
    /\ \A l \in Lists : hdr[l].live =>
          /\ Forward(l) = order[l]
          /\ kind = "double" => Backward(l) = Reverse(order[l])
          /\ hdr[l].count = Len(order[l])
          /\ hdr[l].tail = IF order[l] = <<>> THEN 0 ELSE Last(order[l])
    /\ {c \in CellIds : cell[c].live} = Range(order[1]) \cup Range(order[2])

\* After any sequence of calls the table answers every key with the value last put for it, an iteration meets every
\* pair once, and the heap holds exactly one block for each bucket that has outgrown the table's own memory: the test
\* on the bucket's length frees neither the table's memory nor forgets a block.
TableIsMap ==
    /\ \A k \in HashKeys :
          IF k \in DOMAIN table THEN \E i \in Hit(k) : bucket[HashOf[k]].mem[i].value = table[k] ELSE ~HasKey(k)
    /\ itemCount = Cardinality(DOMAIN table)
    /\ Len(AllEntries) = itemCount
    /\ {<<e.key, e.value>> : e \in Range(AllEntries)} = {<<k, table[k]>> : k \in DOMAIN table}
    /\ \A h \in Buckets : bucket[h].count <= bucket[h].length /\ (bucket[h].grown <=> bucket[h].length # BucketLength)
    /\ blocks = Cardinality({h \in Buckets : bucket[h].grown})

\* The pointer lists are the sequences, and the hash table the function, that they stand for.
ContainersSound == ListsMatch /\ TableIsMap
=============================================================================
