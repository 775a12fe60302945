-------------------------------- MODULE Queue --------------------------------
(***************************************************************************)
(* queue.c: doubly linked queues whose links live inside the items.  The   *)
(* first operators are the four list primitives, as functions from one     *)
(* heap (every node and every queue header) to the next; the thread and    *)
(* cache modules build on them.  The state machine below them is a client  *)
(* that keeps the rule queue.c relies on and never states: an item is      *)
(* linked only while it is in no queue.                                    *)
(***************************************************************************)
EXTENDS Integers, Sequences, FiniteSets, SequencesExt

CONSTANTS Nodes, Queues, NULL

ASSUME QueueAssumption == IsFiniteSet(Nodes) /\ NULL \notin Nodes

Links == [prev : Nodes \cup {NULL}, next : Nodes \cup {NULL}, queue : Queues \cup {NULL}]
Headers == [head : Nodes \cup {NULL}, tail : Nodes \cup {NULL}, length : 0 .. Cardinality(Nodes)]

\* queue_new leaves an empty header.
EmptyHeader == [head |-> NULL, tail |-> NULL, length |-> 0]

(***************************************************************************)
(* queue_append: the test is on the length, the link is through the tail,  *)
(* and the node's own links are overwritten whatever list they were in.    *)
(***************************************************************************)
QueueAppend(h, q, n) ==
    LET empty  == h.queue[q].length = 0
        linked == IF empty THEN h.node
                  ELSE [h.node EXCEPT ![h.queue[q].tail].next = n]
    IN  [node  |-> [linked EXCEPT ![n] = [prev |-> h.queue[q].tail, next |-> NULL, queue |-> q]],
         queue |-> [h.queue EXCEPT ![q] = [head   |-> IF empty THEN n ELSE @.head,
                                           tail   |-> n,
                                           length |-> @.length + 1]]]

QueuePrepend(h, q, n) ==
    LET empty  == h.queue[q].length = 0
        linked == IF empty THEN h.node
                  ELSE [h.node EXCEPT ![h.queue[q].head].prev = n]
    IN  [node  |-> [linked EXCEPT ![n] = [prev |-> NULL, next |-> h.queue[q].head, queue |-> q]],
         queue |-> [h.queue EXCEPT ![q] = [head   |-> n,
                                           tail   |-> IF empty THEN n ELSE @.tail,
                                           length |-> @.length + 1]]]

\* queue_delete refuses an item whose back pointer names another queue.
CanDelete(h, q, n) == n # NULL /\ h.queue[q].length > 0 /\ h.node[n].queue = q

\* Mutant of QueueDelete: length is left as it was.
QueueDeleteUncounted(h, q, n) ==
    IF ~CanDelete(h, q, n) THEN h
    ELSE LET p == h.node[n].prev
             x == h.node[n].next
             joined == [m \in Nodes |->
                          [prev  |-> IF m = x THEN p ELSE h.node[m].prev,
                           next  |-> IF m = p THEN x ELSE h.node[m].next,
                           queue |-> h.node[m].queue]]
         IN  [node  |-> [joined EXCEPT ![n].prev = NULL, ![n].next = NULL],
              queue |-> [h.queue EXCEPT ![q].head = IF p = NULL THEN x ELSE @,
                                        ![q].tail = IF x = NULL THEN p ELSE @]]

\* Mutant of QueueDelete: the successor's prev is left as it was.
QueueDeleteForward(h, q, n) ==
    IF ~CanDelete(h, q, n) THEN h
    ELSE LET p == h.node[n].prev
             x == h.node[n].next
             joined == IF p = NULL THEN h.node ELSE [h.node EXCEPT ![p].next = x]
         IN  [node  |-> [joined EXCEPT ![n].prev = NULL, ![n].next = NULL],
              queue |-> [h.queue EXCEPT ![q] = [head   |-> IF p = NULL THEN x ELSE @.head,
                                                tail   |-> IF x = NULL THEN p ELSE @.tail,
                                                length |-> @.length - 1]]]

(***************************************************************************)
(* queue_delete: the neighbours (or the header, at an end) are joined, and *)
(* the node keeps its back pointer.                                        *)
(***************************************************************************)
QueueDelete(h, q, n) ==
    IF ~CanDelete(h, q, n) THEN h
    ELSE LET p == h.node[n].prev
             x == h.node[n].next
             joined == [m \in Nodes |->
                          [prev  |-> IF m = x THEN p ELSE h.node[m].prev,
                           next  |-> IF m = p THEN x ELSE h.node[m].next,
                           queue |-> h.node[m].queue]]
         IN  [node  |-> [joined EXCEPT ![n].prev = NULL, ![n].next = NULL],
              queue |-> [h.queue EXCEPT ![q] = [head   |-> IF p = NULL THEN x ELSE @.head,
                                                tail   |-> IF x = NULL THEN p ELSE @.tail,
                                                length |-> @.length - 1]]]

\* queue_dequeue: *item is the head, taken out only if queue_delete agrees.
QueueHead(h, q) == h.queue[q].head
Dequeued(h, q) == CanDelete(h, q, QueueHead(h, q))

\* Mutant of QueueDequeue: the item that came last is taken.
QueueDequeueLast(h, q) == QueueDelete(h, q, h.queue[q].tail)

QueueDequeue(h, q) == QueueDelete(h, q, QueueHead(h, q))

-----------------------------------------------------------------------------
VARIABLES node,     \* node[n]: the links of item n
          queue     \* queue[q]: the header of queue q

vars == <<node, queue>>
heap == [node |-> node, queue |-> queue]

\* The items met from the head of q along the next pointers, length of them.
Walk(h, q) ==
    LET at[i \in 1 .. Cardinality(Nodes)] ==
            IF i = 1 THEN h.queue[q].head
            ELSE IF at[i - 1] = NULL THEN NULL ELSE h.node[at[i - 1]].next
    IN  SubSeq(at, 1, Cardinality({i \in DOMAIN at : at[i] # NULL}))

Linked(n) == \E q \in Queues : n \in ToSet(Walk(heap, q))

\* A fresh thread control block: prev and next are NULL, queue is whatever malloc returned.
Init == /\ node \in [Nodes -> [prev : {NULL}, next : {NULL}, queue : Queues \cup {NULL}]]
        /\ queue = [q \in Queues |-> EmptyHeader]

Becomes(h) == node' = h.node /\ queue' = h.queue

AppendItem(q, n) == ~Linked(n) /\ Becomes(QueueAppend(heap, q, n))
PrependItem(q, n) == ~Linked(n) /\ Becomes(QueuePrepend(heap, q, n))
DequeueItem(q) == Becomes(QueueDequeue(heap, q))

\* bread takes a cached block out of the LRU list: an item that is in some queue.
DeleteItem(q, n) == Linked(n) /\ Becomes(QueueDelete(heap, q, n))

Next == \E q \in Queues :
            \/ DequeueItem(q)
            \/ \E n \in Nodes : \/ AppendItem(q, n)
                                \/ PrependItem(q, n)
                                \/ DeleteItem(q, n)

Spec == Init /\ [][Next]_vars
-----------------------------------------------------------------------------
TypeOK == node \in [Nodes -> Links] /\ queue \in [Queues -> Headers]

(***************************************************************************)
(* Both directions of every list agree with its header: the next pointers  *)
(* from the head and the prev pointers from the tail meet the same items,  *)
(* as many as length says, each naming its queue, and an empty header has  *)
(* neither end.                                                            *)
(***************************************************************************)
WellLinked ==
    \A q \in Queues :
        LET s == Walk(heap, q)
        IN  /\ queue[q].length = Len(s)
            /\ queue[q].head = (IF s = << >> THEN NULL ELSE s[1])
            /\ queue[q].tail = (IF s = << >> THEN NULL ELSE s[Len(s)])
            /\ \A i \in DOMAIN s :
                  /\ node[s[i]].queue = q
                  /\ node[s[i]].prev = (IF i = 1 THEN NULL ELSE s[i - 1])
                  /\ node[s[i]].next = (IF i = Len(s) THEN NULL ELSE s[i + 1])

Abstract == INSTANCE QueueSpec WITH contents <- [q \in Queues |-> Walk(heap, q)]

(***************************************************************************)
(* Every operation has the effect that queue.h promises on the contents:   *)
(* append and prepend at their end, dequeue the item that came first,      *)
(* delete the named one and no other, and none disturbs another queue.     *)
(***************************************************************************)
StepsImplement ==
    \A q \in Queues :
        /\ DequeueItem(q) => Abstract!TakeHead(q) \/ (Walk(heap, q) = << >> /\ UNCHANGED vars)
        /\ \A n \in Nodes :
              /\ AppendItem(q, n) => Abstract!Append2Tail(q, n)
              /\ PrependItem(q, n) => Abstract!Put2Head(q, n)
              /\ DeleteItem(q, n) => Abstract!TakeOut(q, n) \/ (n \notin ToSet(Walk(heap, q)) /\ UNCHANGED vars)

\* The lists start empty and every operation has that effect.
OperationsImplement == Abstract!Init /\ [][StepsImplement]_vars
=============================================================================
