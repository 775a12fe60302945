------------------------------ MODULE QueueSpec ------------------------------
(***************************************************************************)
(* What queue.h promises: a family of FIFO queues that also accept items   *)
(* at the front and give up a named member.  An item is in one queue at    *)
(* most, because it carries the links of the list it is in.                *)
(***************************************************************************)
EXTENDS Naturals, Sequences, SequencesExt

CONSTANTS Nodes,    \* the items: anything that starts with a struct node
          Queues    \* the queues

VARIABLE contents   \* contents[q]: the items of q, the next one out first

Free == {n \in Nodes : \A q \in Queues : n \notin ToSet(contents[q])}

Init == contents = [q \in Queues |-> << >>]

Append2Tail(q, n) ==
    /\ n \in Free
    /\ contents' = [contents EXCEPT ![q] = Append(@, n)]

Put2Head(q, n) ==
    /\ n \in Free
    /\ contents' = [contents EXCEPT ![q] = <<n>> \o @]

TakeHead(q) ==
    /\ contents[q] # << >>
    /\ contents' = [contents EXCEPT ![q] = Tail(@)]

TakeOut(q, n) ==
    \E i \in DOMAIN contents[q] :
        /\ contents[q][i] = n
        /\ contents' = [contents EXCEPT ![q] = RemoveAt(@, i)]

Next == \E q \in Queues :
            \/ TakeHead(q)
            \/ \E n \in Nodes : \/ Append2Tail(q, n)
                                \/ Put2Head(q, n)
                                \/ TakeOut(q, n)

Spec == Init /\ [][Next]_contents
=============================================================================
