---------------------------- MODULE AtomicDeque ----------------------------
(* What a worker's deque promises: a sequence of items whose owner pushes   *)
(* and pops at the end and whose thieves take from the front, each in one   *)
(* step, so that an item goes to one of them only.  An operation that finds *)
(* nothing, or loses its race, changes nothing.                             *)
EXTENDS Naturals, Sequences

CONSTANT Items

VARIABLES
    fresh,   \* the items nobody has pushed yet
    queue,   \* the items in the deque, oldest first
    out      \* the items handed out

vars == <<fresh, queue, out>>

Init ==
    /\ fresh = Items
    /\ queue = <<>>
    /\ out = {}

Push ==
    /\ \E i \in fresh : fresh' = fresh \ {i} /\ queue' = Append(queue, i)
    /\ UNCHANGED out

Pop ==
    /\ queue # <<>>
    /\ queue' = SubSeq(queue, 1, Len(queue) - 1)
    /\ out' = out \cup {queue[Len(queue)]}
    /\ UNCHANGED fresh

Steal ==
    /\ queue # <<>>
    /\ queue' = Tail(queue)
    /\ out' = out \cup {Head(queue)}
    /\ UNCHANGED fresh

Next == Push \/ Pop \/ Steal

Spec == Init /\ [][Next]_vars
=============================================================================
