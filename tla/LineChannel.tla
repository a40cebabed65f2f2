---------------------------- MODULE LineChannel ----------------------------
(***************************************************************************)
(* What the agent relies on the virtio channel for: messages go in whole   *)
(* and come out whole, each once, in the order they were completed.        *)
(***************************************************************************)
EXTENDS Sequences

CONSTANT Message

VARIABLES queue,   \* messages on their way
          got      \* messages the other side has taken, oldest first

vars == <<queue, got>>

Init == queue = <<>> /\ got = <<>>

Send(m) == queue' = Append(queue, m) /\ UNCHANGED got

Deliver ==
    /\ queue # <<>>
    /\ got' = Append(got, Head(queue))
    /\ queue' = Tail(queue)

Next == Deliver \/ \E m \in Message : Send(m)

Spec == Init /\ [][Next]_vars

FairSpec == Spec /\ WF_vars(Deliver)
=============================================================================
