------------------------------ MODULE Delivery ------------------------------
(***************************************************************************)
(* What net::http::client promises: messages wait in the order in which    *)
(* they were queued, and the oldest one is ended - answered or given up -  *)
(* before the next one.  None is lost, repeated or overtaken.              *)
(***************************************************************************)
EXTENDS Naturals, Sequences

CONSTANT Message

VARIABLE waiting

Init == waiting = << >>

Queue ==
  LET n == Len(waiting) + 1
  IN  Len(waiting') = n /\ waiting'[n] \in Message /\ waiting' = Append(waiting, waiting'[n])

End == waiting # << >> /\ waiting' = Tail(waiting)

Next == Queue \/ End

Spec == Init /\ [][Next]_waiting

============================================================================
