----------------------------- MODULE LineChannel -----------------------------
(***************************************************************************)
(* What the response path promises: a first-in first-out channel of lines. *)
(* Producers put lines in, one sender takes them out in that order, and a  *)
(* line that went in comes out at most once.  Only the build that          *)
(* overwrites (MayDiscard) may drop lines it had accepted, and then a      *)
(* contiguous run of them.                                                 *)
(***************************************************************************)
EXTENDS Naturals, Sequences

CONSTANTS Line,        \* the lines
          MayDiscard   \* TRUE in the RESPONSE_FIFO_OVERWRITE_OLDEST build

VARIABLES queue,       \* accepted and not yet out, oldest first
          out          \* every line that came out, oldest first

vars == <<queue, out>>

Init == queue = <<>> /\ out = <<>>

Accept(l) ==
    /\ queue' = Append(queue, l)
    /\ UNCHANGED out

\* Accept l after dropping the lines a+1 .. b of the queue.
AcceptDiscarding(l, a, b) ==
    /\ MayDiscard
    /\ queue' = Append(SubSeq(queue, 1, a) \o SubSeq(queue, b + 1, Len(queue)), l)
    /\ UNCHANGED out

Deliver ==
    /\ queue # <<>>
    /\ out' = Append(out, Head(queue))
    /\ queue' = Tail(queue)

Next ==
    \/ \E l \in Line : Accept(l)
    \/ \E l \in Line, b \in 0..Len(queue) : \E a \in 0..b : AcceptDiscarding(l, a, b)
    \/ Deliver

SafeSpec == Init /\ [][Next]_vars

Spec == SafeSpec /\ WF_vars(Deliver)
=============================================================================
