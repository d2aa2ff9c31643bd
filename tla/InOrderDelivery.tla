-------------------------- MODULE InOrderDelivery --------------------------
(***************************************************************************)
(* What one direction of a ratchet session promises: the texts handed out  *)
(* are texts that were sent, each at most once and in the order of         *)
(* sending; texts may be passed over, and those are never handed out.      *)
(***************************************************************************)
EXTENDS Naturals, Sequences

CONSTANT Text

VARIABLES sent,  \* the texts sent, in order
          got,   \* the texts handed out, each with its number
          next   \* no text with a smaller number will be handed out any more

vars == <<sent, got, next>>

Init == sent = <<>> /\ got = <<>> /\ next = 0

Send(t) == sent' = Append(sent, t) /\ UNCHANGED <<got, next>>

Deliver(i) == /\ next <= i /\ i < Len(sent)
              /\ got' = Append(got, [number |-> i, text |-> sent[i + 1]])
              /\ next' = i + 1
              /\ UNCHANGED sent

PassOver == /\ next' \in Nat /\ next' > next
            /\ UNCHANGED <<sent, got>>

Next == \/ \E t \in Text : Send(t)
        \/ \E i \in 0..(Len(sent) - 1) : Deliver(i)
        \/ PassOver

Spec == Init /\ [][Next]_vars

\* What this comes to: each text handed out is the one sent under its number,
\* and the numbers only grow, so none is handed out twice.
Ordered ==
  /\ \A i \in 1..Len(got) : /\ got[i].number < Len(sent)
                           /\ got[i].text = sent[got[i].number + 1]
  /\ \A i, j \in 1..Len(got) : i < j => got[i].number < got[j].number
=============================================================================
