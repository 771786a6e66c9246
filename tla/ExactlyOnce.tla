----------------------------- MODULE ExactlyOnce -----------------------------
(***************************************************************************)
(* What the "exactly-once" flow of the entity-sentiment processor promises *)
(* to the readers of its output, with no processor, no transaction and no  *)
(* consumer group in sight: the input of every partition is consumed from  *)
(* the front, and whenever a stretch of it counts as consumed, its outputs *)
(* appear in the same instant, one per accepted article, in input order.   *)
(* SentimentProcessor is shown to implement this module.                   *)
(***************************************************************************)
EXTENDS Integers, Sequences

CONSTANT Partitions

VARIABLES input,      \* articles of every partition, by what becomes of them
          consumed,   \* how many of them count as consumed
          emitted     \* committed results and dead letters, by input partition

vars == <<input, consumed, emitted>>

\* "good" yields a result, "rejected" is filtered out by its headline, "bad"
\* cannot be parsed or analysed.
Articles == {"good", "rejected", "bad"}

Outputs == [kind : {"result", "dlq"}, off : Nat \ {0}]

\* out holds exactly one output for every accepted article among the offsets
\* lo+1..hi of in, in offset order; an unusable article can only be a dead letter.
Covers(out, in, lo, hi) ==
    /\ \A n \in 1..Len(out) :
         /\ lo < out[n].off
         /\ out[n].off <= hi
         /\ in[out[n].off] # "rejected"
         /\ in[out[n].off] = "bad" => out[n].kind = "dlq"
    /\ \A m, n \in 1..Len(out) : m < n => out[m].off < out[n].off
    /\ \A o \in (lo + 1)..hi :
         in[o] # "rejected" => \E n \in 1..Len(out) : out[n].off = o

Extends(s, t) == Len(s) <= Len(t) /\ \A n \in 1..Len(s) : t[n] = s[n]

Init ==
    /\ input = [p \in Partitions |-> <<>>]
    /\ consumed = [p \in Partitions |-> 0]
    /\ emitted = [p \in Partitions |-> <<>>]

Arrive(p, a) ==
    /\ input' = [input EXCEPT ![p] = Append(@, a)]
    /\ UNCHANGED <<consumed, emitted>>

Advance ==
    /\ UNCHANGED input
    /\ \A p \in Partitions :
         /\ consumed[p] <= consumed'[p]
         /\ consumed'[p] <= Len(input[p])
         /\ Extends(emitted[p], emitted'[p])
         /\ Covers(emitted'[p], input[p], 0, consumed'[p])

Next ==
    \/ \E p \in Partitions, a \in Articles : Arrive(p, a)
    \/ Advance

Spec == Init /\ [][Next]_vars
=============================================================================
