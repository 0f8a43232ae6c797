------------------------------ MODULE LockStep ------------------------------
(* What policy/wire.py promises a rollout: the metadata comes first, then every *)
(* observation has exactly one answer before the next observation is sent, and *)
(* the n-th answer is the one made for the n-th observation.                   *)
EXTENDS Naturals, Sequences

CONSTANT Conns

VARIABLES
    stage,  \* per connection: "new", "ready", "asked" or "over"
    asked,  \* observations sent
    heard   \* for each answer taken, the observation it was made for

Init == /\ stage = [c \in Conns |-> "new"] /\ asked = [c \in Conns |-> 0]
        /\ heard = [c \in Conns |-> <<>>]

Greet(c) == /\ stage[c] = "new" /\ stage' = [stage EXCEPT ![c] = "ready"]
            /\ UNCHANGED <<asked, heard>>

Ask(c) == /\ stage[c] = "ready" /\ stage' = [stage EXCEPT ![c] = "asked"]
          /\ asked' = [asked EXCEPT ![c] = @ + 1] /\ UNCHANGED heard

Answer(c) == /\ stage[c] = "asked"
             /\ \E next \in {"ready", "over"} : stage' = [stage EXCEPT ![c] = next]
             /\ heard' = [heard EXCEPT ![c] = Append(@, asked[c])] /\ UNCHANGED asked

End(c) == /\ stage[c] # "over" /\ stage' = [stage EXCEPT ![c] = "over"]
          /\ UNCHANGED <<asked, heard>>

Next == \E c \in Conns : Greet(c) \/ Ask(c) \/ Answer(c) \/ End(c)

Spec == Init /\ [][Next]_<<stage, asked, heard>>
=============================================================================
