------------------------------ MODULE Channel ------------------------------
(***************************************************************************)
(* What the message queue promises to the pallets: the messages of one     *)
(* sender are handled in the order in which they are due, each of them     *)
(* once, whoever carries them.                                             *)
(***************************************************************************)
EXTENDS Sequences, Naturals

CONSTANT Sender

VARIABLES sent,    \* the messages due, for each sender
          handled  \* those the chain has handled

vars == <<sent, handled>>

Prefix(s, t) == Len(s) <= Len(t) /\ \A i \in 1..Len(s) : s[i] = t[i]

Init ==
    /\ sent = [s \in Sender |-> <<>>]
    /\ handled = [s \in Sender |-> <<>>]

Send ==
    /\ DOMAIN sent' = Sender
    /\ \A s \in Sender : Prefix(sent[s], sent'[s])
    /\ UNCHANGED handled

Handle(s) ==
    /\ Len(handled[s]) < Len(sent[s])
    /\ handled' = [handled EXCEPT ![s] = Append(@, sent[s][Len(handled[s]) + 1])]
    /\ UNCHANGED sent

Next == Send \/ \E s \in Sender : Handle(s)

Spec == Init /\ [][Next]_vars
=============================================================================
