--------------------------- MODULE AuthUpdateFeed ---------------------------
(***************************************************************************)
(* What the way from the watcher to the credential manager promises: the    *)
(* states of one credential are applied in the order in which they were     *)
(* published, one that is overtaken before it is applied may be skipped,    *)
(* and the last one is always applied.                                      *)
(***************************************************************************)
EXTENDS Sequences, SequencesExt

CONSTANTS Id,     \* credentials
          Value   \* the states they may be in, being gone is one

VARIABLES view,     \* the state of each credential the manager has applied
          backlog   \* the states of each that are on their way, oldest first

vars == <<view, backlog>>

Init == /\ view \in [Id -> Value]
        /\ backlog = [i \in Id |-> <<>>]

\* b with one more state u, which may take the place of the last one.
Grown(b, u) ==
  {Append(b, u)} \cup
  IF b = <<>> THEN {} ELSE {Append(Front(b), u)}

Publish ==
  /\ DOMAIN backlog' = Id
  /\ \A i \in Id : \/ backlog'[i] = backlog[i]
                   \/ \E u \in Value : backlog'[i] \in Grown(backlog[i], u)
  /\ UNCHANGED view

Deliver(i) ==
  /\ backlog[i] # <<>>
  /\ view' = [view EXCEPT ![i] = Head(backlog[i])]
  /\ backlog' = [backlog EXCEPT ![i] = Tail(@)]

Next == Publish \/ \E i \in Id : Deliver(i)

InOrder == Init /\ [][Next]_vars

Spec == InOrder /\ \A i \in Id : WF_vars(Deliver(i))

=============================================================================
