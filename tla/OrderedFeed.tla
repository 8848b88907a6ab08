---------------------------- MODULE OrderedFeed ----------------------------
(***************************************************************************)
(* What the event stream of one chat promises its browsers, whatever the  *)
(* transport does: there is one history, it only grows, and what a client *)
(* has on the screen is always a prefix of it that never shrinks.         *)
(* Sequence numbers, the ring buffer, snapshots, dropped subscribers and  *)
(* reconnects are all means to this end; EventLog is shown to keep it.    *)
(***************************************************************************)
EXTENDS Naturals, Sequences

CONSTANT Clients

VARIABLES history,  \* what the chat has published, in order
          view      \* view[c]: what client c has reduced into its state

feedVars == <<history, view>>

Prefix(n) == SubSeq(history, 1, n)

Init == /\ history = <<>>
        /\ view = [c \in Clients |-> <<>>]

Record == /\ history' = Append(history, Len(history) + 1)
          /\ UNCHANGED view

Reveal(c) == /\ \E n \in Len(view[c])..Len(history) :
                   view' = [view EXCEPT ![c] = Prefix(n)]
             /\ UNCHANGED history

Next == Record \/ \E c \in Clients : Reveal(c)

Spec == Init /\ [][Next]_feedVars
=============================================================================
