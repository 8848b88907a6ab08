---------------------------- MODULE ChatContract ----------------------------
(***************************************************************************)
(* What adapter.Chat promises whoever holds one, the live chat and its     *)
(* handlers (internal/adapter/adapter.go): turns come one at a time, a     *)
(* turn that is stopped goes on until it has settled, a chat is idle as    *)
(* soon as and no sooner than nothing drives its session, and a message    *)
(* that was accepted reaches the session at most once, during a turn, and  *)
(* never after the runtime has dropped it.                                 *)
(*                                                                         *)
(* Threads, queues, locks and generations are means to this end: both the  *)
(* docker-agent adapter (DagentChat) and the double that the tests of the  *)
(* server run on (FakeChat) are shown to keep it.                          *)
(***************************************************************************)

CONSTANT Messages  \* the messages there may be

VARIABLES run,        \* RunStatus().State
          driving,    \* something drives the session: a turn or its beginning
          closed,     \* Close has been called
          waiting,    \* the messages that were accepted and not yet delivered
          delivered,  \* the messages the session has got
          lost        \* the messages that were accepted and given up

chatVars == <<run, driving, closed, waiting, delivered, lost>>

Init == /\ run = "idle" /\ driving = FALSE /\ closed = FALSE
        /\ waiting = {} /\ delivered = {} /\ lost = {}

\* Some of the waiting messages, or none, are given up.
Dropping == /\ waiting' \subseteq waiting
            /\ lost' = lost \cup (waiting \ waiting')

\* A turn begins.
Begin == /\ run = "idle" /\ ~driving
         /\ run' = "running" /\ driving' = TRUE
         /\ UNCHANGED <<closed, waiting, delivered, lost>>

\* A running turn is asked to stop.
Stop == /\ run = "running"
        /\ run' = "stopping"
        /\ Dropping
        /\ UNCHANGED <<driving, closed, delivered>>

\* The turn is over: only whoever drives the session says so.
Settle == /\ driving /\ run # "idle"
          /\ run' = "idle" /\ driving' = FALSE
          /\ Dropping
          /\ UNCHANGED <<closed, delivered>>

\* The turn of a chat that was closed may end unreported.
Leave == /\ closed /\ driving
         /\ driving' = FALSE
         /\ UNCHANGED <<run, closed, waiting, delivered, lost>>

Close == /\ ~closed
         /\ closed' = TRUE
         /\ UNCHANGED <<run, driving, waiting, delivered, lost>>

\* A message is queued.
Accept(m) == /\ m \notin waiting \cup delivered \cup lost
             /\ waiting' = waiting \cup {m}
             /\ UNCHANGED <<run, driving, closed, delivered, lost>>

\* Messages reach the session, from a queue or with the request itself.
Deliver(S) == /\ driving
              /\ S \cap (delivered \cup lost) = {}
              /\ delivered' = delivered \cup S
              /\ waiting' = waiting \ S
              /\ UNCHANGED <<run, driving, closed, lost>>

Drop == Dropping /\ UNCHANGED <<run, driving, closed, delivered>>

Next == \/ Begin \/ Stop \/ Settle \/ Leave \/ Close \/ Drop
        \/ \E m \in Messages : Accept(m)
        \/ \E S \in SUBSET Messages : Deliver(S)

Spec == Init /\ [][Next]_chatVars

\* A turn that was asked to stop settles, unless the chat is closed first.
StopsSettle == run = "stopping" ~> (run # "stopping" \/ closed)
=============================================================================
