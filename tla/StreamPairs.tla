----------------------------- MODULE StreamPairs -----------------------------
(***************************************************************************)
(* What a multiplexed connection promises to the two programs that share   *)
(* it: each direction of each stream is a queue of its own.  A reader gets *)
(* what was written, in order and once; it is told that the stream has     *)
(* ended only when it has everything that was written before the other end *)
(* closed, unless the connection itself is lost; and after an end or an    *)
(* error it gets nothing.                                                  *)
(***************************************************************************)
EXTENDS Naturals

CONSTANTS Ends,     \* the two programs
          Streams   \* the streams they ever open

VARIABLES sent,     \* sent[e][s]: units e has written to s
          final,    \* final[e][s]: whether e has closed s
          got,      \* got[e][s]: units e has read from s
          ended,    \* ended[e][s]: what e's reader of s has been told
          lost      \* lost[e]: whether e has lost the connection

Peer(e) == CHOOSE f \in Ends : f # e

PairsInit == /\ sent = [e \in Ends |-> [s \in Streams |-> 0]]
             /\ final = [e \in Ends |-> [s \in Streams |-> FALSE]]
             /\ got = [e \in Ends |-> [s \in Streams |-> 0]]
             /\ ended = [e \in Ends |-> [s \in Streams |-> "open"]]
             /\ lost = [e \in Ends |-> FALSE]

Put(e, s) == /\ ~final[e][s]
             /\ sent' = [sent EXCEPT ![e][s] = @ + 1]
             /\ UNCHANGED <<final, got, ended, lost>>

Finish(e, s) == /\ final' = [final EXCEPT ![e][s] = TRUE]
                /\ UNCHANGED <<sent, got, ended, lost>>

Get(e, s) == /\ ended[e][s] = "open"
             /\ got[e][s] < sent[Peer(e)][s]
             /\ got' = [got EXCEPT ![e][s] = @ + 1]
             /\ UNCHANGED <<sent, final, ended, lost>>

End(e, s) == /\ ended[e][s] = "open"
             /\ lost[e] \/ (final[Peer(e)][s] /\ got[e][s] = sent[Peer(e)][s])
             /\ ended' = [ended EXCEPT ![e][s] = "eof"]
             /\ UNCHANGED <<sent, final, got, lost>>

Fail(e, s) == /\ ended[e][s] = "open"
              /\ ended' = [ended EXCEPT ![e][s] = "error"]
              /\ UNCHANGED <<sent, final, got, lost>>

Lose(e) == /\ lost' = [lost EXCEPT ![e] = TRUE]
           /\ UNCHANGED <<sent, final, got, ended>>

PairsNext == \/ \E e \in Ends : Lose(e)
             \/ \E e \in Ends, s \in Streams :
                  Put(e, s) \/ Finish(e, s) \/ Get(e, s) \/ End(e, s) \/ Fail(e, s)

PairsSpec == PairsInit /\ [][PairsNext]_<<sent, final, got, ended, lost>>
=============================================================================
