------------------------------- MODULE MC_Chats -------------------------------
(***************************************************************************)
(* The two implementations of adapter.Chat under the same fairness, in one *)
(* run: a behaviour exercises one of them, "part", and the other stays in  *)
(* its initial state, where nothing that fairness obliges is enabled.  The *)
(* double is exercised twice, beside requests that change settings and     *)
(* beside requests that stop a turn.  The variables rt... are those of     *)
(* DagentChat.                                                             *)
(***************************************************************************)
EXTENDS FakeChat

CONSTANTS QueueCapacity, MaxChunks

VARIABLES
  part,
  rtRun, rtShown, rtGeneration, rtCancel, rtCancelled, rtClosed, rtSpeaking, rtDispatch,
  rtQueue, rtTranscript, rtSent, rtPc, rtRet, rtLocal, rtEvents, rtChunks, rtLive

rtVars == <<rtRun, rtShown, rtGeneration, rtCancel, rtCancelled, rtClosed, rtSpeaking,
            rtDispatch, rtQueue, rtTranscript, rtSent, rtPc, rtRet, rtLocal, rtEvents,
            rtChunks, rtLive>>

Runtime == INSTANCE DagentChat WITH
  Closers <- {}, MaxSends <- 2, run <- rtRun, shownQueue <- rtShown, generation <- rtGeneration,
  cancel <- rtCancel, cancelled <- rtCancelled, closed <- rtClosed, speaking <- rtSpeaking,
  dispatch <- rtDispatch, queue <- rtQueue, transcript <- rtTranscript, sent <- rtSent,
  pc <- rtPc, ret <- rtRet, local <- rtLocal, events <- rtEvents, chunks <- rtChunks,
  live <- rtLive

Chats_Init == part \in {"double", "stopped double", "runtime"} /\ Init /\ Runtime!Init

\* The requests that the behaviour is without do not begin.
Absent == IF part = "double" THEN Abort_ ELSE Config_

Chats_Next == \/ /\ part # "runtime" /\ Next /\ UNCHANGED <<part, rtVars>>
                 /\ \A t \in Absent : pc'[t] = "start"
              \/ part = "runtime" /\ Runtime!Next /\ UNCHANGED <<part, vars>>

Chats == /\ Chats_Init /\ [][Chats_Next]_<<part, vars, rtVars>>
         /\ Fairness /\ Runtime!Fairness

-----------------------------------------------------------------------------
\* An aborted turn comes to its end, through all that settle has to do, unless
\* the chat is closed (Abort, runLoop and script, settle).  Nothing obliges a
\* request to close the chat.
AbortSettles == Contract!StopsSettle /\ Runtime!AbortSettles
=============================================================================
