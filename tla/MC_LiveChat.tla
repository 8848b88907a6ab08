----------------------------- MODULE MC_LiveChat -----------------------------
(***************************************************************************)
(* A docker-agent chat, and the two timelines that the server and the      *)
(* browser make of its events: a behaviour exercises one of them, "part",  *)
(* and the other stays in its initial state.                               *)
(***************************************************************************)
EXTENDS DagentChat

VARIABLES
  part,
  \* Timeline
  turn, phase, wait, emitted, turns, snapshots, curAssistant, made, partial, approving, armed,
  aborting, items, view, forgotten

lineVars == <<turn, phase, wait, emitted, turns, snapshots, curAssistant, made, partial,
              approving, armed, aborting, items, view, forgotten>>

Line == INSTANCE Timeline WITH
  Tools <- {"tool"}, Outputs <- {0, 2}, PreviewLimit <- 1, MaxItems <- 2, MaxEvents <- 4,
  MaxTurns <- 1, MaxSnapshots <- 1

Parts_Init == /\ part \in {"runtime", "timeline"}
              /\ Init /\ Line!Init

\* Bound: the last message is not for a chat that is being closed.
FewMessages == \/ \A t \in Close_ : pc[t] = "start"
               \/ sent + 1 < MaxSends
               \/ sent < MaxSends /\ \A t \in Send_ : pc[t] \notin {"turn", "enqueue"}

Parts_Next ==
  \/ part = "runtime" /\ Next /\ FewMessages' /\ UNCHANGED <<part, lineVars>>
  \/ part = "timeline" /\ Line!Next /\ UNCHANGED <<part, vars>>

Parts == Parts_Init /\ [][Parts_Next]_<<part, vars, lineVars>>

Symmetry == Permutations(Senders)

-----------------------------------------------------------------------------
(* But for what Timeline!ReducersAgree names, what the browser has made of the events is
   what a snapshot would show (applyLocked, reduce), and both tell what the runtime did:
   one message streams at a time, a tool keeps the arguments of its call and a
   confirmation the runtime waits for gets its answer (normalize, autoApprove). *)
BrowserShowsTruth ==
  Line!ReducersAgree /\ Line!StreamingIsCurrent /\ Line!ArgumentsKept /\ Line!ApprovalComes
=============================================================================
