-------------------------------- MODULE Timeline --------------------------------
(***************************************************************************)
(* One turn after the other of a docker-agent chat, from the events of the *)
(* runtime (normalize) to the timeline of the server (applyLocked) and the *)
(* one of a browser (reduce).  The browser follows the events in step; it  *)
(* may at any time start again from a snapshot.  That the events arrive in *)
(* order is the subject of EventLog.  A text is the number of its chunks,  *)
(* an output its length.  Run status, usage and metadata are single values *)
(* that both sides replace and are left out.                               *)
(***************************************************************************)
EXTENDS Naturals, SequencesExt

CONSTANTS Tools,         \* identifiers of tool calls
          Outputs,       \* lengths of what a tool says, 0 among them
          PreviewLimit,  \* length of an output that is shown whole (previewLimit)
          MaxItems,      \* items the server keeps (maxItems)
          MaxEvents, MaxTurns, MaxSnapshots  \* bounds

VARIABLES
  \* the runtime
  turn,       \* "none", "running", or "ending": cancelled or stopped
  phase,      \* of each tool call
  wait,       \* what the runtime waits for an answer to
  emitted, turns, snapshots,  \* events, turns and snapshots so far
  \* the chat of the adapter
  curAssistant,        \* curAssistant, 0 if none
  made,       \* assistantSeq
  partial,    \* partialTools: chunks of arguments merged
  approving,  \* autoApproving
  armed,      \* goroutines of autoApprove about to call Resume
  aborting,   \* Abort has cleared autoApproving and not cancelled yet
  \* the timelines
  items, view,
  forgotten   \* items the server has dropped, which may come back

runtimeVars == <<turn, phase, wait, emitted, turns>>
chatVars == <<curAssistant, made, partial, approving, armed, aborting>>
timelineVars == <<items, view, forgotten>>
lineVars == <<runtimeVars, chatVars, timelineVars, snapshots>>

FullArgs == 2  \* chunks the arguments of a call come in
Nothing == [call |-> "none", listening |-> FALSE]

Init ==
  /\ turn = "none" /\ phase = [t \in Tools |-> "unknown"] /\ wait = Nothing
  /\ emitted = 0 /\ turns = 0 /\ snapshots = 0
  /\ curAssistant = 0 /\ made = 0 /\ partial = [t \in Tools |-> 0] /\ approving = {} /\ armed = {}
  /\ aborting = FALSE
  /\ items = <<>> /\ view = <<>> /\ forgotten = {}

-----------------------------------------------------------------------------
(* Items and events.                                                         *)

Message(who, n) == [key |-> <<"m", who, n>>, text |-> 0, reasoning |-> 0,
                    streaming |-> who = "a", cost |-> 0]
Tool(t, st, args, out) ==
  [key |-> <<"t", t>>, state |-> st, args |-> args, preview |-> out, bytes |-> out,
   truncated |-> FALSE, isError |-> st \in {"error", "rejected"}]
Other(kind, n) == [key |-> <<kind, n>>]  \* "x" a transfer, "n" a notice, "s" a summary

Item(it) == [type |-> "item", item |-> it]
Delta(id, field) == [type |-> "delta", id |-> id, field |-> field]
End(id) == [type |-> "end", id |-> id]
Start(it) == [type |-> "tool", item |-> it]   \* tool_start and tool_end
Update(it) == [type |-> "update", item |-> it]

Index(its, key) == SelectInSeq(its, LAMBDA it : it.key = key)
Keys(its) == {its[i].key : i \in DOMAIN its}

(* The same changes on both sides.                                           *)
Patch(its, id, field) ==
  LET i == Index(its, <<"m", "a", id>>) IN
  IF i = 0 THEN its
  ELSE [its EXCEPT ![i] = IF field = "end" THEN [@ EXCEPT !.streaming = FALSE]
                          ELSE [@ EXCEPT ![field] = @ + 1, !.streaming = TRUE]]

-----------------------------------------------------------------------------
(* The server.                                                               *)

\* Mutant: an item that changes moves to the end.
UpsertLast(its, it) == Append(SelectSeq(its, LAMBDA old : old.key # it.key), it)

\* upsertLocked: the oldest item makes room for a new one.
Upsert(its, it) ==
  LET i == Index(its, it.key) IN
  IF i # 0 THEN [its EXCEPT ![i] = it]
  ELSE Append(IF Len(its) >= MaxItems THEN Tail(its) ELSE its, it)

MergedNever(its, in) == in  \* Mutant: an update replaces what is known of the call

\* mergeToolLocked: what an event does not say stays.
Merged(its, in) ==
  LET i == Index(its, in.key) IN
  IF i = 0 THEN in
  ELSE [in EXCEPT !.args = IF @ > 0 THEN @ ELSE its[i].args,
                  !.preview = IF @ > 0 THEN @ ELSE its[i].preview,
                  !.bytes = IF in.preview > 0 THEN @ ELSE its[i].bytes,
                  !.truncated = its[i].truncated]

\* clampPreview: what is cut is replaced by a mark.
Clamped(t) == [t EXCEPT !.preview = IF @ <= PreviewLimit THEN @ ELSE PreviewLimit + 1,
                        !.truncated = @ \/ t.preview > PreviewLimit]

\* applyLastMessageUsageLocked
WithCost(its) ==
  LET i == SelectLastInSeq(its, LAMBDA it : it.key[1] = "m" /\ it.key[2] = "a") IN
  IF i = 0 THEN its ELSE [its EXCEPT ![i].cost = 1]

\* What publish hands to the subscribers: a tool event is the merged one.
Published(its, e) ==
  IF e.type \in {"tool", "update"} THEN [e EXCEPT !.item = Clamped(Merged(its, @))] ELSE e

\* applyLocked, of a published event.  A summary is not kept.
Apply(its, e) ==
  CASE e.type = "item" -> IF e.item.key[1] = "s" THEN its ELSE Upsert(its, e.item)
    [] e.type \in {"tool", "update"} -> Upsert(its, e.item)
    [] e.type = "delta" -> Patch(its, e.id, e.field)
    [] e.type = "end" -> Patch(its, e.id, "end")
    [] e.type = "usage" -> WithCost(its)

-----------------------------------------------------------------------------
(* The browser.                                                              *)

\* upsertTool: an update is appended to the output.
UpsertTool(its, e) ==
  LET i == Index(its, e.item.key) IN
  IF i = 0 THEN Append(its, e.item)
  ELSE [its EXCEPT ![i] =
          [e.item EXCEPT !.args = IF @ > 0 THEN @ ELSE its[i].args,
                         !.preview = IF e.type = "update" THEN its[i].preview + @ ELSE @,
                         !.bytes = IF e.type = "update" THEN its[i].bytes + @ ELSE @]]

\* reduce
Reduce(its, e) ==
  CASE e.type = "item" ->
         LET i == Index(its, e.item.key) IN
         IF i = 0 THEN Append(its, e.item) ELSE [its EXCEPT ![i] = e.item]
    [] e.type \in {"tool", "update"} -> UpsertTool(its, e)
    [] e.type = "delta" -> Patch(its, e.id, e.field)
    [] e.type = "end" -> Patch(its, e.id, "end")
    [] e.type = "usage" -> its

One(s, e) ==
  LET p == Published(s.items, e)
      now == Apply(s.items, p)
  IN [items |-> now, view |-> Reduce(s.view, p),
      forgotten |-> s.forgotten \cup (Keys(s.items) \ Keys(now))]

\* emit and publish, for the events of one handler
Emit(events) ==
  LET s == FoldLeft(One, [items |-> items, view |-> view, forgotten |-> forgotten], events)
  IN items' = s.items /\ view' = s.view /\ forgotten' = s.forgotten

-----------------------------------------------------------------------------
(* The runtime emits an event, and normalize handles it.                     *)

Quiet == UNCHANGED <<turn, turns, snapshots, made, armed, aborting>>
Runs == turn # "none" /\ wait = Nothing /\ emitted < MaxEvents /\ emitted' = emitted + 1

CloseNever == <<>>  \* Mutant: a message that the next item follows is not ended

\* closeAssistant
Close == IF curAssistant = 0 THEN <<>> ELSE <<End(curAssistant)>>

\* AgentChoice and AgentChoiceReasoning, with ensureAssistant
Choice(field) ==
  /\ Runs
  /\ IF curAssistant = 0
     THEN /\ made' = made + 1 /\ curAssistant' = made + 1
          /\ Emit(<<Item(Message("a", made + 1)), Delta(made + 1, field)>>)
     ELSE Emit(<<Delta(curAssistant, field)>>) /\ UNCHANGED <<made, curAssistant>>
  /\ UNCHANGED <<turn, turns, snapshots, phase, wait, partial, approving, armed, aborting>>

\* UserMessage, whose position is new, AgentSwitching
Separate(kind) ==
  /\ Runs
  /\ curAssistant' = 0
  /\ Emit(Append(Close, Item(IF kind = "m" THEN Message("u", emitted) ELSE Other(kind, emitted))))
  /\ Quiet /\ UNCHANGED <<phase, wait, partial, approving>>

\* The events that become a notice, SessionSummary, TokenUsage
Remark(e) ==
  /\ Runs
  /\ Emit(<<e>>)
  /\ Quiet /\ UNCHANGED <<curAssistant, phase, wait, partial, approving>>

Partial(t) ==
  /\ Runs /\ phase[t] \in {"unknown", "partial"} /\ partial[t] < FullArgs
  /\ phase' = [phase EXCEPT ![t] = "partial"]
  /\ partial' = [partial EXCEPT ![t] = @ + 1]
  /\ curAssistant' = 0
  /\ Emit(Append(Close, Update(Tool(t, "pending", partial[t] + 1, 0))))
  /\ Quiet /\ UNCHANGED <<wait, approving>>

\* ToolCallConfirmation: the runtime waits for an answer.
Confirm(t) ==
  /\ Runs /\ phase[t] \in {"unknown", "partial"}
  /\ phase' = [phase EXCEPT ![t] = "asked"]
  /\ wait' = [call |-> t, listening |-> FALSE]
  /\ partial' = [partial EXCEPT ![t] = 0]
  /\ approving' = approving \cup {t}
  /\ Emit(<<Update(Tool(t, "pending", FullArgs, 0))>>)
  /\ Quiet /\ UNCHANGED curAssistant

\* resolveAutoApprove
Resolved(t) == approving' = approving \ {t}

Call(t) ==
  /\ Runs /\ phase[t] \in {"unknown", "partial", "asked"}
  /\ phase' = [phase EXCEPT ![t] = "called"]
  /\ partial' = [partial EXCEPT ![t] = 0] /\ Resolved(t)
  /\ curAssistant' = 0
  /\ Emit(Append(Close, Start(Tool(t, "running", FullArgs, 0))))
  /\ Quiet /\ UNCHANGED wait

Output(t, n) ==
  /\ Runs /\ phase[t] = "called"
  /\ Emit(<<Update(Tool(t, "running", 0, n))>>)
  /\ Quiet /\ UNCHANGED <<curAssistant, phase, wait, partial, approving>>

\* ToolCallResponse; HookBlocked, which adds a notice
Finish(t, st, n) ==
  /\ Runs
  /\ phase[t] \in IF st = "rejected" THEN {"unknown", "partial", "asked"} ELSE {"called"}
  /\ phase' = [phase EXCEPT ![t] = st]
  /\ partial' = [partial EXCEPT ![t] = 0] /\ Resolved(t)
  /\ Emit(<<Start(Tool(t, st, 0, n))>>
           \o IF st = "rejected" THEN <<Item(Other("n", emitted))>> ELSE <<>>)
  /\ Quiet /\ UNCHANGED <<curAssistant, wait>>

\* MaxIterationsReached: one answer, which is lost unless the runtime listens.
Limit ==
  /\ Runs
  /\ Emit(<<Item(Other("n", emitted))>>)
  /\ \/ turn' = "ending" /\ UNCHANGED wait
     \/ wait' = [call |-> "limit", listening |-> FALSE] /\ UNCHANGED turn
  /\ UNCHANGED <<turns, snapshots, chatVars, phase>>

-----------------------------------------------------------------------------
(* Answers, and the turn.                                                    *)

Listen ==
  /\ wait # Nothing /\ ~wait.listening /\ wait' = [wait EXCEPT !.listening = TRUE]
  /\ UNCHANGED <<turn, phase, emitted, turns, chatVars, timelineVars, snapshots>>

\* autoApprove: the goroutine looks, and then calls Resume.
Look(t) ==
  /\ t \in approving \ armed /\ armed' = armed \cup {t}
  /\ UNCHANGED <<runtimeVars, timelineVars, snapshots, curAssistant, made, partial, approving, aborting>>

\* Whoever listens is told to go on.
Resume(t) ==
  /\ t \in armed /\ armed' = armed \ {t}
  /\ wait' = IF wait.listening THEN Nothing ELSE wait
  /\ UNCHANGED <<turn, phase, emitted, turns, timelineVars, snapshots, curAssistant, made, partial,
                 approving, aborting>>

StartTurn ==
  /\ turn = "none" /\ turns < MaxTurns /\ turns' = turns + 1
  /\ turn' = "running" /\ curAssistant' = 0
  /\ UNCHANGED <<phase, wait, emitted, made, partial, approving, armed, aborting, timelineVars,
                 snapshots>>

Abort ==
  /\ turn = "running" /\ ~aborting /\ aborting' = TRUE
  /\ approving' = {}
  /\ UNCHANGED <<runtimeVars, timelineVars, snapshots, curAssistant, made, partial, armed>>

\* Mutant: the approvals are cleared and the turn goes on.
CancelNot ==
  /\ aborting /\ aborting' = FALSE
  /\ UNCHANGED <<runtimeVars, timelineVars, snapshots, curAssistant, made, partial, approving, armed>>

Cancel ==
  /\ aborting /\ aborting' = FALSE
  /\ turn' = IF turn = "running" THEN "ending" ELSE turn
  /\ UNCHANGED <<phase, wait, emitted, turns, timelineVars, snapshots, curAssistant, made, partial,
                 approving, armed>>

\* The stream closes, and settle follows.
Settle ==
  /\ turn = "ending" \/ (turn = "running" /\ wait = Nothing)
  /\ turn' = "none" /\ wait' = Nothing
  /\ phase' = [t \in Tools |-> IF phase[t] \in {"unknown", "success", "error", "rejected"}
                               THEN phase[t] ELSE "gone"]
  /\ curAssistant' = 0 /\ Emit(Close)
  /\ partial' = [t \in Tools |-> 0] /\ approving' = {}
  /\ UNCHANGED <<emitted, turns, snapshots, made, armed, aborting>>

\* applySnapshot
Snapshot ==
  /\ snapshots < MaxSnapshots /\ snapshots' = snapshots + 1
  /\ view' = items
  /\ UNCHANGED <<runtimeVars, chatVars, items, forgotten>>

Next ==
  \/ \E f \in {"text", "reasoning"} : Choice(f)
  \/ \E k \in {"m", "x"} : Separate(k)
  \/ \E e \in {Item(Other("n", emitted)), Item(Other("s", emitted)), [type |-> "usage"]} : Remark(e)
  \/ \E t \in Tools : \/ Partial(t) \/ Confirm(t) \/ Call(t) \/ Look(t) \/ Resume(t)
                      \/ \E n \in Outputs : \/ Output(t, n)
                                            \/ \E st \in {"success", "error", "rejected"} :
                                                 Finish(t, st, n)
  \/ Limit \/ Listen \/ StartTurn \/ Abort \/ Cancel \/ Settle \/ Snapshot

Spec == Init /\ [][Next]_lineVars

-----------------------------------------------------------------------------
Comparable(it) ==
  CASE it.key[1] = "m" -> [it EXCEPT !.cost = 0]
    [] it.key[1] = "t" /\ it.state \in {"pending", "running"} -> [it EXCEPT !.preview = 0, !.bytes = 0]
    [] OTHER -> it

Common(its) ==
  LET kept == SelectSeq(its, LAMBDA it : it.key \notin forgotten /\ it.key[1] # "s")
  IN [i \in DOMAIN kept |-> Comparable(kept[i])]

(* The browser shows what a snapshot would: the same items in the same order with
   the same contents, except for summaries, the cost of a message, the output of a
   tool that is not finished, and items the server dropped to make room - applyLocked
   and reduce are the same reduction, in two languages.                          *)
ReducersAgree == Common(items) = Common(view)

(* On both sides, a message streams only while the adapter adds to it, and nothing
   does when the turn is over (closeAssistant, settle).                          *)
StreamingIsCurrent ==
  \A its \in {items, view} : \A i \in DOMAIN its :
    its[i].key[1] = "m" /\ its[i].streaming => turn # "none" /\ its[i].key[3] = curAssistant

(* On both sides, a tool shows the arguments of its call, as far as they are known,
   whatever the events after it left out (mergePartialToolCall, mergeToolLocked,
   upsertTool).                                                                  *)
ArgumentsKept ==
  \A its \in {items, view} : \A i \in DOMAIN its :
    its[i].key[1] = "t" /\ its[i].key \notin forgotten =>
      LET t == its[i].key[2] IN
      its[i].args = CASE phase[t] = "partial" -> partial[t]
                      [] phase[t] \in {"gone", "rejected"} -> its[i].args
                      [] OTHER -> FullArgs

(* While the runtime waits for a confirmation, somebody is going to give it
   (autoApprove, resolveAutoApprove, Abort).                                     *)
ApprovalComes ==
  wait.call \in Tools /\ turn = "running" /\ ~aborting => wait.call \in approving

(* The browser shows the output of a tool that a snapshot would.                *)
SameOutput ==
  \A i \in DOMAIN items, j \in DOMAIN view :
    items[i].key = view[j].key /\ items[i].key[1] = "t" => items[i].preview = view[j].preview
=============================================================================
