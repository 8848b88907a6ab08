-------------------------- MODULE DagentChatProofs --------------------------
(***************************************************************************)
(* One stream at a time, no message lost or doubled, idle means idle, and  *)
(* a cancel hits only the turn it was meant for: for any number of         *)
(* concurrent sends and aborts, any capacity of the queues and the event   *)
(* channel, and any number of messages.                                    *)
(*                                                                         *)
(* What drives the session changes hands: a Send that found the chat idle  *)
(* starts a turn and hands it to a run loop, which gives it back in        *)
(* settle.  The strengthening follows that baton (Busy): at most one       *)
(* goroutine has it, it is of the turn that chat.cancel cancels, and while *)
(* anybody has it the run is not idle, so that no Send starts another.     *)
(***************************************************************************)
EXTENDS DagentChat, RangeLemmas

-----------------------------------------------------------------------------
(* The inductive invariant. *)

Reports == {"snapshot", "snapshot2", "store", "publish", "emit"}

\* The labels each kind of goroutine can stand at, and where its reports lead.
LabelInv ==
  /\ \A t \in Send_ :
       /\ pc[t] \in Reports \cup {"start", "turn", "enqueue", "add", "launch", "unlock"}
       /\ pc[t] \in Reports => ret[t] \in {"launch", "unlock"}
       /\ pc[t] = "add" => ret[t] = "launch"
  /\ \A t \in Loops :
       /\ pc[t] \in Reports \cup {"start", "stream", "ended", "assistant_end", "settle",
                                  "meta", "done"}
       /\ pc[t] \in Reports => ret[t] \in {"stream", "meta"}
  /\ \A t \in Abort_ \cup Close_ :
       /\ pc[t] \in {"start", "publish", "emit", "cancel", "close", "runtime", "done"}
       /\ pc[t] \in Reports => ret[t] = "cancel"
       /\ pc[t] = "close" => t \in Close_

\* Whoever is inside Send holds dispatchMu.
DispatchInv == \A t \in Send_ : pc[t] # "start" => dispatch = t

TurnOf(t) == IF t \in Loops THEN Turn(t) ELSE local[t].turn

BusyInv ==
  /\ \A t \in Threads : Busy(t) => run # "idle" /\ TurnOf(t) = cancel
  /\ \A t, u \in Threads : Busy(t) /\ Busy(u) => t = u
  /\ \A t \in Send_ : pc[t] = "turn" => run = "idle"

\* Turn c may be cancelled: if it has not settled it is on its way to stop.
MayStop(c) == c <= generation /\ (c = cancel => run = "stopping")

CancelInv ==
  /\ cancel <= generation
  /\ cancel = 0 <=> run = "idle"
  /\ \A t \in Abort_ \cup Close_ :
       pc[t] \in {"publish", "emit", "cancel"} /\ local[t].turn # 0 => MayStop(local[t].turn)
  /\ \A c \in cancelled : c # 0 /\ MayStop(c)

\* A Send that will accept a message, and one that has started a turn for it.
Starting(t) == pc[t] = "add" \/ (ret[t] = "launch" /\ pc[t] \in {"snapshot", "snapshot2", "store"})
Accepting(t) == Starting(t) \/ pc[t] \in {"turn", "enqueue"}

\* A turn for every message at most, and one generation for Close.
BoundInv ==
  /\ sent <= MaxSends
  /\ \A t \in Send_ : Accepting(t) => sent < MaxSends
  /\ generation <= sent + (IF closed THEN 1 ELSE 0)
                        + (IF \E t \in Send_ : Starting(t) THEN 1 ELSE 0)
  /\ closed => \A t \in Close_ : pc[t] \in {"runtime", "done"}

IInv == /\ TypeOK /\ LabelInv /\ DispatchInv /\ BusyInv /\ CancelInv /\ BoundInv
        /\ EveryMessageOnce

-----------------------------------------------------------------------------
(* The kinds of goroutines are disjoint. *)

LEMMA Kinds ==
  /\ \A t \in Send_ : t \in Threads /\ t \notin Loops /\ t \notin Abort_ /\ t \notin Close_
  /\ \A t \in Loops : t \in Threads /\ t \notin Abort_ /\ t \notin Close_
  /\ \A t \in Abort_ \cup Close_ : t \in Threads
  /\ \A t \in Abort_ : t \notin Close_
  /\ \A t \in Threads : t # <<>>
BY DEF Send_, Loops, Abort_, Close_, Threads

LEMMA LoopTurns ==
  /\ \A g \in Turns : <<"loop", g>> \in Loops /\ Turn(<<"loop", g>>) = g
  /\ \A t \in Loops : Turn(t) \in Turns /\ t = <<"loop", Turn(t)>>
  /\ \A g : <<"loop", g>> \in Threads => g \in Turns
BY DEF Send_, Loops, Abort_, Close_, Threads, Turn

LEMMA CloserIsOne == \A t, u \in Close_ : t = u
BY ChatAssumption DEF Close_

-----------------------------------------------------------------------------
(* Types, in four groups of variables. *)

ThreadType == /\ pc \in [Threads -> Labels] /\ ret \in [Threads -> Returns]
              /\ local \in [Threads -> Local]

LockType == /\ run \in States /\ shownQueue \in Depth /\ generation \in Nat
            /\ cancel \in Nat /\ closed \in BOOLEAN /\ speaking \in BOOLEAN

TurnType == /\ cancelled \subseteq Turns /\ sent \in Nat /\ chunks \in Nat
            /\ queue \in [Modes -> Seq(Nat)]
            /\ \A m \in Modes : Len(queue[m]) <= QueueCapacity
            /\ transcript \in Seq(Nat)

OutType == /\ dispatch \in Send_ \cup {<<>>} /\ live \in States
           /\ events \in Seq(States \cup {"other"}) /\ Len(events) <= EventCapacity

LEMMA TypeParts ==
  /\ TypeOK => ThreadType /\ LockType /\ TurnType /\ OutType
  /\ ThreadType' /\ LockType' /\ TurnType' /\ OutType' => TypeOK'
BY DEF TypeOK, ThreadType, LockType, TurnType, OutType

LEMMA SameParts ==
  /\ ThreadType /\ UNCHANGED threadVars => ThreadType'
  /\ LockType /\ UNCHANGED lockVars => LockType'
  /\ TurnType /\ UNCHANGED turnVars => TurnType'
  /\ OutType /\ UNCHANGED <<dispatch, events, live>> => OutType'
BY DEF ThreadType, LockType, TurnType, OutType, threadVars, lockVars, turnVars

\* emit appends an event the channel has room for, or drops it.
LEMMA EmitType ==
  ASSUME OutType, NEW ev \in States \cup {"other"}, Emit(ev)
  PROVE  events' \in Seq(States \cup {"other"}) /\ Len(events') <= EventCapacity
BY ChatAssumption DEF OutType, Emit

\* The depths of the queues are numbers.
LEMMA QueueLens ==
  ASSUME TurnType
  PROVE  /\ queue["steer"] \in Seq(Nat) /\ queue["followup"] \in Seq(Nat)
         /\ Len(queue["steer"]) \in Nat /\ Len(queue["followup"]) \in Nat
         /\ Len(transcript) \in Nat /\ sent \in Nat
BY DEF TurnType, Modes

LEMMA ReportingType ==
  ASSUME IInv, NEW t \in Threads, Reporting(t)
  PROVE  TypeOK'
<1>. t \in Threads /\ ThreadType /\ LockType /\ TurnType /\ OutType
  BY Kinds, TypeParts DEF IInv
<1>1. CASE SnapshotSteer(t)
  <2>1. ThreadType'
    <3>1. pc' \in [Threads -> Labels]
      BY <1>1 DEF SnapshotSteer, Goto, ThreadType, Labels
    <3>2. local' \in [Threads -> Local]
      BY <1>1, QueueLens DEF SnapshotSteer, Local, ThreadType, Depth
    <3>3. ret' \in [Threads -> Returns]
      BY <1>1 DEF SnapshotSteer, ThreadType
    <3> QED BY <3>1, <3>2, <3>3 DEF ThreadType
  <2>2. LockType' /\ TurnType' /\ OutType'
    BY <1>1, SameParts DEF SnapshotSteer, lockVars, turnVars
  <2> QED BY <2>1, <2>2, TypeParts
<1>2. CASE SnapshotFollowUps(t)
  <2>1. ThreadType'
    <3>1. pc' \in [Threads -> Labels]
      BY <1>2 DEF SnapshotFollowUps, Goto, ThreadType, Labels
    <3>2. local' \in [Threads -> Local]
      BY <1>2, QueueLens DEF SnapshotFollowUps, Local, ThreadType, Depth
    <3>3. ret' \in [Threads -> Returns]
      BY <1>2 DEF SnapshotFollowUps, ThreadType
    <3> QED BY <3>1, <3>2, <3>3 DEF ThreadType
  <2>2. LockType' /\ TurnType' /\ OutType'
    BY <1>2, SameParts DEF SnapshotFollowUps, lockVars, turnVars
  <2> QED BY <2>1, <2>2, TypeParts
<1>3. CASE StoreQueue(t)
  <2>1. ThreadType'
    <3>1. pc' \in [Threads -> Labels]
      BY <1>3 DEF StoreQueue, Goto, ThreadType, Labels
    <3>2. local' \in [Threads -> Local]
      BY <1>3 DEF StoreQueue, Local, ThreadType, Depth, NoDepths
    <3>3. ret' \in [Threads -> Returns]
      BY <1>3 DEF StoreQueue, ThreadType
    <3> QED BY <3>1, <3>2, <3>3 DEF ThreadType
  <2>2. LockType'
    BY <1>3 DEF StoreQueue, LockType, ThreadType, Local, lockVars
  <2>3. TurnType' /\ OutType'
    BY <1>3, SameParts DEF StoreQueue, turnVars
  <2> QED BY <2>1, <2>2, <2>3, TypeParts
<1>4. CASE ReadRun(t)
  <2>1. ThreadType'
    <3>1. pc' \in [Threads -> Labels]
      BY <1>4 DEF ReadRun, Goto, ThreadType, Labels
    <3>2. local' \in [Threads -> Local]
      BY <1>4 DEF ReadRun, Local, ThreadType, LockType
    <3>3. ret' \in [Threads -> Returns]
      BY <1>4 DEF ReadRun, ThreadType
    <3> QED BY <3>1, <3>2, <3>3 DEF ThreadType
  <2>2. LockType' /\ TurnType' /\ OutType'
    BY <1>4, SameParts DEF ReadRun, lockVars, turnVars
  <2> QED BY <2>1, <2>2, TypeParts
<1>5. CASE EmitRun(t)
  <2>1. ThreadType'
    <3>1. pc' \in [Threads -> Labels]
      BY <1>5 DEF EmitRun, Goto, ThreadType, Labels, Returns
    <3>2. local' \in [Threads -> Local]
      BY <1>5 DEF EmitRun, Local, ThreadType, States
    <3>3. ret' \in [Threads -> Returns]
      BY <1>5 DEF EmitRun, ThreadType, Returns
    <3> QED BY <3>1, <3>2, <3>3 DEF ThreadType
  <2>2. OutType'
    BY <1>5, EmitType DEF EmitRun, OutType, ThreadType, Local
  <2>3. LockType' /\ TurnType'
    BY <1>5, SameParts DEF EmitRun, lockVars, turnVars
  <2> QED BY <2>1, <2>2, <2>3, TypeParts
<1> QED BY <1>1, <1>2, <1>3, <1>4, <1>5 DEF Reporting

LEMMA SendingType ==
  ASSUME IInv, NEW t \in Send_, Sending(t) \/ \E mode \in Modes : Send(t, mode)
  PROVE  TypeOK'
<1>. t \in Threads /\ ThreadType /\ LockType /\ TurnType /\ OutType
  BY Kinds, TypeParts DEF IInv
<1>1. ASSUME NEW mode \in Modes, Send(t, mode) PROVE TypeOK'
  <2>1. ThreadType'
    <3>1. pc' \in [Threads -> Labels]
      BY <1>1 DEF Send, Goto, ThreadType, Labels
    <3>2. local' \in [Threads -> Local]
      BY SMTT(40), <1>1 DEF Send, Local, ThreadType
    <3>3. ret' \in [Threads -> Returns]
      BY <1>1 DEF Send, ThreadType
    <3> QED BY <3>1, <3>2, <3>3 DEF ThreadType
  <2>2. OutType'
    BY <1>1 DEF Send, OutType
  <2>3. LockType' /\ TurnType'
    BY <1>1, SameParts DEF Send, lockVars, turnVars
  <2> QED BY <2>1, <2>2, <2>3, TypeParts
<1>2. CASE Enqueue(t)
  <2>1. ThreadType'
    <3>1. pc' \in [Threads -> Labels]
      BY <1>2 DEF Enqueue, Report, Goto, ThreadType, Labels
    <3>2. local' \in [Threads -> Local]
      BY <1>2 DEF Enqueue, Local, Depth, NoLocal, NoDepths, States, Modes, ThreadType
    <3>3. ret' \in [Threads -> Returns]
      BY <1>2 DEF Enqueue, Report, ThreadType, Returns
    <3> QED BY <3>1, <3>2, <3>3 DEF ThreadType
  <2>2. TurnType'
    <3> DEFINE m == local[t].mode
    <3>1. m \in Modes
      BY DEF ThreadType, Local
    <3>2. UNCHANGED <<cancelled, transcript, chunks>>
      BY <1>2 DEF Enqueue
    <3>3. CASE Len(queue[m]) < QueueCapacity
      <4>1. sent' = sent + 1 /\ queue' = [queue EXCEPT ![m] = Append(@, sent + 1)]
        BY <1>2, <3>3 DEF Enqueue
      <4>2. /\ Append(queue[m], sent + 1) \in Seq(Nat)
            /\ Len(Append(queue[m], sent + 1)) <= QueueCapacity
        BY <3>1, <3>3, ChatAssumption DEF TurnType
      <4> HIDE DEF m
      <4> QED BY <3>1, <3>2, <4>1, <4>2 DEF TurnType
    <3>4. CASE ~(Len(queue[m]) < QueueCapacity)
      BY <1>2, <3>2, <3>4 DEF Enqueue, TurnType
    <3> QED BY <3>3, <3>4
  <2>3. LockType' /\ OutType'
    BY <1>2, SameParts DEF Enqueue, lockVars
  <2> QED BY <2>1, <2>2, <2>3, TypeParts
<1>3. CASE StartTurn(t)
  <2>1. ThreadType'
    <3>1. pc' \in [Threads -> Labels]
      BY <1>3 DEF StartTurn, Report, Goto, ThreadType, Labels
    <3>2. ret' \in [Threads -> Returns]
      BY <1>3 DEF StartTurn, Report, ThreadType, Returns
    <3>3. local' \in [Threads -> Local]
      BY <1>3 DEF StartTurn, Local, ThreadType, LockType
    <3> QED BY <3>1, <3>2, <3>3 DEF ThreadType
  <2>2. LockType'
    <3>1. /\ generation' = generation + 1 /\ cancel' = generation + 1 /\ run' = "running"
          /\ shownQueue' = NoDepths /\ speaking' = FALSE /\ closed' = closed
      BY <1>3 DEF StartTurn
    <3>2. generation + 1 \in Nat /\ closed \in BOOLEAN
      BY DEF LockType
    <3>3. NoDepths \in Depth
      BY DEF NoDepths, Depth
    <3> QED BY <3>1, <3>2, <3>3 DEF LockType, States
  <2>3. TurnType' /\ OutType'
    BY <1>3, SameParts DEF StartTurn, turnVars
  <2> QED BY <2>1, <2>2, <2>3, TypeParts
<1>4. CASE AddMessage(t)
  <2>1. ThreadType'
    <3>1. pc' \in [Threads -> Labels]
      BY <1>4 DEF AddMessage, Goto, ThreadType, Labels
    <3>2. local' \in [Threads -> Local]
      BY <1>4 DEF AddMessage, ThreadType
    <3>3. ret' \in [Threads -> Returns]
      BY <1>4 DEF AddMessage, ThreadType
    <3> QED BY <3>1, <3>2, <3>3 DEF ThreadType
  <2>2. TurnType'
    BY <1>4 DEF AddMessage, TurnType
  <2>3. LockType' /\ OutType'
    BY <1>4, SameParts DEF AddMessage, lockVars
  <2> QED BY <2>1, <2>2, <2>3, TypeParts
<1>5. CASE Launch(t)
  <2>1. ThreadType'
    <3>1. pc' \in [Threads -> Labels]
      BY <1>5 DEF Launch, ThreadType, Labels
    <3>2. local' \in [Threads -> Local]
      BY <1>5 DEF Launch, Local, Depth, NoLocal, NoDepths, States, Modes, ThreadType
    <3>3. ret' \in [Threads -> Returns]
      BY <1>5 DEF Launch, ThreadType
    <3> QED BY <3>1, <3>2, <3>3 DEF ThreadType
  <2>2. OutType'
    BY <1>5 DEF Launch, OutType
  <2>3. LockType' /\ TurnType'
    BY <1>5, SameParts DEF Launch, lockVars, turnVars
  <2> QED BY <2>1, <2>2, <2>3, TypeParts
<1>6. CASE Unlock(t)
  <2>1. ThreadType'
    <3>1. pc' \in [Threads -> Labels]
      BY <1>6 DEF Unlock, Goto, ThreadType, Labels
    <3>2. local' \in [Threads -> Local]
      BY <1>6 DEF Unlock, ThreadType
    <3>3. ret' \in [Threads -> Returns]
      BY <1>6 DEF Unlock, ThreadType
    <3> QED BY <3>1, <3>2, <3>3 DEF ThreadType
  <2>2. OutType'
    BY <1>6 DEF Unlock, OutType
  <2>3. LockType' /\ TurnType'
    BY <1>6, SameParts DEF Unlock, lockVars, turnVars
  <2> QED BY <2>1, <2>2, <2>3, TypeParts
<1> QED BY <1>1, <1>2, <1>3, <1>4, <1>5, <1>6 DEF Sending

LEMMA RunningType ==
  ASSUME IInv, NEW t \in Loops, Running(t)
  PROVE  TypeOK'
<1>. t \in Threads /\ ThreadType /\ LockType /\ TurnType /\ OutType
  BY Kinds, TypeParts DEF IInv
<1>1. CASE Chunk(t)
  <2>1. LockType'
    BY <1>1 DEF Chunk, LockType
  <2>2. TurnType'
    BY <1>1 DEF Chunk, TurnType
  <2>3. OutType'
    BY <1>1, EmitType DEF Chunk, OutType
  <2>4. ThreadType'
    BY <1>1, SameParts DEF Chunk, threadVars
  <2> QED BY <2>1, <2>2, <2>3, <2>4, TypeParts
<1>2. CASE TakeSteer(t)
  <2>1. ThreadType'
    <3>1. pc' \in [Threads -> Labels]
      BY <1>2 DEF TakeSteer, Report, Goto, ThreadType, Labels
    <3>2. ret' \in [Threads -> Returns]
      BY <1>2 DEF TakeSteer, Report, ThreadType, Returns
    <3>3. local' \in [Threads -> Local]
      BY <1>2 DEF TakeSteer, ThreadType
    <3> QED BY <3>1, <3>2, <3>3 DEF ThreadType
  <2>2. TurnType'
    BY <1>2, QueueLens, ChatAssumption DEF TakeSteer, TurnType, Modes
  <2>3. LockType' /\ OutType'
    BY <1>2, SameParts DEF TakeSteer, lockVars
  <2> QED BY <2>1, <2>2, <2>3, TypeParts
<1>3. CASE TakeFollowUp(t)
  <2>1. ThreadType'
    <3>1. pc' \in [Threads -> Labels]
      BY <1>3 DEF TakeFollowUp, Report, Goto, ThreadType, Labels
    <3>2. ret' \in [Threads -> Returns]
      BY <1>3 DEF TakeFollowUp, Report, ThreadType, Returns
    <3>3. local' \in [Threads -> Local]
      BY <1>3 DEF TakeFollowUp, ThreadType
    <3> QED BY <3>1, <3>2, <3>3 DEF ThreadType
  <2>2. TurnType'
    BY <1>3, QueueLens, ChatAssumption DEF TakeFollowUp, TurnType, Modes
  <2>3. LockType' /\ OutType'
    BY <1>3, SameParts DEF TakeFollowUp, lockVars
  <2> QED BY <2>1, <2>2, <2>3, TypeParts
<1>4. CASE StreamEnds(t)
  <2>1. ThreadType'
    <3>1. pc' \in [Threads -> Labels]
      BY <1>4 DEF StreamEnds, Goto, ThreadType, Labels
    <3>2. local' \in [Threads -> Local]
      BY <1>4 DEF StreamEnds, ThreadType
    <3>3. ret' \in [Threads -> Returns]
      BY <1>4 DEF StreamEnds, ThreadType
    <3> QED BY <3>1, <3>2, <3>3 DEF ThreadType
  <2>2. LockType' /\ TurnType' /\ OutType'
    BY <1>4, SameParts DEF StreamEnds, lockVars, turnVars
  <2> QED BY <2>1, <2>2, TypeParts
<1> QED BY <1>1, <1>2, <1>3, <1>4 DEF Running

LEMMA SettlingType ==
  ASSUME IInv, NEW t \in Loops, Settling(t)
  PROVE  TypeOK'
<1>. t \in Threads /\ ThreadType /\ LockType /\ TurnType /\ OutType
  BY Kinds, TypeParts DEF IInv
<1>1. CASE SettleStale(t)
  <2>1. ThreadType'
    <3>1. pc' \in [Threads -> Labels]
      BY <1>1 DEF SettleStale, Goto, ThreadType, Labels
    <3>2. local' \in [Threads -> Local]
      BY <1>1 DEF SettleStale, ThreadType
    <3>3. ret' \in [Threads -> Returns]
      BY <1>1 DEF SettleStale, ThreadType
    <3> QED BY <3>1, <3>2, <3>3 DEF ThreadType
  <2>2. LockType' /\ TurnType' /\ OutType'
    BY <1>1, SameParts DEF SettleStale, lockVars, turnVars
  <2> QED BY <2>1, <2>2, TypeParts
<1>2. CASE SettleSpeaking(t)
  <2>1. ThreadType'
    <3>1. pc' \in [Threads -> Labels]
      BY <1>2 DEF SettleSpeaking, Goto, ThreadType, Labels
    <3>2. local' \in [Threads -> Local]
      BY <1>2 DEF SettleSpeaking, ThreadType
    <3>3. ret' \in [Threads -> Returns]
      BY <1>2 DEF SettleSpeaking, ThreadType
    <3> QED BY <3>1, <3>2, <3>3 DEF ThreadType
  <2>2. LockType'
    BY <1>2 DEF SettleSpeaking, LockType
  <2>3. TurnType' /\ OutType'
    BY <1>2, SameParts DEF SettleSpeaking, turnVars
  <2> QED BY <2>1, <2>2, <2>3, TypeParts
<1>3. CASE AssistantEnd(t)
  <2>1. ThreadType'
    <3>1. pc' \in [Threads -> Labels]
      BY <1>3 DEF AssistantEnd, Goto, ThreadType, Labels
    <3>2. local' \in [Threads -> Local]
      BY <1>3 DEF AssistantEnd, ThreadType
    <3>3. ret' \in [Threads -> Returns]
      BY <1>3 DEF AssistantEnd, ThreadType
    <3> QED BY <3>1, <3>2, <3>3 DEF ThreadType
  <2>2. OutType'
    BY <1>3, EmitType DEF AssistantEnd, OutType
  <2>3. LockType' /\ TurnType'
    BY <1>3, SameParts DEF AssistantEnd, lockVars, turnVars
  <2> QED BY <2>1, <2>2, <2>3, TypeParts
<1>4. CASE SettleIdle(t)
  <2>1. ThreadType'
    <3>1. pc' \in [Threads -> Labels]
      BY <1>4 DEF SettleIdle, Report, Goto, ThreadType, Labels
    <3>2. ret' \in [Threads -> Returns]
      BY <1>4 DEF SettleIdle, Report, ThreadType, Returns
    <3>3. local' \in [Threads -> Local]
      BY <1>4 DEF SettleIdle, ThreadType
    <3> QED BY <3>1, <3>2, <3>3 DEF ThreadType
  <2>2. LockType'
    BY <1>4 DEF SettleIdle, LockType, States, Depth, NoDepths
  <2>3. TurnType' /\ OutType'
    BY <1>4, SameParts DEF SettleIdle, turnVars
  <2> QED BY <2>1, <2>2, <2>3, TypeParts
<1>5. CASE SettleMeta(t)
  <2>1. ThreadType'
    <3>1. pc' \in [Threads -> Labels]
      BY <1>5 DEF SettleMeta, Goto, ThreadType, Labels
    <3>2. local' \in [Threads -> Local]
      BY <1>5 DEF SettleMeta, ThreadType
    <3>3. ret' \in [Threads -> Returns]
      BY <1>5 DEF SettleMeta, ThreadType
    <3> QED BY <3>1, <3>2, <3>3 DEF ThreadType
  <2>2. OutType'
    BY <1>5, EmitType DEF SettleMeta, OutType
  <2>3. LockType' /\ TurnType'
    BY <1>5, SameParts DEF SettleMeta, lockVars, turnVars
  <2> QED BY <2>1, <2>2, <2>3, TypeParts
<1> QED BY <1>1, <1>2, <1>3, <1>4, <1>5 DEF Settling

\* What Cancel cancels is a turn there has been.
LEMMA TurnBound ==
  ASSUME IInv, NEW g \in Nat, g <= generation, g # 0
  PROVE  g \in Turns
BY ChatAssumption DEF IInv, TypeOK, BoundInv, Turns, Accepting

LEMMA StoppingType ==
  ASSUME IInv, NEW t \in Abort_ \cup Close_, Abort(t) \/ Stopping(t)
  PROVE  TypeOK'
<1>. t \in Threads /\ ThreadType /\ LockType /\ TurnType /\ OutType
  BY Kinds, TypeParts DEF IInv
<1>1. CASE Abort(t)
  <2>1. ThreadType'
    <3>1. pc' \in [Threads -> Labels]
      BY <1>1 DEF Abort, Goto, ThreadType, Labels
    <3>2. ret' \in [Threads -> Returns]
      BY <1>1 DEF Abort, ThreadType, Returns
    <3>3. local' \in [Threads -> Local]
      BY <1>1 DEF Abort, Local, ThreadType, LockType
    <3> QED BY <3>1, <3>2, <3>3 DEF ThreadType
  <2>2. LockType'
    BY <1>1 DEF Abort, LockType, States
  <2>3. TurnType' /\ OutType'
    BY <1>1, SameParts DEF Abort, turnVars
  <2> QED BY <2>1, <2>2, <2>3, TypeParts
<1>2. CASE Cancel(t)
  <2>1. ThreadType'
    <3>1. pc' \in [Threads -> Labels]
      BY <1>2 DEF Cancel, Goto, ThreadType, Labels
    <3>2. local' \in [Threads -> Local]
      BY <1>2 DEF Cancel, Local, Depth, NoLocal, NoDepths, States, Modes, ThreadType
    <3>3. ret' \in [Threads -> Returns]
      BY <1>2 DEF Cancel, ThreadType
    <3> QED BY <3>1, <3>2, <3>3 DEF ThreadType
  <2>2. TurnType'
    <3>1. /\ cancelled' = cancelled \cup ({local[t].turn} \ {0}) /\ pc[t] = "cancel"
          /\ UNCHANGED <<queue, transcript, sent, chunks>>
      BY <1>2 DEF Cancel
    <3>2. local[t].turn \in Nat
      BY DEF ThreadType, Local
    <3>3. local[t].turn # 0 => local[t].turn \in Turns
      BY <3>1, <3>2, TurnBound DEF IInv, CancelInv, MayStop
    <3> QED BY <3>1, <3>3 DEF TurnType
  <2>3. LockType' /\ OutType'
    BY <1>2, SameParts DEF Cancel, lockVars
  <2> QED BY <2>1, <2>2, <2>3, TypeParts
<1>3. CASE Close(t)
  <2>1. ThreadType'
    <3>1. pc' \in [Threads -> Labels]
      BY <1>3 DEF Close, Goto, ThreadType, Labels
    <3>2. local' \in [Threads -> Local]
      BY <1>3 DEF Close, ThreadType
    <3>3. ret' \in [Threads -> Returns]
      BY <1>3 DEF Close, ThreadType
    <3> QED BY <3>1, <3>2, <3>3 DEF ThreadType
  <2>2. LockType'
    BY <1>3 DEF Close, LockType
  <2>3. TurnType' /\ OutType'
    BY <1>3, SameParts DEF Close, turnVars
  <2> QED BY <2>1, <2>2, <2>3, TypeParts
<1>4. CASE CloseRuntime(t)
  <2>1. ThreadType'
    <3>1. pc' \in [Threads -> Labels]
      BY <1>4 DEF CloseRuntime, Goto, ThreadType, Labels
    <3>2. local' \in [Threads -> Local]
      BY <1>4 DEF CloseRuntime, ThreadType
    <3>3. ret' \in [Threads -> Returns]
      BY <1>4 DEF CloseRuntime, ThreadType
    <3> QED BY <3>1, <3>2, <3>3 DEF ThreadType
  <2>2. LockType' /\ TurnType' /\ OutType'
    BY <1>4, SameParts DEF CloseRuntime, lockVars, turnVars
  <2> QED BY <2>1, <2>2, TypeParts
<1> QED BY <1>1, <1>2, <1>3, <1>4 DEF Stopping

-----------------------------------------------------------------------------
(* The labels: one lemma for each kind of goroutine, here and below. *)

LEMMA ReportingLabel ==
  ASSUME IInv, NEW t \in Threads, Reporting(t)
  PROVE  LabelInv'
<1>. t \in Threads /\ ThreadType /\ LabelInv
  BY Kinds, TypeParts DEF IInv
<1>1. CASE SnapshotSteer(t)
  BY <1>1, Kinds, LoopTurns DEF SnapshotSteer, LabelInv, Goto, Reports, ThreadType
<1>2. CASE SnapshotFollowUps(t)
  BY <1>2, Kinds, LoopTurns DEF SnapshotFollowUps, LabelInv, Goto, Reports, ThreadType
<1>3. CASE StoreQueue(t)
  BY <1>3, Kinds, LoopTurns DEF StoreQueue, LabelInv, Goto, Reports, ThreadType
<1>4. CASE ReadRun(t)
  BY <1>4, Kinds, LoopTurns DEF ReadRun, LabelInv, Goto, Reports, ThreadType
<1>5. CASE EmitRun(t)
  BY <1>5, Kinds, LoopTurns DEF EmitRun, LabelInv, Goto, Reports, ThreadType
<1> QED BY <1>1, <1>2, <1>3, <1>4, <1>5 DEF Reporting

LEMMA SendingLabel ==
  ASSUME IInv, NEW t \in Send_, Sending(t) \/ \E mode \in Modes : Send(t, mode)
  PROVE  LabelInv'
<1>. t \in Threads /\ ThreadType /\ LabelInv
  BY Kinds, TypeParts DEF IInv
<1>1. ASSUME NEW mode \in Modes, Send(t, mode) PROVE LabelInv'
  BY <1>1, Kinds, LoopTurns DEF Send, LabelInv, Goto, Reports, ThreadType
<1>2. CASE Enqueue(t)
  BY <1>2, Kinds, LoopTurns DEF Enqueue, LabelInv, Goto, Reports, ThreadType, Report
<1>3. CASE StartTurn(t)
  BY <1>3, Kinds, LoopTurns DEF StartTurn, LabelInv, Goto, Reports, ThreadType, Report
<1>4. CASE AddMessage(t)
  BY <1>4, Kinds, LoopTurns DEF AddMessage, LabelInv, Goto, Reports, ThreadType
<1>5. CASE Launch(t)
  BY <1>5, Kinds, LoopTurns DEF Launch, LabelInv, Goto, Reports, ThreadType
<1>6. CASE Unlock(t)
  BY <1>6, Kinds, LoopTurns DEF Unlock, LabelInv, Goto, Reports, ThreadType
<1> QED BY <1>1, <1>2, <1>3, <1>4, <1>5, <1>6 DEF Sending

LEMMA RunningLabel ==
  ASSUME IInv, NEW t \in Loops, Running(t)
  PROVE  LabelInv'
<1>. t \in Threads /\ ThreadType /\ LabelInv
  BY Kinds, TypeParts DEF IInv
<1>1. CASE Chunk(t)
  BY <1>1, Kinds, LoopTurns DEF Chunk, LabelInv, Goto, Reports, ThreadType, threadVars
<1>2. CASE TakeSteer(t)
  BY <1>2, Kinds, LoopTurns DEF TakeSteer, LabelInv, Goto, Reports, ThreadType, Report
<1>3. CASE TakeFollowUp(t)
  BY <1>3, Kinds, LoopTurns DEF TakeFollowUp, LabelInv, Goto, Reports, ThreadType,
     Report
<1>4. CASE StreamEnds(t)
  BY <1>4, Kinds, LoopTurns DEF StreamEnds, LabelInv, Goto, Reports, ThreadType
<1> QED BY <1>1, <1>2, <1>3, <1>4 DEF Running

LEMMA SettlingLabel ==
  ASSUME IInv, NEW t \in Loops, Settling(t)
  PROVE  LabelInv'
<1>. t \in Threads /\ ThreadType /\ LabelInv
  BY Kinds, TypeParts DEF IInv
<1>1. CASE SettleStale(t)
  BY <1>1, Kinds, LoopTurns DEF SettleStale, LabelInv, Goto, Reports, ThreadType
<1>2. CASE SettleSpeaking(t)
  BY <1>2, Kinds, LoopTurns DEF SettleSpeaking, LabelInv, Goto, Reports, ThreadType
<1>3. CASE AssistantEnd(t)
  BY <1>3, Kinds, LoopTurns DEF AssistantEnd, LabelInv, Goto, Reports, ThreadType
<1>4. CASE SettleIdle(t)
  BY <1>4, Kinds, LoopTurns DEF SettleIdle, LabelInv, Goto, Reports, ThreadType, Report
<1>5. CASE SettleMeta(t)
  BY <1>5, Kinds, LoopTurns DEF SettleMeta, LabelInv, Goto, Reports, ThreadType
<1> QED BY <1>1, <1>2, <1>3, <1>4, <1>5 DEF Settling

LEMMA StoppingLabel ==
  ASSUME IInv, NEW t \in Abort_ \cup Close_, Abort(t) \/ Stopping(t)
  PROVE  LabelInv'
<1>. t \in Threads /\ ThreadType /\ LabelInv
  BY Kinds, TypeParts DEF IInv
<1>1. CASE Abort(t)
  BY <1>1, Kinds, LoopTurns DEF Abort, LabelInv, Goto, Reports, ThreadType
<1>2. CASE Cancel(t)
  BY <1>2, Kinds, LoopTurns DEF Cancel, LabelInv, Goto, Reports, ThreadType
<1>3. CASE Close(t)
  BY <1>3, Kinds, LoopTurns DEF Close, LabelInv, Goto, Reports, ThreadType
<1>4. CASE CloseRuntime(t)
  BY <1>4, Kinds, LoopTurns DEF CloseRuntime, LabelInv, Goto, Reports, ThreadType
<1> QED BY <1>1, <1>2, <1>3, <1>4 DEF Stopping

-----------------------------------------------------------------------------
(* Who holds dispatchMu. *)

LEMMA ReportingDispatch ==
  ASSUME IInv, NEW t \in Threads, Reporting(t)
  PROVE  DispatchInv'
<1>. t \in Threads /\ ThreadType /\ LabelInv /\ DispatchInv
  BY Kinds, TypeParts DEF IInv
<1>1. CASE SnapshotSteer(t)
  BY <1>1, Kinds, LoopTurns DEF SnapshotSteer, DispatchInv, Goto, ThreadType, LabelInv,
     Reports
<1>2. CASE SnapshotFollowUps(t)
  BY <1>2, Kinds, LoopTurns DEF SnapshotFollowUps, DispatchInv, Goto, ThreadType,
     LabelInv, Reports
<1>3. CASE StoreQueue(t)
  BY <1>3, Kinds, LoopTurns DEF StoreQueue, DispatchInv, Goto, ThreadType, LabelInv,
     Reports
<1>4. CASE ReadRun(t)
  BY <1>4, Kinds, LoopTurns DEF ReadRun, DispatchInv, Goto, ThreadType, LabelInv,
     Reports
<1>5. CASE EmitRun(t)
  BY <1>5, Kinds, LoopTurns DEF EmitRun, DispatchInv, Goto, ThreadType, LabelInv,
     Reports
<1> QED BY <1>1, <1>2, <1>3, <1>4, <1>5 DEF Reporting

LEMMA SendingDispatch ==
  ASSUME IInv, NEW t \in Send_, Sending(t) \/ \E mode \in Modes : Send(t, mode)
  PROVE  DispatchInv'
<1>. t \in Threads /\ ThreadType /\ LabelInv /\ DispatchInv
  BY Kinds, TypeParts DEF IInv
<1>1. ASSUME NEW mode \in Modes, Send(t, mode) PROVE DispatchInv'
  BY <1>1, Kinds, LoopTurns DEF Send, DispatchInv, Goto, ThreadType, LabelInv, Reports
<1>2. CASE Enqueue(t)
  BY <1>2, Kinds, LoopTurns DEF Enqueue, DispatchInv, Goto, ThreadType, LabelInv,
     Reports, Report
<1>3. CASE StartTurn(t)
  BY <1>3, Kinds, LoopTurns DEF StartTurn, DispatchInv, Goto, ThreadType, LabelInv,
     Reports, Report
<1>4. CASE AddMessage(t)
  BY <1>4, Kinds, LoopTurns DEF AddMessage, DispatchInv, Goto, ThreadType, LabelInv,
     Reports
<1>5. CASE Launch(t)
  BY <1>5, Kinds, LoopTurns DEF Launch, DispatchInv, Goto, ThreadType, LabelInv, Reports
<1>6. CASE Unlock(t)
  BY <1>6, Kinds, LoopTurns DEF Unlock, DispatchInv, Goto, ThreadType, LabelInv, Reports
<1> QED BY <1>1, <1>2, <1>3, <1>4, <1>5, <1>6 DEF Sending

LEMMA RunningDispatch ==
  ASSUME IInv, NEW t \in Loops, Running(t)
  PROVE  DispatchInv'
<1>. t \in Threads /\ ThreadType /\ LabelInv /\ DispatchInv
  BY Kinds, TypeParts DEF IInv
<1>1. CASE Chunk(t)
  BY <1>1, Kinds, LoopTurns DEF Chunk, DispatchInv, Goto, ThreadType, LabelInv,
     Reports, threadVars
<1>2. CASE TakeSteer(t)
  BY <1>2, Kinds, LoopTurns DEF TakeSteer, DispatchInv, Goto, ThreadType, LabelInv,
     Reports, Report
<1>3. CASE TakeFollowUp(t)
  BY <1>3, Kinds, LoopTurns DEF TakeFollowUp, DispatchInv, Goto, ThreadType, LabelInv,
     Reports, Report
<1>4. CASE StreamEnds(t)
  BY <1>4, Kinds, LoopTurns DEF StreamEnds, DispatchInv, Goto, ThreadType, LabelInv,
     Reports
<1> QED BY <1>1, <1>2, <1>3, <1>4 DEF Running

LEMMA SettlingDispatch ==
  ASSUME IInv, NEW t \in Loops, Settling(t)
  PROVE  DispatchInv'
<1>. t \in Threads /\ ThreadType /\ LabelInv /\ DispatchInv
  BY Kinds, TypeParts DEF IInv
<1>1. CASE SettleStale(t)
  BY <1>1, Kinds, LoopTurns DEF SettleStale, DispatchInv, Goto, ThreadType, LabelInv,
     Reports
<1>2. CASE SettleSpeaking(t)
  BY <1>2, Kinds, LoopTurns DEF SettleSpeaking, DispatchInv, Goto, ThreadType,
     LabelInv, Reports
<1>3. CASE AssistantEnd(t)
  BY <1>3, Kinds, LoopTurns DEF AssistantEnd, DispatchInv, Goto, ThreadType, LabelInv,
     Reports
<1>4. CASE SettleIdle(t)
  BY <1>4, Kinds, LoopTurns DEF SettleIdle, DispatchInv, Goto, ThreadType, LabelInv,
     Reports, Report
<1>5. CASE SettleMeta(t)
  BY <1>5, Kinds, LoopTurns DEF SettleMeta, DispatchInv, Goto, ThreadType, LabelInv,
     Reports
<1> QED BY <1>1, <1>2, <1>3, <1>4, <1>5 DEF Settling

LEMMA StoppingDispatch ==
  ASSUME IInv, NEW t \in Abort_ \cup Close_, Abort(t) \/ Stopping(t)
  PROVE  DispatchInv'
<1>. t \in Threads /\ ThreadType /\ LabelInv /\ DispatchInv
  BY Kinds, TypeParts DEF IInv
<1>1. CASE Abort(t)
  BY <1>1, Kinds, LoopTurns DEF Abort, DispatchInv, Goto, ThreadType, LabelInv, Reports
<1>2. CASE Cancel(t)
  BY <1>2, Kinds, LoopTurns DEF Cancel, DispatchInv, Goto, ThreadType, LabelInv, Reports
<1>3. CASE Close(t)
  BY <1>3, Kinds, LoopTurns DEF Close, DispatchInv, Goto, ThreadType, LabelInv, Reports
<1>4. CASE CloseRuntime(t)
  BY <1>4, Kinds, LoopTurns DEF CloseRuntime, DispatchInv, Goto, ThreadType, LabelInv,
     Reports
<1> QED BY <1>1, <1>2, <1>3, <1>4 DEF Stopping

-----------------------------------------------------------------------------
(* Where the baton is. *)

\* A step that leaves the run state and the turn alone keeps the baton where it
\* is, or lets go of it.
LEMMA BusyKept ==
  ASSUME BusyInv, cancel' = cancel, run' = "idle" <=> run = "idle",
         \A u \in Threads : Busy(u)' => Busy(u) /\ TurnOf(u)' = TurnOf(u),
         \A u \in Send_ : pc'[u] = "turn" => pc[u] = "turn" \/ run = "idle"
  PROVE  BusyInv'
BY Kinds DEF BusyInv

LEMMA ReportingBusy ==
  ASSUME IInv, NEW t \in Threads, Reporting(t)
  PROVE  BusyInv'
<1>. t \in Threads /\ ThreadType /\ LabelInv /\ BusyInv
  BY Kinds, TypeParts DEF IInv
<1>1. CASE SnapshotSteer(t)
  <2>1. \A u \in Threads : Busy(u)' => Busy(u) /\ TurnOf(u)' = TurnOf(u)
    BY <1>1, Kinds, LoopTurns DEF SnapshotSteer, Goto, Reports, ThreadType, LabelInv,
       Busy, TurnOf, ReportingTo
  <2>2. cancel' = cancel /\ (run' = "idle" <=> run = "idle")
    BY <1>1 DEF SnapshotSteer, lockVars
  <2>3. \A u \in Send_ : pc'[u] = "turn" => pc[u] = "turn" \/ run = "idle"
    BY <1>1, Kinds DEF SnapshotSteer, Goto, Reports, ThreadType, LabelInv
  <2> QED BY <2>1, <2>2, <2>3, BusyKept
<1>2. CASE SnapshotFollowUps(t)
  <2>1. \A u \in Threads : Busy(u)' => Busy(u) /\ TurnOf(u)' = TurnOf(u)
    BY <1>2, Kinds, LoopTurns DEF SnapshotFollowUps, Goto, Reports, ThreadType,
       LabelInv, Busy, TurnOf, ReportingTo
  <2>2. cancel' = cancel /\ (run' = "idle" <=> run = "idle")
    BY <1>2 DEF SnapshotFollowUps, lockVars
  <2>3. \A u \in Send_ : pc'[u] = "turn" => pc[u] = "turn" \/ run = "idle"
    BY <1>2, Kinds DEF SnapshotFollowUps, Goto, Reports, ThreadType, LabelInv
  <2> QED BY <2>1, <2>2, <2>3, BusyKept
<1>3. CASE StoreQueue(t)
  <2>1. \A u \in Threads : Busy(u)' => Busy(u) /\ TurnOf(u)' = TurnOf(u)
    BY <1>3, Kinds, LoopTurns DEF StoreQueue, Goto, Reports, ThreadType, LabelInv,
       Busy, TurnOf, ReportingTo
  <2>2. cancel' = cancel /\ (run' = "idle" <=> run = "idle")
    BY <1>3 DEF StoreQueue, lockVars
  <2>3. \A u \in Send_ : pc'[u] = "turn" => pc[u] = "turn" \/ run = "idle"
    BY <1>3, Kinds DEF StoreQueue, Goto, Reports, ThreadType, LabelInv
  <2> QED BY <2>1, <2>2, <2>3, BusyKept
<1>4. CASE ReadRun(t)
  <2>1. \A u \in Threads : Busy(u)' => Busy(u) /\ TurnOf(u)' = TurnOf(u)
    BY <1>4, Kinds, LoopTurns DEF ReadRun, Goto, Reports, ThreadType, LabelInv, Busy,
       TurnOf, ReportingTo
  <2>2. cancel' = cancel /\ (run' = "idle" <=> run = "idle")
    BY <1>4 DEF ReadRun, lockVars
  <2>3. \A u \in Send_ : pc'[u] = "turn" => pc[u] = "turn" \/ run = "idle"
    BY <1>4, Kinds DEF ReadRun, Goto, Reports, ThreadType, LabelInv
  <2> QED BY <2>1, <2>2, <2>3, BusyKept
<1>5. CASE EmitRun(t)
  <2>1. \A u \in Threads : Busy(u)' => Busy(u) /\ TurnOf(u)' = TurnOf(u)
    BY <1>5, Kinds, LoopTurns DEF EmitRun, Goto, Reports, ThreadType, LabelInv, Busy,
       TurnOf, ReportingTo
  <2>2. cancel' = cancel /\ (run' = "idle" <=> run = "idle")
    BY <1>5 DEF EmitRun, lockVars
  <2>3. \A u \in Send_ : pc'[u] = "turn" => pc[u] = "turn" \/ run = "idle"
    BY <1>5, Kinds DEF EmitRun, Goto, Reports, ThreadType, LabelInv
  <2> QED BY <2>1, <2>2, <2>3, BusyKept
<1> QED BY <1>1, <1>2, <1>3, <1>4, <1>5 DEF Reporting

LEMMA SendingBusy ==
  ASSUME IInv, NEW t \in Send_, Sending(t) \/ \E mode \in Modes : Send(t, mode)
  PROVE  BusyInv'
<1>. t \in Threads /\ ThreadType /\ LabelInv /\ BusyInv
  BY Kinds, TypeParts DEF IInv
<1>1. ASSUME NEW mode \in Modes, Send(t, mode) PROVE BusyInv'
  <2>1. \A u \in Threads : Busy(u)' => Busy(u) /\ TurnOf(u)' = TurnOf(u)
    BY <1>1, Kinds, LoopTurns DEF Send, Goto, Reports, ThreadType, LabelInv, Busy,
       TurnOf, ReportingTo
  <2>2. cancel' = cancel /\ (run' = "idle" <=> run = "idle")
    BY <1>1 DEF Send, lockVars
  <2>3. \A u \in Send_ : pc'[u] = "turn" => pc[u] = "turn" \/ run = "idle"
    BY <1>1, Kinds DEF Send, Goto, Reports, ThreadType, LabelInv
  <2> QED BY <2>1, <2>2, <2>3, BusyKept
<1>2. CASE Enqueue(t)
  <2>1. \A u \in Threads : Busy(u)' => Busy(u) /\ TurnOf(u)' = TurnOf(u)
    BY <1>2, Kinds, LoopTurns DEF Enqueue, Goto, Reports, ThreadType, LabelInv, Busy,
       TurnOf, ReportingTo, Report
  <2>2. cancel' = cancel /\ (run' = "idle" <=> run = "idle")
    BY <1>2 DEF Enqueue, lockVars
  <2>3. \A u \in Send_ : pc'[u] = "turn" => pc[u] = "turn" \/ run = "idle"
    BY <1>2, Kinds DEF Enqueue, Goto, Reports, ThreadType, LabelInv, Report
  <2> QED BY <2>1, <2>2, <2>3, BusyKept
<1>3. CASE StartTurn(t)
  <2>1. \A u \in Threads : ~Busy(u)
    BY <1>3 DEF StartTurn, BusyInv
  <2>2. \A u \in Threads : Busy(u)' => u = t
    BY <1>3, <2>1, Kinds, LoopTurns DEF StartTurn, Report, Goto, ThreadType, Busy,
       ReportingTo
  <2>3. TurnOf(t)' = cancel' /\ run' = "running"
    BY <1>3, Kinds DEF StartTurn, ThreadType, TurnOf, Local
  <2>4. \A u \in Send_ : pc'[u] # "turn"
    BY <1>3, Kinds DEF StartTurn, Report, Goto, ThreadType, IInv, DispatchInv
  <2> QED BY <2>2, <2>3, <2>4 DEF BusyInv
<1>4. CASE AddMessage(t)
  <2>1. \A u \in Threads : Busy(u)' => Busy(u) /\ TurnOf(u)' = TurnOf(u)
    BY <1>4, Kinds, LoopTurns DEF AddMessage, Goto, Reports, ThreadType, LabelInv,
       Busy, TurnOf, ReportingTo
  <2>2. cancel' = cancel /\ (run' = "idle" <=> run = "idle")
    BY <1>4 DEF AddMessage, lockVars
  <2>3. \A u \in Send_ : pc'[u] = "turn" => pc[u] = "turn" \/ run = "idle"
    BY <1>4, Kinds DEF AddMessage, Goto, Reports, ThreadType, LabelInv
  <2> QED BY <2>1, <2>2, <2>3, BusyKept
<1>5. CASE Launch(t)
  <2> DEFINE l == <<"loop", local[t].turn>>
  <2>1. Busy(t) /\ TurnOf(t) = local[t].turn
    BY <1>5, Kinds DEF Launch, Busy, TurnOf
  <2>2. \A u \in Threads : Busy(u)' => u = l
    BY <1>5, <2>1, Kinds, LoopTurns DEF Launch, ThreadType, Busy, ReportingTo, BusyInv
  <2>3. run # "idle" /\ cancel = local[t].turn
    BY <2>1 DEF BusyInv
  <2>5. \A u \in Threads : u = l => TurnOf(u)' = cancel
    BY <2>3, LoopTurns DEF TurnOf, Turn
  <2>4. \A u \in Send_ : pc'[u] # "turn"
    BY <1>5, <2>1, Kinds DEF Launch, ThreadType, BusyInv
  <2> QED BY <1>5, <2>2, <2>3, <2>4, <2>5 DEF BusyInv, Launch, lockVars
<1>6. CASE Unlock(t)
  <2>1. \A u \in Threads : Busy(u)' => Busy(u) /\ TurnOf(u)' = TurnOf(u)
    BY <1>6, Kinds, LoopTurns DEF Unlock, Goto, Reports, ThreadType, LabelInv, Busy,
       TurnOf, ReportingTo
  <2>2. cancel' = cancel /\ (run' = "idle" <=> run = "idle")
    BY <1>6 DEF Unlock, lockVars
  <2>3. \A u \in Send_ : pc'[u] = "turn" => pc[u] = "turn" \/ run = "idle"
    BY <1>6, Kinds DEF Unlock, Goto, Reports, ThreadType, LabelInv
  <2> QED BY <2>1, <2>2, <2>3, BusyKept
<1> QED BY <1>1, <1>2, <1>3, <1>4, <1>5, <1>6 DEF Sending

LEMMA RunningBusy ==
  ASSUME IInv, NEW t \in Loops, Running(t)
  PROVE  BusyInv'
<1>. t \in Threads /\ ThreadType /\ LabelInv /\ BusyInv
  BY Kinds, TypeParts DEF IInv
<1>1. CASE Chunk(t)
  <2>1. \A u \in Threads : Busy(u)' => Busy(u) /\ TurnOf(u)' = TurnOf(u)
    BY <1>1, Kinds, LoopTurns DEF Chunk, Goto, Reports, ThreadType, LabelInv, Busy,
       TurnOf, ReportingTo, threadVars
  <2>2. cancel' = cancel /\ (run' = "idle" <=> run = "idle")
    BY <1>1 DEF Chunk, lockVars
  <2>3. \A u \in Send_ : pc'[u] = "turn" => pc[u] = "turn" \/ run = "idle"
    BY <1>1, Kinds DEF Chunk, Goto, Reports, ThreadType, LabelInv, threadVars
  <2> QED BY <2>1, <2>2, <2>3, BusyKept
<1>2. CASE TakeSteer(t)
  <2>1. \A u \in Threads : Busy(u)' => Busy(u) /\ TurnOf(u)' = TurnOf(u)
    BY <1>2, Kinds, LoopTurns DEF TakeSteer, Goto, Reports, ThreadType, LabelInv, Busy,
       TurnOf, ReportingTo, Report
  <2>2. cancel' = cancel /\ (run' = "idle" <=> run = "idle")
    BY <1>2 DEF TakeSteer, lockVars
  <2>3. \A u \in Send_ : pc'[u] = "turn" => pc[u] = "turn" \/ run = "idle"
    BY <1>2, Kinds DEF TakeSteer, Goto, Reports, ThreadType, LabelInv, Report
  <2> QED BY <2>1, <2>2, <2>3, BusyKept
<1>3. CASE TakeFollowUp(t)
  <2>1. \A u \in Threads : Busy(u)' => Busy(u) /\ TurnOf(u)' = TurnOf(u)
    BY <1>3, Kinds, LoopTurns DEF TakeFollowUp, Goto, Reports, ThreadType, LabelInv,
       Busy, TurnOf, ReportingTo, Report
  <2>2. cancel' = cancel /\ (run' = "idle" <=> run = "idle")
    BY <1>3 DEF TakeFollowUp, lockVars
  <2>3. \A u \in Send_ : pc'[u] = "turn" => pc[u] = "turn" \/ run = "idle"
    BY <1>3, Kinds DEF TakeFollowUp, Goto, Reports, ThreadType, LabelInv, Report
  <2> QED BY <2>1, <2>2, <2>3, BusyKept
<1>4. CASE StreamEnds(t)
  <2>1. \A u \in Threads : Busy(u)' => Busy(u) /\ TurnOf(u)' = TurnOf(u)
    BY <1>4, Kinds, LoopTurns DEF StreamEnds, Goto, Reports, ThreadType, LabelInv,
       Busy, TurnOf, ReportingTo
  <2>2. cancel' = cancel /\ (run' = "idle" <=> run = "idle")
    BY <1>4 DEF StreamEnds, lockVars
  <2>3. \A u \in Send_ : pc'[u] = "turn" => pc[u] = "turn" \/ run = "idle"
    BY <1>4, Kinds DEF StreamEnds, Goto, Reports, ThreadType, LabelInv
  <2> QED BY <2>1, <2>2, <2>3, BusyKept
<1> QED BY <1>1, <1>2, <1>3, <1>4 DEF Running

LEMMA SettlingBusy ==
  ASSUME IInv, NEW t \in Loops, Settling(t)
  PROVE  BusyInv'
<1>. t \in Threads /\ ThreadType /\ LabelInv /\ BusyInv
  BY Kinds, TypeParts DEF IInv
<1>1. CASE SettleStale(t)
  <2>1. \A u \in Threads : Busy(u)' => Busy(u) /\ TurnOf(u)' = TurnOf(u)
    BY <1>1, Kinds, LoopTurns DEF SettleStale, Goto, Reports, ThreadType, LabelInv,
       Busy, TurnOf, ReportingTo
  <2>2. cancel' = cancel /\ (run' = "idle" <=> run = "idle")
    BY <1>1 DEF SettleStale, lockVars
  <2>3. \A u \in Send_ : pc'[u] = "turn" => pc[u] = "turn" \/ run = "idle"
    BY <1>1, Kinds DEF SettleStale, Goto, Reports, ThreadType, LabelInv
  <2> QED BY <2>1, <2>2, <2>3, BusyKept
<1>2. CASE SettleSpeaking(t)
  <2>1. \A u \in Threads : Busy(u)' => Busy(u) /\ TurnOf(u)' = TurnOf(u)
    BY <1>2, Kinds, LoopTurns DEF SettleSpeaking, Goto, Reports, ThreadType, LabelInv,
       Busy, TurnOf, ReportingTo
  <2>2. cancel' = cancel /\ (run' = "idle" <=> run = "idle")
    BY <1>2 DEF SettleSpeaking, lockVars
  <2>3. \A u \in Send_ : pc'[u] = "turn" => pc[u] = "turn" \/ run = "idle"
    BY <1>2, Kinds DEF SettleSpeaking, Goto, Reports, ThreadType, LabelInv
  <2> QED BY <2>1, <2>2, <2>3, BusyKept
<1>3. CASE AssistantEnd(t)
  <2>1. \A u \in Threads : Busy(u)' => Busy(u) /\ TurnOf(u)' = TurnOf(u)
    BY <1>3, Kinds, LoopTurns DEF AssistantEnd, Goto, Reports, ThreadType, LabelInv,
       Busy, TurnOf, ReportingTo
  <2>2. cancel' = cancel /\ (run' = "idle" <=> run = "idle")
    BY <1>3 DEF AssistantEnd, lockVars
  <2>3. \A u \in Send_ : pc'[u] = "turn" => pc[u] = "turn" \/ run = "idle"
    BY <1>3, Kinds DEF AssistantEnd, Goto, Reports, ThreadType, LabelInv
  <2> QED BY <2>1, <2>2, <2>3, BusyKept
<1>4. CASE SettleIdle(t)
  <2>1. Busy(t)
    BY <1>4 DEF SettleIdle, Busy
  <2>2. \A u \in Threads : ~Busy(u)'
    BY <1>4, <2>1, Kinds, LoopTurns DEF SettleIdle, Report, Goto, ThreadType, Busy,
       ReportingTo, BusyInv
  <2>3. run' = "idle"
    BY <1>4 DEF SettleIdle
  <2> QED BY <2>2, <2>3 DEF BusyInv
<1>5. CASE SettleMeta(t)
  <2>1. \A u \in Threads : Busy(u)' => Busy(u) /\ TurnOf(u)' = TurnOf(u)
    BY <1>5, Kinds, LoopTurns DEF SettleMeta, Goto, Reports, ThreadType, LabelInv,
       Busy, TurnOf, ReportingTo
  <2>2. cancel' = cancel /\ (run' = "idle" <=> run = "idle")
    BY <1>5 DEF SettleMeta, lockVars
  <2>3. \A u \in Send_ : pc'[u] = "turn" => pc[u] = "turn" \/ run = "idle"
    BY <1>5, Kinds DEF SettleMeta, Goto, Reports, ThreadType, LabelInv
  <2> QED BY <2>1, <2>2, <2>3, BusyKept
<1> QED BY <1>1, <1>2, <1>3, <1>4, <1>5 DEF Settling

LEMMA StoppingBusy ==
  ASSUME IInv, NEW t \in Abort_ \cup Close_, Abort(t) \/ Stopping(t)
  PROVE  BusyInv'
<1>. t \in Threads /\ ThreadType /\ LabelInv /\ BusyInv
  BY Kinds, TypeParts DEF IInv
<1>1. CASE Abort(t)
  <2>1. \A u \in Threads : Busy(u)' => Busy(u) /\ TurnOf(u)' = TurnOf(u)
    BY <1>1, Kinds, LoopTurns DEF Abort, Goto, Reports, ThreadType, LabelInv, Busy,
       TurnOf, ReportingTo
  <2>2. cancel' = cancel /\ (run' = "idle" <=> run = "idle")
    BY <1>1 DEF Abort
  <2>3. \A u \in Send_ : pc'[u] = "turn" => pc[u] = "turn" \/ run = "idle"
    BY <1>1, Kinds DEF Abort, Goto, Reports, ThreadType, LabelInv
  <2> QED BY <2>1, <2>2, <2>3, BusyKept
<1>2. CASE Cancel(t)
  <2>1. \A u \in Threads : Busy(u)' => Busy(u) /\ TurnOf(u)' = TurnOf(u)
    BY <1>2, Kinds, LoopTurns DEF Cancel, Goto, Reports, ThreadType, LabelInv, Busy,
       TurnOf, ReportingTo
  <2>2. cancel' = cancel /\ (run' = "idle" <=> run = "idle")
    BY <1>2 DEF Cancel, lockVars
  <2>3. \A u \in Send_ : pc'[u] = "turn" => pc[u] = "turn" \/ run = "idle"
    BY <1>2, Kinds DEF Cancel, Goto, Reports, ThreadType, LabelInv
  <2> QED BY <2>1, <2>2, <2>3, BusyKept
<1>3. CASE Close(t)
  <2>1. \A u \in Threads : Busy(u)' => Busy(u) /\ TurnOf(u)' = TurnOf(u)
    BY <1>3, Kinds, LoopTurns DEF Close, Goto, Reports, ThreadType, LabelInv, Busy,
       TurnOf, ReportingTo
  <2>2. cancel' = cancel /\ (run' = "idle" <=> run = "idle")
    BY <1>3 DEF Close, lockVars
  <2>3. \A u \in Send_ : pc'[u] = "turn" => pc[u] = "turn" \/ run = "idle"
    BY <1>3, Kinds DEF Close, Goto, Reports, ThreadType, LabelInv
  <2> QED BY <2>1, <2>2, <2>3, BusyKept
<1>4. CASE CloseRuntime(t)
  <2>1. \A u \in Threads : Busy(u)' => Busy(u) /\ TurnOf(u)' = TurnOf(u)
    BY <1>4, Kinds, LoopTurns DEF CloseRuntime, Goto, Reports, ThreadType, LabelInv,
       Busy, TurnOf, ReportingTo
  <2>2. cancel' = cancel /\ (run' = "idle" <=> run = "idle")
    BY <1>4 DEF CloseRuntime, lockVars
  <2>3. \A u \in Send_ : pc'[u] = "turn" => pc[u] = "turn" \/ run = "idle"
    BY <1>4, Kinds DEF CloseRuntime, Goto, Reports, ThreadType, LabelInv
  <2> QED BY <2>1, <2>2, <2>3, BusyKept
<1> QED BY <1>1, <1>2, <1>3, <1>4 DEF Stopping

-----------------------------------------------------------------------------
(* What may be cancelled. *)

\* A turn that may be stopped stays so when another is started, and when Close
\* takes a generation.
LEMMA MayStopKept ==
  ASSUME IInv, NEW c \in Nat, MayStop(c), generation' = generation + 1,
         cancel' = generation + 1 \/ UNCHANGED <<run, cancel>>
  PROVE  MayStop(c)'
BY DEF MayStop, IInv, TypeOK

LEMMA TurnsAreNumbers ==
  ASSUME IInv
  PROVE  /\ \A t \in Threads : local[t].turn \in Nat
         /\ cancelled \subseteq Nat
BY ChatAssumption DEF IInv, TypeOK, Local, Turns

LEMMA ReportingCancel ==
  ASSUME IInv, NEW t \in Threads, Reporting(t)
  PROVE  CancelInv'
<1>. t \in Threads /\ ThreadType /\ LockType /\ TurnType /\ LabelInv /\ CancelInv
  BY Kinds, TypeParts DEF IInv
<1>1. CASE SnapshotSteer(t)
  BY <1>1, Kinds, LoopTurns DEF SnapshotSteer, CancelInv, MayStop, Goto, Reports,
     ThreadType, LockType, TurnType, LabelInv, Local, lockVars, turnVars
<1>2. CASE SnapshotFollowUps(t)
  BY <1>2, Kinds, LoopTurns DEF SnapshotFollowUps, CancelInv, MayStop, Goto, Reports,
     ThreadType, LockType, TurnType, LabelInv, Local, lockVars, turnVars
<1>3. CASE StoreQueue(t)
  BY <1>3, Kinds, LoopTurns DEF StoreQueue, CancelInv, MayStop, Goto, Reports,
     ThreadType, LockType, TurnType, LabelInv, Local, lockVars, turnVars
<1>4. CASE ReadRun(t)
  BY <1>4, Kinds, LoopTurns DEF ReadRun, CancelInv, MayStop, Goto, Reports, ThreadType,
     LockType, TurnType, LabelInv, Local, lockVars, turnVars
<1>5. CASE EmitRun(t)
  BY <1>5, Kinds, LoopTurns DEF EmitRun, CancelInv, MayStop, Goto, Reports, ThreadType,
     LockType, TurnType, LabelInv, Local, lockVars, turnVars
<1> QED BY <1>1, <1>2, <1>3, <1>4, <1>5 DEF Reporting

LEMMA SendingCancel ==
  ASSUME IInv, NEW t \in Send_, Sending(t) \/ \E mode \in Modes : Send(t, mode)
  PROVE  CancelInv'
<1>. t \in Threads /\ ThreadType /\ LockType /\ TurnType /\ LabelInv /\ CancelInv
  BY Kinds, TypeParts DEF IInv
<1>1. ASSUME NEW mode \in Modes, Send(t, mode) PROVE CancelInv'
  BY <1>1, Kinds, LoopTurns DEF Send, CancelInv, MayStop, Goto, Reports, ThreadType,
     LockType, TurnType, LabelInv, Local, lockVars, turnVars
<1>2. CASE Enqueue(t)
  BY <1>2, Kinds, LoopTurns DEF Enqueue, CancelInv, MayStop, Goto, Reports, ThreadType,
     LockType, TurnType, LabelInv, Local, lockVars, turnVars, Report
<1>3. CASE StartTurn(t)
  <2>1. /\ generation' = generation + 1 /\ cancel' = generation + 1 /\ run' = "running"
        /\ cancelled' = cancelled
    BY <1>3 DEF StartTurn
  <2>2. \A u \in Abort_ \cup Close_ : pc'[u] = pc[u] /\ local'[u] = local[u]
    BY <1>3, Kinds DEF StartTurn, Report, Goto, ThreadType
  <2>3. \A c \in Nat : MayStop(c) => MayStop(c)'
    BY <2>1, MayStopKept
  <2>4. \A u \in Abort_ \cup Close_ :
          pc'[u] \in {"publish", "emit", "cancel"} /\ local'[u].turn # 0
            => MayStop(local[u].turn)'
    BY <2>2, <2>3, Kinds, TurnsAreNumbers DEF CancelInv
  <2>5. \A c \in cancelled : c # 0 /\ MayStop(c)'
    BY <2>3, TurnsAreNumbers DEF CancelInv
  <2>6. cancel' <= generation' /\ (cancel' = 0 <=> run' = "idle")
    BY <2>1 DEF LockType
  <2> QED BY <2>1, <2>2, <2>4, <2>5, <2>6 DEF CancelInv, MayStop
<1>4. CASE AddMessage(t)
  BY <1>4, Kinds, LoopTurns DEF AddMessage, CancelInv, MayStop, Goto, Reports,
     ThreadType, LockType, TurnType, LabelInv, Local, lockVars, turnVars
<1>5. CASE Launch(t)
  BY <1>5, Kinds, LoopTurns DEF Launch, CancelInv, MayStop, Goto, Reports, ThreadType,
     LockType, TurnType, LabelInv, Local, lockVars, turnVars
<1>6. CASE Unlock(t)
  BY <1>6, Kinds, LoopTurns DEF Unlock, CancelInv, MayStop, Goto, Reports, ThreadType,
     LockType, TurnType, LabelInv, Local, lockVars, turnVars
<1> QED BY <1>1, <1>2, <1>3, <1>4, <1>5, <1>6 DEF Sending

LEMMA RunningCancel ==
  ASSUME IInv, NEW t \in Loops, Running(t)
  PROVE  CancelInv'
<1>. t \in Threads /\ ThreadType /\ LockType /\ TurnType /\ LabelInv /\ CancelInv
  BY Kinds, TypeParts DEF IInv
<1>1. CASE Chunk(t)
  BY <1>1, Kinds, LoopTurns DEF Chunk, CancelInv, MayStop, Goto, Reports, ThreadType,
     LockType, TurnType, LabelInv, Local, lockVars, turnVars, threadVars
<1>2. CASE TakeSteer(t)
  BY <1>2, Kinds, LoopTurns DEF TakeSteer, CancelInv, MayStop, Goto, Reports,
     ThreadType, LockType, TurnType, LabelInv, Local, lockVars, turnVars, Report
<1>3. CASE TakeFollowUp(t)
  BY <1>3, Kinds, LoopTurns DEF TakeFollowUp, CancelInv, MayStop, Goto, Reports,
     ThreadType, LockType, TurnType, LabelInv, Local, lockVars, turnVars, Report
<1>4. CASE StreamEnds(t)
  BY <1>4, Kinds, LoopTurns DEF StreamEnds, CancelInv, MayStop, Goto, Reports,
     ThreadType, LockType, TurnType, LabelInv, Local, lockVars, turnVars
<1> QED BY <1>1, <1>2, <1>3, <1>4 DEF Running

LEMMA SettlingCancel ==
  ASSUME IInv, NEW t \in Loops, Settling(t)
  PROVE  CancelInv'
<1>. t \in Threads /\ ThreadType /\ LockType /\ TurnType /\ LabelInv /\ CancelInv
  BY Kinds, TypeParts DEF IInv
<1>1. CASE SettleStale(t)
  BY <1>1, Kinds, LoopTurns DEF SettleStale, CancelInv, MayStop, Goto, Reports,
     ThreadType, LockType, TurnType, LabelInv, Local, lockVars, turnVars
<1>2. CASE SettleSpeaking(t)
  BY <1>2, Kinds, LoopTurns DEF SettleSpeaking, CancelInv, MayStop, Goto, Reports,
     ThreadType, LockType, TurnType, LabelInv, Local, lockVars, turnVars
<1>3. CASE AssistantEnd(t)
  BY <1>3, Kinds, LoopTurns DEF AssistantEnd, CancelInv, MayStop, Goto, Reports,
     ThreadType, LockType, TurnType, LabelInv, Local, lockVars, turnVars
<1>4. CASE SettleIdle(t)
  BY <1>4, Kinds, LoopTurns DEF SettleIdle, CancelInv, MayStop, Goto, Reports,
     ThreadType, LockType, TurnType, LabelInv, Local, lockVars, turnVars, Report
<1>5. CASE SettleMeta(t)
  BY <1>5, Kinds, LoopTurns DEF SettleMeta, CancelInv, MayStop, Goto, Reports,
     ThreadType, LockType, TurnType, LabelInv, Local, lockVars, turnVars
<1> QED BY <1>1, <1>2, <1>3, <1>4, <1>5 DEF Settling

LEMMA StoppingCancel ==
  ASSUME IInv, NEW t \in Abort_ \cup Close_, Abort(t) \/ Stopping(t)
  PROVE  CancelInv'
<1>. t \in Threads /\ ThreadType /\ LockType /\ TurnType /\ LabelInv /\ CancelInv
  BY Kinds, TypeParts DEF IInv
<1>1. CASE Abort(t)
  <2>1. /\ UNCHANGED <<generation, cancel, cancelled>>
        /\ run' = IF run = "running" THEN "stopping" ELSE run
    BY <1>1 DEF Abort
  <2>2. \A u \in Abort_ \cup Close_ : u # t => pc'[u] = pc[u] /\ local'[u] = local[u]
    BY <1>1, Kinds DEF Abort, ThreadType
  <2>3. \A c \in Nat : MayStop(c) => MayStop(c)'
    BY <2>1 DEF MayStop
  <2>4. local'[t].turn = cancel /\ (cancel # 0 => MayStop(cancel)')
    BY <1>1, <2>1 DEF Abort, ThreadType, LockType, Local, States, MayStop, CancelInv
  <2>5. \A u \in Abort_ \cup Close_ :
          pc'[u] \in {"publish", "emit", "cancel"} /\ local'[u].turn # 0
            => MayStop(IF u = t THEN cancel ELSE local[u].turn)'
    BY <2>2, <2>3, <2>4, Kinds, TurnsAreNumbers DEF CancelInv
  <2>6. \A c \in cancelled : c # 0 /\ MayStop(c)'
    BY <2>3, TurnsAreNumbers DEF CancelInv
  <2>7. cancel' <= generation' /\ (cancel' = 0 <=> run' = "idle")
    BY <2>1 DEF LockType, CancelInv
  <2> QED BY <2>1, <2>2, <2>4, <2>5, <2>6, <2>7 DEF CancelInv, MayStop
<1>2. CASE Cancel(t)
  BY <1>2, Kinds, LoopTurns DEF Cancel, CancelInv, MayStop, Goto, Reports, ThreadType,
     LockType, TurnType, LabelInv, Local, lockVars, turnVars
<1>3. CASE Close(t)
  <2>1. generation' = generation + 1 /\ UNCHANGED <<run, cancel, cancelled, local>>
    BY <1>3 DEF Close, turnVars
  <2>2. \A u \in Abort_ \cup Close_ : pc'[u] # "runtime" => pc'[u] = pc[u]
    BY <1>3, Kinds DEF Close, Goto, ThreadType
  <2>3. \A c \in Nat : MayStop(c) => MayStop(c)'
    BY <2>1, MayStopKept
  <2>4. \A u \in Abort_ \cup Close_ :
          pc'[u] \in {"publish", "emit", "cancel"} /\ local'[u].turn # 0
            => MayStop(local[u].turn)'
    BY <2>1, <2>2, <2>3, Kinds, TurnsAreNumbers DEF CancelInv
  <2>5. \A c \in cancelled : c # 0 /\ MayStop(c)'
    BY <2>3, TurnsAreNumbers DEF CancelInv
  <2>6. cancel' <= generation' /\ (cancel' = 0 <=> run' = "idle")
    BY <2>1 DEF LockType, CancelInv
  <2> QED BY <2>1, <2>4, <2>5, <2>6 DEF CancelInv, MayStop
<1>4. CASE CloseRuntime(t)
  BY <1>4, Kinds, LoopTurns DEF CloseRuntime, CancelInv, MayStop, Goto, Reports,
     ThreadType, LockType, TurnType, LabelInv, Local, lockVars, turnVars
<1> QED BY <1>1, <1>2, <1>3, <1>4 DEF Stopping

-----------------------------------------------------------------------------
(* The bounds. *)

\* dispatchMu lets one request in.
LEMMA OneSender ==
  ASSUME IInv, NEW t \in Send_, pc[t] # "start"
  PROVE  \A u \in Send_ : u # t => pc[u] = "start" /\ ~Accepting(u)
BY DEF IInv, DispatchInv, Accepting, Starting

LEMMA BoundKept ==
  ASSUME BoundInv, UNCHANGED <<sent, generation, closed>>,
         \A u \in Send_ : Starting(u)' <=> Starting(u),
         \A u \in Send_ : Accepting(u)' => Accepting(u) \/ sent < MaxSends,
         \A u \in Close_ : pc[u] \in {"runtime", "done"} => pc'[u] \in {"runtime", "done"}
  PROVE  BoundInv'
BY DEF BoundInv

LEMMA ReportingBound ==
  ASSUME IInv, NEW t \in Threads, Reporting(t)
  PROVE  BoundInv'
<1>. t \in Threads /\ ThreadType /\ LockType /\ TurnType /\ LabelInv /\ BoundInv
  BY Kinds, TypeParts DEF IInv
<1>1. CASE SnapshotSteer(t)
  <2>1. \A u \in Send_ : Starting(u)' <=> Starting(u)
    BY <1>1, Kinds, LoopTurns DEF SnapshotSteer, Goto, ThreadType, LabelInv, Reports,
       Starting
  <2>2. \A u \in Send_ : Accepting(u)' => Accepting(u) \/ sent < MaxSends
    BY <1>1, Kinds, LoopTurns DEF SnapshotSteer, Goto, ThreadType, LabelInv, Reports,
       Starting, Accepting
  <2>3. \A u \in Close_ : pc[u] \in {"runtime", "done"} => pc'[u] \in {"runtime", "done"}
    BY <1>1, Kinds, LoopTurns DEF SnapshotSteer, Goto, ThreadType, LabelInv, Reports
  <2>4. UNCHANGED <<sent, generation, closed>>
    BY <1>1 DEF SnapshotSteer, lockVars, turnVars
  <2> QED BY <2>1, <2>2, <2>3, <2>4, BoundKept
<1>2. CASE SnapshotFollowUps(t)
  <2>1. \A u \in Send_ : Starting(u)' <=> Starting(u)
    BY <1>2, Kinds, LoopTurns DEF SnapshotFollowUps, Goto, ThreadType, LabelInv,
       Reports, Starting
  <2>2. \A u \in Send_ : Accepting(u)' => Accepting(u) \/ sent < MaxSends
    BY <1>2, Kinds, LoopTurns DEF SnapshotFollowUps, Goto, ThreadType, LabelInv,
       Reports, Starting, Accepting
  <2>3. \A u \in Close_ : pc[u] \in {"runtime", "done"} => pc'[u] \in {"runtime", "done"}
    BY <1>2, Kinds, LoopTurns DEF SnapshotFollowUps, Goto, ThreadType, LabelInv, Reports
  <2>4. UNCHANGED <<sent, generation, closed>>
    BY <1>2 DEF SnapshotFollowUps, lockVars, turnVars
  <2> QED BY <2>1, <2>2, <2>3, <2>4, BoundKept
<1>3. CASE StoreQueue(t)
  <2>1. \A u \in Send_ : Starting(u)' <=> Starting(u)
    BY <1>3, Kinds, LoopTurns DEF StoreQueue, Goto, ThreadType, LabelInv, Reports,
       Starting
  <2>2. \A u \in Send_ : Accepting(u)' => Accepting(u) \/ sent < MaxSends
    BY <1>3, Kinds, LoopTurns DEF StoreQueue, Goto, ThreadType, LabelInv, Reports,
       Starting, Accepting
  <2>3. \A u \in Close_ : pc[u] \in {"runtime", "done"} => pc'[u] \in {"runtime", "done"}
    BY <1>3, Kinds, LoopTurns DEF StoreQueue, Goto, ThreadType, LabelInv, Reports
  <2>4. UNCHANGED <<sent, generation, closed>>
    BY <1>3 DEF StoreQueue, lockVars, turnVars
  <2> QED BY <2>1, <2>2, <2>3, <2>4, BoundKept
<1>4. CASE ReadRun(t)
  <2>1. \A u \in Send_ : Starting(u)' <=> Starting(u)
    BY <1>4, Kinds, LoopTurns DEF ReadRun, Goto, ThreadType, LabelInv, Reports, Starting
  <2>2. \A u \in Send_ : Accepting(u)' => Accepting(u) \/ sent < MaxSends
    BY <1>4, Kinds, LoopTurns DEF ReadRun, Goto, ThreadType, LabelInv, Reports,
       Starting, Accepting
  <2>3. \A u \in Close_ : pc[u] \in {"runtime", "done"} => pc'[u] \in {"runtime", "done"}
    BY <1>4, Kinds, LoopTurns DEF ReadRun, Goto, ThreadType, LabelInv, Reports
  <2>4. UNCHANGED <<sent, generation, closed>>
    BY <1>4 DEF ReadRun, lockVars, turnVars
  <2> QED BY <2>1, <2>2, <2>3, <2>4, BoundKept
<1>5. CASE EmitRun(t)
  <2>1. \A u \in Send_ : Starting(u)' <=> Starting(u)
    BY <1>5, Kinds, LoopTurns DEF EmitRun, Goto, ThreadType, LabelInv, Reports, Starting
  <2>2. \A u \in Send_ : Accepting(u)' => Accepting(u) \/ sent < MaxSends
    BY <1>5, Kinds, LoopTurns DEF EmitRun, Goto, ThreadType, LabelInv, Reports,
       Starting, Accepting
  <2>3. \A u \in Close_ : pc[u] \in {"runtime", "done"} => pc'[u] \in {"runtime", "done"}
    BY <1>5, Kinds, LoopTurns DEF EmitRun, Goto, ThreadType, LabelInv, Reports
  <2>4. UNCHANGED <<sent, generation, closed>>
    BY <1>5 DEF EmitRun, lockVars, turnVars
  <2> QED BY <2>1, <2>2, <2>3, <2>4, BoundKept
<1> QED BY <1>1, <1>2, <1>3, <1>4, <1>5 DEF Reporting

LEMMA SendingBound ==
  ASSUME IInv, NEW t \in Send_, Sending(t) \/ \E mode \in Modes : Send(t, mode)
  PROVE  BoundInv'
<1>. t \in Threads /\ ThreadType /\ LockType /\ TurnType /\ LabelInv /\ BoundInv
  BY Kinds, TypeParts DEF IInv
<1>1. ASSUME NEW mode \in Modes, Send(t, mode) PROVE BoundInv'
  <2>1. \A u \in Send_ : Starting(u)' <=> Starting(u)
    BY <1>1, Kinds, LoopTurns DEF Send, Goto, ThreadType, LabelInv, Reports, Starting
  <2>2. \A u \in Send_ : Accepting(u)' => Accepting(u) \/ sent < MaxSends
    BY <1>1, Kinds, LoopTurns DEF Send, Goto, ThreadType, LabelInv, Reports, Starting,
       Accepting
  <2>3. \A u \in Close_ : pc[u] \in {"runtime", "done"} => pc'[u] \in {"runtime", "done"}
    BY <1>1, Kinds, LoopTurns DEF Send, Goto, ThreadType, LabelInv, Reports
  <2>4. UNCHANGED <<sent, generation, closed>>
    BY <1>1 DEF Send, lockVars, turnVars
  <2> QED BY <2>1, <2>2, <2>3, <2>4, BoundKept
<1>2. CASE Enqueue(t)
  <2>1. \A u \in Send_ : u # t => ~Accepting(u) /\ pc'[u] = pc[u] /\ ret'[u] = ret[u]
    BY <1>2, OneSender, Kinds DEF Enqueue, Report, Goto, ThreadType
  <2>2. pc[t] = "enqueue" /\ ~Starting(t) /\ ~Accepting(t)' /\ sent < MaxSends
    BY <1>2 DEF Enqueue, Report, Goto, ThreadType, Starting, Accepting, BoundInv
  <2>3. \A u \in Send_ : ~Starting(u) /\ ~Starting(u)' /\ ~Accepting(u)'
    BY <2>1, <2>2 DEF Starting, Accepting
  <2>4. sent' \in {sent, sent + 1} /\ UNCHANGED <<generation, closed>>
    BY <1>2 DEF Enqueue, lockVars
  <2>5. \A u \in Close_ : pc'[u] = pc[u]
    BY <1>2, Kinds DEF Enqueue, Report, Goto, ThreadType
  <2>6. generation <= sent + (IF closed THEN 1 ELSE 0)
    BY <2>3 DEF BoundInv, TurnType, LockType
  <2>7. sent' <= MaxSends /\ generation' <= sent' + (IF closed THEN 1 ELSE 0)
    <3>1. sent \in Nat /\ MaxSends \in Nat /\ generation \in Nat /\ sent <= MaxSends
      BY ChatAssumption DEF TurnType, LockType, BoundInv
    <3>2. CASE sent' = sent
      BY <2>4, <2>6, <3>1, <3>2
    <3>3. CASE sent' = sent + 1
      BY <2>2, <2>4, <2>6, <3>1, <3>3
    <3> QED BY <2>4, <3>2, <3>3
  <2>8. closed' => \A u \in Close_ : pc'[u] \in {"runtime", "done"}
    BY <2>4, <2>5 DEF BoundInv
  <2>9. generation' <= sent' + (IF closed' THEN 1 ELSE 0) + 0
    <3>1. sent' \in Nat /\ (IF closed THEN 1 ELSE 0) \in Nat
      BY <2>4 DEF TurnType
    <3>2. (IF closed' THEN 1 ELSE 0) = (IF closed THEN 1 ELSE 0)
      BY <2>4, Zenon
    <3>3. generation' <= sent' + (IF closed THEN 1 ELSE 0) + 0
      BY <2>7, <3>1
    <3> QED BY <3>2, <3>3, Zenon
  <2> QED BY <2>3, <2>7, <2>8, <2>9 DEF BoundInv
<1>3. CASE StartTurn(t)
  <2>1. \A u \in Send_ : u # t => ~Accepting(u) /\ pc'[u] = pc[u] /\ ret'[u] = ret[u]
    BY <1>3, OneSender, Kinds DEF StartTurn, Report, Goto, ThreadType
  <2>2. pc[t] = "turn" /\ ~Starting(t) /\ Starting(t)' /\ sent < MaxSends
    BY <1>3 DEF StartTurn, Report, Goto, ThreadType, Starting, Accepting, BoundInv
  <2>3. \A u \in Send_ : ~Starting(u)
    BY <2>1, <2>2 DEF Accepting
  <2>4. generation' = generation + 1 /\ UNCHANGED <<sent, closed>>
    BY <1>3 DEF StartTurn
  <2>5. \A u \in Close_ : pc'[u] = pc[u]
    BY <1>3, Kinds DEF StartTurn, Report, Goto, ThreadType
  <2>6. generation' <= sent' + (IF closed THEN 1 ELSE 0) + 1
    BY <2>3, <2>4, ChatAssumption DEF BoundInv, TurnType, LockType
  <2> QED BY <2>2, <2>4, <2>5, <2>6 DEF BoundInv
<1>4. CASE AddMessage(t)
  <2>1. \A u \in Send_ : u # t => ~Accepting(u) /\ pc'[u] = pc[u] /\ ret'[u] = ret[u]
    BY <1>4, OneSender, Kinds DEF AddMessage, Goto, ThreadType
  <2>2. pc[t] = "add" /\ ~Starting(t)' /\ ~Accepting(t)' /\ sent < MaxSends
    BY <1>4 DEF AddMessage, Goto, ThreadType, Starting, Accepting, BoundInv
  <2>3. \A u \in Send_ : ~Starting(u)' /\ ~Accepting(u)'
    BY <2>1, <2>2 DEF Starting, Accepting
  <2>4. sent' = sent + 1 /\ UNCHANGED <<generation, closed>>
    BY <1>4 DEF AddMessage, lockVars
  <2>5. \A u \in Close_ : pc'[u] = pc[u]
    BY <1>4, Kinds DEF AddMessage, Goto, ThreadType
  <2>6. sent' <= MaxSends /\ generation' <= sent' + (IF closed THEN 1 ELSE 0)
    BY <2>2, <2>4, ChatAssumption DEF BoundInv, TurnType, LockType
  <2> QED BY <2>3, <2>4, <2>5, <2>6, ChatAssumption DEF BoundInv, TurnType, LockType
<1>5. CASE Launch(t)
  <2>1. \A u \in Send_ : Starting(u)' <=> Starting(u)
    BY <1>5, Kinds, LoopTurns DEF Launch, Goto, ThreadType, LabelInv, Reports, Starting
  <2>2. \A u \in Send_ : Accepting(u)' => Accepting(u) \/ sent < MaxSends
    BY <1>5, Kinds, LoopTurns DEF Launch, Goto, ThreadType, LabelInv, Reports,
       Starting, Accepting
  <2>3. \A u \in Close_ : pc[u] \in {"runtime", "done"} => pc'[u] \in {"runtime", "done"}
    BY <1>5, Kinds, LoopTurns DEF Launch, Goto, ThreadType, LabelInv, Reports
  <2>4. UNCHANGED <<sent, generation, closed>>
    BY <1>5 DEF Launch, lockVars, turnVars
  <2> QED BY <2>1, <2>2, <2>3, <2>4, BoundKept
<1>6. CASE Unlock(t)
  <2>1. \A u \in Send_ : Starting(u)' <=> Starting(u)
    BY <1>6, Kinds, LoopTurns DEF Unlock, Goto, ThreadType, LabelInv, Reports, Starting
  <2>2. \A u \in Send_ : Accepting(u)' => Accepting(u) \/ sent < MaxSends
    BY <1>6, Kinds, LoopTurns DEF Unlock, Goto, ThreadType, LabelInv, Reports,
       Starting, Accepting
  <2>3. \A u \in Close_ : pc[u] \in {"runtime", "done"} => pc'[u] \in {"runtime", "done"}
    BY <1>6, Kinds, LoopTurns DEF Unlock, Goto, ThreadType, LabelInv, Reports
  <2>4. UNCHANGED <<sent, generation, closed>>
    BY <1>6 DEF Unlock, lockVars, turnVars
  <2> QED BY <2>1, <2>2, <2>3, <2>4, BoundKept
<1> QED BY <1>1, <1>2, <1>3, <1>4, <1>5, <1>6 DEF Sending

LEMMA RunningBound ==
  ASSUME IInv, NEW t \in Loops, Running(t)
  PROVE  BoundInv'
<1>. t \in Threads /\ ThreadType /\ LockType /\ TurnType /\ LabelInv /\ BoundInv
  BY Kinds, TypeParts DEF IInv
<1>1. CASE Chunk(t)
  <2>1. \A u \in Send_ : Starting(u)' <=> Starting(u)
    BY <1>1, Kinds, LoopTurns DEF Chunk, Goto, ThreadType, LabelInv, Reports, Starting,
       threadVars
  <2>2. \A u \in Send_ : Accepting(u)' => Accepting(u) \/ sent < MaxSends
    BY <1>1, Kinds, LoopTurns DEF Chunk, Goto, ThreadType, LabelInv, Reports, Starting,
       Accepting, threadVars
  <2>3. \A u \in Close_ : pc[u] \in {"runtime", "done"} => pc'[u] \in {"runtime", "done"}
    BY <1>1, Kinds, LoopTurns DEF Chunk, Goto, ThreadType, LabelInv, Reports, threadVars
  <2>4. UNCHANGED <<sent, generation, closed>>
    BY <1>1 DEF Chunk, lockVars, turnVars
  <2> QED BY <2>1, <2>2, <2>3, <2>4, BoundKept
<1>2. CASE TakeSteer(t)
  <2>1. \A u \in Send_ : Starting(u)' <=> Starting(u)
    BY <1>2, Kinds, LoopTurns DEF TakeSteer, Goto, ThreadType, LabelInv, Reports,
       Starting, Report
  <2>2. \A u \in Send_ : Accepting(u)' => Accepting(u) \/ sent < MaxSends
    BY <1>2, Kinds, LoopTurns DEF TakeSteer, Goto, ThreadType, LabelInv, Reports,
       Starting, Accepting, Report
  <2>3. \A u \in Close_ : pc[u] \in {"runtime", "done"} => pc'[u] \in {"runtime", "done"}
    BY <1>2, Kinds, LoopTurns DEF TakeSteer, Goto, ThreadType, LabelInv, Reports, Report
  <2>4. UNCHANGED <<sent, generation, closed>>
    BY <1>2 DEF TakeSteer, lockVars, turnVars
  <2> QED BY <2>1, <2>2, <2>3, <2>4, BoundKept
<1>3. CASE TakeFollowUp(t)
  <2>1. \A u \in Send_ : Starting(u)' <=> Starting(u)
    BY <1>3, Kinds, LoopTurns DEF TakeFollowUp, Goto, ThreadType, LabelInv, Reports,
       Starting, Report
  <2>2. \A u \in Send_ : Accepting(u)' => Accepting(u) \/ sent < MaxSends
    BY <1>3, Kinds, LoopTurns DEF TakeFollowUp, Goto, ThreadType, LabelInv, Reports,
       Starting, Accepting, Report
  <2>3. \A u \in Close_ : pc[u] \in {"runtime", "done"} => pc'[u] \in {"runtime", "done"}
    BY <1>3, Kinds, LoopTurns DEF TakeFollowUp, Goto, ThreadType, LabelInv, Reports,
       Report
  <2>4. UNCHANGED <<sent, generation, closed>>
    BY <1>3 DEF TakeFollowUp, lockVars, turnVars
  <2> QED BY <2>1, <2>2, <2>3, <2>4, BoundKept
<1>4. CASE StreamEnds(t)
  <2>1. \A u \in Send_ : Starting(u)' <=> Starting(u)
    BY <1>4, Kinds, LoopTurns DEF StreamEnds, Goto, ThreadType, LabelInv, Reports,
       Starting
  <2>2. \A u \in Send_ : Accepting(u)' => Accepting(u) \/ sent < MaxSends
    BY <1>4, Kinds, LoopTurns DEF StreamEnds, Goto, ThreadType, LabelInv, Reports,
       Starting, Accepting
  <2>3. \A u \in Close_ : pc[u] \in {"runtime", "done"} => pc'[u] \in {"runtime", "done"}
    BY <1>4, Kinds, LoopTurns DEF StreamEnds, Goto, ThreadType, LabelInv, Reports
  <2>4. UNCHANGED <<sent, generation, closed>>
    BY <1>4 DEF StreamEnds, lockVars, turnVars
  <2> QED BY <2>1, <2>2, <2>3, <2>4, BoundKept
<1> QED BY <1>1, <1>2, <1>3, <1>4 DEF Running

LEMMA SettlingBound ==
  ASSUME IInv, NEW t \in Loops, Settling(t)
  PROVE  BoundInv'
<1>. t \in Threads /\ ThreadType /\ LockType /\ TurnType /\ LabelInv /\ BoundInv
  BY Kinds, TypeParts DEF IInv
<1>1. CASE SettleStale(t)
  <2>1. \A u \in Send_ : Starting(u)' <=> Starting(u)
    BY <1>1, Kinds, LoopTurns DEF SettleStale, Goto, ThreadType, LabelInv, Reports,
       Starting
  <2>2. \A u \in Send_ : Accepting(u)' => Accepting(u) \/ sent < MaxSends
    BY <1>1, Kinds, LoopTurns DEF SettleStale, Goto, ThreadType, LabelInv, Reports,
       Starting, Accepting
  <2>3. \A u \in Close_ : pc[u] \in {"runtime", "done"} => pc'[u] \in {"runtime", "done"}
    BY <1>1, Kinds, LoopTurns DEF SettleStale, Goto, ThreadType, LabelInv, Reports
  <2>4. UNCHANGED <<sent, generation, closed>>
    BY <1>1 DEF SettleStale, lockVars, turnVars
  <2> QED BY <2>1, <2>2, <2>3, <2>4, BoundKept
<1>2. CASE SettleSpeaking(t)
  <2>1. \A u \in Send_ : Starting(u)' <=> Starting(u)
    BY <1>2, Kinds, LoopTurns DEF SettleSpeaking, Goto, ThreadType, LabelInv, Reports,
       Starting
  <2>2. \A u \in Send_ : Accepting(u)' => Accepting(u) \/ sent < MaxSends
    BY <1>2, Kinds, LoopTurns DEF SettleSpeaking, Goto, ThreadType, LabelInv, Reports,
       Starting, Accepting
  <2>3. \A u \in Close_ : pc[u] \in {"runtime", "done"} => pc'[u] \in {"runtime", "done"}
    BY <1>2, Kinds, LoopTurns DEF SettleSpeaking, Goto, ThreadType, LabelInv, Reports
  <2>4. UNCHANGED <<sent, generation, closed>>
    BY <1>2 DEF SettleSpeaking, lockVars, turnVars
  <2> QED BY <2>1, <2>2, <2>3, <2>4, BoundKept
<1>3. CASE AssistantEnd(t)
  <2>1. \A u \in Send_ : Starting(u)' <=> Starting(u)
    BY <1>3, Kinds, LoopTurns DEF AssistantEnd, Goto, ThreadType, LabelInv, Reports,
       Starting
  <2>2. \A u \in Send_ : Accepting(u)' => Accepting(u) \/ sent < MaxSends
    BY <1>3, Kinds, LoopTurns DEF AssistantEnd, Goto, ThreadType, LabelInv, Reports,
       Starting, Accepting
  <2>3. \A u \in Close_ : pc[u] \in {"runtime", "done"} => pc'[u] \in {"runtime", "done"}
    BY <1>3, Kinds, LoopTurns DEF AssistantEnd, Goto, ThreadType, LabelInv, Reports
  <2>4. UNCHANGED <<sent, generation, closed>>
    BY <1>3 DEF AssistantEnd, lockVars, turnVars
  <2> QED BY <2>1, <2>2, <2>3, <2>4, BoundKept
<1>4. CASE SettleIdle(t)
  <2>1. \A u \in Send_ : Starting(u)' <=> Starting(u)
    BY <1>4, Kinds, LoopTurns DEF SettleIdle, Goto, ThreadType, LabelInv, Reports,
       Starting, Report
  <2>2. \A u \in Send_ : Accepting(u)' => Accepting(u) \/ sent < MaxSends
    BY <1>4, Kinds, LoopTurns DEF SettleIdle, Goto, ThreadType, LabelInv, Reports,
       Starting, Accepting, Report
  <2>3. \A u \in Close_ : pc[u] \in {"runtime", "done"} => pc'[u] \in {"runtime", "done"}
    BY <1>4, Kinds, LoopTurns DEF SettleIdle, Goto, ThreadType, LabelInv, Reports,
       Report
  <2>4. UNCHANGED <<sent, generation, closed>>
    BY <1>4 DEF SettleIdle, lockVars, turnVars
  <2> QED BY <2>1, <2>2, <2>3, <2>4, BoundKept
<1>5. CASE SettleMeta(t)
  <2>1. \A u \in Send_ : Starting(u)' <=> Starting(u)
    BY <1>5, Kinds, LoopTurns DEF SettleMeta, Goto, ThreadType, LabelInv, Reports,
       Starting
  <2>2. \A u \in Send_ : Accepting(u)' => Accepting(u) \/ sent < MaxSends
    BY <1>5, Kinds, LoopTurns DEF SettleMeta, Goto, ThreadType, LabelInv, Reports,
       Starting, Accepting
  <2>3. \A u \in Close_ : pc[u] \in {"runtime", "done"} => pc'[u] \in {"runtime", "done"}
    BY <1>5, Kinds, LoopTurns DEF SettleMeta, Goto, ThreadType, LabelInv, Reports
  <2>4. UNCHANGED <<sent, generation, closed>>
    BY <1>5 DEF SettleMeta, lockVars, turnVars
  <2> QED BY <2>1, <2>2, <2>3, <2>4, BoundKept
<1> QED BY <1>1, <1>2, <1>3, <1>4, <1>5 DEF Settling

LEMMA StoppingBound ==
  ASSUME IInv, NEW t \in Abort_ \cup Close_, Abort(t) \/ Stopping(t)
  PROVE  BoundInv'
<1>. t \in Threads /\ ThreadType /\ LockType /\ TurnType /\ LabelInv /\ BoundInv
  BY Kinds, TypeParts DEF IInv
<1>1. CASE Abort(t)
  <2>1. \A u \in Send_ : Starting(u)' <=> Starting(u)
    BY <1>1, Kinds, LoopTurns DEF Abort, Goto, ThreadType, LabelInv, Reports, Starting
  <2>2. \A u \in Send_ : Accepting(u)' => Accepting(u) \/ sent < MaxSends
    BY <1>1, Kinds, LoopTurns DEF Abort, Goto, ThreadType, LabelInv, Reports, Starting,
       Accepting
  <2>3. \A u \in Close_ : pc[u] \in {"runtime", "done"} => pc'[u] \in {"runtime", "done"}
    BY <1>1, Kinds, LoopTurns DEF Abort, Goto, ThreadType, LabelInv, Reports
  <2>4. UNCHANGED <<sent, generation, closed>>
    BY <1>1 DEF Abort, lockVars, turnVars
  <2> QED BY <2>1, <2>2, <2>3, <2>4, BoundKept
<1>2. CASE Cancel(t)
  <2>1. \A u \in Send_ : Starting(u)' <=> Starting(u)
    BY <1>2, Kinds, LoopTurns DEF Cancel, Goto, ThreadType, LabelInv, Reports, Starting
  <2>2. \A u \in Send_ : Accepting(u)' => Accepting(u) \/ sent < MaxSends
    BY <1>2, Kinds, LoopTurns DEF Cancel, Goto, ThreadType, LabelInv, Reports,
       Starting, Accepting
  <2>3. \A u \in Close_ : pc[u] \in {"runtime", "done"} => pc'[u] \in {"runtime", "done"}
    BY <1>2, Kinds, LoopTurns DEF Cancel, Goto, ThreadType, LabelInv, Reports
  <2>4. UNCHANGED <<sent, generation, closed>>
    BY <1>2 DEF Cancel, lockVars, turnVars
  <2> QED BY <2>1, <2>2, <2>3, <2>4, BoundKept
<1>3. CASE Close(t)
  <2>1. pc[t] = "close" /\ t \in Close_ /\ pc'[t] = "runtime"
    BY <1>3 DEF Close, Goto, ThreadType, LabelInv
  <2>2. ~closed /\ closed'
    BY <1>3, <2>1 DEF Close, BoundInv
  <2>3. \A u \in Send_ : pc'[u] = pc[u] /\ ret'[u] = ret[u]
    BY <1>3, Kinds DEF Close, Goto, ThreadType
  <2>4. \A u \in Send_ : (Starting(u)' <=> Starting(u)) /\ (Accepting(u)' <=> Accepting(u))
    BY <2>3 DEF Starting, Accepting
  <2>5. \A u \in Close_ : pc'[u] = "runtime"
    BY <2>1, CloserIsOne
  <2>6. generation' = generation + 1 /\ sent' = sent
    BY <1>3 DEF Close, turnVars
  <2> QED BY <2>2, <2>4, <2>5, <2>6 DEF BoundInv, LockType, TurnType
<1>4. CASE CloseRuntime(t)
  <2>1. \A u \in Send_ : Starting(u)' <=> Starting(u)
    BY <1>4, Kinds, LoopTurns DEF CloseRuntime, Goto, ThreadType, LabelInv, Reports,
       Starting
  <2>2. \A u \in Send_ : Accepting(u)' => Accepting(u) \/ sent < MaxSends
    BY <1>4, Kinds, LoopTurns DEF CloseRuntime, Goto, ThreadType, LabelInv, Reports,
       Starting, Accepting
  <2>3. \A u \in Close_ : pc[u] \in {"runtime", "done"} => pc'[u] \in {"runtime", "done"}
    BY <1>4, Kinds, LoopTurns DEF CloseRuntime, Goto, ThreadType, LabelInv, Reports
  <2>4. UNCHANGED <<sent, generation, closed>>
    BY <1>4 DEF CloseRuntime, lockVars, turnVars
  <2> QED BY <2>1, <2>2, <2>3, <2>4, BoundKept
<1> QED BY <1>1, <1>2, <1>3, <1>4 DEF Stopping

-----------------------------------------------------------------------------
(* The messages. *)

LEMMA WaitingIsBoth ==
  /\ Waiting = Range(queue["steer"]) \cup Range(queue["followup"])
  /\ Waiting' = Range(queue["steer"])' \cup Range(queue["followup"])'
BY DEF Waiting, Modes

\* The two halves of EveryMessageOnce.
InSession == Len(transcript)
Steering == Len(queue["steer"])
FollowUps == Len(queue["followup"])
Counted == sent = InSession + Steering + FollowUps
Present == 1..sent = Range(transcript) \cup Waiting

LEMMA Halves == /\ EveryMessageOnce <=> Counted /\ Present
                /\ EveryMessageOnce' <=> Counted' /\ Present'
BY DEF EveryMessageOnce, Counted, Present, InSession, Steering, FollowUps

LEMMA AreNumbers ==
  ASSUME TurnType
  PROVE  sent \in Nat /\ InSession \in Nat /\ Steering \in Nat /\ FollowUps \in Nat
BY QueueLens DEF InSession, Steering, FollowUps

LEMMA MessagesSame ==
  ASSUME EveryMessageOnce, UNCHANGED <<sent, transcript, queue>>
  PROVE  EveryMessageOnce'
BY DEF EveryMessageOnce, Waiting

LEMMA ReportingMessages ==
  ASSUME IInv, NEW t \in Threads, Reporting(t)
  PROVE  EveryMessageOnce'
<1>. t \in Threads /\ ThreadType /\ LockType /\ TurnType /\ EveryMessageOnce
      /\ Counted /\ Present
  BY Kinds, TypeParts, Halves DEF IInv
<1>1. CASE SnapshotSteer(t)
  BY <1>1, MessagesSame DEF SnapshotSteer, turnVars
<1>2. CASE SnapshotFollowUps(t)
  BY <1>2, MessagesSame DEF SnapshotFollowUps, turnVars
<1>3. CASE StoreQueue(t)
  BY <1>3, MessagesSame DEF StoreQueue, turnVars
<1>4. CASE ReadRun(t)
  BY <1>4, MessagesSame DEF ReadRun, turnVars
<1>5. CASE EmitRun(t)
  BY <1>5, MessagesSame DEF EmitRun, turnVars
<1> QED BY <1>1, <1>2, <1>3, <1>4, <1>5 DEF Reporting

LEMMA SendingMessages ==
  ASSUME IInv, NEW t \in Send_, Sending(t) \/ \E mode \in Modes : Send(t, mode)
  PROVE  EveryMessageOnce'
<1>. t \in Threads /\ ThreadType /\ LockType /\ TurnType /\ EveryMessageOnce
      /\ Counted /\ Present
  BY Kinds, TypeParts, Halves DEF IInv
<1>1. ASSUME NEW mode \in Modes, Send(t, mode) PROVE EveryMessageOnce'
  BY <1>1, MessagesSame DEF Send, turnVars
<1>2. CASE Enqueue(t)
  <2> DEFINE m == local[t].mode
  <2>1. CASE UNCHANGED <<sent, queue>>
    BY <1>2, <2>1, MessagesSame DEF Enqueue
  <2>2. CASE sent' = sent + 1 /\ queue' = [queue EXCEPT ![m] = Append(@, sent + 1)]
    <3>1. transcript' = transcript /\ m \in Modes
      BY <1>2 DEF Enqueue, ThreadType, Local
    <3>2. /\ Len(Append(queue[m], sent + 1)) = Len(queue[m]) + 1
          /\ Range(Append(queue[m], sent + 1)) = Range(queue[m]) \cup {sent + 1}
      BY <3>1, RangeAppend DEF TurnType
    <3> HIDE DEF m
    <3>3. /\ queue'[m] = Append(queue[m], sent + 1)
          /\ \A n \in Modes : n # m => queue'[n] = queue[n]
      BY <2>2, <3>1 DEF TurnType
    <3>4. \/ /\ Len(queue'["steer"]) = Len(queue["steer"]) + 1
             /\ Len(queue'["followup"]) = Len(queue["followup"])
          \/ /\ Len(queue'["steer"]) = Len(queue["steer"])
             /\ Len(queue'["followup"]) = Len(queue["followup"]) + 1
      BY <3>1, <3>2, <3>3 DEF Modes
    <3>5. Counted'
      <4>1. sent' = sent + 1 /\ InSession' = InSession
        BY <2>2, <3>1 DEF InSession
      <4>2. \/ Steering' = Steering + 1 /\ FollowUps' = FollowUps
            \/ Steering' = Steering /\ FollowUps' = FollowUps + 1
        BY <3>4 DEF Steering, FollowUps
      <4> QED BY <4>1, <4>2, AreNumbers DEF Counted
    <3>6. Waiting' = Waiting \cup {sent + 1}
      BY <3>1, <3>2, <3>3, WaitingIsBoth DEF Modes
    <3>7. 1..sent' = (1..sent) \cup {sent + 1}
      BY <2>2 DEF TurnType
    <3>8. Present'
      BY <3>1, <3>6, <3>7 DEF Present
    <3> QED BY <3>5, <3>8, Halves
  <2> QED BY <1>2, <2>1, <2>2 DEF Enqueue
<1>3. CASE StartTurn(t)
  BY <1>3, MessagesSame DEF StartTurn, turnVars
<1>4. CASE AddMessage(t)
  <2>1. sent' = sent + 1 /\ transcript' = Append(transcript, sent + 1) /\ queue' = queue
    BY <1>4 DEF AddMessage
  <2>2. Len(transcript') = Len(transcript) + 1 /\ Range(transcript') = Range(transcript) \cup {sent + 1}
    BY <2>1, RangeAppend DEF TurnType
  <2>3. Counted'
    <3>1. /\ sent' = sent + 1 /\ InSession' = InSession + 1
          /\ Steering' = Steering /\ FollowUps' = FollowUps
      BY <2>1, <2>2 DEF InSession, Steering, FollowUps
    <3> QED BY <3>1, AreNumbers DEF Counted
  <2>4. 1..sent' = (1..sent) \cup {sent + 1} /\ Waiting' = Waiting
    BY <2>1 DEF TurnType, Waiting
  <2>5. Present'
    BY <2>2, <2>4 DEF Present
  <2> QED BY <2>3, <2>5, Halves
<1>5. CASE Launch(t)
  BY <1>5, MessagesSame DEF Launch, turnVars
<1>6. CASE Unlock(t)
  BY <1>6, MessagesSame DEF Unlock, turnVars
<1> QED BY <1>1, <1>2, <1>3, <1>4, <1>5, <1>6 DEF Sending

LEMMA RunningMessages ==
  ASSUME IInv, NEW t \in Loops, Running(t)
  PROVE  EveryMessageOnce'
<1>. t \in Threads /\ ThreadType /\ LockType /\ TurnType /\ EveryMessageOnce
      /\ Counted /\ Present
  BY Kinds, TypeParts, Halves DEF IInv
<1>1. CASE Chunk(t)
  BY <1>1, MessagesSame DEF Chunk, turnVars
<1>2. CASE TakeSteer(t)
  <2>1. /\ transcript' = transcript \o queue["steer"] /\ queue'["steer"] = <<>>
        /\ queue'["followup"] = queue["followup"] /\ sent' = sent
    BY <1>2 DEF TakeSteer, TurnType, Modes
  <2>2. /\ Len(transcript') = Len(transcript) + Len(queue["steer"])
        /\ Range(transcript') = Range(transcript) \cup Range(queue["steer"])
    BY <2>1, QueueLens, RangeConcat DEF TurnType
  <2>3. /\ InSession' = InSession + Steering /\ Steering' = 0
        /\ FollowUps' = FollowUps
    BY <2>1, <2>2 DEF InSession, Steering, FollowUps
  <2>4. Counted'
    BY <2>1, <2>3, AreNumbers DEF Counted
  <2>5. Waiting' = Range(queue["followup"])
    BY <2>1, WaitingIsBoth, RangeEmpty
  <2>6. Present'
    BY <2>1, <2>2, <2>5, WaitingIsBoth DEF Present
  <2> QED BY <2>4, <2>6, Halves
<1>3. CASE TakeFollowUp(t)
  <2>1. /\ transcript' = Append(transcript, Head(queue["followup"])) /\ sent' = sent
        /\ queue'["followup"] = Tail(queue["followup"]) /\ queue'["steer"] = queue["steer"]
        /\ queue["followup"] # <<>>
    BY <1>3 DEF TakeFollowUp, TurnType, Modes
  <2>2. Head(queue["followup"]) \in Nat
    BY <2>1, QueueLens
  <2>3. /\ Len(transcript') = Len(transcript) + 1
        /\ Range(transcript') = Range(transcript) \cup {Head(queue["followup"])}
    BY <2>1, <2>2, RangeAppend DEF TurnType
  <2>4. Len(queue'["followup"]) = Len(queue["followup"]) - 1
    BY <2>1, QueueLens
  <2>5. Counted'
    <3>1. sent' = sent /\ Steering' = Steering /\ FollowUps' = FollowUps - 1
      BY <2>1, <2>4 DEF Steering, FollowUps
    <3>2. InSession' = InSession + 1
      BY <2>3 DEF InSession
    <3> QED BY <3>1, <3>2, AreNumbers DEF Counted
  <2>6. Range(queue["followup"]) = {Head(queue["followup"])} \cup Range(queue'["followup"])
    BY <2>1, QueueLens, RangeTail
  <2>7. Present'
    BY <2>1, <2>3, <2>6, WaitingIsBoth DEF Present
  <2> QED BY <2>5, <2>7, Halves
<1>4. CASE StreamEnds(t)
  BY <1>4, MessagesSame DEF StreamEnds, turnVars
<1> QED BY <1>1, <1>2, <1>3, <1>4 DEF Running

LEMMA SettlingMessages ==
  ASSUME IInv, NEW t \in Loops, Settling(t)
  PROVE  EveryMessageOnce'
<1>. t \in Threads /\ ThreadType /\ LockType /\ TurnType /\ EveryMessageOnce
      /\ Counted /\ Present
  BY Kinds, TypeParts, Halves DEF IInv
<1>1. CASE SettleStale(t)
  BY <1>1, MessagesSame DEF SettleStale, turnVars
<1>2. CASE SettleSpeaking(t)
  BY <1>2, MessagesSame DEF SettleSpeaking, turnVars
<1>3. CASE AssistantEnd(t)
  BY <1>3, MessagesSame DEF AssistantEnd, turnVars
<1>4. CASE SettleIdle(t)
  BY <1>4, MessagesSame DEF SettleIdle, turnVars
<1>5. CASE SettleMeta(t)
  BY <1>5, MessagesSame DEF SettleMeta, turnVars
<1> QED BY <1>1, <1>2, <1>3, <1>4, <1>5 DEF Settling

LEMMA StoppingMessages ==
  ASSUME IInv, NEW t \in Abort_ \cup Close_, Abort(t) \/ Stopping(t)
  PROVE  EveryMessageOnce'
<1>. t \in Threads /\ ThreadType /\ LockType /\ TurnType /\ EveryMessageOnce
      /\ Counted /\ Present
  BY Kinds, TypeParts, Halves DEF IInv
<1>1. CASE Abort(t)
  BY <1>1, MessagesSame DEF Abort, turnVars
<1>2. CASE Cancel(t)
  BY <1>2, MessagesSame DEF Cancel, turnVars
<1>3. CASE Close(t)
  BY <1>3, MessagesSame DEF Close, turnVars
<1>4. CASE CloseRuntime(t)
  BY <1>4, MessagesSame DEF CloseRuntime, turnVars
<1> QED BY <1>1, <1>2, <1>3, <1>4 DEF Stopping

-----------------------------------------------------------------------------
(* The invariant. *)

\* pump and a stuttering step leave all but the event channel alone.
LEMMA ControlSame ==
  ASSUME IInv, UNCHANGED <<lockVars, turnVars, dispatch, threadVars>>
  PROVE  /\ LabelInv' /\ DispatchInv' /\ BusyInv' /\ CancelInv' /\ BoundInv'
         /\ EveryMessageOnce'
<1>. UNCHANGED <<run, generation, cancel, closed, cancelled, queue, transcript, sent,
                 dispatch, pc, ret, local>>
  BY DEF lockVars, turnVars, threadVars
<1>1. LabelInv' /\ DispatchInv'
  BY DEF IInv, LabelInv, DispatchInv, Reports
<1>2. BusyInv'
  BY DEF IInv, BusyInv, Busy, TurnOf, ReportingTo
<1>3. CancelInv'
  BY DEF IInv, CancelInv, MayStop
<1>4. BoundInv'
  BY DEF IInv, BoundInv, Accepting, Starting
<1>5. EveryMessageOnce'
  BY MessagesSame DEF IInv
<1> QED BY <1>1, <1>2, <1>3, <1>4, <1>5

LEMMA PumpType ==
  ASSUME IInv, Pump
  PROVE  TypeOK'
<1>. ThreadType /\ LockType /\ TurnType /\ OutType
  BY TypeParts DEF IInv
<1>1. OutType'
  <2>1. events' = Tail(events) /\ dispatch' = dispatch /\ events # <<>>
    BY DEF Pump
  <2>2. events' \in Seq(States \cup {"other"}) /\ Len(events') <= EventCapacity
    BY <2>1, ChatAssumption DEF OutType
  <2>3. live' \in States
    BY DEF Pump, OutType
  <2> QED BY <2>1, <2>2, <2>3 DEF OutType
<1>2. ThreadType' /\ LockType' /\ TurnType'
  BY SameParts DEF Pump
<1> QED BY <1>1, <1>2, TypeParts

LEMMA InitInv == Init => IInv
<1> SUFFICES ASSUME Init PROVE IInv
  OBVIOUS
<1>1. ThreadType
  BY DEF Init, ThreadType, Labels, Returns, Local, NoLocal, NoDepths, Depth, States,
     Modes
<1>2. LockType
  BY DEF Init, LockType, States, NoDepths, Depth
<1>3. OutType
  BY ChatAssumption DEF Init, OutType, States
<1>4. TurnType
  BY ChatAssumption DEF Init, TurnType
<1>5. LabelInv /\ DispatchInv
  BY Kinds DEF Init, LabelInv, DispatchInv, Reports
<1>6. BusyInv
  BY Kinds DEF Init, BusyInv, Busy, ReportingTo
<1>7. CancelInv
  BY Kinds DEF Init, CancelInv
<1>8. BoundInv
  BY Kinds, ChatAssumption DEF Init, BoundInv, Starting, Accepting
<1>9. EveryMessageOnce
  <2>1. Waiting = {} /\ Range(transcript) = {}
    BY WaitingIsBoth, RangeEmpty DEF Init, Modes
  <2>2. Len(transcript) = 0 /\ Len(queue["steer"]) = 0 /\ Len(queue["followup"]) = 0
    BY DEF Init, Modes
  <2>3. sent = 0 /\ 1..0 = {}
    BY DEF Init
  <2>4. sent = Len(transcript) + Len(queue["steer"]) + Len(queue["followup"])
    BY <2>2, <2>3
  <2> QED BY <2>1, <2>3, <2>4 DEF EveryMessageOnce
<1>10. TypeOK
  BY <1>1, <1>2, <1>3, <1>4 DEF TypeOK, ThreadType, LockType, TurnType, OutType
<1> QED BY <1>5, <1>6, <1>7, <1>8, <1>9, <1>10 DEF IInv

LEMMA NextInv == IInv /\ [Next]_vars => IInv'
<1> SUFFICES ASSUME IInv, [Next]_vars PROVE IInv'
  OBVIOUS
<1>1. ASSUME NEW t \in Send_, Sending(t) \/ \E mode \in Modes : Send(t, mode) PROVE IInv'
  BY <1>1, SendingType, SendingLabel, SendingDispatch, SendingBusy, SendingCancel,
     SendingBound, SendingMessages DEF IInv
<1>2. ASSUME NEW t \in Loops, Running(t) PROVE IInv'
  BY <1>2, RunningType, RunningLabel, RunningDispatch, RunningBusy, RunningCancel,
     RunningBound, RunningMessages DEF IInv
<1>3. ASSUME NEW t \in Loops, Settling(t) PROVE IInv'
  BY <1>3, SettlingType, SettlingLabel, SettlingDispatch, SettlingBusy, SettlingCancel,
     SettlingBound, SettlingMessages DEF IInv
<1>4. ASSUME NEW t \in Abort_ \cup Close_, Abort(t) \/ Stopping(t) PROVE IInv'
  BY <1>4, StoppingType, StoppingLabel, StoppingDispatch, StoppingBusy, StoppingCancel,
     StoppingBound, StoppingMessages DEF IInv
<1>5. ASSUME NEW t \in Threads, Reporting(t) PROVE IInv'
  BY <1>5, ReportingType, ReportingLabel, ReportingDispatch, ReportingBusy,
     ReportingCancel, ReportingBound, ReportingMessages DEF IInv
<1>6. CASE Pump
  BY <1>6, PumpType, ControlSame DEF Pump, IInv
<1>7. CASE UNCHANGED vars
  <2>1. UNCHANGED <<lockVars, turnVars, dispatch, threadVars, events, live>>
    BY <1>7 DEF vars
  <2>2. TypeOK'
    BY <2>1, TypeParts, SameParts DEF IInv
  <2> QED BY <2>1, <2>2, ControlSame DEF IInv
<1> QED BY <1>1, <1>2, <1>3, <1>4, <1>5, <1>6, <1>7 DEF Next

LEMMA Invariance == Spec => []IInv
BY InitInv, NextInv, PTL DEF Spec

-----------------------------------------------------------------------------
(* What follows from it. *)

\* A run loop that has a stream has the baton.
LEMMA StreamIsBusy ==
  ASSUME NEW t \in Loops, InStream(t)
  PROVE  Busy(t) /\ TurnOf(t) = Turn(t) /\ t \in Threads
BY Kinds DEF InStream, Busy, TurnOf

\* The types of the chat's fields, of its two queues and of its event channel:
\* neither queue, nor the channel, ever holds more than its capacity (Enqueue,
\* emit).
THEOREM TypeCorrect == Spec => []TypeOK
<1>1. IInv => TypeOK
  BY DEF IInv
<1> QED BY <1>1, Invariance, PTL

\* However many requests race, the session is driven by one stream at a time
\* (Send, settle).
THEOREM StreamsAreOne == Spec => []OneStream
<1>1. IInv => OneStream
  BY StreamIsBusy DEF IInv, BusyInv, OneStream
<1> QED BY <1>1, Invariance, PTL

\* No accepted message is lost or delivered twice (Enqueue, Drain, Dequeue,
\* Send).
THEOREM MessagesArrive == Spec => []EveryMessageOnce
<1>1. IInv => EveryMessageOnce
  BY DEF IInv
<1> QED BY <1>1, Invariance, PTL

\* A chat is not reported idle before its stream has closed (Abort, settle).
THEOREM IdleIsQuiet == Spec => []IdleHasNoStream
<1>1. IInv => IdleHasNoStream
  BY StreamIsBusy DEF IInv, BusyInv, IdleHasNoStream
<1> QED BY <1>1, Invariance, PTL

\* A late cancel never hits a turn that was started after it (Abort, Send).
THEOREM CancelHitsItsTurn == Spec => []CancelledIsStopping
<1>1. ASSUME IInv, NEW t \in Loops, InStream(t), Turn(t) \in cancelled
      PROVE  run = "stopping"
  <2>1. Turn(t) = cancel
    BY <1>1, StreamIsBusy DEF IInv, BusyInv
  <2>2. MayStop(Turn(t))
    BY <1>1 DEF IInv, CancelInv
  <2> QED BY <2>1, <2>2 DEF MayStop
<1>2. IInv => CancelledIsStopping
  BY <1>1 DEF CancelledIsStopping
<1> QED BY <1>2, Invariance, PTL

-----------------------------------------------------------------------------
(* The contract of adapter.Chat.  Two more facts are needed: a turn whose      *)
(* generation is over belongs to a chat that was closed, and the places a      *)
(* message can be in have nothing in common, nor has the queue that is taken   *)
(* one by one a message twice.                                                 *)

Distinct ==
  /\ Range(queue["steer"]) \cap Range(queue["followup"]) = {}
  /\ Waiting \cap Range(transcript) = {}
  /\ IsInjective(queue["followup"])

Current == closed \/ cancel = 0 \/ cancel = generation

CInv == IInv /\ Distinct /\ Current

LEMMA DistinctSame ==
  ASSUME Distinct, UNCHANGED <<transcript, queue>>
  PROVE  Distinct'
BY DEF Distinct, Waiting, IsInjective, Range

\* What becomes of the messages in the steps that move one.
LEMMA EnqueueMoves ==
  ASSUME CInv, NEW t \in Send_, Enqueue(t), sent' # sent
  PROVE  /\ Distinct' /\ sent + 1 \in 1..MaxSends
         /\ sent + 1 \notin Waiting /\ sent + 1 \notin Range(transcript)
         /\ Waiting' = Waiting \cup {sent + 1} /\ transcript' = transcript
<1>. t \in Threads /\ ThreadType /\ TurnType /\ EveryMessageOnce
  BY Kinds, TypeParts DEF CInv, IInv
<1> DEFINE m == local[t].mode
<1>1. /\ m \in Modes /\ transcript' = transcript
      /\ queue' = [queue EXCEPT ![m] = Append(@, sent + 1)]
  BY DEF Enqueue, ThreadType, Local
<1> HIDE DEF m
<1>2. sent + 1 \notin 1..sent /\ sent + 1 \in Nat /\ sent \in Nat
  BY DEF TurnType
<1>3. sent + 1 \notin Waiting /\ sent + 1 \notin Range(transcript)
  BY <1>2 DEF EveryMessageOnce
<1>4. /\ queue'[m] = Append(queue[m], sent + 1) /\ queue[m] \in Seq(Nat)
      /\ \A n \in Modes : n # m => queue'[n] = queue[n]
  BY <1>1 DEF TurnType
<1>5. Range(queue'[m]) = Range(queue[m]) \cup {sent + 1}
  BY <1>2, <1>4, RangeAppend
<1>6. Waiting' = Waiting \cup {sent + 1}
  BY <1>1, <1>4, <1>5, WaitingIsBoth DEF Modes
<1>7. sent + 1 \notin Range(queue["steer"]) /\ sent + 1 \notin Range(queue["followup"])
  BY <1>3, WaitingIsBoth
<1>8. IsInjective(queue'["followup"])
  BY <1>1, <1>2, <1>4, <1>7, InjectiveAppend DEF Modes, CInv, Distinct
<1>9. Range(queue'["steer"]) \cap Range(queue'["followup"]) = {}
  BY <1>1, <1>4, <1>5, <1>7 DEF Modes, CInv, Distinct
<1>10. Waiting' \cap Range(transcript') = {}
  BY <1>1, <1>3, <1>6 DEF CInv, Distinct
<1>11. Distinct'
  BY <1>8, <1>9, <1>10 DEF Distinct
<1>12. sent < MaxSends
  BY DEF Enqueue, Accepting, CInv, IInv, BoundInv
<1>13. sent + 1 \in 1..MaxSends
  BY <1>2, <1>12, ChatAssumption
<1> QED BY <1>1, <1>3, <1>6, <1>11, <1>13

LEMMA AddMoves ==
  ASSUME CInv, NEW t \in Send_, AddMessage(t)
  PROVE  /\ Distinct' /\ sent + 1 \in 1..MaxSends
         /\ sent + 1 \notin Range(transcript) /\ sent + 1 \notin Waiting
         /\ Range(transcript') = Range(transcript) \cup {sent + 1} /\ Waiting' = Waiting
<1>. TurnType /\ EveryMessageOnce
  BY TypeParts DEF CInv, IInv
<1>1. transcript' = Append(transcript, sent + 1) /\ queue' = queue
  BY DEF AddMessage
<1>2. sent + 1 \notin 1..sent /\ sent + 1 \in Nat /\ sent \in Nat
  BY DEF TurnType
<1>3. sent + 1 \notin Waiting /\ sent + 1 \notin Range(transcript)
  BY <1>2 DEF EveryMessageOnce
<1>4. Range(transcript') = Range(transcript) \cup {sent + 1}
  BY <1>1, <1>2, RangeAppend DEF TurnType
<1>5. Waiting' = Waiting
  BY <1>1 DEF Waiting
<1>6. Distinct'
  BY <1>1, <1>3, <1>4, <1>5 DEF CInv, Distinct
<1>7. sent < MaxSends
  BY DEF AddMessage, Accepting, Starting, CInv, IInv, BoundInv
<1>8. sent + 1 \in 1..MaxSends
  BY <1>2, <1>7, ChatAssumption
<1> QED BY <1>3, <1>4, <1>5, <1>6, <1>8

\* Everything that waits, and is in the session, has a number.
LEMMA AreMessages ==
  ASSUME CInv
  PROVE  Waiting \subseteq 1..MaxSends /\ Range(transcript) \subseteq 1..MaxSends
<1>1. sent <= MaxSends /\ sent \in Nat /\ MaxSends \in Nat
  BY ChatAssumption, TypeParts DEF CInv, IInv, BoundInv, TurnType
<1>2. 1..sent \subseteq 1..MaxSends
  BY <1>1
<1> QED BY <1>2 DEF CInv, IInv, EveryMessageOnce

LEMMA SteerMoves ==
  ASSUME CInv, NEW t \in Loops, TakeSteer(t)
  PROVE  LET S == Range(queue["steer"])
         IN /\ Distinct' /\ S \subseteq 1..MaxSends /\ S \cap Range(transcript) = {}
            /\ Range(transcript') = Range(transcript) \cup S
            /\ Waiting' = Waiting \ S
<1>. TurnType
  BY TypeParts DEF CInv, IInv
<1>1. /\ transcript' = transcript \o queue["steer"] /\ queue'["steer"] = <<>>
      /\ queue'["followup"] = queue["followup"]
  BY DEF TakeSteer, TurnType, Modes
<1>2. Range(transcript') = Range(transcript) \cup Range(queue["steer"])
  BY <1>1, QueueLens, RangeConcat DEF TurnType
<1>3. Waiting' = Range(queue["followup"])
  BY <1>1, WaitingIsBoth, RangeEmpty
<1>4. Waiting' = Waiting \ Range(queue["steer"])
  BY <1>3, WaitingIsBoth DEF CInv, Distinct
<1>5. /\ Range(queue["steer"]) \subseteq 1..MaxSends
      /\ Range(queue["steer"]) \cap Range(transcript) = {}
  BY AreMessages, WaitingIsBoth DEF CInv, Distinct
<1>6. Range(queue'["steer"]) \cap Range(queue'["followup"]) = {}
  BY <1>1, RangeEmpty
<1>7. Waiting' \cap Range(transcript') = {}
  BY <1>2, <1>3, WaitingIsBoth DEF CInv, Distinct
<1>8. Distinct'
  BY <1>1, <1>6, <1>7 DEF CInv, Distinct
<1> QED BY <1>2, <1>4, <1>5, <1>8

LEMMA FollowUpMoves ==
  ASSUME CInv, NEW t \in Loops, TakeFollowUp(t)
  PROVE  LET S == {Head(queue["followup"])}
         IN /\ Distinct' /\ S \subseteq 1..MaxSends /\ S \cap Range(transcript) = {}
            /\ Range(transcript') = Range(transcript) \cup S
            /\ Waiting' = Waiting \ S
<1>. TurnType
  BY TypeParts DEF CInv, IInv
<1> DEFINE first == Head(queue["followup"])
           rest  == Tail(queue["followup"])
<1>1. /\ transcript' = Append(transcript, first) /\ queue["followup"] # <<>>
      /\ queue'["followup"] = rest /\ queue'["steer"] = queue["steer"]
  BY DEF TakeFollowUp, TurnType, Modes
<1>2. first \in Nat
  <2>1. queue["followup"] \in Seq(Nat) /\ queue["followup"] # <<>>
    BY <1>1, QueueLens
  <2> QED BY <2>1
<1>3. Range(queue["followup"]) = {first} \cup Range(rest)
  BY <1>1, QueueLens, RangeTail
<1>4. IsInjective(rest) /\ first \notin Range(rest)
  BY <1>1, QueueLens, InjectiveTail DEF CInv, Distinct
<1>5. Range(transcript') = Range(transcript) \cup {first}
  BY <1>1, <1>2, RangeAppend DEF TurnType
<1> HIDE DEF first, rest
<1>6. Waiting = Range(queue["steer"]) \cup Range(queue["followup"])
  BY WaitingIsBoth
<1>7. Waiting' = Range(queue["steer"]) \cup Range(rest)
  BY <1>1, WaitingIsBoth
<1>8. first \notin Range(queue["steer"]) /\ first \notin Range(transcript)
  BY <1>3, <1>6 DEF CInv, Distinct
<1>9. Waiting' = Waiting \ {first}
  BY <1>3, <1>4, <1>6, <1>7, <1>8
<1>10. first \in 1..MaxSends
  BY <1>3, <1>6, AreMessages
<1>11. Range(queue'["steer"]) \cap Range(queue'["followup"]) = {}
  BY <1>1, <1>3 DEF CInv, Distinct
<1>12. Waiting' \cap Range(transcript') = {}
  BY <1>5, <1>9 DEF CInv, Distinct
<1>13. Distinct'
  BY <1>1, <1>4, <1>11, <1>12 DEF Distinct
<1> QED BY <1>5, <1>8, <1>9, <1>10, <1>13 DEF first

Abstract == <<run, Driving, closed, Waiting, Range(transcript)>>
AbstractNext == [Contract!Next]_(Contract!chatVars)

LEMMA Stutters ==
  ASSUME UNCHANGED Abstract
  PROVE  AbstractNext
BY DEF AbstractNext, Abstract, Contract!chatVars

\* A step that moves no message, and leaves what drives the session as it is.
LEMMA Unseen ==
  ASSUME CInv, UNCHANGED <<run, generation, cancel, closed, transcript, queue>>,
         \A u \in Threads : Busy(u)' <=> Busy(u)
  PROVE  Distinct' /\ Current' /\ AbstractNext
<1>1. Distinct' /\ Current'
  BY DistinctSame DEF CInv, Current
<1>2. Driving' = Driving
  BY Zenon DEF Driving
<1>3. Waiting' = Waiting /\ Range(transcript)' = Range(transcript)
  BY DEF Waiting
<1> QED BY <1>1, <1>2, <1>3, Stutters DEF Abstract

LEMMA ReportingStep ==
  ASSUME CInv, NEW t \in Threads, Reporting(t)
  PROVE  Distinct' /\ Current' /\ AbstractNext
<1>. t \in Threads /\ ThreadType /\ LabelInv
  BY TypeParts DEF CInv, IInv
<1>1. CASE SnapshotSteer(t)
  <2>1. \A u \in Threads : Busy(u)' <=> Busy(u)
    BY <1>1, Kinds, LoopTurns DEF SnapshotSteer, Goto, Reports, ThreadType, LabelInv,
       Busy, ReportingTo
  <2>2. UNCHANGED <<run, generation, cancel, closed, transcript, queue>>
    BY <1>1 DEF SnapshotSteer, lockVars, turnVars
  <2> QED BY <2>1, <2>2, Unseen
<1>2. CASE SnapshotFollowUps(t)
  <2>1. \A u \in Threads : Busy(u)' <=> Busy(u)
    BY <1>2, Kinds, LoopTurns DEF SnapshotFollowUps, Goto, Reports, ThreadType,
       LabelInv, Busy, ReportingTo
  <2>2. UNCHANGED <<run, generation, cancel, closed, transcript, queue>>
    BY <1>2 DEF SnapshotFollowUps, lockVars, turnVars
  <2> QED BY <2>1, <2>2, Unseen
<1>3. CASE StoreQueue(t)
  <2>1. \A u \in Threads : Busy(u)' <=> Busy(u)
    BY <1>3, Kinds, LoopTurns DEF StoreQueue, Goto, Reports, ThreadType, LabelInv,
       Busy, ReportingTo
  <2>2. UNCHANGED <<run, generation, cancel, closed, transcript, queue>>
    BY <1>3 DEF StoreQueue, lockVars, turnVars
  <2> QED BY <2>1, <2>2, Unseen
<1>4. CASE ReadRun(t)
  <2>1. \A u \in Threads : Busy(u)' <=> Busy(u)
    BY <1>4, Kinds, LoopTurns DEF ReadRun, Goto, Reports, ThreadType, LabelInv, Busy,
       ReportingTo
  <2>2. UNCHANGED <<run, generation, cancel, closed, transcript, queue>>
    BY <1>4 DEF ReadRun, lockVars, turnVars
  <2> QED BY <2>1, <2>2, Unseen
<1>5. CASE EmitRun(t)
  <2>1. \A u \in Threads : Busy(u)' <=> Busy(u)
    BY <1>5, Kinds, LoopTurns DEF EmitRun, Goto, Reports, ThreadType, LabelInv, Busy,
       ReportingTo
  <2>2. UNCHANGED <<run, generation, cancel, closed, transcript, queue>>
    BY <1>5 DEF EmitRun, lockVars, turnVars
  <2> QED BY <2>1, <2>2, Unseen
<1> QED BY <1>1, <1>2, <1>3, <1>4, <1>5 DEF Reporting

LEMMA SendingStep ==
  ASSUME CInv, NEW t \in Send_, Sending(t) \/ \E mode \in Modes : Send(t, mode)
  PROVE  Distinct' /\ Current' /\ AbstractNext
<1>. t \in Threads /\ ThreadType /\ LabelInv /\ BusyInv
  BY Kinds, TypeParts DEF CInv, IInv
<1>1. ASSUME NEW mode \in Modes, Send(t, mode)
      PROVE  Distinct' /\ Current' /\ AbstractNext
  <2>1. \A u \in Threads : Busy(u)' <=> Busy(u)
    BY <1>1, Kinds, LoopTurns DEF Send, Goto, Reports, ThreadType, LabelInv, Busy,
       ReportingTo
  <2>2. UNCHANGED <<run, generation, cancel, closed, transcript, queue>>
    BY <1>1 DEF Send, lockVars, turnVars
  <2> QED BY <2>1, <2>2, Unseen
<1>2. CASE Enqueue(t)
  <2>1. \A u \in Threads : Busy(u)' <=> Busy(u)
    BY <1>2, Kinds, LoopTurns DEF Enqueue, Goto, Report, Reports, ThreadType, LabelInv,
       Busy, ReportingTo
  <2>2. UNCHANGED <<run, generation, cancel, closed, transcript>>
    BY <1>2 DEF Enqueue, lockVars
  <2>3. CASE sent' = sent
    <3>1. sent + 1 # sent
      BY TypeParts DEF CInv, IInv, TurnType
    <3>2. queue' = queue
      BY <1>2, <2>3, <3>1 DEF Enqueue
    <3> QED BY <2>1, <2>2, <3>2, Unseen
  <2>4. CASE sent' # sent
    <3>1. /\ Distinct' /\ sent + 1 \in 1..MaxSends
          /\ sent + 1 \notin Waiting /\ sent + 1 \notin Range(transcript)
          /\ Waiting' = Waiting \cup {sent + 1} /\ transcript' = transcript
      BY <1>2, <2>4, EnqueueMoves
    <3>2. Driving' = Driving
      BY <2>1, Zenon DEF Driving
    <3>3. Contract!Accept(sent + 1)
      BY <2>2, <3>1, <3>2 DEF Contract!Accept
    <3>4. AbstractNext
      BY <3>1, <3>3 DEF AbstractNext, Contract!Next
    <3>5. Current'
      BY <2>2 DEF CInv, Current
    <3> QED BY <3>1, <3>4, <3>5
  <2> QED BY <2>3, <2>4
<1>3. CASE StartTurn(t)
  <2>1. ~Driving /\ run = "idle"
    BY <1>3 DEF StartTurn, BusyInv, Driving
  <2>2. Busy(t)'
    BY <1>3 DEF StartTurn, Report, Goto, ThreadType, Busy, ReportingTo
  <2>3. Driving' /\ run' = "running"
    BY <1>3, <2>2 DEF StartTurn, Driving
  <2>4. UNCHANGED <<closed, transcript, queue>> /\ cancel' = generation'
    BY <1>3 DEF StartTurn
  <2>5. Distinct' /\ Current'
    BY <2>4, DistinctSame DEF CInv, Current
  <2>6. Waiting' = Waiting /\ Range(transcript)' = Range(transcript)
    BY <2>4 DEF Waiting
  <2>7. Contract!Begin
    BY <2>1, <2>3, <2>4, <2>6 DEF Contract!Begin
  <2> QED BY <2>5, <2>7 DEF AbstractNext, Contract!Next
<1>4. CASE AddMessage(t)
  <2>1. \A u \in Threads : Busy(u)' <=> Busy(u)
    BY <1>4, Kinds, LoopTurns DEF AddMessage, Goto, Reports, ThreadType, LabelInv,
       Busy, ReportingTo
  <2>2. UNCHANGED <<run, generation, cancel, closed>>
    BY <1>4 DEF AddMessage, lockVars
  <2>3. Busy(t)
    BY <1>4 DEF AddMessage, Busy
  <2>4. Driving /\ Driving' = Driving
    BY <2>1, <2>3, Zenon DEF Driving
  <2>5. /\ Distinct' /\ sent + 1 \in 1..MaxSends
        /\ sent + 1 \notin Range(transcript) /\ sent + 1 \notin Waiting
        /\ Range(transcript') = Range(transcript) \cup {sent + 1} /\ Waiting' = Waiting
    BY <1>4, AddMoves
  <2>6. Contract!Deliver({sent + 1})
    BY <2>2, <2>4, <2>5 DEF Contract!Deliver
  <2>7. {sent + 1} \in SUBSET (1..MaxSends)
    BY <2>5
  <2>8. AbstractNext
    BY <2>6, <2>7 DEF AbstractNext, Contract!Next
  <2>9. Current'
    BY <2>2 DEF CInv, Current
  <2> QED BY <2>5, <2>8, <2>9
<1>5. CASE Launch(t)
  <2>1. Busy(t) /\ TurnOf(t) = local[t].turn
    BY <1>5, Kinds DEF Launch, Busy, TurnOf
  <2>2. local[t].turn = cancel /\ cancel # 0 /\ cancel <= generation /\ cancel \in Nat
    BY <2>1 DEF BusyInv, CInv, IInv, CancelInv, TypeOK
  <2>3. PICK l \in Loops : l = <<"loop", local[t].turn>>
    BY <2>2, TurnBound, LoopTurns DEF CInv
  <2>4. l \in Threads /\ l # t /\ pc'[l] = "stream"
    BY <1>5, <2>3, Kinds DEF Launch, ThreadType
  <2>5. Busy(l)'
    BY <2>3, <2>4 DEF Busy
  <2>6. Driving /\ Driving'
    BY <2>1, <2>4, <2>5, Zenon DEF Driving
  <2>7. UNCHANGED <<run, generation, cancel, closed, transcript, queue>>
    BY <1>5 DEF Launch, lockVars, turnVars
  <2>8. Waiting' = Waiting /\ Range(transcript)' = Range(transcript)
    BY <2>7 DEF Waiting
  <2>9. AbstractNext
    BY <2>6, <2>7, <2>8, Stutters DEF Abstract
  <2>10. Distinct' /\ Current'
    BY <2>7, DistinctSame DEF CInv, Current
  <2> QED BY <2>9, <2>10
<1>6. CASE Unlock(t)
  <2>1. \A u \in Threads : Busy(u)' <=> Busy(u)
    BY <1>6, Kinds, LoopTurns DEF Unlock, Goto, Reports, ThreadType, LabelInv, Busy,
       ReportingTo
  <2>2. UNCHANGED <<run, generation, cancel, closed, transcript, queue>>
    BY <1>6 DEF Unlock, lockVars, turnVars
  <2> QED BY <2>1, <2>2, Unseen
<1> QED BY <1>1, <1>2, <1>3, <1>4, <1>5, <1>6 DEF Sending

LEMMA RunningStep ==
  ASSUME CInv, NEW t \in Loops, Running(t)
  PROVE  Distinct' /\ Current' /\ AbstractNext
<1>. t \in Threads /\ ThreadType /\ LabelInv /\ BusyInv
  BY Kinds, TypeParts DEF CInv, IInv
<1>1. CASE Chunk(t)
  <2>1. \A u \in Threads : Busy(u)' <=> Busy(u)
    BY <1>1, Kinds, LoopTurns DEF Chunk, Goto, Reports, ThreadType, LabelInv, Busy,
       ReportingTo, threadVars
  <2>2. UNCHANGED <<run, generation, cancel, closed, transcript, queue>>
    BY <1>1 DEF Chunk, lockVars, turnVars
  <2> QED BY <2>1, <2>2, Unseen
<1>2. CASE TakeSteer(t)
  <2> DEFINE S == Range(queue["steer"])
  <2>1. \A u \in Threads : Busy(u)' <=> Busy(u)
    BY <1>2, Kinds, LoopTurns DEF TakeSteer, Goto, Report, Reports, ThreadType,
       LabelInv, Busy, ReportingTo
  <2>2. UNCHANGED <<run, generation, cancel, closed>>
    BY <1>2 DEF TakeSteer, lockVars
  <2>3. Busy(t)
    BY <1>2 DEF TakeSteer, Busy
  <2>4. Driving /\ Driving' = Driving
    BY <2>1, <2>3, Zenon DEF Driving
  <2>5. /\ Distinct' /\ S \subseteq 1..MaxSends /\ S \cap Range(transcript) = {}
        /\ Range(transcript') = Range(transcript) \cup S
        /\ Waiting' = Waiting \ S
    BY <1>2, SteerMoves
  <2> HIDE DEF S
  <2>6. Contract!Deliver(S)
    BY <2>2, <2>4, <2>5 DEF Contract!Deliver
  <2>7. AbstractNext
    BY <2>5, <2>6 DEF AbstractNext, Contract!Next
  <2>8. Current'
    BY <2>2 DEF CInv, Current
  <2> QED BY <2>5, <2>7, <2>8
<1>3. CASE TakeFollowUp(t)
  <2> DEFINE S == {Head(queue["followup"])}
  <2>1. \A u \in Threads : Busy(u)' <=> Busy(u)
    BY <1>3, Kinds, LoopTurns DEF TakeFollowUp, Goto, Report, Reports, ThreadType,
       LabelInv, Busy, ReportingTo
  <2>2. UNCHANGED <<run, generation, cancel, closed>>
    BY <1>3 DEF TakeFollowUp, lockVars
  <2>3. Busy(t)
    BY <1>3 DEF TakeFollowUp, Busy
  <2>4. Driving /\ Driving' = Driving
    BY <2>1, <2>3, Zenon DEF Driving
  <2>5. /\ Distinct' /\ S \subseteq 1..MaxSends /\ S \cap Range(transcript) = {}
        /\ Range(transcript') = Range(transcript) \cup S
        /\ Waiting' = Waiting \ S
    BY <1>3, FollowUpMoves
  <2> HIDE DEF S
  <2>6. Contract!Deliver(S)
    BY <2>2, <2>4, <2>5 DEF Contract!Deliver
  <2>7. AbstractNext
    BY <2>5, <2>6 DEF AbstractNext, Contract!Next
  <2>8. Current'
    BY <2>2 DEF CInv, Current
  <2> QED BY <2>5, <2>7, <2>8
<1>4. CASE StreamEnds(t)
  <2>1. \A u \in Threads : Busy(u)' <=> Busy(u)
    BY <1>4, Kinds, LoopTurns DEF StreamEnds, Goto, Reports, ThreadType, LabelInv,
       Busy, ReportingTo
  <2>2. UNCHANGED <<run, generation, cancel, closed, transcript, queue>>
    BY <1>4 DEF StreamEnds, lockVars, turnVars
  <2> QED BY <2>1, <2>2, Unseen
<1> QED BY <1>1, <1>2, <1>3, <1>4 DEF Running

LEMMA SettlingStep ==
  ASSUME CInv, NEW t \in Loops, Settling(t)
  PROVE  Distinct' /\ Current' /\ AbstractNext
<1>. t \in Threads /\ ThreadType /\ LabelInv /\ BusyInv
  BY Kinds, TypeParts DEF CInv, IInv
<1>1. CASE SettleStale(t)
  <2>1. Busy(t)
    BY <1>1 DEF SettleStale, Busy
  <2>2. \A u \in Threads : ~Busy(u)'
    BY <1>1, <2>1, Kinds, LoopTurns DEF SettleStale, Goto, ThreadType, Busy,
       ReportingTo, BusyInv
  <2>3. Driving /\ ~Driving'
    BY <2>1, <2>2 DEF Driving
  <2>4. Turn(t) = cancel /\ cancel # 0 /\ generation # Turn(t)
    BY <1>1, <2>1 DEF SettleStale, BusyInv, TurnOf, CInv, IInv, CancelInv
  <2>5. closed
    BY <2>4 DEF CInv, Current
  <2>6. UNCHANGED <<run, generation, cancel, closed, transcript, queue>>
    BY <1>1 DEF SettleStale, lockVars, turnVars
  <2>7. Waiting' = Waiting /\ Range(transcript)' = Range(transcript)
    BY <2>6 DEF Waiting
  <2>8. Contract!Leave
    BY <2>3, <2>5, <2>6, <2>7 DEF Contract!Leave
  <2>9. AbstractNext
    BY <2>8 DEF AbstractNext, Contract!Next
  <2>10. Distinct' /\ Current'
    BY <2>6, DistinctSame DEF CInv, Current
  <2> QED BY <2>9, <2>10
<1>2. CASE SettleSpeaking(t)
  <2>1. \A u \in Threads : Busy(u)' <=> Busy(u)
    BY <1>2, Kinds, LoopTurns DEF SettleSpeaking, Goto, Reports, ThreadType, LabelInv,
       Busy, ReportingTo
  <2>2. UNCHANGED <<run, generation, cancel, closed, transcript, queue>>
    BY <1>2 DEF SettleSpeaking, turnVars
  <2> QED BY <2>1, <2>2, Unseen
<1>3. CASE AssistantEnd(t)
  <2>1. \A u \in Threads : Busy(u)' <=> Busy(u)
    BY <1>3, Kinds, LoopTurns DEF AssistantEnd, Goto, Reports, ThreadType, LabelInv,
       Busy, ReportingTo
  <2>2. UNCHANGED <<run, generation, cancel, closed, transcript, queue>>
    BY <1>3 DEF AssistantEnd, lockVars, turnVars
  <2> QED BY <2>1, <2>2, Unseen
<1>4. CASE SettleIdle(t)
  <2>1. Busy(t)
    BY <1>4 DEF SettleIdle, Busy
  <2>2. \A u \in Threads : ~Busy(u)'
    BY <1>4, <2>1, Kinds, LoopTurns DEF SettleIdle, Report, Goto, ThreadType, Busy,
       ReportingTo, BusyInv
  <2>3. Driving /\ ~Driving' /\ run # "idle"
    BY <2>1, <2>2 DEF Driving, BusyInv
  <2>4. UNCHANGED <<closed, transcript, queue>> /\ run' = "idle" /\ cancel' = 0
    BY <1>4 DEF SettleIdle, turnVars
  <2>5. Waiting' = Waiting /\ Range(transcript)' = Range(transcript)
    BY <2>4 DEF Waiting
  <2>6. Contract!Settle
    BY <2>3, <2>4, <2>5 DEF Contract!Settle, Contract!Dropping
  <2>7. AbstractNext
    BY <2>6 DEF AbstractNext, Contract!Next
  <2>8. Distinct' /\ Current'
    BY <2>4, DistinctSame DEF CInv, Current
  <2> QED BY <2>7, <2>8
<1>5. CASE SettleMeta(t)
  <2>1. \A u \in Threads : Busy(u)' <=> Busy(u)
    BY <1>5, Kinds, LoopTurns DEF SettleMeta, Goto, Reports, ThreadType, LabelInv,
       Busy, ReportingTo
  <2>2. UNCHANGED <<run, generation, cancel, closed, transcript, queue>>
    BY <1>5 DEF SettleMeta, lockVars, turnVars
  <2> QED BY <2>1, <2>2, Unseen
<1> QED BY <1>1, <1>2, <1>3, <1>4, <1>5 DEF Settling

LEMMA StoppingStep ==
  ASSUME CInv, NEW t \in Abort_ \cup Close_, Abort(t) \/ Stopping(t)
  PROVE  Distinct' /\ Current' /\ AbstractNext
<1>. t \in Threads /\ ThreadType /\ LabelInv /\ BusyInv
  BY Kinds, TypeParts DEF CInv, IInv
<1>1. CASE Abort(t)
  <2>1. \A u \in Threads : Busy(u)' <=> Busy(u)
    BY <1>1, Kinds, LoopTurns DEF Abort, Goto, Reports, ThreadType, LabelInv, Busy,
       ReportingTo
  <2>2. UNCHANGED <<generation, cancel, closed, transcript, queue>>
    BY <1>1 DEF Abort
  <2>3. CASE run = "running"
    <3>1. run' = "stopping"
      BY <1>1, <2>3 DEF Abort
    <3>2. Driving' = Driving
      BY <2>1, Zenon DEF Driving
    <3>3. Waiting' = Waiting /\ Range(transcript)' = Range(transcript)
      BY <2>2 DEF Waiting
    <3>4. Contract!Stop
      BY <2>2, <2>3, <3>1, <3>2, <3>3 DEF Contract!Stop, Contract!Dropping
    <3>5. AbstractNext
      BY <3>4 DEF AbstractNext, Contract!Next
    <3>6. Distinct' /\ Current'
      BY <2>2, DistinctSame DEF CInv, Current
    <3> QED BY <3>5, <3>6
  <2>4. CASE run # "running"
    <3>1. run' = run
      BY <1>1, <2>4 DEF Abort
    <3> QED BY <2>1, <2>2, <3>1, Unseen
  <2> QED BY <2>3, <2>4
<1>2. CASE Cancel(t)
  <2>1. \A u \in Threads : Busy(u)' <=> Busy(u)
    BY <1>2, Kinds, LoopTurns DEF Cancel, Goto, Reports, ThreadType, LabelInv, Busy,
       ReportingTo
  <2>2. UNCHANGED <<run, generation, cancel, closed, transcript, queue>>
    BY <1>2 DEF Cancel, lockVars
  <2> QED BY <2>1, <2>2, Unseen
<1>3. CASE Close(t)
  <2>1. \A u \in Threads : Busy(u)' <=> Busy(u)
    BY <1>3, Kinds, LoopTurns DEF Close, Goto, Reports, ThreadType, LabelInv, Busy,
       ReportingTo
  <2>2. UNCHANGED <<run, transcript, queue>> /\ closed' = TRUE
    BY <1>3 DEF Close, turnVars
  <2>3. ~closed
    <3>1. t \in Close_ /\ pc[t] = "close"
      BY <1>3 DEF Close, LabelInv
    <3> QED BY <3>1 DEF CInv, IInv, BoundInv
  <2>4. Driving' = Driving
    BY <2>1, Zenon DEF Driving
  <2>5. Waiting' = Waiting /\ Range(transcript)' = Range(transcript)
    BY <2>2 DEF Waiting
  <2>6. Contract!Close
    BY <2>2, <2>3, <2>4, <2>5 DEF Contract!Close
  <2>7. AbstractNext
    BY <2>6 DEF AbstractNext, Contract!Next
  <2>8. Distinct' /\ Current'
    BY <2>2, DistinctSame DEF CInv, Current
  <2> QED BY <2>7, <2>8
<1>4. CASE CloseRuntime(t)
  <2>1. \A u \in Threads : Busy(u)' <=> Busy(u)
    BY <1>4, Kinds, LoopTurns DEF CloseRuntime, Goto, Reports, ThreadType, LabelInv,
       Busy, ReportingTo
  <2>2. UNCHANGED <<run, generation, cancel, closed, transcript, queue>>
    BY <1>4 DEF CloseRuntime, lockVars, turnVars
  <2> QED BY <2>1, <2>2, Unseen
<1> QED BY <1>1, <1>2, <1>3, <1>4 DEF Stopping

LEMMA PumpStep ==
  ASSUME CInv, UNCHANGED <<lockVars, turnVars, dispatch, threadVars>>
  PROVE  Distinct' /\ Current' /\ AbstractNext
<1>1. \A u \in Threads : Busy(u)' <=> Busy(u)
  BY DEF threadVars, Busy, ReportingTo
<1>2. UNCHANGED <<run, generation, cancel, closed, transcript, queue>>
  BY DEF lockVars, turnVars
<1> QED BY <1>1, <1>2, Unseen

LEMMA AbstractInit == Init => Contract!Init /\ Distinct /\ Current
<1> SUFFICES ASSUME Init PROVE Contract!Init /\ Distinct /\ Current
  OBVIOUS
<1>1. ~Driving
  BY Kinds DEF Init, Driving, Busy, ReportingTo
<1>2. queue["steer"] = <<>> /\ queue["followup"] = <<>> /\ transcript = <<>>
  BY DEF Init, Modes
<1>3. Waiting = {} /\ Range(transcript) = {}
  BY <1>2, WaitingIsBoth, RangeEmpty
<1>4. IsInjective(<<>>)
  BY DEF IsInjective
<1>5. Distinct /\ Current
  BY <1>2, <1>3, <1>4, RangeEmpty DEF Distinct, Current, Init
<1>6. Contract!Init
  BY <1>1, <1>3 DEF Init, Contract!Init
<1> QED BY <1>5, <1>6

LEMMA AbstractStep == CInv /\ [Next]_vars => CInv' /\ AbstractNext
<1> SUFFICES ASSUME CInv, [Next]_vars PROVE CInv' /\ AbstractNext
  OBVIOUS
<1>0. IInv'
  BY NextInv DEF CInv
<1>1. ASSUME NEW t \in Send_, Sending(t) \/ \E mode \in Modes : Send(t, mode)
      PROVE  Distinct' /\ Current' /\ AbstractNext
  BY <1>1, SendingStep
<1>2. ASSUME NEW t \in Loops, Running(t) PROVE Distinct' /\ Current' /\ AbstractNext
  BY <1>2, RunningStep
<1>3. ASSUME NEW t \in Loops, Settling(t) PROVE Distinct' /\ Current' /\ AbstractNext
  BY <1>3, SettlingStep
<1>4. ASSUME NEW t \in Abort_ \cup Close_, Abort(t) \/ Stopping(t)
      PROVE  Distinct' /\ Current' /\ AbstractNext
  BY <1>4, StoppingStep
<1>5. ASSUME NEW t \in Threads, Reporting(t) PROVE Distinct' /\ Current' /\ AbstractNext
  BY <1>5, ReportingStep
<1>6. ASSUME Pump PROVE Distinct' /\ Current' /\ AbstractNext
  BY <1>6, PumpStep DEF Pump
<1>7. ASSUME UNCHANGED vars PROVE Distinct' /\ Current' /\ AbstractNext
  BY <1>7, PumpStep DEF vars
<1>8. Distinct' /\ Current' /\ AbstractNext
  BY <1>1, <1>2, <1>3, <1>4, <1>5, <1>6, <1>7 DEF Next
<1> QED BY <1>0, <1>8 DEF CInv

\* The adapter of docker-agent keeps the contract of adapter.Chat (Send, runLoop, settle,
\* Abort, Close): one turn at a time, idle when nothing drives the session, every
\* message delivered at most once, during a turn, and none given up.
THEOREM KeepsContract == Spec => ContractKept
<1>1. Init => CInv /\ Contract!Init
  BY InitInv, AbstractInit DEF CInv
<1>2. CInv /\ [Next]_vars => CInv' /\ [Contract!Next]_(Contract!chatVars)
  BY AbstractStep DEF AbstractNext
<1> QED BY <1>1, <1>2, PTL DEF Spec, ContractKept, Contract!Spec

=============================================================================
