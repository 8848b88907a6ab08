---------------------------- MODULE FakeChatProofs ----------------------------
(***************************************************************************)
(* The double keeps the contract of adapter.Chat, and what its turns show  *)
(* comes in their order: for any number of requests of every kind, any     *)
(* capacity of the event channel and any number of messages.               *)
(*                                                                         *)
(* As in DagentChat, what drives the session is handed on: the Send that   *)
(* found the chat idle starts a turn and launches its script, which gives  *)
(* the session back in settle.  It is always the latest turn, so that the  *)
(* comparison of generations in settle never finds another one.  A message *)
(* is in one place at a time; a follow-up that a settled turn hands on is  *)
(* in none but its goroutine until Send has taken it or refused it.        *)
(***************************************************************************)
EXTENDS FakeChat, RangeLemmas

-----------------------------------------------------------------------------
(* The inductive invariant. *)

\* Where a goroutine stands that has started a turn and not launched it yet, and
\* where one stands that holds dispatchMu.
StartLabels == {"add", "message", "meta", "status", "launch"}
SendLabels  == StartLabels \cup {"tell"}

LabelInv ==
  /\ \A t \in Send_ : pc[t] \in SendLabels \cup {"start"}
  /\ \A t \in Scripts :
       pc[t] \in SendLabels \cup {"start", "script", "settle", "settled", "resend", "done"}
  /\ \A t \in Abort_ \cup Close_ : /\ pc[t] \in {"start", "stop", "cancel", "close", "done"}
                                   /\ pc[t] = "close" => t \in Close_
  /\ \A t \in Config_ : pc[t] \in {"start", "write", "notify", "done"}

\* Whoever is inside Send holds dispatchMu.
DispatchInv == \A t \in Threads : pc[t] \in SendLabels => dispatch = t

\* What drives the session is of the latest turn, and alone.
BusyInv == /\ \A t \in Threads : Drives(t) => run # "idle" /\ local[t].turn = gen /\ gen \in Turns
           /\ \A t, u \in Threads : Drives(t) /\ Drives(u) => t = u

\* The script of a turn starts once, and not before the turn.
ScriptInv == /\ \A g \in Turns : pc[<<"script", g>>] # "start" => g <= gen
             /\ \A t \in Threads : pc[t] \in StartLabels => pc[<<"script", gen>>] = "start"

\* Nothing of a turn has been shown that has added no message, and of its script
\* what lies behind it.
OrderInv ==
  /\ shownAt[1] <= gen
  /\ \A t \in Threads :
       /\ pc[t] \in {"add", "message"} => shownAt[1] < gen
       /\ pc[t] \in {"meta", "status", "launch"} => shownAt = <<gen, 0>>
       /\ pc[t] = "script" => shownAt[1] = gen /\ shownAt[2] < local[t].pos

\* Only a script carries a message that has its number, from settle to the session.
CarryInv == \A t \in Threads :
              /\ local[t].msg # 0 => t \in Scripts /\ pc[t] \in {"settled", "resend", "add"}
              /\ t \in Scripts /\ pc[t] \in {"resend", "add"} => local[t].msg # 0

\* A Send that adds a message has room for it.
BoundInv == /\ sent <= MaxSends
            /\ \A t \in Send_ : pc[t] = "add" => sent < MaxSends

Carried == {local[t].msg : t \in Scripts} \ {0}
Delivered == Range(items) \ {0}

\* An accepted message is in one place.
PlaceInv ==
  /\ Range(queue["steer"]) \subseteq 1..sent /\ Range(queue["followup"]) \subseteq 1..sent
  /\ Carried \subseteq 1..sent /\ Delivered \subseteq 1..sent /\ lost \subseteq 1..sent
  /\ Range(queue["steer"]) \cap Range(queue["followup"]) = {}
  /\ (Range(queue["steer"]) \cup Range(queue["followup"])) \cap (Carried \cup Delivered \cup lost) = {}
  /\ Carried \cap (Delivered \cup lost) = {}
  /\ Delivered \cap lost = {}
  /\ \A t, u \in Scripts : local[t].msg # 0 /\ local[t].msg = local[u].msg => t = u
  /\ IsInjective(queue["followup"])

IInv == /\ TypeOK /\ LabelInv /\ DispatchInv /\ BusyInv /\ ScriptInv /\ OrderInv
        /\ CarryInv /\ BoundInv /\ PlaceInv

-----------------------------------------------------------------------------
(* The kinds of goroutines are disjoint. *)

LEMMA Kinds_ ==
  /\ \A t \in Send_ : t \in Threads /\ t \notin Scripts /\ t \notin Abort_ \cup Close_ \cup Config_
  /\ \A t \in Scripts : t \in Threads /\ t \notin Abort_ \cup Close_ \cup Config_
  /\ \A t \in Abort_ \cup Close_ : t \in Threads /\ t \notin Config_
  /\ \A t \in Config_ : t \in Threads
  /\ \A t \in Abort_ : t \notin Close_
  /\ \A t \in Threads : t # <<>>
BY DEF Send_, Scripts, Abort_, Close_, Config_, Threads

LEMMA ScriptTurns ==
  /\ \A g \in Turns : <<"script", g>> \in Scripts /\ <<"script", g>> \in Threads
  /\ \A t \in Scripts : \E g \in Turns : t = <<"script", g>>
BY DEF Scripts, Threads

LEMMA TurnsAreNumbers == Turns \subseteq Nat /\ \A g \in Turns : g <= MaxSends /\ g > 0
BY FakeAssumption DEF Turns

-----------------------------------------------------------------------------
(* Types, in three groups of variables. *)

ThreadType == pc \in [Threads -> Labels] /\ local \in [Threads -> Local]

LockType == /\ run \in States /\ shown \in [Queues -> Nat] /\ gen \in Nat /\ cancel \in Nat
            /\ closed \in BOOLEAN /\ queue \in [Queues -> Seq(Nat \ {0})]

StoreType == items \in Seq(Nat) /\ sent \in Nat /\ lost \subseteq Nat \ {0}

OutType == /\ cancelled \subseteq Nat /\ dispatch \in Send_ \cup Scripts \cup {<<>>}
           /\ events \in 0..EventCapacity /\ shownAt \in Nat \X Nat

LEMMA TypeParts ==
  /\ TypeOK => ThreadType /\ LockType /\ StoreType /\ OutType
  /\ ThreadType' /\ LockType' /\ StoreType' /\ OutType' => TypeOK'
BY DEF TypeOK, ThreadType, LockType, StoreType, OutType

LEMMA SameParts ==
  /\ LockType /\ UNCHANGED lockVars => LockType'
  /\ StoreType /\ UNCHANGED storeVars => StoreType'
  /\ OutType /\ UNCHANGED <<cancelled, dispatch, events, shownAt>> => OutType'
BY DEF LockType, StoreType, OutType, lockVars, storeVars

\* What a step does to the goroutine that takes it.
LEMMA MoveType ==
  ASSUME ThreadType, NEW t \in Threads, NEW l \in Labels, NEW rec \in Local,
         pc' = [pc EXCEPT ![t] = l], local' = [local EXCEPT ![t] = rec]
  PROVE  ThreadType'
BY DEF ThreadType

LEMMA StayType ==
  ASSUME ThreadType, NEW t \in Threads, NEW l \in Labels,
         pc' = [pc EXCEPT ![t] = l], UNCHANGED local
  PROVE  ThreadType'
BY DEF ThreadType

LEMMA LocalTypes ==
  /\ NoLocal \in Local
  /\ \A rec \in Local, n \in Nat :
       /\ [rec EXCEPT !.msg = n] \in Local /\ [rec EXCEPT !.turn = n] \in Local
       /\ [rec EXCEPT !.pos = n] \in Local
       /\ rec.msg \in Nat /\ rec.turn \in Nat /\ rec.pos \in Nat
BY DEF NoLocal, Local

LEMMA RestLabel == \A t : Rest(t) \in {"start", "done"}
BY DEF Rest

\* emit counts an event that the channel has room for, or drops it.
LEMMA OfferType == ASSUME OutType, Offer PROVE events' \in 0..EventCapacity
BY FakeAssumption DEF OutType, Offer

LEMMA EmitType ==
  ASSUME OutType, Emit, UNCHANGED cancelled, dispatch' \in {dispatch, <<>>}
  PROVE  OutType'
BY OfferType DEF OutType, Emit

LEMMA EmitAtType ==
  ASSUME OutType, NEW turn \in Nat, NEW pos \in Nat, EmitAt(turn, pos),
         UNCHANGED <<cancelled, dispatch>>
  PROVE  OutType'
BY OfferType DEF OutType, EmitAt

LEMMA NumberType ==
  ASSUME ThreadType, StoreType, NEW t \in Threads
  PROVE  Number(t) \in Nat \ {0}
BY DEF ThreadType, StoreType, Local, Number

LEMMA RefuseType ==
  ASSUME TypeOK, NEW t \in Send_ \cup Scripts, Refuse(t)
  PROVE  TypeOK'
<1>. t \in Threads /\ ThreadType /\ LockType /\ StoreType /\ OutType
  BY Kinds_, TypeParts
<1>1. ThreadType'
  BY MoveType, LocalTypes, RestLabel DEF Refuse, Goto, Labels
<1>2. StoreType'
  <2>1. local[t].msg \in Nat
    BY LocalTypes DEF ThreadType
  <2>2. lost' = lost \cup ({local[t].msg} \ {0}) /\ UNCHANGED <<items, sent>>
    BY DEF Refuse
  <2> QED BY <2>1, <2>2 DEF StoreType
<1> QED BY <1>1, <1>2, TypeParts, SameParts DEF Refuse

LEMMA QueueType ==
  ASSUME TypeOK, NEW t \in Send_ \cup Scripts, NEW mode \in Queues \cup {"normal"},
         Queue(t, mode)
  PROVE  TypeOK'
<1>. t \in Threads /\ ThreadType /\ LockType /\ StoreType /\ OutType
  BY Kinds_, TypeParts
<1>1. ThreadType'
  BY MoveType, LocalTypes DEF Queue, Goto, Labels
<1>2. StoreType'
  BY DEF Queue, Counted, StoreType
<1>3. LockType'
  <2> DEFINE q == Effective(mode)
  <2>1. q \in Queues
    BY DEF Queue, Effective, Queues
  <2>2. /\ queue' = [queue EXCEPT ![q] = Append(@, Number(t))]
        /\ shown' = [shown EXCEPT ![q] = Len(queue[q]) + 1]
        /\ UNCHANGED <<run, gen, cancel, closed>>
    BY DEF Queue
  <2>3. queue[q] \in Seq(Nat \ {0}) /\ Number(t) \in Nat \ {0}
    BY <2>1, NumberType DEF LockType
  <2>4. Append(queue[q], Number(t)) \in Seq(Nat \ {0}) /\ Len(queue[q]) + 1 \in Nat
    BY <2>3
  <2> HIDE DEF q
  <2> QED BY <2>1, <2>2, <2>4 DEF LockType
<1>4. OutType'
  BY DEF Queue, OutType
<1> QED BY <1>1, <1>2, <1>3, <1>4, TypeParts

LEMMA StartTurnType ==
  ASSUME TypeOK, NEW t \in Send_ \cup Scripts, StartTurn(t)
  PROVE  TypeOK'
<1>. t \in Threads /\ ThreadType /\ LockType /\ StoreType /\ OutType
  BY Kinds_, TypeParts
<1>1. ThreadType'
  <2>1. pc' \in [Threads -> Labels]
    BY DEF StartTurn, Goto, ThreadType, Labels
  <2>2. local' \in [Threads -> Local]
    <3>1. local' = [local EXCEPT ![t].turn = gen + 1] /\ gen + 1 \in Nat
      BY DEF StartTurn, LockType
    <3> QED BY <3>1 DEF ThreadType, Local
  <2> QED BY <2>1, <2>2 DEF ThreadType
<1>2. LockType'
  BY DEF StartTurn, LockType, States, NoDepths
<1>3. OutType'
  BY DEF StartTurn, OutType
<1> QED BY <1>1, <1>2, <1>3, TypeParts, SameParts DEF StartTurn

LEMMA SendingType ==
  ASSUME TypeOK, NEW t \in Send_ \cup Scripts, Sending(t)
  PROVE  TypeOK'
<1>. t \in Threads /\ ThreadType /\ LockType /\ StoreType /\ OutType
  BY Kinds_, TypeParts
<1>1. CASE Tell(t)
  <2>1. ThreadType'
    BY <1>1, MoveType, LocalTypes, RestLabel DEF Tell, Goto, Labels
  <2>2. OutType'
    BY <1>1, EmitType DEF Tell
  <2> QED BY <1>1, <2>1, <2>2, TypeParts, SameParts DEF Tell
<1>2. CASE AddItem(t)
  <2>1. ThreadType'
    <3>1. pc' \in [Threads -> Labels]
      BY <1>2 DEF AddItem, Goto, ThreadType, Labels
    <3>2. local' \in [Threads -> Local]
      BY <1>2 DEF AddItem, ThreadType, Local
    <3> QED BY <3>1, <3>2 DEF ThreadType
  <2>2. StoreType'
    BY <1>2, NumberType DEF AddItem, Counted, StoreType
  <2> QED BY <1>2, <2>1, <2>2, TypeParts, SameParts DEF AddItem
<1>3. CASE EmitMessage(t)
  <2>1. ThreadType'
    BY <1>3, StayType DEF EmitMessage, Goto, Labels
  <2>2. local[t].turn \in Nat
    BY LocalTypes DEF ThreadType
  <2>3. OutType'
    BY <1>3, <2>2, EmitAtType DEF EmitMessage
  <2> QED BY <1>3, <2>1, <2>3, TypeParts, SameParts DEF EmitMessage
<1>4. CASE EmitMeta(t)
  <2>1. ThreadType'
    BY <1>4, StayType DEF EmitMeta, Goto, Labels
  <2>2. OutType'
    BY <1>4, EmitType DEF EmitMeta
  <2> QED BY <1>4, <2>1, <2>2, TypeParts, SameParts DEF EmitMeta
<1>5. CASE Announce(t)
  <2>1. ThreadType'
    BY <1>5, StayType DEF Announce, Goto, Labels
  <2>2. OutType'
    BY <1>5, EmitType DEF Announce
  <2> QED BY <1>5, <2>1, <2>2, TypeParts, SameParts DEF Announce
<1>6. CASE Launch(t)
  <2>1. pc' \in [Threads -> Labels]
    BY <1>6, RestLabel DEF Launch, ThreadType, Labels
  <2>2. local' \in [Threads -> Local]
    <3>1. PICK kind \in Kinds :
            local' = [local EXCEPT ![t] = NoLocal,
                                   ![<<"script", local[t].turn>>] =
                                      [NoLocal EXCEPT !.turn = local[t].turn,
                                                      !.pos = 1, !.kind = kind]]
      BY <1>6 DEF Launch
    <3>2. local[t].turn \in Nat
      BY LocalTypes DEF ThreadType
    <3>3. [NoLocal EXCEPT !.turn = local[t].turn, !.pos = 1, !.kind = kind] \in Local
      BY <3>2 DEF NoLocal, Local
    <3> QED BY <3>1, <3>3, LocalTypes DEF ThreadType
  <2>3. OutType'
    BY <1>6 DEF Launch, OutType
  <2> QED BY <1>6, <2>1, <2>2, <2>3, TypeParts, SameParts DEF Launch, ThreadType
<1> QED BY <1>1, <1>2, <1>3, <1>4, <1>5, <1>6 DEF Sending

LEMMA PlayType ==
  ASSUME TypeOK, NEW t \in Scripts, Play(t)
  PROVE  TypeOK'
<1>. t \in Threads /\ ThreadType /\ LockType /\ StoreType /\ OutType
  BY Kinds_, TypeParts
<1>. DEFINE script == Script(local[t].kind)
            pos    == local[t].pos
            step   == script[pos]
            over   == \/ pos = Len(script)
                      \/ step = "pause" /\ local[t].turn \in cancelled
<1>1. /\ pc' = [pc EXCEPT ![t] = IF over THEN "settle" ELSE "script"]
      /\ local' = [local EXCEPT ![t].pos = IF over THEN 0 ELSE pos + 1]
      /\ IF step \in {"pause", "keep"} THEN UNCHANGED <<events, shownAt>>
         ELSE EmitAt(local[t].turn, pos)
      /\ items' = IF step = "keep" THEN Append(items, 0) ELSE items
      /\ UNCHANGED <<lockVars, cancelled, dispatch, sent, lost>>
  BY DEF Play, Goto
<1>2. pos \in Nat /\ local[t].turn \in Nat
  BY LocalTypes DEF ThreadType
<1> HIDE DEF over, step, pos, script
<1>3. ThreadType'
  <2>1. pc' \in [Threads -> Labels]
    BY <1>1 DEF ThreadType, Labels
  <2>2. local' \in [Threads -> Local]
    <3>1. (IF over THEN 0 ELSE pos + 1) \in Nat
      BY <1>2
    <3>2. \E n \in Nat : local' = [local EXCEPT ![t].pos = n]
      BY <1>1, <3>1
    <3> QED BY <3>2 DEF ThreadType, Local
  <2> QED BY <2>1, <2>2 DEF ThreadType
<1>4. StoreType'
  BY <1>1 DEF StoreType
<1>5. OutType'
  <2>1. CASE step \in {"pause", "keep"}
    BY <1>1, <2>1, SameParts
  <2>2. CASE step \notin {"pause", "keep"}
    BY <1>1, <1>2, <2>2, EmitAtType
  <2> QED BY <2>1, <2>2
<1> QED BY <1>1, <1>3, <1>4, <1>5, TypeParts, SameParts

LEMMA HeadTail ==
  ASSUME NEW S, NEW s \in Seq(S), s # <<>>
  PROVE  Head(s) \in S /\ Tail(s) \in Seq(S) /\ Len(s) \in Nat /\ Len(Tail(s)) \in Nat
OBVIOUS

LEMMA RangeType == ASSUME NEW S, NEW s \in Seq(S) PROVE Range(s) \subseteq S
BY DEF Range

\* What settle hands on, and what it leaves.
Next_ == IF queue["followup"] = <<>> THEN 0 ELSE Head(queue["followup"])
Rest_ == IF queue["followup"] = <<>> THEN <<>> ELSE Tail(queue["followup"])

LEMMA SettledDoes ==
  ASSUME NEW t, Settled(t)
  PROVE  /\ queue' = [queue EXCEPT !["steer"] = <<>>, !["followup"] = Rest_]
         /\ shown' = [NoDepths EXCEPT !["followup"] = Len(Rest_)]
         /\ lost' = lost \cup Range(queue["steer"]) \cup (IF closed THEN {Next_} \ {0} ELSE {})
         /\ local' = [local EXCEPT ![t] = [NoLocal EXCEPT !.msg = IF closed THEN 0 ELSE Next_]]
         /\ run' = "idle" /\ cancel' = 0
         /\ pc' = [pc EXCEPT ![t] = IF closed THEN "done" ELSE "settled"]
         /\ UNCHANGED <<gen, closed, cancelled, dispatch, items, sent, events, shownAt>>
BY DEF Settled, Goto, Next_, Rest_

LEMMA HandedOnType ==
  ASSUME LockType
  PROVE  /\ Next_ \in Nat /\ Rest_ \in Seq(Nat \ {0}) /\ Len(Rest_) \in Nat
         /\ queue["steer"] \in Seq(Nat \ {0}) /\ queue["followup"] \in Seq(Nat \ {0})
<1>1. queue["steer"] \in Seq(Nat \ {0}) /\ queue["followup"] \in Seq(Nat \ {0})
  BY DEF LockType, Queues
<1>2. Rest_ \in Seq(Nat \ {0}) /\ Next_ \in Nat
  BY <1>1, HeadTail DEF Next_, Rest_
<1> QED BY <1>1, <1>2

LEMMA SettlingType ==
  ASSUME TypeOK, NEW t \in Scripts, Settle(t) \/ EmitIdle(t)
  PROVE  TypeOK'
<1>. t \in Threads /\ ThreadType /\ LockType /\ StoreType /\ OutType
  BY Kinds_, TypeParts
<1>1. CASE Stale(t)
  <2>1. ThreadType'
    BY <1>1, MoveType, LocalTypes DEF Stale, Goto, Labels
  <2> QED BY <1>1, <2>1, TypeParts, SameParts DEF Stale
<1>2. CASE Settled(t)
  <2>1. ThreadType'
    <3>1. [NoLocal EXCEPT !.msg = IF closed THEN 0 ELSE Next_] \in Local
      BY HandedOnType, LocalTypes
    <3> QED BY <1>2, <3>1, SettledDoes, MoveType DEF Labels
  <2>2. LockType'
    <3>1. queue' \in [Queues -> Seq(Nat \ {0})]
      <4>1. queue' = [queue EXCEPT !["steer"] = <<>>, !["followup"] = Rest_]
        BY <1>2, SettledDoes
      <4>2. <<>> \in Seq(Nat \ {0}) /\ Rest_ \in Seq(Nat \ {0})
        BY HandedOnType
      <4> QED BY <4>1, <4>2 DEF LockType
    <3>2. shown' \in [Queues -> Nat]
      <4>1. shown' = [NoDepths EXCEPT !["followup"] = Len(Rest_)]
        BY <1>2, SettledDoes
      <4>2. Len(Rest_) \in Nat /\ NoDepths \in [Queues -> Nat]
        BY HandedOnType DEF NoDepths
      <4> QED BY <4>1, <4>2
    <3> QED BY <1>2, <3>1, <3>2, SettledDoes DEF LockType, States
  <2>3. StoreType'
    <3>1. Range(queue["steer"]) \subseteq Nat \ {0}
      BY HandedOnType, RangeType
    <3> QED BY <1>2, <3>1, SettledDoes, HandedOnType DEF StoreType
  <2>4. OutType'
    BY <1>2, SettledDoes, SameParts
  <2> QED BY <2>1, <2>2, <2>3, <2>4, TypeParts
<1>3. CASE EmitIdle(t)
  <2>1. ThreadType'
    BY <1>3, StayType DEF EmitIdle, Goto, Labels
  <2>2. OutType'
    BY <1>3, EmitType DEF EmitIdle
  <2> QED BY <1>3, <2>1, <2>2, TypeParts, SameParts DEF EmitIdle
<1> QED BY <1>1, <1>2, <1>3 DEF Settle

LEMMA StoppingType ==
  ASSUME TypeOK, NEW t \in Abort_ \cup Close_, Abort(t) \/ Stopping(t)
  PROVE  TypeOK'
<1>. t \in Threads /\ ThreadType /\ LockType /\ StoreType /\ OutType
  BY Kinds_, TypeParts
<1>1. CASE Abort(t)
  <2>1. ThreadType'
    <3>1. pc' \in [Threads -> Labels]
      BY <1>1 DEF Abort, Goto, ThreadType, Labels
    <3>2. local' \in [Threads -> Local]
      BY <1>1 DEF Abort, ThreadType, Local, LockType
    <3> QED BY <3>1, <3>2 DEF ThreadType
  <2>2. LockType' /\ StoreType'
    <3>1. CASE run = "running"
      <4>1. /\ run' = "stopping" /\ queue' = [q \in Queues |-> <<>>] /\ shown' = NoDepths
            /\ lost' = lost \cup UNION {Range(queue[q]) : q \in Queues}
            /\ UNCHANGED <<gen, cancel, closed, items, sent>>
        BY <1>1, <3>1 DEF Abort
      <4>2. \A q \in Queues : Range(queue[q]) \subseteq Nat \ {0}
        BY RangeType DEF LockType
      <4>3. LockType'
        BY <4>1 DEF LockType, States, NoDepths
      <4>4. lost' \subseteq Nat \ {0}
        BY <4>1, <4>2 DEF StoreType
      <4> QED BY <4>1, <4>3, <4>4 DEF StoreType
    <3>2. CASE run # "running"
      BY <1>1, <3>2, SameParts DEF Abort, lockVars, storeVars
    <3> QED BY <3>1, <3>2
  <2> QED BY <1>1, <2>1, <2>2, TypeParts, SameParts DEF Abort
<1>2. CASE EmitStop(t)
  <2>1. ThreadType'
    BY <1>2, StayType DEF EmitStop, Goto, Labels
  <2>2. OutType'
    BY <1>2, EmitType DEF EmitStop
  <2> QED BY <1>2, <2>1, <2>2, TypeParts, SameParts DEF EmitStop
<1>3. CASE Cancel(t)
  <2>1. ThreadType'
    BY <1>3, MoveType, LocalTypes DEF Cancel, Goto, Labels
  <2>2. OutType'
    BY <1>3, LocalTypes DEF Cancel, OutType, ThreadType
  <2> QED BY <1>3, <2>1, <2>2, TypeParts, SameParts DEF Cancel
<1>4. CASE Close(t)
  <2>1. ThreadType'
    BY <1>4, StayType DEF Close, Goto, Labels
  <2>2. LockType'
    BY <1>4 DEF Close, LockType
  <2> QED BY <1>4, <2>1, <2>2, TypeParts, SameParts DEF Close
<1> QED BY <1>1, <1>2, <1>3, <1>4 DEF Stopping

LEMMA ConfigType ==
  ASSUME TypeOK, NEW t \in Config_, CheckIdle(t) \/ Configure(t) \/ Notify(t)
  PROVE  TypeOK'
<1>. t \in Threads /\ ThreadType /\ LockType /\ StoreType /\ OutType
  BY Kinds_, TypeParts
<1>1. CASE CheckIdle(t)
  <2>1. ThreadType'
    BY <1>1, StayType DEF CheckIdle, Goto, Labels
  <2> QED BY <1>1, <2>1, TypeParts, SameParts DEF CheckIdle
<1>2. CASE Configure(t)
  <2>1. ThreadType'
    BY <1>2, StayType DEF Configure, Goto, Labels
  <2>2. StoreType'
    BY SMTT(40), <1>2 DEF Configure, StoreType
  <2> QED BY <1>2, <2>1, <2>2, TypeParts, SameParts DEF Configure
<1>3. CASE Notify(t)
  <2>1. ThreadType'
    BY <1>3, StayType DEF Notify, Goto, Labels
  <2>2. OutType'
    BY <1>3, EmitType DEF Notify
  <2> QED BY <1>3, <2>1, <2>2, TypeParts, SameParts DEF Notify
<1> QED BY <1>1, <1>2, <1>3

LEMMA TakeType == ASSUME TypeOK, Take PROVE TypeOK'
<1>. ThreadType /\ LockType /\ StoreType /\ OutType
  BY TypeParts
<1>1. OutType'
  BY FakeAssumption DEF Take, OutType
<1>2. ThreadType'
  BY DEF Take, ThreadType
<1> QED BY <1>1, <1>2, TypeParts, SameParts DEF Take

-----------------------------------------------------------------------------
(* Labels, turns and dispatchMu. *)

Control == /\ LabelInv /\ DispatchInv /\ BusyInv /\ ScriptInv /\ OrderInv /\ CarryInv
           /\ BoundInv

LEMMA OneMoves ==
  ASSUME TypeOK, NEW t \in Threads, NEW l, pc' = [pc EXCEPT ![t] = l]
  PROVE  pc'[t] = l /\ \A u \in Threads : u # t => pc'[u] = pc[u]
BY DEF TypeOK

LEMMA OneChanges ==
  ASSUME TypeOK, NEW t \in Threads, NEW rec, local' = [local EXCEPT ![t] = rec]
  PROVE  local'[t] = rec /\ \A u \in Threads : u # t => local'[u] = local[u]
BY DEF TypeOK

\* What stands in Send holds dispatchMu, so that nobody does when it is free.
LEMMA NobodySends ==
  ASSUME DispatchInv, dispatch = <<>>
  PROVE  \A t \in Threads : pc[t] \notin SendLabels
BY Kinds_ DEF DispatchInv

LEMMA NobodyDrives ==
  ASSUME BusyInv, run = "idle"
  PROVE  \A t \in Threads : ~Drives(t)
BY DEF BusyInv

LEMMA OneInSend ==
  ASSUME DispatchInv, NEW t \in Threads, pc[t] \in SendLabels
  PROVE  \A u \in Threads : pc[u] \in SendLabels => u = t
BY DEF DispatchInv

\* A stop, a close and a change of settings are beside the turns.
LEMMA AsideControl ==
  ASSUME IInv, NEW t \in Abort_ \cup Close_ \cup Config_,
         NEW l \in {"stop", "cancel", "close", "done", "write", "notify"},
         pc' = [pc EXCEPT ![t] = l],
         t \in Abort_ \cup Close_ => l \notin {"write", "notify"} /\ (l = "close" => t \in Close_),
         t \in Config_ => l \in {"done", "write", "notify"},
         local'[t].msg = 0, \A u \in Threads : u # t => local'[u] = local[u],
         UNCHANGED <<gen, dispatch, sent, shownAt>>, run # "idle" => run' # "idle"
  PROVE  Control'
<1>. TypeOK /\ LabelInv /\ DispatchInv /\ BusyInv /\ ScriptInv /\ OrderInv /\ CarryInv /\ BoundInv
  BY DEF IInv
<1>0. t \in Threads /\ t \notin Send_ /\ t \notin Scripts
  BY Kinds_
<1>1. pc'[t] = l /\ \A u \in Threads : u # t => pc'[u] = pc[u]
  BY <1>0, OneMoves
<1>2. l \notin SendLabels \cup {"script", "settle", "settled", "resend"}
  BY DEF SendLabels, StartLabels
<1>3. LabelInv'
  BY <1>0, <1>1, Kinds_ DEF LabelInv
<1>4. DispatchInv'
  BY <1>1, <1>2 DEF DispatchInv
<1>5. BusyInv'
  <2>1. \A u \in Threads : Drives(u)' => u # t /\ Drives(u)
    BY <1>1, <1>2 DEF Drives, SendLabels, StartLabels
  <2> QED BY <2>1 DEF BusyInv
<1>6. ScriptInv'
  <2>1. \A g \in Turns : pc'[<<"script", g>>] = pc[<<"script", g>>]
    BY <1>0, <1>1, ScriptTurns
  <2>2. \A u \in Threads : pc'[u] \in StartLabels => gen \in Turns /\ pc[<<"script", gen>>] = "start"
    BY <1>1, <1>2 DEF ScriptInv, BusyInv, Drives, SendLabels, StartLabels
  <2> QED BY <2>1, <2>2 DEF ScriptInv
<1>7. OrderInv'
  BY <1>1, <1>2 DEF OrderInv, SendLabels, StartLabels
<1>8. CarryInv'
  BY <1>0, <1>1, <1>2 DEF CarryInv, SendLabels, StartLabels
<1>9. BoundInv'
  BY <1>0, <1>1, Kinds_ DEF BoundInv
<1> QED BY <1>3, <1>4, <1>5, <1>6, <1>7, <1>8, <1>9 DEF Control

LEMMA StoppingControl ==
  ASSUME IInv, NEW t \in Abort_ \cup Close_, Abort(t) \/ Stopping(t)
  PROVE  Control'
<1>. TypeOK /\ LabelInv /\ CarryInv /\ t \in Threads /\ t \notin Config_ /\ t \notin Scripts
  BY Kinds_ DEF IInv
<1>0. local[t].msg = 0
  BY DEF CarryInv
<1>1. CASE Abort(t)
  <2>1. pc' = [pc EXCEPT ![t] = "stop"] /\ UNCHANGED <<gen, dispatch, sent, shownAt>>
    BY <1>1 DEF Abort, Goto
  <2>2. local'[t].msg = 0 /\ \A u \in Threads : u # t => local'[u] = local[u]
    BY <1>0, <1>1 DEF Abort, TypeOK, Local
  <2>3. run # "idle" => run' # "idle"
    BY <1>1 DEF Abort
  <2> QED BY <2>1, <2>2, <2>3, AsideControl
<1>2. CASE EmitStop(t)
  <2>1. /\ pc' = [pc EXCEPT ![t] = "cancel"] /\ UNCHANGED local
        /\ UNCHANGED <<gen, dispatch, sent, shownAt, run>>
    BY <1>2 DEF EmitStop, Emit, Goto, lockVars, storeVars
  <2> QED BY <1>0, <2>1, AsideControl
<1>3. CASE Cancel(t)
  <2>1. /\ pc' = [pc EXCEPT ![t] = IF t \in Close_ THEN "close" ELSE "done"]
        /\ local' = [local EXCEPT ![t] = NoLocal]
        /\ UNCHANGED <<gen, dispatch, sent, shownAt, run>>
    BY <1>3 DEF Cancel, Goto, lockVars, storeVars
  <2>2. local'[t] = NoLocal /\ \A u \in Threads : u # t => local'[u] = local[u]
    BY <2>1, OneChanges
  <2>. local'[t].msg = 0
    BY <2>2 DEF NoLocal
  <2>3. CASE t \in Close_
    BY <2>1, <2>2, <2>3, AsideControl
  <2>4. CASE t \notin Close_
    BY <2>1, <2>2, <2>4, AsideControl
  <2> QED BY <2>3, <2>4
<1>4. CASE Close(t)
  <2>1. /\ pc' = [pc EXCEPT ![t] = "done"] /\ UNCHANGED local
        /\ UNCHANGED <<gen, dispatch, sent, shownAt, run>>
    BY <1>4 DEF Close, Goto, storeVars
  <2> QED BY <1>0, <2>1, AsideControl
<1> QED BY <1>1, <1>2, <1>3, <1>4 DEF Stopping

LEMMA ConfigControl ==
  ASSUME IInv, NEW t \in Config_, CheckIdle(t) \/ Configure(t) \/ Notify(t)
  PROVE  Control'
<1>. TypeOK /\ CarryInv /\ t \in Threads /\ t \notin Abort_ \cup Close_ /\ t \notin Scripts
  BY Kinds_ DEF IInv
<1>0. local[t].msg = 0
  BY DEF CarryInv
<1>1. PICK l \in {"write", "notify", "done"} :
        pc' = [pc EXCEPT ![t] = l] /\ UNCHANGED <<local, gen, dispatch, sent, shownAt, run>>
  BY DEF CheckIdle, Configure, Notify, Emit, Goto, lockVars, storeVars
<1> QED BY <1>0, <1>1, AsideControl

LEMMA TakeControl == ASSUME IInv, Take PROVE Control'
<1>1. UNCHANGED <<pc, local, gen, dispatch, sent, shownAt, run>>
  BY DEF Take, lockVars, storeVars
<1> QED
  BY <1>1 DEF IInv, Control, LabelInv, DispatchInv, BusyInv, ScriptInv, OrderInv, CarryInv,
              BoundInv, Drives

LEMMA RestIs == /\ \A t \in Send_ : Rest(t) = "start"
                /\ \A t \in Scripts : Rest(t) = "done"
BY Kinds_ DEF Rest


\* A goroutine that is refused is back where no turn needs it, and so is one that has told
\* of a queued message, and one that has reported a settled turn.
LEMMA RefuseControl ==
  ASSUME IInv, NEW t \in Send_ \cup Scripts, pc[t] \in {"start", "resend"}, t \in Scripts => pc[t] = "resend",
         dispatch = <<>>, Refuse(t)
  PROVE  Control'
<1>. /\ TypeOK /\ LabelInv /\ DispatchInv /\ BusyInv /\ ScriptInv /\ OrderInv /\ CarryInv /\ BoundInv
     /\ t \in Threads
  BY Kinds_ DEF IInv
<1>0. /\ pc' = [pc EXCEPT ![t] = Rest(t)] /\ local' = [local EXCEPT ![t] = NoLocal]
      /\ UNCHANGED <<run, gen, dispatch, sent, shownAt>>
  BY DEF Refuse, Goto, lockVars
<1>1. /\ pc'[t] = Rest(t) /\ \A u \in Threads : u # t => pc'[u] = pc[u]
      /\ local'[t] = NoLocal /\ \A u \in Threads : u # t => local'[u] = local[u]
  BY <1>0, OneMoves, OneChanges
<1>2. Rest(t) \in {"start", "done"} /\ Rest(t) \notin SendLabels
  BY RestLabel DEF SendLabels, StartLabels
<1>3. LabelInv'
  BY <1>1, RestIs, Kinds_ DEF LabelInv
<1>4. DispatchInv'
  BY <1>0, <1>1, <1>2 DEF DispatchInv
<1>5. BusyInv'
  <2>1. \A u \in Threads : Drives(u)' => u # t /\ Drives(u)
    BY <1>1, <1>2 DEF Drives
  <2> QED BY <1>0, <1>1, <2>1 DEF BusyInv
<1>6. ScriptInv'
  BY <1>0, <1>1, <1>2, RestIs, ScriptTurns, Kinds_ DEF ScriptInv, SendLabels
<1>7. OrderInv'
  BY <1>0, <1>1, <1>2 DEF OrderInv
<1>8. CarryInv'
  BY <1>1, <1>2 DEF CarryInv, NoLocal
<1>9. BoundInv'
  BY <1>0, <1>1, <1>2, Kinds_ DEF BoundInv
<1> QED BY <1>3, <1>4, <1>5, <1>6, <1>7, <1>8, <1>9 DEF Control

LEMMA TellControl ==
  ASSUME IInv, NEW t \in Send_ \cup Scripts, Tell(t)
  PROVE  Control'
<1>. /\ TypeOK /\ LabelInv /\ DispatchInv /\ BusyInv /\ ScriptInv /\ OrderInv /\ CarryInv /\ BoundInv
     /\ t \in Threads /\ pc[t] = "tell"
  BY Kinds_ DEF IInv, Tell
<1>0. /\ pc' = [pc EXCEPT ![t] = Rest(t)] /\ local' = [local EXCEPT ![t] = NoLocal]
      /\ UNCHANGED <<run, gen, sent, shownAt>>
  BY DEF Tell, Emit, Goto, lockVars, storeVars
<1>1. /\ pc'[t] = Rest(t) /\ \A u \in Threads : u # t => pc'[u] = pc[u]
      /\ local'[t] = NoLocal /\ \A u \in Threads : u # t => local'[u] = local[u]
  BY <1>0, OneMoves, OneChanges
<1>2. Rest(t) \in {"start", "done"} /\ Rest(t) \notin SendLabels /\ pc[t] \in SendLabels
  BY RestLabel DEF SendLabels, StartLabels
<1>3. LabelInv'
  BY <1>1, RestIs, Kinds_ DEF LabelInv
<1>4. DispatchInv'
  BY <1>1, <1>2, OneInSend DEF DispatchInv
<1>5. BusyInv'
  <2>1. \A u \in Threads : Drives(u)' => u # t /\ Drives(u)
    BY <1>1, <1>2 DEF Drives
  <2> QED BY <1>0, <1>1, <2>1 DEF BusyInv
<1>6. ScriptInv'
  BY <1>0, <1>1, <1>2, RestIs, ScriptTurns, Kinds_ DEF ScriptInv, SendLabels
<1>7. OrderInv'
  BY <1>0, <1>1, <1>2 DEF OrderInv
<1>8. CarryInv'
  BY <1>1, <1>2 DEF CarryInv, NoLocal
<1>9. BoundInv'
  BY <1>0, <1>1, <1>2, Kinds_ DEF BoundInv
<1> QED BY <1>3, <1>4, <1>5, <1>6, <1>7, <1>8, <1>9 DEF Control

LEMMA EmitIdleControl ==
  ASSUME IInv, NEW t \in Scripts, EmitIdle(t)
  PROVE  Control'
<1>. /\ TypeOK /\ LabelInv /\ DispatchInv /\ BusyInv /\ ScriptInv /\ OrderInv /\ CarryInv /\ BoundInv
     /\ t \in Threads /\ t \notin Send_ /\ pc[t] = "settled"
  BY Kinds_ DEF IInv, EmitIdle
<1> DEFINE l == IF local[t].msg = 0 THEN "done" ELSE "resend"
<1>0. pc' = [pc EXCEPT ![t] = l] /\ UNCHANGED <<local, run, gen, dispatch, sent, shownAt>>
  BY DEF EmitIdle, Emit, Goto, lockVars, storeVars
<1>1. pc'[t] = l /\ \A u \in Threads : u # t => pc'[u] = pc[u]
  BY <1>0, OneMoves
<1>2. /\ l \in {"done", "resend"} /\ l \notin SendLabels /\ l # "start"
      /\ l = "resend" <=> local[t].msg # 0
  BY DEF SendLabels, StartLabels
<1> HIDE DEF l
<1>3. LabelInv'
  BY <1>1, <1>2, Kinds_ DEF LabelInv
<1>4. DispatchInv'
  BY <1>0, <1>1, <1>2 DEF DispatchInv
<1>5. BusyInv'
  <2>1. \A u \in Threads : Drives(u)' => u # t /\ Drives(u)
    BY <1>1, <1>2 DEF Drives
  <2> QED BY <1>0, <1>1, <2>1 DEF BusyInv
<1>6. ScriptInv'
  BY <1>0, <1>1, <1>2, ScriptTurns, Kinds_ DEF ScriptInv, SendLabels
<1>7. OrderInv'
  BY <1>0, <1>1, <1>2 DEF OrderInv
<1>8. CarryInv'
  BY <1>0, <1>1, <1>2 DEF CarryInv
<1>9. BoundInv'
  BY <1>0, <1>1, <1>2, Kinds_ DEF BoundInv
<1> QED BY <1>3, <1>4, <1>5, <1>6, <1>7, <1>8, <1>9 DEF Control

LEMMA QueueControl ==
  ASSUME IInv, NEW t \in Send_ \cup Scripts, NEW mode, pc[t] \in {"start", "resend"},
         t \in Scripts => pc[t] = "resend", t \in Send_ => sent < MaxSends,
         dispatch = <<>>, Queue(t, mode)
  PROVE  Control'
<1>. /\ TypeOK /\ LabelInv /\ DispatchInv /\ BusyInv /\ ScriptInv /\ OrderInv /\ CarryInv /\ BoundInv
     /\ t \in Threads
  BY Kinds_ DEF IInv
<1>0. /\ pc' = [pc EXCEPT ![t] = "tell"] /\ local' = [local EXCEPT ![t] = NoLocal]
      /\ UNCHANGED <<run, gen, shownAt>> /\ dispatch' = t
  BY DEF Queue, Goto
<1>1. /\ pc'[t] = "tell" /\ \A u \in Threads : u # t => pc'[u] = pc[u]
      /\ local'[t] = NoLocal /\ \A u \in Threads : u # t => local'[u] = local[u]
  BY <1>0, OneMoves, OneChanges
<1>2. \A u \in Threads : pc[u] \notin SendLabels
  BY NobodySends
<1>3. LabelInv'
  BY <1>1, Kinds_ DEF LabelInv, SendLabels
<1>4. DispatchInv'
  BY <1>0, <1>1, <1>2 DEF DispatchInv
<1>5. BusyInv'
  <2>1. \A u \in Threads : Drives(u)' => u # t /\ Drives(u)
    BY <1>1 DEF Drives
  <2> QED BY <1>0, <1>1, <2>1 DEF BusyInv
<1>6. ScriptInv'
  BY <1>0, <1>1, <1>2, ScriptTurns, Kinds_ DEF ScriptInv, StartLabels, SendLabels
<1>7. OrderInv'
  BY <1>0, <1>1 DEF OrderInv
<1>8. CarryInv'
  BY <1>1 DEF CarryInv, NoLocal
<1>9. BoundInv'
  <2>1. sent' <= MaxSends
    <3>1. CASE t \in Send_
      BY <3>1, FakeAssumption DEF Queue, Counted, TypeOK, BoundInv
    <3>2. CASE t \in Scripts
      <4>1. local[t].msg # 0
        BY <3>2 DEF CarryInv
      <4> QED BY <4>1 DEF Queue, Counted, BoundInv
    <3> QED BY <3>1, <3>2
  <2>2. \A u \in Send_ : pc'[u] # "add"
    BY <1>1, <1>2, Kinds_ DEF SendLabels, StartLabels
  <2> QED BY <2>1, <2>2 DEF BoundInv
<1> QED BY <1>3, <1>4, <1>5, <1>6, <1>7, <1>8, <1>9 DEF Control

LEMMA StartTurnControl ==
  ASSUME IInv, NEW t \in Send_ \cup Scripts, pc[t] \in {"start", "resend"},
         t \in Scripts => pc[t] = "resend", t \in Send_ => sent < MaxSends,
         dispatch = <<>>, StartTurn(t)
  PROVE  Control'
<1>. /\ TypeOK /\ LabelInv /\ DispatchInv /\ BusyInv /\ ScriptInv /\ OrderInv /\ CarryInv /\ BoundInv
     /\ t \in Threads
  BY Kinds_ DEF IInv
<1>0. /\ pc' = [pc EXCEPT ![t] = "add"] /\ local' = [local EXCEPT ![t].turn = gen + 1]
      /\ UNCHANGED <<shownAt, sent>> /\ dispatch' = t
      /\ gen' = gen + 1 /\ gen + 1 \in Turns /\ run' = "running"
  BY DEF StartTurn, Goto, storeVars
<1>1. /\ pc'[t] = "add" /\ \A u \in Threads : u # t => pc'[u] = pc[u]
  BY <1>0, OneMoves
<1>2. /\ local'[t].turn = gen + 1 /\ local'[t].msg = local[t].msg
      /\ \A u \in Threads : u # t => local'[u] = local[u]
  BY <1>0 DEF TypeOK, Local
<1>3. \A u \in Threads : pc[u] \notin SendLabels
  BY NobodySends
<1>4. \A u \in Threads : ~Drives(u)
  BY NobodyDrives DEF StartTurn
<1>5. gen \in Nat /\ gen' > gen
  BY <1>0 DEF TypeOK
<1>6. LabelInv'
  BY <1>1, Kinds_ DEF LabelInv, SendLabels, StartLabels
<1>7. DispatchInv'
  BY <1>0, <1>1, <1>3 DEF DispatchInv
<1>8. BusyInv'
  <2>1. \A u \in Threads : Drives(u)' => u = t
    BY <1>1, <1>4 DEF Drives
  <2> QED BY <1>0, <1>2, <2>1 DEF BusyInv
<1>9. ScriptInv'
  <2>1. \A g \in Turns : pc'[<<"script", g>>] # "start" => g <= gen'
    <3> TAKE g \in Turns
    <3>1. g \in Nat /\ <<"script", g>> \in Scripts /\ <<"script", g>> \in Threads
      BY ScriptTurns, TurnsAreNumbers
    <3>2. pc[<<"script", g>>] # "start" => g <= gen
      BY DEF ScriptInv
    <3>3. pc'[<<"script", g>>] # "start" => pc[<<"script", g>>] # "start"
      BY <1>1, <3>1
    <3> QED BY <1>5, <3>1, <3>2, <3>3, <1>0
  <2>2. pc'[<<"script", gen'>>] = "start"
    <3>1. pc[<<"script", gen'>>] = "start"
      BY <1>0, <1>5 DEF ScriptInv
    <3>2. <<"script", gen'>> \in Scripts /\ <<"script", gen'>> \in Threads
      BY <1>0, ScriptTurns
    <3> QED BY <1>1, <3>1, <3>2
  <2> QED BY <2>1, <2>2 DEF ScriptInv
<1>10. OrderInv'
  <2>1. shownAt'[1] < gen' /\ shownAt[1] \in Nat
    BY <1>0, <1>5 DEF OrderInv, TypeOK
  <2>2. \A u \in Threads : u # t => pc'[u] \notin {"add", "message", "meta", "status", "launch", "script"}
    BY <1>1, <1>4 DEF Drives
  <2>3. \A u \in Threads :
          /\ pc'[u] \in {"add", "message"} => u = t
          /\ pc'[u] \notin {"meta", "status", "launch", "script"}
    BY <1>1, <2>2
  <2>4. shownAt'[1] <= gen'
    BY <1>5, <2>1, <1>0
  <2> QED BY <2>1, <2>3, <2>4 DEF OrderInv
<1>11. CarryInv'
  BY <1>1, <1>2 DEF CarryInv
<1>12. BoundInv'
  BY <1>0, <1>1, <1>3, Kinds_ DEF BoundInv, SendLabels, StartLabels
<1> QED BY <1>6, <1>7, <1>8, <1>9, <1>10, <1>11, <1>12 DEF Control

\* The steps between the beginning of a turn and its launch: the goroutine keeps the
\* turn and dispatchMu.
LEMMA InsideControl ==
  ASSUME IInv, NEW t \in Send_ \cup Scripts, NEW l \in {"message", "meta", "status", "launch"},
         pc[t] \in StartLabels,
         pc' = [pc EXCEPT ![t] = l], UNCHANGED <<run, gen, dispatch>>,
         local'[t].turn = local[t].turn, local'[t].msg = 0,
         \A u \in Threads : u # t => local'[u] = local[u],
         sent' <= MaxSends,
         \/ l = "message" /\ pc[t] = "add" /\ UNCHANGED shownAt
         \/ l # "message" /\ shownAt' = <<gen, 0>>
  PROVE  Control'
<1>. /\ TypeOK /\ LabelInv /\ DispatchInv /\ BusyInv /\ ScriptInv /\ OrderInv /\ CarryInv /\ BoundInv
     /\ t \in Threads
  BY Kinds_ DEF IInv
<1>1. pc'[t] = l /\ \A u \in Threads : u # t => pc'[u] = pc[u]
  BY OneMoves
<1>2. l \in StartLabels /\ l \in SendLabels /\ pc[t] \in SendLabels
  BY DEF SendLabels, StartLabels
<1>3. Drives(t) /\ \A u \in Threads : Drives(u) => u = t
  BY DEF StartLabels, BusyInv, Drives
<1>4. LabelInv'
  BY <1>1, Kinds_ DEF LabelInv, SendLabels, StartLabels
<1>5. DispatchInv'
  BY <1>1, <1>2 DEF DispatchInv
<1>6. BusyInv'
  <2>1. \A u \in Threads : Drives(u)' => u = t
    BY <1>1, <1>3 DEF Drives
  <2> QED BY <1>3, <2>1 DEF BusyInv
<1>7. ScriptInv'
  <2>1. gen \in Turns /\ pc[<<"script", gen>>] = "start"
    BY <1>3 DEF ScriptInv, BusyInv
  <2>2. \A g \in Turns : <<"script", g>> \in Threads
    BY ScriptTurns
  <2>3. <<"script", gen>> # t
    BY <2>1 DEF StartLabels
  <2>4. pc'[<<"script", gen>>] = "start"
    BY <1>1, <2>1, <2>2, <2>3
  <2>5. \A g \in Turns : pc'[<<"script", g>>] # "start" => g <= gen
    <3> TAKE g \in Turns
    <3>1. CASE <<"script", g>> = t
      BY <3>1 DEF ScriptInv, StartLabels
    <3>2. CASE <<"script", g>> # t
      BY <1>1, <2>2, <3>2 DEF ScriptInv
    <3> QED BY <3>1, <3>2
  <2> QED BY <2>4, <2>5 DEF ScriptInv
<1>8. OrderInv'
  <2>1. \A u \in Threads : u # t => pc'[u] \notin {"add", "message", "meta", "status", "launch", "script"}
    BY <1>1, <1>3 DEF Drives
  <2>2. gen \in Nat /\ shownAt[1] \in Nat
    BY DEF TypeOK
  <2>3. CASE l = "message" /\ pc[t] = "add" /\ UNCHANGED shownAt
    <3>1. shownAt[1] < gen
      BY <2>3 DEF OrderInv
    <3> QED BY <1>1, <2>1, <2>2, <2>3, <3>1 DEF OrderInv
  <2>4. CASE l # "message" /\ shownAt' = <<gen, 0>>
    <3>1. shownAt'[1] = gen' /\ shownAt' = <<gen', 0>>
      BY <2>4
    <3>2. pc'[t] \in {"meta", "status", "launch"}
      BY <1>1, <2>4
    <3> QED BY <2>1, <2>2, <3>1, <3>2 DEF OrderInv
  <2> QED BY <2>3, <2>4
<1>9. CarryInv'
  BY <1>1 DEF CarryInv
<1>10. BoundInv'
  <2>1. \A u \in Send_ : pc'[u] # "add"
    BY <1>1, <1>3, Kinds_ DEF Drives
  <2> QED BY <2>1 DEF BoundInv
<1> QED BY <1>4, <1>5, <1>6, <1>7, <1>8, <1>9, <1>10 DEF Control

LEMMA AddItemControl ==
  ASSUME IInv, NEW t \in Send_ \cup Scripts, AddItem(t)
  PROVE  Control'
<1>. TypeOK /\ BoundInv /\ CarryInv /\ t \in Threads
  BY Kinds_ DEF IInv
<1>1. /\ pc[t] = "add" /\ pc' = [pc EXCEPT ![t] = "message"]
      /\ local' = [local EXCEPT ![t].msg = 0]
      /\ UNCHANGED <<run, gen, dispatch, shownAt>>
  BY DEF AddItem, Goto, lockVars
<1>2. /\ local'[t].turn = local[t].turn /\ local'[t].msg = 0
      /\ \A u \in Threads : u # t => local'[u] = local[u]
  BY <1>1 DEF TypeOK, Local
<1>3. sent' <= MaxSends
  <2>1. CASE t \in Send_
    BY <1>1, <2>1, FakeAssumption DEF AddItem, Counted, BoundInv, TypeOK
  <2>2. CASE t \in Scripts
    BY <1>1, <2>2 DEF AddItem, Counted, BoundInv, CarryInv
  <2> QED BY <2>1, <2>2
<1>4. pc[t] \in StartLabels
  BY <1>1 DEF StartLabels
<1> QED BY <1>1, <1>2, <1>3, <1>4, InsideControl

LEMMA EmitMessageControl ==
  ASSUME IInv, NEW t \in Send_ \cup Scripts, EmitMessage(t)
  PROVE  Control'
<1>. BoundInv /\ CarryInv /\ BusyInv /\ t \in Threads
  BY Kinds_ DEF IInv
<1>1. /\ pc[t] = "message" /\ pc' = [pc EXCEPT ![t] = "meta"]
      /\ UNCHANGED <<local, run, gen, dispatch, sent>> /\ shownAt' = <<local[t].turn, 0>>
  BY DEF EmitMessage, EmitAt, Goto, lockVars, storeVars
<1>2. local[t].turn = gen /\ local[t].msg = 0
  BY <1>1 DEF BusyInv, Drives, CarryInv
<1>3. pc[t] \in StartLabels /\ sent' <= MaxSends
  BY <1>1 DEF StartLabels, BoundInv
<1> QED BY <1>1, <1>2, <1>3, InsideControl

LEMMA EmitMetaControl ==
  ASSUME IInv, NEW t \in Send_ \cup Scripts, EmitMeta(t) \/ Announce(t)
  PROVE  Control'
<1>. BoundInv /\ CarryInv /\ OrderInv /\ t \in Threads
  BY Kinds_ DEF IInv
<1>1. PICK l \in {"status", "launch"} :
        /\ pc[t] \in {"meta", "status"} /\ pc' = [pc EXCEPT ![t] = l]
        /\ UNCHANGED <<local, run, gen, dispatch, sent, shownAt>>
  BY DEF EmitMeta, Announce, Emit, Goto, lockVars, storeVars
<1>2. local[t].msg = 0 /\ shownAt' = <<gen, 0>>
  BY <1>1 DEF OrderInv, CarryInv
<1>3. pc[t] \in StartLabels /\ sent' <= MaxSends
  BY <1>1 DEF StartLabels, BoundInv
<1> QED BY <1>1, <1>2, <1>3, InsideControl

\* The script that a launch starts is of the latest turn and has not run before.
LEMMA LaunchDoes ==
  ASSUME IInv, NEW t \in Send_ \cup Scripts, Launch(t)
  PROVE  \E s \in Scripts, kind \in Kinds :
           /\ s = <<"script", gen>> /\ gen \in Turns /\ s # t /\ t \in Threads /\ s \in Threads
           /\ pc[t] = "launch" /\ pc[s] = "start" /\ dispatch' = <<>>
           /\ pc'[t] = Rest(t) /\ pc'[s] = "script"
           /\ local'[t] = NoLocal
           /\ local'[s] = [NoLocal EXCEPT !.turn = gen, !.pos = 1, !.kind = kind]
           /\ \A u \in Threads : u # t /\ u # s => pc'[u] = pc[u] /\ local'[u] = local[u]
           /\ UNCHANGED <<run, gen, sent, shownAt>>
<1>. TypeOK /\ BusyInv /\ ScriptInv /\ t \in Threads /\ pc[t] = "launch"
  BY Kinds_ DEF IInv, Launch
<1>1. local[t].turn = gen /\ gen \in Turns
  BY DEF BusyInv, Drives
<1>2. pc[<<"script", gen>>] = "start"
  BY DEF ScriptInv, StartLabels
<1>3. PICK s \in Scripts : s = <<"script", gen>> /\ s \in Threads
  BY <1>1, ScriptTurns
<1>4. s # t
  BY <1>2, <1>3
<1>5. pc' = [pc EXCEPT ![t] = Rest(t), ![s] = "script"]
  BY <1>1, <1>3 DEF Launch
<1>6. PICK kind \in Kinds :
        local' = [local EXCEPT ![t] = NoLocal,
                               ![s] = [NoLocal EXCEPT !.turn = gen, !.pos = 1, !.kind = kind]]
  BY <1>1, <1>3 DEF Launch
<1>7. dispatch' = <<>> /\ UNCHANGED <<run, gen, sent, shownAt>>
  BY DEF Launch, lockVars, storeVars
<1>8. /\ pc'[t] = Rest(t) /\ pc'[s] = "script"
      /\ \A u \in Threads : u # t /\ u # s => pc'[u] = pc[u]
  BY <1>3, <1>4, <1>5 DEF TypeOK
<1>9. /\ local'[t] = NoLocal
      /\ local'[s] = [NoLocal EXCEPT !.turn = gen, !.pos = 1, !.kind = kind]
      /\ \A u \in Threads : u # t /\ u # s => local'[u] = local[u]
  BY <1>3, <1>4, <1>6 DEF TypeOK
<1>10. /\ s = <<"script", gen>> /\ gen \in Turns /\ s # t /\ t \in Threads /\ s \in Threads
       /\ pc[t] = "launch" /\ pc[s] = "start" /\ dispatch' = <<>>
       /\ pc'[t] = Rest(t) /\ pc'[s] = "script"
       /\ local'[t] = NoLocal
       /\ local'[s] = [NoLocal EXCEPT !.turn = gen, !.pos = 1, !.kind = kind]
       /\ \A u \in Threads : u # t /\ u # s => pc'[u] = pc[u] /\ local'[u] = local[u]
       /\ UNCHANGED <<run, gen, sent, shownAt>>
  <2>1. pc[s] = "start"
    BY <1>2, <1>3
  <2> QED BY <1>1, <1>3, <1>4, <1>7, <1>8, <1>9, <2>1
<1> WITNESS s \in Scripts, kind \in Kinds
<1> QED BY <1>10

LEMMA LaunchControl ==
  ASSUME IInv, NEW t \in Send_ \cup Scripts, Launch(t)
  PROVE  Control'
<1>. /\ TypeOK /\ LabelInv /\ DispatchInv /\ BusyInv /\ ScriptInv /\ OrderInv /\ CarryInv /\ BoundInv
     /\ t \in Threads
  BY Kinds_ DEF IInv
<1>0. PICK s \in Scripts, kind \in Kinds :
           /\ s = <<"script", gen>> /\ gen \in Turns /\ s # t /\ t \in Threads /\ s \in Threads
           /\ pc[t] = "launch" /\ pc[s] = "start" /\ dispatch' = <<>>
           /\ pc'[t] = Rest(t) /\ pc'[s] = "script"
           /\ local'[t] = NoLocal
           /\ local'[s] = [NoLocal EXCEPT !.turn = gen, !.pos = 1, !.kind = kind]
           /\ \A u \in Threads : u # t /\ u # s => pc'[u] = pc[u] /\ local'[u] = local[u]
           /\ UNCHANGED <<run, gen, sent, shownAt>>
  BY LaunchDoes
<1>1. local'[s].turn = gen /\ local'[s].msg = 0 /\ local'[s].pos = 1 /\ local'[t].msg = 0
  BY <1>0 DEF NoLocal
<1>2. Rest(t) \in {"start", "done"} /\ pc[t] \in SendLabels /\ pc[t] \in StartLabels
  BY <1>0, RestLabel DEF SendLabels, StartLabels
<1>3. Drives(t) /\ \A u \in Threads : Drives(u) => u = t
  BY <1>0 DEF BusyInv, Drives
<1>4. \A u \in Threads : Drives(u)' => u = s
  BY <1>0, <1>2, <1>3 DEF Drives
<1>5. LabelInv'
  BY <1>0, RestIs, Kinds_ DEF LabelInv
<1>6. DispatchInv'
  BY <1>0, <1>2, OneInSend DEF DispatchInv, SendLabels, StartLabels
<1>7. BusyInv'
  BY <1>0, <1>1, <1>3, <1>4 DEF BusyInv
<1>8. ScriptInv'
  <2>1. \A g \in Turns : pc'[<<"script", g>>] # "start" => g <= gen
    <3> TAKE g \in Turns
    <3>1. <<"script", g>> \in Threads /\ gen \in Nat
      BY ScriptTurns, TurnsAreNumbers, <1>0
    <3>2. CASE <<"script", g>> = t
      BY <1>0, <3>2 DEF ScriptInv
    <3>3. CASE <<"script", g>> = s
      BY <1>0, <3>1, <3>3
    <3>4. CASE <<"script", g>> # s /\ <<"script", g>> # t
      BY <1>0, <3>1, <3>4 DEF ScriptInv
    <3> QED BY <3>2, <3>3, <3>4
  <2>2. \A u \in Threads : pc'[u] \notin StartLabels
    BY <1>0, <1>2, <1>4 DEF StartLabels, Drives
  <2> QED BY <1>0, <2>1, <2>2 DEF ScriptInv
<1>9. OrderInv'
  <2>1. shownAt = <<gen, 0>>
    BY <1>0 DEF OrderInv
  <2>2. \A u \in Threads : u # s => pc'[u] \notin {"add", "message", "meta", "status", "launch", "script"}
    BY <1>4 DEF Drives
  <2>3. shownAt'[1] = gen' /\ shownAt'[2] = 0 /\ gen \in Nat
    BY <1>0, <2>1 DEF TypeOK
  <2>4. shownAt'[1] <= gen' /\ shownAt'[2] < local'[s].pos
    BY <1>0, <1>1, <2>3
  <2>5. \A u \in Threads :
          /\ pc'[u] \notin {"add", "message", "meta", "status", "launch"}
          /\ pc'[u] = "script" => u = s
    BY <1>0, <2>2
  <2> QED BY <2>3, <2>4, <2>5 DEF OrderInv
<1>10. CarryInv'
  BY ZenonT(40), <1>0, <1>1, <1>2 DEF CarryInv
<1>11. BoundInv'
  <2>1. \A u \in Send_ : pc'[u] # "add"
    BY <1>4, Kinds_, <1>0 DEF Drives
  <2> QED BY <1>0, <2>1 DEF BoundInv
<1> QED BY <1>5, <1>6, <1>7, <1>8, <1>9, <1>10, <1>11 DEF Control

LEMMA PlayControl ==
  ASSUME IInv, NEW t \in Scripts, Play(t)
  PROVE  Control'
<1>. /\ TypeOK /\ LabelInv /\ DispatchInv /\ BusyInv /\ ScriptInv /\ OrderInv /\ CarryInv /\ BoundInv
     /\ t \in Threads /\ pc[t] = "script"
  BY Kinds_ DEF IInv, Play
<1>. DEFINE script == Script(local[t].kind)
            pos    == local[t].pos
            step   == script[pos]
            over   == \/ pos = Len(script)
                      \/ step = "pause" /\ local[t].turn \in cancelled
<1>0. /\ pc' = [pc EXCEPT ![t] = IF over THEN "settle" ELSE "script"]
      /\ local' = [local EXCEPT ![t].pos = IF over THEN 0 ELSE pos + 1]
      /\ \/ shownAt' = shownAt
         \/ shownAt' = <<local[t].turn, pos>>
      /\ UNCHANGED <<run, gen, dispatch, sent>>
  BY DEF Play, EmitAt, Goto, lockVars
<1> HIDE DEF over, step, script
<1>1. PICK l \in {"settle", "script"} :
        pc' = [pc EXCEPT ![t] = l] /\ (l = "settle" \/ local' = [local EXCEPT ![t].pos = pos + 1])
  BY <1>0
<1>2. pc'[t] = l /\ \A u \in Threads : u # t => pc'[u] = pc[u]
  BY <1>1, OneMoves
<1>3. /\ local'[t].turn = local[t].turn /\ local'[t].msg = local[t].msg
      /\ l = "script" => local'[t].pos = pos + 1
      /\ \A u \in Threads : u # t => local'[u] = local[u]
  <2>1. PICK n : local' = [local EXCEPT ![t].pos = n]
    BY <1>0
  <2> QED BY <1>1, <2>1 DEF TypeOK, Local
<1>4. Drives(t) /\ Drives(t)' /\ \A u \in Threads : Drives(u) => u = t
  BY <1>2 DEF BusyInv, Drives
<1>5. local[t].turn = gen /\ local[t].msg = 0 /\ pos \in Nat
  BY <1>4 DEF BusyInv, CarryInv, TypeOK, Local
<1>6. \A u \in Threads : Drives(u)' => u = t
  BY <1>2, <1>4 DEF Drives
<1>7. LabelInv'
  BY <1>2, Kinds_ DEF LabelInv
<1>8. DispatchInv'
  BY <1>0, <1>2 DEF DispatchInv, SendLabels, StartLabels
<1>9. BusyInv'
  BY <1>0, <1>3, <1>4, <1>6 DEF BusyInv
<1>10. ScriptInv'
  <2>1. \A g \in Turns : pc'[<<"script", g>>] # "start" => pc[<<"script", g>>] # "start"
    BY <1>2, ScriptTurns
  <2>2. \A u \in Threads : pc'[u] \notin StartLabels
    BY <1>2, <1>6 DEF Drives, StartLabels
  <2> QED BY <1>0, <2>1, <2>2 DEF ScriptInv
<1>11. OrderInv'
  <2>1. shownAt[1] = gen /\ shownAt[2] < pos /\ shownAt[2] \in Nat /\ gen \in Nat
    BY DEF OrderInv, TypeOK
  <2>2. shownAt'[1] = gen' /\ shownAt'[2] < pos + 1
    BY <1>0, <1>5, <2>1
  <2>3. \A u \in Threads : u # t => pc'[u] \notin {"add", "message", "meta", "status", "launch", "script"}
    BY <1>6 DEF Drives
  <2>4. l = "script" => shownAt'[2] < local'[t].pos
    BY <1>3, <2>2
  <2> QED BY <1>2, <2>1, <2>2, <2>3, <2>4, <1>0 DEF OrderInv
<1>12. CarryInv'
  BY <1>2, <1>3, <1>5 DEF CarryInv
<1>13. BoundInv'
  BY <1>0, <1>2, Kinds_ DEF BoundInv
<1> QED BY <1>7, <1>8, <1>9, <1>10, <1>11, <1>12, <1>13 DEF Control

\* The turn that settles is the latest one.
LEMMA NeverStale ==
  ASSUME IInv, NEW t \in Scripts, Settle(t)
  PROVE  Settled(t)
BY Kinds_ DEF IInv, Settle, BusyInv, Drives

LEMMA SettleControl ==
  ASSUME IInv, NEW t \in Scripts, Settle(t)
  PROVE  Control'
<1>. /\ TypeOK /\ LabelInv /\ DispatchInv /\ BusyInv /\ ScriptInv /\ OrderInv /\ CarryInv /\ BoundInv
     /\ t \in Threads /\ pc[t] = "settle" /\ Settled(t)
  BY Kinds_, NeverStale DEF IInv, Settle
<1>0. /\ pc' = [pc EXCEPT ![t] = IF closed THEN "done" ELSE "settled"]
      /\ local' = [local EXCEPT ![t] = [NoLocal EXCEPT !.msg = IF closed THEN 0 ELSE Next_]]
      /\ UNCHANGED <<gen, dispatch, sent, shownAt>>
  BY SettledDoes
<1>1. PICK l \in {"done", "settled"} : pc' = [pc EXCEPT ![t] = l] /\ (closed <=> l = "done")
  BY <1>0
<1>2. /\ pc'[t] = l /\ \A u \in Threads : u # t => pc'[u] = pc[u]
      /\ local'[t] = [NoLocal EXCEPT !.msg = IF closed THEN 0 ELSE Next_]
      /\ \A u \in Threads : u # t => local'[u] = local[u]
  <2>1. pc'[t] = l /\ \A u \in Threads : u # t => pc'[u] = pc[u]
    BY <1>1, OneMoves
  <2>2. /\ local'[t] = [NoLocal EXCEPT !.msg = IF closed THEN 0 ELSE Next_]
        /\ \A u \in Threads : u # t => local'[u] = local[u]
    BY <1>0 DEF TypeOK
  <2> QED BY <2>1, <2>2
<1>3. local'[t].msg # 0 => l = "settled"
  BY <1>1, <1>2 DEF NoLocal
<1>4. \A u \in Threads : ~Drives(u)'
  BY <1>2 DEF BusyInv, Drives
<1>5. LabelInv'
  BY <1>2, Kinds_ DEF LabelInv
<1>6. DispatchInv'
  BY <1>0, <1>2 DEF DispatchInv, SendLabels, StartLabels
<1>7. BusyInv'
  BY <1>4 DEF BusyInv
<1>8. ScriptInv'
  <2>1. \A g \in Turns : pc'[<<"script", g>>] # "start" => pc[<<"script", g>>] # "start"
    BY <1>2, ScriptTurns
  <2>2. \A u \in Threads : pc'[u] \notin StartLabels
    BY <1>4 DEF Drives, StartLabels
  <2> QED BY <1>0, <2>1, <2>2 DEF ScriptInv
<1>9. OrderInv'
  BY <1>0, <1>4 DEF OrderInv, Drives
<1>10. CarryInv'
  BY <1>2, <1>3 DEF CarryInv
<1>11. BoundInv'
  BY <1>0, <1>2, Kinds_ DEF BoundInv
<1> QED BY <1>5, <1>6, <1>7, <1>8, <1>9, <1>10, <1>11 DEF Control

-----------------------------------------------------------------------------
(* The places of the messages, and the steps of the contract.  A step keeps  *)
(* every accepted message in one place, and is one of the contract, or none. *)

Abstract == <<run, Driving, closed, Waiting, Delivered, lost>>
AbstractNext == [Contract!Next]_(Contract!chatVars)

LEMMA WaitingIs ==
  /\ Waiting = Range(queue["steer"]) \cup Range(queue["followup"]) \cup Carried
  /\ Waiting' = Range(queue'["steer"]) \cup Range(queue'["followup"]) \cup Carried'
BY DEF Waiting, Carried

LEMMA QueueTypes ==
  ASSUME TypeOK
  PROVE  queue["steer"] \in Seq(Nat \ {0}) /\ queue["followup"] \in Seq(Nat \ {0})
BY DEF TypeOK, Queues

LEMMA Stutters ==
  ASSUME UNCHANGED Abstract
  PROVE  AbstractNext
BY DEF AbstractNext, Abstract, Contract!chatVars, Delivered

LEMMA AbstractSteps ==
  ASSUME Contract!Begin \/ Contract!Stop \/ Contract!Settle \/ Contract!Leave \/ Contract!Close
         \/ Contract!Drop \/ (\E m \in 1..MaxSends : Contract!Accept(m))
         \/ (\E S \in SUBSET (1..MaxSends) : Contract!Deliver(S))
  PROVE  AbstractNext
BY DEF AbstractNext, Contract!Next

\* What the script and Compact store is not a message.
LEMMA ItemStored ==
  ASSUME TypeOK, items' = Append(items, 0)
  PROVE  Delivered' = Delivered
BY RangeAppend DEF TypeOK, Delivered

\* No message moves.
LEMMA PlacesSame ==
  ASSUME PlaceInv, UNCHANGED <<queue, lost, sent>>, Delivered' = Delivered,
         \A u \in Scripts : local'[u].msg = local[u].msg
  PROVE  PlaceInv' /\ Waiting' = Waiting
<1>1. Carried' = Carried
  BY DEF Carried
<1>2. Waiting' = Waiting
  BY <1>1, WaitingIs
<1>3. \A t, u \in Scripts : local'[t].msg # 0 /\ local'[t].msg = local'[u].msg => t = u
  BY DEF PlaceInv
<1>4. IsInjective(queue'["followup"])
  BY DEF PlaceInv
<1> QED BY <1>1, <1>2, <1>3, <1>4 DEF PlaceInv

\* One goroutine gives up the message it carries, and may get another one.
LEMMA CarriedMoves ==
  ASSUME TypeOK, PlaceInv, CarryInv, CarryInv', NEW t \in Threads,
         \A u \in Threads : u # t => local'[u] = local[u]
  PROVE  Carried' = (Carried \ {local[t].msg}) \cup ({local'[t].msg} \ {0})
<1>. \A u \in Scripts : u \in Threads
  BY Kinds_
<1>1. CASE t \in Scripts
  <2>1. \A u \in Scripts : u # t /\ local[u].msg # 0 => local[u].msg # local[t].msg
    BY <1>1 DEF PlaceInv
  <2>2. \A u \in Scripts : u # t => local'[u].msg = local[u].msg
    OBVIOUS
  <2>3. Carried' = {local'[u].msg : u \in Scripts} \ {0}
    BY DEF Carried
  <2>4. ASSUME NEW m \in Carried, m # local[t].msg PROVE m \in Carried'
    <3>1. PICK u \in Scripts : m = local[u].msg /\ m # 0
      BY DEF Carried
    <3> QED BY <2>2, <2>3, <2>4, <3>1
  <2>5. ASSUME NEW m \in Carried' PROVE m = local'[t].msg \/ (m \in Carried /\ m # local[t].msg)
    <3>1. PICK u \in Scripts : m = local'[u].msg /\ m # 0
      BY <2>3
    <3> QED BY <2>1, <2>2, <3>1 DEF Carried
  <2>6. local'[t].msg # 0 => local'[t].msg \in Carried'
    BY <1>1, <2>3
  <2>7. 0 \notin Carried'
    BY <2>3
  <2> QED BY <2>4, <2>5, <2>6, <2>7
<1>2. CASE t \notin Scripts
  <2>1. local[t].msg = 0 /\ local'[t].msg = 0
    BY <1>2 DEF CarryInv
  <2>2. \A u \in Scripts : local'[u].msg = local[u].msg
    BY <1>2
  <2> QED BY <2>1, <2>2 DEF Carried
<1> QED BY <1>1, <1>2

LEMMA CarriedAlone ==
  ASSUME PlaceInv, CarryInv', NEW t \in Threads,
         \A u \in Threads : u # t => local'[u] = local[u],
         local'[t].msg \notin Carried
  PROVE  \A v, u \in Scripts : local'[v].msg # 0 /\ local'[v].msg = local'[u].msg => v = u
<1>. \A u \in Scripts : u \in Threads
  BY Kinds_
<1>1. \A u \in Scripts : u # t => local'[u] = local[u] /\ (local[u].msg # 0 => local[u].msg \in Carried)
  BY DEF Carried
<1> QED BY <1>1 DEF PlaceInv

-----------------------------------------------------------------------------
(* Who drives the session. *)

LEMMA DrivesSame ==
  ASSUME \A u \in Threads : Drives(u)' <=> Drives(u)
  PROVE  Driving' = Driving
BY Zenon DEF Driving

LEMMA OneDrives ==
  ASSUME NEW t \in Threads, \A u \in Threads : u # t => pc'[u] = pc[u],
         Drives(t)' <=> Drives(t)
  PROVE  Driving' = Driving
<1>1. \A u \in Threads : Drives(u)' <=> Drives(u)
  <2> TAKE u \in Threads
  <2>1. CASE u = t
    BY <2>1
  <2>2. CASE u # t
    BY <2>2 DEF Drives
  <2> QED BY <2>1, <2>2
<1> QED BY <1>1, DrivesSame

\* A step that moves no message, and after which the session is driven as before.
LEMMA Unseen ==
  ASSUME PlaceInv, UNCHANGED <<run, closed, queue, lost, sent>>, Delivered' = Delivered,
         \A u \in Scripts : local'[u].msg = local[u].msg, Driving' = Driving
  PROVE  PlaceInv' /\ AbstractNext
BY PlacesSame, Stutters DEF Abstract

\* A step of one goroutine that moves no message and is seen by nobody.
LEMMA QuietStep ==
  ASSUME IInv, NEW t \in Threads, NEW l, pc' = [pc EXCEPT ![t] = l],
         UNCHANGED <<run, closed, queue, lost, sent, items>>,
         \A u \in Threads : local'[u].msg = local[u].msg,
         l \in {"add", "message", "meta", "status", "launch", "script", "settle"} <=> Drives(t)
  PROVE  PlaceInv' /\ AbstractNext
<1>. TypeOK /\ PlaceInv /\ \A u \in Scripts : u \in Threads
  BY Kinds_ DEF IInv
<1>1. pc'[t] = l /\ \A u \in Threads : u # t => pc'[u] = pc[u]
  BY OneMoves
<1>2. Drives(t)' <=> Drives(t)
  BY <1>1 DEF Drives
<1>3. Driving' = Driving
  BY <1>1, <1>2, OneDrives
<1>4. Delivered' = Delivered
  BY DEF Delivered
<1> QED BY <1>3, <1>4, Unseen

-----------------------------------------------------------------------------
(* The steps that move no message. *)

LEMMA TellStep ==
  ASSUME IInv, NEW t \in Send_ \cup Scripts, Tell(t)
  PROVE  PlaceInv' /\ AbstractNext
<1>. TypeOK /\ CarryInv /\ t \in Threads
  BY Kinds_ DEF IInv
<1>1. /\ pc[t] = "tell" /\ pc' = [pc EXCEPT ![t] = Rest(t)] /\ local' = [local EXCEPT ![t] = NoLocal]
      /\ UNCHANGED <<run, closed, queue, lost, sent, items>>
  BY DEF Tell, Goto, lockVars, storeVars
<1>2. local[t].msg = 0 /\ NoLocal.msg = 0
  BY <1>1 DEF CarryInv, NoLocal
<1>3. \A u \in Threads : local'[u].msg = local[u].msg
  BY <1>1, <1>2, OneChanges
<1>4. Rest(t) \in {"start", "done"} /\ ~Drives(t)
  BY <1>1, RestLabel DEF Drives
<1> QED BY <1>1, <1>3, <1>4, QuietStep

LEMMA BeginningStep ==
  ASSUME IInv, NEW t \in Send_ \cup Scripts, EmitMessage(t) \/ EmitMeta(t) \/ Announce(t)
  PROVE  PlaceInv' /\ AbstractNext
<1>. t \in Threads
  BY Kinds_
<1>1. PICK l \in {"meta", "status", "launch"} :
        /\ pc[t] \in {"message", "meta", "status"} /\ pc' = [pc EXCEPT ![t] = l]
        /\ UNCHANGED <<local, run, closed, queue, lost, sent, items>>
  BY DEF EmitMessage, EmitMeta, Announce, Goto, lockVars, storeVars
<1>2. Drives(t)
  BY <1>1 DEF Drives
<1> QED BY <1>1, <1>2, QuietStep

LEMMA LaunchStep ==
  ASSUME IInv, NEW t \in Send_ \cup Scripts, Launch(t)
  PROVE  PlaceInv' /\ AbstractNext
<1>. TypeOK /\ PlaceInv /\ CarryInv /\ t \in Threads /\ \A u \in Scripts : u \in Threads
  BY Kinds_ DEF IInv
<1>1. PICK s \in Scripts, kind \in Kinds :
           /\ s = <<"script", gen>> /\ gen \in Turns /\ s # t /\ t \in Threads /\ s \in Threads
           /\ pc[t] = "launch" /\ pc[s] = "start" /\ dispatch' = <<>>
           /\ pc'[t] = Rest(t) /\ pc'[s] = "script"
           /\ local'[t] = NoLocal
           /\ local'[s] = [NoLocal EXCEPT !.turn = gen, !.pos = 1, !.kind = kind]
           /\ \A u \in Threads : u # t /\ u # s => pc'[u] = pc[u] /\ local'[u] = local[u]
           /\ UNCHANGED <<run, gen, sent, shownAt>>
  BY LaunchDoes
<1>2. UNCHANGED <<run, closed, queue, lost, sent, items>>
  BY DEF Launch, lockVars, storeVars
<1>3. local[t].msg = 0 /\ local[s].msg = 0 /\ local'[t].msg = 0 /\ local'[s].msg = 0
  BY <1>1 DEF CarryInv, NoLocal
<1>4. \A u \in Scripts : local'[u].msg = local[u].msg
  BY <1>1, <1>3
<1>5. Drives(t) /\ Drives(s)'
  BY <1>1 DEF Drives
<1>6. Driving /\ Driving'
  BY <1>1, <1>5, Zenon DEF Driving
<1>7. Delivered' = Delivered /\ Driving' = Driving
  BY <1>2, <1>6 DEF Delivered
<1> QED BY <1>2, <1>4, <1>7, Unseen

LEMMA PlayStep ==
  ASSUME IInv, NEW t \in Scripts, Play(t)
  PROVE  PlaceInv' /\ AbstractNext
<1>. TypeOK /\ PlaceInv /\ t \in Threads /\ \A u \in Scripts : u \in Threads
  BY Kinds_ DEF IInv
<1>1. PICK l \in {"settle", "script"} : pc' = [pc EXCEPT ![t] = l]
  BY DEF Play, Goto
<1>2. /\ pc[t] = "script" /\ UNCHANGED <<run, closed, queue, lost, sent>>
      /\ items' = Append(items, 0) \/ items' = items
  BY DEF Play, lockVars
<1>3. Delivered' = Delivered
  <2>1. CASE items' = Append(items, 0)
    BY <2>1, ItemStored
  <2>2. CASE items' = items
    BY <2>2 DEF Delivered
  <2> QED BY <1>2, <2>1, <2>2
<1>4. \A u \in Scripts : local'[u].msg = local[u].msg
  <2>1. PICK n : local' = [local EXCEPT ![t].pos = n]
    BY DEF Play
  <2> QED BY <2>1 DEF TypeOK, Local
<1>5. pc'[t] = l /\ \A u \in Threads : u # t => pc'[u] = pc[u]
  BY <1>1, OneMoves
<1>6. Drives(t)' /\ Drives(t)
  BY <1>2, <1>5 DEF Drives
<1>7. Driving' = Driving
  BY <1>5, <1>6, OneDrives
<1> QED BY <1>2, <1>3, <1>4, <1>7, Unseen

LEMMA EmitIdleStep ==
  ASSUME IInv, NEW t \in Scripts, EmitIdle(t)
  PROVE  PlaceInv' /\ AbstractNext
<1>. t \in Threads
  BY Kinds_
<1>1. PICK l \in {"done", "resend"} :
        /\ pc[t] = "settled" /\ pc' = [pc EXCEPT ![t] = l]
        /\ UNCHANGED <<local, run, closed, queue, lost, sent, items>>
  BY DEF EmitIdle, Goto, lockVars, storeVars
<1>2. ~Drives(t)
  BY <1>1 DEF Drives
<1> QED BY <1>1, <1>2, QuietStep

LEMMA CloseStep ==
  ASSUME IInv, NEW t \in Abort_ \cup Close_, Close(t)
  PROVE  PlaceInv' /\ AbstractNext
<1>. TypeOK /\ PlaceInv /\ t \in Threads
  BY Kinds_ DEF IInv
<1>1. /\ pc[t] = "close" /\ pc' = [pc EXCEPT ![t] = "done"] /\ closed' = TRUE
      /\ UNCHANGED <<run, local, queue, lost, sent, items>>
  BY DEF Close, Goto, storeVars
<1>2. pc'[t] = "done" /\ \A u \in Threads : u # t => pc'[u] = pc[u]
  BY <1>1, OneMoves
<1>3. Drives(t)' <=> Drives(t)
  BY <1>1, <1>2 DEF Drives
<1>4. Driving' = Driving
  BY <1>2, <1>3, OneDrives
<1>5. Delivered' = Delivered
  BY <1>1 DEF Delivered
<1>6. PlaceInv' /\ Waiting' = Waiting
  BY <1>1, <1>5, PlacesSame
<1>7. CASE closed
  <2>1. UNCHANGED Abstract
    BY <1>1, <1>4, <1>5, <1>6, <1>7 DEF Abstract
  <2> QED BY <1>6, <2>1, Stutters
<1>8. CASE ~closed
  <2>1. Contract!Close
    BY <1>1, <1>4, <1>5, <1>6, <1>8 DEF Contract!Close, Delivered
  <2> QED BY <1>6, <2>1, AbstractSteps
<1> QED BY <1>7, <1>8

LEMMA StoppingStep ==
  ASSUME IInv, NEW t \in Abort_ \cup Close_, Stopping(t)
  PROVE  PlaceInv' /\ AbstractNext
<1>. TypeOK /\ CarryInv /\ t \in Threads /\ t \notin Scripts
  BY Kinds_ DEF IInv
<1>1. CASE EmitStop(t)
  <2>1. /\ pc[t] = "stop" /\ pc' = [pc EXCEPT ![t] = "cancel"]
        /\ UNCHANGED <<local, run, closed, queue, lost, sent, items>>
    BY <1>1 DEF EmitStop, Goto, lockVars, storeVars
  <2>2. ~Drives(t)
    BY <2>1 DEF Drives
  <2> QED BY <2>1, <2>2, QuietStep
<1>2. CASE Cancel(t)
  <2>1. PICK l \in {"close", "done"} :
          /\ pc[t] = "cancel" /\ pc' = [pc EXCEPT ![t] = l] /\ local' = [local EXCEPT ![t] = NoLocal]
          /\ UNCHANGED <<run, closed, queue, lost, sent, items>>
    BY <1>2 DEF Cancel, Goto, lockVars, storeVars
  <2>2. local[t].msg = 0 /\ NoLocal.msg = 0
    BY DEF CarryInv, NoLocal
  <2>3. \A u \in Threads : local'[u].msg = local[u].msg
    BY <2>1, <2>2, OneChanges
  <2>4. ~Drives(t)
    BY <2>1 DEF Drives
  <2> QED BY <2>1, <2>3, <2>4, QuietStep
<1>3. CASE Close(t)
  BY <1>3, CloseStep
<1> QED BY <1>1, <1>2, <1>3 DEF Stopping

LEMMA ConfigStep ==
  ASSUME IInv, NEW t \in Config_, CheckIdle(t) \/ Configure(t) \/ Notify(t)
  PROVE  PlaceInv' /\ AbstractNext
<1>. TypeOK /\ PlaceInv /\ t \in Threads
  BY Kinds_ DEF IInv
<1>1. PICK l \in {"write", "notify", "done"} :
        /\ pc[t] \in {"start", "write", "notify"} /\ pc' = [pc EXCEPT ![t] = l]
        /\ UNCHANGED <<local, run, closed, queue, lost, sent>>
  BY DEF CheckIdle, Configure, Notify, Goto, lockVars, storeVars
<1>2. items' = Append(items, 0) \/ items' = items
  BY DEF CheckIdle, Configure, Notify, storeVars
<1>3. Delivered' = Delivered
  <2>1. CASE items' = Append(items, 0)
    BY <2>1, ItemStored
  <2>2. CASE items' = items
    BY <2>2 DEF Delivered
  <2> QED BY <1>2, <2>1, <2>2
<1>4. pc'[t] = l /\ \A u \in Threads : u # t => pc'[u] = pc[u]
  BY <1>1, OneMoves
<1>5. Drives(t)' <=> Drives(t)
  BY <1>1, <1>4 DEF Drives
<1>6. Driving' = Driving
  BY <1>4, <1>5, OneDrives
<1> QED BY <1>1, <1>3, <1>6, Unseen

LEMMA IdleStep ==
  ASSUME IInv, UNCHANGED <<lockVars, storeVars, pc, local>>
  PROVE  PlaceInv' /\ AbstractNext
<1>1. UNCHANGED <<run, closed, queue, lost, sent>> /\ Delivered' = Delivered
  BY DEF lockVars, storeVars, Delivered
<1>2. \A u \in Scripts : local'[u].msg = local[u].msg
  OBVIOUS
<1>3. Driving' = Driving
  BY DrivesSame DEF Drives
<1> QED BY <1>1, <1>2, <1>3, Unseen DEF IInv

-----------------------------------------------------------------------------
(* The steps that move a message, or begin or end a turn. *)

LEMMA RefuseStep ==
  ASSUME IInv, CarryInv', NEW t \in Send_ \cup Scripts, pc[t] \in {"start", "resend"}, Refuse(t)
  PROVE  PlaceInv' /\ AbstractNext
<1>. TypeOK /\ PlaceInv /\ CarryInv /\ t \in Threads
  BY Kinds_ DEF IInv
<1> DEFINE m == local[t].msg
<1>1. /\ pc' = [pc EXCEPT ![t] = Rest(t)] /\ local' = [local EXCEPT ![t] = NoLocal]
      /\ UNCHANGED <<run, closed, queue, items, sent>> /\ lost' = lost \cup ({m} \ {0})
  BY DEF Refuse, Goto, lockVars
<1>2. /\ pc'[t] = Rest(t) /\ \A u \in Threads : u # t => pc'[u] = pc[u]
  BY <1>1, OneMoves
<1>3. local'[t] = NoLocal /\ \A u \in Threads : u # t => local'[u] = local[u]
  BY <1>1, OneChanges
<1>4. Driving' = Driving
  <2>1. ~Drives(t) /\ ~Drives(t)'
    BY <1>2, RestLabel DEF Drives
  <2> QED BY <1>2, <2>1, OneDrives
<1>5. local'[t].msg = 0 /\ Delivered' = Delivered
  BY <1>1, <1>3 DEF NoLocal, Delivered
<1>6. Carried' = Carried \ {m}
  BY <1>3, <1>5, CarriedMoves
<1>7. CASE m = 0
  <2>1. \A u \in Scripts : local'[u].msg = local[u].msg
    BY <1>3, <1>5, <1>7, Kinds_
  <2> QED BY <1>1, <1>4, <1>5, <1>7, <2>1, Unseen
<1>8. CASE m # 0
  <2>1. t \in Scripts /\ m \in Carried
    BY <1>8 DEF CarryInv, Carried
  <2>2. lost' = lost \cup {m}
    BY <1>1, <1>8
  <2>3. 0 \notin Carried
    BY DEF Carried
  <2>4. \A v, u \in Scripts : local'[v].msg # 0 /\ local'[v].msg = local'[u].msg => v = u
    BY <1>3, <1>5, <2>3, CarriedAlone
  <2> HIDE DEF m
  <2>5. IsInjective(queue'["followup"])
    BY <1>1 DEF PlaceInv
  <2>6. PlaceInv'
    BY <1>1, <1>5, <1>6, <2>1, <2>2, <2>4, <2>5 DEF PlaceInv
  <2>7. Waiting' = Waiting \ {m} /\ m \in Waiting
    BY <1>1, <1>6, <2>1, WaitingIs DEF PlaceInv
  <2>8. Contract!Drop
    BY <1>1, <1>4, <1>5, <2>2, <2>7 DEF Contract!Drop, Contract!Dropping, Delivered
  <2> QED BY <2>6, <2>8, AbstractSteps
<1> QED BY <1>7, <1>8

LEMMA QueueStep ==
  ASSUME IInv, CarryInv', BoundInv', NEW t \in Send_ \cup Scripts, NEW mode \in Queues \cup {"normal"},
         pc[t] \in {"start", "resend"}, Queue(t, mode)
  PROVE  PlaceInv' /\ AbstractNext
<1>. TypeOK /\ PlaceInv /\ CarryInv /\ t \in Threads
  BY Kinds_ DEF IInv
<1> DEFINE m == local[t].msg
           n == Number(t)
           q == Effective(mode)
<1>1. /\ pc' = [pc EXCEPT ![t] = "tell"] /\ local' = [local EXCEPT ![t] = NoLocal]
      /\ queue' = [queue EXCEPT ![q] = Append(@, n)] /\ UNCHANGED <<run, closed, items, lost>>
      /\ sent' = IF m = 0 THEN sent + 1 ELSE sent
  BY DEF Queue, Goto, Counted
<1>2. pc'[t] = "tell" /\ \A u \in Threads : u # t => pc'[u] = pc[u]
  BY <1>1, OneMoves
<1>3. local'[t] = NoLocal /\ \A u \in Threads : u # t => local'[u] = local[u]
  BY <1>1, OneChanges
<1>4. Driving' = Driving
  <2>1. ~Drives(t) /\ ~Drives(t)'
    BY <1>2 DEF Drives
  <2> QED BY <1>2, <2>1, OneDrives
<1>5. local'[t].msg = 0 /\ Delivered' = Delivered
  BY <1>1, <1>3 DEF NoLocal, Delivered
<1>6. Carried' = Carried \ {m}
  BY <1>3, <1>5, CarriedMoves
<1>7. q \in Queues /\ n \in Nat \ {0} /\ sent \in Nat
  <2>1. q \in Queues
    BY DEF Queue, Effective, Queues
  <2> QED BY <2>1, NumberType, TypeParts DEF StoreType
<1>8. \/ m = 0 /\ n = sent + 1 /\ sent' = sent + 1
      \/ m # 0 /\ n = m /\ m \in Carried /\ sent' = sent
  BY <1>1 DEF Number, CarryInv, Carried
<1> HIDE DEF m, n, q
<1>9. n \notin Range(queue["steer"]) \cup Range(queue["followup"]) \cup Delivered \cup lost
  BY <1>7, <1>8 DEF PlaceInv
<1>10. n \in 1..sent' /\ 1..sent \subseteq 1..sent'
  BY <1>7, <1>8 DEF PlaceInv
<1>11. /\ Range(queue'["steer"]) \cup Range(queue'["followup"])
            = Range(queue["steer"]) \cup Range(queue["followup"]) \cup {n}
       /\ Range(queue'["steer"]) \cap Range(queue'["followup"]) = {}
       /\ IsInjective(queue'["followup"])
  <2>0. queue["steer"] \in Seq(Nat \ {0}) /\ queue["followup"] \in Seq(Nat \ {0})
    BY QueueTypes
  <2>1. CASE q = "steer"
    <3>1. queue'["steer"] = Append(queue["steer"], n) /\ queue'["followup"] = queue["followup"]
      BY <1>1, <2>1 DEF TypeOK, Queues
    <3>2. Range(queue'["steer"]) = Range(queue["steer"]) \cup {n}
      <4>1. n \in Nat \ {0} /\ queue["steer"] \in Seq(Nat \ {0})
        BY <1>7, <2>0
      <4>2. Range(Append(queue["steer"], n)) = Range(queue["steer"]) \cup {n}
        BY <4>1, RangeAppend
      <4> QED BY <3>1, <4>2
    <3> QED BY <1>9, <3>1, <3>2 DEF PlaceInv
  <2>2. CASE q = "followup"
    <3>1. queue'["followup"] = Append(queue["followup"], n) /\ queue'["steer"] = queue["steer"]
      BY <1>1, <2>2 DEF TypeOK, Queues
    <3>2. IsInjective(queue["followup"]) /\ n \notin Range(queue["followup"])
      BY <1>9 DEF PlaceInv
    <3>3. /\ Range(Append(queue["followup"], n)) = Range(queue["followup"]) \cup {n}
          /\ IsInjective(Append(queue["followup"], n))
      <4>1. n \in Nat \ {0} /\ queue["followup"] \in Seq(Nat \ {0})
        BY <1>7, <2>0
      <4>2. Range(Append(queue["followup"], n)) = Range(queue["followup"]) \cup {n}
        BY <4>1, RangeAppend
      <4>3. IsInjective(Append(queue["followup"], n))
        BY <3>2, <4>1, InjectiveAppend
      <4> QED BY <4>2, <4>3
    <3> QED BY <1>9, <3>1, <3>3 DEF PlaceInv
  <2> QED BY <1>7, <2>1, <2>2 DEF Queues
<1>12. \A v, u \in Scripts : local'[v].msg # 0 /\ local'[v].msg = local'[u].msg => v = u
  BY <1>3, <1>5, CarriedAlone DEF Carried
<1>13. n \notin Carried'
  <2>1. CASE m = 0 /\ n = sent + 1
    <3>1. n \notin Carried
      BY <1>7, <2>1 DEF PlaceInv
    <3> QED BY <1>6, <3>1
  <2>2. CASE n = m
    BY <1>6, <2>2
  <2> QED BY <1>8, <2>1, <2>2
<1>14. PlaceInv'
  <2>1. /\ Range(queue'["steer"]) \subseteq 1..sent' /\ Range(queue'["followup"]) \subseteq 1..sent'
        /\ Carried' \subseteq 1..sent' /\ Delivered' \subseteq 1..sent' /\ lost' \subseteq 1..sent'
    BY <1>1, <1>5, <1>6, <1>10, <1>11 DEF PlaceInv
  <2>2. (Range(queue'["steer"]) \cup Range(queue'["followup"])) \cap (Carried' \cup Delivered' \cup lost') = {}
    BY <1>1, <1>5, <1>6, <1>9, <1>11, <1>13 DEF PlaceInv
  <2>3. Carried' \cap (Delivered' \cup lost') = {} /\ Delivered' \cap lost' = {}
    BY <1>1, <1>5, <1>6 DEF PlaceInv
  <2> QED BY <1>11, <1>12, <2>1, <2>2, <2>3 DEF PlaceInv
<1>15. Waiting' = Waiting \cup {n}
  <2>1. CASE m = 0
    <3>1. Carried' = Carried
      BY <1>6, <2>1 DEF Carried
    <3> QED BY <1>11, <3>1, WaitingIs
  <2>2. CASE n = m
    BY <1>6, <1>11, <2>2, WaitingIs
  <2> QED BY <1>8, <2>1, <2>2
<1>16. CASE m = 0 /\ n = sent + 1 /\ sent' = sent + 1
  <2>1. n \notin Waiting
    BY <1>7, <1>16, WaitingIs DEF PlaceInv
  <2>2. n \in 1..MaxSends
    BY <1>7, <1>16, FakeAssumption DEF BoundInv
  <2>3. Contract!Accept(n)
    BY <1>1, <1>4, <1>5, <1>9, <1>15, <2>1 DEF Contract!Accept, Delivered
  <2> QED BY <1>14, <2>2, <2>3, AbstractSteps
<1>17. CASE n = m /\ m \in Carried
  <2>1. Waiting' = Waiting
    BY <1>15, <1>17, WaitingIs
  <2>2. UNCHANGED Abstract
    BY <1>1, <1>4, <1>5, <2>1 DEF Abstract
  <2> QED BY <1>14, <2>2, Stutters
<1> QED BY <1>8, <1>16, <1>17

LEMMA StartTurnStep ==
  ASSUME IInv, NEW t \in Send_ \cup Scripts, StartTurn(t)
  PROVE  PlaceInv' /\ AbstractNext
<1>. TypeOK /\ PlaceInv /\ BusyInv /\ t \in Threads
  BY Kinds_ DEF IInv
<1>1. /\ pc' = [pc EXCEPT ![t] = "add"] /\ local' = [local EXCEPT ![t].turn = gen + 1]
      /\ UNCHANGED <<closed, queue, items, lost, sent>> /\ run = "idle" /\ run' = "running"
  BY DEF StartTurn, Goto, storeVars
<1>2. pc'[t] = "add"
  BY <1>1, OneMoves
<1>3. \A u \in Scripts : local'[u].msg = local[u].msg
  BY <1>1, Kinds_ DEF TypeOK, Local
<1>4. ~Driving
  BY <1>1, NobodyDrives, Zenon DEF Driving
<1>5. Driving'
  BY <1>2 DEF Driving, Drives
<1>6. Delivered' = Delivered
  BY <1>1 DEF Delivered
<1>7. PlaceInv' /\ Waiting' = Waiting
  BY <1>1, <1>3, <1>6, PlacesSame
<1>8. Contract!Begin
  <2>1. Driving' = TRUE
    BY <1>5, Zenon DEF Driving
  <2> QED BY <1>1, <1>4, <1>6, <1>7, <2>1 DEF Contract!Begin, Delivered
<1> QED BY <1>7, <1>8, AbstractSteps

LEMMA AddItemStep ==
  ASSUME IInv, CarryInv', BoundInv', NEW t \in Send_ \cup Scripts, AddItem(t)
  PROVE  PlaceInv' /\ AbstractNext
<1>. TypeOK /\ PlaceInv /\ CarryInv /\ BoundInv /\ t \in Threads
  BY Kinds_ DEF IInv
<1> DEFINE m == local[t].msg
           n == Number(t)
<1>1. /\ pc[t] = "add" /\ pc' = [pc EXCEPT ![t] = "message"] /\ local' = [local EXCEPT ![t].msg = 0]
      /\ items' = Append(items, n) /\ UNCHANGED <<run, closed, queue, lost>>
      /\ sent' = IF m = 0 THEN sent + 1 ELSE sent
  BY DEF AddItem, Goto, Counted, lockVars
<1>2. pc'[t] = "message" /\ \A u \in Threads : u # t => pc'[u] = pc[u]
  BY <1>1, OneMoves
<1>3. local'[t].msg = 0 /\ \A u \in Threads : u # t => local'[u] = local[u]
  BY <1>1 DEF TypeOK, Local
<1>4. Drives(t) /\ Drives(t)'
  BY <1>1, <1>2 DEF Drives
<1>5. Driving' = Driving
  BY <1>2, <1>4, OneDrives
<1>6. Driving = TRUE
  BY <1>4, Zenon DEF Driving
<1>7. Carried' = Carried \ {m}
  BY <1>3, CarriedMoves
<1>8. n \in Nat \ {0} /\ sent \in Nat /\ items \in Seq(Nat)
  BY NumberType, TypeParts DEF StoreType
<1>9. \/ m = 0 /\ n = sent + 1 /\ sent' = sent + 1
      \/ m # 0 /\ n = m /\ m \in Carried /\ sent' = sent
  BY <1>1 DEF Number, CarryInv, Carried
<1> HIDE DEF m, n
<1>10. Delivered' = Delivered \cup {n}
  <2>1. Range(items') = Range(items) \cup {n}
    BY SMTT(40), <1>1, <1>8, RangeAppend
  <2> QED BY <1>8, <2>1 DEF Delivered
<1>11. n \notin Range(queue["steer"]) \cup Range(queue["followup"]) \cup Delivered \cup lost
  BY <1>8, <1>9 DEF PlaceInv
<1>12. n \in 1..sent' /\ 1..sent \subseteq 1..sent'
  BY <1>8, <1>9 DEF PlaceInv
<1>13. n \notin Carried' /\ Carried' = Carried \ {n}
  <2>1. CASE m = 0 /\ n = sent + 1
    <3>1. n \notin Carried /\ 0 \notin Carried
      BY <1>8, <2>1 DEF PlaceInv
    <3> QED BY <1>7, <2>1, <3>1
  <2>2. CASE n = m
    BY <1>7, <2>2
  <2> QED BY <1>9, <2>1, <2>2
<1>14. \A v, u \in Scripts : local'[v].msg # 0 /\ local'[v].msg = local'[u].msg => v = u
  BY <1>3, CarriedAlone DEF Carried
<1>15. PlaceInv'
  <2>1. /\ Range(queue'["steer"]) \subseteq 1..sent' /\ Range(queue'["followup"]) \subseteq 1..sent'
        /\ Carried' \subseteq 1..sent' /\ Delivered' \subseteq 1..sent' /\ lost' \subseteq 1..sent'
    BY <1>1, <1>10, <1>12, <1>13 DEF PlaceInv
  <2>2. /\ Range(queue'["steer"]) \cap Range(queue'["followup"]) = {}
        /\ (Range(queue'["steer"]) \cup Range(queue'["followup"])) \cap (Carried' \cup Delivered' \cup lost') = {}
    BY <1>1, <1>10, <1>11, <1>13 DEF PlaceInv
  <2>3. Carried' \cap (Delivered' \cup lost') = {} /\ Delivered' \cap lost' = {}
    BY <1>1, <1>10, <1>11, <1>13 DEF PlaceInv
  <2>4. IsInjective(queue'["followup"])
    BY <1>1 DEF PlaceInv
  <2> QED BY <1>14, <2>1, <2>2, <2>3, <2>4 DEF PlaceInv
<1>16. Waiting' = Waiting \ {n}
  BY <1>1, <1>11, <1>13, WaitingIs
<1>17. n \in 1..MaxSends
  BY <1>12, <1>8, <1>9, FakeAssumption DEF BoundInv
<1>18. Contract!Deliver({n})
  BY <1>1, <1>5, <1>6, <1>10, <1>11, <1>16 DEF Contract!Deliver, Delivered
<1> QED BY <1>15, <1>17, <1>18, AbstractSteps

\* The first of the follow-ups is handed on, in the queue are those behind it.
LEMMA HandedOn ==
  ASSUME TypeOK, PlaceInv
  PROVE  /\ Range(queue["followup"]) = Range(Rest_) \cup ({Next_} \ {0})
         /\ Next_ \notin Range(Rest_) /\ IsInjective(Rest_) /\ 0 \notin Range(queue["followup"])
<1> DEFINE follow == queue["followup"]
<1>1. follow \in Seq(Nat \ {0}) /\ IsInjective(follow)
  BY QueueTypes DEF PlaceInv
<1>2. 0 \notin Range(follow)
  BY <1>1, RangeType
<1>3. CASE follow = <<>>
  BY <1>1, <1>3, RangeEmpty DEF Next_, Rest_
<1>4. CASE follow # <<>>
  <2>1. Next_ = Head(follow) /\ Rest_ = Tail(follow)
    BY <1>4 DEF Next_, Rest_
  <2>2. Range(follow) = {Head(follow)} \cup Range(Tail(follow))
    BY <1>1, <1>4, RangeTail
  <2>3. IsInjective(Tail(follow)) /\ Head(follow) \notin Range(Tail(follow))
    BY <1>1, <1>4, InjectiveTail
  <2> QED BY <1>2, <2>1, <2>2, <2>3
<1> QED BY <1>3, <1>4

LEMMA SettleStep ==
  ASSUME IInv, CarryInv', NEW t \in Scripts, Settle(t)
  PROVE  PlaceInv' /\ AbstractNext
<1>. /\ TypeOK /\ PlaceInv /\ CarryInv /\ BusyInv /\ t \in Threads /\ pc[t] = "settle"
     /\ Settled(t)
  BY Kinds_, NeverStale DEF IInv, Settle
<1> DEFINE m == local'[t].msg
           S == Range(queue["steer"])
           F == Range(queue["followup"])
           R == Range(Rest_)
           D == IF closed THEN {Next_} \ {0} ELSE {}
<1>1. /\ queue' = [queue EXCEPT !["steer"] = <<>>, !["followup"] = Rest_]
      /\ lost' = lost \cup S \cup D
      /\ local' = [local EXCEPT ![t] = [NoLocal EXCEPT !.msg = IF closed THEN 0 ELSE Next_]]
      /\ pc' = [pc EXCEPT ![t] = IF closed THEN "done" ELSE "settled"]
      /\ UNCHANGED <<closed, items, sent>> /\ run' = "idle"
  BY SettledDoes
<1>2. pc'[t] \in {"done", "settled"} /\ \A u \in Threads : u # t => pc'[u] = pc[u]
  BY <1>1, OneMoves
<1>3. m = (IF closed THEN 0 ELSE Next_) /\ \A u \in Threads : u # t => local'[u] = local[u]
  <2>1. /\ local'[t] = [NoLocal EXCEPT !.msg = IF closed THEN 0 ELSE Next_]
        /\ \A u \in Threads : u # t => local'[u] = local[u]
    BY <1>1 DEF TypeOK
  <2> QED BY <2>1 DEF NoLocal
<1>4. queue'["steer"] = <<>> /\ queue'["followup"] = Rest_
  BY <1>1 DEF TypeOK, Queues
<1>5. local[t].msg = 0 /\ 0 \notin Carried
  BY DEF CarryInv, Carried
<1>6. Carried' = (Carried \ {local[t].msg}) \cup ({m} \ {0})
  BY <1>3, CarriedMoves
<1>7. Carried' = Carried \cup ({m} \ {0}) /\ Delivered' = Delivered
  BY <1>1, <1>5, <1>6 DEF Delivered
<1>8. Drives(t) /\ run # "idle" /\ \A u \in Threads : ~Drives(u)'
  <2>1. Drives(t) /\ ~Drives(t)'
    BY <1>2 DEF Drives
  <2>2. \A u \in Threads : u # t => ~Drives(u)
    BY <2>1 DEF BusyInv
  <2> QED BY <1>2, <2>1, <2>2 DEF BusyInv, Drives
<1>9. Driving = TRUE /\ Driving' = FALSE
  BY <1>8, Zenon DEF Driving
<1>10. F = R \cup ({Next_} \ {0}) /\ Next_ \notin R /\ IsInjective(Rest_)
  BY HandedOn
<1>11. /\ Range(queue'["steer"]) = {} /\ Range(queue'["followup"]) = R
       /\ IsInjective(queue'["followup"])
  BY <1>4, <1>10, RangeEmpty
<1>12. m \notin Carried
  BY <1>3, <1>5, <1>10 DEF PlaceInv
<1>13. \A v, u \in Scripts : local'[v].msg # 0 /\ local'[v].msg = local'[u].msg => v = u
  BY <1>3, <1>12, CarriedAlone
<1> HIDE DEF m, R
<1>14. \/ closed /\ m = 0 /\ D = {Next_} \ {0}
       \/ ~closed /\ m = Next_ /\ D = {}
  BY <1>3
<1> HIDE DEF D
<1>15. PlaceInv'
  <2>1. /\ R \subseteq 1..sent /\ Carried' \subseteq 1..sent /\ lost' \subseteq 1..sent
    BY <1>1, <1>7, <1>10, <1>14 DEF PlaceInv
  <2>2. R \cap (Carried' \cup Delivered \cup lost') = {}
    BY <1>1, <1>7, <1>10, <1>14 DEF PlaceInv
  <2>3. Carried' \cap (Delivered \cup lost') = {} /\ Delivered \cap lost' = {}
    BY <1>1, <1>7, <1>10, <1>14 DEF PlaceInv
  <2> QED BY <1>1, <1>7, <1>11, <1>13, <2>1, <2>2, <2>3 DEF PlaceInv
<1>16. Waiting' = R \cup Carried \cup ({m} \ {0}) /\ Waiting = S \cup F \cup Carried
  BY <1>7, <1>11, WaitingIs
<1>17. Waiting' \subseteq Waiting /\ lost' = lost \cup (Waiting \ Waiting')
  BY <1>1, <1>10, <1>14, <1>16 DEF PlaceInv
<1>18. Contract!Settle
  BY <1>1, <1>7, <1>8, <1>9, <1>17 DEF Contract!Settle, Contract!Dropping, Delivered
<1> QED BY <1>15, <1>18, AbstractSteps

LEMMA AbortStep ==
  ASSUME IInv, NEW t \in Abort_ \cup Close_, Abort(t)
  PROVE  PlaceInv' /\ AbstractNext
<1>. TypeOK /\ PlaceInv /\ t \in Threads /\ t \notin Scripts
  BY Kinds_ DEF IInv
<1>1. /\ pc[t] = "start" /\ pc' = [pc EXCEPT ![t] = "stop"]
      /\ local' = [local EXCEPT ![t].turn = cancel] /\ UNCHANGED <<closed, items, sent>>
  BY DEF Abort, Goto
<1>2. pc'[t] = "stop" /\ \A u \in Threads : u # t => pc'[u] = pc[u]
  BY <1>1, OneMoves
<1>3. \A u \in Scripts : local'[u].msg = local[u].msg
  BY <1>1, Kinds_ DEF TypeOK, Local
<1>4. Driving' = Driving
  <2>1. ~Drives(t) /\ ~Drives(t)'
    BY <1>1, <1>2 DEF Drives
  <2> QED BY <1>2, <2>1, OneDrives
<1>5. Delivered' = Delivered /\ Carried' = Carried
  BY <1>1, <1>3 DEF Delivered, Carried
<1>6. CASE run # "running"
  <2>1. UNCHANGED <<run, queue, lost>>
    BY <1>6 DEF Abort
  <2> QED BY <1>1, <1>3, <1>4, <1>5, <2>1, Unseen
<1>7. CASE run = "running"
  <2>1. /\ run' = "stopping" /\ queue' = [q \in Queues |-> <<>>]
        /\ lost' = lost \cup UNION {Range(queue[q]) : q \in Queues}
    BY <1>7 DEF Abort
  <2>2. lost' = lost \cup Range(queue["steer"]) \cup Range(queue["followup"])
    BY <2>1 DEF Queues
  <2>3. Range(queue'["steer"]) = {} /\ Range(queue'["followup"]) = {}
    BY <2>1, RangeEmpty DEF Queues
  <2>4. IsInjective(queue'["followup"])
    <3>1. queue'["followup"] = <<>>
      BY <2>1 DEF Queues
    <3> QED BY <3>1 DEF IsInjective
  <2>5. \A v, u \in Scripts : local'[v].msg # 0 /\ local'[v].msg = local'[u].msg => v = u
    BY <1>3 DEF PlaceInv
  <2>6. PlaceInv'
    BY <1>1, <1>5, <2>2, <2>3, <2>4, <2>5 DEF PlaceInv
  <2>7. Waiting' = Carried
    BY <1>5, <2>3, WaitingIs
  <2>8. Waiting' \subseteq Waiting /\ lost' = lost \cup (Waiting \ Waiting')
    BY <2>2, <2>7, WaitingIs DEF PlaceInv
  <2>9. Contract!Stop
    BY <1>1, <1>4, <1>5, <1>7, <2>1, <2>8 DEF Contract!Stop, Contract!Dropping, Delivered
  <2> QED BY <2>6, <2>9, AbstractSteps
<1> QED BY <1>6, <1>7

-----------------------------------------------------------------------------
(* The invariant. *)

LEMMA InitInv == Init => IInv /\ Contract!Init
<1> SUFFICES ASSUME Init PROVE IInv /\ Contract!Init
  OBVIOUS
<1>1. \A t \in Threads : pc[t] = "start" /\ local[t] = NoLocal
  BY DEF Init
<1>2. \A t \in Threads : local[t].msg = 0
  BY <1>1 DEF NoLocal
<1>3. TypeOK
  <2>1. local \in [Threads -> Local] /\ pc \in [Threads -> Labels]
    BY LocalTypes DEF Init, Labels
  <2>2. queue \in [Queues -> Seq(Nat \ {0})] /\ shown \in [Queues -> Nat]
    BY DEF Init, NoDepths
  <2>3. events \in 0..EventCapacity /\ shownAt \in Nat \X Nat
    BY FakeAssumption DEF Init
  <2>4. items \in Seq(Nat) /\ lost \subseteq Nat \ {0} /\ cancelled \subseteq Nat
    BY DEF Init
  <2> QED BY <2>1, <2>2, <2>3, <2>4 DEF Init, TypeOK, States
<1>4. LabelInv /\ DispatchInv /\ BusyInv /\ ScriptInv
  BY <1>1, Kinds_, ScriptTurns
     DEF LabelInv, DispatchInv, BusyInv, ScriptInv, SendLabels, StartLabels, Drives
<1>5. OrderInv /\ CarryInv /\ BoundInv
  <2>1. shownAt[1] <= gen
    BY DEF Init
  <2>2. sent <= MaxSends
    BY FakeAssumption DEF Init
  <2> QED BY <1>1, <1>2, <2>1, <2>2, Kinds_ DEF OrderInv, CarryInv, BoundInv
<1>6. /\ queue["steer"] = <<>> /\ queue["followup"] = <<>> /\ items = <<>> /\ lost = {}
  BY DEF Init, Queues
<1>7. Carried = {} /\ Delivered = {}
  BY <1>2, <1>6, RangeEmpty, Kinds_ DEF Carried, Delivered
<1>8. PlaceInv
  <2>1. IsInjective(queue["followup"])
    BY <1>6 DEF IsInjective
  <2>2. \A t \in Scripts : local[t].msg = 0
    BY <1>2, Kinds_
  <2> QED BY <1>6, <1>7, <2>1, <2>2, RangeEmpty DEF PlaceInv
<1>9. Contract!Init
  <2>1. \A u \in Threads : ~Drives(u)
    BY <1>1 DEF Drives
  <2>2. Driving = FALSE
    BY <2>1, Zenon DEF Driving
  <2>3. Waiting = {}
    BY <1>6, <1>7, WaitingIs, RangeEmpty
  <2> QED BY <1>6, <1>7, <2>2, <2>3 DEF Init, Contract!Init, Delivered
<1> QED BY <1>3, <1>4, <1>5, <1>8, <1>9 DEF IInv

\* A request, or a script with a follow-up, that has taken dispatchMu.
LEMMA DispatchInvKept ==
  ASSUME IInv, NEW t \in Send_ \cup Scripts, NEW mode \in Queues \cup {"normal"},
         pc[t] \in {"start", "resend"}, t \in Scripts => pc[t] = "resend",
         t \in Send_ => sent < MaxSends, Dispatch(t, mode)
  PROVE  IInv' /\ AbstractNext
<1>. TypeOK /\ dispatch = <<>>
  BY DEF IInv, Dispatch
<1>1. CASE Refuse(t)
  <2>1. TypeOK' /\ Control'
    BY <1>1, RefuseType, RefuseControl
  <2>2. PlaceInv' /\ AbstractNext
    BY <1>1, <2>1, RefuseStep DEF Control
  <2> QED BY <2>1, <2>2 DEF IInv, Control
<1>2. CASE Queue(t, mode)
  <2>1. TypeOK' /\ Control'
    BY <1>2, QueueType, QueueControl
  <2>2. PlaceInv' /\ AbstractNext
    BY <1>2, <2>1, QueueStep DEF Control
  <2> QED BY <2>1, <2>2 DEF IInv, Control
<1>3. CASE StartTurn(t)
  <2>1. TypeOK' /\ Control'
    BY <1>3, StartTurnType, StartTurnControl
  <2>2. PlaceInv' /\ AbstractNext
    BY <1>3, StartTurnStep
  <2> QED BY <2>1, <2>2 DEF IInv, Control
<1> QED BY <1>1, <1>2, <1>3 DEF Dispatch

LEMMA SendingInv ==
  ASSUME IInv, NEW t \in Send_ \cup Scripts, Sending(t)
  PROVE  IInv' /\ AbstractNext
<1>1. TypeOK'
  BY SendingType DEF IInv
<1>2. Control'
  BY TellControl, AddItemControl, EmitMessageControl, EmitMetaControl, LaunchControl DEF Sending
<1>3. PlaceInv' /\ AbstractNext
  <2>1. CarryInv' /\ BoundInv'
    BY <1>2 DEF Control
  <2> QED BY <2>1, TellStep, AddItemStep, BeginningStep, LaunchStep DEF Sending
<1> QED BY <1>1, <1>2, <1>3 DEF IInv, Control

LEMMA ScriptStep ==
  ASSUME IInv, NEW t \in Scripts, Play(t) \/ Settling(t)
  PROVE  IInv' /\ AbstractNext
<1>. TypeOK
  BY DEF IInv
<1>1. CASE Play(t)
  BY <1>1, PlayType, PlayControl, PlayStep DEF IInv, Control
<1>2. CASE Settle(t)
  <2>1. TypeOK' /\ Control'
    BY <1>2, SettlingType, SettleControl
  <2>2. PlaceInv' /\ AbstractNext
    BY <1>2, <2>1, SettleStep DEF Control
  <2> QED BY <2>1, <2>2 DEF IInv, Control
<1>3. CASE EmitIdle(t)
  BY <1>3, SettlingType, EmitIdleControl, EmitIdleStep DEF IInv, Control
<1>4. CASE Resend(t)
  <2>1. t \notin Send_
    BY Kinds_
  <2> QED BY <1>4, <2>1, DispatchInvKept DEF Resend
<1> QED BY <1>1, <1>2, <1>3, <1>4 DEF Settling

LEMMA NextInv == IInv /\ [Next]_vars => IInv' /\ AbstractNext
<1> SUFFICES ASSUME IInv, [Next]_vars PROVE IInv' /\ AbstractNext
  OBVIOUS
<1>1. ASSUME NEW t \in Send_, NEW mode \in Queues \cup {"normal"}, Send(t, mode)
      PROVE  IInv' /\ AbstractNext
  <2>1. t \notin Scripts
    BY Kinds_
  <2> QED BY <1>1, <2>1, DispatchInvKept DEF Send
<1>2. ASSUME NEW t \in Send_ \cup Scripts, Sending(t) PROVE IInv' /\ AbstractNext
  BY <1>2, SendingInv
<1>3. ASSUME NEW t \in Scripts, Play(t) \/ Settling(t) PROVE IInv' /\ AbstractNext
  BY <1>3, ScriptStep
<1>4. ASSUME NEW t \in Abort_ \cup Close_, Abort(t) \/ Stopping(t) PROVE IInv' /\ AbstractNext
  BY <1>4, StoppingType, StoppingControl, AbortStep, StoppingStep DEF IInv, Control
<1>5. ASSUME NEW t \in Config_, CheckIdle(t) \/ Configure(t) \/ Notify(t)
      PROVE  IInv' /\ AbstractNext
  BY <1>5, ConfigType, ConfigControl, ConfigStep DEF IInv, Control
<1>6. ASSUME Take PROVE IInv' /\ AbstractNext
  <2>1. UNCHANGED <<lockVars, storeVars, pc, local>>
    BY <1>6 DEF Take
  <2> QED BY <1>6, <2>1, TakeType, TakeControl, IdleStep DEF IInv, Control
<1>7. ASSUME UNCHANGED vars PROVE IInv' /\ AbstractNext
  <2>1. UNCHANGED <<lockVars, storeVars, pc, local, cancelled, dispatch, events, shownAt>>
    BY <1>7 DEF vars
  <2>2. PlaceInv' /\ AbstractNext
    BY <2>1, IdleStep
  <2>3. TypeOK'
    BY <2>1 DEF IInv, TypeOK, lockVars, storeVars
  <2>4. Control'
    BY <2>1 DEF IInv, Control, LabelInv, DispatchInv, BusyInv, ScriptInv, OrderInv, CarryInv,
       BoundInv, Drives, lockVars, storeVars
  <2> QED BY <2>2, <2>3, <2>4 DEF IInv, Control
<1> QED BY <1>1, <1>2, <1>3, <1>4, <1>5, <1>6, <1>7 DEF Next

LEMMA Invariance == Spec => []IInv
<1>1. Init => IInv
  BY InitInv
<1>2. IInv /\ [Next]_vars => IInv'
  BY NextInv
<1> QED BY <1>1, <1>2, PTL DEF Spec

-----------------------------------------------------------------------------
(* The results. *)

\* The variables of the double keep their types (FakeChat: all of the chat's state).
THEOREM TypeCorrect == Spec => []TypeOK
<1>1. IInv => TypeOK
  BY DEF IInv
<1> QED BY <1>1, Invariance, PTL

\* The double that the tests of the server run on keeps the contract of adapter.Chat
\* (Send, script, settle, Abort, Close): turns come one at a time, the chat is idle when
\* nothing drives the session, and an accepted message is delivered at most once, during
\* a turn, and never after it was given up.
THEOREM KeepsContract == Spec => ContractKept
<1>1. Init => IInv /\ Contract!Init
  BY InitInv
<1>2. IInv /\ [Next]_vars => IInv' /\ [Contract!Next]_(Contract!chatVars)
  BY NextInv DEF AbstractNext
<1> QED BY <1>1, <1>2, PTL DEF Spec, ContractKept, Contract!Spec

LEMMA ShownNext ==
  ASSUME IInv, [Next]_vars, shownAt' # shownAt
  PROVE  Before(shownAt, shownAt')
<1>. TypeOK /\ BusyInv /\ OrderInv
  BY DEF IInv
<1>0. shownAt[1] \in Nat /\ shownAt[2] \in Nat
  BY SMTT(40) DEF TypeOK
<1>1. PICK t \in Send_ \cup Scripts : EmitMessage(t) \/ (t \in Scripts /\ Play(t))
  BY DEF Next, vars, Send, Dispatch, Refuse, Queue, StartTurn, Sending, Tell, AddItem, EmitMeta,
     Announce, Launch, Settling, Settle, Settled, Stale, EmitIdle, Resend, Abort, Stopping, EmitStop,
     Cancel, Close, CheckIdle, Configure, Notify, Take, Emit
<1>2. t \in Threads /\ Drives(t) /\ local[t].turn = gen
  BY <1>1, Kinds_ DEF EmitMessage, Play, Drives, BusyInv
<1>3. CASE EmitMessage(t)
  <2>1. pc[t] = "message" /\ shownAt' = <<gen, 0>>
    BY <1>2, <1>3 DEF EmitMessage, EmitAt
  <2>2. shownAt[1] < gen
    BY <1>2, <2>1 DEF OrderInv
  <2> QED BY <2>1, <2>2 DEF Before
<1>4. CASE Play(t)
  <2>1. pc[t] = "script" /\ shownAt' = <<gen, local[t].pos>>
    BY <1>2, <1>4 DEF Play, EmitAt
  <2>2. shownAt[1] = gen /\ shownAt[2] < local[t].pos
    BY <1>2, <2>1 DEF OrderInv
  <2> QED BY <2>1, <2>2 DEF Before
<1> QED BY <1>1, <1>3, <1>4

\* What a turn shows comes in the order of its script and after all of the turn before
\* it (script, settle, Send): however turns are stopped, settled and followed by others,
\* no goroutine of an earlier turn emits an item any more.
THEOREM ShownInOrder == Spec => EventsInOrder
<1>1. IInv /\ [Next]_vars => [shownAt' # shownAt => Before(shownAt, shownAt')]_vars
  BY ShownNext
<1> QED BY <1>1, Invariance, PTL DEF Spec, EventsInOrder

=============================================================================
