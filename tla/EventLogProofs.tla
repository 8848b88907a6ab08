--------------------------- MODULE EventLogProofs ---------------------------
(***************************************************************************)
(* What a browser shows is a prefix of the chat's timeline, for any number *)
(* of clients, any ring buffer and any channel capacity.                   *)
(*                                                                         *)
(* ViewIsPrefix is not inductive: whether the next message may be reduced *)
(* depends on what is still in flight.  The strengthening says that every *)
(* event on its way to a client - in its inbox, in the rest of a replay,  *)
(* in its channel, or still to be published - is preceded on that way by  *)
(* one that covers the number before it (Covers, Linked).                  *)
(*                                                                         *)
(* The browser's cache (BrowserCache) needs one thing more: every state it *)
(* keeps, and every one on its way to it, is a true one of some earlier    *)
(* moment (CacheInv), so that it may be shown at any later one.            *)
(***************************************************************************)
EXTENDS BrowserCache, Integers, TLAPS

-----------------------------------------------------------------------------
(* What an event, a queue of messages and a client's state may look like in *)
(* a log of n events, k of them items (k = n - 1 once chat_closed is in it). *)

\* How many items a client with sequence number m has seen.
Shown(m, k) == IF m <= k THEN m ELSE k

Genuine(e, n, k) ==
  /\ 1 <= e.seq /\ e.seq <= n
  /\ e.type = "item" => e.seq <= k
  /\ e.type = "chat_closed" => k < n /\ e.seq = n

Truthful(m, n, k) ==
  /\ m.seq <= n
  /\ Len(m.items) = Shown(m.seq, k)
  /\ \A j \in 1..Len(m.items) : m.items[j] = j

AllGenuine(q, n, k) == \A i \in 1..Len(q) : Genuine(q[i], n, k)

Contiguous(q) == \A i \in 1..Len(q) - 1 : q[i + 1].seq = q[i].seq + 1

\* A client that has seen event s and reduces q has then seen event m.
Covers(q, s, m) == m <= s \/ \E j \in 1..Len(q) : q[j].seq >= m

\* Every event of q follows one that covers the number before it, and no
\* snapshot of q takes the client back.
Linked(q, s) ==
  \A i \in 1..Len(q) :
    /\ q[i].type \in {"item", "chat_closed"} =>
         q[i].seq - 1 <= s \/ \E j \in 1..(i - 1) : q[j].seq >= q[i].seq - 1
    /\ q[i].type = "snapshot" =>
         s <= q[i].seq /\ \A j \in 1..(i - 1) : q[j].seq <= q[i].seq

Sound(q, n, k) ==
  \A i \in 1..Len(q) :
    /\ q[i].type \in {"item", "chat_closed"} => Genuine(q[i], n, k)
    /\ q[i].type = "snapshot" => Truthful(q[i], n, k)

\* The log only grows, and not after chat_closed.
Grows(n, k, n1, k1) == n <= n1 /\ k <= k1 /\ (k < n => n1 = n /\ k1 = k)

-----------------------------------------------------------------------------
(* The inductive invariant. *)

Items == Len(timeline)

LogInv ==
  /\ Items = IF Closed THEN seq - 1 ELSE seq
  /\ \A i \in 1..Items : timeline[i] = i
  /\ Len(buf) <= seq
  /\ \A i \in 1..Len(buf) : buf[i].seq = seq - Len(buf) + i
  /\ AllGenuine(buf, seq, Items)
  /\ Len(buf) <= LogCapacity + (IF Closed THEN 1 ELSE 0)
  /\ seq <= Len(buf) \/ Len(buf) >= LogCapacity

SubInv ==
  /\ \A c \in subs :
       handler[c] \in {"replay", "gap", "snapshot", "live", "cut"}
  /\ Closed => subs = {}
  /\ ~Closed => farewell = {}
  /\ \A c \in Clients : handler[c] = "found" => c \notin farewell

ChanInv(c) ==
  /\ AllGenuine(chan[c], seq, Items)
  /\ Contiguous(chan[c])
  /\ chan[c] # <<>> /\ c \in subs => chan[c][Len(chan[c])].seq = seq
  /\ chan[c] # <<>> /\ c \in farewell => chan[c][Len(chan[c])].seq = seq - 1

InboxInv(c) ==
  /\ handler[c] = "found" => asked[c] <= cseq[c]
  /\ cseq[c] <= seq
  /\ Sound(inbox[c], seq, Items)
  /\ Linked(inbox[c], cseq[c])

\* The number before the first event of c's channel, or before the next one
\* to be put there.
Before(c) == IF chan[c] # <<>> THEN chan[c][1].seq - 1
             ELSE IF c \in subs THEN seq
             ELSE IF c \in farewell THEN seq - 1
             ELSE 0

HandlerInv(c) ==
  /\ AllGenuine(replay[c], seq, Items)
  /\ handler[c] = "replay" /\ replay[c] # <<>> =>
       /\ Covers(inbox[c], cseq[c], replay[c][1].seq - 1)
       /\ Contiguous(replay[c])
       /\ Before(c) <= replay[c][Len(replay[c])].seq
  /\ \/ handler[c] = "replay" /\ replay[c] = <<>>
     \/ handler[c] = "live"
     => Covers(inbox[c], cseq[c], Before(c))

ViewInv(c) ==
  /\ Len(view[c]) = Shown(cseq[c], Items)
  /\ \A i \in 1..Len(view[c]) : view[c][i] = i
  /\ ended[c] => Closed /\ cseq[c] = seq

ClientInv(c) == ChanInv(c) /\ InboxInv(c) /\ HandlerInv(c) /\ ViewInv(c)

IInv == TypeOK /\ LogInv /\ SubInv /\ \A c \in Clients : ClientInv(c)

-----------------------------------------------------------------------------
\* Types.  Publish is the only step with some arithmetic in it.

LEMMA InitType == Init => TypeOK
<1> SUFFICES ASSUME Init PROVE TypeOK
  OBVIOUS
<1>1. ended \in [Clients -> BOOLEAN]
  BY Zenon DEF Init
<1>2. \A S : <<>> \in Seq(S)
  OBVIOUS
<1>3. /\ chan \in [Clients -> Seq(Event)] /\ replay \in [Clients -> Seq(Event)]
      /\ inbox \in [Clients -> Seq(Message)] /\ view \in [Clients -> Seq(Nat)]
  BY <1>2, Zenon DEF Init
<1>4. pumped \in BOOLEAN
  BY Zenon DEF Init
<1> QED BY <1>1, <1>2, <1>3, <1>4 DEF Init, TypeOK

LEMMA PublishType ==
  ASSUME TypeOK, Publish
  PROVE  /\ seq' \in Nat /\ timeline' \in Seq(Nat) /\ buf' \in Seq(Event)
         /\ subs' \subseteq subs /\ chan' \in [Clients -> Seq(Event)]
<1> DEFINE ev == [type |-> "item", seq |-> seq + 1]
<1>1. ev \in Event /\ Append(buf, ev) \in Seq(Event)
  BY DEF TypeOK, Event
<1>2. Trimmed(Append(buf, ev)) \in Seq(Event)
  BY <1>1, CapacityAssumption DEF Trimmed
<1>3. chan' \in [Clients -> Seq(Event)]
  BY <1>1 DEF Publish, TypeOK
<1> QED BY <1>1, <1>2, <1>3 DEF Publish, TypeOK

LEMMA NextType == TypeOK /\ [Next]_vars => TypeOK'
<1> SUFFICES ASSUME TypeOK, [Next]_vars PROVE TypeOK'
  OBVIOUS
<1> USE DEF TypeOK, logVars, serveVars, clientVars
<1>1. CASE PumpTake BY <1>1 DEF PumpTake
<1>2. CASE PumpPublish BY <1>2, PublishType DEF PumpPublish
<1>3. CASE ConfigPublish BY <1>3, PublishType DEF ConfigPublish
<1>4. CASE Remove BY <1>4 DEF Remove
<1>5. CASE Invalidate BY <1>5 DEF Invalidate
<1>6. CASE Close BY <1>6 DEF Close, Event
<1>7. ASSUME NEW c \in Clients, Farewell(c) PROVE TypeOK'
  BY <1>7, SMTT(30) DEF Farewell, Event
<1>8. ASSUME NEW c \in Clients, Connect(c) PROVE TypeOK'
  BY <1>8 DEF Connect
<1>9. ASSUME NEW c \in Clients, Subscribe(c) PROVE TypeOK'
  <2>1. \A k \in 0..Len(buf) : SubSeq(buf, k + 1, Len(buf)) \in Seq(Event)
    OBVIOUS
  <2>2. replay' \in [Clients -> Seq(Event)]
    <3>1. CASE replay' = replay
      BY <3>1
    <3>2. CASE \E k \in 0..Len(buf) :
                 replay' = [replay EXCEPT ![c] = SubSeq(buf, k + 1, Len(buf))]
      BY <2>1, <3>2
    <3> QED BY <1>9, <3>1, <3>2 DEF Subscribe
  <2>3. chan' \in [Clients -> Seq(Event)]
    BY <1>9 DEF Subscribe
  <2> QED BY <1>9, <2>2, <2>3 DEF Subscribe
<1>10. ASSUME NEW c \in Clients, WriteReplay(c) PROVE TypeOK'
  <2>1. Head(replay[c]) \in Message /\ Tail(replay[c]) \in Seq(Event)
    BY <1>10 DEF WriteReplay, Message
  <2>2. Append(inbox[c], Head(replay[c])) \in Seq(Message)
    BY <2>1
  <2> QED BY <1>10, <2>1, <2>2 DEF WriteReplay, Write
<1>11. ASSUME NEW c \in Clients, ReplayDone(c) PROVE TypeOK'
  BY <1>11 DEF ReplayDone
<1>12. ASSUME NEW c \in Clients, WriteGap(c) PROVE TypeOK'
  <2>1. Append(inbox[c], Gap) \in Seq(Message)
    BY DEF Message
  <2> QED BY <1>12, <2>1 DEF WriteGap, Write
<1>13. ASSUME NEW c \in Clients, WriteSnapshot(c) PROVE TypeOK'
  <2>1. [type |-> "snapshot", seq |-> seq, items |-> timeline] \in Message
    BY DEF Message, Snapshot
  <2>2. Append(inbox[c], [type |-> "snapshot", seq |-> seq, items |-> timeline])
          \in Seq(Message)
    BY <2>1
  <2> QED BY <1>13, <2>2 DEF WriteSnapshot, Write
<1>14. ASSUME NEW c \in Clients, WriteEvent(c) PROVE TypeOK'
  <2>1. Head(chan[c]) \in Message /\ Tail(chan[c]) \in Seq(Event)
    BY <1>14 DEF WriteEvent, Message
  <2>2. Append(inbox[c], Head(chan[c])) \in Seq(Message)
    BY <2>1
  <2> QED BY <1>14, <2>1, <2>2 DEF WriteEvent, Write
<1>15. ASSUME NEW c \in Clients, HandlerReturn(c) PROVE TypeOK'
  BY <1>15 DEF HandlerReturn
<1>16. ASSUME NEW c \in Clients, Disconnect(c) PROVE TypeOK'
  BY <1>16 DEF Disconnect
<1>17. ASSUME NEW c \in Clients, Reduce(c) PROVE TypeOK'
  <2> DEFINE m == Head(inbox[c])
  <2>1. m \in Message /\ Tail(inbox[c]) \in Seq(Message)
    BY <1>17 DEF Reduce
  <2>2. inbox' \in [Clients -> Seq(Message)]
    BY <1>17, <2>1 DEF Reduce
  <2>3. m.seq \in Nat /\ (m.type = "snapshot" => m.items \in Seq(Nat))
    BY <2>1, SMTT(30) DEF Message, Snapshot, Gap, Event
  <2>4. cseq' \in [Clients -> Nat]
    BY <1>17, <2>3 DEF Reduce
  <2>5. view' \in [Clients -> Seq(Nat)]
    <3>1. Append(view[c], m.seq) \in Seq(Nat)
      BY <2>3
    <3>2. CASE view' = view
      BY <3>2
    <3>3. CASE m.type = "snapshot" /\ view' = [view EXCEPT ![c] = m.items]
      BY <2>3, <3>3
    <3>4. CASE view' = [view EXCEPT ![c] = Append(@, m.seq)]
      BY <3>1, <3>4
    <3> QED BY <1>17, <3>2, <3>3, <3>4 DEF Reduce
  <2>6. ended' \in [Clients -> BOOLEAN]
    BY <1>17 DEF Reduce
  <2> QED BY <1>17, <2>2, <2>4, <2>5, <2>6 DEF Reduce
<1>18. CASE UNCHANGED vars BY <1>18 DEF vars
<1> QED
  BY <1>1, <1>2, <1>3, <1>4, <1>5, <1>6, <1>7, <1>8, <1>9, <1>10, <1>11,
     <1>12, <1>13, <1>14, <1>15, <1>16, <1>17, <1>18 DEF Next, Chat, Serve

\* Every variable keeps its type, whatever the constants are.
THEOREM TypeCorrect == Spec => []TypeOK
BY InitType, NextType, PTL DEF Spec

-----------------------------------------------------------------------------
(* Lemmas about queues. *)

LEMMA GenuineGrows ==
  ASSUME NEW n \in Nat, NEW k \in Nat, NEW n1 \in Nat, NEW k1 \in Nat,
         Grows(n, k, n1, k1), NEW q \in Seq(Event), AllGenuine(q, n, k)
  PROVE  AllGenuine(q, n1, k1)
<1> SUFFICES ASSUME NEW i \in 1..Len(q) PROVE Genuine(q[i], n1, k1)
  BY DEF AllGenuine
<1>0. q[i] \in Event
  OBVIOUS
<1>1. q[i].seq \in Nat
  BY <1>0 DEF Event
<1> DEFINE e == q[i]
<1>2. Genuine(e, n, k) /\ e.seq \in Nat
  BY <1>1 DEF AllGenuine
<1> HIDE DEF e
<1>3. Genuine(e, n1, k1)
  BY <1>2 DEF Grows, Genuine
<1> QED BY <1>3 DEF e

LEMMA SoundGrows ==
  ASSUME NEW n \in Nat, NEW k \in Nat, NEW n1 \in Nat, NEW k1 \in Nat,
         Grows(n, k, n1, k1), k <= n, n <= k + 1,
         NEW q \in Seq(Message), Sound(q, n, k)
  PROVE  Sound(q, n1, k1)
<1> SUFFICES ASSUME NEW i \in 1..Len(q)
             PROVE  /\ q[i].type \in {"item", "chat_closed"} => Genuine(q[i], n1, k1)
                    /\ q[i].type = "snapshot" => Truthful(q[i], n1, k1)
  BY DEF Sound
<1>1. q[i] \in Message
  OBVIOUS
<1>2. q[i].seq \in Nat
  BY <1>1 DEF Message, Event, Snapshot, Gap
<1>3. CASE q[i].type \in {"item", "chat_closed"}
  BY <1>2, <1>3 DEF Sound, Genuine, Grows
<1>4. CASE q[i].type = "snapshot"
  BY <1>2, <1>4 DEF Sound, Truthful, Shown, Grows
<1> QED BY <1>3, <1>4

\* Appending a message that is linked to what is there.
LEMMA AppendLinked ==
  ASSUME NEW q \in Seq(Message), NEW s \in Nat, NEW m \in Message,
         Linked(q, s),
         m.type \in {"item", "chat_closed"} => Covers(q, s, m.seq - 1),
         m.type = "snapshot" => s <= m.seq /\ \A j \in 1..Len(q) : q[j].seq <= m.seq
  PROVE  Linked(Append(q, m), s)
<1> DEFINE r == Append(q, m)
<1>1. Len(r) = Len(q) + 1 /\ r[Len(r)] = m /\ \A i \in 1..Len(q) : r[i] = q[i]
  OBVIOUS
<1> HIDE DEF r
<1> SUFFICES ASSUME NEW i \in 1..Len(r)
             PROVE  /\ r[i].type \in {"item", "chat_closed"} =>
                         r[i].seq - 1 <= s \/ \E j \in 1..(i - 1) : r[j].seq >= r[i].seq - 1
                    /\ r[i].type = "snapshot" =>
                         s <= r[i].seq /\ \A j \in 1..(i - 1) : r[j].seq <= r[i].seq
  BY DEF Linked, r
<1>2. CASE i \in 1..Len(q)
  BY <1>1, <1>2, SMTT(30) DEF Linked
<1>3. CASE i = Len(r)
  BY <1>1, <1>3 DEF Covers
<1> QED BY <1>1, <1>2, <1>3

LEMMA AppendSound ==
  ASSUME NEW q \in Seq(Message), NEW n \in Nat, NEW k \in Nat, NEW m \in Message,
         Sound(q, n, k),
         m.type \in {"item", "chat_closed"} => Genuine(m, n, k),
         m.type = "snapshot" => Truthful(m, n, k)
  PROVE  Sound(Append(q, m), n, k)
<1> DEFINE r == Append(q, m)
<1>1. Len(r) = Len(q) + 1 /\ r[Len(r)] = m /\ \A i \in 1..Len(q) : r[i] = q[i]
  OBVIOUS
<1> HIDE DEF r
<1>2. ASSUME NEW i \in 1..Len(r)
      PROVE  /\ r[i].type \in {"item", "chat_closed"} => Genuine(r[i], n, k)
             /\ r[i].type = "snapshot" => Truthful(r[i], n, k)
  <2>1. CASE i \in 1..Len(q)
    BY <1>1, <2>1 DEF Sound
  <2>2. CASE i = Len(r)
    BY <1>1, <2>2
  <2> QED BY <1>1, <2>1, <2>2
<1> QED BY <1>2 DEF Sound, r

LEMMA AppendCovers ==
  ASSUME NEW q \in Seq(Message), NEW s \in Nat, NEW m \in Message, NEW x \in Int,
         Covers(q, s, x) \/ x <= m.seq
  PROVE  Covers(Append(q, m), s, x)
<1> DEFINE r == Append(q, m)
<1>1. Len(r) = Len(q) + 1 /\ r[Len(r)] = m /\ \A i \in 1..Len(q) : r[i] = q[i]
  OBVIOUS
<1> HIDE DEF r
<1>2. Len(r) \in 1..Len(r) /\ \A i \in 1..Len(q) : i \in 1..Len(r)
  BY <1>1
<1>3. m.seq \in Nat
  BY DEF Message, Event, Snapshot, Gap
<1>4. Covers(r, s, x)
  BY <1>1, <1>2, <1>3 DEF Covers
<1> QED BY <1>4 DEF r

\* Losing the end of the queue.
LEMMA PrefixKeeps ==
  ASSUME NEW q \in Seq(Message), NEW s \in Nat, NEW n \in Nat, NEW k \in Nat,
         NEW l \in 0..Len(q), Linked(q, s), Sound(q, n, k)
  PROVE  Linked(SubSeq(q, 1, l), s) /\ Sound(SubSeq(q, 1, l), n, k)
<1> DEFINE r == SubSeq(q, 1, l)
<1>1. Len(r) = l /\ \A i \in 1..l : r[i] = q[i] /\ i \in 1..Len(q)
  OBVIOUS
<1> HIDE DEF r
<1>2. Linked(r, s)
  BY <1>1, SMTT(30) DEF Linked
<1>3. Sound(r, n, k)
  BY <1>1 DEF Sound
<1> QED BY <1>2, <1>3 DEF r

\* Reducing the first message to a client that has seen s: it has then seen s1.
LEMMA PopKeeps ==
  ASSUME NEW q \in Seq(Message), NEW s \in Nat, NEW s1 \in Nat,
         NEW n \in Nat, NEW k \in Nat, q # <<>>,
         Linked(q, s), Sound(q, n, k), s <= s1, Head(q).seq <= s1,
         s1 = s \/ s1 = Head(q).seq
  PROVE  /\ Linked(Tail(q), s1) /\ Sound(Tail(q), n, k)
         /\ \A x \in Int : Covers(q, s, x) => Covers(Tail(q), s1, x)
<1> DEFINE r == Tail(q)
<1>1. /\ Len(q) \in Nat /\ Len(q) > 0 /\ Len(r) = Len(q) - 1
      /\ \A i \in 1..Len(r) : r[i] = q[i + 1] /\ i + 1 \in 1..Len(q)
      /\ \A i \in 1..Len(q) : i > 1 => q[i] = r[i - 1] /\ i - 1 \in 1..Len(r)
      /\ Head(q) = q[1] /\ 1 \in 1..Len(q)
  OBVIOUS
<1>2. \A i \in 1..Len(q) : q[i].seq \in Nat
  BY DEF Message, Event, Snapshot, Gap
<1> HIDE DEF r
<1>3. Linked(r, s1)
  <2> SUFFICES ASSUME NEW i \in 1..Len(r)
               PROVE  /\ r[i].type \in {"item", "chat_closed"} =>
                           r[i].seq - 1 <= s1 \/ \E j \in 1..(i - 1) : r[j].seq >= r[i].seq - 1
                      /\ r[i].type = "snapshot" =>
                           s1 <= r[i].seq /\ \A j \in 1..(i - 1) : r[j].seq <= r[i].seq
    BY DEF Linked
  <2>1. /\ r[i] = q[i + 1] /\ i + 1 \in 1..Len(q) /\ r[i].seq \in Nat
        /\ (i + 1) - 1 = i /\ i \in Nat
    <3>1. i \in Nat /\ (i + 1) - 1 = i
      BY <1>1
    <3>2. r[i] = q[i + 1] /\ i + 1 \in 1..Len(q)
      BY ONLY <1>1, i \in 1..Len(r)
    <3>3. r[i].seq \in Nat
      BY ONLY <1>2, <3>2
    <3> QED BY ONLY <3>1, <3>2, <3>3
  <2>2. CASE r[i].type \in {"item", "chat_closed"}
    <3>1. \/ r[i].seq - 1 <= s
          \/ \E j \in 1..i : q[j].seq >= r[i].seq - 1
      BY <2>1, <2>2 DEF Linked
    <3>2. ASSUME NEW j \in 1..i, q[j].seq >= r[i].seq - 1
          PROVE  r[i].seq - 1 <= s1 \/ \E h \in 1..(i - 1) : r[h].seq >= r[i].seq - 1
      <4>1. CASE j = 1
        BY <1>1, <1>2, <2>1, <3>2, <4>1, SMTT(30)
      <4>2. CASE j > 1
        <5>1. j - 1 \in 1..(i - 1) /\ q[j] = r[j - 1]
          BY <1>1, <2>1, <4>2
        <5> QED BY <3>2, <5>1
      <4> QED BY <4>1, <4>2
    <3> QED BY <2>1, <2>2, <3>1, <3>2
  <2>3. CASE r[i].type = "snapshot"
    <3>1. s <= r[i].seq /\ \A j \in 1..i : q[j].seq <= r[i].seq
      BY <2>1, <2>3 DEF Linked
    <3>2. s1 <= r[i].seq
      <4>1. 1 \in 1..i
        BY <1>1
      <4> QED BY <1>1, <3>1, <4>1
    <3>3. ASSUME NEW j \in 1..(i - 1) PROVE r[j].seq <= r[i].seq
      <4>1. j + 1 \in 1..i /\ j \in 1..Len(r)
        BY <1>1, <2>1
      <4> QED BY <1>1, <3>1, <4>1
    <3> QED BY <2>3, <3>2, <3>3
  <2> QED BY <2>2, <2>3
<1>4. Sound(r, n, k)
  BY <1>1 DEF Sound
<1>5. ASSUME NEW x \in Int, Covers(q, s, x) PROVE Covers(r, s1, x)
  <2>1. CASE x <= s
    BY <2>1 DEF Covers
  <2>2. ASSUME NEW j \in 1..Len(q), q[j].seq >= x PROVE Covers(r, s1, x)
    <3>1. CASE j = 1
      BY <1>1, <1>2, <2>2, <3>1 DEF Covers
    <3>2. CASE j > 1
      BY <1>1, <1>2, <2>2, <3>2 DEF Covers
    <3> QED BY <3>1, <3>2
  <2> QED BY <1>5, <2>1, <2>2 DEF Covers
<1> QED BY <1>3, <1>4, <1>5 DEF r

-----------------------------------------------------------------------------
(* The log. *)

LEMMA TrimmedIs ==
  ASSUME NEW b \in Seq(Event), Len(b) <= LogCapacity + 1
  PROVE  /\ Len(Trimmed(b)) <= LogCapacity /\ Len(Trimmed(b)) <= Len(b)
         /\ Len(Trimmed(b)) = Len(b) \/ Len(Trimmed(b)) = LogCapacity
         /\ \A i \in 1..Len(Trimmed(b)) :
              Trimmed(b)[i] = b[Len(b) - Len(Trimmed(b)) + i]
<1>1. CASE Len(b) > LogCapacity
  <2>1. Len(b) = LogCapacity + 1 /\ LogCapacity >= 1 /\ LogCapacity \in Nat
    BY <1>1, CapacityAssumption
  <2>2. Trimmed(b) = SubSeq(b, 2, Len(b))
    <3>1. Len(b) - LogCapacity + 1 = 2
      BY <2>1
    <3> QED BY <1>1, <3>1 DEF Trimmed
  <2>3. /\ Len(SubSeq(b, 2, Len(b))) = LogCapacity
        /\ \A i \in 1..LogCapacity : SubSeq(b, 2, Len(b))[i] = b[i + 1]
    BY <2>1
  <2> QED BY <2>1, <2>2, <2>3
<1>2. CASE ~(Len(b) > LogCapacity)
  <2>1. Trimmed(b) = b
    BY <1>2 DEF Trimmed
  <2>2. Len(b) \in Nat /\ LogCapacity \in Nat
    BY CapacityAssumption
  <2>3. \A i \in 1..Len(b) : Len(b) - Len(b) + i = i
    BY <2>2
  <2> QED BY <1>2, <2>1, <2>2, <2>3
<1> QED BY <1>1, <1>2

LEMMA AppendGenuine ==
  ASSUME NEW q \in Seq(Event), NEW n \in Nat, NEW k \in Nat, NEW e \in Event,
         AllGenuine(q, n, k), Genuine(e, n, k)
  PROVE  AllGenuine(Append(q, e), n, k)
<1> DEFINE r == Append(q, e)
<1>1. Len(r) = Len(q) + 1 /\ r[Len(r)] = e /\ \A i \in 1..Len(q) : r[i] = q[i]
  OBVIOUS
<1> HIDE DEF r
<1>2. ASSUME NEW i \in 1..Len(r) PROVE Genuine(r[i], n, k)
  <2>1. CASE i \in 1..Len(q)
    BY <1>1, <2>1 DEF AllGenuine
  <2>2. CASE i = Len(r)
    BY <1>1, <2>2
  <2> QED BY <1>1, <2>1, <2>2
<1> QED BY <1>2 DEF AllGenuine, r

LEMMA PublishLog ==
  ASSUME TypeOK, LogInv, ~Closed, Publish, stage' = stage
  PROVE  LogInv' /\ Grows(seq, Items, seq', Items') /\ seq' = seq + 1
         /\ Items' = Items + 1
<1> DEFINE ev == [type |-> "item", seq |-> seq + 1]
           b == Append(buf, ev)
<1>0. seq \in Nat /\ buf \in Seq(Event) /\ timeline \in Seq(Nat) /\ Items \in Nat
  BY DEF TypeOK, Items
<1>1. ev \in Event /\ ev.seq = seq + 1 /\ ev.type = "item"
  BY <1>0 DEF Event
<1>2. /\ b \in Seq(Event) /\ Len(b) = Len(buf) + 1 /\ b[Len(b)] = ev
      /\ \A i \in 1..Len(buf) : b[i] = buf[i]
  BY <1>0, <1>1
<1>3. /\ seq' = seq + 1 /\ timeline' = Append(timeline, seq + 1)
      /\ buf' = Trimmed(b) /\ ~Closed'
  BY DEF Publish, Closed
<1>4. Items = seq /\ Items' = seq' /\ \A i \in 1..Items' : timeline'[i] = i
  <2>1. Items = seq /\ \A i \in 1..Items : timeline[i] = i
    BY <1>0 DEF LogInv
  <2>2. Len(timeline) = seq /\ \A i \in 1..seq : timeline[i] = i
    BY <2>1 DEF Items
  <2>3. /\ Len(timeline') = seq + 1 /\ timeline'[seq + 1] = seq + 1
        /\ \A i \in 1..seq : timeline'[i] = timeline[i]
    BY <1>0, <1>3, <2>2
  <2>4. \A i \in 1..(seq + 1) : timeline'[i] = i
    BY <1>0, <2>2, <2>3
  <2> QED BY <1>0, <1>3, <2>1, <2>3, <2>4 DEF Items
<1>5. Grows(seq, Items, seq', Items')
  BY <1>0, <1>3, <1>4 DEF Grows
<1>6. AllGenuine(b, seq', Items')
  <2>1. AllGenuine(buf, seq', Items')
    BY <1>0, <1>3, <1>4, <1>5, GenuineGrows DEF LogInv
  <2>2. Genuine(ev, seq', Items')
    BY <1>0, <1>1, <1>3, <1>4 DEF Genuine
  <2> QED BY <1>0, <1>1, <1>3, <1>4, <2>1, <2>2, AppendGenuine
<1> HIDE DEF b
<1>7. ASSUME NEW i \in 1..Len(b) PROVE b[i].seq = seq' - Len(b) + i
  <2>1. Len(buf) \in Nat
    BY <1>0
  <2>2. CASE i \in 1..Len(buf)
    <3>1. buf[i].seq = seq - Len(buf) + i
      BY <2>2 DEF LogInv
    <3> QED BY <1>0, <1>2, <1>3, <2>1, <2>2, <3>1, SMTT(30)
  <2>3. CASE i = Len(b)
    BY <1>0, <1>1, <1>2, <1>3, <2>1, <2>3
  <2> QED BY <1>2, <2>1, <2>2, <2>3
<1>8. Len(b) <= LogCapacity + 1
  BY <1>0, <1>2, CapacityAssumption DEF LogInv
<1> DEFINE t == Trimmed(b)
<1>9. /\ Len(t) <= LogCapacity /\ Len(t) <= Len(b) /\ Len(t) \in Nat
      /\ Len(t) = Len(b) \/ Len(t) = LogCapacity
      /\ \A i \in 1..Len(t) : t[i] = b[Len(b) - Len(t) + i]
  <2>1. t \in Seq(Event)
    BY <1>2, CapacityAssumption DEF Trimmed
  <2> QED BY <1>2, <1>8, <2>1, TrimmedIs
<1> HIDE DEF t
<1>10. \A i \in 1..Len(t) : Len(b) - Len(t) + i \in 1..Len(b)
  BY <1>2, <1>9
<1>11. ASSUME NEW i \in 1..Len(t) PROVE t[i].seq = seq' - Len(t) + i
  <2>1. t[i] = b[Len(b) - Len(t) + i] /\ Len(b) - Len(t) + i \in 1..Len(b)
    BY <1>9, <1>10
  <2>2. t[i].seq = seq' - Len(b) + (Len(b) - Len(t) + i)
    BY <1>7, <2>1
  <2> QED BY <1>0, <1>2, <1>3, <1>9, <2>2
<1>12. AllGenuine(t, seq', Items')
  BY <1>6, <1>9, <1>10 DEF AllGenuine
<1>13. Len(t) <= seq' /\ (seq' <= Len(t) \/ Len(t) >= LogCapacity)
  BY <1>0, <1>2, <1>3, <1>9, CapacityAssumption DEF LogInv
<1> QED
  <2>1. buf' = t
    BY <1>3 DEF t
  <2> QED BY <1>0, <1>3, <1>4, <1>5, <1>9, <1>11, <1>12, <1>13, <2>1,
             CapacityAssumption DEF LogInv

LEMMA CloseLog ==
  ASSUME TypeOK, LogInv, Close
  PROVE  LogInv' /\ Grows(seq, Items, seq', Items') /\ seq' = seq + 1
         /\ Items' = Items /\ Items = seq
<1> DEFINE ev == [type |-> "chat_closed", seq |-> seq + 1]
           b == Append(buf, ev)
<1>0. seq \in Nat /\ buf \in Seq(Event) /\ timeline \in Seq(Nat) /\ Items \in Nat
  BY DEF TypeOK, Items
<1>1. ev \in Event /\ ev.seq = seq + 1 /\ ev.type = "chat_closed"
  BY <1>0 DEF Event
<1>2. /\ b \in Seq(Event) /\ Len(b) = Len(buf) + 1 /\ b[Len(b)] = ev
      /\ \A i \in 1..Len(buf) : b[i] = buf[i]
  BY <1>0, <1>1
<1>3. seq' = seq + 1 /\ timeline' = timeline /\ buf' = b /\ ~Closed /\ Closed'
  BY DEF Close, Closed
<1>4. Items = seq /\ Items' = Items
  BY <1>3 DEF LogInv, Items
<1>5. Grows(seq, Items, seq', Items')
  BY <1>0, <1>3, <1>4 DEF Grows
<1>6. AllGenuine(b, seq', Items')
  <2>1. AllGenuine(buf, seq', Items')
    BY <1>0, <1>3, <1>4, <1>5, GenuineGrows DEF LogInv
  <2>2. Genuine(ev, seq', Items')
    BY <1>0, <1>1, <1>3, <1>4 DEF Genuine
  <2> QED BY <1>0, <1>1, <1>3, <1>4, <2>1, <2>2, AppendGenuine
<1> HIDE DEF b
<1>7. ASSUME NEW i \in 1..Len(b) PROVE b[i].seq = seq' - Len(b) + i
  <2>1. Len(buf) \in Nat
    BY <1>0
  <2>2. CASE i \in 1..Len(buf)
    <3>1. buf[i].seq = seq - Len(buf) + i
      BY <2>2 DEF LogInv
    <3> QED BY <1>0, <1>2, <1>3, <2>1, <2>2, <3>1
  <2>3. CASE i = Len(b)
    BY <1>0, <1>1, <1>2, <1>3, <2>1, <2>3
  <2> QED BY <1>2, <2>1, <2>2, <2>3
<1>8. /\ Len(b) <= LogCapacity + 1 /\ Len(b) <= seq'
      /\ seq' <= Len(b) \/ Len(b) >= LogCapacity
  BY <1>0, <1>2, <1>3, CapacityAssumption DEF LogInv
<1>9. \A i \in 1..Items' : timeline'[i] = i
  BY <1>3, <1>4 DEF LogInv
<1> QED BY <1>0, <1>3, <1>4, <1>5, <1>6, <1>7, <1>8, <1>9 DEF LogInv

\* A step that leaves the log alone.
LEMMA QuietLog ==
  ASSUME TypeOK, LogInv, UNCHANGED <<seq, timeline, buf>>, Closed' = Closed
  PROVE  LogInv' /\ Grows(seq, Items, seq', Items')
BY DEF LogInv, Grows, Items, TypeOK

LEMMA LogStep ==
  ASSUME TypeOK, LogInv, [Next]_vars
  PROVE  LogInv' /\ Grows(seq, Items, seq', Items')
<1>1. CASE PumpPublish
  <2>1. CASE Closed
    BY <1>1, <2>1, QuietLog DEF PumpPublish, Closed
  <2>2. CASE ~Closed
    BY <1>1, <2>2, PublishLog DEF PumpPublish
  <2> QED BY <2>1, <2>2
<1>2. CASE ConfigPublish
  BY <1>2, PublishLog DEF ConfigPublish
<1>3. CASE Close
  BY <1>3, CloseLog
<1>4. CASE PumpTake \/ Remove \/ Invalidate
  BY <1>4, QuietLog DEF PumpTake, Remove, Invalidate, Closed
<1>5. ASSUME NEW c \in Clients, Farewell(c) \/ Subscribe(c) \/ HandlerReturn(c)
      PROVE  LogInv' /\ Grows(seq, Items, seq', Items')
  BY <1>5, QuietLog DEF Farewell, Subscribe, HandlerReturn, Closed
<1>6. ASSUME NEW c \in Clients,
             \/ Connect(c) \/ WriteReplay(c) \/ ReplayDone(c) \/ WriteGap(c)
             \/ WriteSnapshot(c) \/ WriteEvent(c) \/ Disconnect(c) \/ Reduce(c)
      PROVE  LogInv' /\ Grows(seq, Items, seq', Items')
  <2>1. UNCHANGED logVars
    BY <1>6 DEF Connect, WriteReplay, ReplayDone, WriteGap, WriteSnapshot,
                WriteEvent, Disconnect, Reduce
  <2> QED BY <2>1, QuietLog DEF logVars, Closed
<1>7. CASE UNCHANGED vars
  BY <1>7, QuietLog DEF vars, logVars, Closed
<1> QED BY <1>1, <1>2, <1>3, <1>4, <1>5, <1>6, <1>7 DEF Next, Chat, Serve

LEMMA SubStep ==
  ASSUME TypeOK, SubInv, [Next]_vars
  PROVE  SubInv'
<1> USE DEF SubInv, TypeOK, Closed
<1>1. CASE PumpPublish BY <1>1 DEF PumpPublish, Publish
<1>2. CASE ConfigPublish BY <1>2 DEF ConfigPublish, Publish
<1>3. CASE Close BY <1>3 DEF Close, serveVars
<1>4. CASE PumpTake \/ Remove \/ Invalidate
  BY <1>4 DEF PumpTake, Remove, Invalidate, serveVars
<1>5. ASSUME NEW c \in Clients, Farewell(c) PROVE SubInv'
  BY <1>5 DEF Farewell
<1>6. ASSUME NEW c \in Clients, Subscribe(c) PROVE SubInv'
  BY <1>6 DEF Subscribe
<1>7. ASSUME NEW c \in Clients, HandlerReturn(c) PROVE SubInv'
  BY <1>7 DEF HandlerReturn
<1>8. ASSUME NEW c \in Clients, Connect(c) PROVE SubInv'
  BY <1>8 DEF Connect, logVars
<1>9. ASSUME NEW c \in Clients, WriteReplay(c) \/ WriteEvent(c) \/ Reduce(c)
      PROVE  SubInv'
  BY <1>9 DEF WriteReplay, WriteEvent, Reduce, logVars, serveVars
<1>10. ASSUME NEW c \in Clients,
              ReplayDone(c) \/ WriteGap(c) \/ WriteSnapshot(c) \/ Disconnect(c)
       PROVE  SubInv'
  BY <1>10 DEF ReplayDone, WriteGap, WriteSnapshot, Disconnect, logVars
<1>11. CASE UNCHANGED vars BY <1>11 DEF vars, logVars, serveVars
<1> QED BY <1>1, <1>2, <1>3, <1>4, <1>5, <1>6, <1>7, <1>8, <1>9, <1>10, <1>11
        DEF Next, Chat, Serve

-----------------------------------------------------------------------------
(* What a client keeps when its own state is not touched. *)

LEMMA LogSize ==
  ASSUME TypeOK, LogInv
  PROVE  /\ seq \in Nat /\ Items \in Nat /\ Items <= seq /\ seq <= Items + 1
         /\ Closed <=> Items < seq
BY DEF TypeOK, LogInv, Items

LEMMA InboxStays ==
  ASSUME TypeOK, TypeOK', LogInv, NEW d \in Clients, InboxInv(d),
         Grows(seq, Items, seq', Items'),
         inbox'[d] = inbox[d], asked'[d] = asked[d], cseq'[d] = cseq[d],
         handler'[d] = "found" => handler[d] = "found"
  PROVE  InboxInv(d)'
<1>1. seq' \in Nat /\ Items' \in Nat /\ inbox[d] \in Seq(Message)
  BY DEF TypeOK, Items
<1>2. Sound(inbox[d], seq', Items')
  BY <1>1, LogSize, SoundGrows DEF InboxInv
<1>3. seq <= seq'
  BY DEF Grows
<1>4. (handler'[d] = "found" => asked'[d] <= cseq'[d]) /\ cseq'[d] <= seq'
  BY <1>1, <1>3, LogSize, SMTT(30) DEF InboxInv, TypeOK
<1> QED BY <1>2, <1>4 DEF InboxInv

LEMMA ViewStays ==
  ASSUME TypeOK, TypeOK', LogInv, LogInv', NEW d \in Clients,
         ViewInv(d), InboxInv(d), Grows(seq, Items, seq', Items'),
         view'[d] = view[d], cseq'[d] = cseq[d], ended'[d] = ended[d]
  PROVE  ViewInv(d)'
<1>1. seq' \in Nat /\ Items' \in Nat /\ cseq[d] \in Nat /\ cseq[d] <= seq
  BY DEF TypeOK, Items, InboxInv
<1>2. Shown(cseq[d], Items') = Shown(cseq[d], Items)
  BY <1>1, LogSize DEF Grows, Shown
<1>3. Closed => Closed' /\ seq' = seq
  BY <1>1, LogSize DEF Grows, LogInv
<1> QED BY <1>2, <1>3 DEF ViewInv

LEMMA HandlerStays ==
  ASSUME TypeOK, TypeOK', LogInv, NEW d \in Clients, HandlerInv(d),
         Grows(seq, Items, seq', Items'),
         replay'[d] = replay[d], handler'[d] = handler[d],
         Before(d)' = Before(d),
         \A x \in Int : Covers(inbox[d], cseq[d], x) => Covers(inbox'[d], cseq'[d], x),
         Before(d) \in Int
  PROVE  HandlerInv(d)'
<1>1. seq' \in Nat /\ Items' \in Nat /\ replay[d] \in Seq(Event)
  BY DEF TypeOK, Items
<1>2. AllGenuine(replay[d], seq', Items')
  BY <1>1, LogSize, GenuineGrows DEF HandlerInv
<1>3. replay[d] # <<>> => replay[d][1].seq - 1 \in Int
  <2>1. replay[d] # <<>> => replay[d][1] \in Event
    BY <1>1
  <2> QED BY <2>1 DEF Event
<1> QED BY <1>2, <1>3 DEF HandlerInv

LEMMA BeforeType ==
  ASSUME TypeOK, NEW d \in Clients
  PROVE  Before(d) \in Int
<1>1. chan[d] \in Seq(Event) /\ seq \in Nat
  BY DEF TypeOK
<1>2. chan[d] # <<>> => chan[d][1] \in Event
  BY <1>1
<1> QED BY <1>1, <1>2 DEF Before, Event

LEMMA ChanStays ==
  ASSUME TypeOK, TypeOK', LogInv, NEW d \in Clients, ChanInv(d),
         Grows(seq, Items, seq', Items'), seq' = seq, chan'[d] = chan[d],
         d \in subs' => d \in subs, d \in farewell' => d \in farewell
  PROVE  ChanInv(d)'
<1>1. seq' \in Nat /\ Items' \in Nat /\ chan[d] \in Seq(Event)
  BY DEF TypeOK, Items
<1>2. AllGenuine(chan[d], seq', Items')
  BY <1>1, LogSize, GenuineGrows DEF ChanInv
<1> QED BY <1>2 DEF ChanInv

\* A client none of whose state is touched by a step that publishes nothing.
LEMMA ClientStays ==
  ASSUME TypeOK, TypeOK', LogInv, LogInv', NEW d \in Clients, ClientInv(d),
         Grows(seq, Items, seq', Items'), seq' = seq,
         chan'[d] = chan[d], handler'[d] = handler[d], asked'[d] = asked[d],
         replay'[d] = replay[d], inbox'[d] = inbox[d], cseq'[d] = cseq[d],
         view'[d] = view[d], ended'[d] = ended[d],
         d \in subs' <=> d \in subs, d \in farewell' <=> d \in farewell
  PROVE  ClientInv(d)'
<1>1. Before(d)' = Before(d)
  BY DEF Before
<1>2. ChanInv(d)'
  BY ChanStays DEF ClientInv
<1>3. InboxInv(d)'
  BY InboxStays DEF ClientInv
<1>4. HandlerInv(d)'
  BY <1>1, BeforeType, HandlerStays DEF ClientInv
<1>5. ViewInv(d)'
  BY ViewStays DEF ClientInv
<1> QED BY <1>2, <1>3, <1>4, <1>5 DEF ClientInv

-----------------------------------------------------------------------------
(* The steps of the chat: publishing, closing, saying farewell. *)

LEMMA AppendContiguous ==
  ASSUME NEW q \in Seq(Event), NEW e \in Event, Contiguous(q),
         q # <<>> => e.seq = q[Len(q)].seq + 1
  PROVE  /\ Contiguous(Append(q, e))
         /\ Append(q, e) # <<>> /\ Append(q, e)[Len(Append(q, e))] = e
         /\ Append(q, e)[1] = IF q = <<>> THEN e ELSE q[1]
<1> DEFINE r == Append(q, e)
<1>1. /\ Len(r) = Len(q) + 1 /\ r[Len(r)] = e /\ \A i \in 1..Len(q) : r[i] = q[i]
      /\ Len(q) \in Nat /\ r # <<>> /\ (q # <<>> => Len(q) >= 1)
      /\ (q = <<>> => Len(q) = 0)
  BY SMTT(30)
<1> HIDE DEF r
<1>2. Contiguous(r)
  <2> SUFFICES ASSUME NEW i \in 1..Len(r) - 1
               PROVE  r[i + 1].seq = r[i].seq + 1
    BY DEF Contiguous
  <2>1. CASE i < Len(q)
    <3>1. i \in 1..Len(q) - 1 /\ r[i] = q[i] /\ r[i + 1] = q[i + 1]
      BY <1>1, <2>1
    <3> QED BY <3>1 DEF Contiguous
  <2>2. CASE i = Len(q)
    BY <1>1, <2>2
  <2> QED BY <1>1, <2>1, <2>2
<1>3. r[1] = IF q = <<>> THEN e ELSE q[1]
  BY <1>1
<1> QED BY <1>1, <1>2, <1>3 DEF r

LEMMA PublishClient ==
  ASSUME TypeOK, TypeOK', LogInv, LogInv', SubInv, ~Closed, Publish,
         stage' = stage, farewell' = farewell, NEW d \in Clients, ClientInv(d),
         handler' = handler, asked' = asked, replay' = replay, inbox' = inbox,
         UNCHANGED clientVars
  PROVE  ClientInv(d)'
<1> DEFINE ev == [type |-> "item", seq |-> seq + 1]
<1>1. /\ Grows(seq, Items, seq', Items') /\ seq' = seq + 1 /\ Items' = Items + 1
      /\ seq \in Nat /\ Items \in Nat /\ Items = seq
      /\ seq' \in Nat /\ Items' \in Nat
  BY PublishLog, LogSize
<1>2. farewell = {} /\ farewell' = {}
  BY DEF SubInv
<1>3. /\ ev \in Event /\ ev.seq = seq' /\ Genuine(ev, seq', Items')
      /\ chan[d] \in Seq(Event)
  BY <1>1 DEF Event, Genuine, TypeOK
<1>4. AllGenuine(chan[d], seq', Items')
  BY <1>1, <1>3, GenuineGrows DEF ClientInv, ChanInv
<1>5. CASE d \in subs /\ HasRoom(d)
  <2>1. chan'[d] = Append(chan[d], ev) /\ d \in subs'
    BY <1>5 DEF Publish
  <2>2. chan[d] # <<>> => ev.seq = chan[d][Len(chan[d])].seq + 1
    <3>1. chan[d] # <<>> => chan[d][Len(chan[d])].seq = seq
      BY <1>5 DEF ClientInv, ChanInv
    <3> QED BY <1>1, <1>3, <3>1
  <2>3. AllGenuine(chan'[d], seq', Items')
    BY <1>1, <1>3, <1>4, <2>1, AppendGenuine
  <2>4. /\ Contiguous(chan'[d]) /\ chan'[d] # <<>>
        /\ chan'[d][Len(chan'[d])] = ev
        /\ chan'[d][1] = IF chan[d] = <<>> THEN ev ELSE chan[d][1]
    BY <1>3, <2>1, <2>2, AppendContiguous DEF ClientInv, ChanInv
  <2>5. ChanInv(d)'
    BY <1>2, <1>3, <2>3, <2>4 DEF ChanInv
  <2>6. Before(d)' = Before(d)
    BY <1>1, <1>3, <1>5, <2>4 DEF Before
  <2> QED BY <1>1, <2>5, <2>6, InboxStays, HandlerStays, ViewStays, BeforeType
          DEF ClientInv, clientVars
<1>6. CASE ~(d \in subs /\ HasRoom(d))
  <2>1. chan'[d] = chan[d] /\ d \notin subs'
    BY <1>6 DEF Publish
  <2>2. ChanInv(d)'
    BY <1>2, <1>4, <2>1 DEF ChanInv, ClientInv
  <2>3. chan[d] = <<>> => d \notin subs
    BY <1>6, CapacityAssumption DEF HasRoom
  <2>4. Before(d)' = Before(d)
    BY <1>2, <2>1, <2>3 DEF Before
  <2> QED BY <1>1, <2>2, <2>4, InboxStays, HandlerStays, ViewStays, BeforeType
          DEF ClientInv, clientVars
<1> QED BY <1>5, <1>6

LEMMA CloseClient ==
  ASSUME TypeOK, TypeOK', LogInv, LogInv', SubInv, Close,
         NEW d \in Clients, ClientInv(d)
  PROVE  ClientInv(d)'
<1>1. /\ Grows(seq, Items, seq', Items') /\ seq' = seq + 1 /\ Items' = Items
      /\ seq \in Nat /\ Items \in Nat /\ Items = seq
  BY CloseLog, LogSize
<1>2. /\ subs' = {} /\ farewell' = subs /\ farewell = {} /\ chan' = chan
      /\ UNCHANGED <<handler, asked, replay, inbox, cseq, view, ended>>
  BY DEF Close, SubInv, Closed, serveVars, clientVars
<1>3. chan[d] \in Seq(Event)
  BY DEF TypeOK
<1>4. AllGenuine(chan[d], seq', Items')
  BY <1>1, <1>3, GenuineGrows DEF ClientInv, ChanInv
<1>5. ChanInv(d)'
  BY <1>1, <1>2, <1>4 DEF ChanInv, ClientInv
<1>6. Before(d)' = Before(d)
  BY <1>1, <1>2 DEF Before
<1> QED BY <1>1, <1>2, <1>5, <1>6, InboxStays, HandlerStays, ViewStays, BeforeType
        DEF ClientInv

LEMMA FarewellClient ==
  ASSUME TypeOK, TypeOK', LogInv, LogInv', SubInv, NEW c \in Clients, Farewell(c),
         NEW d \in Clients, ClientInv(d)
  PROVE  ClientInv(d)'
<1> DEFINE ev == [type |-> "chat_closed", seq |-> seq]
<1>1. /\ UNCHANGED <<seq, timeline, buf, subs, handler, asked, replay, inbox,
                     cseq, view, ended>>
      /\ Closed' = Closed /\ farewell' = farewell \ {c}
  BY DEF Farewell, clientVars, Closed
<1>2. Closed /\ c \notin subs
  BY DEF Farewell, SubInv
<1>3. /\ Grows(seq, Items, seq', Items') /\ seq \in Nat /\ Items \in Nat
      /\ Items < seq
  BY <1>1, <1>2, QuietLog, LogSize
<1>4. CASE d # c
  <2>1. chan'[d] = chan[d] /\ (d \in farewell' <=> d \in farewell)
    BY <1>4 DEF Farewell, TypeOK
  <2> QED BY <1>1, <1>3, <2>1, ClientStays
<1>5. CASE d = c /\ HasRoom(c)
  <2>1. chan'[c] = Append(chan[c], ev) /\ c \notin farewell' /\ c \notin subs'
    BY <1>1, <1>2, <1>5 DEF Farewell, TypeOK
  <2>2. /\ ev \in Event /\ ev.seq = seq /\ Genuine(ev, seq, Items)
        /\ chan[c] \in Seq(Event)
    BY <1>3 DEF Event, Genuine, TypeOK
  <2>3. chan[c] # <<>> => ev.seq = chan[c][Len(chan[c])].seq + 1
    BY <1>3, <1>5, <2>2 DEF ClientInv, ChanInv, Farewell
  <2>4. /\ Contiguous(chan'[c]) /\ chan'[c] # <<>>
        /\ chan'[c][1] = IF chan[c] = <<>> THEN ev ELSE chan[c][1]
    BY <1>5, <2>1, <2>2, <2>3, AppendContiguous DEF ClientInv, ChanInv
  <2>5. AllGenuine(chan'[c], seq, Items)
    BY <1>3, <1>5, <2>1, <2>2, AppendGenuine DEF ClientInv, ChanInv
  <2>6. ChanInv(c)'
    BY <1>1, <2>1, <2>4, <2>5 DEF ChanInv, Items
  <2>7. Before(c)' = Before(c)
    BY <1>2, <1>5, <2>2, <2>4 DEF Before, Farewell
  <2> QED BY <1>1, <1>3, <1>5, <2>6, <2>7, InboxStays, HandlerStays, ViewStays,
             BeforeType DEF ClientInv
<1>6. CASE d = c /\ ~HasRoom(c)
  <2>1. chan' = chan /\ chan[c] # <<>>
    BY <1>6, CapacityAssumption DEF Farewell, HasRoom
  <2>2. Before(c)' = Before(c)
    BY <2>1 DEF Before
  <2>3. ChanInv(c)'
    BY <1>1, <1>3, <1>6, <2>1, ChanStays DEF ClientInv
  <2> QED BY <1>1, <1>3, <1>6, <2>2, <2>3, InboxStays, HandlerStays, ViewStays,
             BeforeType DEF ClientInv
<1> QED BY <1>4, <1>5, <1>6

-----------------------------------------------------------------------------
(* The steps of the SSE handler and of the browser, for the client c that *)
(* takes them; the others keep what they have.                            *)

LEMMA OtherClients ==
  ASSUME TypeOK, TypeOK', LogInv, LogInv', NEW c \in Clients, NEW d \in Clients,
         d # c, ClientInv(d), Grows(seq, Items, seq', Items'),
         \/ Connect(c) \/ Subscribe(c) \/ WriteReplay(c) \/ ReplayDone(c)
         \/ WriteGap(c) \/ WriteSnapshot(c) \/ WriteEvent(c) \/ HandlerReturn(c)
         \/ Disconnect(c) \/ Reduce(c)
  PROVE  ClientInv(d)'
<1>1. seq' = seq /\ (d \in farewell' <=> d \in farewell)
  BY DEF Connect, Subscribe, WriteReplay, ReplayDone, WriteGap, WriteSnapshot,
         WriteEvent, HandlerReturn, Disconnect, Reduce, logVars
<1>2. d \in subs' <=> d \in subs
  BY DEF Connect, Subscribe, WriteReplay, ReplayDone, WriteGap, WriteSnapshot,
         WriteEvent, HandlerReturn, Disconnect, Reduce, logVars
<1>3. chan'[d] = chan[d] /\ handler'[d] = handler[d] /\ asked'[d] = asked[d]
  BY ZenonT(60) DEF Connect, Subscribe, WriteReplay, ReplayDone, WriteGap,
                    WriteSnapshot, WriteEvent, HandlerReturn, Disconnect,
                    Reduce, serveVars, TypeOK
<1>4. replay'[d] = replay[d]
  <2>1. CASE Subscribe(c)
    <3>1. CASE replay' = replay
      BY <3>1
    <3>2. CASE \E k \in 0..Len(buf) :
                 replay' = [replay EXCEPT ![c] = SubSeq(buf, k + 1, Len(buf))]
      BY <3>2 DEF TypeOK
    <3> QED BY <2>1, <3>1, <3>2 DEF Subscribe
  <2>2. CASE ~Subscribe(c)
    BY <2>2 DEF Connect, WriteReplay, ReplayDone, WriteGap, WriteSnapshot,
                WriteEvent, HandlerReturn, Disconnect, Reduce, serveVars, TypeOK
  <2> QED BY <2>1, <2>2
<1>5. inbox'[d] = inbox[d]
  <2>1. inbox' = inbox \/ \E x : inbox' = [inbox EXCEPT ![c] = x]
    BY Zenon DEF Connect, Subscribe, WriteReplay, ReplayDone, WriteGap,
                 WriteSnapshot, WriteEvent, HandlerReturn, Disconnect, Reduce,
                 Write
  <2> QED BY <2>1 DEF TypeOK
<1>6. cseq'[d] = cseq[d] /\ view'[d] = view[d] /\ ended'[d] = ended[d]
  <2>1. CASE Reduce(c)
    BY <2>1, ZenonT(60) DEF Reduce, clientVars, TypeOK
  <2>2. CASE ~Reduce(c)
    BY <2>2, Zenon DEF Connect, Subscribe, WriteReplay, ReplayDone, WriteGap,
               WriteSnapshot, WriteEvent, HandlerReturn, Disconnect, clientVars
  <2> QED BY <2>1, <2>2
<1> QED BY <1>1, <1>2, <1>3, <1>4, <1>5, <1>6, ClientStays

\* The tail of a queue of consecutive events starts right after its head.
LEMMA TailEvents ==
  ASSUME NEW q \in Seq(Event), NEW n \in Nat, NEW k \in Nat, q # <<>>,
         AllGenuine(q, n, k), Contiguous(q)
  PROVE  /\ AllGenuine(Tail(q), n, k) /\ Contiguous(Tail(q))
         /\ Head(q) = q[1] /\ Genuine(q[1], n, k) /\ q[1] \in Event
         /\ Tail(q) \in Seq(Event)
         /\ Tail(q) # <<>> => /\ Tail(q)[1].seq = q[1].seq + 1
                              /\ Tail(q)[Len(Tail(q))] = q[Len(q)]
         /\ Tail(q) = <<>> => q[Len(q)] = q[1]
<1> DEFINE r == Tail(q)
<1>0. /\ Len(q) \in Nat /\ Len(q) > 0 /\ Len(r) = Len(q) - 1 /\ Head(q) = q[1]
      /\ \A i \in 1..Len(r) : r[i] = q[i + 1]
      /\ r \in Seq(Event) /\ 1 \in 1..Len(q)
  OBVIOUS
<1>1. /\ Len(q) \in Nat /\ Len(q) > 0 /\ Len(r) = Len(q) - 1 /\ Head(q) = q[1]
      /\ \A i \in 1..Len(r) : r[i] = q[i + 1]
      /\ r \in Seq(Event) /\ (r = <<>> <=> Len(r) = 0) /\ 1 \in 1..Len(q)
      /\ q[1] \in Event /\ Len(r) \in Nat
  <2>1. \A t \in Seq(Event) : (t = <<>> <=> Len(t) = 0) /\ Len(t) \in Nat
    OBVIOUS
  <2>2. \A i \in 1..Len(q) : q[i] \in Event
    OBVIOUS
  <2> QED BY <1>0, <2>1, <2>2
<1> HIDE DEF r
<1>2. AllGenuine(r, n, k)
  <2> SUFFICES ASSUME NEW i \in 1..Len(r) PROVE Genuine(r[i], n, k)
    BY DEF AllGenuine
  <2>1. i + 1 \in 1..Len(q)
    BY <1>1
  <2> QED BY <1>1, <2>1 DEF AllGenuine
<1>3. Contiguous(r)
  <2> SUFFICES ASSUME NEW i \in 1..Len(r) - 1
               PROVE  r[i + 1].seq = r[i].seq + 1
    BY DEF Contiguous
  <2>1. i + 1 \in 1..Len(q) - 1 /\ i \in 1..Len(r) /\ i + 1 \in 1..Len(r)
    BY <1>1
  <2>2. r[i] = q[i + 1] /\ r[i + 1] = q[(i + 1) + 1]
    BY <1>1, <2>1
  <2> QED BY <2>1, <2>2 DEF Contiguous
<1>4. r # <<>> => r[1].seq = q[1].seq + 1 /\ r[Len(r)] = q[Len(q)]
  <2> SUFFICES ASSUME r # <<>>
               PROVE  r[1].seq = q[1].seq + 1 /\ r[Len(r)] = q[Len(q)]
    OBVIOUS
  <2>1. 1 \in 1..Len(q) - 1 /\ r[1] = q[1 + 1] /\ r[Len(r)] = q[Len(r) + 1]
    BY <1>1
  <2>2. q[1 + 1].seq = q[1].seq + 1
    BY <2>1 DEF Contiguous
  <2> QED BY <1>1, <2>1, <2>2
<1>5. Genuine(q[1], n, k)
  BY <1>1 DEF AllGenuine
<1> QED BY <1>1, <1>2, <1>3, <1>4, <1>5 DEF r

\* Writing an event that the client's inbox is ready for.
LEMMA EventWritten ==
  ASSUME TypeOK, LogInv, NEW c \in Clients, InboxInv(c), NEW e \in Event,
         Genuine(e, seq, Items), Covers(inbox[c], cseq[c], e.seq - 1),
         UNCHANGED <<seq, timeline>>, asked'[c] = asked[c], cseq'[c] = cseq[c],
         inbox'[c] = Append(inbox[c], e), handler'[c] = handler[c]
  PROVE  /\ InboxInv(c)'
         /\ \A x \in Int : Covers(inbox[c], cseq[c], x) \/ x <= e.seq
                             => Covers(inbox'[c], cseq'[c], x)
<1>1. /\ inbox[c] \in Seq(Message) /\ cseq[c] \in Nat /\ e \in Message
      /\ e.type \in {"item", "chat_closed"} /\ e.type # "snapshot"
  BY DEF TypeOK, Message, Event
<1>2. Sound(inbox'[c], seq, Items)
  BY <1>1, LogSize, AppendSound DEF InboxInv
<1>3. Linked(inbox'[c], cseq[c])
  BY <1>1, AppendLinked DEF InboxInv
<1>4. \A x \in Int : Covers(inbox[c], cseq[c], x) \/ x <= e.seq
                       => Covers(inbox'[c], cseq'[c], x)
  BY <1>1, AppendCovers
<1> QED BY <1>2, <1>3, <1>4 DEF InboxInv, Items

LEMMA ConnectClient ==
  ASSUME TypeOK, TypeOK', LogInv, LogInv', NEW c \in Clients, Connect(c),
         ClientInv(c), Grows(seq, Items, seq', Items')
  PROVE  ClientInv(c)'
<1>1. /\ UNCHANGED <<logVars, chan, replay, inbox, clientVars>>
      /\ handler'[c] = "found" /\ asked'[c] = cseq[c]
  BY DEF Connect, TypeOK
<1>2. ChanInv(c)'
  BY <1>1, ChanStays DEF ClientInv, logVars
<1>3. InboxInv(c)'
  BY <1>1 DEF ClientInv, InboxInv, logVars, clientVars, Items, TypeOK
<1>4. HandlerInv(c)'
  BY <1>1 DEF ClientInv, HandlerInv, logVars, Items
<1>5. ViewInv(c)'
  BY <1>1, ViewStays DEF ClientInv, clientVars
<1> QED BY <1>2, <1>3, <1>4, <1>5 DEF ClientInv

LEMMA SubscribeClient ==
  ASSUME TypeOK, TypeOK', LogInv, LogInv', SubInv, NEW c \in Clients, Subscribe(c),
         ClientInv(c), Grows(seq, Items, seq', Items')
  PROVE  ClientInv(c)'
<1>1. /\ UNCHANGED <<seq, timeline, buf, farewell, asked, inbox, cseq, view, ended>>
      /\ chan'[c] = <<>> /\ c \notin farewell /\ Items' = Items
      /\ handler[c] = "found" /\ handler'[c] # "found"
      /\ subs' = IF Closed THEN subs ELSE subs \cup {c}
  BY DEF Subscribe, TypeOK, clientVars, SubInv, Items
<1>2. ChanInv(c)'
  BY <1>1 DEF ChanInv, AllGenuine, Contiguous
<1>3. InboxInv(c)'
  BY <1>1, InboxStays DEF ClientInv
<1>4. ViewInv(c)'
  BY <1>1, ViewStays DEF ClientInv
<1>5. HandlerInv(c)'
  <2>1. CASE ~Closed /\ Resumable(asked[c])
    <3>1. PICK k \in 0..Len(buf) :
            /\ replay'[c] = SubSeq(buf, k + 1, Len(buf))
            /\ IsReplay(replay'[c], asked[c])
      <4>1. replay \in [Clients -> Seq(Event)]
        BY DEF TypeOK
      <4>2. \E k \in 0..Len(buf) :
              /\ replay' = [replay EXCEPT ![c] = SubSeq(buf, k + 1, Len(buf))]
              /\ IsReplay(replay'[c], asked[c])
        BY <2>1 DEF Subscribe
      <4> QED BY <4>1, <4>2
    <3>2. PICK h \in 0..Len(buf) :
            /\ \A i \in 1..h : buf[i].seq <= asked[c]
            /\ \A i \in (h + 1)..Len(buf) : buf[i].seq > asked[c]
            /\ replay'[c] = SubSeq(buf, h + 1, Len(buf))
      BY <1>1, <3>1 DEF IsReplay
    <3>3. /\ handler'[c] = "replay" /\ c \in subs' /\ Before(c)' = seq
      BY <1>1, <2>1 DEF Subscribe, TypeOK, Before
    <3>4. /\ Len(buf) \in Nat /\ buf \in Seq(Event) /\ seq \in Nat /\ Items \in Nat
          /\ asked[c] \in Nat /\ cseq[c] \in Nat /\ asked[c] <= cseq[c]
          /\ h \in Nat /\ h <= Len(buf)
      <4>1. buf \in Seq(Event) /\ seq \in Nat /\ Items \in Nat
        BY DEF TypeOK, Items
      <4>2. asked[c] \in Nat /\ cseq[c] \in Nat /\ asked[c] <= cseq[c]
        BY <1>1 DEF TypeOK, ClientInv, InboxInv
      <4>3. Len(buf) \in Nat
        BY <4>1
      <4> QED BY <4>1, <4>2, <4>3
    <3>5. Len(buf) >= 1 /\ buf[1].seq <= asked[c] + 1
      BY <2>1, <3>4 DEF Resumable
    <3> DEFINE r == replay'[c]
    <3>6. /\ Len(r) = Len(buf) - h /\ \A i \in 1..Len(r) : r[i] = buf[h + i]
          /\ \A i \in 1..Len(r) : h + i \in 1..Len(buf)
          /\ r = <<>> <=> h = Len(buf)
      <4>1. \A i \in (h + 1)..Len(buf) : buf[i] \in Event
        BY <3>4
      <4>2. r = SubSeq(buf, h + 1, Len(buf)) /\ r \in Seq(Event)
        BY <3>2, <3>4, <4>1
      <4>3. /\ Len(r) = Len(buf) - h
            /\ \A i \in 1..Len(r) : r[i] = buf[h + i] /\ h + i \in 1..Len(buf)
        <5>1. Len(r) = Len(buf) - h
          BY <3>4, <4>2
        <5>2. \A i \in 1..(Len(buf) - h) :
                SubSeq(buf, h + 1, Len(buf))[i] = buf[(h + 1) + i - 1]
          BY <3>4, SMTT(30)
        <5>3. \A i \in 1..(Len(buf) - h) :
                (h + 1) + i - 1 = h + i /\ h + i \in 1..Len(buf)
          BY <3>4
        <5> QED BY <4>2, <5>1, <5>2, <5>3
      <4>4. r = <<>> <=> Len(r) = 0
        <5>1. \A t \in Seq(Event) : t = <<>> <=> Len(t) = 0
          OBVIOUS
        <5> HIDE DEF r
        <5> QED BY <4>2, <5>1
      <4> QED BY <3>4, <4>3, <4>4, SMTT(30)
    <3>7. \A i \in 1..Len(buf) : buf[i].seq = seq - Len(buf) + i
      BY DEF LogInv
    <3> HIDE DEF r
    <3>8. AllGenuine(r, seq, Items)
      BY <3>6 DEF AllGenuine, LogInv
    <3>9. Contiguous(r)
      <4> SUFFICES ASSUME NEW i \in 1..Len(r) - 1
                   PROVE  r[i + 1].seq = r[i].seq + 1
        BY DEF Contiguous
      <4>1. i \in 1..Len(r) /\ i + 1 \in 1..Len(r)
        BY <3>4, <3>6
      <4>2. r[i].seq = seq - Len(buf) + (h + i)
        BY <3>6, <3>7, <4>1
      <4>3. r[i + 1].seq = seq - Len(buf) + (h + (i + 1))
        BY <3>6, <3>7, <4>1
      <4> QED BY <3>4, <4>2, <4>3
    <3>10. seq - Len(buf) + h <= asked[c]
      <4>1. CASE h = 0
        <5>1. buf[1].seq = seq - Len(buf) + 1
          BY <3>4, <3>5, <3>7
        <5> QED BY <3>4, <3>5, <4>1, <5>1
      <4>2. CASE h > 0
        <5>1. h \in 1..Len(buf) /\ h \in 1..h
          BY <3>4, <4>2
        <5>2. buf[h].seq <= asked[c] /\ buf[h].seq = seq - Len(buf) + h
          BY <3>2, <3>7, <5>1
        <5> QED BY <5>2
      <4> QED BY <3>4, <4>1, <4>2
    <3>11. CASE r = <<>>
      <4>1. seq <= cseq[c]
        BY <3>4, <3>6, <3>10, <3>11
      <4>2. Covers(inbox'[c], cseq'[c], Before(c)')
        BY <1>1, <3>3, <4>1 DEF Covers
      <4> QED BY <1>1, <3>8, <3>11, <4>2 DEF HandlerInv, r
    <3>12. CASE r # <<>>
      <4>1. 1 \in 1..Len(r) /\ Len(r) \in 1..Len(r)
        BY <3>4, <3>6, <3>12
      <4>2. r[1].seq = seq - Len(buf) + (h + 1)
        BY <3>6, <3>7, <4>1
      <4>3. r[Len(r)].seq = seq
        <5>1. r[Len(r)].seq = seq - Len(buf) + (h + Len(r))
          BY <3>6, <3>7, <4>1
        <5> QED BY <3>4, <3>6, <5>1
      <4>4. r[1].seq - 1 <= cseq[c]
        BY <3>4, <3>10, <4>2, SMTT(30)
      <4>5. Covers(inbox'[c], cseq'[c], r[1].seq - 1)
        BY <1>1, <4>4 DEF Covers
      <4>6. Before(c)' <= r[Len(r)].seq
        BY <3>3, <3>4, <4>3
      <4> QED BY <1>1, <3>3, <3>8, <3>9, <3>12, <4>5, <4>6 DEF HandlerInv, r
    <3> QED BY <3>11, <3>12
  <2>2. CASE ~(~Closed /\ Resumable(asked[c]))
    <3>1. handler'[c] \in {"gap", "snapshot"} /\ replay' = replay
      BY <2>2 DEF Subscribe, TypeOK
    <3> QED BY <1>1, <3>1 DEF HandlerInv, ClientInv
  <2> QED BY <2>1, <2>2
<1> QED BY <1>2, <1>3, <1>4, <1>5 DEF ClientInv

\* The steps that move the handler of c along and write nothing.
LEMMA HandlerMoves ==
  ASSUME TypeOK, TypeOK', LogInv, LogInv', NEW c \in Clients,
         ReplayDone(c) \/ HandlerReturn(c) \/ Disconnect(c),
         ClientInv(c), Grows(seq, Items, seq', Items')
  PROVE  ClientInv(c)'
<1>1. UNCHANGED <<seq, timeline, farewell, asked, cseq, view, ended>>
  BY DEF ReplayDone, HandlerReturn, Disconnect, logVars, clientVars
<1>2. ViewInv(c)'
  BY <1>1, ViewStays DEF ClientInv
<1>3. CASE ReplayDone(c)
  <2>1. /\ UNCHANGED <<subs, chan, replay, inbox>> /\ replay[c] = <<>>
        /\ handler[c] = "replay" /\ handler'[c] = "live"
    BY <1>3 DEF ReplayDone, logVars, TypeOK
  <2>2. ChanInv(c)' /\ InboxInv(c)'
    BY <1>1, <2>1, ChanStays, InboxStays DEF ClientInv
  <2>3. HandlerInv(c)'
    BY <1>1, <2>1 DEF ClientInv, HandlerInv, Before, Items
  <2> QED BY <1>2, <2>2, <2>3 DEF ClientInv
<1>4. CASE HandlerReturn(c)
  <2>1. /\ chan'[c] = <<>> /\ replay'[c] = <<>> /\ handler'[c] = "none"
        /\ inbox' = inbox
    BY <1>4 DEF HandlerReturn, TypeOK
  <2>2. ChanInv(c)'
    BY <2>1 DEF ChanInv, AllGenuine, Contiguous
  <2>3. HandlerInv(c)'
    BY <2>1 DEF HandlerInv, AllGenuine
  <2> QED BY <1>1, <1>2, <2>1, <2>2, <2>3, InboxStays DEF ClientInv
<1>5. CASE Disconnect(c)
  <2>1. UNCHANGED <<subs, chan, replay>> /\ handler'[c] = "cut"
    BY <1>5 DEF Disconnect, logVars, TypeOK
  <2>2. PICK l \in 0..Len(inbox[c]) : inbox'[c] = SubSeq(inbox[c], 1, l)
    <3>1. inbox \in [Clients -> Seq(Message)]
      BY DEF TypeOK
    <3> QED BY <1>5, <3>1 DEF Disconnect
  <2>3. inbox[c] \in Seq(Message) /\ cseq[c] \in Nat
    BY DEF TypeOK
  <2>4. Linked(inbox'[c], cseq[c]) /\ Sound(inbox'[c], seq, Items)
    BY <2>2, <2>3, LogSize, PrefixKeeps DEF ClientInv, InboxInv
  <2>5. InboxInv(c)'
    BY <1>1, <2>1, <2>4 DEF ClientInv, InboxInv, Items
  <2>6. ChanInv(c)'
    BY <1>1, <2>1, ChanStays DEF ClientInv
  <2>7. HandlerInv(c)'
    BY <1>1, <2>1 DEF ClientInv, HandlerInv, Items
  <2> QED BY <1>2, <2>5, <2>6, <2>7 DEF ClientInv
<1> QED BY <1>3, <1>4, <1>5

LEMMA WriteReplayClient ==
  ASSUME TypeOK, TypeOK', LogInv, LogInv', NEW c \in Clients, WriteReplay(c),
         ClientInv(c), Grows(seq, Items, seq', Items')
  PROVE  ClientInv(c)'
<1>1. /\ UNCHANGED <<seq, timeline, subs, farewell, chan, asked, cseq, view, ended>>
      /\ handler' = handler /\ handler[c] = "replay" /\ replay[c] # <<>>
      /\ replay'[c] = Tail(replay[c])
      /\ inbox'[c] = Append(inbox[c], Head(replay[c]))
  BY DEF WriteReplay, Write, logVars, clientVars, TypeOK
<1>2. /\ replay[c] \in Seq(Event) /\ AllGenuine(replay[c], seq, Items)
      /\ Contiguous(replay[c]) /\ Before(c) <= replay[c][Len(replay[c])].seq
      /\ Covers(inbox[c], cseq[c], replay[c][1].seq - 1)
  BY <1>1 DEF TypeOK, ClientInv, HandlerInv
<1> DEFINE e == replay[c][1]
           r == replay'[c]
<1>3. /\ e \in Event /\ Genuine(e, seq, Items) /\ Head(replay[c]) = e
      /\ AllGenuine(r, seq, Items) /\ Contiguous(r)
      /\ r # <<>> => r[1].seq = e.seq + 1 /\ r[Len(r)] = replay[c][Len(replay[c])]
      /\ r = <<>> => replay[c][Len(replay[c])] = e
  BY <1>1, <1>2, LogSize, TailEvents
<1>4. e.seq \in Nat
  BY <1>3 DEF Event
<1>5. /\ InboxInv(c)'
      /\ \A x \in Int : Covers(inbox[c], cseq[c], x) \/ x <= e.seq
                          => Covers(inbox'[c], cseq'[c], x)
  BY <1>1, <1>2, <1>3, EventWritten DEF ClientInv
<1>6. Before(c)' = Before(c) /\ Before(c) \in Int
  BY <1>1, BeforeType DEF Before
<1>7. HandlerInv(c)'
  <2>1. CASE r # <<>>
    <3>1. r[1].seq - 1 \in Int /\ r[1].seq - 1 <= e.seq
      <4>1. r[1].seq = e.seq + 1
        BY <1>3, <2>1
      <4> HIDE DEF e, r
      <4> QED BY <1>4, <4>1
    <3>2. Covers(inbox'[c], cseq'[c], r[1].seq - 1)
      BY <1>5, <3>1
    <3> QED BY <1>1, <1>2, <1>3, <1>6, <2>1, <3>2 DEF HandlerInv, Items
  <2>2. CASE r = <<>>
    <3>1. Before(c) <= e.seq
      BY <1>2, <1>3, <2>2
    <3>2. Covers(inbox'[c], cseq'[c], Before(c)')
      BY <1>5, <1>6, <3>1
    <3> QED BY <1>1, <1>3, <2>2, <3>2 DEF HandlerInv, Items
  <2> QED BY <2>1, <2>2
<1>8. ChanInv(c)' /\ ViewInv(c)'
  BY <1>1, ChanStays, ViewStays DEF ClientInv
<1> QED BY <1>5, <1>7, <1>8 DEF ClientInv

LEMMA WriteEventClient ==
  ASSUME TypeOK, TypeOK', LogInv, LogInv', NEW c \in Clients, WriteEvent(c),
         ClientInv(c), Grows(seq, Items, seq', Items')
  PROVE  ClientInv(c)'
<1>1. /\ UNCHANGED <<seq, timeline, subs, farewell, replay, asked, cseq, view, ended>>
      /\ handler' = handler /\ handler[c] = "live" /\ chan[c] # <<>>
      /\ chan'[c] = Tail(chan[c])
      /\ inbox'[c] = Append(inbox[c], Head(chan[c]))
  BY DEF WriteEvent, Write, logVars, clientVars, TypeOK
<1>2. /\ chan[c] \in Seq(Event) /\ AllGenuine(chan[c], seq, Items)
      /\ Contiguous(chan[c])
      /\ Covers(inbox[c], cseq[c], Before(c)) /\ Before(c) = chan[c][1].seq - 1
      /\ c \in subs => chan[c][Len(chan[c])].seq = seq
      /\ c \in farewell => chan[c][Len(chan[c])].seq = seq - 1
  BY <1>1 DEF TypeOK, ClientInv, HandlerInv, ChanInv, Before
<1> DEFINE e == chan[c][1]
           r == chan'[c]
<1>3. /\ e \in Event /\ Genuine(e, seq, Items) /\ Head(chan[c]) = e
      /\ AllGenuine(r, seq, Items) /\ Contiguous(r)
      /\ r # <<>> => r[1].seq = e.seq + 1 /\ r[Len(r)] = chan[c][Len(chan[c])]
      /\ r = <<>> => chan[c][Len(chan[c])] = e
  BY <1>1, <1>2, LogSize, TailEvents
<1>4. e.seq \in Nat /\ e.seq >= 1
  BY <1>3 DEF Event, Genuine
<1>5. /\ InboxInv(c)'
      /\ \A x \in Int : Covers(inbox[c], cseq[c], x) \/ x <= e.seq
                          => Covers(inbox'[c], cseq'[c], x)
  BY <1>1, <1>2, <1>3, EventWritten DEF ClientInv
<1>6. ChanInv(c)'
  BY <1>1, <1>2, <1>3 DEF ChanInv, Items
<1>7. Before(c)' \in Int /\ Before(c)' <= e.seq
  <2>1. CASE r # <<>>
    <3>1. r[1].seq = e.seq + 1 /\ Before(c)' = r[1].seq - 1
      BY <1>3, <2>1 DEF Before
    <3> HIDE DEF e, r
    <3> QED BY <1>4, <3>1
  <2>2. CASE r = <<>>
    <3>1. (c \in subs => e.seq = seq) /\ (c \in farewell => e.seq = seq - 1)
      BY <1>2, <1>3, <2>2
    <3>2. Before(c)' = IF c \in subs THEN seq ELSE IF c \in farewell THEN seq - 1
                                                                    ELSE 0
      BY <1>1, <2>2 DEF Before
    <3> HIDE DEF e, r
    <3> QED BY <1>4, <3>1, <3>2, LogSize
  <2> QED BY <2>1, <2>2
<1>8. HandlerInv(c)'
  <2>1. Covers(inbox'[c], cseq'[c], Before(c)')
    BY <1>5, <1>7
  <2> QED BY <1>1, <2>1 DEF ClientInv, HandlerInv, Items
<1>9. ViewInv(c)'
  BY <1>1, ViewStays DEF ClientInv
<1> QED BY <1>5, <1>6, <1>8, <1>9 DEF ClientInv

LEMMA WriteGapClient ==
  ASSUME TypeOK, TypeOK', LogInv, LogInv', NEW c \in Clients, WriteGap(c),
         ClientInv(c), Grows(seq, Items, seq', Items')
  PROVE  ClientInv(c)'
<1>1. /\ UNCHANGED <<seq, timeline, subs, farewell, chan, replay, asked, cseq,
                     view, ended>>
      /\ handler'[c] = "snapshot" /\ inbox'[c] = Append(inbox[c], Gap)
  BY DEF WriteGap, Write, logVars, clientVars, TypeOK
<1>2. /\ Gap \in Message /\ Gap.type = "gap"
      /\ inbox[c] \in Seq(Message) /\ cseq[c] \in Nat
  BY DEF Gap, Message, TypeOK
<1>3. Sound(inbox'[c], seq, Items)
  BY <1>1, <1>2, LogSize, AppendSound DEF ClientInv, InboxInv
<1>4. Linked(inbox'[c], cseq[c])
  BY <1>1, <1>2, AppendLinked DEF ClientInv, InboxInv
<1>5. InboxInv(c)'
  BY <1>1, <1>3, <1>4 DEF ClientInv, InboxInv, Items
<1>6. HandlerInv(c)'
  BY <1>1 DEF ClientInv, HandlerInv, Items
<1>7. ChanInv(c)' /\ ViewInv(c)'
  BY <1>1, ChanStays, ViewStays DEF ClientInv
<1> QED BY <1>5, <1>6, <1>7 DEF ClientInv

LEMMA WriteSnapshotClient ==
  ASSUME TypeOK, TypeOK', LogInv, LogInv', NEW c \in Clients, WriteSnapshot(c),
         ClientInv(c), Grows(seq, Items, seq', Items')
  PROVE  ClientInv(c)'
<1> DEFINE m == [type |-> "snapshot", seq |-> seq, items |-> timeline]
<1>1. /\ UNCHANGED <<seq, timeline, subs, farewell, chan, replay, asked, cseq,
                     view, ended>>
      /\ handler'[c] = "live" /\ inbox'[c] = Append(inbox[c], m)
  BY DEF WriteSnapshot, Write, logVars, clientVars, TypeOK
<1>2. /\ m \in Message /\ m.type = "snapshot" /\ m.seq = seq /\ m.items = timeline
      /\ inbox[c] \in Seq(Message) /\ cseq[c] \in Nat /\ seq \in Nat
      /\ Items \in Nat /\ Items <= seq
  BY LogSize DEF Message, Snapshot, TypeOK
<1>3. Truthful(m, seq, Items)
  BY <1>2 DEF Truthful, Shown, LogInv, Items
<1>4. ASSUME NEW j \in 1..Len(inbox[c]) PROVE inbox[c][j].seq <= seq
  <2>1. inbox[c][j] \in Message
    BY <1>2
  <2>2. CASE inbox[c][j].type = "gap"
    BY <1>2, <2>1, <2>2 DEF Message, Gap, Event, Snapshot
  <2>3. CASE inbox[c][j].type = "snapshot"
    BY <2>3 DEF ClientInv, InboxInv, Sound, Truthful
  <2>4. CASE inbox[c][j].type \in {"item", "chat_closed"}
    BY <2>4 DEF ClientInv, InboxInv, Sound, Genuine
  <2> QED BY <2>1, <2>2, <2>3, <2>4 DEF Message, Gap, Event, Snapshot
<1> HIDE DEF m
<1>5. Sound(inbox'[c], seq, Items)
  BY <1>1, <1>2, <1>3, AppendSound DEF ClientInv, InboxInv
<1>6. Linked(inbox'[c], cseq[c])
  <2>1. cseq[c] <= m.seq /\ m.type \notin {"item", "chat_closed"}
    BY <1>2 DEF ClientInv, InboxInv
  <2>2. \A j \in 1..Len(inbox[c]) : inbox[c][j].seq <= m.seq
    BY <1>2, <1>4
  <2> QED BY <1>1, <1>2, <2>1, <2>2, AppendLinked DEF ClientInv, InboxInv
<1>7. InboxInv(c)'
  BY <1>1, <1>5, <1>6 DEF ClientInv, InboxInv, Items
<1>8. Before(c)' = Before(c) /\ Before(c) \in Int /\ Before(c) <= seq
  <2>1. chan[c] # <<>> => chan[c][1].seq \in Nat /\ chan[c][1].seq <= seq
    <3>1. chan[c] \in Seq(Event)
      BY DEF TypeOK
    <3>2. chan[c] # <<>> => chan[c][1] \in Event /\ 1 \in 1..Len(chan[c])
      BY <3>1
    <3> QED BY <3>2 DEF Event, ClientInv, ChanInv, AllGenuine, Genuine
  <2> QED BY <1>1, <1>2, <2>1, SMTT(30) DEF Before
<1>9. Covers(inbox'[c], cseq'[c], Before(c)')
  BY <1>1, <1>2, <1>8, AppendCovers
<1>10. HandlerInv(c)'
  BY <1>1, <1>9 DEF ClientInv, HandlerInv, Items
<1>11. ChanInv(c)' /\ ViewInv(c)'
  BY <1>1, ChanStays, ViewStays DEF ClientInv
<1> QED BY <1>7, <1>10, <1>11 DEF ClientInv

\* Reducing a message moves the client forward, one event at a time or by a
\* snapshot.
LEMMA ReduceClient ==
  ASSUME TypeOK, TypeOK', LogInv, LogInv', NEW c \in Clients, Reduce(c),
         ClientInv(c), Grows(seq, Items, seq', Items')
  PROVE  /\ ClientInv(c)' /\ cseq'[c] >= cseq[c]
         /\ Len(view'[c]) >= Len(view[c])
<1> DEFINE q == inbox[c]
           m == Head(q)
           s == cseq[c]
           s1 == cseq'[c]
<1>1. /\ UNCHANGED <<logVars, serveVars>> /\ q # <<>> /\ inbox'[c] = Tail(q)
      /\ UNCHANGED <<seq, timeline, subs, farewell, chan, handler, asked, replay>>
  BY DEF Reduce, logVars, serveVars, TypeOK
<1>2. /\ q \in Seq(Message) /\ s \in Nat /\ s1 \in Nat /\ m \in Message
      /\ 1 \in 1..Len(q) /\ m = q[1] /\ seq \in Nat /\ Items \in Nat
      /\ view[c] \in Seq(Nat)
  <2>1. /\ q \in Seq(Message) /\ s \in Nat /\ s1 \in Nat /\ view[c] \in Seq(Nat)
    BY DEF TypeOK
  <2>2. \A t \in Seq(Message) :
          t # <<>> => 1 \in 1..Len(t) /\ Head(t) = t[1] /\ Head(t) \in Message
    OBVIOUS
  <2> HIDE DEF q, s, s1
  <2> QED BY <1>1, <2>1, <2>2, LogSize
<1>3. /\ Linked(q, s) /\ Sound(q, seq, Items) /\ s <= seq
      /\ handler[c] = "found" => asked[c] <= s
  BY DEF ClientInv, InboxInv
<1>4. m.seq \in Nat
  BY <1>2 DEF Message, Event, Snapshot, Gap
<1>5. /\ m.type \in {"item", "chat_closed"} => m.seq <= s + 1 /\ Genuine(m, seq, Items)
      /\ m.type = "snapshot" => s <= m.seq /\ Truthful(m, seq, Items)
      /\ m.type = "gap" => m.seq = 0
  <2>1. m.type \in {"item", "chat_closed"} => m.seq - 1 <= s
    BY <1>2, <1>3 DEF Linked
  <2>2. m.type = "gap" => m.seq = 0
    BY <1>2 DEF Message, Event, Snapshot, Gap
  <2>3. m.type = "snapshot" => s <= m.seq
    BY <1>2, <1>3 DEF Linked
  <2>4. /\ m.type \in {"item", "chat_closed"} => Genuine(m, seq, Items)
        /\ m.type = "snapshot" => Truthful(m, seq, Items)
    BY <1>2, <1>3 DEF Sound
  <2> HIDE DEF m, s
  <2> QED BY <1>2, <1>4, <2>1, <2>2, <2>3, <2>4
<1>6. ViewInv(c) /\ Items <= seq /\ seq <= Items + 1 /\ (Closed <=> Items < seq)
  BY LogSize DEF ClientInv
<1>7. /\ s <= s1 /\ m.seq <= s1 /\ (s1 = s \/ s1 = m.seq) /\ s1 <= seq
      /\ ViewInv(c)' /\ Len(view'[c]) >= Len(view[c])
  <2>1. CASE m.type = "gap" \/ Stale(c, m)
    <3>1. s1 = s /\ view'[c] = view[c] /\ ended'[c] = ended[c]
      <4>1. UNCHANGED clientVars
        BY <1>2, <2>1 DEF Reduce, Stale, Message, Event, Snapshot, Gap
      <4> QED BY <4>1 DEF clientVars
    <3>2. m.seq <= s
      BY <1>2, <1>5, <2>1 DEF Stale
    <3>3. ViewInv(c)'
      BY <3>1, ViewStays DEF ClientInv
    <3> QED BY <1>2, <1>3, <3>1, <3>2, <3>3
  <2>2. CASE m.type = "snapshot"
    <3>1. s1 = m.seq /\ view'[c] = m.items /\ ended'[c] = FALSE
      BY <2>2 DEF Reduce, Stale, TypeOK
    <3>2. Len(view[c]) = Shown(s, Items) /\ Len(m.items) = Shown(m.seq, Items)
      BY <1>5, <1>6, <2>2 DEF ViewInv, Truthful
    <3>3. Len(view'[c]) >= Len(view[c])
      BY <1>2, <1>4, <1>5, <2>2, <3>1, <3>2 DEF Shown
    <3>4. ViewInv(c)'
      BY <1>1, <1>5, <2>2, <3>1, <3>2 DEF ViewInv, Truthful, Items
    <3>5. m.seq <= seq
      BY <1>5, <2>2 DEF Truthful
    <3> QED BY <1>2, <1>4, <1>5, <2>2, <3>1, <3>3, <3>4, <3>5
  <2>3. CASE m.type = "item" /\ ~Stale(c, m)
    <3>1. /\ s1 = m.seq /\ view'[c] = Append(view[c], m.seq)
          /\ ended'[c] = ended[c]
      BY <2>3 DEF Reduce, TypeOK
    <3>2. m.seq = s + 1 /\ m.seq <= Items
      BY <1>2, <1>4, <1>5, <2>3 DEF Stale, Genuine
    <3>3. Len(view[c]) = s /\ (\A i \in 1..s : view[c][i] = i) /\ ~ended[c]
      BY <1>2, <1>6, <3>2, SMTT(30) DEF ViewInv, Shown
    <3>4. /\ Len(view'[c]) = s + 1
          /\ \A i \in 1..(s + 1) : view'[c][i] = i
      <4>1. /\ Len(view'[c]) = s + 1 /\ view'[c][s + 1] = m.seq
            /\ \A i \in 1..s : view'[c][i] = view[c][i]
        BY <1>2, <1>4, <3>1, <3>3
      <4> HIDE DEF m, s
      <4>2. ASSUME NEW i \in 1..(s + 1) PROVE view'[c][i] = i
        <5>1. i \in 1..s \/ i = s + 1
          BY <1>2
        <5> QED BY <3>2, <3>3, <4>1, <5>1
      <4> QED BY <4>1, <4>2
    <3>5. ViewInv(c)'
      <4>1. Shown(s1, Items) = s + 1
        BY <3>1, <3>2 DEF Shown
      <4> QED BY <1>1, <3>1, <3>2, <3>3, <3>4, <4>1 DEF ViewInv, Items
    <3>6. Len(view'[c]) >= Len(view[c])
      BY <1>2, <3>3, <3>4
    <3> QED BY <1>2, <1>6, <3>1, <3>2, <3>5, <3>6, SMTT(30)
  <2>4. CASE m.type = "chat_closed" /\ ~Stale(c, m)
    <3>1. s1 = m.seq /\ view'[c] = view[c]
      BY <2>4 DEF Reduce, TypeOK
    <3>2. m.seq = s + 1 /\ m.seq = seq /\ Items < seq
      BY <1>2, <1>4, <1>5, <2>4 DEF Stale, Genuine
    <3>3. s = Items /\ Shown(s1, Items) = Shown(s, Items) /\ Closed
      BY <1>2, <1>6, <3>1, <3>2 DEF Shown
    <3>4. ViewInv(c)'
      BY <1>1, <1>6, <3>1, <3>2, <3>3 DEF ViewInv, Items, Closed, logVars
    <3> QED BY <1>2, <3>1, <3>2, <3>4
  <2> QED BY <2>1, <2>2, <2>3, <2>4 DEF Reduce
<1>8. /\ Linked(inbox'[c], s1) /\ Sound(inbox'[c], seq, Items)
      /\ \A x \in Int : Covers(q, s, x) => Covers(inbox'[c], s1, x)
  BY <1>1, <1>2, <1>3, <1>7, PopKeeps
<1>9. InboxInv(c)'
  <2>1. asked[c] \in Nat
    BY DEF TypeOK
  <2>2. handler'[c] = "found" => asked'[c] <= s1
    BY <1>1, <1>2, <1>3, <1>7, <2>1
  <2> QED BY <1>1, <1>7, <1>8, <2>2 DEF InboxInv, Items
<1>10. HandlerInv(c)'
  BY <1>1, <1>8, HandlerStays, BeforeType DEF ClientInv, Before
<1>11. ChanInv(c)'
  BY <1>1, ChanStays DEF ClientInv
<1> QED BY <1>2, <1>7, <1>9, <1>10, <1>11 DEF ClientInv

-----------------------------------------------------------------------------
(* The invariant and what follows from it. *)

LEMMA InitInv == Init => IInv
<1> SUFFICES ASSUME Init PROVE IInv
  OBVIOUS
<1>1. TypeOK
  BY InitType
<1>2. LogInv
  BY CapacityAssumption DEF Init, LogInv, AllGenuine, Closed, Items
<1>3. SubInv
  BY DEF Init, SubInv, Closed
<1>4. ASSUME NEW c \in Clients PROVE ClientInv(c)
  <2>1. ChanInv(c)
    BY DEF Init, ChanInv, AllGenuine, Contiguous
  <2>2. InboxInv(c)
    BY DEF Init, InboxInv, Sound, Linked
  <2>3. HandlerInv(c)
    BY DEF Init, HandlerInv, AllGenuine
  <2>4. ViewInv(c)
    BY DEF Init, ViewInv, Shown, Items
  <2> QED BY <2>1, <2>2, <2>3, <2>4 DEF ClientInv
<1> QED BY <1>1, <1>2, <1>3, <1>4 DEF IInv

LEMMA NextInv == IInv /\ [Next]_vars => IInv'
<1> SUFFICES ASSUME IInv, [Next]_vars PROVE IInv'
  OBVIOUS
<1>1. TypeOK /\ LogInv /\ SubInv /\ \A c \in Clients : ClientInv(c)
  BY DEF IInv
<1>2. /\ TypeOK' /\ LogInv' /\ SubInv'
      /\ Grows(seq, Items, seq', Items')
  BY <1>1, NextType, LogStep, SubStep
<1>3. ASSUME NEW d \in Clients PROVE ClientInv(d)'
  <2>1. CASE PumpTake \/ Remove \/ Invalidate \/ UNCHANGED vars
    BY <1>1, <1>2, <2>1, ClientStays
       DEF PumpTake, Remove, Invalidate, vars, logVars, serveVars, clientVars
  <2>2. CASE PumpPublish
    <3>1. CASE Closed
      BY <1>1, <1>2, <2>2, <3>1, ClientStays DEF PumpPublish, clientVars
    <3>2. CASE ~Closed
      BY <1>1, <1>2, <2>2, <3>2, PublishClient DEF PumpPublish
    <3> QED BY <3>1, <3>2
  <2>3. CASE ConfigPublish
    BY <1>1, <1>2, <2>3, PublishClient DEF ConfigPublish
  <2>4. CASE Close
    BY <1>1, <1>2, <2>4, CloseClient
  <2>5. ASSUME NEW c \in Clients, Farewell(c) PROVE ClientInv(d)'
    BY <1>1, <1>2, <2>5, FarewellClient
  <2>6. ASSUME NEW c \in Clients,
               Connect(c) \/ Serve(c) \/ Disconnect(c) \/ Reduce(c), d # c
        PROVE  ClientInv(d)'
    BY <1>1, <1>2, <2>6, OtherClients DEF Serve
  <2>7. CASE Connect(d) \/ Serve(d) \/ Disconnect(d) \/ Reduce(d)
    <3>1. CASE Connect(d)
      BY <1>1, <1>2, <3>1, ConnectClient
    <3>2. CASE Subscribe(d)
      BY <1>1, <1>2, <3>2, SubscribeClient
    <3>3. CASE WriteReplay(d)
      BY <1>1, <1>2, <3>3, WriteReplayClient
    <3>4. CASE WriteGap(d)
      BY <1>1, <1>2, <3>4, WriteGapClient
    <3>5. CASE WriteSnapshot(d)
      BY <1>1, <1>2, <3>5, WriteSnapshotClient
    <3>6. CASE WriteEvent(d)
      BY <1>1, <1>2, <3>6, WriteEventClient
    <3>7. CASE ReplayDone(d) \/ HandlerReturn(d) \/ Disconnect(d)
      BY <1>1, <1>2, <3>7, HandlerMoves
    <3>8. CASE Reduce(d)
      BY <1>1, <1>2, <3>8, ReduceClient
    <3> QED BY <2>7, <3>1, <3>2, <3>3, <3>4, <3>5, <3>6, <3>7, <3>8 DEF Serve
  <2> QED BY <2>1, <2>2, <2>3, <2>4, <2>5, <2>6, <2>7 DEF Next, Chat
<1> QED BY <1>2, <1>3 DEF IInv

\* The strengthening is an invariant.
THEOREM Invariant == Spec => []IInv
BY InitInv, NextInv, PTL DEF Spec

\* Two sequences of consecutive numbers of one length are one sequence.
LEMMA ItemsShown ==
  ASSUME TypeOK, LogInv, NEW v \in Seq(Nat), NEW m \in Nat,
         Len(v) = Shown(m, Items), \A i \in 1..Len(v) : v[i] = i
  PROVE  v = ItemsUpTo(m)
<1> DEFINE n == Shown(m, Items)
           w == ItemsUpTo(m)
<1>1. timeline \in Seq(Nat) /\ Items \in Nat /\ Items = Len(timeline)
  BY DEF TypeOK, Items
<1>2. n \in 0..Items /\ w = SubSeq(timeline, 1, n)
  BY <1>1 DEF ItemsUpTo, Shown
<1>3. /\ w \in Seq(Nat) /\ Len(w) = n
      /\ \A i \in 1..n : w[i] = timeline[i]
  <2>1. \A t \in Seq(Nat) : \A k \in 0..Len(t) :
          /\ SubSeq(t, 1, k) \in Seq(Nat) /\ Len(SubSeq(t, 1, k)) = k
          /\ \A i \in 1..k : SubSeq(t, 1, k)[i] = t[i]
    OBVIOUS
  <2> HIDE DEF n, w
  <2> QED BY <1>1, <1>2, <2>1
<1>4. \A i \in 1..n : timeline[i] = i
  BY <1>1, <1>2 DEF LogInv
<1>5. \A t, u \in Seq(Nat) :
        Len(t) = Len(u) /\ (\A i \in 1..Len(t) : t[i] = u[i]) => t = u
  BY SMTT(30)
<1>6. Len(v) = n /\ \A i \in 1..n : v[i] = i
  OBVIOUS
<1> HIDE DEF n, w
<1>7. w = v
  BY <1>3, <1>4, <1>5, <1>6
<1> QED BY <1>7 DEF w

LEMMA ViewFromInv == IInv => ViewIsPrefix
<1> SUFFICES ASSUME IInv, NEW c \in Clients PROVE view[c] = ItemsUpTo(cseq[c])
  BY DEF ViewIsPrefix
<1>1. TypeOK /\ LogInv /\ ViewInv(c)
  BY DEF IInv, ClientInv
<1>2. view[c] \in Seq(Nat) /\ cseq[c] \in Nat
  BY <1>1 DEF TypeOK
<1> QED BY <1>1, <1>2, ItemsShown DEF ViewInv

\* What a browser shows is exactly the timeline up to its sequence number,
\* whatever was evicted, dropped, cut, replayed or snapshotted in between.
THEOREM ViewCorrect == Spec => []ViewIsPrefix
BY Invariant, ViewFromInv, PTL

\* The ring buffer has no hole and holds the latest events.
THEOREM LogCorrect == Spec => []LogIsContiguous
<1>1. IInv => LogIsContiguous
  BY DEF IInv, LogInv, LogIsContiguous
<1> QED BY <1>1, Invariant, PTL

\* A client that shows the chat as closed shows the whole of it.
THEOREM ClosedViewCorrect == Spec => []ClosedViewIsComplete
<1>1. IInv => ClosedViewIsComplete
  <2> SUFFICES ASSUME IInv, NEW c \in Clients, ended[c]
               PROVE  Closed /\ view[c] = timeline
    BY DEF ClosedViewIsComplete
  <2>1. Closed /\ cseq[c] = seq
    BY DEF IInv, ClientInv, ViewInv
  <2>2. /\ timeline \in Seq(Nat) /\ Items \in Nat /\ Items < seq
        /\ Items = Len(timeline) /\ seq \in Nat
    BY <2>1, LogSize DEF IInv, TypeOK, Items
  <2>3. ItemsUpTo(seq) = SubSeq(timeline, 1, Len(timeline))
    BY <2>2 DEF ItemsUpTo
  <2>4. \A t \in Seq(Nat) : SubSeq(t, 1, Len(t)) = t
    BY SMTT(30)
  <2>5. view[c] = ItemsUpTo(seq)
    BY <2>1, ViewFromInv DEF ViewIsPrefix
  <2> QED BY <2>1, <2>2, <2>3, <2>4, <2>5
<1> QED BY <1>1, Invariant, PTL

\* publish writes to no channel whose request is over, and each channel has
\* one that closes it: a subscriber publish or unsubscribe may close is not
\* one that close has collected, and a closed chat has none.
THEOREM SubscriberCorrect == Spec => []NoGhostSubscriber
<1>1. IInv => NoGhostSubscriber
  BY DEF IInv, SubInv, NoGhostSubscriber
<1> QED BY <1>1, Invariant, PTL

-----------------------------------------------------------------------------
(* What a step may not do, and the refinement. *)

\* A step either leaves a client as it is or reduces a message to it.
LEMMA ClientMoves ==
  ASSUME TypeOK, [Next]_vars
  PROVE  UNCHANGED clientVars \/ \E c \in Clients : Reduce(c)
BY DEF Next, Chat, Serve, vars, PumpTake, PumpPublish, ConfigPublish, Remove,
       Invalidate, Close, Farewell, Connect, Subscribe, WriteReplay,
       ReplayDone, WriteGap, WriteSnapshot, WriteEvent, HandlerReturn,
       Disconnect

LEMMA StepForward ==
  ASSUME IInv, [Next]_vars, NEW c \in Clients
  PROVE  cseq'[c] >= cseq[c] /\ Len(view'[c]) >= Len(view[c])
<1>1. TypeOK /\ LogInv /\ ClientInv(c) /\ TypeOK' /\ LogInv'
      /\ Grows(seq, Items, seq', Items')
  BY NextType, LogStep DEF IInv
<1>2. cseq[c] \in Nat /\ Len(view[c]) \in Nat
  BY <1>1 DEF TypeOK
<1>3. CASE UNCHANGED clientVars
  BY <1>2, <1>3 DEF clientVars
<1>4. CASE Reduce(c)
  BY <1>1, <1>4, ReduceClient
<1>5. ASSUME NEW d \in Clients, Reduce(d), d # c
      PROVE  cseq'[c] = cseq[c] /\ view'[c] = view[c]
  BY <1>1, <1>5 DEF Reduce, TypeOK, clientVars
<1> QED BY <1>1, <1>2, <1>3, <1>4, <1>5, ClientMoves

\* A client never loses what it shows and its number never goes back, not
\* even when it is sent a snapshot.
THEOREM NeverGoesBack == Spec => NeverBack
<1>1. IInv /\ [Next]_vars =>
        [\A c \in Clients : /\ cseq'[c] >= cseq[c]
                            /\ Len(view'[c]) >= Len(view[c])]_vars
  BY StepForward
<1> QED BY <1>1, Invariant, PTL DEF Spec, NeverBack

LEMMA InitFeed == Init => Feed!Init
BY DEF Init, Feed!Init

LEMMA PublishFeed ==
  ASSUME IInv, ~Closed, Publish, UNCHANGED clientVars
  PROVE  Feed!Next
<1>1. timeline' = Append(timeline, seq + 1) /\ view' = view
  BY DEF Publish, clientVars
<1>2. seq = Len(timeline)
  BY DEF IInv, LogInv, Items
<1> QED BY <1>1, <1>2 DEF Feed!Next, Feed!Record

LEMMA ViewNext == IInv' => ViewIsPrefix'
BY ViewFromInv, PTL

LEMMA ReduceFeed ==
  ASSUME IInv, NEW c \in Clients, Reduce(c)
  PROVE  Feed!Next
<1>1. IInv' /\ Len(view'[c]) >= Len(view[c])
  BY NextInv, StepForward DEF Next
<1>2. /\ timeline' = timeline /\ view \in [Clients -> Seq(Nat)]
      /\ view' = [view EXCEPT ![c] = view'[c]]
  <2>1. view \in [Clients -> Seq(Nat)] /\ timeline' = timeline
    BY DEF IInv, TypeOK, Reduce, logVars
  <2>2. \/ view' = view
        \/ \E x : view' = [view EXCEPT ![c] = x]
    BY DEF Reduce, clientVars
  <2>3. CASE view' = view
    BY <2>1, <2>3
  <2>4. ASSUME NEW x, view' = [view EXCEPT ![c] = x]
        PROVE  view' = [view EXCEPT ![c] = view'[c]]
    BY <2>1, <2>4
  <2> QED BY <2>1, <2>2, <2>3, <2>4
<1>3. view'[c] = ItemsUpTo(cseq'[c])
  <2>1. view'[c] = (ItemsUpTo(cseq[c]))'
    BY <1>1, ViewNext DEF ViewIsPrefix
  <2> QED BY <1>2, <2>1 DEF ItemsUpTo
<1> DEFINE n == Shown(cseq'[c], Items)
<1>4. view'[c] = SubSeq(timeline, 1, n)
  BY <1>3 DEF ItemsUpTo, Shown, Items
<1>5. n \in Len(view[c])..Len(timeline)
  <2>1. /\ Len(view[c]) \in Nat /\ cseq'[c] \in Nat /\ Items \in Nat
        /\ Len(view'[c]) = n /\ Items = Len(timeline)
    <3>1. TypeOK /\ TypeOK' /\ ViewInv(c)'
      BY <1>1 DEF IInv, ClientInv
    <3>2. Items' = Items /\ Items = Len(timeline)
      BY <1>2 DEF Items
    <3>3. Len(view[c]) \in Nat /\ cseq'[c] \in Nat /\ Items \in Nat
      <4>1. view \in [Clients -> Seq(Nat)] /\ cseq' \in [Clients -> Nat]
        BY ONLY <3>1 DEF TypeOK
      <4>2. timeline \in Seq(Nat)
        BY ONLY <3>1 DEF TypeOK
      <4>3. Len(view[c]) \in Nat
        <5>1. view[c] \in Seq(Nat)
          BY ONLY <4>1, c \in Clients
        <5> QED BY ONLY <5>1
      <4>4. cseq'[c] \in Nat
        BY ONLY <4>1, c \in Clients
      <4>5. Len(timeline) \in Nat
        BY ONLY <4>2
      <4> QED BY ONLY <4>3, <4>4, <4>5 DEF Items
    <3>4. Len(view'[c]) = Shown(cseq'[c], Items')
      BY <3>1 DEF ViewInv
    <3>5. Len(view'[c]) = n
      BY ONLY <3>2, <3>4
    <3> HIDE DEF n
    <3> QED BY <3>2, <3>3, <3>5
  <2>2. n <= Items /\ n \in Nat
    BY <2>1 DEF Shown
  <2> HIDE DEF n
  <2> QED BY <1>1, <2>1, <2>2
<1> QED BY <1>2, <1>4, <1>5 DEF Feed!Next, Feed!Reveal, Feed!Prefix

LEMMA StepFeed ==
  ASSUME IInv, [Next]_vars
  PROVE  [Feed!Next]_Feed!feedVars
<1>1. CASE (PumpPublish /\ ~Closed) \/ ConfigPublish
  <2>1. ~Closed /\ Publish /\ UNCHANGED clientVars
    BY <1>1 DEF PumpPublish, ConfigPublish
  <2> QED BY <2>1, PublishFeed
<1>2. ASSUME NEW c \in Clients, Reduce(c) PROVE Feed!Next
  BY <1>2, ReduceFeed
<1>3. \/ (PumpPublish /\ ~Closed) \/ ConfigPublish
      \/ \E c \in Clients : Reduce(c)
      \/ UNCHANGED <<timeline, view>>
  BY DEF Next, Chat, Serve, vars, logVars, clientVars, PumpTake, PumpPublish,
         ConfigPublish, Remove, Invalidate, Close, Farewell, Connect, Subscribe,
         WriteReplay, ReplayDone, WriteGap, WriteSnapshot, WriteEvent,
         HandlerReturn, Disconnect
<1> QED BY <1>1, <1>2, <1>3 DEF Feed!feedVars

\* The stream implements the abstract feed: one history that only grows, and
\* clients that show prefixes of it that only grow.
THEOREM FeedImplemented == Spec => FeedSpec
<1>1. IInv /\ [Next]_vars => [Feed!Next]_Feed!feedVars
  BY StepFeed
<1> QED BY <1>1, InitFeed, Invariant, PTL DEF Spec, FeedSpec, Feed!Spec

-----------------------------------------------------------------------------
(* The cache of a browser that goes from one chat to another. *)

ChatState == [seq : Nat, items : Seq(Nat), ended : BOOLEAN]

\* s was the state of the chat at some moment, and it is closed only if the
\* chat was already.
TrueState(s) ==
  /\ Truthful(s, seq, Items)
  /\ s.ended => Closed /\ s.seq = seq

AllTrue(q) == \A i \in 1..Len(q) : TrueState(q[i])

CacheTyped == /\ cache \in [Clients -> Seq(ChatState)]
              /\ answers \in [Clients -> Seq(ChatState)]

\* Nothing is on its way to a browser that shows another chat.
Absent(c) == inbox[c] = <<>> /\ handler[c] \in {"none", "cut"}

CacheInv ==
  /\ IInv /\ CacheTyped
  /\ \A c \in Clients : AllTrue(cache[c]) /\ AllTrue(answers[c])
  /\ \A c \in Clients : c \notin active => Absent(c)

LEMMA InitCache == CacheInit => CacheInv
<1> SUFFICES ASSUME CacheInit PROVE CacheInv
  OBVIOUS
<1>1. IInv
  BY InitInv DEF CacheInit
<1>2. <<>> \in Seq(ChatState) /\ AllTrue(<<>>)
  BY DEF AllTrue
<1>3. CacheTyped /\ \A c \in Clients : AllTrue(cache[c]) /\ AllTrue(answers[c])
  BY <1>2 DEF CacheInit, CacheTyped
<1>4. \A c \in Clients : Absent(c)
  BY DEF CacheInit, Init, Absent
<1> QED BY <1>1, <1>3, <1>4 DEF CacheInv

\* What was true of the log stays true of it.
LEMMA TrueStays ==
  ASSUME TypeOK, TypeOK', LogInv, LogInv', Grows(seq, Items, seq', Items'),
         NEW s \in ChatState, TrueState(s)
  PROVE  TrueState(s)'
<1>1. /\ seq' \in Nat /\ Items' \in Nat /\ s.seq \in Nat /\ s.seq <= seq
      /\ seq \in Nat /\ Items \in Nat /\ Items <= seq
  BY LogSize DEF TypeOK, Items, ChatState, TrueState, Truthful
<1>2. Shown(s.seq, Items') = Shown(s.seq, Items) /\ s.seq <= seq'
  BY <1>1, LogSize DEF Grows, Shown
<1>3. Truthful(s, seq', Items')
  BY <1>2 DEF TrueState, Truthful
<1>4. Closed => Closed' /\ seq' = seq
  BY <1>1, LogSize DEF Grows, LogInv
<1> QED BY <1>3, <1>4 DEF TrueState

LEMMA AllTrueStays ==
  ASSUME TypeOK, TypeOK', LogInv, LogInv', Grows(seq, Items, seq', Items'),
         NEW q \in Seq(ChatState), AllTrue(q)
  PROVE  AllTrue(q)'
<1> SUFFICES ASSUME NEW i \in 1..Len(q) PROVE TrueState(q[i])'
  BY DEF AllTrue
<1>1. q[i] \in ChatState /\ TrueState(q[i])
  BY DEF AllTrue
<1> DEFINE s == q[i]
<1> HIDE DEF s
<1>2. s \in ChatState /\ TrueState(s)
  BY <1>1 DEF s
<1>3. TrueState(s)'
  BY <1>2, TrueStays
<1> QED BY <1>3 DEF s

\* A step that leaves the log alone leaves everything true of it.
LEMMA SameLog ==
  ASSUME IInv, UNCHANGED <<logVars>>
  PROVE  /\ LogInv' = LogInv /\ Grows(seq, Items, seq', Items')
         /\ \A s : TrueState(s)' = TrueState(s)
<1>1. UNCHANGED <<stage, seq, timeline, buf>>
  BY DEF logVars
<1>2. LogInv' = LogInv
  BY <1>1 DEF LogInv, Items, Closed
<1>3. Grows(seq, Items, seq', Items')
  BY <1>1, LogSize DEF IInv, Grows, Items
<1>4. \A s : TrueState(s)' = TrueState(s)
  BY <1>1 DEF TrueState, Truthful, Items, Closed
<1> QED BY <1>2, <1>3, <1>4

\* A true state may be shown by a browser to which nothing is on its way.
LEMMA ShowKeeps ==
  ASSUME IInv, NEW c \in Clients, NEW s \in ChatState, TrueState(s), Absent(c),
         Show(c, s), UNCHANGED <<logVars, serveVars, inbox, losses>>
  PROVE  IInv'
<1>1. TypeOK /\ LogInv /\ SubInv /\ \A d \in Clients : ClientInv(d)
  BY DEF IInv
<1>2. /\ UNCHANGED <<stage, seq, timeline, buf, subs, farewell, pumped, chan,
                     handler, asked, replay, inbox, losses>>
      /\ cseq' = [cseq EXCEPT ![c] = s.seq]
      /\ view' = [view EXCEPT ![c] = s.items]
      /\ ended' = [ended EXCEPT ![c] = s.ended]
  BY DEF Show, logVars, serveVars
<1>3. s.seq \in Nat /\ s.items \in Seq(Nat) /\ s.ended \in BOOLEAN
  BY DEF ChatState
<1>4. TypeOK'
  <2>1. cseq' \in [Clients -> Nat] /\ view' \in [Clients -> Seq(Nat)]
    BY <1>1, <1>2, <1>3 DEF TypeOK
  <2>2. ended' \in [Clients -> BOOLEAN]
    BY <1>1, <1>2, <1>3 DEF TypeOK
  <2> QED BY <1>1, <1>2, <2>1, <2>2 DEF TypeOK
<1>5. LogInv' /\ SubInv' /\ Grows(seq, Items, seq', Items')
  <2>1. SubInv'
    BY <1>1, <1>2 DEF SubInv, Closed
  <2> QED BY <1>1, <2>1, SameLog
<1>6. ASSUME NEW d \in Clients PROVE ClientInv(d)'
  <2>1. CASE d # c
    <3>1. cseq'[d] = cseq[d] /\ view'[d] = view[d] /\ ended'[d] = ended[d]
      BY <1>1, <1>2, <2>1 DEF TypeOK
    <3> QED BY <1>1, <1>2, <1>4, <1>5, <3>1, ClientStays
  <2>2. CASE d = c
    <3>1. cseq'[c] = s.seq /\ view'[c] = s.items /\ ended'[c] = s.ended
      BY <1>1, <1>2 DEF TypeOK
    <3>2. ChanInv(c)'
      BY <1>1, <1>2, <1>4, <1>5, ChanStays DEF ClientInv
    <3>3. InboxInv(c)'
      <4>1. inbox[c] = <<>> /\ handler[c] \in {"none", "cut"}
        BY DEF Absent
      <4>2. s.seq <= seq
        BY DEF TrueState, Truthful
      <4> QED BY <1>2, <3>1, <4>1, <4>2 DEF InboxInv, Sound, Linked
    <3>4. HandlerInv(c)'
      <4>1. handler[c] \in {"none", "cut"} /\ AllGenuine(replay[c], seq, Items)
        BY <1>1 DEF Absent, ClientInv, HandlerInv
      <4> QED BY <1>2, <4>1 DEF HandlerInv, AllGenuine, Items
    <3>5. ViewInv(c)'
      BY <1>2, <3>1 DEF ViewInv, TrueState, Truthful, Items, Closed
    <3> QED BY <2>2, <3>2, <3>3, <3>4, <3>5 DEF ClientInv
  <2> QED BY <2>1, <2>2
<1> QED BY <1>4, <1>5, <1>6 DEF IInv

\* A browser that leaves the chat is told nothing more.
LEMMA LeaveKeeps ==
  ASSUME IInv, NEW c \in Clients, Leave(c)
  PROVE  IInv' /\ Absent(c)'
<1>1. TypeOK /\ LogInv /\ SubInv /\ \A d \in Clients : ClientInv(d)
  BY DEF IInv
<1>2. /\ UNCHANGED <<stage, seq, timeline, buf, subs, farewell, pumped, chan,
                     asked, replay, cseq, view, ended, losses>>
      /\ handler' = [handler EXCEPT ![c] = IF @ = "none" THEN @ ELSE "cut"]
      /\ inbox' = [inbox EXCEPT ![c] = <<>>]
  BY DEF Leave, logVars, clientVars
<1>3. /\ handler'[c] = IF handler[c] = "none" THEN "none" ELSE "cut"
      /\ inbox'[c] = <<>>
      /\ \A d \in Clients \ {c} : handler'[d] = handler[d] /\ inbox'[d] = inbox[d]
  BY <1>1, <1>2 DEF TypeOK
<1>4. TypeOK'
  <2>1. <<>> \in Seq(Message)
    OBVIOUS
  <2>2. inbox' \in [Clients -> Seq(Message)]
    BY <1>1, <1>2, <2>1 DEF TypeOK
  <2> QED BY <1>1, <1>2, <2>2 DEF TypeOK
<1>5. LogInv' /\ SubInv' /\ Grows(seq, Items, seq', Items')
  <2>1. SubInv'
    BY <1>1, <1>2, <1>3 DEF SubInv, Closed, TypeOK
  <2>2. UNCHANGED logVars
    BY <1>2 DEF logVars
  <2> QED BY <1>1, <2>1, <2>2, SameLog
<1>6. ASSUME NEW d \in Clients PROVE ClientInv(d)'
  <2>1. CASE d # c
    BY <1>1, <1>2, <1>3, <1>4, <1>5, <2>1, ClientStays
  <2>2. CASE d = c
    <3>1. ChanInv(c)'
      BY <1>1, <1>2, <1>4, <1>5, ChanStays DEF ClientInv
    <3>2. InboxInv(c)'
      BY <1>1, <1>2, <1>3 DEF ClientInv, InboxInv, Sound, Linked
    <3>3. HandlerInv(c)'
      BY <1>1, <1>2, <1>3 DEF ClientInv, HandlerInv, AllGenuine, Items
    <3>4. ViewInv(c)'
      BY <1>1, <1>2, <1>4, <1>5, ViewStays DEF ClientInv
    <3> QED BY <2>2, <3>1, <3>2, <3>3, <3>4 DEF ClientInv
  <2> QED BY <2>1, <2>2
<1> QED BY <1>3, <1>4, <1>5, <1>6 DEF IInv, Absent

\* One answer is taken out of the queue, another is put in.
LEMMA Picked ==
  ASSUME NEW q \in Seq(ChatState), NEW i \in 1..Len(q), AllTrue(q)
  PROVE  /\ SubSeq(q, 1, i - 1) \o SubSeq(q, i + 1, Len(q)) \in Seq(ChatState)
         /\ AllTrue(SubSeq(q, 1, i - 1) \o SubSeq(q, i + 1, Len(q)))
         /\ q[i] \in ChatState /\ TrueState(q[i])
<1> DEFINE a == SubSeq(q, 1, i - 1)
           b == SubSeq(q, i + 1, Len(q))
<1>1. /\ a \in Seq(ChatState) /\ b \in Seq(ChatState)
      /\ Len(a) = i - 1 /\ \A j \in 1..Len(a) : a[j] = q[j]
  OBVIOUS
<1>2. Len(b) = Len(q) - i /\ \A j \in 1..Len(b) : b[j] = q[i + j]
  OBVIOUS
<1>3. AllTrue(a) /\ AllTrue(b)
  <2>1. Len(q) \in Nat /\ i \in 1..Len(q)
    OBVIOUS
  <2>2. \A j \in 1..Len(a) : j \in 1..Len(q)
    BY <1>1, <2>1
  <2>3. \A j \in 1..Len(b) : i + j \in 1..Len(q)
    BY <1>2, <2>1
  <2> HIDE DEF a, b
  <2> QED BY <1>1, <1>2, <2>2, <2>3 DEF AllTrue
<1>4. a \o b \in Seq(ChatState) /\ AllTrue(a \o b)
  <2> HIDE DEF a, b
  <2>1. /\ a \o b \in Seq(ChatState) /\ Len(a \o b) = Len(a) + Len(b)
        /\ \A j \in 1..Len(a \o b) : (a \o b)[j] = IF j <= Len(a) THEN a[j] ELSE b[j - Len(a)]
        /\ Len(a) \in Nat /\ Len(b) \in Nat
    BY <1>1
  <2>2. \A j \in 1..Len(a \o b) : IF j <= Len(a) THEN j \in 1..Len(a) ELSE j - Len(a) \in 1..Len(b)
    BY <2>1
  <2> QED BY <1>3, <2>1, <2>2 DEF AllTrue
<1>5. q[i] \in ChatState /\ TrueState(q[i])
  BY DEF AllTrue
<1> QED BY <1>4, <1>5

LEMMA Appended ==
  ASSUME NEW q \in Seq(ChatState), NEW s \in ChatState, AllTrue(q), TrueState(s)
  PROVE  Append(q, s) \in Seq(ChatState) /\ AllTrue(Append(q, s))
<1> DEFINE r == Append(q, s)
<1>1. /\ r \in Seq(ChatState) /\ Len(r) = Len(q) + 1 /\ Len(q) \in Nat
      /\ r[Len(r)] = s /\ \A i \in 1..Len(q) : r[i] = q[i]
  OBVIOUS
<1> HIDE DEF r
<1>2. \A i \in 1..Len(r) : i \in 1..Len(q) \/ i = Len(r)
  BY <1>1
<1>3. AllTrue(r)
  BY <1>1, <1>2 DEF AllTrue
<1> QED BY <1>1, <1>3 DEF r

\* The steps of EventLog that a browser's cache is not part of.
LEMMA OrdinaryStep ==
  ASSUME CacheInv, UNCHANGED cacheVars,
         \/ Chat
         \/ \E c \in Clients : \/ Farewell(c)
                               \/ c \in active /\ Connect(c)
                               \/ Serve(c)
                               \/ c \in active /\ Disconnect(c)
  PROVE  CacheInv'
<1>1. IInv /\ CacheTyped /\ TypeOK /\ LogInv
  BY DEF CacheInv, IInv
<1>2. Next
  BY DEF Next
<1>3. IInv' /\ TypeOK' /\ LogInv' /\ Grows(seq, Items, seq', Items')
  BY <1>1, <1>2, NextInv, LogStep DEF IInv
<1>4. UNCHANGED <<active, cache, answers>>
  BY DEF cacheVars
<1>5. ASSUME NEW d \in Clients PROVE AllTrue(cache[d])' /\ AllTrue(answers[d])'
  <2>1. /\ cache[d] \in Seq(ChatState) /\ answers[d] \in Seq(ChatState)
        /\ AllTrue(cache[d]) /\ AllTrue(answers[d])
    BY <1>1 DEF CacheInv, CacheTyped
  <2>2. \A q \in Seq(ChatState) : AllTrue(q) => AllTrue(q)'
    BY <1>1, <1>3, AllTrueStays
  <2> QED BY <1>4, <2>1, <2>2
<1>6. ASSUME NEW d \in Clients, d \notin active PROVE Absent(d)'
  <2>1. Absent(d)
    BY <1>6 DEF CacheInv
  <2>2. CASE Chat
    BY <2>1, <2>2 DEF Chat, PumpTake, PumpPublish, ConfigPublish, Remove,
                      Invalidate, Close, serveVars, Absent
  <2>3. ASSUME NEW c \in Clients, Farewell(c) PROVE Absent(d)'
    BY <2>1, <2>3 DEF Farewell, Absent
  <2>4. ASSUME NEW c \in Clients, Connect(c) \/ Disconnect(c), c # d PROVE Absent(d)'
    BY <1>1, <2>1, <2>4 DEF Connect, Disconnect, TypeOK, Absent
  <2>5. ASSUME NEW c \in Clients, Serve(c), c # d PROVE Absent(d)'
    <3>1. handler'[d] = handler[d]
      BY <1>1, <2>5, Zenon DEF Serve, Subscribe, WriteReplay, ReplayDone, WriteGap,
           WriteSnapshot, WriteEvent, HandlerReturn, TypeOK
    <3>2. inbox'[d] = inbox[d]
      <4>1. inbox' = inbox \/ \E x : inbox' = [inbox EXCEPT ![c] = x]
        BY <2>5, Zenon DEF Serve, Subscribe, WriteReplay, ReplayDone, WriteGap,
             WriteSnapshot, WriteEvent, HandlerReturn, Write
      <4> QED BY <1>1, <2>5, <4>1 DEF TypeOK
    <3> QED BY <2>1, <3>1, <3>2 DEF Absent
  <2>6. CASE Serve(d)
    <3>1. HandlerReturn(d)
      BY <2>1, <2>6 DEF Absent, Serve, Subscribe, WriteReplay, ReplayDone, WriteGap,
           WriteSnapshot, WriteEvent, HandlerReturn
    <3> QED BY <1>1, <2>1, <3>1 DEF HandlerReturn, TypeOK, Absent
  <2> QED BY <1>6, <2>2, <2>3, <2>4, <2>5, <2>6
<1>7. CacheTyped'
  BY <1>1, <1>4 DEF CacheTyped
<1> QED BY <1>3, <1>4, <1>5, <1>6, <1>7 DEF CacheInv

\* The steps that show a state, or only the requests for one.
LEMMA ShownStep ==
  ASSUME CacheInv, NEW c \in Clients,
         Prepare(c) \/ ServeSnapshot(c) \/ Prepared(c) \/ Open(c) \/ OpenNew(c)
  PROVE  CacheInv'
<1>1. IInv /\ CacheTyped /\ TypeOK /\ LogInv
  BY DEF CacheInv, IInv
<1>2. /\ cache[c] \in Seq(ChatState) /\ answers[c] \in Seq(ChatState)
      /\ AllTrue(cache[c]) /\ AllTrue(answers[c])
      /\ c \notin active => Absent(c)
  BY <1>1 DEF CacheInv, CacheTyped
<1>3. UNCHANGED <<logVars, serveVars, inbox, losses>>
  BY DEF Prepare, ServeSnapshot, Prepared, Open, OpenNew, vars
<1>4. \A q : AllTrue(q)' = AllTrue(q)
  BY <1>1, <1>3, SameLog DEF AllTrue
<1>5. \A d \in Clients : Absent(d)' = Absent(d)
  BY <1>3 DEF Absent, serveVars
<1>6. \/ UNCHANGED <<active, clientVars>>
      \/ \E s \in ChatState : c \notin active /\ TrueState(s) /\ Show(c, s)
  <2>1. CASE Prepare(c) \/ ServeSnapshot(c)
    BY <2>1 DEF Prepare, ServeSnapshot, vars
  <2>2. CASE Prepared(c)
    <3>1. PICK i \in 1..Len(answers[c]) :
            IF c \in active THEN UNCHANGED <<active, clientVars>>
                            ELSE Show(c, answers[c][i])
      BY <2>2 DEF Prepared
    <3> QED BY <1>2, <3>1, Picked
  <2>3. CASE Open(c)
    <3>1. 1 \in 1..Len(cache[c])
      BY <1>2, <2>3 DEF Open
    <3> QED BY <1>2, <2>3, <3>1, Picked DEF Open
  <2>4. CASE OpenNew(c)
    <3> DEFINE s == [seq |-> 0, items |-> <<>>, ended |-> FALSE]
    <3>1. s \in ChatState
      BY DEF ChatState
    <3>2. TrueState(s)
      BY <1>1, LogSize DEF TrueState, Truthful, Shown
    <3> QED BY <2>4, <3>1, <3>2 DEF OpenNew
  <2> QED BY <2>1, <2>2, <2>3, <2>4
<1>7. IInv' /\ active \subseteq active'
  <2>1. CASE UNCHANGED <<active, clientVars>>
    <3>1. UNCHANGED vars
      BY <1>3, <2>1 DEF vars
    <3> QED BY <1>1, <2>1, <3>1, NextInv
  <2>2. ASSUME NEW s \in ChatState, c \notin active, TrueState(s), Show(c, s)
        PROVE  IInv' /\ active \subseteq active'
    <3>1. IInv'
      BY <1>1, <1>2, <1>3, <2>2, ShowKeeps
    <3> QED BY <2>2, <3>1 DEF Show
  <2> QED BY <1>6, <2>1, <2>2
<1>8. CacheTyped' /\ \A d \in Clients : AllTrue(cache'[d]) /\ AllTrue(answers'[d])
  <2>1. \A d \in Clients : AllTrue(cache[d]) /\ AllTrue(answers[d])
    BY DEF CacheInv
  <2>2. CASE Prepare(c) \/ Open(c) \/ OpenNew(c)
    <3>1. cache' = cache /\ answers' = answers
      BY <2>2 DEF Prepare, Open, OpenNew
    <3> QED BY <1>1, <2>1, <3>1 DEF CacheTyped
  <2>3. CASE ServeSnapshot(c)
    <3> DEFINE s == [seq |-> seq, items |-> timeline, ended |-> FALSE]
    <3>1. s \in ChatState
      BY <1>1 DEF ChatState, TypeOK
    <3>2. TrueState(s)
      BY <1>1, LogSize DEF TrueState, Truthful, Shown, LogInv, Items
    <3>3. cache' = cache /\ answers' = [answers EXCEPT ![c] = Append(@, s)]
      BY <2>3 DEF ServeSnapshot
    <3> HIDE DEF s
    <3>4. Append(answers[c], s) \in Seq(ChatState) /\ AllTrue(Append(answers[c], s))
      BY <1>2, <3>1, <3>2, Appended
    <3> QED BY <1>1, <2>1, <3>3, <3>4 DEF CacheTyped
  <2>4. CASE Prepared(c)
    <3>1. PICK i \in 1..Len(answers[c]) :
            /\ answers' = [answers EXCEPT ![c] =
                             SubSeq(@, 1, i - 1) \o SubSeq(@, i + 1, Len(@))]
            /\ cache' = [cache EXCEPT ![c] = <<answers[c][i]>>]
      BY <2>4 DEF Prepared
    <3> DEFINE r == SubSeq(answers[c], 1, i - 1) \o
                      SubSeq(answers[c], i + 1, Len(answers[c]))
               s == answers[c][i]
    <3>2. r \in Seq(ChatState) /\ AllTrue(r) /\ s \in ChatState /\ TrueState(s)
      BY <1>2, Picked
    <3>3. /\ answers' = [answers EXCEPT ![c] = r]
          /\ cache' = [cache EXCEPT ![c] = <<s>>]
      BY <3>1
    <3> HIDE DEF r, s
    <3>4. <<s>> \in Seq(ChatState) /\ AllTrue(<<s>>)
      BY <3>2 DEF AllTrue
    <3> QED BY <1>1, <2>1, <3>2, <3>3, <3>4 DEF CacheTyped
  <2> QED BY <2>2, <2>3, <2>4
<1>9. \A d \in Clients : d \notin active' => Absent(d)'
  BY <1>5, <1>7 DEF CacheInv
<1>10. \A d \in Clients : AllTrue(cache[d])' /\ AllTrue(answers[d])'
  BY <1>3, <1>8, SameLog, <1>1 DEF AllTrue
<1> QED BY <1>7, <1>8, <1>9, <1>10 DEF CacheInv

LEMMA LeaveStep ==
  ASSUME CacheInv, NEW c \in Clients, Leave(c)
  PROVE  CacheInv'
<1>1. IInv /\ CacheTyped /\ TypeOK
  BY DEF CacheInv, IInv
<1>2. IInv' /\ Absent(c)'
  BY <1>1, LeaveKeeps
<1>3. /\ active' = active \ {c} /\ UNCHANGED <<logVars, cache, answers>>
      /\ \A d \in Clients \ {c} : handler'[d] = handler[d] /\ inbox'[d] = inbox[d]
  BY <1>1 DEF Leave, TypeOK
<1>4. CacheTyped'
  BY <1>1, <1>3 DEF CacheTyped
<1>5. \A d \in Clients : AllTrue(cache[d])' /\ AllTrue(answers[d])'
  BY <1>1, <1>3, SameLog DEF AllTrue, CacheInv
<1>6. \A d \in Clients : d \notin active' => Absent(d)'
  BY <1>2, <1>3 DEF CacheInv, Absent
<1> QED BY <1>2, <1>4, <1>5, <1>6 DEF CacheInv

LEMMA FlushStep ==
  ASSUME CacheInv, NEW c \in Clients, Flush(c)
  PROVE  CacheInv'
<1>1. IInv /\ CacheTyped /\ TypeOK
  BY DEF CacheInv, IInv
<1>2. IInv'
  BY <1>1, NextInv DEF Flush, Next
<1> DEFINE s == [seq |-> cseq'[c], items |-> view'[c], ended |-> ended'[c]]
<1>3. /\ c \in active /\ UNCHANGED <<active, answers, logVars, handler>>
      /\ cache' = [cache EXCEPT ![c] = <<s>>]
      /\ \A d \in Clients \ {c} : inbox'[d] = inbox[d]
  BY <1>1 DEF Flush, Reduce, serveVars, TypeOK
<1>4. /\ cseq'[c] \in Nat /\ view'[c] \in Seq(Nat) /\ ended'[c] \in BOOLEAN
      /\ ViewInv(c)' /\ cseq'[c] <= seq'
  BY <1>2 DEF IInv, TypeOK, ClientInv, InboxInv
<1>5. s \in ChatState /\ TrueState(s)
  <2>1. s \in ChatState
    BY <1>4 DEF ChatState
  <2>2. UNCHANGED <<stage, seq, timeline>>
    BY <1>3 DEF logVars
  <2>3. Truthful(s, seq, Items) /\ (s.ended => Closed /\ s.seq = seq)
    BY <1>4, <2>2 DEF Truthful, ViewInv, Items, Closed
  <2> QED BY <2>1, <2>3 DEF TrueState
<1> HIDE DEF s
<1>6. <<s>> \in Seq(ChatState) /\ AllTrue(<<s>>)
  BY <1>5 DEF AllTrue
<1>7. CacheTyped' /\ \A d \in Clients : AllTrue(cache'[d]) /\ AllTrue(answers'[d])
  BY <1>1, <1>3, <1>6 DEF CacheTyped, CacheInv
<1>8. \A d \in Clients : AllTrue(cache[d])' /\ AllTrue(answers[d])'
  BY <1>1, <1>3, <1>7, SameLog DEF AllTrue
<1>9. \A d \in Clients : d \notin active' => Absent(d)'
  BY <1>3 DEF CacheInv, Absent
<1> QED BY <1>2, <1>7, <1>8, <1>9 DEF CacheInv

LEMMA NextCache == CacheInv /\ [CacheNext]_allVars => CacheInv'
<1> SUFFICES ASSUME CacheInv, [CacheNext]_allVars PROVE CacheInv'
  OBVIOUS
<1>1. CASE UNCHANGED allVars
  <2>1. UNCHANGED vars /\ UNCHANGED <<cache, answers, active, inbox, handler, logVars>>
    BY <1>1 DEF allVars, cacheVars, vars, serveVars
  <2>2. IInv' /\ IInv
    BY <2>1, NextInv DEF CacheInv
  <2>3. CacheTyped'
    BY <2>1 DEF CacheInv, CacheTyped
  <2>4. \A d \in Clients : AllTrue(cache[d])' /\ AllTrue(answers[d])'
    BY <2>1, <2>2, SameLog DEF AllTrue, CacheInv
  <2> QED BY <2>1, <2>2, <2>3, <2>4 DEF CacheInv, Absent
<1>2. CASE Chat /\ UNCHANGED cacheVars
  BY <1>2, OrdinaryStep
<1>3. ASSUME NEW c \in Clients, UNCHANGED cacheVars,
             \/ Farewell(c)
             \/ c \in active /\ Connect(c)
             \/ Serve(c)
             \/ c \in active /\ Disconnect(c)
      PROVE  CacheInv'
  BY <1>3, OrdinaryStep
<1>4. ASSUME NEW c \in Clients,
             Prepare(c) \/ ServeSnapshot(c) \/ Prepared(c) \/ Open(c) \/ OpenNew(c)
      PROVE  CacheInv'
  BY <1>4, ShownStep
<1>5. ASSUME NEW c \in Clients, Leave(c) \/ Flush(c) PROVE CacheInv'
  BY <1>5, LeaveStep, FlushStep
<1> QED BY <1>1, <1>2, <1>3, <1>4, <1>5 DEF CacheNext

LEMMA CacheFromInv == CacheInv => CacheIsPrefix
<1>1. CacheInv => ViewIsPrefix
  BY ViewFromInv DEF CacheInv
<1> SUFFICES ASSUME CacheInv, NEW c \in Clients, cache[c] # <<>>
             PROVE  cache[c][1].items = ItemsUpTo(cache[c][1].seq)
  BY <1>1 DEF CacheIsPrefix
<1>2. TypeOK /\ LogInv /\ cache[c] \in Seq(ChatState) /\ AllTrue(cache[c])
  BY DEF CacheInv, IInv, CacheTyped
<1>3. 1 \in 1..Len(cache[c])
  BY <1>2
<1>4. cache[c][1] \in ChatState /\ TrueState(cache[c][1])
  BY <1>2, <1>3, Picked
<1> DEFINE s == cache[c][1]
<1> HIDE DEF s
<1>5. s.seq \in Nat /\ s.items \in Seq(Nat) /\ Truthful(s, seq, Items)
  BY <1>4 DEF s, ChatState, TrueState
<1>6. s.items = ItemsUpTo(s.seq)
  BY <1>2, <1>5, ItemsShown DEF Truthful
<1> QED BY <1>6 DEF s

\* Every state a browser keeps of a chat is a prefix of it that fits its
\* number, whichever answer came last, and so is what it shows when it goes
\* from one chat to another and back.
THEOREM CacheCorrect == CacheSpec => []CacheIsPrefix
BY InitCache, NextCache, CacheFromInv, PTL DEF CacheSpec
=============================================================================
