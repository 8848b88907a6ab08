--------------------------- MODULE StdioMuxProofs ---------------------------
(***************************************************************************)
(* A multiplexed connection is one queue for each direction of each        *)
(* stream, and a stream both ends have closed leaves the table: for any    *)
(* number of streams, any size of the pipes, the tables, the backlog and   *)
(* the buffers, and any amount of data.                                    *)
(*                                                                         *)
(* A unit goes from a call of writeFrame through the pipe and the buffer   *)
(* of the other end to its reader.  The invariant says of every place what *)
(* it holds: the numbers that the buffer, and behind it the pipe, carry    *)
(* begin where the reader is and end where the writer is (Chain), as long  *)
(* as the stream is alive at the reading end (Live).  That needs the life  *)
(* of an id: nothing is known of it at the other end before its open       *)
(* frame, which comes first in the pipe, and after its close frame nothing *)
(* is accepted.                                                            *)
(***************************************************************************)
EXTENDS StdioMux, FiniteSetTheorems, RangeLemmas

-----------------------------------------------------------------------------
(* What a pipe carries. *)

Is(f, s, types) == f.id = s /\ f.type \in types
Has(p, s, types) == \E i \in DOMAIN p : Is(p[i], s, types)
AllTypes == {"open", "data", "close", "reset"}
Endings == {"close", "reset"}

\* The frame at i is data of s that no close and no reset precedes.
Carries(p, s, i) ==
  /\ i \in DOMAIN p /\ Is(p[i], s, {"data"})
  /\ \A j \in DOMAIN p : j < i => ~Is(p[j], s, Endings)

\* The stream does not break off.
Whole(p, s) ==
  \A i \in DOMAIN p : Is(p[i], s, {"reset"}) =>
    \E j \in DOMAIN p : j < i /\ Is(p[j], s, {"close"})

\* p carries the units from lo on without a hole and in order, up to hi unless
\* the stream breaks off.
Chain(p, s, lo, hi) ==
  /\ \A i \in DOMAIN p : Carries(p, s, i) =>
       /\ p[i].unit \in lo..hi
       /\ \A v \in lo..p[i].unit : \E j \in DOMAIN p : Carries(p, s, j) /\ p[j].unit = v
  /\ \A i, j \in DOMAIN p :
       Carries(p, s, i) /\ Carries(p, s, j) /\ i < j => p[i].unit < p[j].unit
  /\ Whole(p, s) =>
       \A v \in lo..hi : \E i \in DOMAIN p : Carries(p, s, i) /\ p[i].unit = v

\* An open frame is the only one of its stream, or the first of them.
OpenFirst(p, ids) ==
  \A i \in DOMAIN p : p[i].type = "open" =>
    /\ p[i].id \in ids
    /\ \A j \in DOMAIN p : j # i /\ p[j].id = p[i].id => i < j /\ p[j].type # "open"

-----------------------------------------------------------------------------
(* The inductive invariant. *)

Taken(e, s) == got[e][s] + Len(obj[e][s].buffer)

Live(e, s) == /\ ~obj[e][s].local /\ ~obj[e][s].remote
              /\ s \in reg[e] \/ Has(pipe[Other(e)], s, {"open"})

\* e has not heard of s.
Unreached(e, s) ==
  /\ s \notin reg[e] /\ s \notin held[e] /\ s \notin Range(accept[e])
  /\ obj[e][s] = NewStream /\ reader[e] # s
  /\ ~Has(pipe[e], s, AllTypes) /\ \A f \in calls[e] : f.id # s

\* The calls in progress, and what they are about to write.
CallInv ==
  \A e \in Ends : \A f \in calls[e] :
    /\ f.type = "open" =>
         /\ f.id \in Dialled(e) /\ f.id \notin held[e]
         /\ \A g \in calls[e] : g.id = f.id => g = f
    /\ f.type \in {"data", "close"} => f.id \in held[e]
    /\ f.type = "data" => f.unit = sent[e][f.id] + 1
    /\ f.type # "reset"

\* A program has done nothing with a stream it does not hold.
FreshInv ==
  \A e \in Ends, s \in Streams : s \notin held[e] =>
    sent[e][s] = 0 /\ got[e][s] = 0 /\ ~final[e][s] /\ ~obj[e][s].local

\* The open frame is the first that the other end learns of a stream.
OpenInv ==
  \A e \in Ends :
    /\ OpenFirst(pipe[e], Dialled(e))
    /\ \A s \in Dialled(e) :
         /\ s \notin held[e] => ~Has(pipe[e], s, AllTypes) /\ reader[e] # s
         /\ s \notin held[e] \/ Has(pipe[e], s, {"open"}) => Unreached(Other(e), s)
    /\ Range(accept[e]) \subseteq Dialled(Other(e))

\* A close frame is on its way to a stream that is alive.
FinalInv ==
  \A e \in Ends, s \in Streams :
    /\ Has(pipe[e], s, {"close"}) => final[e][s]
    /\ final[e][s] /\ Live(Other(e), s) => Has(pipe[e], s, {"close"})

\* What has been read, buffered and carried.
DataInv ==
  \A e \in Ends, s \in Streams :
    /\ \A i \in DOMAIN obj[e][s].buffer : obj[e][s].buffer[i] = got[e][s] + i
    /\ Taken(e, s) <= sent[Other(e)][s]
    /\ Live(e, s) => Chain(pipe[Other(e)], s, Taken(e, s) + 1, sent[Other(e)][s])

\* Why a stream has ended at the end that reads it.
EndInv ==
  \A e \in Ends, s \in Streams :
    /\ ~obj[e][s].remote => obj[e][s].err = "none"
    /\ obj[e][s].err = "down" => Down(e)
    /\ ~obj[e][s].local /\ obj[e][s].remote /\ obj[e][s].err = "none" =>
         final[Other(e)][s] /\ Taken(e, s) = sent[Other(e)][s]

\* A stream in the table that both ends have closed is about to be swept by the
\* Close that found it closed.
SweepInv ==
  \A e \in Ends : \A s \in reg[e] :
    obj[e][s].local /\ obj[e][s].remote => Frame("close", s, 1) \in calls[e]

SizeInv == \A e \in Ends : IsFiniteSet(reg[e])

IInv == /\ TypeOK /\ CallInv /\ FreshInv /\ OpenInv /\ FinalInv /\ DataInv /\ EndInv
        /\ SweepInv /\ SizeInv

-----------------------------------------------------------------------------
(* Writing to and taking from a pipe. *)

LEMMA AppendAt ==
  ASSUME NEW p \in Seq(Frames), NEW f \in Frames
  PROVE  /\ DOMAIN Append(p, f) = DOMAIN p \cup {Len(p) + 1}
         /\ \A i \in DOMAIN p : i \in Nat /\ i < Len(p) + 1 /\ Append(p, f)[i] = p[i]
         /\ Append(p, f)[Len(p) + 1] = f /\ Len(p) \in Nat /\ Len(p) + 1 \notin DOMAIN p
<1>1. DOMAIN p = 1..Len(p) /\ DOMAIN Append(p, f) = 1..Len(p) + 1 /\ Len(p) \in Nat
  OBVIOUS
<1>2. 1..Len(p) + 1 = (1..Len(p)) \cup {Len(p) + 1}
  BY <1>1
<1> QED BY <1>1, <1>2

LEMMA TailAt ==
  ASSUME NEW p \in Seq(Frames), p # <<>>
  PROVE  /\ \A i \in DOMAIN Tail(p) :
              i + 1 \in DOMAIN p /\ i \in Nat /\ Tail(p)[i] = p[i + 1]
         /\ \A i \in DOMAIN p :
              i \in Nat /\ (i = 1 \/ (i > 1 /\ i - 1 \in DOMAIN Tail(p) /\ Tail(p)[i - 1] = p[i]))
         /\ 1 \in DOMAIN p /\ Head(p) = p[1]
<1>1. /\ DOMAIN p = 1..Len(p) /\ Len(p) \in Nat /\ Len(p) >= 1 /\ Head(p) = p[1]
      /\ DOMAIN Tail(p) = 1..Len(p) - 1
  OBVIOUS
<1>2. \A i \in 1..Len(p) - 1 : Tail(p)[i] = p[i + 1]
  OBVIOUS
<1>3. ASSUME NEW i \in 1..Len(p), i # 1
      PROVE  i > 1 /\ i - 1 \in 1..Len(p) - 1 /\ (i - 1) + 1 = i
  BY <1>1, <1>3
<1>4. ASSUME NEW i \in 1..Len(p), i # 1 PROVE Tail(p)[i - 1] = p[i]
  BY <1>2, <1>3, <1>4
<1> QED BY <1>1, <1>2, <1>3, <1>4

LEMMA HasAppend ==
  ASSUME NEW p \in Seq(Frames), NEW f \in Frames, NEW s, NEW types
  PROVE  Has(Append(p, f), s, types) <=> Has(p, s, types) \/ Is(f, s, types)
BY AppendAt DEF Has

LEMMA HasTail ==
  ASSUME NEW p \in Seq(Frames), p # <<>>, NEW s, NEW types
  PROVE  Has(p, s, types) <=> Is(Head(p), s, types) \/ Has(Tail(p), s, types)
<1>1. Has(p, s, types) => Is(Head(p), s, types) \/ Has(Tail(p), s, types)
  BY TailAt DEF Has
<1>2. Is(Head(p), s, types) \/ Has(Tail(p), s, types) => Has(p, s, types)
  BY TailAt DEF Has
<1> QED BY <1>1, <1>2

LEMMA CarriesAppend ==
  ASSUME NEW p \in Seq(Frames), NEW f \in Frames, NEW s
  PROVE  /\ \A i \in DOMAIN p : Carries(Append(p, f), s, i) <=> Carries(p, s, i)
         /\ Carries(Append(p, f), s, Len(p) + 1) <=> Is(f, s, {"data"}) /\ ~Has(p, s, Endings)
<1>1. \A i \in DOMAIN p : Carries(Append(p, f), s, i) <=> Carries(p, s, i)
  <2> TAKE i \in DOMAIN p
  <2>1. i \in DOMAIN Append(p, f) /\ Append(p, f)[i] = p[i] /\ ~(Len(p) + 1 < i)
    BY AppendAt
  <2>2. \A j \in DOMAIN Append(p, f) : j < i => j \in DOMAIN p
    BY <2>1, AppendAt
  <2> QED BY <2>1, <2>2, AppendAt DEF Carries
<1>2. Carries(Append(p, f), s, Len(p) + 1) <=> Is(f, s, {"data"}) /\ ~Has(p, s, Endings)
  <2>1. /\ Len(p) + 1 \in DOMAIN Append(p, f) /\ Append(p, f)[Len(p) + 1] = f
        /\ \A j \in DOMAIN Append(p, f) : j < Len(p) + 1 <=> j \in DOMAIN p
    BY AppendAt
  <2> QED BY <2>1, AppendAt DEF Carries, Has
<1> QED BY <1>1, <1>2

LEMMA WholeAppend ==
  ASSUME NEW p \in Seq(Frames), NEW f \in Frames, NEW s, Whole(Append(p, f), s)
  PROVE  Whole(p, s)
<1> SUFFICES ASSUME NEW i \in DOMAIN p, Is(p[i], s, {"reset"})
             PROVE  \E j \in DOMAIN p : j < i /\ Is(p[j], s, {"close"})
  BY DEF Whole
<1>1. PICK j \in DOMAIN Append(p, f) : j < i /\ Is(Append(p, f)[j], s, {"close"})
  BY AppendAt DEF Whole
<1>2. j \in DOMAIN p
  BY <1>1, AppendAt
<1> QED BY <1>1, <1>2, AppendAt

LEMMA CarriesTail ==
  ASSUME NEW p \in Seq(Frames), p # <<>>, NEW s, ~Is(Head(p), s, Endings)
  PROVE  \A i \in DOMAIN Tail(p) : Carries(Tail(p), s, i) <=> Carries(p, s, i + 1)
<1> TAKE i \in DOMAIN Tail(p)
<1>1. i + 1 \in DOMAIN p /\ Tail(p)[i] = p[i + 1] /\ i \in Nat
  BY TailAt
<1>2. ASSUME Carries(Tail(p), s, i) PROVE Carries(p, s, i + 1)
  <2>1. ASSUME NEW j \in DOMAIN p, j < i + 1 PROVE ~Is(p[j], s, Endings)
    <3>1. CASE j = 1
      BY <3>1, TailAt
    <3>2. CASE j # 1
      <4>1. j - 1 \in DOMAIN Tail(p) /\ Tail(p)[j - 1] = p[j] /\ j \in Nat
        BY <3>2, TailAt
      <4>2. j - 1 < i
        BY <1>1, <2>1, <4>1
      <4> QED BY <1>2, <4>1, <4>2 DEF Carries
    <3> QED BY <3>1, <3>2
  <2> QED BY <1>1, <1>2, <2>1 DEF Carries
<1>3. ASSUME Carries(p, s, i + 1) PROVE Carries(Tail(p), s, i)
  <2>1. ASSUME NEW j \in DOMAIN Tail(p), j < i PROVE ~Is(Tail(p)[j], s, Endings)
    <3>1. j + 1 \in DOMAIN p /\ Tail(p)[j] = p[j + 1] /\ j \in Nat
      BY TailAt
    <3>2. j + 1 < i + 1
      BY <1>1, <2>1, <3>1
    <3> QED BY <1>3, <3>1, <3>2 DEF Carries
  <2> QED BY <1>1, <1>3, <2>1 DEF Carries
<1> QED BY <1>2, <1>3

LEMMA WholeTail ==
  ASSUME NEW p \in Seq(Frames), p # <<>>, NEW s, ~Is(Head(p), s, Endings), Whole(Tail(p), s)
  PROVE  Whole(p, s)
<1> SUFFICES ASSUME NEW i \in DOMAIN p, Is(p[i], s, {"reset"})
             PROVE  \E j \in DOMAIN p : j < i /\ Is(p[j], s, {"close"})
  BY DEF Whole
<1>1. i # 1
  BY TailAt DEF Is, Endings
<1>2. i \in Nat /\ i - 1 \in DOMAIN Tail(p) /\ Tail(p)[i - 1] = p[i]
  BY <1>1, TailAt
<1>3. PICK j \in DOMAIN Tail(p) : j < i - 1 /\ Is(Tail(p)[j], s, {"close"})
  BY <1>2 DEF Whole
<1>4. j + 1 \in DOMAIN p /\ Tail(p)[j] = p[j + 1] /\ j \in Nat
  BY TailAt
<1>5. j + 1 < i
  BY <1>2, <1>3, <1>4
<1> QED BY <1>3, <1>4, <1>5

\* A frame that is not data of the stream, or comes after its end, changes
\* nothing for the stream.
LEMMA ChainQuiet ==
  ASSUME NEW p \in Seq(Frames), NEW f \in Frames, NEW s, NEW lo \in Nat, NEW hi \in Nat,
         Chain(p, s, lo, hi), ~Is(f, s, {"data"}) \/ Has(p, s, Endings)
  PROVE  Chain(Append(p, f), s, lo, hi)
<1> DEFINE q == Append(p, f)
<1>1. \A i \in DOMAIN q : Carries(q, s, i) => i \in DOMAIN p /\ Carries(p, s, i) /\ q[i] = p[i]
  BY AppendAt, CarriesAppend
<1>2. \A i \in DOMAIN p : i \in DOMAIN q /\ q[i] = p[i] /\ (Carries(p, s, i) => Carries(q, s, i))
  BY AppendAt, CarriesAppend
<1>3. Whole(q, s) => Whole(p, s)
  BY WholeAppend
<1> HIDE DEF q
<1>4. ASSUME NEW i \in DOMAIN q, Carries(q, s, i)
      PROVE  /\ q[i].unit \in lo..hi
             /\ \A v \in lo..q[i].unit : \E j \in DOMAIN q : Carries(q, s, j) /\ q[j].unit = v
  BY <1>1, <1>2, <1>4 DEF Chain
<1>5. \A i, j \in DOMAIN q : Carries(q, s, i) /\ Carries(q, s, j) /\ i < j => q[i].unit < q[j].unit
  BY <1>1 DEF Chain
<1>6. Whole(q, s) => \A v \in lo..hi : \E i \in DOMAIN q : Carries(q, s, i) /\ q[i].unit = v
  BY <1>2, <1>3 DEF Chain
<1>7. Chain(q, s, lo, hi)
  BY <1>4, <1>5, <1>6 DEF Chain
<1> QED BY <1>7 DEF q

\* The next unit is written.
LEMMA ChainGrows ==
  ASSUME NEW p \in Seq(Frames), NEW f \in Frames, NEW s, NEW lo \in Nat, NEW hi \in Nat,
         Chain(p, s, lo, hi), Is(f, s, {"data"}), f.unit = hi + 1, lo <= hi + 1,
         ~Has(p, s, {"close"})
  PROVE  Chain(Append(p, f), s, lo, hi + 1)
<1> DEFINE q == Append(p, f)
           n == Len(p) + 1
<1>1. \A i \in DOMAIN q : Carries(q, s, i) =>
        \/ i \in DOMAIN p /\ Carries(p, s, i) /\ q[i] = p[i] /\ i < n
        \/ i = n /\ q[i].unit = hi + 1 /\ ~Has(p, s, Endings)
  BY AppendAt, CarriesAppend
<1>2. \A i \in DOMAIN p : i \in DOMAIN q /\ q[i] = p[i] /\ i \in Nat
                          /\ (Carries(p, s, i) => Carries(q, s, i))
  BY AppendAt, CarriesAppend
<1>3. Whole(q, s) => Whole(p, s)
  BY WholeAppend
<1>4. /\ n \in DOMAIN q /\ n \in Nat /\ q[n].unit = hi + 1
      /\ ~Has(p, s, Endings) => Carries(q, s, n)
  BY AppendAt, CarriesAppend
<1>5. Whole(p, s) => ~Has(p, s, Endings)
  BY DEF Whole, Has, Is, Endings
<1> HIDE DEF q, n
<1>6. \A v \in lo..(hi + 1) : v \in lo..hi \/ v = hi + 1
  OBVIOUS
<1>7. Whole(p, s) => \A v \in lo..hi : \E i \in DOMAIN q : Carries(q, s, i) /\ q[i].unit = v
  BY <1>2 DEF Chain
<1>8. ~Has(p, s, Endings) => Whole(p, s)
  BY DEF Has, Whole, Is, Endings
<1>9. ASSUME NEW i \in DOMAIN q, Carries(q, s, i)
      PROVE  /\ q[i].unit \in lo..(hi + 1)
             /\ \A v \in lo..q[i].unit : \E j \in DOMAIN q : Carries(q, s, j) /\ q[j].unit = v
  <2>1. CASE i \in DOMAIN p /\ Carries(p, s, i) /\ q[i] = p[i]
    <3>1. q[i].unit \in lo..hi
      BY <2>1 DEF Chain
    <3>2. \A v \in lo..q[i].unit : \E j \in DOMAIN p : Carries(p, s, j) /\ p[j].unit = v
      BY <2>1 DEF Chain
    <3>3. q[i].unit \in lo..(hi + 1)
      BY <3>1
    <3> QED BY <1>2, <3>2, <3>3
  <2>2. CASE q[i].unit = hi + 1 /\ ~Has(p, s, Endings)
    <3>1. \A v \in lo..(hi + 1) : \E j \in DOMAIN q : Carries(q, s, j) /\ q[j].unit = v
      BY <1>4, <1>6, <1>7, <1>8, <2>2
    <3>2. q[i].unit \in lo..(hi + 1)
      BY <2>2
    <3> QED BY <2>2, <3>1, <3>2
  <2> QED BY <1>1, <1>9, <2>1, <2>2
<1>10. ASSUME NEW i \in DOMAIN q, NEW j \in DOMAIN q, Carries(q, s, i), Carries(q, s, j), i < j
       PROVE  q[i].unit < q[j].unit
  <2>1. CASE j \in DOMAIN p /\ Carries(p, s, j) /\ q[j] = p[j] /\ j < n
    <3>1. i \in DOMAIN p /\ Carries(p, s, i) /\ q[i] = p[i]
      BY <1>1, <1>2, <1>4, <1>10, <2>1
    <3> QED BY <1>10, <2>1, <3>1 DEF Chain
  <2>2. CASE j = n /\ q[j].unit = hi + 1
    <3>1. i \in DOMAIN p /\ Carries(p, s, i) /\ q[i] = p[i]
      BY <1>1, <1>4, <1>10, <2>2
    <3>2. q[i].unit \in lo..hi
      BY <3>1 DEF Chain
    <3> QED BY <2>2, <3>2
  <2> QED BY <1>1, <1>10, <2>1, <2>2
<1>11. Whole(q, s) =>
         \A v \in lo..(hi + 1) : \E i \in DOMAIN q : Carries(q, s, i) /\ q[i].unit = v
  BY <1>3, <1>4, <1>5, <1>6, <1>7
<1>12. Chain(q, s, lo, hi + 1)
  BY <1>9, <1>10, <1>11 DEF Chain
<1> QED BY <1>12 DEF q

\* A frame that is neither data of the stream nor its end is taken.
LEMMA ChainSkips ==
  ASSUME NEW p \in Seq(Frames), p # <<>>, NEW s, NEW lo \in Nat, NEW hi \in Nat,
         Chain(p, s, lo, hi), ~Is(Head(p), s, {"data", "close", "reset"})
  PROVE  Chain(Tail(p), s, lo, hi)
<1> DEFINE q == Tail(p)
<1>1. ~Is(Head(p), s, Endings) /\ ~Is(Head(p), s, {"data"})
  BY DEF Is, Endings
<1>2. \A i \in DOMAIN q : i \in Nat /\ i + 1 \in DOMAIN p /\ q[i] = p[i + 1]
                          /\ (Carries(q, s, i) => Carries(p, s, i + 1))
  BY <1>1, TailAt, CarriesTail
<1>3. \A i \in DOMAIN p : Carries(p, s, i) =>
        \E j \in DOMAIN q : Carries(q, s, j) /\ q[j] = p[i]
  <2> TAKE i \in DOMAIN p
  <2> HAVE Carries(p, s, i)
  <2>1. i # 1
    BY <1>1, TailAt DEF Carries
  <2>2. i \in Nat /\ i - 1 \in DOMAIN q /\ q[i - 1] = p[i] /\ (i - 1) + 1 = i
    BY <2>1, TailAt
  <2> QED BY <1>1, <2>2, CarriesTail
<1>4. Whole(q, s) => Whole(p, s)
  BY <1>1, WholeTail
<1> HIDE DEF q
<1>5. ASSUME NEW i \in DOMAIN q, Carries(q, s, i)
      PROVE  /\ q[i].unit \in lo..hi
             /\ \A v \in lo..q[i].unit : \E j \in DOMAIN q : Carries(q, s, j) /\ q[j].unit = v
  <2>1. i + 1 \in DOMAIN p /\ Carries(p, s, i + 1) /\ q[i] = p[i + 1]
    BY <1>2, <1>5
  <2>2. /\ q[i].unit \in lo..hi
        /\ \A v \in lo..q[i].unit : \E j \in DOMAIN p : Carries(p, s, j) /\ p[j].unit = v
    BY <2>1 DEF Chain
  <2> QED BY <1>3, <2>2
<1>6. ASSUME NEW i \in DOMAIN q, NEW j \in DOMAIN q, Carries(q, s, i), Carries(q, s, j), i < j
      PROVE  q[i].unit < q[j].unit
  <2>1. i + 1 < j + 1
    BY <1>2, <1>6
  <2> QED BY <1>2, <1>6, <2>1 DEF Chain
<1>7. Whole(q, s) => \A v \in lo..hi : \E i \in DOMAIN q : Carries(q, s, i) /\ q[i].unit = v
  BY <1>3, <1>4 DEF Chain
<1>8. Chain(q, s, lo, hi)
  BY <1>5, <1>6, <1>7 DEF Chain
<1> QED BY <1>8 DEF q

\* Data is taken: it is the unit the reader is waiting for.
LEMMA ChainTaken ==
  ASSUME NEW p \in Seq(Frames), p # <<>>, NEW s, NEW lo \in Nat, NEW hi \in Nat,
         Chain(p, s, lo, hi), Is(Head(p), s, {"data"})
  PROVE  Head(p).unit = lo /\ lo <= hi /\ Chain(Tail(p), s, lo + 1, hi)
<1> DEFINE q == Tail(p)
<1>1. ~Is(Head(p), s, Endings)
  BY DEF Is, Endings
<1>2. Carries(p, s, 1) /\ 1 \in DOMAIN p /\ p[1] = Head(p)
  BY TailAt DEF Carries
<1>3. p[1].unit \in lo..hi
  BY <1>2 DEF Chain
<1>4. lo <= hi /\ p[1].unit \in Nat /\ lo \in lo..p[1].unit
  BY <1>3
<1>5. PICK k \in DOMAIN p : Carries(p, s, k) /\ p[k].unit = lo
  BY <1>2, <1>4 DEF Chain
<1>6. p[1].unit = lo
  <2>1. CASE k = 1
    BY <1>5, <2>1
  <2>2. CASE k # 1
    <3>1. 1 < k
      BY <2>2, TailAt
    <3>2. p[1].unit < p[k].unit
      BY <1>2, <1>5, <3>1 DEF Chain
    <3> QED BY <1>3, <1>5, <3>2
  <2> QED BY <2>1, <2>2
<1>7. \A i \in DOMAIN q : i \in Nat /\ i + 1 \in DOMAIN p /\ q[i] = p[i + 1]
                          /\ (Carries(q, s, i) => Carries(p, s, i + 1))
  BY <1>1, TailAt, CarriesTail
<1>8. \A i \in DOMAIN p : Carries(p, s, i) /\ p[i].unit # lo =>
        \E j \in DOMAIN q : Carries(q, s, j) /\ q[j] = p[i]
  <2> TAKE i \in DOMAIN p
  <2> HAVE Carries(p, s, i) /\ p[i].unit # lo
  <2>1. i # 1
    BY <1>6
  <2>2. i \in Nat /\ i - 1 \in DOMAIN q /\ q[i - 1] = p[i] /\ (i - 1) + 1 = i
    BY <2>1, TailAt
  <2> QED BY <1>1, <2>2, CarriesTail
<1>9. Whole(q, s) => Whole(p, s)
  BY <1>1, WholeTail
<1> HIDE DEF q
<1>10. \A v \in (lo + 1)..hi : v \in lo..hi /\ v # lo
  OBVIOUS
<1>11. ASSUME NEW i \in DOMAIN q, Carries(q, s, i)
       PROVE  /\ q[i].unit \in (lo + 1)..hi
              /\ \A v \in (lo + 1)..q[i].unit :
                   \E j \in DOMAIN q : Carries(q, s, j) /\ q[j].unit = v
  <2>1. i + 1 \in DOMAIN p /\ Carries(p, s, i + 1) /\ q[i] = p[i + 1] /\ 1 < i + 1
    BY <1>7, <1>11
  <2>2. /\ q[i].unit \in lo..hi /\ lo < q[i].unit
        /\ \A v \in lo..q[i].unit : \E j \in DOMAIN p : Carries(p, s, j) /\ p[j].unit = v
    BY <1>2, <1>6, <2>1 DEF Chain
  <2>3. q[i].unit \in (lo + 1)..hi /\ \A v \in (lo + 1)..q[i].unit : v \in lo..q[i].unit /\ v # lo
    BY <2>2
  <2> QED BY <1>8, <2>2, <2>3
<1>12. ASSUME NEW i \in DOMAIN q, NEW j \in DOMAIN q, Carries(q, s, i), Carries(q, s, j), i < j
       PROVE  q[i].unit < q[j].unit
  <2>1. i + 1 < j + 1
    BY <1>7, <1>12
  <2> QED BY <1>7, <1>12, <2>1 DEF Chain
<1>13. Whole(q, s) =>
         \A v \in (lo + 1)..hi : \E i \in DOMAIN q : Carries(q, s, i) /\ q[i].unit = v
  BY SMTT(40), <1>8, <1>9, <1>10 DEF Chain
<1>14. Chain(q, s, lo + 1, hi)
  BY <1>11, <1>12, <1>13 DEF Chain
<1> QED BY <1>2, <1>4, <1>6, <1>14 DEF q

\* When the close frame is next, everything has been taken.
LEMMA ChainEnds ==
  ASSUME NEW p \in Seq(Frames), p # <<>>, NEW s, NEW lo \in Nat, NEW hi \in Nat,
         Chain(p, s, lo, hi), Is(Head(p), s, {"close"})
  PROVE  ~(lo <= hi)
<1>1. 1 \in DOMAIN p /\ p[1] = Head(p) /\ \A i \in DOMAIN p : i \in Nat /\ (i # 1 => 1 < i)
  BY TailAt
<1>2. \A i \in DOMAIN p : ~Carries(p, s, i)
  BY <1>1 DEF Carries, Is, Endings
<1>3. Whole(p, s)
  BY <1>1 DEF Whole, Is
<1>4. \A v \in lo..hi : FALSE
  BY <1>2, <1>3 DEF Chain
<1>5. lo <= hi => lo \in lo..hi
  OBVIOUS
<1> QED BY <1>4, <1>5

\* A pipe without frames of the stream carries nothing.
LEMMA ChainNone ==
  ASSUME NEW p, NEW s, NEW hi \in Nat, NEW lo \in Nat, hi < lo, ~Has(p, s, AllTypes)
  PROVE  Chain(p, s, lo, hi)
<1>1. \A i \in DOMAIN p : ~Carries(p, s, i)
  BY DEF Has, Carries, Is, AllTypes
<1>2. \A v \in lo..hi : FALSE
  OBVIOUS
<1> QED BY <1>1, <1>2 DEF Chain

-----------------------------------------------------------------------------
(* The two ends, and the pieces of the state. *)

LEMMA TwoEnds ==
  /\ Host \in Ends /\ Runner \in Ends
  /\ \A e \in Ends : Other(e) \in Ends /\ Other(e) # e /\ Other(Other(e)) = e
  /\ \A e, d \in Ends : d = e \/ d = Other(e)
  /\ \A e \in Ends : Dialled(e) \subseteq Streams /\ Dialled(e) \cap Dialled(Other(e)) = {}
BY MuxAssumption DEF Ends, Other, Dialled, Streams

LEMMA PeerIsOther == \A e \in Ends : Pairs!Peer(e) = Other(e)
<1> SUFFICES ASSUME NEW e \in Ends PROVE (CHOOSE f \in Ends : f # e) = Other(e)
  BY DEF Pairs!Peer
<1>1. \E f \in Ends : f # e
  BY TwoEnds
<1>2. \A f \in Ends : f # e => f = Other(e)
  BY TwoEnds
<1> QED BY <1>1, <1>2

LEMMA FrameType ==
  /\ \A t \in {"open", "data", "close", "reset"}, s \in Streams, n \in Nat : Frame(t, s, n) \in Frames
  /\ \A t, s, n : Frame(t, s, n).type = t /\ Frame(t, s, n).id = s /\ Frame(t, s, n).unit = n
  /\ \A f \in Frames : f.id \in Streams /\ f.unit \in Nat /\ f.type \in AllTypes
BY DEF Frame, Frames, AllTypes

LEMMA Types ==
  ASSUME TypeOK, NEW e \in Ends
  PROVE  /\ reg[e] \subseteq Streams /\ held[e] \subseteq Streams
         /\ accept[e] \in Seq(Streams) /\ pipe[e] \in Seq(Frames) /\ calls[e] \subseteq Frames
         /\ reader[e] \in Streams \cup {None} /\ done[e] \in {"up", "eof", "closed"}
         /\ \A s \in Streams :
              /\ obj[e][s] \in Objects /\ sent[e][s] \in Nat /\ got[e][s] \in Nat
              /\ final[e][s] \in BOOLEAN /\ ended[e][s] \in {"open", "eof", "error"}
BY DEF TypeOK

\* What the code does to a stream object.
LEMMA ObjectType ==
  ASSUME NEW o \in Objects
  PROVE  /\ o.buffer \in Seq(Nat) /\ Len(o.buffer) \in Nat
         /\ o.remote \in BOOLEAN /\ o.local \in BOOLEAN
         /\ o.err \in {"none", "reset", "overflow", "down"}
BY DEF Objects

LEMMA LocalClosed ==
  ASSUME NEW o \in Objects, NEW p, p = [o EXCEPT !.local = TRUE]
  PROVE  /\ p \in Objects /\ p.local
         /\ p.buffer = o.buffer /\ p.remote = o.remote /\ p.err = o.err
BY DEF Objects

LEMMA NewIsObject ==
  NewStream \in Objects /\ Len(NewStream.buffer) = 0 /\ ~NewStream.local /\ ~NewStream.remote
  /\ NewStream.err = "none"
BY DEF NewStream, Objects

-----------------------------------------------------------------------------
(* What each action changes, at each end and stream, and that it keeps the types. *)

LEMMA DialStep ==
  ASSUME TypeOK, NEW e \in Ends, NEW s \in Streams, Dial(e, s)
  PROVE  /\ s \in Dialled(e) /\ s \notin reg[e] /\ s \notin held[e] /\ obj[e][s] = NewStream
         /\ \A f \in calls[e] : f.id # s
         /\ \A d \in Ends : reg'[d] = IF d = e THEN reg[d] \cup {s} ELSE reg[d]
         /\ \A d \in Ends :
              calls'[d] = IF d = e THEN calls[d] \cup {Frame("open", s, 0)} ELSE calls[d]
         /\ UNCHANGED <<obj, accept, done, pipe, reader, held, sent, final, got, ended>>
         /\ TypeOK'
<1>1. /\ s \in Dialled(e) /\ s \notin reg[e] /\ s \notin held[e] /\ obj[e][s] = NewStream
      /\ \A f \in calls[e] : f.id # s
      /\ UNCHANGED <<obj, accept, done, pipe, reader, held, sent, final, got, ended>>
  BY DEF Dial
<1>2. /\ \A d \in Ends : reg'[d] = IF d = e THEN reg[d] \cup {s} ELSE reg[d]
      /\ \A d \in Ends :
           calls'[d] = IF d = e THEN calls[d] \cup {Frame("open", s, 0)} ELSE calls[d]
  BY DEF Dial, TypeOK
<1>3. reg' \in [Ends -> SUBSET Streams]
  BY DEF Dial, TypeOK
<1>4. calls' \in [Ends -> SUBSET Frames]
  BY FrameType DEF Dial, TypeOK
<1>5. \A d \in Ends : Cardinality(reg'[d] \ Dialled(d)) <= MaxStreams
  <2> TAKE d \in Ends
  <2>1. reg'[d] \ Dialled(d) = reg[d] \ Dialled(d)
    BY <1>1, <1>2
  <2> QED BY <2>1 DEF TypeOK
<1>6. TypeOK'
  BY <1>1, <1>3, <1>4, <1>5 DEF TypeOK
<1> QED BY <1>1, <1>2, <1>6

LEMMA WriteStep ==
  ASSUME TypeOK, NEW e \in Ends, NEW s \in Streams, Write(e, s)
  PROVE  /\ s \in held[e] /\ ~obj[e][s].local
         /\ \A d \in Ends :
              calls'[d] = IF d = e THEN calls[d] \cup {Frame("data", s, sent[e][s] + 1)}
                          ELSE calls[d]
         /\ UNCHANGED <<reg, obj, accept, done, pipe, reader, held, sent, final, got, ended>>
         /\ TypeOK'
<1>1. /\ s \in held[e] /\ ~obj[e][s].local
      /\ UNCHANGED <<reg, obj, accept, done, pipe, reader, held, sent, final, got, ended>>
  BY DEF Write
<1>2. \A d \in Ends :
        calls'[d] = IF d = e THEN calls[d] \cup {Frame("data", s, sent[e][s] + 1)} ELSE calls[d]
  BY DEF Write, TypeOK
<1>3. Frame("data", s, sent[e][s] + 1) \in Frames
  BY FrameType, Types
<1>4. calls' \in [Ends -> SUBSET Frames]
  BY <1>3 DEF Write, TypeOK
<1>5. TypeOK'
  BY <1>1, <1>4 DEF TypeOK
<1> QED BY <1>1, <1>2, <1>5

LEMMA CloseStep ==
  ASSUME TypeOK, NEW e \in Ends, NEW s \in Streams, Close(e, s)
  PROVE  /\ s \in held[e] /\ ~obj[e][s].local
         /\ obj'[e][s].local
         /\ obj'[e][s].buffer = obj[e][s].buffer /\ obj'[e][s].remote = obj[e][s].remote
         /\ obj'[e][s].err = obj[e][s].err
         /\ \A d \in Ends, x \in Streams : d # e \/ x # s => obj'[d][x] = obj[d][x]
         /\ \A d \in Ends :
              calls'[d] = IF d = e THEN calls[d] \cup
                            {Frame("close", s, IF obj[e][s].remote THEN 1 ELSE 0)}
                          ELSE calls[d]
         /\ UNCHANGED <<reg, accept, done, pipe, reader, held, sent, final, got, ended>>
         /\ TypeOK'
<1> DEFINE o == [obj[e][s] EXCEPT !.local = TRUE]
<1>1. /\ s \in held[e] /\ ~obj[e][s].local /\ obj' = [obj EXCEPT ![e][s] = o]
      /\ UNCHANGED <<reg, accept, done, pipe, reader, held, sent, final, got, ended>>
  BY DEF Close
<1>2. \A d \in Ends :
        calls'[d] = IF d = e THEN calls[d] \cup
                      {Frame("close", s, IF obj[e][s].remote THEN 1 ELSE 0)}
                    ELSE calls[d]
  BY DEF Close, TypeOK
<1>3. /\ o \in Objects /\ o.local
      /\ o.buffer = obj[e][s].buffer /\ o.remote = obj[e][s].remote /\ o.err = obj[e][s].err
  BY Types, LocalClosed
<1> HIDE DEF o
<1>4. /\ obj' \in [Ends -> [Streams -> Objects]] /\ obj'[e][s] = o
      /\ \A d \in Ends, x \in Streams : d # e \/ x # s => obj'[d][x] = obj[d][x]
  BY <1>1, <1>3 DEF TypeOK
<1>5. Frame("close", s, IF obj[e][s].remote THEN 1 ELSE 0) \in Frames
  BY FrameType
<1>6. calls' \in [Ends -> SUBSET Frames]
  BY <1>5 DEF Close, TypeOK
<1>7. \A d \in Ends, x \in Streams : Len(obj'[d][x].buffer) <= MaxBuffered
  BY <1>3, <1>4 DEF TypeOK
<1>8. TypeOK'
  BY <1>1, <1>4, <1>6, <1>7 DEF TypeOK
<1> QED BY <1>1, <1>2, <1>3, <1>4, <1>8

\* shutdown: the streams of the table, and no other object, learn of it.
LEMMA ShutDownStep ==
  ASSUME TypeOK, NEW e \in Ends, NEW why \in {"eof", "closed"}, ShutDown(e, why)
  PROVE  /\ ~Down(e) /\ Down(e)'
         /\ \A d \in Ends : d # e => done'[d] = done[d]
         /\ \A x \in reg[e] :
              /\ obj'[e][x].remote /\ obj'[e][x].err = "down"
              /\ obj'[e][x].buffer = obj[e][x].buffer /\ obj'[e][x].local = obj[e][x].local
         /\ \A d \in Ends, x \in Streams : d # e \/ x \notin reg[e] => obj'[d][x] = obj[d][x]
         /\ done' \in [Ends -> {"up", "eof", "closed"}]
         /\ obj' \in [Ends -> [Streams -> Objects]]
         /\ \A d \in Ends, x \in Streams : Len(obj'[d][x].buffer) <= MaxBuffered
<1> DEFINE shut(x) == [obj[e][x] EXCEPT !.remote = TRUE, !.err = "down"]
<1>1. /\ ~Down(e) /\ done' = [done EXCEPT ![e] = why]
      /\ obj' = [obj EXCEPT ![e] = [x \in Streams |-> IF x \in reg[e] THEN shut(x) ELSE obj[e][x]]]
  BY DEF ShutDown
<1>2. \A x \in Streams :
        /\ shut(x) \in Objects /\ shut(x).remote /\ shut(x).err = "down"
        /\ shut(x).buffer = obj[e][x].buffer /\ shut(x).local = obj[e][x].local
  <2> TAKE x \in Streams
  <2>1. obj[e][x] \in Objects
    BY Types
  <2> QED BY <2>1 DEF Objects
<1> HIDE DEF shut
<1>3. /\ \A d \in Ends, x \in Streams : d # e \/ x \notin reg[e] => obj'[d][x] = obj[d][x]
      /\ \A x \in Streams : x \in reg[e] => obj'[e][x] = shut(x)
  BY <1>1 DEF TypeOK
<1>4. obj' \in [Ends -> [Streams -> Objects]]
  BY <1>1, <1>2 DEF TypeOK
<1>5. reg[e] \subseteq Streams
  BY Types
<1>6. \A d \in Ends, x \in Streams : Len(obj'[d][x].buffer) <= MaxBuffered
  <2> TAKE d \in Ends, x \in Streams
  <2>1. CASE d = e /\ x \in reg[e]
    BY <1>2, <1>3, <2>1 DEF TypeOK
  <2>2. CASE ~(d = e /\ x \in reg[e])
    BY <1>3, <2>2 DEF TypeOK
  <2> QED BY <2>1, <2>2
<1>7. /\ Down(e)' /\ done' \in [Ends -> {"up", "eof", "closed"}]
      /\ \A d \in Ends : d # e => done'[d] = done[d]
  BY <1>1 DEF Down, TypeOK
<1> QED BY <1>1, <1>2, <1>3, <1>4, <1>5, <1>6, <1>7

\* A table that loses streams stays within its limit.
LEMMA TableShrinks ==
  ASSUME TypeOK, SizeInv, NEW e \in Ends, NEW r, r \subseteq reg[e]
  PROVE  Cardinality(r \ Dialled(e)) <= MaxStreams /\ IsFiniteSet(r)
<1>1. IsFiniteSet(reg[e] \ Dialled(e)) /\ IsFiniteSet(r)
  BY FS_Subset DEF SizeInv
<1>2. r \ Dialled(e) \subseteq reg[e] \ Dialled(e)
  OBVIOUS
<1>3. /\ IsFiniteSet(r \ Dialled(e))
      /\ Cardinality(r \ Dialled(e)) <= Cardinality(reg[e] \ Dialled(e))
  BY <1>1, <1>2, FS_Subset
<1>4. Cardinality(reg[e] \ Dialled(e)) <= MaxStreams
  BY DEF TypeOK
<1>5. Cardinality(r \ Dialled(e)) \in Nat /\ Cardinality(reg[e] \ Dialled(e)) \in Nat
  BY <1>1, <1>3, FS_CardinalityType
<1> QED BY <1>1, <1>3, <1>4, <1>5, MuxAssumption

Written(f) == Frame(f.type, f.id, IF f.type = "data" THEN f.unit ELSE 0)

LEMMA WriteFrameStep ==
  ASSUME TypeOK, SizeInv, NEW e \in Ends, NEW f, WriteFrame(e, f)
  PROVE  /\ f \in calls[e] /\ f \in Frames /\ ~Down(e)
         /\ Written(f) \in Frames /\ Written(f).id = f.id /\ Written(f).type = f.type
         /\ f.type = "data" => Written(f).unit = f.unit
         /\ pipe'[e] = Append(pipe[e], Written(f)) /\ pipe'[Other(e)] = pipe[Other(e)]
         /\ calls'[e] = calls[e] \ {f}
         /\ f.type = "close" /\ f.unit = 1 => reg'[e] = reg[e] \ {f.id}
         /\ ~(f.type = "close" /\ f.unit = 1) => reg'[e] = reg[e]
         /\ f.type = "open" => held'[e] = held[e] \cup {f.id}
         /\ f.type # "open" => held'[e] = held[e]
         /\ \A d \in Ends : d # e =>
              calls'[d] = calls[d] /\ reg'[d] = reg[d] /\ held'[d] = held[d]
         /\ \A d \in Ends, x \in Streams :
              sent'[d][x] = IF d = e /\ x = f.id /\ f.type = "data" /\ ~final[d][x]
                            THEN sent[d][x] + 1 ELSE sent[d][x]
         /\ \A d \in Ends, x \in Streams :
              final'[d][x] <=> final[d][x] \/ (d = e /\ x = f.id /\ f.type = "close")
         /\ UNCHANGED <<obj, accept, done, reader, got, ended>>
         /\ TypeOK'
<1>1. /\ f \in calls[e] /\ f \in Frames /\ ~Down(e) /\ Len(pipe[e]) < PipeCap
      /\ pipe' = [pipe EXCEPT ![e] = Append(@, Written(f))]
      /\ UNCHANGED <<obj, accept, done, reader, got, ended>>
  BY Types DEF WriteFrame, Written
<1>2. /\ Written(f) \in Frames /\ Written(f).id = f.id /\ Written(f).type = f.type
      /\ f.type = "data" => Written(f).unit = f.unit
  BY <1>1, FrameType DEF Written, AllTypes
<1>3. /\ calls' = [calls EXCEPT ![e] = @ \ {f}]
      /\ reg' = [reg EXCEPT ![e] = IF f.type = "close" /\ f.unit = 1
                                   THEN reg[e] \ {f.id} ELSE reg[e]]
      /\ held' = [held EXCEPT ![e] = IF f.type = "open" THEN @ \cup {f.id} ELSE @]
      /\ sent' = [sent EXCEPT ![e][f.id] =
                    IF f.type = "data" /\ ~final[e][f.id] THEN @ + 1 ELSE @]
      /\ final' = [final EXCEPT ![e][f.id] = @ \/ f.type = "close"]
  BY DEF WriteFrame, Returned
<1>4. f.id \in Streams
  BY <1>1, FrameType
<1>5. /\ pipe'[e] = Append(pipe[e], Written(f)) /\ pipe'[Other(e)] = pipe[Other(e)]
      /\ pipe' \in [Ends -> Seq(Frames)]
  BY <1>1, <1>2, TwoEnds DEF TypeOK
<1>6. \A d \in Ends : Len(pipe'[d]) <= PipeCap
  <2> TAKE d \in Ends
  <2>1. Len(Append(pipe[e], Written(f))) = Len(pipe[e]) + 1 /\ Len(pipe[e]) \in Nat
    BY <1>2, Types
  <2>2. Len(pipe'[e]) <= PipeCap
    BY <1>1, <1>5, <2>1, MuxAssumption
  <2> QED BY <1>5, <2>2, TwoEnds DEF TypeOK
<1>7. /\ calls'[e] = calls[e] \ {f}
      /\ f.type = "close" /\ f.unit = 1 => reg'[e] = reg[e] \ {f.id}
      /\ ~(f.type = "close" /\ f.unit = 1) => reg'[e] = reg[e]
      /\ f.type = "open" => held'[e] = held[e] \cup {f.id}
      /\ f.type # "open" => held'[e] = held[e]
      /\ \A d \in Ends : d # e =>
           calls'[d] = calls[d] /\ reg'[d] = reg[d] /\ held'[d] = held[d]
  BY <1>3 DEF TypeOK
<1>8. /\ calls' \in [Ends -> SUBSET Frames] /\ reg' \in [Ends -> SUBSET Streams]
      /\ held' \in [Ends -> SUBSET Streams]
  BY <1>3, <1>4 DEF TypeOK
<1>9. \A d \in Ends, x \in Streams :
        sent'[d][x] = IF d = e /\ x = f.id /\ f.type = "data" /\ ~final[d][x]
                      THEN sent[d][x] + 1 ELSE sent[d][x]
  BY <1>3, <1>4 DEF TypeOK
<1>10. \A d \in Ends, x \in Streams :
         final'[d][x] <=> final[d][x] \/ (d = e /\ x = f.id /\ f.type = "close")
  BY <1>3, <1>4 DEF TypeOK
<1>11. sent' \in [Ends -> [Streams -> Nat]] /\ final' \in [Ends -> [Streams -> BOOLEAN]]
  BY <1>3, <1>4 DEF TypeOK
<1>12. \A d \in Ends : Cardinality(reg'[d] \ Dialled(d)) <= MaxStreams
  <2> TAKE d \in Ends
  <2>1. reg'[d] \subseteq reg[d]
    <3>1. d # e => reg'[d] = reg[d]
      BY <1>7
    <3>2. reg'[e] \subseteq reg[e]
      BY <1>7
    <3> QED BY <3>1, <3>2
  <2> QED BY <2>1, TableShrinks
<1>13. TypeOK'
  BY <1>1, <1>5, <1>6, <1>8, <1>11, <1>12 DEF TypeOK
<1> QED BY <1>1, <1>2, <1>5, <1>7, <1>9, <1>10, <1>13, Zenon

LEMMA WriteFailsStep ==
  ASSUME TypeOK, SizeInv, NEW e \in Ends, NEW f, WriteFails(e, f)
  PROVE  /\ f \in calls[e]
         /\ \/ Down(e) /\ UNCHANGED <<obj, done>>
            \/ Down(Other(e)) /\ ShutDown(e, "closed") /\ reg'[e] = {}
         /\ \A d \in Ends :
              /\ calls'[d] = IF d = e THEN calls[d] \ {f} ELSE calls[d]
              /\ reg'[d] \subseteq reg[d] /\ (d # e => reg'[d] = reg[d])
         /\ f.type = "close" /\ f.unit = 1 => f.id \notin reg'[e]
         /\ UNCHANGED <<accept, pipe, reader, held, sent, final, got, ended>>
         /\ TypeOK'
<1>1. f \in calls[e] /\ UNCHANGED <<accept, pipe, reader, got, ended>>
  BY DEF WriteFails
<1>2. PICK left \in {reg[e], {}} :
        /\ Returned(e, f, FALSE, left)
        /\ \/ Down(e) /\ UNCHANGED <<obj, done>>
           \/ Down(Other(e)) /\ ShutDown(e, "closed") /\ left = {}
  BY DEF WriteFails
<1>3. f.id \in Streams
  BY <1>1, Types, FrameType
<1>4. UNCHANGED <<held, sent>>
  BY <1>2, <1>3 DEF Returned, TypeOK
<1>5. final' = final
  BY <1>2, <1>3 DEF Returned, TypeOK
<1>6. calls' = [calls EXCEPT ![e] = @ \ {f}]
  BY <1>2 DEF Returned
<1>7. /\ \A d \in Ends : calls'[d] = IF d = e THEN calls[d] \ {f} ELSE calls[d]
      /\ calls' \in [Ends -> SUBSET Frames]
  BY <1>6 DEF TypeOK
<1>8. PICK drop \in BOOLEAN :
        /\ reg' = [reg EXCEPT ![e] = IF drop THEN left \ {f.id} ELSE left]
        /\ f.type = "close" /\ f.unit = 1 => drop
  BY <1>2 DEF Returned
<1>9. /\ \A d \in Ends : reg'[d] \subseteq reg[d] /\ (d # e => reg'[d] = reg[d])
      /\ left = {} => reg'[e] = {}
      /\ f.type = "close" /\ f.unit = 1 => f.id \notin reg'[e]
  BY <1>8 DEF TypeOK
<1>10. \A d \in Ends : Cardinality(reg'[d] \ Dialled(d)) <= MaxStreams
  BY <1>9, TableShrinks
<1>11. reg' \in [Ends -> SUBSET Streams]
  BY <1>8 DEF TypeOK
<1>12. TypeOK'
  <2>1. CASE UNCHANGED <<obj, done>>
    BY <1>1, <1>4, <1>5, <1>7, <1>10, <1>11, <2>1 DEF TypeOK
  <2>2. CASE ShutDown(e, "closed")
    <3>1. /\ done' \in [Ends -> {"up", "eof", "closed"}] /\ obj' \in [Ends -> [Streams -> Objects]]
          /\ \A d \in Ends, x \in Streams : Len(obj'[d][x].buffer) <= MaxBuffered
      BY <2>2, ShutDownStep
    <3> QED BY <1>1, <1>4, <1>5, <1>7, <1>10, <1>11, <3>1 DEF TypeOK
  <2> QED BY <1>2, <2>1, <2>2
<1>13. \/ Down(e) /\ UNCHANGED <<obj, done>>
       \/ Down(Other(e)) /\ ShutDown(e, "closed") /\ reg'[e] = {}
  BY <1>2, <1>9
<1> QED BY <1>1, <1>4, <1>5, <1>7, <1>8, <1>9, <1>12, <1>13

LEMMA LenTail ==
  ASSUME NEW S, NEW q \in Seq(S), q # <<>>, NEW n \in Nat, Len(q) <= n
  PROVE  Head(q) \in S /\ Tail(q) \in Seq(S) /\ Len(Tail(q)) <= n
OBVIOUS

LEMMA AcceptStep ==
  ASSUME TypeOK, NEW e \in Ends, Accept(e)
  PROVE  /\ accept[e] # <<>> /\ Head(accept[e]) \in Streams
         /\ \A d \in Ends :
              /\ held'[d] = IF d = e THEN held[d] \cup {Head(accept[e])} ELSE held[d]
              /\ accept'[d] = IF d = e THEN Tail(accept[e]) ELSE accept[d]
         /\ UNCHANGED <<reg, obj, done, pipe, calls, reader, sent, final, got, ended>>
         /\ TypeOK'
<1>1. /\ accept[e] # <<>>
      /\ UNCHANGED <<reg, obj, done, pipe, calls, reader, sent, final, got, ended>>
  BY DEF Accept
<1>2. \A d \in Ends :
        /\ held'[d] = IF d = e THEN held[d] \cup {Head(accept[e])} ELSE held[d]
        /\ accept'[d] = IF d = e THEN Tail(accept[e]) ELSE accept[d]
  BY DEF Accept, TypeOK
<1>3. /\ accept[e] \in Seq(Streams) /\ Head(accept[e]) \in Streams
      /\ Tail(accept[e]) \in Seq(Streams) /\ Len(Tail(accept[e])) <= Len(accept[e])
      /\ Len(accept[e]) \in Nat /\ Len(Tail(accept[e])) \in Nat
  BY <1>1, Types
<1>4. held' \in [Ends -> SUBSET Streams] /\ accept' \in [Ends -> Seq(Streams)]
  BY <1>3 DEF Accept, TypeOK
<1>5. \A d \in Ends : Len(accept'[d]) <= Backlog
  <2>1. Len(accept[e]) <= Backlog
    BY DEF TypeOK
  <2>2. Len(Tail(accept[e])) <= Backlog
    BY <1>1, <1>3, <2>1, LenTail, MuxAssumption
  <2>3. Len(accept'[e]) <= Backlog
    BY <1>2, <2>2
  <2> QED BY <1>2, <2>3 DEF TypeOK
<1>6. TypeOK'
  BY <1>1, <1>4, <1>5 DEF TypeOK
<1> QED BY <1>1, <1>2, <1>3, <1>6

LEMMA ReadDataStep ==
  ASSUME TypeOK, NEW e \in Ends, NEW s \in Streams, ReadData(e, s)
  PROVE  /\ s \in held[e] /\ ~obj[e][s].local /\ ended[e][s] = "open" /\ obj[e][s].buffer # <<>>
         /\ obj'[e][s].buffer = Tail(obj[e][s].buffer)
         /\ obj'[e][s].remote = obj[e][s].remote /\ obj'[e][s].local = obj[e][s].local
         /\ obj'[e][s].err = obj[e][s].err
         /\ got'[e][s] = Head(obj[e][s].buffer)
         /\ got' = [got EXCEPT ![e][s] = Head(obj[e][s].buffer)]
         /\ \A d \in Ends, x \in Streams :
              d # e \/ x # s => obj'[d][x] = obj[d][x] /\ got'[d][x] = got[d][x]
         /\ UNCHANGED <<reg, accept, done, pipe, calls, reader, held, sent, final, ended>>
         /\ TypeOK'
<1> DEFINE b == obj[e][s].buffer
           o == [obj[e][s] EXCEPT !.buffer = Tail(b)]
<1>1. /\ s \in held[e] /\ ~obj[e][s].local /\ ended[e][s] = "open" /\ b # <<>>
      /\ obj' = [obj EXCEPT ![e][s] = o] /\ got' = [got EXCEPT ![e][s] = Head(b)]
      /\ UNCHANGED <<reg, accept, done, pipe, calls, reader, held, sent, final, ended>>
  BY DEF ReadData
<1>2. /\ obj[e][s] \in Objects /\ b \in Seq(Nat)
      /\ Tail(b) \in Seq(Nat) /\ Head(b) \in Nat /\ Len(Tail(b)) <= MaxBuffered
  <2>1. obj[e][s] \in Objects /\ Len(b) <= MaxBuffered
    BY DEF TypeOK
  <2>2. b \in Seq(Nat)
    BY <2>1, ObjectType
  <2> QED BY <1>1, <2>1, <2>2, LenTail, MuxAssumption
<1>3. /\ o \in Objects /\ o.buffer = Tail(b) /\ o.remote = obj[e][s].remote
      /\ o.local = obj[e][s].local /\ o.err = obj[e][s].err
  BY <1>2 DEF Objects
<1> HIDE DEF o
<1>4. /\ obj' \in [Ends -> [Streams -> Objects]] /\ obj'[e][s] = o
      /\ \A d \in Ends, x \in Streams : d # e \/ x # s => obj'[d][x] = obj[d][x]
  BY <1>1, <1>3 DEF TypeOK
<1>5. /\ got' \in [Ends -> [Streams -> Nat]] /\ got'[e][s] = Head(b)
      /\ \A d \in Ends, x \in Streams : d # e \/ x # s => got'[d][x] = got[d][x]
  BY <1>1, <1>2 DEF TypeOK
<1>6. \A d \in Ends, x \in Streams : Len(obj'[d][x].buffer) <= MaxBuffered
  BY <1>2, <1>3, <1>4 DEF TypeOK
<1>7. TypeOK'
  BY <1>1, <1>4, <1>5, <1>6 DEF TypeOK
<1>8. \A d \in Ends, x \in Streams :
        d # e \/ x # s => obj'[d][x] = obj[d][x] /\ got'[d][x] = got[d][x]
  BY <1>4, <1>5
<1> QED BY <1>1, <1>3, <1>4, <1>5, <1>7, <1>8

LEMMA ReadEndStep ==
  ASSUME TypeOK, NEW e \in Ends, NEW s \in Streams, ReadEnd(e, s)
  PROVE  /\ s \in held[e] /\ ~obj[e][s].local /\ ended[e][s] = "open"
         /\ \/ /\ obj[e][s].buffer = <<>> /\ obj[e][s].remote
               /\ ended' = [ended EXCEPT ![e][s] = Result(e, obj[e][s])]
            \/ Down(e) /\ ended' = [ended EXCEPT ![e][s] = CloseError(e)]
         /\ UNCHANGED <<reg, obj, accept, done, pipe, calls, reader, held, sent, final, got>>
         /\ TypeOK'
<1>1. /\ s \in held[e] /\ ~obj[e][s].local /\ ended[e][s] = "open"
      /\ \/ /\ obj[e][s].buffer = <<>> /\ obj[e][s].remote
            /\ ended' = [ended EXCEPT ![e][s] = Result(e, obj[e][s])]
         \/ Down(e) /\ ended' = [ended EXCEPT ![e][s] = CloseError(e)]
      /\ UNCHANGED <<reg, obj, accept, done, pipe, calls, reader, held, sent, final, got>>
  BY DEF ReadEnd, Drained
<1>2. ended' \in [Ends -> [Streams -> {"open", "eof", "error"}]]
  <2>1. Result(e, obj[e][s]) \in {"open", "eof", "error"}
        /\ CloseError(e) \in {"open", "eof", "error"}
    BY DEF Result, CloseError
  <2>2. \E why \in {"open", "eof", "error"} : ended' = [ended EXCEPT ![e][s] = why]
    BY <1>1, <2>1
  <2> QED BY <2>2 DEF TypeOK
<1>3. TypeOK'
  BY <1>1, <1>2 DEF TypeOK
<1> QED BY <1>1, <1>3

-----------------------------------------------------------------------------
(* readLoop takes the next frame of the other end. *)

LEMMA TakesStep ==
  ASSUME TypeOK, NEW e \in Ends, NEW types, Takes(e, types)
  PROVE  /\ ~Down(e) /\ reader[e] = None /\ pipe[Other(e)] # <<>>
         /\ Next1(e) \in Frames /\ Next1(e).type \in types
         /\ Next1(e).id \in Streams /\ Next1(e).unit \in Nat
         /\ pipe'[Other(e)] = Tail(pipe[Other(e)]) /\ pipe'[e] = pipe[e]
         /\ pipe' \in [Ends -> Seq(Frames)] /\ \A d \in Ends : Len(pipe'[d]) <= PipeCap
<1>1. /\ ~Down(e) /\ reader[e] = None /\ pipe[Other(e)] # <<>> /\ Next1(e).type \in types
      /\ pipe' = [pipe EXCEPT ![Other(e)] = Tail(@)]
  BY DEF Takes
<1> DEFINE p == pipe[Other(e)]
<1>2. p \in Seq(Frames) /\ p # <<>> /\ Len(p) <= PipeCap
  BY <1>1, TwoEnds DEF TypeOK
<1>3. /\ Tail(p) \in Seq(Frames) /\ Head(p) \in Frames
      /\ Len(Tail(p)) <= Len(p) /\ Len(p) \in Nat /\ Len(Tail(p)) \in Nat
  BY <1>2
<1>4. pipe'[Other(e)] = Tail(p) /\ pipe'[e] = pipe[e] /\ pipe' \in [Ends -> Seq(Frames)]
  BY <1>1, <1>3, TwoEnds DEF TypeOK
<1>5. Len(pipe'[Other(e)]) <= PipeCap
  BY <1>2, <1>3, <1>4, MuxAssumption
<1>6. \A d \in Ends : Len(pipe'[d]) <= PipeCap
  BY <1>4, <1>5, TwoEnds DEF TypeOK
<1>7. Next1(e) \in Frames /\ Next1(e).id \in Streams /\ Next1(e).unit \in Nat
  BY <1>3, FrameType DEF Next1
<1> QED BY <1>1, <1>4, <1>6, <1>7

LEMMA LenAppend ==
  ASSUME NEW S, NEW q \in Seq(S), NEW x \in S, NEW n \in Nat, Len(q) < n
  PROVE  Append(q, x) \in Seq(S) /\ Len(Append(q, x)) <= n
OBVIOUS

LEMMA TakeOpenStep ==
  ASSUME TypeOK, SizeInv, NEW e \in Ends, TakeOpen(e)
  PROVE  /\ Takes(e, {"open"})
         /\ \/ reader'[e] = Next1(e).id /\ UNCHANGED <<reg, accept>>
            \/ /\ reg'[e] = reg[e] \cup {Next1(e).id}
               /\ accept'[e] = Append(accept[e], Next1(e).id) /\ reader' = reader
         /\ \A d \in Ends : d # e =>
              reg'[d] = reg[d] /\ accept'[d] = accept[d] /\ reader'[d] = reader[d]
         /\ UNCHANGED <<obj, done, calls, held, sent, final, got, ended>>
         /\ TypeOK'
<1> DEFINE t == Next1(e).id
<1>1. Takes(e, {"open"}) /\ UNCHANGED <<obj, done, calls, held, sent, final, got, ended>>
  BY DEF TakeOpen
<1>2. /\ t \in Streams /\ pipe' \in [Ends -> Seq(Frames)]
      /\ \A d \in Ends : Len(pipe'[d]) <= PipeCap
  BY <1>1, TakesStep
<1>3. CASE Refused(e)
  <2>1. reader' = [reader EXCEPT ![e] = t] /\ UNCHANGED <<reg, accept>>
    BY <1>3 DEF TakeOpen
  <2>2. /\ reader' \in [Ends -> Streams \cup {None}] /\ reader'[e] = t
        /\ \A d \in Ends : d # e => reader'[d] = reader[d]
    BY <1>2, <2>1 DEF TypeOK
  <2>3. TypeOK'
    BY <1>1, <1>2, <2>1, <2>2 DEF TypeOK
  <2> QED BY <1>1, <2>1, <2>2, <2>3
<1>4. CASE ~Refused(e)
  <2>1. /\ reg' = [reg EXCEPT ![e] = @ \cup {t}]
        /\ accept' = [accept EXCEPT ![e] = Append(@, t)] /\ reader' = reader
    BY <1>4 DEF TakeOpen
  <2>2. /\ reg' \in [Ends -> SUBSET Streams] /\ reg'[e] = reg[e] \cup {t}
        /\ \A d \in Ends : d # e => reg'[d] = reg[d]
    BY <1>2, <2>1 DEF TypeOK
  <2>3. Len(accept[e]) < Backlog /\ Cardinality(reg[e]) < MaxStreams
    <3>1. Len(accept[e]) \in Nat
      BY Types
    <3>2. Cardinality(reg[e]) \in Nat
      BY FS_CardinalityType DEF SizeInv
    <3> QED BY <1>4, <3>1, <3>2, MuxAssumption DEF Refused
  <2>4. /\ accept' \in [Ends -> Seq(Streams)] /\ accept'[e] = Append(accept[e], t)
        /\ \A d \in Ends : d # e => accept'[d] = accept[d]
    BY <1>2, <2>1 DEF TypeOK
  <2>5. \A d \in Ends : Len(accept'[d]) <= Backlog
    <3>1. Len(Append(accept[e], t)) <= Backlog
      BY <1>2, <2>3, Types, LenAppend, MuxAssumption
    <3> QED BY <2>4, <3>1 DEF TypeOK
  <2>6. Cardinality(reg'[e] \ Dialled(e)) <= MaxStreams
    <3>1. IsFiniteSet(reg[e]) /\ Cardinality(reg[e]) \in Nat
      BY FS_CardinalityType DEF SizeInv
    <3>2. /\ IsFiniteSet(reg[e] \cup {t})
          /\ Cardinality(reg[e] \cup {t}) \in {Cardinality(reg[e]), Cardinality(reg[e]) + 1}
      BY <3>1, FS_AddElement
    <3>3. reg'[e] \ Dialled(e) \subseteq reg[e] \cup {t}
      BY <2>2
    <3>4. /\ IsFiniteSet(reg'[e] \ Dialled(e))
          /\ Cardinality(reg'[e] \ Dialled(e)) <= Cardinality(reg[e] \cup {t})
      BY <3>2, <3>3, FS_Subset
    <3>5. Cardinality(reg'[e] \ Dialled(e)) \in Nat
      BY <3>4, FS_CardinalityType
    <3> QED BY <2>3, <3>1, <3>2, <3>4, <3>5, MuxAssumption
  <2>7. TypeOK'
    BY <1>1, <1>2, <2>1, <2>2, <2>4, <2>5, <2>6 DEF TypeOK
  <2> QED BY <1>1, <2>1, <2>2, <2>4, <2>7
<1> QED BY <1>3, <1>4

\* stream.receive: the data is ignored, or it is more than fits, or it is kept.
Alive(e, s) == s \in reg[e] /\ ~obj[e][s].remote /\ ~obj[e][s].local
Overflows(e, s) ==
  /\ Alive(e, s) /\ obj'[e][s].remote /\ obj'[e][s].err = "overflow"
  /\ obj'[e][s].buffer = obj[e][s].buffer /\ obj'[e][s].local = obj[e][s].local
  /\ reader'[e] = s
Buffers(e, s) ==
  /\ Alive(e, s) /\ obj'[e][s].buffer = Append(obj[e][s].buffer, Next1(e).unit)
  /\ obj'[e][s].remote = obj[e][s].remote /\ obj'[e][s].local = obj[e][s].local
  /\ obj'[e][s].err = obj[e][s].err /\ reader' = reader

LEMMA TakeDataStep ==
  ASSUME TypeOK, NEW e \in Ends, TakeData(e), NEW s, s = Next1(e).id
  PROVE  /\ Takes(e, {"data"})
         /\ (~Alive(e, s) /\ UNCHANGED <<obj, reader>>) \/ Overflows(e, s) \/ Buffers(e, s)
         /\ \A d \in Ends, x \in Streams : d # e \/ x # s => obj'[d][x] = obj[d][x]
         /\ \A d \in Ends : d # e => reader'[d] = reader[d]
         /\ UNCHANGED <<reg, accept, done, calls, held, sent, final, got, ended>>
         /\ TypeOK'
<1> DEFINE o == obj[e][s]
<1>1. /\ Takes(e, {"data"})
      /\ UNCHANGED <<reg, accept, done, calls, held, sent, final, got, ended>>
  BY DEF TakeData, Alive
<1>2. /\ s \in Streams /\ Next1(e).unit \in Nat /\ pipe' \in [Ends -> Seq(Frames)]
      /\ \A d \in Ends : Len(pipe'[d]) <= PipeCap
  BY <1>1, TakesStep
<1>3. o \in Objects /\ Len(o.buffer) <= MaxBuffered
  BY <1>2 DEF TypeOK
<1>4. CASE ~Alive(e, s)
  <2>1. UNCHANGED <<obj, reader>>
    BY <1>4 DEF TakeData, Alive
  <2>2. TypeOK'
    BY <1>1, <1>2, <2>1 DEF TypeOK
  <2> QED BY <1>1, <1>4, <2>1, <2>2
<1>5. CASE Alive(e, s) /\ Full(o)
  <2> DEFINE p == [o EXCEPT !.err = "overflow", !.remote = TRUE]
  <2>1. obj' = [obj EXCEPT ![e][s] = p] /\ reader' = [reader EXCEPT ![e] = s]
    BY <1>5 DEF TakeData, Alive
  <2>2. /\ p \in Objects /\ p.remote /\ p.err = "overflow"
        /\ p.buffer = o.buffer /\ p.local = o.local
    BY <1>3 DEF Objects
  <2> HIDE DEF p
  <2>3. /\ obj' \in [Ends -> [Streams -> Objects]] /\ obj'[e][s] = p
        /\ \A d \in Ends, x \in Streams : d # e \/ x # s => obj'[d][x] = obj[d][x]
    BY <1>2, <2>1, <2>2 DEF TypeOK
  <2>4. /\ reader' \in [Ends -> Streams \cup {None}] /\ reader'[e] = s
        /\ \A d \in Ends : d # e => reader'[d] = reader[d]
    BY <1>2, <2>1 DEF TypeOK
  <2>5. \A d \in Ends, x \in Streams : Len(obj'[d][x].buffer) <= MaxBuffered
    BY ZenonT(40), <1>3, <2>2, <2>3 DEF TypeOK
  <2>6. TypeOK'
    BY <1>1, <1>2, <2>3, <2>4, <2>5 DEF TypeOK
  <2>7. Overflows(e, s)
    BY <1>5, <2>2, <2>3, <2>4 DEF Overflows
  <2> QED BY <1>1, <2>3, <2>4, <2>6, <2>7
<1>6. CASE Alive(e, s) /\ ~Full(o)
  <2> DEFINE b == Append(o.buffer, Next1(e).unit)
             p == [o EXCEPT !.buffer = b]
  <2>1. obj' = [obj EXCEPT ![e][s] = p] /\ reader' = reader
    BY <1>6 DEF TakeData, Alive
  <2>2. b \in Seq(Nat) /\ Len(b) <= MaxBuffered
    <3>1. o.buffer \in Seq(Nat) /\ Len(o.buffer) \in Nat
      BY <1>3, ObjectType
    <3>2. Len(o.buffer) < MaxBuffered
      BY <1>6, <3>1, MuxAssumption DEF Full
    <3> QED BY <1>2, <3>1, <3>2, LenAppend, MuxAssumption
  <2> HIDE DEF b
  <2>3. /\ p \in Objects /\ p.buffer = b /\ p.remote = o.remote /\ p.err = o.err
        /\ p.local = o.local
    BY <1>3, <2>2 DEF Objects
  <2> HIDE DEF p
  <2>4. /\ obj' \in [Ends -> [Streams -> Objects]] /\ obj'[e][s] = p
        /\ \A d \in Ends, x \in Streams : d # e \/ x # s => obj'[d][x] = obj[d][x]
    BY <1>2, <2>1, <2>3 DEF TypeOK
  <2>5. \A d \in Ends, x \in Streams : Len(obj'[d][x].buffer) <= MaxBuffered
    BY <2>2, <2>3, <2>4 DEF TypeOK
  <2>6. TypeOK'
    BY <1>1, <1>2, <2>1, <2>4, <2>5 DEF TypeOK
  <2>7. b = Append(o.buffer, Next1(e).unit)
    BY SMTT(40) DEF b
  <2>8. Buffers(e, s)
    BY <1>6, <2>1, <2>3, <2>4, <2>7 DEF Buffers
  <2> QED BY <1>1, <2>1, <2>4, <2>6, <2>8
<1> QED BY <1>4, <1>5, <1>6

\* stream.remoteClose
LEMMA TakeCloseStep ==
  ASSUME TypeOK, SizeInv, NEW e \in Ends, TakeClose(e), NEW s, s = Next1(e).id
  PROVE  /\ Takes(e, {"close", "reset"})
         /\ \/ s \notin reg[e] /\ UNCHANGED <<obj, reg>>
            \/ /\ s \in reg[e]
               /\ obj'[e][s].remote
               /\ obj'[e][s].err = IF Next1(e).type = "reset" THEN "reset" ELSE obj[e][s].err
               /\ obj'[e][s].buffer = obj[e][s].buffer /\ obj'[e][s].local = obj[e][s].local
               /\ obj[e][s].local => s \notin reg'[e]
         /\ \A d \in Ends, x \in Streams : d # e \/ x # s => obj'[d][x] = obj[d][x]
         /\ \A d \in Ends : reg'[d] \subseteq reg[d] /\ (d # e => reg'[d] = reg[d])
         /\ UNCHANGED <<accept, done, calls, reader, held, sent, final, got, ended>>
         /\ TypeOK'
<1> DEFINE o == obj[e][s]
           err == IF Next1(e).type = "reset" THEN "reset" ELSE o.err
           p == [o EXCEPT !.remote = TRUE, !.err = err]
<1>1. /\ Takes(e, {"close", "reset"})
      /\ UNCHANGED <<accept, done, calls, reader, held, sent, final, got, ended>>
  BY DEF TakeClose
<1>2. /\ s \in Streams /\ pipe' \in [Ends -> Seq(Frames)]
      /\ \A d \in Ends : Len(pipe'[d]) <= PipeCap
  BY <1>1, TakesStep
<1>3. CASE s \notin reg[e]
  <2>1. UNCHANGED <<obj, reg>>
    BY <1>3 DEF TakeClose
  <2>2. TypeOK'
    BY <1>1, <1>2, <2>1 DEF TypeOK
  <2> QED BY <1>1, <1>3, <2>1, <2>2
<1>4. CASE s \in reg[e]
  <2>0. /\ obj' = [obj EXCEPT ![e][s].remote = TRUE,
                              ![e][s].err = IF Next1(e).type = "reset" THEN "reset" ELSE @]
        /\ SweepOnRemote(e, s)
    BY <1>4 DEF TakeClose
  <2>1. /\ obj' = [obj EXCEPT ![e][s] = p]
        /\ reg' = [reg EXCEPT ![e] = IF o.local THEN @ \ {s} ELSE @]
    <3>1. reg' = [reg EXCEPT ![e] = IF o.local THEN @ \ {s} ELSE @]
      BY <2>0 DEF SweepOnRemote
    <3>2. CASE Next1(e).type = "reset"
      BY <1>2, <2>0, <3>1, <3>2 DEF TypeOK, Objects
    <3>3. CASE Next1(e).type # "reset"
      BY <1>2, <2>0, <3>1, <3>3 DEF TypeOK, Objects
    <3> QED BY <3>1, <3>2, <3>3
  <2>2. o \in Objects /\ Len(o.buffer) <= MaxBuffered
    BY <1>2 DEF TypeOK
  <2>3. /\ p \in Objects /\ p.remote /\ p.err = err
        /\ p.buffer = o.buffer /\ p.local = o.local
    BY <2>2 DEF Objects
  <2> HIDE DEF p
  <2>4. /\ obj' \in [Ends -> [Streams -> Objects]] /\ obj'[e][s] = p
        /\ \A d \in Ends, x \in Streams : d # e \/ x # s => obj'[d][x] = obj[d][x]
    BY <1>2, <2>1, <2>3 DEF TypeOK
  <2>5. \A d \in Ends, x \in Streams : Len(obj'[d][x].buffer) <= MaxBuffered
    BY <2>2, <2>3, <2>4 DEF TypeOK
  <2>6. /\ reg' \in [Ends -> SUBSET Streams] /\ (o.local => s \notin reg'[e])
        /\ \A d \in Ends : reg'[d] \subseteq reg[d] /\ (d # e => reg'[d] = reg[d])
    BY <2>1 DEF TypeOK
  <2>7. \A d \in Ends : Cardinality(reg'[d] \ Dialled(d)) <= MaxStreams
    BY <2>6, TableShrinks
  <2>8. TypeOK'
    BY <1>1, <1>2, <2>4, <2>5, <2>6, <2>7 DEF TypeOK
  <2> QED BY <1>1, <1>4, <2>3, <2>4, <2>6, <2>8
<1> QED BY <1>3, <1>4

-----------------------------------------------------------------------------
(* What the actions that lose a connection, or give up a call, have in common. *)

Fades ==
  /\ \A d \in Ends :
       /\ reg'[d] \subseteq reg[d] /\ calls'[d] \subseteq calls[d]
       /\ reader'[d] \in {reader[d], None} /\ (Down(d) => Down(d)')
       /\ \A s \in reg'[d] : Frame("close", s, 1) \in calls[d] => Frame("close", s, 1) \in calls'[d]
  /\ \A d \in Ends, x \in Streams :
       \/ obj'[d][x] = obj[d][x]
       \/ /\ x \notin reg'[d] /\ Down(d)' /\ x \in reg[d]
          /\ obj'[d][x].remote /\ obj'[d][x].err = "down"
          /\ obj'[d][x].buffer = obj[d][x].buffer /\ obj'[d][x].local = obj[d][x].local
  /\ UNCHANGED <<accept, pipe, held, sent, final, got>>

LEMMA ShutDownFades ==
  ASSUME TypeOK, SizeInv, NEW e \in Ends, NEW why \in {"eof", "closed"}, ShutDown(e, why),
         reg' = [reg EXCEPT ![e] = {}],
         UNCHANGED <<accept, pipe, calls, held, sent, final, got, ended>>,
         \/ reader' = reader
         \/ reader' = [reader EXCEPT ![e] = None]
  PROVE  Fades /\ TypeOK'
<1>1. /\ reg'[e] = {} /\ \A d \in Ends : d # e => reg'[d] = reg[d]
      /\ reg' \in [Ends -> SUBSET Streams]
  BY DEF TypeOK
<1>2. /\ \A d \in Ends : reader'[d] \in {reader[d], None}
      /\ reader' \in [Ends -> Streams \cup {None}]
  BY DEF TypeOK
<1>3. \A d \in Ends : reg'[d] \subseteq reg[d]
  BY <1>1
<1>4. \A d \in Ends : Cardinality(reg'[d] \ Dialled(d)) <= MaxStreams
  BY <1>3, TableShrinks
<1>5. /\ done' \in [Ends -> {"up", "eof", "closed"}] /\ obj' \in [Ends -> [Streams -> Objects]]
      /\ \A d \in Ends, x \in Streams : Len(obj'[d][x].buffer) <= MaxBuffered
  BY ShutDownStep
<1>6. TypeOK'
  BY <1>1, <1>2, <1>4, <1>5 DEF TypeOK
<1>7. \A d \in Ends : Down(d) => Down(d)'
  BY ShutDownStep DEF Down
<1>8. \A d \in Ends, x \in Streams :
        \/ obj'[d][x] = obj[d][x]
        \/ /\ x \notin reg'[d] /\ Down(d)' /\ x \in reg[d]
           /\ obj'[d][x].remote /\ obj'[d][x].err = "down"
           /\ obj'[d][x].buffer = obj[d][x].buffer /\ obj'[d][x].local = obj[d][x].local
  <2> TAKE d \in Ends, x \in Streams
  <2>1. CASE d # e \/ x \notin reg[e]
    BY <2>1, ShutDownStep
  <2>2. CASE d = e /\ x \in reg[e]
    BY <1>1, <2>2, ShutDownStep
  <2> QED BY <2>1, <2>2
<1>9. Fades
  BY <1>2, <1>3, <1>7, <1>8 DEF Fades
<1> QED BY <1>6, <1>9

LEMMA WriteFailsFades ==
  ASSUME TypeOK, SizeInv, NEW e \in Ends, NEW f, WriteFails(e, f)
  PROVE  Fades
<1>1. \A d \in Ends : /\ reg'[d] \subseteq reg[d] /\ calls'[d] \subseteq calls[d]
                      /\ reader'[d] = reader[d]
  BY WriteFailsStep
<1>2. UNCHANGED <<accept, pipe, held, sent, final, got>>
  BY WriteFailsStep
<1>3. /\ f.type = "close" /\ f.unit = 1 => f.id \notin reg'[e]
      /\ \A d \in Ends : calls'[d] = IF d = e THEN calls[d] \ {f} ELSE calls[d]
  BY WriteFailsStep
<1>4. ASSUME NEW d \in Ends, NEW s \in reg'[d], Frame("close", s, 1) \in calls[d]
      PROVE  Frame("close", s, 1) \in calls'[d]
  <2>1. d = e => Frame("close", s, 1) # f
    BY <1>3, <1>4, FrameType
  <2> QED BY <1>3, <1>4, <2>1
<1>5. CASE UNCHANGED <<obj, done>>
  <2>1. \A d \in Ends : Down(d) => Down(d)'
    BY <1>5 DEF Down
  <2> QED BY <1>1, <1>2, <1>4, <1>5, <2>1 DEF Fades
<1>6. CASE ShutDown(e, "closed") /\ reg'[e] = {}
  <2>1. \A d \in Ends : Down(d) => Down(d)'
    BY <1>6, ShutDownStep DEF Down
  <2>2. \A d \in Ends, x \in Streams :
          \/ obj'[d][x] = obj[d][x]
          \/ /\ x \notin reg'[d] /\ Down(d)' /\ x \in reg[d]
             /\ obj'[d][x].remote /\ obj'[d][x].err = "down"
             /\ obj'[d][x].buffer = obj[d][x].buffer /\ obj'[d][x].local = obj[d][x].local
    <3> TAKE d \in Ends, x \in Streams
    <3>1. CASE d # e \/ x \notin reg[e]
      BY <1>6, <3>1, ShutDownStep
    <3>2. CASE d = e /\ x \in reg[e]
      BY <1>6, <3>2, ShutDownStep
    <3> QED BY <3>1, <3>2
  <2> QED BY <1>1, <1>2, <1>4, <2>1, <2>2 DEF Fades
<1> QED BY <1>5, <1>6, WriteFailsStep

LEMMA CloseMuxStep ==
  ASSUME TypeOK, SizeInv, NEW e \in Ends, CloseMux(e)
  PROVE  Fades /\ TypeOK'
BY ShutDownFades DEF CloseMux

LEMMA ReadEOFStep ==
  ASSUME TypeOK, SizeInv, NEW e \in Ends, ReadEOF(e)
  PROVE  Fades /\ TypeOK'
<1>1. PICK why \in {"eof", "closed"} : ShutDown(e, why)
  BY DEF ReadEOF
<1> QED BY <1>1, ShutDownFades DEF ReadEOF

LEMMA WriteResetStep ==
  ASSUME TypeOK, SizeInv, NEW e \in Ends, WriteReset(e)
  PROVE  /\ \/ Fades
            \/ /\ reader[e] \in Streams
               /\ pipe'[e] = Append(pipe[e], Frame("reset", reader[e], 0))
               /\ pipe'[Other(e)] = pipe[Other(e)]
               /\ reader'[e] = None /\ \A d \in Ends : d # e => reader'[d] = reader[d]
               /\ UNCHANGED <<reg, obj, accept, done, calls, held, sent, final, got, ended>>
         /\ TypeOK'
<1>1. /\ reader' = [reader EXCEPT ![e] = None] /\ reader[e] # None
      /\ UNCHANGED <<accept, calls, held, sent, final, got, ended>>
  BY DEF WriteReset
<1>2. /\ \A d \in Ends : reader'[d] \in {reader[d], None} /\ (d # e => reader'[d] = reader[d])
      /\ reader' \in [Ends -> Streams \cup {None}] /\ reader'[e] = None
      /\ reader[e] \in Streams
  BY <1>1 DEF TypeOK
<1>3. CASE UNCHANGED <<pipe, done, obj, reg>>
  <2>1. Fades
    BY <1>1, <1>2, <1>3 DEF Fades, Down
  <2>2. TypeOK'
    BY <1>1, <1>2, <1>3 DEF TypeOK
  <2> QED BY <2>1, <2>2
<1>4. CASE /\ Len(pipe[e]) < PipeCap
           /\ pipe' = [pipe EXCEPT ![e] = Append(@, Frame("reset", reader[e], 0))]
           /\ UNCHANGED <<done, obj, reg>>
  <2>1. Frame("reset", reader[e], 0) \in Frames /\ pipe[e] \in Seq(Frames)
    BY <1>2, FrameType, Types
  <2>2. /\ Append(pipe[e], Frame("reset", reader[e], 0)) \in Seq(Frames)
        /\ Len(Append(pipe[e], Frame("reset", reader[e], 0))) <= PipeCap
    BY <1>4, <2>1, LenAppend, MuxAssumption
  <2>3. /\ pipe'[e] = Append(pipe[e], Frame("reset", reader[e], 0))
        /\ pipe'[Other(e)] = pipe[Other(e)] /\ pipe' \in [Ends -> Seq(Frames)]
    BY <1>4, <2>2, TwoEnds DEF TypeOK
  <2>4. \A d \in Ends : Len(pipe'[d]) <= PipeCap
    BY <2>2, <2>3, TwoEnds DEF TypeOK
  <2>5. TypeOK'
    BY <1>1, <1>2, <1>4, <2>3, <2>4 DEF TypeOK
  <2> QED BY <1>1, <1>2, <1>4, <2>3, <2>5
<1>5. CASE /\ ShutDown(e, "closed") /\ reg' = [reg EXCEPT ![e] = {}] /\ UNCHANGED pipe
  BY <1>1, <1>5, ShutDownFades
<1> QED BY <1>3, <1>4, <1>5 DEF WriteReset

-----------------------------------------------------------------------------
(* Every action keeps the invariant. *)

LEMMA DialKeeps ==
  ASSUME IInv, NEW e \in Ends, NEW s \in Streams, Dial(e, s)
  PROVE  IInv'
<1> USE DEF IInv
<1>1. TypeOK'
  BY DialStep
<1>2. /\ s \in Dialled(e) /\ s \notin reg[e] /\ s \notin held[e] /\ obj[e][s] = NewStream
      /\ \A f \in calls[e] : f.id # s
      /\ \A d \in Ends :
           /\ reg'[d] = IF d = e THEN reg[d] \cup {s} ELSE reg[d]
           /\ calls'[d] = IF d = e THEN calls[d] \cup {Frame("open", s, 0)} ELSE calls[d]
      /\ UNCHANGED <<obj, accept, done, pipe, reader, held, sent, final, got, ended>>
  <2>1. /\ s \in Dialled(e) /\ s \notin reg[e] /\ s \notin held[e] /\ obj[e][s] = NewStream
        /\ UNCHANGED <<obj, accept, done, pipe, reader, held, sent, final, got, ended>>
    BY DialStep
  <2>2. \A f \in calls[e] : f.id # s
    BY DialStep
  <2>3. \A d \in Ends : reg'[d] = IF d = e THEN reg[d] \cup {s} ELSE reg[d]
    BY DialStep
  <2>4. \A d \in Ends :
          calls'[d] = IF d = e THEN calls[d] \cup {Frame("open", s, 0)} ELSE calls[d]
    BY DialStep
  <2> QED BY <2>1, <2>2, <2>3, <2>4
<1>3. /\ Unreached(Other(e), s) /\ ~Has(pipe[Other(e)], s, AllTypes) /\ s \notin held[Other(e)]
      /\ Other(e) \in Ends
  BY <1>2, TwoEnds DEF OpenInv, Unreached
<1>4. CallInv'
  <2>1. ASSUME NEW d \in Ends, NEW f \in calls'[d], ~(d = e /\ f = Frame("open", s, 0))
        PROVE  f \in calls[d]
    BY <1>2, <2>1
  <2> SUFFICES ASSUME NEW d \in Ends, NEW f \in calls'[d]
               PROVE  /\ f.type = "open" =>
                           /\ f.id \in Dialled(d) /\ f.id \notin held[d]
                           /\ \A g \in calls'[d] : g.id = f.id => g = f
                      /\ f.type \in {"data", "close"} => f.id \in held[d]
                      /\ f.type = "data" => f.unit = sent[d][f.id] + 1
                      /\ f.type # "reset"
    BY <1>2 DEF CallInv
  <2>2. CASE d = e /\ f = Frame("open", s, 0)
    BY <1>2, <2>1, <2>2, FrameType
  <2>3. CASE f \in calls[d]
    BY <1>2, <2>1, <2>3, FrameType DEF CallInv
  <2> QED BY <2>1, <2>2, <2>3
<1>5. FreshInv'
  BY <1>2 DEF FreshInv
<1>6. OpenInv'
  <2>1. ASSUME NEW d \in Ends, NEW x \in Dialled(Other(d)), Unreached(d, x) PROVE Unreached(d, x)'
    <3>1. d = e => x # s
      BY <1>2, TwoEnds
    <3>2. \A f \in calls'[d] : f.id # x
      <4> SUFFICES ASSUME NEW f \in calls'[d] PROVE f.id # x
        OBVIOUS
      <4>1. CASE f \in calls[d]
        BY <2>1, <4>1 DEF Unreached
      <4>2. CASE d = e /\ f = Frame("open", s, 0)
        BY <3>1, <4>2, FrameType
      <4> QED BY <1>2, <4>1, <4>2
    <3>3. x \notin reg'[d]
      BY <1>2, <2>1, <3>1 DEF Unreached
    <3> QED BY <1>2, <2>1, <3>2, <3>3 DEF Unreached
  <2>2. ASSUME NEW d \in Ends, NEW x \in Dialled(d),
               x \notin held[d] \/ Has(pipe[d], x, {"open"})
        PROVE  Unreached(Other(d), x)'
    <3>1. Unreached(Other(d), x)
      BY <2>2 DEF OpenInv
    <3> QED BY <2>1, <3>1, TwoEnds
  <2> QED BY <1>2, <2>2 DEF OpenInv
<1>7. \A d \in Ends, x \in Streams : Live(d, x)' => Live(d, x) \/ (d = e /\ x = s)
  <2> TAKE d \in Ends, x \in Streams
  <2>1. x \in reg'[d] => x \in reg[d] \/ (d = e /\ x = s)
    BY <1>2
  <2> QED BY <1>2, <2>1 DEF Live
<1>8. FinalInv'
  <2> SUFFICES ASSUME NEW d \in Ends, NEW x \in Streams
               PROVE  /\ Has(pipe[d], x, {"close"}) => final[d][x]
                      /\ final[d][x] /\ Live(Other(d), x)' => Has(pipe[d], x, {"close"})
    BY <1>2 DEF FinalInv
  <2>1. CASE d = Other(e) /\ x = s
    BY <1>3, <2>1 DEF FinalInv, FreshInv
  <2>2. CASE d # Other(e) \/ x # s
    BY <1>7, <2>2, TwoEnds DEF FinalInv
  <2> QED BY <2>1, <2>2
<1>9. DataInv'
  <2> SUFFICES ASSUME NEW d \in Ends, NEW x \in Streams, Live(d, x)'
               PROVE  Chain(pipe[Other(d)], x, Taken(d, x) + 1, sent[Other(d)][x])
    BY <1>2 DEF DataInv, Taken
  <2>1. CASE d = e /\ x = s
    <3>1. sent[Other(e)][s] = 0 /\ got[e][s] = 0
      BY <1>2, <1>3 DEF FreshInv
    <3>2. Taken(e, s) = 0
      BY <1>2, <3>1, NewIsObject DEF Taken
    <3>3. Taken(e, s) + 1 = 1
      BY <3>2
    <3>4. Chain(pipe[Other(e)], s, 1, 0)
      BY <1>3, ChainNone
    <3> QED BY <2>1, <3>1, <3>3, <3>4
  <2>2. CASE d # e \/ x # s
    BY <1>7, <2>2 DEF DataInv
  <2> QED BY <2>1, <2>2
<1>10. EndInv'
  BY <1>2 DEF EndInv, Taken, Down
<1>11. SweepInv'
  <2> SUFFICES ASSUME NEW d \in Ends, NEW x \in reg'[d], obj[d][x].local, obj[d][x].remote
               PROVE  Frame("close", x, 1) \in calls'[d]
    BY <1>2 DEF SweepInv
  <2>1. x \in reg[d]
    BY <1>2, NewIsObject
  <2> QED BY <1>2, <2>1 DEF SweepInv
<1>12. SizeInv'
  <2>1. IsFiniteSet(reg[e] \cup {s})
    BY FS_AddElement DEF SizeInv
  <2> QED BY <1>2, <2>1 DEF SizeInv
<1> QED BY <1>1, <1>4, <1>5, <1>6, <1>8, <1>9, <1>10, <1>11, <1>12

LEMMA WriteKeeps ==
  ASSUME IInv, NEW e \in Ends, NEW s \in Streams, Write(e, s)
  PROVE  IInv'
<1> USE DEF IInv
<1>1. TypeOK'
  BY WriteStep
<1>2. /\ s \in held[e] /\ ~obj[e][s].local
      /\ \A d \in Ends :
           calls'[d] = IF d = e THEN calls[d] \cup {Frame("data", s, sent[e][s] + 1)} ELSE calls[d]
      /\ UNCHANGED <<reg, obj, accept, done, pipe, reader, held, sent, final, got, ended>>
  BY WriteStep
<1>3. CallInv'
  <2>1. ASSUME NEW d \in Ends, NEW f \in calls'[d],
               ~(d = e /\ f = Frame("data", s, sent[e][s] + 1))
        PROVE  f \in calls[d]
    BY <1>2, <2>1
  <2> SUFFICES ASSUME NEW d \in Ends, NEW f \in calls'[d]
               PROVE  /\ f.type = "open" =>
                           /\ f.id \in Dialled(d) /\ f.id \notin held[d]
                           /\ \A g \in calls'[d] : g.id = f.id => g = f
                      /\ f.type \in {"data", "close"} => f.id \in held[d]
                      /\ f.type = "data" => f.unit = sent[d][f.id] + 1
                      /\ f.type # "reset"
    BY <1>2 DEF CallInv
  <2>2. CASE d = e /\ f = Frame("data", s, sent[e][s] + 1)
    BY <1>2, <2>2, FrameType
  <2>3. CASE f \in calls[d]
    BY <1>2, <2>1, <2>3, FrameType DEF CallInv
  <2> QED BY <2>1, <2>2, <2>3
<1>4. OpenInv'
  <2>1. ASSUME NEW d \in Ends, NEW x \in Streams, Unreached(d, x) PROVE Unreached(d, x)'
    <3>1. d = e => x # s
      BY <1>2, <2>1 DEF Unreached
    <3>2. \A f \in calls'[d] : f.id # x
      <4> SUFFICES ASSUME NEW f \in calls'[d] PROVE f.id # x
        OBVIOUS
      <4>1. CASE f \in calls[d]
        BY <2>1, <4>1 DEF Unreached
      <4>2. CASE d = e /\ f = Frame("data", s, sent[e][s] + 1)
        BY <3>1, <4>2, FrameType
      <4> QED BY <1>2, <4>1, <4>2
    <3> QED BY <1>2, <2>1, <3>2 DEF Unreached
  <2>2. ASSUME NEW d \in Ends, NEW x \in Dialled(d),
               x \notin held[d] \/ Has(pipe[d], x, {"open"})
        PROVE  Unreached(Other(d), x)'
    <3>1. Unreached(Other(d), x)
      BY <2>2 DEF OpenInv
    <3> QED BY <2>1, <3>1, TwoEnds
  <2> QED BY <1>2, <2>2 DEF OpenInv
<1>5. FreshInv' /\ SizeInv'
  BY <1>2 DEF FreshInv, SizeInv
<1>6. FinalInv'
  BY <1>2 DEF FinalInv, Live
<1>7. DataInv' /\ EndInv'
  BY <1>2 DEF DataInv, EndInv, Live, Taken, Down
<1>8. SweepInv'
  BY <1>2 DEF SweepInv
<1> QED BY <1>1, <1>3, <1>4, <1>5, <1>6, <1>7, <1>8

LEMMA CloseKeeps ==
  ASSUME IInv, NEW e \in Ends, NEW s \in Streams, Close(e, s)
  PROVE  IInv'
<1> USE DEF IInv
<1> DEFINE frame == Frame("close", s, IF obj[e][s].remote THEN 1 ELSE 0)
<1>1. TypeOK'
  BY CloseStep
<1>2. /\ s \in held[e] /\ ~obj[e][s].local /\ obj'[e][s].local
      /\ obj'[e][s].buffer = obj[e][s].buffer /\ obj'[e][s].remote = obj[e][s].remote
      /\ obj'[e][s].err = obj[e][s].err
      /\ \A d \in Ends, x \in Streams : d # e \/ x # s => obj'[d][x] = obj[d][x]
      /\ \A d \in Ends : calls'[d] = IF d = e THEN calls[d] \cup {frame} ELSE calls[d]
      /\ UNCHANGED <<reg, accept, done, pipe, reader, held, sent, final, got, ended>>
  BY SMTT(40), CloseStep
<1>3. /\ frame.type = "close" /\ frame.id = s
      /\ obj[e][s].remote => frame = Frame("close", s, 1)
  BY FrameType
<1> HIDE DEF frame
<1>4. CallInv'
  <2>1. ASSUME NEW d \in Ends, NEW f \in calls'[d], ~(d = e /\ f = frame) PROVE f \in calls[d]
    BY <1>2, <2>1
  <2> SUFFICES ASSUME NEW d \in Ends, NEW f \in calls'[d]
               PROVE  /\ f.type = "open" =>
                           /\ f.id \in Dialled(d) /\ f.id \notin held[d]
                           /\ \A g \in calls'[d] : g.id = f.id => g = f
                      /\ f.type \in {"data", "close"} => f.id \in held[d]
                      /\ f.type = "data" => f.unit = sent[d][f.id] + 1
                      /\ f.type # "reset"
    BY <1>2 DEF CallInv
  <2>2. CASE d = e /\ f = frame
    BY <1>2, <1>3, <2>2
  <2>3. CASE f \in calls[d]
    BY <1>2, <1>3, <2>1, <2>3 DEF CallInv
  <2> QED BY <2>1, <2>2, <2>3
<1>5. OpenInv'
  <2>1. ASSUME NEW d \in Ends, NEW x \in Streams, Unreached(d, x) PROVE Unreached(d, x)'
    <3>1. d # e \/ x # s
      BY <1>2, <2>1 DEF Unreached
    <3> QED BY <1>2, <1>3, <2>1, <3>1 DEF Unreached
  <2>2. ASSUME NEW d \in Ends, NEW x \in Dialled(d),
               x \notin held[d] \/ Has(pipe[d], x, {"open"})
        PROVE  Unreached(Other(d), x)'
    <3>1. Unreached(Other(d), x)
      BY <2>2 DEF OpenInv
    <3> QED BY <2>1, <3>1, TwoEnds
  <2> QED BY <1>2, <2>2 DEF OpenInv
<1>6. FreshInv'
  <2> SUFFICES ASSUME NEW d \in Ends, NEW x \in Streams, x \notin held[d]
               PROVE  sent[d][x] = 0 /\ got[d][x] = 0 /\ ~final[d][x] /\ ~obj'[d][x].local
    BY <1>2 DEF FreshInv
  <2>1. d # e \/ x # s
    BY <1>2
  <2> QED BY <1>2, <2>1 DEF FreshInv
<1>7. \A d \in Ends, x \in Streams :
        /\ Live(d, x)' => Live(d, x)
        /\ obj'[d][x].buffer = obj[d][x].buffer /\ obj'[d][x].remote = obj[d][x].remote
        /\ obj'[d][x].err = obj[d][x].err
        /\ Taken(d, x)' = Taken(d, x)
        /\ ~obj'[d][x].local => ~obj[d][x].local
  <2> TAKE d \in Ends, x \in Streams
  <2>1. CASE d = e /\ x = s
    BY <1>2, <2>1 DEF Live, Taken
  <2>2. CASE d # e \/ x # s
    BY <1>2, <2>2 DEF Live, Taken
  <2> QED BY <2>1, <2>2
<1>8. FinalInv'
  BY <1>2, <1>7, TwoEnds DEF FinalInv
<1>9. DataInv'
  BY <1>2, <1>7 DEF DataInv
<1>10. EndInv'
  BY <1>2, <1>7 DEF EndInv, Down
<1>11. SweepInv'
  <2> SUFFICES ASSUME NEW d \in Ends, NEW x \in reg[d], obj'[d][x].local, obj'[d][x].remote
               PROVE  Frame("close", x, 1) \in calls'[d]
    BY <1>2 DEF SweepInv
  <2>1. CASE d = e /\ x = s
    BY <1>2, <1>3, <2>1
  <2>2. CASE d # e \/ x # s
    <3>1. x \in Streams
      BY Types
    <3> QED BY <1>2, <2>2, <3>1 DEF SweepInv
  <2> QED BY <2>1, <2>2
<1>12. SizeInv'
  BY <1>2 DEF SizeInv
<1> QED BY <1>1, <1>4, <1>5, <1>6, <1>8, <1>9, <1>10, <1>11, <1>12

\* The connection is lost, or a call is given up.
LEMMA FadesKeeps ==
  ASSUME IInv, Fades, TypeOK'
  PROVE  IInv'
<1> USE DEF IInv
<1>1. /\ \A d \in Ends :
           /\ reg'[d] \subseteq reg[d] /\ calls'[d] \subseteq calls[d]
           /\ reader'[d] \in {reader[d], None} /\ (Down(d) => Down(d)')
           /\ \A s \in reg'[d] :
                Frame("close", s, 1) \in calls[d] => Frame("close", s, 1) \in calls'[d]
      /\ UNCHANGED <<accept, pipe, held, sent, final, got>>
  BY DEF Fades
<1>2. \A d \in Ends, x \in Streams :
        /\ obj'[d][x].buffer = obj[d][x].buffer /\ obj'[d][x].local = obj[d][x].local
        /\ Taken(d, x)' = Taken(d, x) /\ (Live(d, x)' => Live(d, x))
  <2> TAKE d \in Ends, x \in Streams
  <2>1. /\ obj'[d][x].buffer = obj[d][x].buffer /\ obj'[d][x].local = obj[d][x].local
        /\ ~obj'[d][x].remote => ~obj[d][x].remote
    BY DEF Fades
  <2> QED BY <1>1, <2>1 DEF Taken, Live
<1>3. CallInv'
  BY <1>1 DEF CallInv
<1>4. FreshInv'
  BY <1>1, <1>2 DEF FreshInv
<1>5. OpenInv'
  <2>1. ASSUME NEW d \in Ends, NEW x \in Streams, Unreached(d, x) PROVE Unreached(d, x)'
    <3>1. x \notin reg[d]
      BY <2>1 DEF Unreached
    <3>2. obj'[d][x] = obj[d][x] /\ reader'[d] # x
      BY <1>1, <2>1, <3>1, MuxAssumption DEF Fades, Unreached, Streams
    <3> QED BY <1>1, <2>1, <3>2 DEF Unreached
  <2>2. ASSUME NEW d \in Ends, NEW x \in Dialled(d),
               x \notin held[d] \/ Has(pipe[d], x, {"open"})
        PROVE  Unreached(Other(d), x)'
    <3>1. Unreached(Other(d), x)
      BY <2>2 DEF OpenInv
    <3> QED BY <2>1, <3>1, TwoEnds
  <2>3. ASSUME NEW d \in Ends, NEW x \in Dialled(d), x \notin held[d] PROVE reader'[d] # x
    <3>1. reader[d] # x /\ x # None
      BY <2>3, TwoEnds, MuxAssumption DEF OpenInv, Streams
    <3> QED BY <1>1, <3>1
  <2> QED BY <1>1, <2>2, <2>3 DEF OpenInv
<1>6. FinalInv'
  BY <1>1, <1>2, TwoEnds DEF FinalInv
<1>7. DataInv'
  BY <1>1, <1>2 DEF DataInv
<1>8. EndInv'
  <2> SUFFICES ASSUME NEW d \in Ends, NEW x \in Streams
               PROVE  /\ ~obj'[d][x].remote => obj'[d][x].err = "none"
                      /\ obj'[d][x].err = "down" => Down(d)'
                      /\ ~obj'[d][x].local /\ obj'[d][x].remote /\ obj'[d][x].err = "none" =>
                           final[Other(d)][x] /\ Taken(d, x) = sent[Other(d)][x]
    BY <1>1, <1>2 DEF EndInv
  <2>1. CASE obj'[d][x] = obj[d][x]
    BY <1>1, <2>1 DEF EndInv
  <2>2. CASE obj'[d][x].remote /\ obj'[d][x].err = "down" /\ Down(d)'
    BY <2>2
  <2> QED BY <2>1, <2>2 DEF Fades
<1>9. SweepInv'
  <2> SUFFICES ASSUME NEW d \in Ends, NEW x \in reg'[d], obj'[d][x].local, obj'[d][x].remote
               PROVE  Frame("close", x, 1) \in calls'[d]
    BY DEF SweepInv
  <2>1. x \in reg[d] /\ x \in Streams
    BY <1>1, Types
  <2>2. obj'[d][x] = obj[d][x]
    BY <2>1 DEF Fades
  <2> QED BY <1>1, <2>1, <2>2 DEF SweepInv
<1>10. SizeInv'
  <2> SUFFICES ASSUME NEW d \in Ends PROVE IsFiniteSet(reg'[d])
    BY DEF SizeInv
  <2>1. IsFiniteSet(reg[d]) /\ reg'[d] \subseteq reg[d]
    BY <1>1 DEF SizeInv
  <2> QED BY <2>1, FS_Subset
<1> QED BY <1>3, <1>4, <1>5, <1>6, <1>7, <1>8, <1>9, <1>10

LEMMA AcceptKeeps ==
  ASSUME IInv, NEW e \in Ends, Accept(e)
  PROVE  IInv'
<1> USE DEF IInv
<1> DEFINE s == Head(accept[e])
<1>1. TypeOK'
  BY AcceptStep
<1>2. /\ s \in Streams
      /\ \A d \in Ends : held'[d] = IF d = e THEN held[d] \cup {s} ELSE held[d]
      /\ \A d \in Ends : accept'[d] = IF d = e THEN Tail(accept[e]) ELSE accept[d]
      /\ UNCHANGED <<reg, obj, done, pipe, calls, reader, sent, final, got, ended>>
  BY AcceptStep
<1>3. s \in Range(accept[e]) /\ \A d \in Ends : Range(accept'[d]) \subseteq Range(accept[d])
  <2>1. accept[e] \in Seq(Streams) /\ accept[e] # <<>>
    BY AcceptStep, Types
  <2> QED BY <1>2, <2>1, RangeTail
<1>4. s \in Dialled(Other(e)) /\ s \notin Dialled(e)
  BY <1>3, TwoEnds DEF OpenInv
<1> HIDE DEF s
<1>5. CallInv'
  <2> SUFFICES ASSUME NEW d \in Ends, NEW f \in calls[d]
               PROVE  /\ f.type = "open" =>
                           /\ f.id \in Dialled(d) /\ f.id \notin held'[d]
                           /\ \A g \in calls[d] : g.id = f.id => g = f
                      /\ f.type \in {"data", "close"} => f.id \in held'[d]
                      /\ f.type = "data" => f.unit = sent[d][f.id] + 1
                      /\ f.type # "reset"
    BY <1>2 DEF CallInv
  <2>1. held[d] \subseteq held'[d] /\ held'[d] \subseteq held[d] \cup {s} /\ (d # e => held'[d] = held[d])
    BY <1>2
  <2>2. f.type = "open" => f.id \in Dialled(d) /\ f.id \notin held[d]
    BY DEF CallInv
  <2>3. f.type = "open" => f.id \notin held'[d]
    BY <1>4, <2>1, <2>2
  <2> QED BY <2>1, <2>2, <2>3 DEF CallInv
<1>6. FreshInv'
  <2>1. \A d \in Ends : held[d] \subseteq held'[d]
    BY <1>2
  <2> QED BY <1>2, <2>1 DEF FreshInv
<1>7. OpenInv'
  <2>1. ASSUME NEW d \in Ends, NEW x \in Streams, Unreached(d, x) PROVE Unreached(d, x)'
    <3>1. ~(d = e /\ x = s)
      BY <1>3, <2>1 DEF Unreached
    <3>2. x \notin held'[d] /\ x \notin Range(accept'[d])
      BY <1>2, <1>3, <2>1, <3>1 DEF Unreached
    <3> QED BY <1>2, <2>1, <3>2 DEF Unreached
  <2>2. ASSUME NEW d \in Ends, NEW x \in Dialled(d),
               x \notin held'[d] \/ Has(pipe[d], x, {"open"})
        PROVE  Unreached(Other(d), x)'
    <3>1. Unreached(Other(d), x)
      BY <1>2, <2>2 DEF OpenInv
    <3> QED BY <2>1, <3>1, TwoEnds
  <2>3. ASSUME NEW d \in Ends, NEW x \in Dialled(d), x \notin held'[d] PROVE x \notin held[d]
    BY <1>2, <2>3
  <2>4. \A d \in Ends : Range(accept'[d]) \subseteq Dialled(Other(d))
    BY <1>3 DEF OpenInv
  <2> QED BY <1>2, <2>2, <2>3, <2>4 DEF OpenInv
<1>8. FinalInv'
  BY <1>2 DEF FinalInv, Live
<1>9. DataInv' /\ EndInv'
  BY <1>2 DEF DataInv, EndInv, Live, Taken, Down
<1>10. SweepInv' /\ SizeInv'
  BY <1>2 DEF SweepInv, SizeInv
<1> QED BY <1>1, <1>5, <1>6, <1>7, <1>8, <1>9, <1>10

LEMMA BufferTail ==
  ASSUME NEW b \in Seq(Nat), b # <<>>, NEW n \in Nat, \A i \in DOMAIN b : b[i] = n + i
  PROVE  /\ Head(b) = n + 1 /\ Head(b) + Len(Tail(b)) = n + Len(b) /\ Len(b) >= 1
         /\ \A i \in DOMAIN Tail(b) : Tail(b)[i] = Head(b) + i
<1>1. /\ DOMAIN b = 1..Len(b) /\ Len(b) \in Nat /\ Len(b) >= 1 /\ Head(b) = b[1]
      /\ DOMAIN Tail(b) = 1..(Len(b) - 1) /\ Len(Tail(b)) = Len(b) - 1
  OBVIOUS
<1>2. \A i \in 1..(Len(b) - 1) : Tail(b)[i] = b[i + 1]
  OBVIOUS
<1>3. b[1] = n + 1
  BY <1>1
<1>4. ASSUME NEW i \in 1..(Len(b) - 1) PROVE Tail(b)[i] = (n + 1) + i
  <2>1. i + 1 \in DOMAIN b
    BY <1>1
  <2>2. b[i + 1] = n + (i + 1)
    BY <2>1
  <2> QED BY <1>2, <2>2
<1>5. Head(b) = n + 1 /\ Head(b) + Len(Tail(b)) = n + Len(b)
  <2>1. (n + 1) + (Len(b) - 1) = n + Len(b)
    BY <1>1
  <2> QED BY <1>1, <1>3, <2>1
<1>6. \A i \in DOMAIN Tail(b) : Tail(b)[i] = Head(b) + i
  BY <1>1, <1>4, <1>5
<1> QED BY <1>1, <1>5, <1>6

LEMMA ReadDataKeeps ==
  ASSUME IInv, NEW e \in Ends, NEW s \in Streams, ReadData(e, s)
  PROVE  IInv'
<1> USE DEF IInv
<1>1. TypeOK'
  BY ReadDataStep
<1>2. /\ s \in held[e] /\ obj[e][s].buffer # <<>>
      /\ obj'[e][s].buffer = Tail(obj[e][s].buffer)
      /\ obj'[e][s].remote = obj[e][s].remote /\ obj'[e][s].local = obj[e][s].local
      /\ obj'[e][s].err = obj[e][s].err
      /\ got'[e][s] = Head(obj[e][s].buffer)
      /\ \A d \in Ends, x \in Streams :
           d # e \/ x # s => obj'[d][x] = obj[d][x] /\ got'[d][x] = got[d][x]
      /\ UNCHANGED <<reg, accept, done, pipe, calls, reader, held, sent, final, ended>>
  BY ReadDataStep
<1>3. /\ obj[e][s].buffer \in Seq(Nat) /\ got[e][s] \in Nat
      /\ \A i \in DOMAIN obj[e][s].buffer : obj[e][s].buffer[i] = got[e][s] + i
  BY Types, ObjectType DEF DataInv
<1>4. /\ Taken(e, s)' = Taken(e, s)
      /\ \A i \in DOMAIN obj'[e][s].buffer : obj'[e][s].buffer[i] = got'[e][s] + i
  <2>1. /\ got'[e][s] + Len(Tail(obj[e][s].buffer)) = got[e][s] + Len(obj[e][s].buffer)
        /\ \A i \in DOMAIN Tail(obj[e][s].buffer) : Tail(obj[e][s].buffer)[i] = got'[e][s] + i
    <3> DEFINE b == obj[e][s].buffer
               n == got[e][s]
    <3>1. b \in Seq(Nat) /\ b # <<>> /\ n \in Nat /\ \A i \in DOMAIN b : b[i] = n + i
      BY <1>2, <1>3
    <3> HIDE DEF b, n
    <3>2. Head(b) + Len(Tail(b)) = n + Len(b) /\ \A i \in DOMAIN Tail(b) : Tail(b)[i] = Head(b) + i
      BY <3>1, BufferTail
    <3> QED BY <1>2, <3>2 DEF b, n
  <2> QED BY <1>2, <2>1 DEF Taken
<1>5. \A d \in Ends, x \in Streams :
        /\ Taken(d, x)' = Taken(d, x) /\ (Live(d, x)' => Live(d, x))
        /\ obj'[d][x].local = obj[d][x].local /\ obj'[d][x].remote = obj[d][x].remote
        /\ obj'[d][x].err = obj[d][x].err
  <2> TAKE d \in Ends, x \in Streams
  <2>1. CASE d = e /\ x = s
    BY <1>2, <1>4, <2>1 DEF Live
  <2>2. CASE d # e \/ x # s
    BY <1>2, <2>2 DEF Live, Taken
  <2> QED BY <2>1, <2>2
<1>6. CallInv' /\ SizeInv'
  BY <1>2 DEF CallInv, SizeInv
<1>7. FreshInv'
  <2> SUFFICES ASSUME NEW d \in Ends, NEW x \in Streams, x \notin held[d]
               PROVE  sent[d][x] = 0 /\ got'[d][x] = 0 /\ ~final[d][x] /\ ~obj'[d][x].local
    BY <1>2 DEF FreshInv
  <2> QED BY <1>2, <1>5 DEF FreshInv
<1>8. OpenInv'
  <2>1. ASSUME NEW d \in Ends, NEW x \in Streams, Unreached(d, x) PROVE Unreached(d, x)'
    <3>1. d # e \/ x # s
      BY <1>2, <2>1 DEF Unreached
    <3> QED BY <1>2, <2>1, <3>1 DEF Unreached
  <2>2. ASSUME NEW d \in Ends, NEW x \in Dialled(d),
               x \notin held[d] \/ Has(pipe[d], x, {"open"})
        PROVE  Unreached(Other(d), x)'
    <3>1. Unreached(Other(d), x)
      BY <2>2 DEF OpenInv
    <3> QED BY <2>1, <3>1, TwoEnds
  <2> QED BY <1>2, <2>2 DEF OpenInv
<1>9. FinalInv'
  BY <1>2, <1>5, TwoEnds DEF FinalInv
<1>10. DataInv'
  <2> SUFFICES ASSUME NEW d \in Ends, NEW x \in Streams
               PROVE  \A i \in DOMAIN obj'[d][x].buffer : obj'[d][x].buffer[i] = got'[d][x] + i
    BY <1>2, <1>5 DEF DataInv
  <2>1. CASE d = e /\ x = s
    BY <1>4, <2>1
  <2>2. CASE d # e \/ x # s
    BY <1>2, <2>2 DEF DataInv
  <2> QED BY <2>1, <2>2
<1>11. EndInv'
  BY <1>2, <1>5 DEF EndInv, Down
<1>12. SweepInv'
  BY <1>2, <1>5, Types DEF SweepInv
<1> QED BY <1>1, <1>6, <1>7, <1>8, <1>9, <1>10, <1>11, <1>12

LEMMA ReadEndKeeps ==
  ASSUME IInv, NEW e \in Ends, NEW s \in Streams, ReadEnd(e, s)
  PROVE  IInv'
<1> USE DEF IInv
<1>1. /\ UNCHANGED <<reg, obj, accept, done, pipe, calls, reader, held, sent, final, got>>
      /\ TypeOK'
  BY ReadEndStep
<1>2. CallInv' /\ FreshInv' /\ SizeInv' /\ SweepInv'
  BY <1>1 DEF CallInv, FreshInv, SizeInv, SweepInv
<1>3. OpenInv'
  BY <1>1 DEF OpenInv, Unreached
<1>4. FinalInv'
  BY <1>1 DEF FinalInv, Live
<1>5. DataInv' /\ EndInv'
  BY <1>1 DEF DataInv, EndInv, Live, Taken, Down
<1> QED BY <1>1, <1>2, <1>3, <1>4, <1>5

\* A frame appended behind the others keeps the order of the open frames.
LEMMA OpenFirstAppend ==
  ASSUME NEW p \in Seq(Frames), NEW w \in Frames, NEW ids, OpenFirst(p, ids),
         w.type = "open" => w.id \in ids /\ ~Has(p, w.id, AllTypes)
  PROVE  OpenFirst(Append(p, w), ids)
<1> DEFINE q == Append(p, w)
           n == Len(p) + 1
<1>1. /\ \A i \in DOMAIN q : i \in DOMAIN p \/ i = n
      /\ \A i \in DOMAIN p : i < n /\ q[i] = p[i]
      /\ q[n] = w
  BY AppendAt
<1>2. w.type = "open" => w.id \in ids /\ \A i \in DOMAIN p : p[i].id # w.id
  <2>1. \A i \in DOMAIN p : p[i] \in Frames
    OBVIOUS
  <2>2. \A i \in DOMAIN p : p[i].type \in AllTypes
    BY <2>1, FrameType
  <2> QED BY <2>2 DEF Has, Is
<1> HIDE DEF q, n
<1>3. ASSUME NEW i \in DOMAIN q, q[i].type = "open", NEW j \in DOMAIN q, j # i, q[j].id = q[i].id
      PROVE  i < j /\ q[j].type # "open"
  <2>1. CASE i \in DOMAIN p /\ j \in DOMAIN p
    BY <1>1, <1>3, <2>1 DEF OpenFirst
  <2>2. CASE i = n /\ j \in DOMAIN p
    BY <1>1, <1>2, <1>3, <2>2
  <2>3. CASE i \in DOMAIN p /\ j = n
    BY <1>1, <1>2, <1>3, <2>3
  <2> QED BY <1>1, <1>3, <2>1, <2>2, <2>3
<1>4. ASSUME NEW i \in DOMAIN q, q[i].type = "open" PROVE q[i].id \in ids
  BY <1>1, <1>2, <1>4 DEF OpenFirst
<1>5. OpenFirst(q, ids)
  BY <1>3, <1>4 DEF OpenFirst
<1> QED BY <1>5 DEF q

LEMMA WriteFrameKeeps ==
  ASSUME IInv, NEW e \in Ends, NEW f, WriteFrame(e, f)
  PROVE  IInv'
<1> USE DEF IInv
<1> DEFINE w == Written(f)
           s == f.id
           p == pipe[e]
           c == Other(e)
<1>1. TypeOK'
  BY WriteFrameStep
<1>2. /\ f \in calls[e] /\ f \in Frames /\ w \in Frames /\ w.id = s /\ w.type = f.type
      /\ f.type = "data" => w.unit = f.unit
      /\ pipe'[e] = Append(p, w) /\ pipe'[c] = pipe[c]
      /\ UNCHANGED <<obj, accept, done, reader, got, ended>>
  BY WriteFrameStep
<1>3. /\ calls'[e] = calls[e] \ {f} /\ calls'[c] = calls[c]
      /\ f.type = "close" /\ f.unit = 1 => reg'[e] = reg[e] \ {s}
      /\ ~(f.type = "close" /\ f.unit = 1) => reg'[e] = reg[e]
      /\ f.type = "open" => held'[e] = held[e] \cup {s}
      /\ f.type # "open" => held'[e] = held[e]
      /\ reg'[c] = reg[c] /\ held'[c] = held[c]
  BY WriteFrameStep, TwoEnds
<1>4. /\ \A d \in Ends, x \in Streams : d # e \/ x # s => sent'[d][x] = sent[d][x]
      /\ sent'[e][s] = IF f.type = "data" /\ ~final[e][s] THEN sent[e][s] + 1 ELSE sent[e][s]
  BY <1>2, WriteFrameStep, FrameType
<1>5. \A d \in Ends, x \in Streams :
        final'[d][x] <=> final[d][x] \/ (d = e /\ x = s /\ f.type = "close")
  BY WriteFrameStep
<1>6. /\ s \in Streams /\ p \in Seq(Frames) /\ c \in Ends /\ c # e /\ Other(c) = e
      /\ \A d \in Ends : d = e \/ d = c
      /\ sent[e][s] \in Nat /\ f.type \in {"open", "data", "close"}
  <2>1. f.type \in {"open", "data", "close"}
    BY <1>2, FrameType DEF CallInv, AllTypes
  <2>2. s \in Streams
    BY <1>2, FrameType
  <2> QED BY <2>1, <2>2, Types, TwoEnds
<1>7. /\ f.type = "open" => /\ s \in Dialled(e) /\ s \notin held[e]
                            /\ \A g \in calls[e] : g.id = s => g = f
      /\ f.type # "open" => s \in held[e]
      /\ f.type = "data" => f.unit = sent[e][s] + 1
  BY <1>2, <1>6 DEF CallInv
<1>8. f.type = "open" => ~Has(p, s, AllTypes) /\ Unreached(c, s)
  BY <1>7 DEF OpenInv
<1> HIDE DEF w, s, p, c
<1>9. \A d \in Ends : /\ held[d] \subseteq held'[d] /\ held'[d] \subseteq held[d] \cup {s}
                      /\ reg'[d] \subseteq reg[d] /\ calls'[d] \subseteq calls[d]
                      /\ d = c => held'[d] = held[d] /\ calls'[d] = calls[d]
  BY <1>3, <1>6
<1>10. \A x, types : Has(pipe'[e], x, types) <=> Has(p, x, types) \/ Is(w, x, types)
  BY <1>2, <1>6, HasAppend
<1>11. p = pipe[e] /\ c = Other(e) /\ s = f.id
  BY DEF p, c, s
<1>12. CallInv'
  <2>1. ASSUME NEW g \in calls'[e]
        PROVE  /\ g.type = "open" => /\ g.id \in Dialled(e) /\ g.id \notin held'[e]
                                     /\ \A h \in calls'[e] : h.id = g.id => h = g
               /\ g.type \in {"data", "close"} => g.id \in held'[e]
               /\ g.type # "reset"
    <3>1. g \in calls[e] /\ g # f
      BY <1>3
    <3>2. g.type = "open" => /\ g.id \in Dialled(e) /\ g.id \notin held[e]
                             /\ \A h \in calls[e] : h.id = g.id => h = g
      BY <3>1 DEF CallInv
    <3>3. g.type = "open" => g.id # s
      BY <1>2, <1>11, <3>1, <3>2
    <3> QED BY <1>9, <3>1, <3>2, <3>3 DEF CallInv
  <2>2. ASSUME NEW g \in calls'[e], g.type = "data" PROVE g.unit = sent'[e][g.id] + 1
    <3>1. g \in calls[e] /\ g # f /\ g \in Frames /\ g.unit = sent[e][g.id] + 1
      BY <1>3, <2>2, Types DEF CallInv
    <3>2. ~(g.id = s /\ f.type = "data")
      BY <1>2, <1>7, <1>11, <2>2, <3>1 DEF Frames
    <3>3. g.id \in Streams
      BY <3>1, FrameType
    <3> QED BY <1>4, <3>1, <3>2, <3>3
  <2>3. \A g \in calls'[c] :
          /\ g.type = "open" => /\ g.id \in Dialled(c) /\ g.id \notin held'[c]
                                /\ \A h \in calls'[c] : h.id = g.id => h = g
          /\ g.type \in {"data", "close"} => g.id \in held'[c]
          /\ g.type = "data" => g.unit = sent[c][g.id] + 1
          /\ g.type # "reset"
    BY <1>3, <1>6, <1>11 DEF CallInv
  <2>4. \A g \in calls'[c] : sent'[c][g.id] = sent[c][g.id]
    <3>1. \A g \in calls[c] : g.id \in Streams
      BY <1>6, Types, FrameType
    <3> QED BY <1>3, <1>4, <1>6, <1>11, <3>1
  <2> SUFFICES ASSUME NEW d \in Ends, NEW g \in calls'[d]
               PROVE  /\ g.type = "open" => /\ g.id \in Dialled(d) /\ g.id \notin held'[d]
                                            /\ \A h \in calls'[d] : h.id = g.id => h = g
                      /\ g.type \in {"data", "close"} => g.id \in held'[d]
                      /\ g.type = "data" => g.unit = sent'[d][g.id] + 1
                      /\ g.type # "reset"
    BY DEF CallInv
  <2> QED BY <1>6, <2>1, <2>2, <2>3, <2>4
<1>13. FreshInv'
  <2> SUFFICES ASSUME NEW d \in Ends, NEW x \in Streams, x \notin held'[d]
               PROVE  sent'[d][x] = 0 /\ got[d][x] = 0 /\ ~final'[d][x] /\ ~obj[d][x].local
    BY <1>2 DEF FreshInv
  <2>1. x \notin held[d]
    BY <1>9
  <2>2. d # e \/ x # s
    BY <1>3, <1>7, <2>1
  <2> QED BY <1>4, <1>5, <2>1, <2>2 DEF FreshInv
<1>14. OpenInv'
  <2>1. \A d \in Ends : OpenFirst(pipe'[d], Dialled(d))
    <3>1. OpenFirst(pipe[e], Dialled(e)) /\ OpenFirst(pipe[c], Dialled(c))
      BY <1>6 DEF OpenInv
    <3>2. OpenFirst(pipe'[e], Dialled(e))
      BY <1>2, <1>6, <1>7, <1>8, <1>11, <3>1, OpenFirstAppend
    <3> QED BY <1>2, <1>6, <3>1, <3>2
  <2>2. ASSUME NEW d \in Ends, NEW x \in Dialled(d), x \notin held'[d]
        PROVE  ~Has(pipe'[d], x, AllTypes) /\ reader[d] # x
    <3>1. ~Has(pipe[d], x, AllTypes) /\ reader[d] # x
      BY <1>9, <2>2 DEF OpenInv
    <3>2. d = e => x # s
      BY <1>3, <1>7, <2>2
    <3>3. d = e => ~Is(w, x, AllTypes)
      BY <1>2, <3>2 DEF Is
    <3> QED BY <1>2, <1>6, <1>10, <1>11, <3>1, <3>3
  <2>3. ASSUME NEW d \in Ends, NEW x \in Streams, Unreached(d, x) PROVE Unreached(d, x)'
    <3>1. d = e => x # s
      BY <1>2, <1>11, <2>3 DEF Unreached
    <3>2. x \notin reg'[d] /\ x \notin held'[d] /\ \A g \in calls'[d] : g.id # x
      BY <1>6, <1>9, <2>3, <3>1 DEF Unreached
    <3>3. ~Has(pipe'[d], x, AllTypes)
      BY <1>2, <1>6, <1>10, <1>11, <2>3, <3>1 DEF Unreached, Is
    <3> QED BY <1>2, <2>3, <3>2, <3>3 DEF Unreached
  <2>4. ASSUME NEW d \in Ends, NEW x \in Dialled(d),
               x \notin held'[d] \/ Has(pipe'[d], x, {"open"})
        PROVE  Unreached(Other(d), x)'
    <3>1. x \notin held[d] \/ Has(pipe[d], x, {"open"})
      <4>1. d = e /\ Is(w, x, {"open"}) => x \notin held[d]
        BY <1>2, <1>7 DEF Is
      <4> QED BY <1>2, <1>6, <1>9, <1>10, <1>11, <2>4, <4>1
    <3>2. Unreached(Other(d), x)
      BY <3>1 DEF OpenInv
    <3> QED BY <2>3, <3>2, TwoEnds
  <2>5. \A d \in Ends : Range(accept'[d]) \subseteq Dialled(Other(d))
    BY <1>2 DEF OpenInv
  <2> QED BY <1>2, <2>1, <2>2, <2>4, <2>5 DEF OpenInv
<1>15. \A d \in Ends, x \in Streams :
         Live(d, x)' => Live(d, x) \/ (d = c /\ x = s /\ f.type = "open")
  <2> TAKE d \in Ends, x \in Streams
  <2>1. Has(pipe'[Other(d)], x, {"open"}) =>
          Has(pipe[Other(d)], x, {"open"}) \/ (d = c /\ x = s /\ f.type = "open")
    <3>1. CASE d = c
      BY <1>2, <1>6, <1>10, <1>11, <3>1 DEF Is
    <3>2. CASE d = e
      BY <1>2, <1>11, <3>2
    <3> QED BY <1>6, <3>1, <3>2
  <2> QED BY <1>2, <1>9, <2>1 DEF Live
<1>16. FinalInv'
  <2> SUFFICES ASSUME NEW d \in Ends, NEW x \in Streams
               PROVE  /\ Has(pipe'[d], x, {"close"}) => final'[d][x]
                      /\ final'[d][x] /\ Live(Other(d), x)' => Has(pipe'[d], x, {"close"})
    BY DEF FinalInv
  <2>1. Has(pipe'[d], x, {"close"}) <=>
          Has(pipe[d], x, {"close"}) \/ (d = e /\ x = s /\ f.type = "close")
    <3>1. CASE d = e
      BY <1>2, <1>10, <1>11, <3>1 DEF Is
    <3>2. CASE d = c
      BY <1>2, <1>6, <3>2
    <3> QED BY <1>6, <3>1, <3>2
  <2>2. final'[d][x] <=> final[d][x] \/ (d = e /\ x = s /\ f.type = "close")
    BY <1>5
  <2>3. final[d][x] /\ Live(Other(d), x)' => Live(Other(d), x)
    <3>1. d = e /\ x = s /\ f.type = "open" => ~final[d][x]
      BY <1>7 DEF FreshInv
    <3>2. Other(d) \in Ends /\ (Other(d) = c => d = e)
      BY <1>6, <1>11, TwoEnds
    <3> QED BY <1>15, <3>1, <3>2
  <2> QED BY <2>1, <2>2, <2>3, Zenon DEF FinalInv
<1>17. DataInv'
  <2>1. \A d \in Ends, x \in Streams : Taken(d, x)' = Taken(d, x) /\ Taken(d, x) \in Nat
    <3> TAKE d \in Ends, x \in Streams
    <3>1. obj[d][x] \in Objects /\ got[d][x] \in Nat
      BY Types
    <3>2. Len(obj[d][x].buffer) \in Nat
      BY <3>1, ObjectType
    <3>3. Taken(d, x) \in Nat
      BY <3>1, <3>2 DEF Taken
    <3> QED BY <1>2, <3>3 DEF Taken
  <2>2. ASSUME NEW x \in Streams, Live(c, x)'
        PROVE  Chain(pipe'[e], x, Taken(c, x) + 1, sent'[e][x])
    <3> DEFINE t == Taken(c, x) + 1
    <3>1. t \in Nat /\ sent[e][x] \in Nat /\ t <= sent[e][x] + 1
      <4>1. Taken(c, x) \in Nat /\ sent[e][x] \in Nat /\ Taken(c, x) <= sent[e][x]
        BY <1>6, <2>1, Types DEF DataInv
      <4> QED BY <4>1
    <3>2. Live(c, x) => Chain(p, x, t, sent[e][x])
      BY <1>6, <1>11 DEF DataInv
    <3> HIDE DEF t
    <3>3. CASE x = s /\ f.type = "open"
      <4>1. ~Has(p, s, AllTypes) /\ obj[c][s] = NewStream /\ s \notin held[c] /\ s \notin held[e]
        BY <1>7, <1>8, <3>3 DEF Unreached
      <4>2. got[c][s] = 0 /\ sent[e][s] = 0
        BY <1>6, <4>1 DEF FreshInv
      <4>3. t = 1
        BY <3>3, <4>1, <4>2, NewIsObject DEF t, Taken
      <4>4. Chain(p, s, 1, 0)
        BY <4>1, ChainNone
      <4>5. Chain(Append(p, w), s, 1, 0)
        BY <1>2, <1>6, <3>3, <4>4, ChainQuiet DEF Is
      <4> QED BY <1>2, <1>4, <3>3, <4>2, <4>3, <4>5 DEF t
    <3>4. CASE Live(c, x) /\ (x # s \/ f.type = "close")
      <4>1. ~Is(w, x, {"data"})
        BY <1>2, <3>4 DEF Is
      <4>2. Chain(Append(p, w), x, t, sent[e][x])
        BY <1>2, <1>6, <3>1, <3>2, <3>4, <4>1, ChainQuiet
      <4>3. sent'[e][x] = sent[e][x]
        BY <1>4, <3>4
      <4> QED BY <1>2, <4>2, <4>3 DEF t
    <3>5. CASE Live(c, x) /\ x = s /\ f.type = "data" /\ ~final[e][s]
      <4>1. ~Has(p, s, {"close"})
        BY <1>6, <1>11, <3>5 DEF FinalInv
      <4>2. Is(w, s, {"data"}) /\ w.unit = sent[e][s] + 1
        BY <1>2, <1>7, <3>5 DEF Is
      <4>3. Chain(Append(p, w), s, t, sent[e][s] + 1)
        BY <1>2, <1>6, <3>1, <3>2, <3>5, <4>1, <4>2, ChainGrows
      <4> QED BY <1>2, <1>4, <3>5, <4>3 DEF t
    <3>6. CASE Live(c, x) /\ x = s /\ f.type = "data" /\ final[e][s]
      <4>1. Has(p, s, {"close"})
        BY <1>6, <1>11, <3>6 DEF FinalInv
      <4>2. Has(p, s, Endings)
        BY <4>1 DEF Has, Is, Endings
      <4>3. Chain(Append(p, w), s, t, sent[e][s])
        BY <1>2, <1>6, <3>1, <3>2, <3>6, <4>2, ChainQuiet
      <4> QED BY <1>2, <1>4, <3>6, <4>3 DEF t
    <3> QED BY <1>6, <1>15, <2>2, <3>3, <3>4, <3>5, <3>6
  <2>3. ASSUME NEW x \in Streams, Live(e, x)'
        PROVE  Chain(pipe'[c], x, Taken(e, x) + 1, sent'[c][x])
    <3>1. Live(e, x)
      BY <1>6, <1>15, <2>3
    <3> QED BY <1>2, <1>4, <1>6, <1>11, <3>1 DEF DataInv
  <2>4. \A d \in Ends, x \in Streams : Taken(d, x) <= sent'[Other(d)][x]
    <3> TAKE d \in Ends, x \in Streams
    <3>1. Taken(d, x) <= sent[Other(d)][x] /\ Other(d) \in Ends
      BY TwoEnds DEF DataInv
    <3>2. sent[Other(d)][x] \in Nat /\ Taken(d, x) \in Nat
      BY <2>1, <3>1, Types
    <3>3. sent'[Other(d)][x] = sent[Other(d)][x] \/ sent'[Other(d)][x] = sent[Other(d)][x] + 1
      BY <1>4, <3>1
    <3> QED BY <3>1, <3>2, <3>3
  <2>5. \A d \in Ends, x \in Streams :
          Live(d, x)' => Chain(pipe'[Other(d)], x, Taken(d, x) + 1, sent'[Other(d)][x])
    BY <1>6, <1>11, <2>2, <2>3
  <2> QED BY <1>2, <2>1, <2>4, <2>5 DEF DataInv
<1>18. EndInv'
  <2> SUFFICES ASSUME NEW d \in Ends, NEW x \in Streams,
                      ~obj[d][x].local, obj[d][x].remote, obj[d][x].err = "none"
               PROVE  final'[Other(d)][x] /\ Taken(d, x) = sent'[Other(d)][x]
    BY <1>2 DEF EndInv, Taken, Down
  <2>1. final[Other(d)][x] /\ Taken(d, x) = sent[Other(d)][x] /\ Other(d) \in Ends
    BY TwoEnds DEF EndInv
  <2>2. sent'[Other(d)][x] = sent[Other(d)][x]
    BY <1>4, <2>1
  <2> QED BY <1>5, <2>1, <2>2
<1>19. SweepInv'
  <2> SUFFICES ASSUME NEW d \in Ends, NEW x \in reg'[d], obj[d][x].local, obj[d][x].remote
               PROVE  Frame("close", x, 1) \in calls'[d]
    BY <1>2 DEF SweepInv
  <2>1. Frame("close", x, 1) \in calls[d]
    BY <1>9 DEF SweepInv
  <2>2. d = e => Frame("close", x, 1) # f
    BY <1>3, <1>11, FrameType
  <2> QED BY <1>3, <1>6, <2>1, <2>2
<1>20. SizeInv'
  <2> SUFFICES ASSUME NEW d \in Ends PROVE IsFiniteSet(reg'[d])
    BY DEF SizeInv
  <2>1. IsFiniteSet(reg[d]) /\ reg'[d] \subseteq reg[d]
    BY <1>9 DEF SizeInv
  <2> QED BY <2>1, FS_Subset
<1> QED BY <1>1, <1>12, <1>13, <1>14, <1>16, <1>17, <1>18, <1>19, <1>20

\* The reset that readLoop writes itself.
LEMMA WriteResetKeeps ==
  ASSUME IInv, NEW e \in Ends, WriteReset(e)
  PROVE  IInv'
<1> USE DEF IInv
<1> DEFINE s == reader[e]
           w == Frame("reset", s, 0)
           p == pipe[e]
           c == Other(e)
<1>1. TypeOK'
  BY WriteResetStep
<1>2. CASE Fades
  BY <1>1, <1>2, FadesKeeps
<1>3. CASE /\ s \in Streams /\ pipe'[e] = Append(p, w) /\ pipe'[c] = pipe[c]
           /\ reader'[e] = None /\ \A d \in Ends : d # e => reader'[d] = reader[d]
           /\ UNCHANGED <<reg, obj, accept, done, calls, held, sent, final, got, ended>>
  <2>1. /\ w.id = s /\ w.type = "reset" /\ w \in Frames /\ p \in Seq(Frames)
        /\ c \in Ends /\ c # e /\ Other(c) = e /\ \A d \in Ends : d = e \/ d = c
        /\ p = pipe[e] /\ c = Other(e) /\ s = reader[e]
    BY <1>3, FrameType, Types, TwoEnds
  <2> HIDE DEF s, w, p, c
  <2>2. \A x, types : Has(pipe'[e], x, types) <=> Has(p, x, types) \/ Is(w, x, types)
    BY <1>3, <2>1, HasAppend
  <2>3. \A d \in Ends : \A x, types : ~("reset" \in types) =>
          (Has(pipe'[d], x, types) <=> Has(pipe[d], x, types))
    BY <1>3, <2>1, <2>2 DEF Is
  <2>4. CallInv' /\ FreshInv' /\ SweepInv' /\ SizeInv'
    BY <1>3 DEF CallInv, FreshInv, SweepInv, SizeInv
  <2>5. EndInv'
    BY <1>3 DEF EndInv, Taken, Down
  <2>6. \A d \in Ends, x \in Streams : Live(d, x)' <=> Live(d, x)
    <3> TAKE d \in Ends, x \in Streams
    <3>1. Has(pipe'[Other(d)], x, {"open"}) <=> Has(pipe[Other(d)], x, {"open"})
      BY <2>3, TwoEnds
    <3> QED BY <1>3, <3>1 DEF Live
  <2>7. FinalInv'
    <3>1. \A d \in Ends, x \in Streams :
            Has(pipe'[d], x, {"close"}) <=> Has(pipe[d], x, {"close"})
      BY <2>3
    <3> QED BY <1>3, <2>6, <3>1, TwoEnds DEF FinalInv
  <2>8. DataInv'
    <3>1. ASSUME NEW x \in Streams, Live(c, x)
          PROVE  Chain(pipe'[e], x, Taken(c, x) + 1, sent[e][x])
      <4> DEFINE t == Taken(c, x) + 1
      <4>1. /\ obj[c][x] \in Objects /\ got[c][x] \in Nat /\ sent[e][x] \in Nat
        BY <2>1, Types
      <4>2. Len(obj[c][x].buffer) \in Nat
        BY <4>1, ObjectType
      <4>3. t \in Nat
        BY <4>1, <4>2 DEF Taken
      <4>4. Chain(p, x, t, sent[e][x])
        BY <2>1, <3>1 DEF DataInv
      <4> HIDE DEF t
      <4>5. Chain(Append(p, w), x, t, sent[e][x])
        BY <2>1, <4>1, <4>3, <4>4, ChainQuiet DEF Is
      <4> QED BY <1>3, <4>5 DEF t
    <3>2. \A d \in Ends, x \in Streams :
            Live(d, x) => Chain(pipe'[Other(d)], x, Taken(d, x) + 1, sent[Other(d)][x])
      <4>1. ASSUME NEW x \in Streams, Live(e, x)
            PROVE  Chain(pipe'[c], x, Taken(e, x) + 1, sent[c][x])
        BY <1>3, <2>1, <4>1 DEF DataInv
      <4> QED BY <2>1, <3>1, <4>1
    <3>3. \A d \in Ends, x \in Streams : Taken(d, x)' = Taken(d, x)
      BY <1>3 DEF Taken
    <3> QED BY <1>3, <2>6, <3>2, <3>3 DEF DataInv
  <2>9. OpenInv'
    <3>1. \A d \in Ends : OpenFirst(pipe'[d], Dialled(d))
      <4>1. OpenFirst(p, Dialled(e)) /\ OpenFirst(pipe[c], Dialled(c))
        BY <2>1 DEF OpenInv
      <4>2. OpenFirst(pipe'[e], Dialled(e))
        BY <1>3, <2>1, <4>1, OpenFirstAppend
      <4> QED BY <1>3, <2>1, <4>1, <4>2
    <3>2. ASSUME NEW d \in Ends, NEW x \in Dialled(d), x \notin held[d]
          PROVE  ~Has(pipe'[d], x, AllTypes) /\ reader'[d] # x
      <4>1. ~Has(pipe[d], x, AllTypes) /\ reader[d] # x /\ x \in Streams
        BY <3>2, TwoEnds DEF OpenInv
      <4>2. d = e => ~Is(w, x, AllTypes)
        BY <2>1, <4>1 DEF Is
      <4>3. x # None
        BY <4>1, MuxAssumption DEF Streams
      <4> QED BY <1>3, <2>1, <2>2, <4>1, <4>2, <4>3
    <3>3. ASSUME NEW d \in Ends, NEW x \in Streams, Unreached(d, x) PROVE Unreached(d, x)'
      <4>1. d = e => x # s
        BY <2>1, <3>3 DEF Unreached
      <4>2. ~Has(pipe'[d], x, AllTypes)
        BY <1>3, <2>1, <2>2, <3>3, <4>1 DEF Unreached, Is
      <4>3. reader'[d] # x
        BY <1>3, <2>1, <3>3, MuxAssumption DEF Unreached, Streams
      <4> QED BY <1>3, <3>3, <4>2, <4>3 DEF Unreached
    <3>4. ASSUME NEW d \in Ends, NEW x \in Dialled(d),
                 x \notin held[d] \/ Has(pipe'[d], x, {"open"})
          PROVE  Unreached(Other(d), x)'
      <4>1. Unreached(Other(d), x)
        BY <2>3, <3>4 DEF OpenInv
      <4> QED BY <3>3, <4>1, TwoEnds
    <3>5. \A d \in Ends : Range(accept'[d]) \subseteq Dialled(Other(d))
      BY <1>3 DEF OpenInv
    <3> QED BY <1>3, <3>1, <3>2, <3>4, <3>5 DEF OpenInv
  <2> QED BY <1>1, <2>4, <2>5, <2>7, <2>8, <2>9
<1> QED BY <1>2, <1>3, WriteResetStep

-----------------------------------------------------------------------------
(* What the frames that readLoop takes have in common. *)

LEMMA OpenFirstTail ==
  ASSUME NEW p \in Seq(Frames), p # <<>>, NEW ids, OpenFirst(p, ids)
  PROVE  /\ OpenFirst(Tail(p), ids)
         /\ Head(p).type = "open" => Head(p).id \in ids
         /\ ~Has(Tail(p), Head(p).id, {"open"})
         /\ Head(p).type # "open" => ~Has(p, Head(p).id, {"open"})
<1> DEFINE q == Tail(p)
<1>1. /\ \A i \in DOMAIN q : i \in Nat /\ i + 1 \in DOMAIN p /\ q[i] = p[i + 1] /\ i + 1 # 1
      /\ 1 \in DOMAIN p /\ Head(p) = p[1] /\ \A i \in DOMAIN p : i \in Nat /\ ~(i < 1)
  BY TailAt
<1> HIDE DEF q
<1>2. ASSUME NEW i \in DOMAIN q, q[i].type = "open", NEW j \in DOMAIN q, j # i, q[j].id = q[i].id
      PROVE  i < j /\ q[j].type # "open"
  <2>1. i + 1 # j + 1 /\ (i + 1 < j + 1 => i < j)
    BY <1>1, <1>2
  <2> QED BY <1>1, <1>2, <2>1 DEF OpenFirst
<1>3. OpenFirst(q, ids)
  BY <1>1, <1>2 DEF OpenFirst
<1>4. ~Has(q, Head(p).id, {"open"})
  <2> SUFFICES ASSUME NEW i \in DOMAIN q, q[i].id = Head(p).id, q[i].type = "open"
               PROVE  FALSE
    BY DEF Has, Is
  <2>1. i + 1 < 1
    BY <1>1 DEF OpenFirst
  <2> QED BY <1>1, <2>1
<1>5. ASSUME Head(p).type # "open" PROVE ~Has(p, Head(p).id, {"open"})
  <2> SUFFICES ASSUME NEW i \in DOMAIN p, p[i].id = Head(p).id, p[i].type = "open"
               PROVE  FALSE
    BY DEF Has, Is
  <2>1. i # 1
    BY <1>1, <1>5
  <2>2. i < 1
    BY <1>1, <2>1 DEF OpenFirst
  <2> QED BY <1>1, <2>2
<1> QED BY <1>1, <1>3, <1>4, <1>5 DEF q, OpenFirst

\* readLoop of e concerns itself with one stream, and with nothing of the other end.
Hears(e, t) ==
  /\ \A d \in Ends : d # e =>
       reg'[d] = reg[d] /\ accept'[d] = accept[d] /\ reader'[d] = reader[d]
  /\ reg'[e] \subseteq reg[e] \cup {t} /\ reader'[e] \in {reader[e], t}
  /\ \/ accept'[e] = accept[e]
     \/ accept'[e] = Append(accept[e], t) /\ Next1(e).type = "open"
  /\ \A d \in Ends, x \in Streams : d # e \/ x # t => obj'[d][x] = obj[d][x]
  /\ obj'[e][t].local = obj[e][t].local
  /\ UNCHANGED <<done, calls, held, sent, final, got, ended>>

LEMMA Taking ==
  ASSUME IInv, NEW e \in Ends, NEW types, Takes(e, types), NEW p, p = pipe[Other(e)],
         NEW t, t = Next1(e).id
  PROVE  /\ p \in Seq(Frames) /\ p # <<>> /\ Head(p) = Next1(e) /\ Head(p) \in Frames
         /\ t \in Streams /\ Next1(e).type \in types
         /\ pipe'[Other(e)] = Tail(p) /\ pipe'[e] = pipe[e]
         /\ \A x, ts : Has(p, x, ts) <=> Is(Head(p), x, ts) \/ Has(Tail(p), x, ts)
         /\ OpenFirst(Tail(p), Dialled(Other(e))) /\ ~Has(Tail(p), t, {"open"})
         /\ Next1(e).type = "open" => t \in Dialled(Other(e))
         /\ Next1(e).type # "open" => ~Has(p, t, {"open"})
         /\ Has(p, t, AllTypes)
<1> USE DEF IInv
<1>1. /\ p \in Seq(Frames) /\ p # <<>> /\ Head(p) = Next1(e) /\ Head(p) \in Frames
      /\ t \in Streams /\ Next1(e).type \in types
      /\ pipe'[Other(e)] = Tail(p) /\ pipe'[e] = pipe[e]
  BY TakesStep, Types, TwoEnds DEF Next1
<1>2. \A x, ts : Has(p, x, ts) <=> Is(Head(p), x, ts) \/ Has(Tail(p), x, ts)
  BY <1>1, HasTail
<1>3. OpenFirst(p, Dialled(Other(e)))
  BY TwoEnds DEF OpenInv
<1>4. /\ OpenFirst(Tail(p), Dialled(Other(e))) /\ ~Has(Tail(p), t, {"open"})
      /\ Next1(e).type = "open" => t \in Dialled(Other(e))
      /\ Next1(e).type # "open" => ~Has(p, t, {"open"})
  BY <1>1, <1>3, OpenFirstTail
<1>5. Has(p, t, AllTypes)
  BY <1>1, <1>2, FrameType DEF Is
<1> QED BY <1>1, <1>2, <1>4, <1>5

LEMMA TakesKeepsOpen ==
  ASSUME IInv, NEW e \in Ends, NEW types, Takes(e, types), NEW t, t = Next1(e).id, Hears(e, t)
  PROVE  OpenInv' /\ CallInv' /\ FreshInv'
<1> USE DEF IInv
<1> DEFINE c == Other(e)
           p == pipe[c]
<1>1. /\ p \in Seq(Frames) /\ p # <<>> /\ t \in Streams
      /\ pipe'[c] = Tail(p) /\ pipe'[e] = pipe[e]
      /\ \A x, ts : Has(p, x, ts) <=> Is(Head(p), x, ts) \/ Has(Tail(p), x, ts)
      /\ OpenFirst(Tail(p), Dialled(c)) /\ ~Has(Tail(p), t, {"open"})
      /\ Next1(e).type = "open" => t \in Dialled(c)
      /\ Has(p, t, AllTypes)
  <2>1. /\ p \in Seq(Frames) /\ p # <<>> /\ t \in Streams
        /\ pipe'[c] = Tail(p) /\ pipe'[e] = pipe[e]
    BY ZenonT(40), Taking
  <2>2. \A x, ts : Has(p, x, ts) <=> Is(Head(p), x, ts) \/ Has(Tail(p), x, ts)
    BY Taking
  <2>3. OpenFirst(Tail(p), Dialled(c)) /\ ~Has(Tail(p), t, {"open"})
    BY Taking
  <2>4. Next1(e).type = "open" => t \in Dialled(c)
    BY Taking
  <2>5. Has(p, t, AllTypes)
    BY Taking
  <2> QED BY <2>1, <2>2, <2>3, <2>4, <2>5
<1>2. /\ c \in Ends /\ c # e /\ Other(c) = e /\ \A d \in Ends : d = e \/ d = c
      /\ p = pipe[c] /\ c = Other(e) /\ Dialled(e) \cap Dialled(c) = {}
  BY TwoEnds
<1> HIDE DEF c, p
<1>3. UNCHANGED <<done, calls, held, sent, final, got, ended>>
  BY DEF Hears
<1>4. CallInv'
  BY <1>3 DEF CallInv
<1>5. FreshInv'
  <2>1. \A d \in Ends, x \in Streams : obj'[d][x].local = obj[d][x].local
    BY DEF Hears
  <2> QED BY <1>3, <2>1 DEF FreshInv
<1>6. \A d \in Ends : \A x, ts : Has(pipe'[d], x, ts) => Has(pipe[d], x, ts)
  BY <1>1, <1>2
<1>7. t \in Dialled(c) => t \in held[c]
  BY <1>1, <1>2 DEF OpenInv
<1>8. t \in Dialled(e) => t \in held[e]
  <2>1. t \in Dialled(e) /\ t \notin held[e] => Unreached(c, t)
    BY <1>2 DEF OpenInv
  <2> QED BY <1>1, <1>2, <2>1 DEF Unreached
<1>9. \A d \in Ends : OpenFirst(pipe'[d], Dialled(d))
  BY <1>1, <1>2 DEF OpenInv
<1>10. ASSUME NEW d \in Ends, NEW x \in Dialled(d), x \notin held[d]
       PROVE  ~Has(pipe'[d], x, AllTypes) /\ reader'[d] # x
  <2>1. ~Has(pipe[d], x, AllTypes) /\ reader[d] # x
    BY <1>10 DEF OpenInv
  <2>2. d = e => x # t
    BY <1>8, <1>10
  <2>3. reader'[d] # x
    BY <2>1, <2>2 DEF Hears
  <2> QED BY <1>6, <2>1, <2>3
<1>11. ASSUME NEW d \in Ends, NEW x \in Streams, Unreached(d, x), d = e => x # t
       PROVE  Unreached(d, x)'
  <2>1. obj'[d][x] = obj[d][x] /\ x \notin reg'[d] /\ reader'[d] # x
    BY <1>11 DEF Hears, Unreached
  <2>2. x \notin Range(accept'[d])
    <3>1. CASE accept'[d] = accept[d]
      BY <1>11, <3>1 DEF Unreached
    <3>2. CASE d = e /\ accept'[e] = Append(accept[e], t)
      <4>0. accept[e] \in Seq(Streams) /\ t \in Streams
        BY <1>1, Types
      <4>1. Range(Append(accept[e], t)) = Range(accept[e]) \cup {t}
        BY <4>0, RangeAppend
      <4> QED BY <1>11, <3>2, <4>1 DEF Unreached
    <3> QED BY <3>1, <3>2 DEF Hears
  <2> QED BY <1>3, <1>6, <1>11, <2>1, <2>2 DEF Unreached
<1>12. ASSUME NEW d \in Ends, NEW x \in Dialled(d),
              x \notin held[d] \/ Has(pipe'[d], x, {"open"})
       PROVE  Unreached(Other(d), x)'
  <2>1. Unreached(Other(d), x)
    BY <1>6, <1>12 DEF OpenInv
  <2>2. d = c => x # t
    BY <1>1, <1>7, <1>12
  <2> QED BY <1>2, <1>11, <2>1, <2>2, TwoEnds
<1>13. ASSUME NEW d \in Ends PROVE Range(accept'[d]) \subseteq Dialled(Other(d))
  <2>1. Range(accept[d]) \subseteq Dialled(Other(d))
    BY DEF OpenInv
  <2>2. CASE accept'[d] = accept[d]
    BY <2>1, <2>2
  <2>3. CASE d = e /\ accept'[e] = Append(accept[e], t) /\ Next1(e).type = "open"
    <3>0. accept[e] \in Seq(Streams) /\ t \in Streams
      BY <1>1, Types
    <3>1. Range(Append(accept[e], t)) = Range(accept[e]) \cup {t}
      BY <3>0, RangeAppend
    <3> QED BY <1>1, <1>2, <2>1, <2>3, <3>1
  <2> QED BY <2>2, <2>3 DEF Hears
<1>14. OpenInv'
  BY <1>3, <1>9, <1>10, <1>12, <1>13 DEF OpenInv
<1> QED BY <1>4, <1>5, <1>14

\* Only what was alive is, and the end of a stream that is alive is not taken.
Survives(e) ==
  \A x \in Streams : Live(e, x)' => Live(e, x) /\ ~Is(Next1(e), x, Endings)

LEMMA TakesKeepsFinal ==
  ASSUME IInv, NEW e \in Ends, NEW types, Takes(e, types), NEW t, t = Next1(e).id, Hears(e, t),
         Survives(e)
  PROVE  FinalInv' /\ \A x \in Streams : Live(Other(e), x)' => Live(Other(e), x)
<1> USE DEF IInv
<1> DEFINE c == Other(e)
           p == pipe[c]
<1>1. /\ p \in Seq(Frames) /\ p # <<>> /\ t \in Streams /\ Head(p) = Next1(e)
      /\ pipe'[c] = Tail(p) /\ pipe'[e] = pipe[e]
      /\ \A x, ts : Has(p, x, ts) <=> Is(Head(p), x, ts) \/ Has(Tail(p), x, ts)
  <2>1. /\ p \in Seq(Frames) /\ p # <<>> /\ t \in Streams /\ Head(p) = Next1(e)
        /\ pipe'[c] = Tail(p) /\ pipe'[e] = pipe[e]
    BY ZenonT(40), Taking
  <2>2. \A x, ts : Has(p, x, ts) <=> Is(Head(p), x, ts) \/ Has(Tail(p), x, ts)
    BY Taking
  <2> QED BY <2>1, <2>2
<1>2. /\ c \in Ends /\ c # e /\ Other(c) = e /\ \A d \in Ends : d = e \/ d = c
      /\ p = pipe[c] /\ c = Other(e)
  BY TwoEnds
<1> HIDE DEF c, p
<1>3. UNCHANGED <<done, calls, held, sent, final, got, ended>>
  BY DEF Hears
<1>4. \A x \in Streams : Live(c, x)' => Live(c, x)
  <2> TAKE x \in Streams
  <2>1. reg'[c] = reg[c] /\ obj'[c][x] = obj[c][x]
    BY <1>2 DEF Hears
  <2> QED BY <1>1, <1>2, <2>1 DEF Live
<1>5. \A d \in Ends, x \in Streams : Has(pipe'[d], x, {"close"}) => final[d][x]
  BY <1>1, <1>2 DEF FinalInv
<1>6. ASSUME NEW x \in Streams, final[c][x], Live(e, x)' PROVE Has(pipe'[c], x, {"close"})
  <2>1. Live(e, x) /\ ~Is(Next1(e), x, Endings)
    BY <1>6 DEF Survives
  <2>2. Has(p, x, {"close"})
    BY <1>2, <1>6, <2>1 DEF FinalInv
  <2> QED BY <1>1, <2>1, <2>2 DEF Is, Endings
<1>7. ASSUME NEW x \in Streams, final[e][x], Live(c, x)' PROVE Has(pipe'[e], x, {"close"})
  BY <1>1, <1>2, <1>4, <1>7 DEF FinalInv
<1>8. FinalInv'
  <2> SUFFICES ASSUME NEW d \in Ends, NEW x \in Streams
               PROVE  final[d][x] /\ Live(Other(d), x)' => Has(pipe'[d], x, {"close"})
    BY <1>3, <1>5 DEF FinalInv
  <2> QED BY <1>2, <1>6, <1>7
<1> QED BY <1>2, <1>4, <1>8

LEMMA TakesKeepsChain ==
  ASSUME IInv, NEW e \in Ends, NEW types, Takes(e, types), Survives(e),
         NEW x \in Streams, Live(e, x)', ~Is(Next1(e), x, {"data"})
  PROVE  Chain(pipe'[Other(e)], x, Taken(e, x) + 1, sent[Other(e)][x])
<1> USE DEF IInv
<1> DEFINE c == Other(e)
           p == pipe[c]
           lo == Taken(e, x) + 1
<1>1. p \in Seq(Frames) /\ p # <<>> /\ Head(p) = Next1(e) /\ pipe'[c] = Tail(p)
  BY ZenonT(40), Taking
<1>2. Live(e, x) /\ ~Is(Head(p), x, {"data", "close", "reset"})
  BY <1>1 DEF Survives, Is, Endings
<1>3. Chain(p, x, lo, sent[c][x])
  BY <1>2 DEF DataInv
<1>4. lo \in Nat /\ sent[c][x] \in Nat
  <2>1. obj[e][x] \in Objects /\ got[e][x] \in Nat /\ sent[c][x] \in Nat
    BY Types, TwoEnds
  <2>2. Len(obj[e][x].buffer) \in Nat
    BY <2>1, ObjectType
  <2> QED BY SMTT(40), <2>1, <2>2 DEF Taken
<1> HIDE DEF p, lo
<1>5. Chain(Tail(p), x, lo, sent[c][x])
  BY <1>1, <1>2, <1>3, <1>4, ChainSkips
<1> QED BY <1>1, <1>5 DEF lo

LEMMA TakeOpenKeeps ==
  ASSUME IInv, NEW e \in Ends, TakeOpen(e)
  PROVE  IInv'
<1> USE DEF IInv
<1> DEFINE t == Next1(e).id
           c == Other(e)
           p == pipe[c]
<1>1. TypeOK' /\ Takes(e, {"open"})
  BY TakeOpenStep
<1>2. /\ \/ reader'[e] = t /\ UNCHANGED <<reg, accept>>
         \/ reg'[e] = reg[e] \cup {t} /\ accept'[e] = Append(accept[e], t) /\ reader' = reader
      /\ \A d \in Ends : d # e =>
           reg'[d] = reg[d] /\ accept'[d] = accept[d] /\ reader'[d] = reader[d]
      /\ UNCHANGED <<obj, done, calls, held, sent, final, got, ended>>
  BY TakeOpenStep
<1>3. /\ t \in Streams /\ Next1(e).type = "open" /\ t \in Dialled(c) /\ Has(p, t, {"open"})
      /\ pipe'[c] = Tail(p) /\ p # <<>> /\ p = pipe[c] /\ c = Other(e) /\ c \in Ends
      /\ \A x, ts : Has(p, x, ts) <=> Is(Head(p), x, ts) \/ Has(Tail(p), x, ts)
  <2>1. Takes(e, {"open"})
    BY <1>1
  <2>2. /\ t \in Streams /\ Next1(e).type \in {"open"} /\ Head(p) = Next1(e)
        /\ pipe'[c] = Tail(p) /\ p # <<>> /\ (Next1(e).type = "open" => t \in Dialled(c))
    BY ZenonT(40), <2>1, Taking
  <2>3. \A x, ts : Has(p, x, ts) <=> Is(Head(p), x, ts) \/ Has(Tail(p), x, ts)
    BY <2>1, Taking
  <2>4. c \in Ends
    BY TwoEnds
  <2>5. Is(Head(p), t, {"open"})
    BY <2>2 DEF Is
  <2> QED BY <2>2, <2>3, <2>4, <2>5
<1>4. t = Next1(e).id
  OBVIOUS
<1> HIDE DEF t, c, p
<1>5. Hears(e, t)
  <2>1. reg'[e] \subseteq reg[e] \cup {t} /\ reader'[e] \in {reader[e], t}
    BY <1>2
  <2>2. \/ accept'[e] = accept[e]
        \/ accept'[e] = Append(accept[e], t) /\ Next1(e).type = "open"
    BY <1>2, <1>3
  <2>3. \A d \in Ends : d # e =>
          reg'[d] = reg[d] /\ accept'[d] = accept[d] /\ reader'[d] = reader[d]
    BY <1>2
  <2> QED BY <1>2, <2>1, <2>2, <2>3 DEF Hears
<1>6. Survives(e)
  <2> SUFFICES ASSUME NEW x \in Streams, Live(e, x)'
               PROVE  Live(e, x) /\ ~Is(Next1(e), x, Endings)
    BY DEF Survives
  <2>1. x \in reg'[e] => x \in reg[e] \/ Has(p, x, {"open"})
    BY <1>2, <1>3
  <2> QED BY <1>2, <1>3, <2>1 DEF Live, Is, Endings
<1>7. OpenInv' /\ CallInv' /\ FreshInv'
  BY <1>1, <1>4, <1>5, TakesKeepsOpen
<1>8. FinalInv' /\ \A x \in Streams : Live(Other(e), x)' => Live(Other(e), x)
  BY <1>1, <1>4, <1>5, <1>6, TakesKeepsFinal
<1>9. DataInv'
  <2>1. \A d \in Ends, x \in Streams : Taken(d, x)' = Taken(d, x)
    BY <1>2 DEF Taken
  <2>2. ASSUME NEW x \in Streams, Live(e, x)'
        PROVE  Chain(pipe'[c], x, Taken(e, x) + 1, sent[c][x])
    BY <1>1, <1>3, <1>6, <2>2, TakesKeepsChain DEF Is
  <2>3. ASSUME NEW x \in Streams, Live(c, x)'
        PROVE  Chain(pipe'[e], x, Taken(c, x) + 1, sent[e][x])
    <3>1. pipe'[e] = pipe[e] /\ Other(c) = e /\ Live(c, x)
      BY <1>1, <1>3, <1>8, <2>3, TakesStep, TwoEnds
    <3> QED BY <1>3, <3>1 DEF DataInv
  <2>4. \A d \in Ends, x \in Streams :
          Live(d, x)' => Chain(pipe'[Other(d)], x, Taken(d, x) + 1, sent[Other(d)][x])
    BY <1>3, <2>2, <2>3, TwoEnds
  <2> QED BY <1>2, <2>1, <2>4 DEF DataInv
<1>10. EndInv'
  BY <1>2 DEF EndInv, Taken, Down
<1>11. SweepInv'
  <2> SUFFICES ASSUME NEW d \in Ends, NEW x \in reg'[d], obj[d][x].local, obj[d][x].remote
               PROVE  Frame("close", x, 1) \in calls[d]
    BY <1>2 DEF SweepInv
  <2>1. obj[e][t] = NewStream
    BY <1>3, TwoEnds DEF OpenInv, Unreached
  <2>2. x \in reg[d]
    BY <1>2, <2>1, NewIsObject
  <2> QED BY <2>2 DEF SweepInv
<1>12. SizeInv'
  <2>1. IsFiniteSet(reg[e] \cup {t})
    BY FS_AddElement DEF SizeInv
  <2> QED BY <1>2, <2>1 DEF SizeInv
<1> QED BY <1>1, <1>7, <1>8, <1>9, <1>10, <1>11, <1>12

LEMMA BufferAppend ==
  ASSUME NEW b \in Seq(Nat), NEW n \in Nat, \A i \in DOMAIN b : b[i] = n + i,
         NEW v \in Nat, v = n + Len(b) + 1
  PROVE  /\ n + Len(Append(b, v)) = n + Len(b) + 1
         /\ \A i \in DOMAIN Append(b, v) : Append(b, v)[i] = n + i
<1>1. /\ DOMAIN b = 1..Len(b) /\ Len(b) \in Nat /\ DOMAIN Append(b, v) = 1..(Len(b) + 1)
      /\ Len(Append(b, v)) = Len(b) + 1 /\ Append(b, v)[Len(b) + 1] = v
  OBVIOUS
<1>2. \A i \in 1..Len(b) : Append(b, v)[i] = b[i]
  OBVIOUS
<1>3. \A i \in 1..(Len(b) + 1) : i \in 1..Len(b) \/ i = Len(b) + 1
  BY <1>1
<1>4. n + (Len(b) + 1) = n + Len(b) + 1
  BY <1>1
<1>5. \A i \in DOMAIN Append(b, v) : Append(b, v)[i] = n + i
  BY <1>1, <1>2, <1>3, <1>4
<1> QED BY <1>1, <1>4, <1>5

LEMMA TakeCloseKeeps ==
  ASSUME IInv, NEW e \in Ends, TakeClose(e)
  PROVE  IInv'
<1> USE DEF IInv
<1> DEFINE t == Next1(e).id
           c == Other(e)
           p == pipe[c]
<1>1. TypeOK' /\ Takes(e, {"close", "reset"})
  BY TakeCloseStep
<1>2. /\ \/ t \notin reg[e] /\ UNCHANGED <<obj, reg>>
         \/ /\ t \in reg[e] /\ obj'[e][t].remote
            /\ obj'[e][t].err = IF Next1(e).type = "reset" THEN "reset" ELSE obj[e][t].err
            /\ obj'[e][t].buffer = obj[e][t].buffer /\ obj'[e][t].local = obj[e][t].local
            /\ obj[e][t].local => t \notin reg'[e]
      /\ \A d \in Ends, x \in Streams : d # e \/ x # t => obj'[d][x] = obj[d][x]
      /\ \A d \in Ends : reg'[d] \subseteq reg[d] /\ (d # e => reg'[d] = reg[d])
      /\ UNCHANGED <<accept, done, calls, reader, held, sent, final, got, ended>>
  BY TakeCloseStep
<1>3. /\ t \in Streams /\ Next1(e).type \in {"close", "reset"} /\ p \in Seq(Frames)
      /\ pipe'[c] = Tail(p) /\ p # <<>> /\ Head(p) = Next1(e)
      /\ ~Has(Tail(p), t, {"open"}) /\ ~Has(p, t, {"open"})
      /\ \A x, ts : Has(p, x, ts) <=> Is(Head(p), x, ts) \/ Has(Tail(p), x, ts)
  <2>1. Takes(e, {"close", "reset"})
    BY <1>1
  <2>2. /\ t \in Streams /\ Next1(e).type \in {"close", "reset"} /\ p \in Seq(Frames)
        /\ pipe'[c] = Tail(p) /\ p # <<>> /\ Head(p) = Next1(e) /\ ~Has(Tail(p), t, {"open"})
    BY ZenonT(40), <2>1, Taking
  <2>4. Next1(e).type # "open" => ~Has(p, t, {"open"})
    BY <2>1, Taking
  <2>3. \A x, ts : Has(p, x, ts) <=> Is(Head(p), x, ts) \/ Has(Tail(p), x, ts)
    BY <2>1, Taking
  <2> QED BY <2>2, <2>3, <2>4
<1>4. t = Next1(e).id /\ p = pipe[c] /\ c = Other(e) /\ c \in Ends
  BY TwoEnds
<1> HIDE DEF t, c, p
<1>5. Hears(e, t)
  <2>1. obj'[e][t].local = obj[e][t].local
    BY <1>2
  <2> QED BY <1>2, <2>1 DEF Hears
<1>6. Survives(e)
  <2> SUFFICES ASSUME NEW x \in Streams, Live(e, x)'
               PROVE  Live(e, x) /\ ~Is(Next1(e), x, Endings)
    BY DEF Survives
  <2>1. x # t
    <3> SUFFICES ASSUME x = t PROVE FALSE
      OBVIOUS
    <3>1. x \notin reg'[e] \/ obj'[e][x].remote
      BY <1>2
    <3>2. ~Has(pipe'[Other(e)], x, {"open"})
      BY <1>3, <1>4
    <3> QED BY <3>1, <3>2 DEF Live
  <2>2. x \in reg'[e] => x \in reg[e]
    BY <1>2
  <2>3. Has(Tail(p), x, {"open"}) => Has(p, x, {"open"})
    BY <1>3
  <2> QED BY <1>2, <1>3, <1>4, <2>1, <2>2, <2>3 DEF Live, Is
<1>7. OpenInv' /\ CallInv' /\ FreshInv'
  BY <1>1, <1>4, <1>5, TakesKeepsOpen
<1>8. FinalInv' /\ \A x \in Streams : Live(Other(e), x)' => Live(Other(e), x)
  BY <1>1, <1>4, <1>5, <1>6, TakesKeepsFinal
<1>9. \A d \in Ends, x \in Streams :
        /\ obj'[d][x].buffer = obj[d][x].buffer /\ obj'[d][x].local = obj[d][x].local
        /\ Taken(d, x)' = Taken(d, x)
  <2> TAKE d \in Ends, x \in Streams
  <2>1. obj'[d][x].buffer = obj[d][x].buffer /\ obj'[d][x].local = obj[d][x].local
    BY <1>2
  <2> QED BY <1>2, <2>1 DEF Taken
<1>10. DataInv'
  <2>1. ASSUME NEW x \in Streams, Live(e, x)'
        PROVE  Chain(pipe'[c], x, Taken(e, x) + 1, sent[c][x])
    BY <1>1, <1>3, <1>4, <1>6, <2>1, TakesKeepsChain DEF Is
  <2>2. ASSUME NEW x \in Streams, Live(c, x)'
        PROVE  Chain(pipe'[e], x, Taken(c, x) + 1, sent[e][x])
    <3>1. pipe'[e] = pipe[e] /\ Other(c) = e /\ Live(c, x)
      BY <1>1, <1>4, <1>8, <2>2, TakesStep, TwoEnds
    <3> QED BY <1>4, <3>1 DEF DataInv
  <2>3. \A d \in Ends, x \in Streams :
          Live(d, x)' => Chain(pipe'[Other(d)], x, Taken(d, x) + 1, sent[Other(d)][x])
    BY <1>4, <2>1, <2>2, TwoEnds
  <2> QED BY <1>2, <1>9, <2>3 DEF DataInv
<1>11. EndInv'
  <2> SUFFICES ASSUME NEW d \in Ends, NEW x \in Streams
               PROVE  /\ ~obj'[d][x].remote => obj'[d][x].err = "none"
                      /\ obj'[d][x].err = "down" => Down(d)
                      /\ ~obj'[d][x].local /\ obj'[d][x].remote /\ obj'[d][x].err = "none" =>
                           final[Other(d)][x] /\ Taken(d, x) = sent[Other(d)][x]
    BY <1>2, <1>9 DEF EndInv, Down
  <2>1. CASE obj'[d][x] = obj[d][x]
    BY <2>1 DEF EndInv
  <2>2. CASE /\ d = e /\ x = t /\ t \in reg[e] /\ obj'[e][t].remote
             /\ obj'[e][t].err = IF Next1(e).type = "reset" THEN "reset" ELSE obj[e][t].err
    <3>1. CASE Next1(e).type = "reset"
      BY <2>2, <3>1
    <3>2. CASE Next1(e).type # "reset" /\ (obj[e][t].remote \/ obj[e][t].local)
      BY <1>3, <1>9, <2>2, <3>2 DEF EndInv
    <3>3. CASE Next1(e).type = "close" /\ ~obj[e][t].remote /\ ~obj[e][t].local
      <4>1. Live(e, t) /\ Is(Head(p), t, {"close"})
        BY <1>3, <1>4, <2>2, <3>3 DEF Live, Is
      <4>2. Has(p, t, {"close"})
        BY <1>3, <4>1
      <4>3. final[c][t]
        BY <1>3, <1>4, <4>2 DEF FinalInv
      <4>4. Taken(e, t) \in Nat /\ sent[c][t] \in Nat /\ Taken(e, t) <= sent[c][t]
        <5>1. /\ obj[e][t] \in Objects /\ got[e][t] \in Nat /\ sent[c][t] \in Nat
              /\ Taken(e, t) <= sent[c][t]
          BY <1>3, <1>4, Types DEF DataInv
        <5>2. Len(obj[e][t].buffer) \in Nat
          BY <5>1, ObjectType
        <5> QED BY SMTT(40), <5>1, <5>2 DEF Taken
      <4>5. Chain(p, t, Taken(e, t) + 1, sent[c][t])
        BY <1>3, <1>4, <4>1 DEF DataInv
      <4>6. Taken(e, t) + 1 \in Nat
        BY <4>4
      <4>7. ~(Taken(e, t) + 1 <= sent[c][t])
        BY <1>3, <4>1, <4>4, <4>5, <4>6, ChainEnds
      <4>8. Taken(e, t) = sent[c][t]
        BY <4>4, <4>7
      <4>9. obj[e][t].err = "none"
        BY <1>3, <3>3 DEF EndInv
      <4> QED BY <1>4, <2>2, <3>3, <4>3, <4>8, <4>9
    <3> QED BY <1>3, <3>1, <3>2, <3>3
  <2> QED BY <1>2, <2>1, <2>2
<1>12. SweepInv'
  <2> SUFFICES ASSUME NEW d \in Ends, NEW x \in reg'[d], obj'[d][x].local, obj'[d][x].remote
               PROVE  Frame("close", x, 1) \in calls[d]
    BY <1>2 DEF SweepInv
  <2>1. x \in reg[d] /\ x \in Streams
    BY <1>2, Types
  <2>2. obj'[d][x] = obj[d][x]
    BY <1>2, <1>9, <2>1
  <2> QED BY <2>1, <2>2 DEF SweepInv
<1>13. SizeInv'
  <2> SUFFICES ASSUME NEW d \in Ends PROVE IsFiniteSet(reg'[d])
    BY DEF SizeInv
  <2>1. IsFiniteSet(reg[d]) /\ reg'[d] \subseteq reg[d]
    BY <1>2 DEF SizeInv
  <2> QED BY <2>1, FS_Subset
<1> QED BY <1>1, <1>7, <1>8, <1>10, <1>11, <1>12, <1>13

LEMMA TakeDataKeeps ==
  ASSUME IInv, NEW e \in Ends, TakeData(e), NEW t, t = Next1(e).id
  PROVE  IInv'
<1> USE DEF IInv
<1> DEFINE c == Other(e)
           p == pipe[c]
           v == Next1(e).unit
           live == Alive(e, t)
<1>1. TypeOK' /\ Takes(e, {"data"})
  BY TakeDataStep
<1>2. (~live /\ UNCHANGED <<obj, reader>>) \/ Overflows(e, t) \/ Buffers(e, t)
  BY TakeDataStep
<1>3. /\ \A d \in Ends, x \in Streams : d # e \/ x # t => obj'[d][x] = obj[d][x]
      /\ \A d \in Ends : d # e => reader'[d] = reader[d]
      /\ UNCHANGED <<reg, accept, done, calls, held, sent, final, got, ended>>
  BY TakeDataStep
<1>4. /\ t \in Streams /\ Next1(e).type = "data" /\ p \in Seq(Frames)
      /\ pipe'[c] = Tail(p) /\ p # <<>> /\ Head(p) = Next1(e) /\ Is(Head(p), t, {"data"})
      /\ ~Has(p, t, {"open"})
  <2>1. Takes(e, {"data"})
    BY <1>1
  <2>2. /\ t \in Streams /\ Next1(e).type \in {"data"} /\ p \in Seq(Frames)
        /\ pipe'[c] = Tail(p) /\ p # <<>> /\ Head(p) = Next1(e)
    BY ZenonT(40), <2>1, Taking
  <2>3. Next1(e).type # "open" => ~Has(p, t, {"open"})
    BY <2>1, Taking
  <2>4. Is(Head(p), t, {"data"})
    BY <2>2 DEF Is
  <2> QED BY <2>2, <2>3, <2>4
<1>5. \A x, ts : Has(Tail(p), x, ts) => Has(p, x, ts)
  BY <1>4, HasTail
<1>6. p = pipe[c] /\ c = Other(e) /\ c \in Ends /\ v = Head(p).unit
  BY <1>4, TwoEnds
<1>7. /\ live <=> t \in reg[e] /\ ~obj[e][t].remote /\ ~obj[e][t].local
      /\ v = Next1(e).unit
  BY SMTT(40) DEF Alive
<1> HIDE DEF c, p, v, live
<1>8. obj'[e][t].local = obj[e][t].local /\ (obj[e][t].remote => obj'[e][t].remote)
  BY <1>2 DEF Overflows, Buffers
<1>9. Hears(e, t)
  <2>1. reader'[e] \in {reader[e], t}
    BY <1>2 DEF Overflows, Buffers
  <2> QED BY SMTT(40), <1>3, <1>8, <2>1 DEF Hears
<1>10. \A x \in Streams : Live(e, x)' => Live(e, x)
  <2> TAKE x \in Streams
  <2>1. /\ obj'[e][x].local = obj[e][x].local
        /\ obj[e][x].remote => obj'[e][x].remote
    BY <1>3, <1>8
  <2>2. Has(pipe'[Other(e)], x, {"open"}) => Has(pipe[Other(e)], x, {"open"})
    BY <1>4, <1>5, <1>6
  <2> QED BY <1>3, <2>1, <2>2 DEF Live
<1>11. Survives(e)
  BY <1>4, <1>10 DEF Survives, Is, Endings
<1>12. OpenInv' /\ CallInv' /\ FreshInv'
  BY <1>1, <1>9, TakesKeepsOpen
<1>13. FinalInv' /\ \A x \in Streams : Live(Other(e), x)' => Live(Other(e), x)
  BY <1>1, <1>9, <1>11, TakesKeepsFinal
<1>14. /\ obj[e][t].buffer \in Seq(Nat) /\ Len(obj[e][t].buffer) \in Nat /\ got[e][t] \in Nat
       /\ sent[c][t] \in Nat /\ Taken(e, t) \in Nat
       /\ Taken(e, t) = got[e][t] + Len(obj[e][t].buffer)
  <2>1. obj[e][t] \in Objects /\ got[e][t] \in Nat /\ sent[c][t] \in Nat
    BY <1>4, <1>6, Types
  <2>2. obj[e][t].buffer \in Seq(Nat) /\ Len(obj[e][t].buffer) \in Nat
    BY <2>1, ObjectType
  <2> QED BY SMTT(40), <2>1, <2>2 DEF Taken
<1>15. ASSUME live
       PROVE  /\ v = Taken(e, t) + 1 /\ Taken(e, t) + 1 <= sent[c][t]
              /\ Chain(Tail(p), t, (Taken(e, t) + 1) + 1, sent[c][t])
  <2>1. Live(e, t)
    BY <1>7, <1>15 DEF Live
  <2>2. Chain(p, t, Taken(e, t) + 1, sent[c][t])
    BY <1>4, <1>6, <2>1 DEF DataInv
  <2>3. Taken(e, t) + 1 \in Nat
    BY <1>14
  <2> QED BY <1>4, <1>6, <1>14, <2>2, <2>3, ChainTaken
<1>16. ASSUME live, obj'[e][t].buffer = Append(obj[e][t].buffer, v)
       PROVE  /\ Taken(e, t)' = Taken(e, t) + 1
              /\ \A i \in DOMAIN obj'[e][t].buffer : obj'[e][t].buffer[i] = got[e][t] + i
  <2> DEFINE b == obj[e][t].buffer
             n == got[e][t]
  <2>1. /\ b \in Seq(Nat) /\ n \in Nat /\ v \in Nat /\ \A i \in DOMAIN b : b[i] = n + i
        /\ v = n + Len(b) + 1
    <3>1. b \in Seq(Nat) /\ n \in Nat /\ Taken(e, t) = n + Len(b)
      BY SMTT(40), <1>14
    <3>3. v = Taken(e, t) + 1 /\ Taken(e, t) \in Nat
      BY <1>14, <1>15, <1>16
    <3>4. v \in Nat /\ v = n + Len(b) + 1
      BY <3>1, <3>3
    <3>2. \A i \in DOMAIN b : b[i] = n + i
      BY <1>4 DEF DataInv
    <3> QED BY <3>1, <3>2, <3>4
  <2>2. /\ obj'[e][t].buffer = Append(b, v) /\ got'[e][t] = n /\ Taken(e, t) = n + Len(b)
    BY <1>3, <1>14, <1>16
  <2> HIDE DEF b, n
  <2>3. /\ n + Len(Append(b, v)) = n + Len(b) + 1
        /\ \A i \in DOMAIN Append(b, v) : Append(b, v)[i] = n + i
    BY <2>1, BufferAppend
  <2>4. Taken(e, t)' = n + Len(Append(b, v))
    BY <2>2 DEF Taken
  <2>5. got[e][t] = n
    BY DEF n
  <2> QED BY <2>2, <2>3, <2>4, <2>5
<1>17. \A d \in Ends, x \in Streams : d # e \/ x # t => Taken(d, x)' = Taken(d, x)
  BY SMTT(40), <1>3 DEF Taken
<1>18. obj'[e][t].buffer # Append(obj[e][t].buffer, v) \/ ~live => Taken(e, t)' = Taken(e, t)
  <2>1. obj'[e][t].buffer # Append(obj[e][t].buffer, v) \/ ~live =>
          obj'[e][t].buffer = obj[e][t].buffer
    BY <1>2, <1>7 DEF Overflows, Buffers, Alive
  <2> QED BY ZenonT(40), <1>3, <2>1 DEF Taken
<1>19. DataInv'
  <2>1. ASSUME NEW x \in Streams, Live(e, x)'
        PROVE  Chain(pipe'[c], x, Taken(e, x)' + 1, sent[c][x])
    <3>1. CASE x # t
      <4>1. ~Is(Next1(e), x, {"data"})
        BY <3>1 DEF Is
      <4> QED BY <1>1, <1>6, <1>11, <1>17, <2>1, <3>1, <4>1, TakesKeepsChain
    <3>2. CASE x = t
      <4>1. live
        <5>1. Live(e, t) /\ ~Has(p, t, {"open"})
          BY <1>4, <1>10, <2>1, <3>2
        <5> QED BY <1>6, <1>7, <5>1 DEF Live
      <4>2. ~obj'[e][t].remote
        BY SMTT(40), <2>1, <3>2 DEF Live
      <4>3. Taken(e, t)' = Taken(e, t) + 1
        BY <1>2, <1>7, <1>16, <4>1, <4>2 DEF Overflows, Buffers
      <4> QED BY <1>4, <1>15, <3>2, <4>1, <4>3
    <3> QED BY <3>1, <3>2
  <2>2. ASSUME NEW x \in Streams, Live(c, x)'
        PROVE  Chain(pipe'[e], x, Taken(c, x)' + 1, sent[e][x])
    <3>1. pipe'[e] = pipe[e] /\ Other(c) = e /\ Live(c, x) /\ c # e
      <4>1. pipe'[e] = pipe[e]
        BY <1>1, TakesStep
      <4>2. Other(c) = e /\ c # e
        BY <1>6, TwoEnds
      <4>3. Live(c, x)
        BY <1>6, <1>13, <2>2
      <4> QED BY <4>1, <4>2, <4>3
    <3> QED BY <1>6, <1>17, <3>1 DEF DataInv
  <2>3. \A d \in Ends, x \in Streams :
          Live(d, x)' => Chain(pipe'[Other(d)], x, Taken(d, x)' + 1, sent[Other(d)][x])
    BY SMTT(40), <1>6, <2>1, <2>2, TwoEnds
  <2>4. \A d \in Ends, x \in Streams :
          /\ Taken(d, x)' <= sent[Other(d)][x]
          /\ \A i \in DOMAIN obj'[d][x].buffer : obj'[d][x].buffer[i] = got[d][x] + i
    <3> TAKE d \in Ends, x \in Streams
    <3>1. CASE d # e \/ x # t
      BY SMTT(40), <1>3, <1>17, <3>1 DEF DataInv
    <3>2. CASE d = e /\ x = t /\ live /\ obj'[e][t].buffer = Append(obj[e][t].buffer, v)
      BY <1>6, <1>15, <1>16, <3>2
    <3>3. CASE d = e /\ x = t /\ (obj'[e][t].buffer # Append(obj[e][t].buffer, v) \/ ~live)
      <4>1. obj'[e][t].buffer = obj[e][t].buffer
        BY <1>2, <1>7, <3>3 DEF Overflows, Buffers, Alive
      <4> QED BY SMTT(40), <1>18, <3>3, <4>1 DEF DataInv
    <3> QED BY <3>1, <3>2, <3>3
  <2> QED BY <1>3, <2>3, <2>4 DEF DataInv
<1>20. EndInv'
  <2> SUFFICES ASSUME NEW d \in Ends, NEW x \in Streams
               PROVE  /\ ~obj'[d][x].remote => obj'[d][x].err = "none"
                      /\ obj'[d][x].err = "down" => Down(d)
                      /\ ~obj'[d][x].local /\ obj'[d][x].remote /\ obj'[d][x].err = "none" =>
                           final[Other(d)][x] /\ Taken(d, x)' = sent[Other(d)][x]
    BY <1>3 DEF EndInv, Down
  <2>1. CASE obj'[d][x] = obj[d][x]
    BY <1>3, <2>1 DEF EndInv, Taken
  <2>2. CASE d = e /\ x = t /\ obj'[e][t].remote /\ obj'[e][t].err = "overflow"
    BY <2>2
  <2>3. CASE d = e /\ x = t /\ live /\ obj'[e][t].remote = obj[e][t].remote
             /\ obj'[e][t].err = obj[e][t].err
    BY <1>7, <2>3 DEF EndInv
  <2>4. CASE d # e \/ x # t \/ UNCHANGED obj
    BY <1>3, <2>1, <2>4
  <2>5. CASE d = e /\ x = t /\ Overflows(e, t)
    BY SMTT(40), <2>2, <2>5 DEF Overflows
  <2>6. CASE d = e /\ x = t /\ Buffers(e, t)
    BY <1>7, <2>3, <2>6 DEF Buffers, Alive
  <2> QED BY <1>2, <2>4, <2>5, <2>6
<1>21. SweepInv'
  <2> SUFFICES ASSUME NEW d \in Ends, NEW x \in reg[d], obj'[d][x].local, obj'[d][x].remote
               PROVE  Frame("close", x, 1) \in calls[d]
    BY <1>3 DEF SweepInv
  <2>1. x \in Streams
    BY SMTT(40), Types
  <2>2. obj'[d][x] = obj[d][x]
    BY <1>2, <1>3, <2>1 DEF Overflows, Buffers, Alive
  <2> QED BY <2>2 DEF SweepInv
<1>22. SizeInv'
  BY <1>3 DEF SizeInv
<1> QED BY <1>1, <1>12, <1>13, <1>19, <1>20, <1>21, <1>22

-----------------------------------------------------------------------------
(* The invariant. *)

LEMMA InitInv == Init => IInv
<1> SUFFICES ASSUME Init PROVE IInv
  OBVIOUS
<1>1. \A e \in Ends :
        /\ reg[e] = {} /\ accept[e] = <<>> /\ done[e] = "up" /\ pipe[e] = <<>> /\ calls[e] = {}
        /\ reader[e] = None /\ held[e] = {}
        /\ \A s \in Streams : /\ obj[e][s] = NewStream /\ sent[e][s] = 0 /\ final[e][s] = FALSE
                              /\ got[e][s] = 0 /\ ended[e][s] = "open"
  BY DEF Init
<1>2. TypeOK
  <2>1. /\ reg \in [Ends -> SUBSET Streams] /\ held \in [Ends -> SUBSET Streams]
        /\ accept \in [Ends -> Seq(Streams)] /\ pipe \in [Ends -> Seq(Frames)]
        /\ calls \in [Ends -> SUBSET Frames] /\ done \in [Ends -> {"up", "eof", "closed"}]
        /\ reader \in [Ends -> Streams \cup {None}]
    BY DEF Init
  <2>2. /\ sent \in [Ends -> [Streams -> Nat]] /\ got \in [Ends -> [Streams -> Nat]]
        /\ final \in [Ends -> [Streams -> BOOLEAN]]
        /\ ended \in [Ends -> [Streams -> {"open", "eof", "error"}]]
    BY DEF Init
  <2>3. obj \in [Ends -> [Streams -> Objects]]
    BY NewIsObject DEF Init
  <2>4. \A e \in Ends : Cardinality(reg[e] \ Dialled(e)) <= MaxStreams
    <3> TAKE e \in Ends
    <3>1. reg[e] \ Dialled(e) = {}
      BY <1>1
    <3> QED BY <3>1, FS_EmptySet, MuxAssumption
  <2>5. \A e \in Ends, s \in Streams : Len(obj[e][s].buffer) <= MaxBuffered
    BY <1>1, NewIsObject, MuxAssumption
  <2>6. \A e \in Ends : Len(accept[e]) <= Backlog /\ Len(pipe[e]) <= PipeCap
    BY <1>1, MuxAssumption
  <2> QED BY <2>1, <2>2, <2>3, <2>4, <2>5, <2>6 DEF TypeOK
<1>3. \A e \in Ends : \A s, types : ~Has(pipe[e], s, types)
  BY <1>1 DEF Has
<1>4. CallInv /\ FreshInv /\ SweepInv
  BY <1>1, NewIsObject DEF CallInv, FreshInv, SweepInv
<1>5. OpenInv
  <2>1. \A e \in Ends : OpenFirst(pipe[e], Dialled(e)) /\ Range(accept[e]) = {}
    BY <1>1 DEF OpenFirst, Range
  <2>2. ASSUME NEW e \in Ends, NEW s \in Streams PROVE Unreached(e, s) /\ reader[e] # s
    BY <1>1, <1>3, <2>1, MuxAssumption DEF Unreached, Streams
  <2> QED BY <1>3, <2>1, <2>2, TwoEnds DEF OpenInv
<1>6. \A e \in Ends, s \in Streams : ~Live(e, s) /\ Taken(e, s) = 0
  <2> TAKE e \in Ends, s \in Streams
  <2>1. ~Live(e, s)
    BY <1>1, <1>3, TwoEnds DEF Live
  <2>2. Taken(e, s) = 0
    BY <1>1, NewIsObject DEF Taken
  <2> QED BY <2>1, <2>2
<1>7. FinalInv
  BY <1>1, <1>3 DEF FinalInv
<1>8. DataInv
  <2>1. NewStream.buffer = <<>>
    BY DEF NewStream
  <2> QED BY <1>1, <1>6, <2>1, TwoEnds DEF DataInv
<1>9. EndInv
  BY <1>1, NewIsObject DEF EndInv
<1>10. SizeInv
  BY <1>1, FS_EmptySet DEF SizeInv
<1> QED BY <1>2, <1>4, <1>5, <1>7, <1>8, <1>9, <1>10 DEF IInv

LEMMA NextInv == IInv /\ [Next]_vars => IInv'
<1> SUFFICES ASSUME IInv, [Next]_vars PROVE IInv'
  OBVIOUS
<1>1. TypeOK /\ SizeInv
  BY DEF IInv
<1>2. ASSUME NEW e \in Ends, Reading(e) PROVE IInv'
  <2>1. CASE TakeOpen(e)
    BY <2>1, TakeOpenKeeps
  <2>2. CASE TakeData(e)
    BY <2>2, TakeDataKeeps
  <2>3. CASE TakeClose(e)
    BY <2>3, TakeCloseKeeps
  <2>4. CASE WriteReset(e)
    BY <2>4, WriteResetKeeps
  <2>5. CASE ReadEOF(e)
    BY <1>1, <2>5, ReadEOFStep, FadesKeeps
  <2> QED BY <1>2, <2>1, <2>2, <2>3, <2>4, <2>5 DEF Reading
<1>3. ASSUME NEW e \in Ends, Writing(e) PROVE IInv'
  <2>1. PICK f \in calls[e] : WriteFrame(e, f) \/ WriteFails(e, f)
    BY <1>3 DEF Writing
  <2>2. CASE WriteFrame(e, f)
    BY <2>2, WriteFrameKeeps
  <2>3. CASE WriteFails(e, f)
    <3>1. Fades /\ TypeOK'
      BY <1>1, <2>3, WriteFailsFades, WriteFailsStep
    <3> QED BY <3>1, FadesKeeps
  <2> QED BY <2>1, <2>2, <2>3
<1>4. ASSUME NEW e \in Ends, Using(e) PROVE IInv'
  <2>1. CASE CloseMux(e)
    BY <1>1, <2>1, CloseMuxStep, FadesKeeps
  <2>2. ASSUME NEW s \in Streams, Dial(e, s) \/ Write(e, s) \/ Close(e, s) PROVE IInv'
    BY <2>2, DialKeeps, WriteKeeps, CloseKeeps
  <2> QED BY <1>4, <2>1, <2>2 DEF Using
<1>5. ASSUME NEW e \in Ends, Receiving(e) PROVE IInv'
  <2>1. CASE Accept(e)
    BY <2>1, AcceptKeeps
  <2>2. ASSUME NEW s \in Streams, ReadData(e, s) \/ ReadEnd(e, s) PROVE IInv'
    BY <2>2, ReadDataKeeps, ReadEndKeeps
  <2> QED BY <1>5, <2>1, <2>2 DEF Receiving
<1>6. CASE UNCHANGED vars
  BY <1>6 DEF vars, IInv, TypeOK, CallInv, FreshInv, OpenInv, FinalInv, DataInv, EndInv,
              SweepInv, SizeInv, Unreached, Live, Taken, Down
<1> QED BY <1>2, <1>3, <1>4, <1>5, <1>6 DEF Next

LEMMA Invariant == Spec => []IInv
BY InitInv, NextInv, PTL DEF Spec

-----------------------------------------------------------------------------

(* The tables, the backlog, the buffers and the pipes stay within their limits,
   and every frame and object is one (Mux, stream and frame).                *)
THEOREM TypeCorrect == Spec => []TypeOK
<1>1. IInv => TypeOK
  BY DEF IInv
<1> QED BY <1>1, Invariant, PTL

(* No stream that both ends have closed is left in a table, whichever of Close and
   remoteClose came last (stream.Close and remoteClose).                     *)
THEOREM TableSwept == Spec => []TableIsSwept
<1>1. IInv => TableIsSwept
  <2> SUFFICES ASSUME IInv, NEW e \in Ends, NEW s \in reg[e], obj[e][s].local, obj[e][s].remote
               PROVE  \E f \in calls[e] : f.id = s
    BY DEF TableIsSwept
  <2>1. Frame("close", s, 1) \in calls[e]
    BY DEF IInv, SweepInv
  <2> QED BY <2>1, FrameType
<1> QED BY <1>1, Invariant, PTL

(* What readers are told is what the invariant allows: a unit they have not had,
   in its turn, or an end after which nothing is missing.                    *)
LEMMA ReadsNext ==
  ASSUME IInv, NEW e \in Ends, NEW s \in Streams, ReadData(e, s)
  PROVE  Head(obj[e][s].buffer) = got[e][s] + 1 /\ got[e][s] < sent[Other(e)][s]
<1> DEFINE b == obj[e][s].buffer
           n == got[e][s]
<1>1. /\ obj[e][s] \in Objects /\ n \in Nat /\ sent[Other(e)][s] \in Nat /\ b # <<>>
      /\ \A i \in DOMAIN b : b[i] = n + i
      /\ n + Len(b) <= sent[Other(e)][s]
  BY Types, TwoEnds, ReadDataStep DEF IInv, DataInv, Taken
<1>2. b \in Seq(Nat) /\ Len(b) \in Nat
  BY <1>1, ObjectType
<1> HIDE DEF b, n
<1>3. Head(b) = n + 1 /\ Len(b) >= 1
  BY <1>1, <1>2, BufferTail
<1>4. n < sent[Other(e)][s]
  BY <1>1, <1>2, <1>3
<1> QED BY <1>3, <1>4 DEF b, n

LEMMA EndsRight ==
  ASSUME IInv, NEW e \in Ends, NEW s \in Streams, ReadEnd(e, s),
         ended'[e][s] = "eof"
  PROVE  Down(e) \/ (final[Other(e)][s] /\ got[e][s] = sent[Other(e)][s])
<1> SUFFICES ASSUME ~Down(e) PROVE final[Other(e)][s] /\ got[e][s] = sent[Other(e)][s]
  OBVIOUS
<1>0. ended' = [ended EXCEPT ![e][s] = Result(e, obj[e][s])]
      /\ obj[e][s].remote /\ ~obj[e][s].local /\ obj[e][s].buffer = <<>>
  BY ReadEndStep DEF IInv
<1>1. /\ obj[e][s].remote /\ ~obj[e][s].local /\ obj[e][s].buffer = <<>>
      /\ obj[e][s].err # "down" /\ obj[e][s] \in Objects /\ got[e][s] \in Nat
      /\ Result(e, obj[e][s]) = "eof"
  <2>1. Result(e, obj[e][s]) = "eof"
    BY <1>0 DEF IInv, TypeOK
  <2> QED BY <1>0, <2>1, Types DEF IInv, EndInv
<1>2. obj[e][s].err = "none"
  BY <1>1 DEF Result, Objects
<1>3. final[Other(e)][s] /\ Taken(e, s) = sent[Other(e)][s]
  BY <1>1, <1>2 DEF IInv, EndInv
<1>4. Taken(e, s) = got[e][s]
  BY <1>1 DEF Taken
<1> QED BY <1>3, <1>4

Lost == [e \in Ends |-> Down(e)]

LEMMA ShutDownLoses ==
  ASSUME TypeOK, NEW e \in Ends, NEW why \in {"eof", "closed"}, ShutDown(e, why),
         UNCHANGED <<sent, final, got, ended>>
  PROVE  Pairs!Lose(e)
<1>1. ASSUME NEW d \in Ends PROVE Down(d)' = IF d = e THEN TRUE ELSE Down(d)
  <2>1. CASE d = e
    <3>1. done'[e] # "up"
      BY ShutDownStep DEF Down
    <3> QED BY <2>1, <3>1 DEF Down
  <2>2. CASE d # e
    <3>1. done'[d] = done[d]
      BY <2>2, ShutDownStep
    <3> QED BY <2>2, <3>1 DEF Down
  <2> QED BY <2>1, <2>2
<1>2. [d \in Ends |-> Down(d)]' = [[d \in Ends |-> Down(d)] EXCEPT ![e] = TRUE]
  BY <1>1
<1> QED BY <1>2 DEF Pairs!Lose

LEMMA PairsStep ==
  IInv /\ [Next]_vars => [Pairs!PairsNext]_<<sent, final, got, ended, Lost>>
<1> SUFFICES ASSUME IInv, [Next]_vars
             PROVE  Pairs!PairsNext \/ UNCHANGED <<sent, final, got, ended, Lost>>
  OBVIOUS
<1>1. TypeOK /\ SizeInv
  BY DEF IInv
<1>2. done' = done => UNCHANGED Lost
  BY DEF Lost, Down
<1>3. ASSUME UNCHANGED <<done, sent, final, got, ended>>
      PROVE  UNCHANGED <<sent, final, got, ended, Lost>>
  BY <1>2, <1>3
<1>4. ASSUME NEW e \in Ends, NEW why \in {"eof", "closed"}, ShutDown(e, why),
             UNCHANGED <<sent, final, got, ended>>
      PROVE  Pairs!PairsNext
  BY <1>1, <1>4, ShutDownLoses DEF Pairs!PairsNext
<1>5. ASSUME NEW e \in Ends, Reading(e)
      PROVE  Pairs!PairsNext \/ UNCHANGED <<sent, final, got, ended, Lost>>
  <2>1. CASE TakeOpen(e) \/ TakeData(e) \/ TakeClose(e)
    <3>1. UNCHANGED <<done, sent, final, got, ended>>
      BY <2>1 DEF TakeOpen, TakeData, TakeClose
    <3> QED BY SMTT(40), <1>3, <3>1
  <2>2. CASE WriteReset(e)
    <3>1. UNCHANGED <<sent, final, got, ended>> /\ (UNCHANGED done \/ ShutDown(e, "closed"))
      BY <2>2 DEF WriteReset
    <3> QED BY <1>3, <1>4, <3>1
  <2>3. CASE ReadEOF(e)
    <3>1. /\ UNCHANGED <<sent, final, got, ended>>
          /\ \E why \in {"eof", "closed"} : ShutDown(e, why)
      BY <2>3 DEF ReadEOF
    <3> QED BY <1>4, <3>1
  <2> QED BY <1>5, <2>1, <2>2, <2>3 DEF Reading
<1>6. ASSUME NEW e \in Ends, NEW f \in calls[e], WriteFrame(e, f)
      PROVE  Pairs!PairsNext \/ UNCHANGED <<sent, final, got, ended, Lost>>
  <2>1. f.id \in Streams
    BY <1>1, Types, FrameType
  <2>2. /\ sent' = [sent EXCEPT ![e][f.id] =
                      IF f.type = "data" /\ ~final[e][f.id] THEN @ + 1 ELSE @]
        /\ final' = [final EXCEPT ![e][f.id] = @ \/ f.type = "close"]
        /\ UNCHANGED <<done, got, ended>>
    BY <1>6 DEF WriteFrame, Returned
  <2>3. CASE f.type = "data" /\ ~final[e][f.id]
    <3>1. sent' = [sent EXCEPT ![e][f.id] = @ + 1]
      BY <2>2, <2>3
    <3>2. final' = final
      BY <1>1, <2>1, <2>2, <2>3 DEF TypeOK
    <3>3. Pairs!Put(e, f.id)
      BY <1>2, <2>2, <2>3, <3>1, <3>2 DEF Pairs!Put, Lost
    <3> QED BY <2>1, <3>3 DEF Pairs!PairsNext
  <2>4. CASE f.type = "close"
    <3>1. final' = [final EXCEPT ![e][f.id] = TRUE]
      BY <2>2, <2>4
    <3>2. sent' = sent
      BY <1>1, <2>1, <2>2, <2>4 DEF TypeOK
    <3>3. Pairs!Finish(e, f.id)
      BY <1>2, <2>2, <3>1, <3>2 DEF Pairs!Finish, Lost
    <3> QED BY <2>1, <3>3 DEF Pairs!PairsNext
  <2>5. CASE f.type # "close" /\ ~(f.type = "data" /\ ~final[e][f.id])
    <3>1. sent' = sent
      BY <1>1, <2>1, <2>2, <2>5 DEF TypeOK
    <3>2. final' = final
      BY <1>1, <2>1, <2>2, <2>5 DEF TypeOK
    <3> QED BY <1>3, <2>2, <3>1, <3>2
  <2> QED BY <2>3, <2>4, <2>5
<1>7. ASSUME NEW e \in Ends, NEW f \in calls[e], WriteFails(e, f)
      PROVE  Pairs!PairsNext \/ UNCHANGED <<sent, final, got, ended, Lost>>
  <2>1. /\ UNCHANGED <<sent, final, got, ended>>
        /\ UNCHANGED done \/ ShutDown(e, "closed")
    BY <1>1, <1>7, WriteFailsStep
  <2> QED BY <1>3, <1>4, <2>1
<1>8. ASSUME NEW e \in Ends, Using(e)
      PROVE  Pairs!PairsNext \/ UNCHANGED <<sent, final, got, ended, Lost>>
  <2>1. UNCHANGED <<sent, final, got, ended>> /\ (UNCHANGED done \/ ShutDown(e, "closed"))
    BY <1>8 DEF Using, Dial, Write, Close, CloseMux
  <2> QED BY <1>3, <1>4, <2>1
<1>9. ASSUME NEW e \in Ends, Accept(e) PROVE UNCHANGED <<sent, final, got, ended, Lost>>
  BY <1>3, <1>9 DEF Accept
<1>10. ASSUME NEW e \in Ends, NEW s \in Streams, ReadData(e, s) PROVE Pairs!PairsNext
  <2>1. /\ got' = [got EXCEPT ![e][s] = Head(obj[e][s].buffer)] /\ ended[e][s] = "open"
        /\ UNCHANGED <<done, sent, final, ended>>
    BY <1>10 DEF ReadData
  <2>2. Head(obj[e][s].buffer) = got[e][s] + 1 /\ got[e][s] < sent[Other(e)][s]
    BY <1>10, ReadsNext
  <2>3. got' = [got EXCEPT ![e][s] = @ + 1]
    BY <2>1, <2>2
  <2>4. Pairs!Get(e, s)
    BY <1>2, <2>1, <2>2, <2>3, PeerIsOther DEF Pairs!Get, Lost
  <2> QED BY <2>4 DEF Pairs!PairsNext
<1>11. ASSUME NEW e \in Ends, NEW s \in Streams, ReadEnd(e, s) PROVE Pairs!PairsNext
  <2>1. PICK why \in {"eof", "error"} :
          /\ ended' = [ended EXCEPT ![e][s] = why] /\ ended[e][s] = "open"
          /\ UNCHANGED <<done, sent, final, got>>
    <3>1. Result(e, obj[e][s]) \in {"eof", "error"} /\ CloseError(e) \in {"eof", "error"}
      BY DEF Result, CloseError
    <3> QED BY <1>11, <3>1 DEF ReadEnd
  <2>2. CASE why = "error"
    <3>1. Pairs!Fail(e, s)
      BY <1>2, <2>1, <2>2 DEF Pairs!Fail, Lost
    <3> QED BY <3>1 DEF Pairs!PairsNext
  <2>3. CASE why = "eof"
    <3>1. ended'[e][s] = "eof"
      BY <2>1, <2>3 DEF IInv, TypeOK
    <3>2. Down(e) \/ (final[Other(e)][s] /\ got[e][s] = sent[Other(e)][s])
      BY <1>11, <3>1, EndsRight
    <3>3. [d \in Ends |-> Down(d)][e] = Down(e)
      OBVIOUS
    <3>4. Pairs!End(e, s)
      BY <1>2, <2>1, <2>3, <3>2, <3>3, PeerIsOther DEF Pairs!End, Lost
    <3> QED BY <3>4 DEF Pairs!PairsNext
  <2> QED BY <2>1, <2>2, <2>3
<1>12. CASE UNCHANGED vars
  BY <1>3, <1>12 DEF vars
<1> QED BY <1>5, <1>6, <1>7, <1>8, <1>9, <1>10, <1>11, <1>12 DEF Next, Writing,
           Receiving

(* Each direction of each stream is a queue of its own: nothing is reordered, lost
   or repeated, and an end that is not the end of the connection comes after
   everything that was written before Close (stream.receive, Read and Close). *)
THEOREM StreamsArrive == Spec => StreamsAreQueues
<1>1. Init => Pairs!PairsInit
  <2> SUFFICES ASSUME Init PROVE Pairs!PairsInit
    OBVIOUS
  <2>1. [e \in Ends |-> Down(e)] = [e \in Ends |-> FALSE]
    BY DEF Init, Down
  <2> QED BY <2>1 DEF Init, Pairs!PairsInit
<1>2. IInv /\ [Next]_vars => [Pairs!PairsNext]_<<sent, final, got, ended, [e \in Ends |-> Down(e)]>>
  BY PairsStep DEF Lost
<1> QED BY <1>1, <1>2, Invariant, PTL DEF Spec, StreamsAreQueues, Pairs!PairsSpec

=============================================================================
