----------------------------- MODULE RangeLemmas -----------------------------
(***************************************************************************)
(* What the operations on a queue do to the set of its elements, and that  *)
(* a queue without repetitions stays one: cited wherever messages are      *)
(* moved between queues (DagentChatProofs, FakeChatProofs).                *)
(***************************************************************************)
EXTENDS Integers, Sequences, Functions, TLAPS

\* Nothing is in an empty queue.
LEMMA RangeEmpty == Range(<<>>) = {}
BY DEF Range

\* What is appended is in the queue, with all that was.
LEMMA RangeAppend ==
  ASSUME NEW S, NEW s \in Seq(S), NEW e \in S
  PROVE  Range(Append(s, e)) = Range(s) \cup {e}
<1>1. /\ DOMAIN Append(s, e) = 1..Len(s) + 1 /\ DOMAIN s = 1..Len(s) /\ Len(s) \in Nat
      /\ Append(s, e)[Len(s) + 1] = e
  OBVIOUS
<1>2. \A i \in 1..Len(s) : Append(s, e)[i] = s[i] /\ i \in 1..Len(s) + 1
  OBVIOUS
<1>3. \A i \in 1..Len(s) + 1 : i \in 1..Len(s) \/ i = Len(s) + 1
  BY <1>1
<1>4. Range(Append(s, e)) \subseteq Range(s) \cup {e}
  BY <1>1, <1>2, <1>3 DEF Range
<1>5. Range(s) \subseteq Range(Append(s, e))
  BY <1>1, <1>2 DEF Range
<1>6. e \in Range(Append(s, e))
  BY <1>1 DEF Range
<1> QED BY <1>4, <1>5, <1>6

\* Of two queues one after the other, the elements of both.
LEMMA RangeConcat ==
  ASSUME NEW S, NEW s \in Seq(S), NEW r \in Seq(S)
  PROVE  Range(s \o r) = Range(s) \cup Range(r)
<1>1. /\ DOMAIN (s \o r) = 1..Len(s) + Len(r) /\ DOMAIN s = 1..Len(s)
      /\ DOMAIN r = 1..Len(r) /\ Len(s) \in Nat /\ Len(r) \in Nat
  OBVIOUS
<1>2. \A i \in 1..Len(s) : (s \o r)[i] = s[i] /\ i \in 1..Len(s) + Len(r)
  OBVIOUS
<1>3. \A i \in 1..Len(r) : (s \o r)[Len(s) + i] = r[i] /\ Len(s) + i \in 1..Len(s) + Len(r)
  OBVIOUS
<1>4. \A i \in 1..Len(s) + Len(r) :
        i \in 1..Len(s) \/ \E j \in 1..Len(r) : i = Len(s) + j
  <2> TAKE i \in 1..Len(s) + Len(r)
  <2>1. i \in 1..Len(s) \/ (i - Len(s) \in 1..Len(r) /\ i = Len(s) + (i - Len(s)))
    BY <1>1
  <2> QED BY <2>1
<1>5. \A i \in 1..Len(s) + Len(r) : (s \o r)[i] \in Range(s) \cup Range(r)
  BY <1>1, <1>2, <1>3, <1>4 DEF Range
<1>6. Range(s) \subseteq Range(s \o r)
  BY <1>1, <1>2 DEF Range
<1>7. Range(r) \subseteq Range(s \o r)
  BY <1>1, <1>3 DEF Range
<1>8. Range(s \o r) \subseteq Range(s) \cup Range(r)
  BY <1>1, <1>5 DEF Range
<1> QED BY <1>6, <1>7, <1>8

\* A queue has its head and what is behind it.
LEMMA RangeTail ==
  ASSUME NEW S, NEW s \in Seq(S), s # <<>>
  PROVE  Range(s) = {Head(s)} \cup Range(Tail(s))
<1>1. /\ DOMAIN s = 1..Len(s) /\ Len(s) \in Nat /\ Len(s) >= 1
      /\ DOMAIN Tail(s) = 1..Len(s) - 1
  OBVIOUS
<1>2. Head(s) = s[1] /\ \A i \in 1..Len(s) - 1 : Tail(s)[i] = s[i + 1] /\ i + 1 \in 1..Len(s)
  OBVIOUS
<1>3. \A i \in 1..Len(s) : i = 1 \/ \E j \in 1..Len(s) - 1 : i = j + 1
  <2> TAKE i \in 1..Len(s)
  <2>1. i = 1 \/ (i - 1 \in 1..Len(s) - 1 /\ i = (i - 1) + 1)
    BY <1>1
  <2> QED BY <2>1
<1>4. \A i \in 1..Len(s) : s[i] \in {Head(s)} \cup Range(Tail(s))
  <2>1. \A j \in 1..Len(s) - 1 : s[j + 1] \in Range(Tail(s))
    BY <1>1, <1>2 DEF Range
  <2> QED BY <1>2, <1>3, <2>1
<1>5. Range(Tail(s)) \subseteq Range(s)
  BY <1>1, <1>2 DEF Range
<1>6. Head(s) \in Range(s)
  BY <1>1, <1>2 DEF Range
<1>7. Range(s) \subseteq {Head(s)} \cup Range(Tail(s))
  BY <1>1, <1>4 DEF Range
<1> QED BY <1>5, <1>6, <1>7

\* What is appended was not in the queue yet.
LEMMA InjectiveAppend ==
  ASSUME NEW S, NEW s \in Seq(S), NEW e \in S, IsInjective(s), e \notin Range(s)
  PROVE  IsInjective(Append(s, e))
<1>1. /\ DOMAIN Append(s, e) = 1..Len(s) + 1 /\ DOMAIN s = 1..Len(s) /\ Len(s) \in Nat
      /\ Append(s, e)[Len(s) + 1] = e
  OBVIOUS
<1>2. \A i \in 1..Len(s) : Append(s, e)[i] = s[i] /\ s[i] # e
  BY <1>1 DEF Range
<1>3. \A i \in 1..Len(s) + 1 : i \in 1..Len(s) \/ i = Len(s) + 1
  BY <1>1
<1>4. \A i, j \in 1..Len(s) : s[i] = s[j] => i = j
  BY <1>1 DEF IsInjective
<1>5. \A i, j \in 1..Len(s) + 1 : Append(s, e)[i] = Append(s, e)[j] => i = j
  BY <1>1, <1>2, <1>3, <1>4
<1> QED BY <1>1, <1>5 DEF IsInjective

\* The head of a queue without repetitions is not found behind it.
LEMMA InjectiveTail ==
  ASSUME NEW S, NEW s \in Seq(S), s # <<>>, IsInjective(s)
  PROVE  IsInjective(Tail(s)) /\ Head(s) \notin Range(Tail(s))
<1>1. /\ DOMAIN s = 1..Len(s) /\ Len(s) \in Nat /\ Len(s) >= 1
      /\ DOMAIN Tail(s) = 1..Len(s) - 1
  OBVIOUS
<1>2. Head(s) = s[1] /\ \A i \in 1..Len(s) - 1 : Tail(s)[i] = s[i + 1] /\ i + 1 \in 1..Len(s)
  OBVIOUS
<1>3. \A i, j \in 1..Len(s) : s[i] = s[j] => i = j
  BY <1>1 DEF IsInjective
<1>4. \A i, j \in 1..Len(s) - 1 : Tail(s)[i] = Tail(s)[j] => i = j
  <2> TAKE i, j \in 1..Len(s) - 1
  <2>1. Tail(s)[i] = Tail(s)[j] => i + 1 = j + 1
    BY <1>2, <1>3
  <2> QED BY <2>1
<1>5. \A i \in 1..Len(s) - 1 : Tail(s)[i] # Head(s)
  <2> TAKE i \in 1..Len(s) - 1
  <2>1. 1 \in 1..Len(s) /\ i + 1 # 1
    BY <1>1
  <2> QED BY <1>2, <1>3, <2>1
<1> QED BY <1>1, <1>4, <1>5 DEF IsInjective, Range

=============================================================================
