--------------------------- MODULE ServicesProofs ---------------------------
(***************************************************************************)
(* The session store, the capabilities of chats, the backends of plugins,  *)
(* attachments, the desktop, preferences, projects and whoever follows     *)
(* events, for any number of operations, chats, requests, files, servers   *)
(* and events.                                                             *)
(*                                                                         *)
(* Every part has an inductive invariant of its own, and a step of another *)
(* part leaves it alone (OnePart):                                         *)
(*   StoreInv  the runner starts operations one after the other, and the   *)
(*             store's log names those that it has begun, in that order;   *)
(*   CapInv    what a chat holds follows from where its request stands;    *)
(*   FileInv   a file is in one place, and until the browser and the chat  *)
(*             have strayed they differ by what is on its way;             *)
(*   PlugInv   what an undisturbed pass of the ticker has found so far is  *)
(*             what the operator wants, and a request that runs alone      *)
(*             keeps disabled and stopped together;                        *)
(*   DeskInv   a server that serves is drained, attended to by a desktop,  *)
(*             or was never told that its desktop left;                    *)
(*   PrefsInv  a request that has changed memory and not the file, or the  *)
(*             file and not the chats, says what is still to be changed;   *)
(*   ProjectsInv  what is in memory and what is in the file are sound, and *)
(*             each may be loaded or saved in place of the other;          *)
(*   RemoteInv, FeedInv, WatchInv  what a follower does not know yet is on *)
(*             its way, will be asked for, or is known to be missing;      *)
(*   CacheInv  of EventLogProofs, for the cache of a browser.              *)
(***************************************************************************)
EXTENDS MC_Services, FiniteSetTheorems, RangeLemmas, TLAPS

-----------------------------------------------------------------------------
(* The operators of the instances are those of the library.                  *)

LEMMA StoreLibrary ==
  ASSUME NEW S
  PROVE  Store!Cardinality(S) = Cardinality(S) /\ Store!Range(S) = Range(S)
  BY DEF Store!Cardinality, Cardinality, Store!Range, Range

-----------------------------------------------------------------------------
(* StoreBridge.                                                              *)

StoreTyped ==
  /\ mutex \in Callers \cup {None} /\ current \in [Callers -> 0..MaxOps]
  /\ attempt \in [Store!Ops -> 0..(MaxRepeats + 1)]
  /\ returned \in [Store!Ops -> {"no", "unknown", "ok", "not_found", "failed"}]
  /\ network \in SUBSET (Store!Ops \X (1..(MaxRepeats + 1)))
  /\ waiting \in SUBSET (Store!Ops \X (1..(MaxRepeats + 1)))
  /\ answers \in SUBSET (Store!Ops \X (1..(MaxRepeats + 1)) \X Store!Outcomes)
  /\ begun \in Seq(Store!Ops) /\ cut \in 0..Len(begun) /\ stored \in Seq(Store!Ops)
  /\ operations \in [Store!Ops -> {"none", "running", "stored", "done"}]
  /\ outcome \in [Store!Ops -> Store!Outcomes \cup {"no"}]

(* The runner: operations are started one after the other, the one that waits has
   the mutex, and all before it have returned.                               *)
OneAtATime ==
  /\ \E k \in 0..MaxOps : Store!Started = 1..k
  /\ \A c \in Callers : current[c] # 0 =>
       mutex = c /\ attempt[current[c]] > 0 /\ returned[current[c]] = "no"
  /\ \A o \in Store!Ops : attempt[o] > 0 /\ returned[o] = "no" => \E c \in Callers : current[c] = o
  /\ \A o \in Store!Ops : attempt[o] = 0 => returned[o] = "no"
  /\ \A o, p \in Store!Ops : o < p /\ attempt[p] > 0 => returned[o] # "no" /\ attempt[o] > 0

(* The log: an operation is entered once, and what has been pruned is older than
   any copy on its way.                                                      *)
LogTrue ==
  /\ \A r \in network : attempt[r[1]] > 0
  /\ \A i \in 1..Len(begun) : attempt[begun[i]] > 0
  /\ \A i, j \in 1..Len(begun) : begun[i] = begun[j] => i = j
  /\ \A i \in 1..Len(begun) : operations[begun[i]] = "none" <=> i <= cut
  /\ \A o \in Store!Ops : operations[o] # "none" => \E i \in 1..Len(begun) : begun[i] = o
  /\ cut > 0 => Len(begun) - cut >= MaxLog

(* The outcomes: what the handler has found is what is stored, and what is
   answered and returned.                                                    *)
OutcomesTrue ==
  /\ \A o \in Store!Ops : outcome[o] = "no" <=>
        operations[o] = "running" \/ ~\E i \in 1..Len(begun) : begun[i] = o
  /\ \A i \in 1..Len(stored) : outcome[stored[i]] = "ok"
  /\ \A o \in Store!Ops : outcome[o] = "ok" => \E i \in 1..Len(stored) : stored[i] = o
  /\ \A r \in answers : r[3] = outcome[r[1]]
  /\ \A o \in Store!Ops : returned[o] \notin {"no", "unknown"} =>
        outcome[o] # "no" /\ returned[o] = Store!FromWire(outcome[o])

StoreInv ==
  /\ StoreTyped /\ OneAtATime /\ LogTrue /\ OutcomesTrue
  /\ Store!AppliedOnce /\ Store!OrderKept /\ Store!LogBounded

LEMMA StoreInit == Store!Init => StoreInv
  <1> SUFFICES ASSUME Store!Init PROVE StoreInv
    OBVIOUS
  <1>0. MaxOps \in Nat /\ MaxRepeats \in Nat /\ MaxLog \in Nat /\ None \notin Callers
    BY ServicesAssumption
  <1>1. begun = <<>> /\ stored = <<>> /\ cut = 0 /\ Len(begun) = 0 /\ Len(stored) = 0
    BY DEF Store!Init
  <1>2. StoreTyped
    BY <1>0, <1>1 DEF StoreTyped, Store!Init, Store!Ops
  <1>3. Store!Started = 1..0 /\ 0 \in 0..MaxOps
    BY <1>0 DEF Store!Init, Store!Started
  <1>4. OneAtATime
    BY <1>0, <1>3 DEF OneAtATime, Store!Init, Store!Ops
  <1>5. LogTrue
    BY <1>1 DEF LogTrue, Store!Init
  <1>6. OutcomesTrue
    BY <1>1 DEF OutcomesTrue, Store!Init
  <1>7. Store!AppliedOnce /\ Store!OrderKept
    BY <1>1 DEF Store!AppliedOnce, Store!OrderKept
  <1>8. Store!LogBounded
    <2> DEFINE open == {o \in Store!Range(Store!operationIDs) : operations[o] # "done"}
    <2>1. Store!operationIDs = <<>> /\ Len(Store!operationIDs) = 0
      BY <1>1 DEF Store!operationIDs
    <2>2. open = {}
      BY <2>1, StoreLibrary, RangeEmpty
    <2>3. Store!Cardinality(open) = 0
      BY <2>2, StoreLibrary, FS_EmptySet
    <2> QED
      BY <1>0, <2>1, <2>3 DEF Store!LogBounded
  <1> QED
    BY <1>2, <1>4, <1>5, <1>6, <1>7, <1>8 DEF StoreInv

(* The bound on what is sent again, in the bound of one operation.           *)
LEMMA RepeatsBound ==
  ASSUME StoreTyped, NEW o \in Store!Ops, Store!Cardinality(Store!Repeats) < MaxRepeats
  PROVE  attempt[o] + 1 \in 1..(MaxRepeats + 1)
  <1>0. MaxOps \in Nat /\ MaxRepeats \in Nat /\ attempt[o] \in 0..(MaxRepeats + 1)
    BY ServicesAssumption DEF StoreTyped
  <1>1. SUFFICES ASSUME attempt[o] = MaxRepeats + 1 PROVE FALSE
    BY <1>0
  <1> DEFINE copies == 2..(MaxRepeats + 1)
             mine == {o} \X copies
  <1>2. mine \subseteq Store!Repeats
    BY <1>0, <1>1 DEF Store!Repeats
  <1>3. IsFiniteSet({o}) /\ Cardinality({o}) = 1
    BY FS_Singleton
  <1>4. IsFiniteSet(copies) /\ Cardinality(copies) = MaxRepeats
    BY <1>0, FS_Interval
  <1>a. IsFiniteSet(Store!Ops)
    BY <1>0, FS_Interval DEF Store!Ops
  <1>5. Cardinality(mine) = Cardinality({o}) * Cardinality(copies)
    <2> HIDE DEF copies
    <2> QED
      BY <1>3, <1>4, FS_Product, Zenon
  <1>6. IsFiniteSet(Store!Ops \X copies)
    <2> HIDE DEF copies
    <2> QED
      BY <1>4, <1>a, FS_Product
  <1>7. IsFiniteSet(Store!Repeats)
    BY <1>6, FS_Subset DEF Store!Repeats
  <1>8. Cardinality(mine) <= Cardinality(Store!Repeats) /\ Cardinality(Store!Repeats) \in Nat
    BY <1>2, <1>7, FS_Subset, FS_CardinalityType
  <1> HIDE DEF mine
  <1> QED
    BY <1>0, <1>3, <1>4, <1>5, <1>8, StoreLibrary

(* The operation that is started next is the first one not started.          *)
LEMMA NextStarted ==
  ASSUME StoreTyped, OneAtATime, NEW o \in Store!Ops, o = Store!Cardinality(Store!Started) + 1
  PROVE  /\ Store!Started = 1..(o - 1)
         /\ attempt[o] = 0
         /\ \A p \in Store!Ops : p < o <=> attempt[p] > 0
  <1>0. MaxOps \in Nat
    BY ServicesAssumption
  <1>1. PICK k \in 0..MaxOps : Store!Started = 1..k
    BY DEF OneAtATime
  <1>2. Cardinality(1..k) = k
    BY <1>0, FS_Interval
  <1>3. o = k + 1
    BY <1>1, <1>2, StoreLibrary
  <1>4. \A p \in Store!Ops : attempt[p] > 0 <=> p \in 1..k
    BY <1>1 DEF Store!Started
  <1>5. \A p \in Store!Ops : attempt[p] \in Nat /\ p \in Nat /\ p > 0
    <2>1. attempt \in [Store!Ops -> 0..(MaxRepeats + 1)]
      BY DEF StoreTyped
    <2>2. MaxRepeats \in Nat
      BY ServicesAssumption
    <2>3. \A p \in Store!Ops : p \in Nat /\ p > 0
      BY <1>0 DEF Store!Ops
    <2> QED
      BY <2>1, <2>2, <2>3
  <1> QED
    BY <1>1, <1>3, <1>4, <1>5

(* What the actions of the runner leave alone.                               *)
LEMMA HostFrame ==
  ASSUME StoreInv, UNCHANGED Store!host
  PROVE  /\ (\A o \in Store!Ops : attempt[o] > 0 => attempt'[o] > 0)
              /\ (\A r \in network' : r \in network \/ attempt'[r[1]] > 0) => LogTrue'
         /\ answers' \subseteq answers
              /\ (\A o \in Store!Ops : returned'[o] = returned[o] \/ returned'[o] = "unknown"
                     \/ (outcome[o] # "no" /\ returned'[o] = Store!FromWire(outcome[o])))
            => OutcomesTrue'
         /\ Store!AppliedOnce' /\ Store!LogBounded'
         /\ (\A o \in Store!Ops : returned[o] = "unknown" => returned'[o] = "unknown") => Store!OrderKept'
  <1>1. UNCHANGED <<begun, cut, operations, waiting, stored, outcome>>
    BY DEF Store!host
  <1>2. begun \in Seq(Store!Ops) /\ stored \in Seq(Store!Ops)
    BY DEF StoreInv, StoreTyped
  <1>3. \A i \in 1..Len(begun) : begun[i] \in Store!Ops
    BY <1>2
  <1>4. \A r \in network : r[1] \in Store!Ops
    BY DEF StoreInv, StoreTyped
  <1>5. ASSUME \A o \in Store!Ops : attempt[o] > 0 => attempt'[o] > 0,
               \A r \in network' : r \in network \/ attempt'[r[1]] > 0
        PROVE  LogTrue'
    <2>1. LogTrue
      BY DEF StoreInv
    <2> QED
      BY <1>1, <1>3, <1>4, <1>5, <2>1 DEF LogTrue
  <1>6. ASSUME answers' \subseteq answers,
               \A o \in Store!Ops : returned'[o] = returned[o] \/ returned'[o] = "unknown"
                     \/ (outcome[o] # "no" /\ returned'[o] = Store!FromWire(outcome[o]))
        PROVE  OutcomesTrue'
    <2>1. OutcomesTrue
      BY DEF StoreInv
    <2> QED
      BY <1>1, <1>6, <2>1 DEF OutcomesTrue, Store!FromWire
  <1>7. Store!AppliedOnce'
    BY <1>1 DEF StoreInv, Store!AppliedOnce
  <1>8. Store!LogBounded'
    <2>1. Store!LogBounded
      BY DEF StoreInv
    <2> QED
      BY <1>1, <2>1 DEF Store!LogBounded, Store!operationIDs
  <1>9. ASSUME \A o \in Store!Ops : returned[o] = "unknown" => returned'[o] = "unknown"
        PROVE  Store!OrderKept'
    <2>1. \A i \in DOMAIN stored : stored[i] \in Store!Ops
      BY <1>2
    <2>2. Store!OrderKept
      BY DEF StoreInv
    <2> QED
      BY <1>1, <1>9, <2>1, <2>2 DEF Store!OrderKept
  <1> QED
    BY <1>5, <1>6, <1>7, <1>8, <1>9

\* A caller that has the mutex sends the next operation.
LEMMA MutateKeeps ==
  ASSUME StoreInv, NEW c \in Callers, NEW o \in Store!Ops, Store!Mutate(c, o)
  PROVE  StoreInv'
  <1>0. MaxOps \in Nat /\ MaxRepeats \in Nat /\ None \notin Callers /\ o \in 1..MaxOps
    BY ServicesAssumption DEF Store!Ops
  <1>1. StoreTyped /\ OneAtATime
    BY DEF StoreInv
  <1>2. /\ Store!Started = 1..(o - 1) /\ attempt[o] = 0
        /\ \A p \in Store!Ops : p < o <=> attempt[p] > 0
    BY <1>1, NextStarted DEF Store!Mutate
  <1>3. \A d \in Callers : current[d] = 0
    BY <1>0, <1>1 DEF OneAtATime, Store!Mutate
  <1>4. \A p \in Store!Ops : attempt[p] > 0 => returned[p] # "no"
    BY <1>0, <1>1, <1>3 DEF OneAtATime, Store!Ops
  <1>5. StoreTyped'
    BY SMTT(40), <1>0, <1>1 DEF StoreTyped, Store!Mutate, Store!host, Store!Ops
  <1>6. /\ \A p \in Store!Ops : attempt'[p] = IF p = o THEN 1 ELSE attempt[p]
        /\ \A d \in Callers : current'[d] = IF d = c THEN o ELSE 0
        /\ mutex' = c /\ returned' = returned /\ network' = network \cup {<<o, 1>>} /\ answers' = answers
        /\ UNCHANGED Store!host
    BY <1>1, <1>3 DEF StoreTyped, Store!Mutate
  <1>7. OneAtATime'
    <2>1. \A p \in Store!Ops : attempt'[p] > 0 <=> p \in 1..o
      BY <1>0, <1>2, <1>6 DEF Store!Ops
    <2>2. Store!Started' = 1..o
      BY <1>0, <2>1 DEF Store!Started, Store!Ops
    <2>3. returned[o] = "no"
      BY <1>1, <1>2 DEF OneAtATime
    <2>4. o \in 0..MaxOps
      BY <1>0
    <2>5. \A d \in Callers : current'[d] # 0 =>
            mutex' = d /\ attempt'[current'[d]] > 0 /\ returned'[current'[d]] = "no"
      BY <1>6, <2>3
    <2>6. \A p \in Store!Ops : attempt'[p] > 0 /\ returned'[p] = "no" => \E d \in Callers : current'[d] = p
      BY <1>4, <1>6
    <2>7. \A p \in Store!Ops : attempt'[p] = 0 => returned'[p] = "no"
      BY <1>1, <1>6 DEF OneAtATime
    <2>8. \A p, q \in Store!Ops : p < q /\ attempt'[q] > 0 => returned'[p] # "no" /\ attempt'[p] > 0
      <3> SUFFICES ASSUME NEW p \in Store!Ops, NEW q \in Store!Ops, p < q, attempt'[q] > 0
                   PROVE  returned'[p] # "no" /\ attempt'[p] > 0
        OBVIOUS
      <3>1. p < o
        BY <1>0, <2>1 DEF Store!Ops
      <3> QED
        BY <1>2, <1>4, <1>6, <3>1
    <2> QED
      BY <2>2, <2>4, <2>5, <2>6, <2>7, <2>8 DEF OneAtATime
  <1>8. LogTrue'
    BY <1>6, HostFrame
  <1>9. OutcomesTrue' /\ Store!AppliedOnce' /\ Store!LogBounded' /\ Store!OrderKept'
    <2>1. answers' \subseteq answers /\ (\A p \in Store!Ops : returned'[p] = returned[p])
      BY <1>6
    <2> QED
      BY <1>6, <2>1, HostFrame
  <1> QED
    BY <1>5, <1>7, <1>8, <1>9 DEF StoreInv

\* It is sent again, under the same id.
LEMMA ResendKeeps ==
  ASSUME StoreInv, NEW c \in Callers, Store!Resend(c)
  PROVE  StoreInv'
  <1> DEFINE o == current[c]
  <1>0. MaxOps \in Nat /\ MaxRepeats \in Nat /\ StoreTyped /\ OneAtATime
    BY ServicesAssumption DEF StoreInv
  <1>1. o \in Store!Ops /\ attempt[o] > 0
    BY <1>0 DEF Store!Resend, StoreTyped, Store!Ops, OneAtATime
  <1>2. attempt[o] + 1 \in 1..(MaxRepeats + 1)
    BY <1>0, <1>1, RepeatsBound DEF Store!Resend
  <1>3. /\ \A p \in Store!Ops : attempt'[p] = IF p = o THEN attempt[o] + 1 ELSE attempt[p]
        /\ network' = network \cup {<<o, attempt[o] + 1>>} /\ answers' = {}
        /\ UNCHANGED <<mutex, current, returned>> /\ UNCHANGED Store!host
    BY <1>0, <1>1 DEF StoreTyped, Store!Resend
  <1>4. StoreTyped'
    BY SMTT(40), <1>0, <1>1, <1>2 DEF StoreTyped, Store!Resend, Store!host
  <1>t. \A p \in Store!Ops : attempt[p] \in Nat
    BY <1>0 DEF StoreTyped
  <1>5. \A p \in Store!Ops : attempt'[p] > 0 <=> attempt[p] > 0
    BY <1>1, <1>3, <1>t
  <1>6. Store!Started' = Store!Started
    BY <1>5 DEF Store!Started
  <1>7. \A p \in Store!Ops : attempt'[p] = 0 <=> attempt[p] = 0
    BY <1>1, <1>3, <1>t
  <1>8. \A d \in Callers : current[d] # 0 => current[d] \in Store!Ops
    BY <1>0 DEF StoreTyped, Store!Ops
  <1>9. OneAtATime'
    BY <1>0, <1>3, <1>5, <1>6, <1>7, <1>8 DEF OneAtATime
  <1>10. LogTrue'
    BY <1>1, <1>3, <1>5, HostFrame
  <1>11. OutcomesTrue' /\ Store!AppliedOnce' /\ Store!LogBounded' /\ Store!OrderKept'
    <2>1. answers' \subseteq answers /\ (\A p \in Store!Ops : returned'[p] = returned[p])
      BY <1>3
    <2> QED
      BY <1>3, <2>1, HostFrame
  <1> QED
    BY <1>4, <1>9, <1>10, <1>11 DEF StoreInv

(* A call returns what is true, or that nothing is known.                    *)
LEMMA ReturnKeeps ==
  ASSUME StoreInv, NEW c \in Callers, current[c] # 0,
         NEW r, r = "unknown" \/ (outcome[current[c]] # "no" /\ r = Store!FromWire(outcome[current[c]])),
         Store!Return(c, r), UNCHANGED <<attempt, network>>, UNCHANGED Store!host
  PROVE  StoreInv'
  <1> DEFINE o == current[c]
  <1>0. MaxOps \in Nat /\ StoreTyped /\ OneAtATime /\ None \notin Callers
    BY ServicesAssumption DEF StoreInv
  <1>1. o \in Store!Ops /\ mutex = c /\ attempt[o] > 0 /\ returned[o] = "no"
    BY <1>0 DEF StoreTyped, Store!Ops, OneAtATime
  <1>2. r \in {"unknown", "ok", "not_found", "failed"}
    BY <1>0, <1>1 DEF Store!FromWire
  <1>3. /\ \A p \in Store!Ops : returned'[p] = IF p = o THEN r ELSE returned[p]
        /\ \A d \in Callers : current'[d] = IF d = c THEN 0 ELSE current[d]
        /\ mutex' = None /\ answers' = {} /\ attempt' = attempt /\ network' = network
    BY <1>0, <1>1 DEF StoreTyped, Store!Return
  <1>4. StoreTyped'
    BY <1>0, <1>1, <1>2 DEF StoreTyped, Store!Return, Store!host
  <1>5. OneAtATime'
    <2>1. Store!Started' = Store!Started
      BY <1>3 DEF Store!Started
    <2>2. \A d \in Callers : current'[d] = 0
      BY <1>0, <1>1, <1>3 DEF OneAtATime
    <2>3. \A p \in Store!Ops : attempt[p] > 0 => returned'[p] # "no"
      <3> SUFFICES ASSUME NEW p \in Store!Ops, attempt[p] > 0, p # o PROVE returned[p] # "no"
        BY <1>2, <1>3
      <3>1. ASSUME returned[p] = "no" PROVE FALSE
        <4>1. PICK d \in Callers : current[d] = p
          BY <1>0, <3>1 DEF OneAtATime
        <4>2. p # 0
          BY <1>0 DEF Store!Ops
        <4> QED
          BY <1>0, <1>1, <4>1, <4>2 DEF OneAtATime
      <3> QED
        BY <3>1
    <2>4. \A p \in Store!Ops : attempt[p] = 0 => returned'[p] = "no"
      BY <1>0, <1>1, <1>3 DEF OneAtATime
    <2>5. \A p, q \in Store!Ops : p < q /\ attempt[q] > 0 => returned'[p] # "no" /\ attempt[p] > 0
      BY <1>0, <2>3 DEF OneAtATime
    <2>6. \E k \in 0..MaxOps : Store!Started = 1..k
      BY <1>0 DEF OneAtATime
    <2> QED
      BY <1>3, <2>1, <2>2, <2>3, <2>4, <2>5, <2>6 DEF OneAtATime
  <1>6. LogTrue'
    BY <1>3, HostFrame
  <1>7. OutcomesTrue'
    <2>1. answers' \subseteq answers
      BY <1>3
    <2>2. \A p \in Store!Ops : returned'[p] = returned[p] \/ returned'[p] = "unknown"
             \/ (outcome[p] # "no" /\ returned'[p] = Store!FromWire(outcome[p]))
      BY <1>3
    <2> QED
      BY <2>1, <2>2, HostFrame
  <1>8. Store!AppliedOnce' /\ Store!LogBounded' /\ Store!OrderKept'
    BY <1>1, <1>3, HostFrame
  <1> QED
    BY <1>4, <1>5, <1>6, <1>7, <1>8 DEF StoreInv

LEMMA AnsweredKeeps ==
  ASSUME StoreInv, NEW c \in Callers, Store!Answered(c) \/ Store!GiveUp(c)
  PROVE  StoreInv'
  <1>1. CASE Store!Answered(c)
    <2>1. PICK w \in Store!Outcomes :
            <<current[c], attempt[current[c]], w>> \in answers /\ Store!Return(c, Store!FromWire(w))
      BY <1>1 DEF Store!Answered
    <2>2. w = outcome[current[c]] /\ w # "no"
      BY <2>1 DEF StoreInv, OutcomesTrue, Store!Outcomes
    <2> QED
      BY <1>1, <2>1, <2>2, ReturnKeeps DEF Store!Answered
  <1>2. CASE Store!GiveUp(c)
    BY <1>2, ReturnKeeps DEF Store!GiveUp
  <1> QED
    BY <1>1, <1>2

(* What the actions of the host leave alone.                                 *)
LEMMA RunnerFrame ==
  ASSUME StoreInv, UNCHANGED Store!runner
  PROVE  OneAtATime'
  <1>1. UNCHANGED <<mutex, current, attempt, returned>> /\ OneAtATime
    BY DEF Store!runner, StoreInv
  <1> QED
    BY <1>1 DEF OneAtATime, Store!Started

(* What the log holds and is not done is what runs or has been stored.       *)
Unfinished(ops) == {o \in Store!Ops : ops[o] \in {"running", "stored"}}
Bounded(b, k, ops) ==
  \/ Len(b) - k <= MaxLog + Cardinality(Unfinished(ops))
  \/ k < Len(b) /\ b[k + 1] \in Unfinished(ops)

LEMMA LogBoundedAs ==
  ASSUME NEW b \in Seq(Store!Ops), NEW k \in 0..Len(b),
         NEW ops \in [Store!Ops -> {"none", "running", "stored", "done"}],
         \A i \in 1..Len(b) : ops[b[i]] = "none" <=> i <= k,
         \A o \in Store!Ops : ops[o] # "none" => \E i \in 1..Len(b) : b[i] = o,
         NEW ids, ids = SubSeq(b, k + 1, Len(b))
  PROVE  /\ Len(ids) = Len(b) - k
         /\ \A i \in 1..(Len(b) - k) : ids[i] = b[k + i]
         /\ {o \in Store!Range(ids) : ops[o] # "done"} = Unfinished(ops)
         /\ IsFiniteSet(Unfinished(ops)) /\ Cardinality(Unfinished(ops)) \in Nat
  <1>0. MaxOps \in Nat /\ Len(b) \in Nat /\ k \in Nat
    BY ServicesAssumption
  <1>1. Len(ids) = Len(b) - k /\ \A i \in 1..(Len(b) - k) : ids[i] = b[k + i]
    BY <1>0
  <1>2. ids \in Seq(Store!Ops) /\ DOMAIN ids = 1..(Len(b) - k)
    BY <1>0, <1>1
  <1>3. \A o : o \in Range(ids) <=> \E i \in 1..(Len(b) - k) : ids[i] = o
    BY ZenonT(40), <1>2 DEF Range
  <1>4. \A o : o \in Range(ids) <=> \E j \in 1..Len(b) : j > k /\ b[j] = o
    <2> SUFFICES ASSUME NEW o PROVE o \in Range(ids) <=> \E j \in 1..Len(b) : j > k /\ b[j] = o
      OBVIOUS
    <2>1. ASSUME NEW i \in 1..(Len(b) - k), ids[i] = o PROVE \E j \in 1..Len(b) : j > k /\ b[j] = o
      <3>1. k + i \in 1..Len(b) /\ k + i > k /\ b[k + i] = o
        BY <1>0, <1>1, <2>1
      <3> QED
        BY <3>1
    <2>2. ASSUME NEW j \in 1..Len(b), j > k, b[j] = o PROVE \E i \in 1..(Len(b) - k) : ids[i] = o
      <3>1. j - k \in 1..(Len(b) - k) /\ ids[j - k] = b[k + (j - k)] /\ k + (j - k) = j
        BY <1>0, <1>1, <2>2
      <3> QED
        BY <2>2, <3>1
    <2> QED
      BY <1>3, <2>1, <2>2
  <1>5. \A j \in 1..Len(b) : b[j] \in Store!Ops
    OBVIOUS
  <1>6. \A o : o \in Range(ids) /\ ops[o] # "done" <=> o \in Unfinished(ops)
    <2>1. ASSUME NEW o, o \in Range(ids), ops[o] # "done" PROVE o \in Unfinished(ops)
      <3>1. PICK j \in 1..Len(b) : j > k /\ b[j] = o
        BY <1>4, <2>1
      <3>2. ops[o] # "none" /\ o \in Store!Ops
        BY <1>0, <1>5, <3>1
      <3> QED
        BY <2>1, <3>2 DEF Unfinished
    <2>2. ASSUME NEW o \in Unfinished(ops) PROVE o \in Range(ids) /\ ops[o] # "done"
      <3>1. o \in Store!Ops /\ ops[o] # "none" /\ ops[o] # "done"
        BY DEF Unfinished
      <3>2. PICK j \in 1..Len(b) : b[j] = o
        BY <3>1
      <3>3. j > k
        BY <1>0, <3>1, <3>2
      <3> QED
        BY <1>4, <3>1, <3>2, <3>3
    <2> QED
      BY <2>1, <2>2
  <1>7. IsFiniteSet(Store!Ops)
    BY <1>0, FS_Interval DEF Store!Ops
  <1>8. Unfinished(ops) \subseteq Store!Ops
    BY DEF Unfinished
  <1>9. IsFiniteSet(Unfinished(ops)) /\ Cardinality(Unfinished(ops)) \in Nat
    BY <1>7, <1>8, FS_Subset, FS_CardinalityType
  <1> QED
    BY <1>1, <1>6, <1>9, StoreLibrary

Within(ids, open) == Len(ids) <= MaxLog + Store!Cardinality(open) \/ ids[1] \in open

LEMMA LogBoundedIs ==
  ASSUME NEW b \in Seq(Store!Ops), NEW k \in 0..Len(b),
         NEW ops \in [Store!Ops -> {"none", "running", "stored", "done"}],
         \A i \in 1..Len(b) : ops[b[i]] = "none" <=> i <= k,
         \A o \in Store!Ops : ops[o] # "none" => \E i \in 1..Len(b) : b[i] = o,
         NEW ids, ids = SubSeq(b, k + 1, Len(b))
  PROVE  Within(ids, {o \in Store!Range(ids) : ops[o] # "done"}) <=> Bounded(b, k, ops)
  <1>0. MaxLog \in Nat /\ Len(b) \in Nat /\ k \in Nat /\ k <= Len(b)
    BY ServicesAssumption
  <1>1. /\ Len(ids) = Len(b) - k /\ \A i \in 1..(Len(b) - k) : ids[i] = b[k + i]
        /\ {o \in Store!Range(ids) : ops[o] # "done"} = Unfinished(ops)
        /\ Cardinality(Unfinished(ops)) \in Nat
    <2>1. Len(ids) = Len(b) - k /\ \A i \in 1..(Len(b) - k) : ids[i] = b[k + i]
      BY LogBoundedAs
    <2>2. {o \in Store!Range(ids) : ops[o] # "done"} = Unfinished(ops)
      BY ZenonT(40), LogBoundedAs
    <2>3. Cardinality(Unfinished(ops)) \in Nat
      BY LogBoundedAs
    <2> QED
      BY <2>1, <2>2, <2>3
  <1>2. Store!Cardinality(Unfinished(ops)) = Cardinality(Unfinished(ops))
    BY StoreLibrary
  <1>3. ids[1] = b[k + 1] \/ ~(k < Len(b))
    BY <1>0, <1>1
  <1>4. SUFFICES Within(ids, Unfinished(ops)) <=> Bounded(b, k, ops)
    BY <1>1
  <1>5. ASSUME Within(ids, Unfinished(ops)) PROVE Bounded(b, k, ops)
    BY <1>0, <1>1, <1>2, <1>3, <1>5 DEF Within, Bounded
  <1>6. ASSUME Bounded(b, k, ops) PROVE Within(ids, Unfinished(ops))
    BY <1>0, <1>1, <1>2, <1>3, <1>6 DEF Within, Bounded
  <1> QED
    BY <1>5, <1>6

LEMMA LogBoundedBefore ==
  ASSUME StoreInv
  PROVE  Bounded(begun, cut, operations)
  <1>1. StoreTyped /\ LogTrue /\ Store!LogBounded
    BY DEF StoreInv
  <1>2. /\ begun \in Seq(Store!Ops) /\ cut \in 0..Len(begun)
        /\ operations \in [Store!Ops -> {"none", "running", "stored", "done"}]
    BY <1>1 DEF StoreTyped
  <1>3. /\ \A i \in 1..Len(begun) : operations[begun[i]] = "none" <=> i <= cut
        /\ \A o \in Store!Ops : operations[o] # "none" => \E i \in 1..Len(begun) : begun[i] = o
    BY <1>1 DEF LogTrue
  <1>4. Store!operationIDs = SubSeq(begun, cut + 1, Len(begun))
    BY DEF Store!operationIDs
  <1>5. Within(Store!operationIDs, {o \in Store!Range(Store!operationIDs) : operations[o] # "done"})
    BY <1>1 DEF Store!LogBounded, Within
  <1> QED
    BY <1>2, <1>3, <1>4, <1>5, LogBoundedIs

LEMMA LogBoundedAfter ==
  ASSUME StoreTyped', LogTrue', Bounded(begun', cut', operations')
  PROVE  Store!LogBounded'
  <1>2. /\ begun' \in Seq(Store!Ops) /\ cut' \in 0..Len(begun')
        /\ operations' \in [Store!Ops -> {"none", "running", "stored", "done"}]
    BY DEF StoreTyped
  <1>3. /\ \A i \in 1..Len(begun') : operations'[begun'[i]] = "none" <=> i <= cut'
        /\ \A o \in Store!Ops : operations'[o] # "none" => \E i \in 1..Len(begun') : begun'[i] = o
    BY DEF LogTrue
  <1>4. Store!operationIDs' = SubSeq(begun', cut' + 1, Len(begun'))
    BY DEF Store!operationIDs
  <1>5. Within(Store!operationIDs', {o \in Store!Range(Store!operationIDs') : operations'[o] # "done"})
    BY <1>2, <1>3, <1>4, LogBoundedIs
  <1> QED
    BY <1>5 DEF Store!LogBounded, Within

\* The handler: an operation that it has not seen is entered in the log, at its end.
LEMMA BeginKeeps ==
  ASSUME StoreInv, NEW o \in Store!Ops, NEW a \in 1..(MaxRepeats + 1), Store!Begin(o, a)
  PROVE  StoreInv'
  <1>0. MaxOps \in Nat /\ MaxRepeats \in Nat /\ MaxLog \in Nat
    BY ServicesAssumption
  <1>1. StoreTyped /\ LogTrue /\ OutcomesTrue
    BY DEF StoreInv
  <1>2. begun \in Seq(Store!Ops) /\ Len(begun) \in Nat /\ cut \in 0..Len(begun)
    BY <1>1 DEF StoreTyped
  <1>3. \A i \in 1..Len(begun) : begun[i] # o
    <2> SUFFICES ASSUME NEW i \in 1..Len(begun), begun[i] = o PROVE FALSE
      OBVIOUS
    <2>1. i \in DOMAIN begun /\ o \in Store!Range(begun)
      BY <1>2, StoreLibrary DEF Range
    <2>2. PICK j \in DOMAIN begun : begun[j] = o /\ Store!Age(o) = Len(begun) - j
      BY <2>1 DEF Store!Age
    <2>3. j \in 1..Len(begun) /\ j <= cut
      BY <1>1, <1>2, <2>2 DEF LogTrue, Store!Begin
    <2>4. Len(begun) - cut >= MaxLog
      BY <1>1, <1>2, <2>3 DEF LogTrue
    <2>5. Store!Age(o) < MaxLog
      BY DEF Store!Begin, Store!Arrives
    <2> QED
      BY <1>0, <1>2, <2>2, <2>3, <2>4, <2>5
  <1>4. /\ begun' = Append(begun, o) /\ network' = network \ {<<o, a>>}
        /\ waiting' = waiting \cup {<<o, a>>} /\ <<o, a>> \in network
        /\ UNCHANGED <<cut, answers, stored, outcome>> /\ UNCHANGED Store!runner
        /\ operations[o] = "none"
    BY DEF Store!Begin, Store!Arrives
  <1>5. operations' = [operations EXCEPT ![o] = "running"]
    BY DEF Store!Begin
  <1>6. \A p \in Store!Ops : operations'[p] = IF p = o THEN "running" ELSE operations[p]
    BY <1>1, <1>5 DEF StoreTyped
  <1>7. UNCHANGED <<mutex, current, attempt, returned>>
    BY <1>4 DEF Store!runner
  <1>8. /\ begun' \in Seq(Store!Ops) /\ Len(begun') = Len(begun) + 1
        /\ \A i \in 1..Len(begun) : begun'[i] = begun[i] /\ begun[i] \in Store!Ops
        /\ begun'[Len(begun) + 1] = o
    BY <1>2, <1>4
  <1>9. StoreTyped'
    <2>1. cut' \in 0..Len(begun')
      BY <1>2, <1>4, <1>8
    <2>2. operations' \in [Store!Ops -> {"none", "running", "stored", "done"}]
      BY <1>1, <1>5 DEF StoreTyped
    <2> QED
      BY <1>1, <1>4, <1>7, <1>8, <2>1, <2>2 DEF StoreTyped
  <1>10. OneAtATime'
    BY <1>4, RunnerFrame
  <1>11. \A p \in Store!Ops : (\E i \in 1..Len(begun') : begun'[i] = p) <=> (p = o \/ \E i \in 1..Len(begun) : begun[i] = p)
    BY <1>2, <1>8
  <1>12. LogTrue'
    <2>1. \A r \in network' : attempt'[r[1]] > 0
      BY <1>1, <1>4, <1>7 DEF LogTrue
    <2>2. attempt[o] > 0
      BY <1>1, <1>4 DEF LogTrue
    <2>3. \A i \in 1..Len(begun') : i \in 1..Len(begun) \/ i = Len(begun) + 1
      BY <1>2, <1>8
    <2>4. \A i \in 1..Len(begun') : attempt'[begun'[i]] > 0
      BY <1>1, <1>7, <1>8, <2>2, <2>3 DEF LogTrue
    <2>5. \A i, j \in 1..Len(begun') : begun'[i] = begun'[j] => i = j
      BY <1>1, <1>3, <1>8, <2>3 DEF LogTrue
    <2>6. ASSUME NEW i \in 1..Len(begun') PROVE operations'[begun'[i]] = "none" <=> i <= cut'
      <3>1. CASE i \in 1..Len(begun)
        BY <1>1, <1>3, <1>4, <1>6, <1>8, <3>1 DEF LogTrue
      <3>2. CASE i = Len(begun) + 1
        BY <1>2, <1>4, <1>6, <1>8, <3>2
      <3> QED
        BY <2>3, <3>1, <3>2
    <2>7. \A p \in Store!Ops : operations'[p] # "none" => \E i \in 1..Len(begun') : begun'[i] = p
      BY <1>1, <1>6, <1>11 DEF LogTrue
    <2>8. cut' > 0 => Len(begun') - cut' >= MaxLog
      BY <1>0, <1>1, <1>2, <1>4, <1>8 DEF LogTrue
    <2> QED
      BY <2>1, <2>4, <2>5, <2>6, <2>7, <2>8 DEF LogTrue
  <1>13. OutcomesTrue'
    <2>1. outcome[o] = "no"
      BY <1>1, <1>3 DEF OutcomesTrue
    <2>2. \A p \in Store!Ops : outcome'[p] = "no" <=>
             operations'[p] = "running" \/ ~\E i \in 1..Len(begun') : begun'[i] = p
      BY <1>1, <1>4, <1>6, <1>11, <2>1 DEF OutcomesTrue
    <2> QED
      BY <1>1, <1>4, <1>7, <2>2 DEF OutcomesTrue, Store!FromWire
  <1>14. Store!AppliedOnce' /\ Store!OrderKept'
    BY <1>4, <1>7 DEF StoreInv, Store!AppliedOnce, Store!OrderKept
  <1>15. Store!LogBounded'
    <2> DEFINE was == Unfinished(operations)
               now_ == Unfinished(operations')
    <2>1. now_ = was \cup {o} /\ o \notin was
      BY <1>4, <1>6 DEF Unfinished
    <2>2. IsFiniteSet(was)
      <3>1. IsFiniteSet(Store!Ops)
        BY <1>0, FS_Interval DEF Store!Ops
      <3>2. was \subseteq Store!Ops
        BY DEF Unfinished
      <3> QED
        BY <3>1, <3>2, FS_Subset
    <2>3. Cardinality(was) \in Nat
      BY <2>2, FS_CardinalityType
    <2>4. Cardinality(now_) = Cardinality(was) + 1
      BY <2>1, <2>2, FS_AddElement
    <2>5. Bounded(begun, cut, operations)
      BY LogBoundedBefore
    <2>6. CASE Len(begun) - cut <= MaxLog + Cardinality(was)
      <3>1. Len(begun') - cut' <= MaxLog + Cardinality(now_)
        BY <1>0, <1>2, <1>4, <1>8, <2>3, <2>4, <2>6
      <3>2. Bounded(begun', cut', operations')
        BY <3>1 DEF Bounded
      <3> QED
        BY <1>9, <1>12, <3>2, LogBoundedAfter
    <2>7. CASE cut < Len(begun) /\ begun[cut + 1] \in was
      <3>1. cut' < Len(begun') /\ begun'[cut' + 1] \in now_
        BY <1>2, <1>4, <1>8, <2>1, <2>7
      <3>2. Bounded(begun', cut', operations')
        BY <3>1 DEF Bounded
      <3> QED
        BY <1>9, <1>12, <3>2, LogBoundedAfter
    <2> QED
      BY <2>5, <2>6, <2>7 DEF Bounded
  <1> QED
    BY <1>9, <1>10, <1>12, <1>13, <1>14, <1>15 DEF StoreInv

(* A repeated request waits; a response is the outcome.                      *)
LEMMA RepeatKeeps ==
  ASSUME StoreInv, NEW o \in Store!Ops, NEW a \in 1..(MaxRepeats + 1),
         Store!Repeat(o, a) \/ Store!Reply(o, a)
  PROVE  StoreInv'
  <1>1. StoreTyped /\ LogTrue /\ OutcomesTrue
    BY DEF StoreInv
  <1>2. UNCHANGED <<begun, cut, operations, stored, outcome>> /\ UNCHANGED Store!runner
    BY DEF Store!Repeat, Store!Reply
  <1>3. UNCHANGED <<mutex, current, attempt, returned>>
    BY <1>2 DEF Store!runner
  <1>4. /\ network' \subseteq network
        /\ waiting' \subseteq waiting \cup {<<o, a>>}
        /\ answers' \subseteq answers \/ answers' = answers \cup {<<o, a, outcome[o]>>}
        /\ outcome[o] # "no" \/ answers' = answers
    BY DEF Store!Repeat, Store!Arrives, Store!Reply
  <1>5. StoreTyped'
    <2>1. outcome[o] \in Store!Outcomes \/ outcome[o] = "no"
      BY <1>1 DEF StoreTyped
    <2>2. answers' \in SUBSET (Store!Ops \X (1..(MaxRepeats + 1)) \X Store!Outcomes)
      BY <1>1, <1>4, <2>1 DEF StoreTyped
    <2>3. waiting' \in SUBSET (Store!Ops \X (1..(MaxRepeats + 1)))
      BY <1>1, <1>4 DEF StoreTyped
    <2>4. network' \in SUBSET (Store!Ops \X (1..(MaxRepeats + 1)))
      BY <1>1, <1>4 DEF StoreTyped
    <2> QED
      BY <1>1, <1>2, <1>3, <2>2, <2>3, <2>4 DEF StoreTyped
  <1>6. OneAtATime'
    BY <1>2, RunnerFrame
  <1>7. LogTrue'
    BY <1>1, <1>2, <1>3, <1>4 DEF LogTrue
  <1>8. OutcomesTrue'
    <2>1. \A r \in answers' : r[3] = outcome[r[1]]
      BY <1>1, <1>4 DEF OutcomesTrue
    <2> QED
      BY <1>1, <1>2, <1>3, <2>1 DEF OutcomesTrue, Store!FromWire
  <1>9. Store!AppliedOnce' /\ Store!OrderKept'
    BY <1>2, <1>3 DEF StoreInv, Store!AppliedOnce, Store!OrderKept
  <1>10. Store!LogBounded'
    <2>1. Bounded(begun, cut, operations)
      BY LogBoundedBefore
    <2>2. Bounded(begun', cut', operations')
      BY <1>2, <2>1
    <2> QED
      BY <1>5, <1>7, <2>2, LogBoundedAfter
  <1> QED
    BY <1>5, <1>6, <1>7, <1>8, <1>9, <1>10 DEF StoreInv

(* The handler: what it applies has not been applied, and what was started later
   and is stored already has been started after its caller gave up.          *)
LEMMA HandleKeeps ==
  ASSUME StoreInv, NEW o \in Store!Ops, Store!Handle(o)
  PROVE  StoreInv'
  <1>0. MaxOps \in Nat /\ StoreTyped /\ OneAtATime /\ LogTrue /\ OutcomesTrue
    BY ServicesAssumption DEF StoreInv
  <1>1. PICK w \in Store!Outcomes :
          /\ outcome' = [outcome EXCEPT ![o] = w]
          /\ stored' = IF w = "ok" THEN Append(stored, o) ELSE stored
    BY DEF Store!Handle
  <1>2. /\ operations[o] = "running" /\ operations' = [operations EXCEPT ![o] = "stored"]
        /\ UNCHANGED <<network, begun, cut, waiting, answers>> /\ UNCHANGED Store!runner
    BY DEF Store!Handle
  <1>3. UNCHANGED <<mutex, current, attempt, returned>>
    BY <1>2 DEF Store!runner
  <1>4. /\ \A p \in Store!Ops : outcome'[p] = IF p = o THEN w ELSE outcome[p]
        /\ \A p \in Store!Ops : operations'[p] = IF p = o THEN "stored" ELSE operations[p]
    BY <1>0, <1>1, <1>2 DEF StoreTyped
  <1>5. outcome[o] = "no" /\ w # "no"
    BY <1>0, <1>2 DEF OutcomesTrue, Store!Outcomes
  <1>6. stored \in Seq(Store!Ops) /\ Len(stored) \in Nat /\ begun \in Seq(Store!Ops)
    BY <1>0 DEF StoreTyped
  <1>7. \A i \in 1..Len(stored) : stored[i] # o /\ stored[i] \in Store!Ops
    BY <1>0, <1>5, <1>6 DEF OutcomesTrue
  <1>8. \A i \in 1..Len(begun) : begun[i] \in Store!Ops
    BY <1>6
  <1>9. /\ stored' \in Seq(Store!Ops)
        /\ w # "ok" => stored' = stored
        /\ w = "ok" => /\ Len(stored') = Len(stored) + 1 /\ stored'[Len(stored) + 1] = o
                       /\ \A i \in 1..Len(stored) : stored'[i] = stored[i]
    BY <1>1, <1>6
  <1>10. StoreTyped'
    BY <1>0, <1>1, <1>2, <1>3, <1>9 DEF StoreTyped
  <1>11. OneAtATime'
    BY <1>2, RunnerFrame
  <1>12. LogTrue'
    <2>1. \A p \in Store!Ops : operations'[p] = "none" <=> operations[p] = "none"
      BY <1>2, <1>4
    <2>2. \A i \in 1..Len(begun) : operations'[begun[i]] = "none" <=> i <= cut
      BY <1>0, <1>8, <2>1 DEF LogTrue
    <2> QED
      BY <1>0, <1>2, <1>3, <2>1, <2>2 DEF LogTrue
  <1>13. OutcomesTrue'
    <2>1. \E i \in 1..Len(begun) : begun[i] = o
      BY <1>0, <1>2 DEF LogTrue
    <2>2. \A p \in Store!Ops : outcome'[p] = "no" <=>
             operations'[p] = "running" \/ ~\E i \in 1..Len(begun') : begun'[i] = p
      BY <1>0, <1>2, <1>4, <1>5, <2>1 DEF OutcomesTrue
    <2>3. \A i \in 1..Len(stored') : outcome'[stored'[i]] = "ok"
      <3>1. CASE w = "ok"
        <4> SUFFICES ASSUME NEW i \in 1..Len(stored') PROVE outcome'[stored'[i]] = "ok"
          OBVIOUS
        <4>1. i \in 1..Len(stored) \/ i = Len(stored) + 1
          BY <1>6, <1>9, <3>1
        <4> QED
          BY <1>0, <1>4, <1>7, <1>9, <3>1, <4>1 DEF OutcomesTrue
      <3>2. CASE w # "ok"
        BY <1>0, <1>4, <1>7, <1>9, <3>2 DEF OutcomesTrue
      <3> QED
        BY <3>1, <3>2
    <2>4. \A p \in Store!Ops : outcome'[p] = "ok" => \E i \in 1..Len(stored') : stored'[i] = p
      <3>1. CASE w = "ok"
        <4>1. Len(stored) + 1 \in 1..Len(stored') /\ \A i \in 1..Len(stored) : i \in 1..Len(stored')
          BY <1>6, <1>9, <3>1
        <4>2. \A p \in Store!Ops : p # o /\ outcome'[p] = "ok" => \E i \in 1..Len(stored) : stored[i] = p
          BY <1>0, <1>4 DEF OutcomesTrue
        <4> QED
          BY <1>9, <3>1, <4>1, <4>2
      <3>2. CASE w # "ok"
        BY <1>0, <1>4, <1>9, <3>2 DEF OutcomesTrue
      <3> QED
        BY <3>1, <3>2
    <2>5. \A r \in answers' : r[3] = outcome'[r[1]]
      <3> SUFFICES ASSUME NEW r \in answers PROVE r[3] = outcome'[r[1]]
        BY <1>2
      <3>1. r[1] \in Store!Ops /\ r[3] = outcome[r[1]]
        <4>1. r \in Store!Ops \X (1..(MaxRepeats + 1)) \X Store!Outcomes
          BY <1>0 DEF StoreTyped
        <4>2. r[3] = outcome[r[1]]
          BY <1>0 DEF OutcomesTrue
        <4> QED
          BY <4>1, <4>2
      <3>2. r[3] # "no"
        <4>1. r \in Store!Ops \X (1..(MaxRepeats + 1)) \X Store!Outcomes
          BY <1>0 DEF StoreTyped
        <4>2. r[3] \in Store!Outcomes
          BY <4>1
        <4> QED
          BY <4>2 DEF Store!Outcomes
      <3> QED
        BY <1>4, <1>5, <3>1, <3>2
    <2>6. \A p \in Store!Ops : returned'[p] \notin {"no", "unknown"} =>
            outcome'[p] # "no" /\ returned'[p] = Store!FromWire(outcome'[p])
      BY <1>0, <1>3, <1>4, <1>5 DEF OutcomesTrue
    <2> QED
      BY <2>2, <2>3, <2>4, <2>5, <2>6 DEF OutcomesTrue
  <1>14. Store!AppliedOnce'
    <2>1. Store!AppliedOnce /\ DOMAIN stored = 1..Len(stored) /\ DOMAIN stored' = 1..Len(stored')
      BY <1>6, <1>9 DEF StoreInv
    <2>2. CASE w = "ok"
      <3>1. \A i \in 1..Len(stored') : i \in 1..Len(stored) \/ i = Len(stored) + 1
        BY SMTT(40), <1>6, <1>9, <2>2
      <3> QED
        BY <1>7, <1>9, <2>1, <2>2, <3>1 DEF Store!AppliedOnce
    <2>3. CASE w # "ok"
      BY <1>9, <2>1, <2>3 DEF Store!AppliedOnce
    <2> QED
      BY <2>2, <2>3
  <1>15. Store!OrderKept'
    <2>1. Store!OrderKept /\ DOMAIN stored = 1..Len(stored) /\ DOMAIN stored' = 1..Len(stored')
      BY <1>6, <1>9 DEF StoreInv
    <2>2. ASSUME NEW j \in 1..Len(stored), o < stored[j] PROVE returned[o] = "unknown"
      <3>1. stored[j] \in Store!Ops /\ outcome[stored[j]] = "ok"
        BY <1>0, <1>7 DEF OutcomesTrue
      <3>2. PICK i \in 1..Len(begun) : begun[i] = stored[j]
        BY <1>0, <3>1 DEF OutcomesTrue
      <3>3. attempt[stored[j]] > 0
        BY <1>0, <3>2 DEF LogTrue
      <3>4. returned[o] # "no"
        BY <1>0, <2>2, <3>1, <3>3 DEF OneAtATime
      <3> QED
        BY <1>0, <1>5, <3>4 DEF OutcomesTrue
    <2>3. CASE w = "ok"
      <3> SUFFICES ASSUME NEW i \in 1..Len(stored'), NEW j \in 1..Len(stored'),
                          stored'[i] < stored'[j], returned'[stored'[i]] # "unknown"
                   PROVE  i < j
        BY <2>1 DEF Store!OrderKept
      <3>1. (i \in 1..Len(stored) \/ i = Len(stored) + 1) /\ (j \in 1..Len(stored) \/ j = Len(stored) + 1)
        BY <1>6, <1>9, <2>3
      <3>2. CASE i \in 1..Len(stored) /\ j \in 1..Len(stored)
        BY <1>3, <1>9, <2>1, <2>3, <3>2 DEF Store!OrderKept
      <3>3. CASE i \in 1..Len(stored) /\ j = Len(stored) + 1
        BY <1>6, <3>3
      <3>4. CASE i = Len(stored) + 1 /\ j \in 1..Len(stored)
        BY <1>3, <1>9, <2>2, <2>3, <3>4
      <3>5. CASE i = Len(stored) + 1 /\ j = Len(stored) + 1
        BY SMTT(40), <1>0, <1>9, <2>3, <3>5 DEF Store!Ops
      <3> QED
        BY <3>1, <3>2, <3>3, <3>4, <3>5
    <2>4. CASE w # "ok"
      BY <1>3, <1>9, <2>1, <2>4 DEF Store!OrderKept
    <2> QED
      BY <2>3, <2>4
  <1>16. Store!LogBounded'
    <2>1. Unfinished(operations') = Unfinished(operations)
      BY <1>2, <1>4 DEF Unfinished
    <2>2. Bounded(begun, cut, operations)
      BY LogBoundedBefore
    <2>3. Bounded(begun', cut', operations')
      BY <1>2, <2>1, <2>2 DEF Bounded
    <2> QED
      BY <1>10, <1>12, <2>3, LogBoundedAfter
  <1> QED
    BY <1>10, <1>11, <1>12, <1>13, <1>14, <1>15, <1>16 DEF StoreInv

(* The prune goes as far as it may, so that what is left is short enough or begins
   with an operation that is not done.                                       *)
LEMMA RecordKeeps ==
  ASSUME StoreInv, NEW o \in Store!Ops, Store!Record(o)
  PROVE  StoreInv'
  <1> DEFINE done == {p \in Store!Ops : operations[p] = "done"} \cup {o}
             size == Len(begun) - cut
             ids == Store!operationIDs
  <1>0. MaxOps \in Nat /\ MaxLog \in Nat /\ StoreTyped /\ LogTrue /\ OutcomesTrue
    BY ServicesAssumption DEF StoreInv
  <1>1. begun \in Seq(Store!Ops) /\ Len(begun) \in Nat /\ cut \in 0..Len(begun) /\ size \in Nat
    BY <1>0 DEF StoreTyped
  <1>2. /\ ids \in Seq(Store!Ops) /\ Len(ids) = size
        /\ \A i \in 1..size : ids[i] = begun[cut + i] /\ cut + i \in 1..Len(begun)
    BY <1>1 DEF Store!operationIDs
  <1>3. PICK n \in 0..Len(ids) :
          /\ Store!Pruned(n, done)
          /\ cut' = cut + n
          /\ operations' = [p \in Store!Ops |-> IF \E i \in 1..n : ids[i] = p THEN "none"
                                             ELSE IF p = o THEN "done" ELSE operations[p]]
    BY DEF Store!Record
  <1>4. /\ operations[o] = "stored"
        /\ UNCHANGED <<network, begun, waiting, answers, stored, outcome>> /\ UNCHANGED Store!runner
    BY DEF Store!Record
  <1>5. UNCHANGED <<mutex, current, attempt, returned>>
    BY <1>4 DEF Store!runner
  <1>6. /\ n \in 0..size
        /\ n = 0 \/ size - n >= MaxLog
        /\ \A i \in 1..n : ids[i] \in done
        /\ ~(size - (n + 1) >= MaxLog /\ \A i \in 1..(n + 1) : ids[i] \in done)
    BY <1>1, <1>2, <1>3 DEF Store!Pruned, Store!Prunable
  <1> HIDE DEF ids
  <1>7. \A i \in 1..Len(begun) : begun[i] \in Store!Ops
    BY <1>1
  <1>8. ASSUME NEW i \in 1..Len(begun)
        PROVE  /\ i <= cut => operations'[begun[i]] = "none"
               /\ i > cut /\ i <= cut + n => operations'[begun[i]] = "none" /\ begun[i] \in done
               /\ i > cut + n => operations'[begun[i]] =
                     IF begun[i] = o THEN "done" ELSE operations[begun[i]]
    <2>1. ASSUME NEW k \in 1..n PROVE ids[k] = begun[cut + k] /\ cut + k \in 1..Len(begun)
      BY <1>1, <1>2, <1>6
    <2>2. ASSUME NEW k \in 1..n, ids[k] = begun[i] PROVE i = cut + k
      BY <1>0, <2>1, <2>2 DEF LogTrue
    <2>3. ASSUME i <= cut PROVE operations'[begun[i]] = "none"
      <3>1. operations[begun[i]] = "none"
        BY <1>0, <2>3 DEF LogTrue
      <3>2. begun[i] # o /\ begun[i] \in Store!Ops
        BY <1>4, <1>7, <3>1
      <3> QED
        BY <1>3, <3>1, <3>2
    <2>4. ASSUME i > cut, i <= cut + n PROVE operations'[begun[i]] = "none" /\ begun[i] \in done
      <3>1. i - cut \in 1..n /\ ids[i - cut] = begun[i]
        <4>1. i - cut \in 1..n /\ cut + (i - cut) = i
          BY <1>1, <1>6, <2>4
        <4> QED
          BY <2>1, <4>1
      <3>2. \E k \in 1..n : ids[k] = begun[i]
        BY <3>1
      <3>3. operations'[begun[i]] = "none"
        BY <1>3, <1>7, <3>2
      <3> QED
        BY <1>6, <3>1, <3>3
    <2>5. ASSUME i > cut + n PROVE operations'[begun[i]] = IF begun[i] = o THEN "done" ELSE operations[begun[i]]
      <3>1. ~\E k \in 1..n : ids[k] = begun[i]
        BY <1>1, <1>6, <2>2, <2>5
      <3> QED
        BY <1>3, <1>7, <3>1
    <2> QED
      BY <2>3, <2>4, <2>5
  <1>9. cut' \in 0..Len(begun')
    BY <1>1, <1>3, <1>4, <1>6
  <1>10. StoreTyped'
    <2>1. operations' \in [Store!Ops -> {"none", "running", "stored", "done"}]
      BY <1>0, <1>3 DEF StoreTyped
    <2> QED
      BY <1>0, <1>4, <1>5, <1>9, <2>1 DEF StoreTyped
  <1>11. OneAtATime'
    BY <1>4, RunnerFrame
  <1>12. LogTrue'
    <2>1. \A i \in 1..Len(begun) : operations'[begun[i]] = "none" <=> i <= cut + n
      <3> SUFFICES ASSUME NEW i \in 1..Len(begun) PROVE operations'[begun[i]] = "none" <=> i <= cut + n
        OBVIOUS
      <3>1. CASE i <= cut + n
        BY <1>1, <1>6, <1>8, <3>1
      <3>2. CASE i > cut + n
        <4>1. ~(i <= cut)
          BY <1>1, <1>6, <3>2
        <4>2. operations[begun[i]] # "none"
          BY <1>0, <4>1 DEF LogTrue
        <4> QED
          BY <1>1, <1>6, <1>8, <3>2, <4>2
      <3> QED
        BY <1>1, <1>6, <3>1, <3>2
    <2>2. \A p \in Store!Ops : operations'[p] # "none" => operations[p] # "none"
      BY <1>3, <1>4
    <2>3. cut' > 0 => Len(begun) - cut' >= MaxLog
      BY <1>0, <1>1, <1>3, <1>6 DEF LogTrue
    <2> QED
      BY <1>0, <1>3, <1>4, <1>5, <2>1, <2>2, <2>3 DEF LogTrue
  <1>13. OutcomesTrue'
    <2>1. ASSUME NEW p \in Store!Ops, operations[p] = "running" PROVE operations'[p] = "running"
      <3>1. p # o /\ p \notin done
        BY <1>4, <2>1
      <3>2. ~\E i \in 1..n : ids[i] = p
        BY <1>6, <3>1
      <3> QED
        BY <1>3, <2>1, <3>1, <3>2
    <2>2. ASSUME NEW p \in Store!Ops, operations'[p] = "running" PROVE operations[p] = "running"
      BY <1>3, <2>2
    <2>3. \A p \in Store!Ops : outcome'[p] = "no" <=>
             operations'[p] = "running" \/ ~\E i \in 1..Len(begun') : begun'[i] = p
      BY <1>0, <1>4, <2>1, <2>2 DEF OutcomesTrue
    <2> QED
      BY <1>0, <1>4, <1>5, <2>3 DEF OutcomesTrue, Store!FromWire
  <1>14. Store!AppliedOnce' /\ Store!OrderKept'
    BY <1>4, <1>5 DEF StoreInv, Store!AppliedOnce, Store!OrderKept
  <1>15. Store!LogBounded'
    <2> DEFINE left == Unfinished(operations')
    <2>1. Cardinality(left) \in Nat
      <3>1. IsFiniteSet(Store!Ops)
        BY <1>0, FS_Interval DEF Store!Ops
      <3>2. left \subseteq Store!Ops
        BY DEF Unfinished
      <3> QED
        BY <3>1, <3>2, FS_Subset, FS_CardinalityType
    <2>2. CASE size - (n + 1) < MaxLog
      <3>1. Len(begun') - cut' <= MaxLog + Cardinality(left)
        BY <1>0, <1>1, <1>3, <1>4, <1>6, <2>1, <2>2
      <3> QED
        BY <1>10, <1>12, <3>1, LogBoundedAfter DEF Bounded
    <2>3. CASE ~(size - (n + 1) < MaxLog)
      <3>1. size - (n + 1) >= MaxLog /\ n + 1 \in 1..size
        BY <1>0, <1>1, <1>6, <2>3
      <3>2. PICK i \in 1..(n + 1) : ids[i] \notin done
        BY <1>6, <3>1
      <3>3. i = n + 1
        BY <1>1, <1>6, <3>2
      <3>4. ids[n + 1] = begun[cut + (n + 1)] /\ cut + (n + 1) \in 1..Len(begun)
        BY <1>2, <3>1
      <3>5. cut' + 1 = cut + (n + 1) /\ cut' < Len(begun') /\ cut + (n + 1) > cut + n
        BY SMTT(40), <1>1, <1>3, <1>4, <1>6, <3>4
      <3>6. begun[cut + (n + 1)] \notin done /\ begun[cut + (n + 1)] \in Store!Ops
        BY <1>7, <3>2, <3>3, <3>4
      <3>7. operations'[begun[cut + (n + 1)]] = operations[begun[cut + (n + 1)]]
        BY <1>8, <3>4, <3>5, <3>6
      <3>8. operations[begun[cut + (n + 1)]] \notin {"none", "done"}
        <4>1. ~(cut + (n + 1) <= cut)
          BY <1>1, <1>6
        <4> QED
          BY <1>0, <3>4, <3>6, <4>1 DEF LogTrue
      <3>9. begun'[cut' + 1] \in left
        BY <1>0, <1>4, <3>5, <3>6, <3>7, <3>8 DEF Unfinished, StoreTyped
      <3> QED
        BY <1>10, <1>12, <3>5, <3>9, LogBoundedAfter DEF Bounded
    <2> QED
      BY <2>2, <2>3
  <1> QED
    BY <1>10, <1>11, <1>12, <1>13, <1>14, <1>15 DEF StoreInv

LEMMA StoreNext ==
  ASSUME StoreInv, Store!Next
  PROVE  StoreInv'
  <1>1. ASSUME NEW c \in Callers, Store!Resend(c) \/ Store!Answered(c) \/ Store!GiveUp(c)
                                    \/ \E o \in Store!Ops : Store!Mutate(c, o)
        PROVE  StoreInv'
    BY <1>1, ResendKeeps, AnsweredKeeps, MutateKeeps
  <1>2. ASSUME NEW o \in Store!Ops, NEW a \in 1..(MaxRepeats + 1),
               Store!Begin(o, a) \/ Store!Repeat(o, a) \/ Store!Reply(o, a)
        PROVE  StoreInv'
    BY <1>2, BeginKeeps, RepeatKeeps
  <1>3. ASSUME NEW o \in Store!Ops, Store!Handle(o) \/ Store!Record(o)
        PROVE  StoreInv'
    BY <1>3, HandleKeeps, RecordKeeps
  <1> QED
    BY <1>1, <1>2, <1>3 DEF Store!Next

LEMMA StoreStutter ==
  ASSUME StoreInv, UNCHANGED storeVars
  PROVE  StoreInv'
  <1>1. UNCHANGED Store!host /\ UNCHANGED Store!runner /\ UNCHANGED <<network, answers, returned>>
    BY DEF storeVars, Store!host, Store!runner
  <1>2. UNCHANGED <<mutex, current, attempt, network, begun, cut, operations, waiting, answers,
                    stored, outcome, returned>>
    BY DEF storeVars
  <1>3. StoreTyped' /\ OneAtATime'
    BY <1>1, <1>2, RunnerFrame DEF StoreInv, StoreTyped
  <1>4. LogTrue' /\ OutcomesTrue' /\ Store!AppliedOnce' /\ Store!LogBounded' /\ Store!OrderKept'
    BY <1>1, <1>2, HostFrame
  <1> QED
    BY <1>3, <1>4 DEF StoreInv

\* What the runner was told is what the store did.
LEMMA AnswerIsTrueHolds ==
  ASSUME StoreInv
  PROVE  Store!AnswerIsTrue
  <1>1. OutcomesTrue /\ stored \in Seq(Store!Ops)
    BY DEF StoreInv, StoreTyped
  <1>2. ASSUME NEW o \in Store!Ops PROVE o \in Store!Range(stored) <=> outcome[o] = "ok"
    <2>1. o \in Range(stored) <=> \E i \in 1..Len(stored) : stored[i] = o
      BY <1>1 DEF Range
    <2> QED
      BY <1>1, <2>1, StoreLibrary DEF OutcomesTrue
  <1>3. ASSUME NEW o \in Store!Ops PROVE Store!FromWire(outcome[o]) = "ok" <=> outcome[o] = "ok"
    BY DEF Store!FromWire
  <1> QED
    BY <1>1, <1>2, <1>3 DEF OutcomesTrue, Store!AnswerIsTrue

-----------------------------------------------------------------------------
(* Capabilities.                                                             *)

CapTyped ==
  /\ Cap!TypeOK
  /\ location \in [Locations -> [workspace : Directories, expires : Nat] \cup {None}]
  /\ launches \in [Callers -> [expires : Nat, active : BOOLEAN] \cup {None}]

(* What a chat has follows from where its request stands, and a location that is
   there has been given to nobody.                                           *)
CapPlaces ==
  /\ \A l \in Locations : location[l] # None => spent[l] = {}
  /\ \A l \in Locations : \A c, d \in spent[l] : c = d
  /\ \A c \in contexts : pc[c] \in {"issued", "prepared", "live", "refused"}
  /\ \A c \in Callers : launches[c] # None => pc[c] \in {"prepared", "live", "closing"}
  /\ \A c \in Callers : processes[c] > 0 =>
       pc[c] \in {"prepared", "live", "closing", "refused", "failed", "closed"}

CapInv == CapTyped /\ CapPlaces /\ Cap!OneProcess

LEMMA CapInit == Cap!Init => CapInv
  <1> SUFFICES ASSUME Cap!Init PROVE CapInv
    OBVIOUS
  <1>0. MaxTime \in Nat
    BY ServicesAssumption
  <1>1. CapTyped
    BY <1>0 DEF Cap!Init, CapTyped, Cap!TypeOK
  <1>2. CapPlaces /\ Cap!OneProcess
    BY DEF Cap!Init, CapPlaces, Cap!OneProcess
  <1> QED
    BY <1>1, <1>2 DEF CapInv

(* A step of a request from one place to another.                            *)
LEMMA GotoStep ==
  ASSUME CapInv, NEW c \in Callers, NEW from, NEW to, Cap!Goto(c, from, to),
         to \in {"idle", "located", "issued", "prepared", "live", "refused", "failed", "closing", "closed"}
  PROVE  /\ pc[c] = from /\ pc'[c] = to
         /\ \A d \in Callers : d # c => pc'[d] = pc[d]
         /\ pc' \in [Callers -> {"idle", "located", "issued", "prepared", "live", "refused",
                                 "failed", "closing", "closed"}]
  BY DEF CapInv, CapTyped, Cap!TypeOK, Cap!Goto

\* The steps of a location, which are those of its request.
LEMMA LocationStep ==
  ASSUME CapInv, NEW l \in Locations, NEW w \in Directories, 
         Cap!RegisterLocation(l, w) \/ \E c \in Callers : Cap!Consume(c, l, w)
  PROVE  CapInv'
  <1>0. TTL \in Nat
    BY ServicesAssumption
  <1>1. /\ Cap!Fresh \in [Locations -> [workspace : Directories, expires : Nat] \cup {None}]
        /\ \A m \in Locations : Cap!Fresh[m] # None => location[m] # None
    BY DEF CapInv, CapTyped, Cap!Fresh, Cap!Unexpired
  <1>2. CASE Cap!RegisterLocation(l, w)
    <2>1. /\ location' = [Cap!Fresh EXCEPT ![l] = [workspace |-> w, expires |-> now + TTL]]
          /\ spent[l] = {}
          /\ UNCHANGED <<now, spent, pc, contexts, launches, processes>>
      BY <1>2 DEF Cap!RegisterLocation
    <2>2. now + TTL \in Nat
      BY <1>0 DEF CapInv, CapTyped, Cap!TypeOK
    <2>3. CapTyped'
      BY <1>1, <2>1, <2>2 DEF CapInv, CapTyped, Cap!TypeOK
    <2>4. \A m \in Locations : location'[m] # None => spent'[m] = {}
      BY <1>1, <2>1 DEF CapInv, CapPlaces
    <2> QED
      BY <2>1, <2>3, <2>4 DEF CapInv, CapPlaces, Cap!OneProcess
  <1>3. ASSUME NEW c \in Callers, Cap!Consume(c, l, w) PROVE CapInv'
    <2>1. UNCHANGED <<now, contexts, launches, processes>>
      BY <1>3 DEF Cap!Consume
    <2>2. \/ /\ Cap!Goto(c, "idle", "located") /\ location[l] # None
             /\ location' = [Cap!Fresh EXCEPT ![l] = None]
             /\ spent' = [spent EXCEPT ![l] = @ \cup {c}]
          \/ Cap!Goto(c, "idle", "failed") /\ location' = Cap!Fresh /\ spent' = spent
      BY <1>3 DEF Cap!Consume, Cap!Unexpired
    <2>3. /\ pc[c] = "idle" /\ pc'[c] \in {"located", "failed"}
          /\ \A d \in Callers : d # c => pc'[d] = pc[d]
          /\ pc' \in [Callers -> {"idle", "located", "issued", "prepared", "live", "refused",
                                  "failed", "closing", "closed"}]
      BY <2>2, GotoStep
    <2>4. spent \in [Locations -> SUBSET Callers]
      BY DEF CapInv, CapTyped, Cap!TypeOK
    <2>5. spent' \in [Locations -> SUBSET Callers]
      BY <2>2, <2>4
    <2>6. location' \in [Locations -> [workspace : Directories, expires : Nat] \cup {None}]
      BY <1>1, <2>2
    <2>7. CapTyped'
      BY <2>1, <2>3, <2>5, <2>6 DEF CapInv, CapTyped, Cap!TypeOK
    <2>8. \A m \in Locations : location'[m] # None => spent'[m] = {}
      BY <1>1, <2>2, <2>4 DEF CapInv, CapPlaces
    <2>9. \A m \in Locations : \A d, e \in spent'[m] : d = e
      <3>1. location[l] # None => spent[l] = {}
        BY DEF CapInv, CapPlaces
      <3> QED
        BY <2>2, <2>4, <3>1 DEF CapInv, CapPlaces
    <2>10. CapPlaces'
      <3>1. contexts \subseteq Callers
        BY DEF CapInv, CapTyped, Cap!TypeOK
      <3> QED
        BY <2>1, <2>3, <2>8, <2>9, <3>1 DEF CapInv, CapPlaces
    <2> QED
      BY <2>1, <2>7, <2>10 DEF CapInv, Cap!OneProcess
  <1> QED
    BY <1>2, <1>3

(* The steps of openChat and disposeChat.                                    *)
OpenStep(c) ==
  \/ \E p \in Callers \cup {None} : Cap!Begin(c, p)
  \/ Cap!BadTarget(c) \/ Cap!Issue(c) \/ Cap!Prepare(c) \/ Cap!Opened(c) \/ Cap!OpenFails(c)
  \/ Cap!Refuse(c) \/ Cap!Dispose(c) \/ Cap!Closed(c)

LEMMA ChatStep ==
  ASSUME CapInv, NEW c \in Callers, OpenStep(c)
  PROVE  CapInv'
  <1>0. TTL \in Nat /\ now \in Nat
    BY ServicesAssumption DEF CapInv, CapTyped, Cap!TypeOK
  <1>1. CapTyped /\ CapPlaces /\ Cap!OneProcess /\ contexts \subseteq Callers
        /\ launches \in [Callers -> [expires : Nat, active : BOOLEAN] \cup {None}]
        /\ processes \in [Callers -> 0..1]
    BY DEF CapInv, CapTyped, Cap!TypeOK
  <1>2. ASSUME UNCHANGED <<now, location, spent, processes>>,
               contexts' \subseteq Callers,
               launches' \in [Callers -> [expires : Nat, active : BOOLEAN] \cup {None}],
               pc' \in [Callers -> {"idle", "located", "issued", "prepared", "live", "refused",
                                    "failed", "closing", "closed"}],
               \A d \in contexts' : pc'[d] \in {"issued", "prepared", "live", "refused"},
               \A d \in Callers : launches'[d] # None => pc'[d] \in {"prepared", "live", "closing"},
               \A d \in Callers : processes[d] > 0 =>
                 pc'[d] \in {"prepared", "live", "closing", "refused", "failed", "closed"},
               \A d \in Callers : processes[d] > 0 => launches'[d] = None \/ launches'[d].active
        PROVE  CapInv'
    BY <1>1, <1>2 DEF CapInv, CapTyped, Cap!TypeOK, CapPlaces, Cap!OneProcess
  <1>3. \A d \in contexts : pc[d] \in {"issued", "prepared", "live", "refused"}
    BY <1>1 DEF CapPlaces
  <1>4. \A d \in Callers : launches[d] # None => pc[d] \in {"prepared", "live", "closing"}
    BY <1>1 DEF CapPlaces
  <1>5. \A d \in Callers : processes[d] > 0 =>
          pc[d] \in {"prepared", "live", "closing", "refused", "failed", "closed"}
    BY <1>1 DEF CapPlaces
  <1>6. \A d \in Callers : processes[d] > 0 => launches[d] = None \/ launches[d].active
    BY <1>1 DEF Cap!OneProcess
  <1>7. ASSUME NEW from, NEW to, Cap!Goto(c, from, to),
               <<from, to>> \in {<<"idle", "located">>, <<"located", "failed">>, <<"prepared", "live">>},
               UNCHANGED <<now, location, spent, contexts, launches, processes>>
        PROVE  CapInv'
    <2>1. /\ pc[c] = from /\ pc'[c] = to
          /\ \A d \in Callers : d # c => pc'[d] = pc[d]
          /\ pc' \in [Callers -> {"idle", "located", "issued", "prepared", "live", "refused",
                                  "failed", "closing", "closed"}]
      BY <1>7, GotoStep
    <2> QED
      BY <1>1, <1>2, <1>3, <1>4, <1>5, <1>6, <1>7, <2>1
  <1>8. CASE \/ \E p \in Callers \cup {None} : Cap!Begin(c, p)
             \/ Cap!BadTarget(c) \/ Cap!Opened(c)
    BY <1>7, <1>8 DEF Cap!Begin, Cap!BadTarget, Cap!Opened
  <1>9. CASE Cap!Issue(c)
    <2>1. /\ pc[c] = "located" /\ pc'[c] = "issued"
          /\ \A d \in Callers : d # c => pc'[d] = pc[d]
          /\ pc' \in [Callers -> {"idle", "located", "issued", "prepared", "live", "refused",
                                  "failed", "closing", "closed"}]
      BY <1>9, GotoStep DEF Cap!Issue
    <2>2. contexts' = contexts \cup {c} /\ UNCHANGED <<now, location, spent, launches, processes>>
      BY <1>9 DEF Cap!Issue
    <2> QED
      BY <1>1, <1>2, <1>3, <1>4, <1>5, <1>6, <2>1, <2>2
  <1>10. CASE Cap!Prepare(c)
    <2>1. /\ pc[c] = "issued" /\ pc'[c] = "prepared"
          /\ \A d \in Callers : d # c => pc'[d] = pc[d]
          /\ pc' \in [Callers -> {"idle", "located", "issued", "prepared", "live", "refused",
                                  "failed", "closing", "closed"}]
      BY <1>10, GotoStep DEF Cap!Prepare
    <2>2. /\ UNCHANGED <<now, location, spent, contexts, processes>>
          /\ launches' = [d \in Callers |->
               IF d = c THEN [expires |-> now + TTL, active |-> FALSE]
               ELSE IF launches[d] # None /\ now > launches[d].expires THEN None ELSE launches[d]]
      BY <1>10 DEF Cap!Prepare
    <2>3. \A d \in Callers : d # c => launches'[d] \in {None, launches[d]}
      BY <2>2
    <2>4. launches' \in [Callers -> [expires : Nat, active : BOOLEAN] \cup {None}]
      BY <1>0, <1>1, <2>2
    <2> QED
      BY <1>1, <1>2, <1>3, <1>4, <1>5, <1>6, <2>1, <2>2, <2>3, <2>4
  <1>11. CASE Cap!OpenFails(c) \/ Cap!Closed(c)
    <2>1. /\ <<pc[c], pc'[c]>> \in {<<"prepared", "refused">>, <<"closing", "closed">>}
          /\ \A d \in Callers : d # c => pc'[d] = pc[d]
          /\ pc' \in [Callers -> {"idle", "located", "issued", "prepared", "live", "refused",
                                  "failed", "closing", "closed"}]
      BY <1>11, GotoStep DEF Cap!OpenFails, Cap!Closed
    <2>2. launches' = [launches EXCEPT ![c] = None] /\ UNCHANGED <<now, location, spent, contexts, processes>>
      BY <1>11 DEF Cap!OpenFails, Cap!Closed, Cap!RevokeLaunch
    <2>3. /\ \A d \in Callers : launches'[d] = IF d = c THEN None ELSE launches[d]
          /\ launches' \in [Callers -> [expires : Nat, active : BOOLEAN] \cup {None}]
      BY <1>1, <2>2
    <2> QED
      BY <1>1, <1>2, <1>3, <1>4, <1>5, <1>6, <2>1, <2>2, <2>3
  <1>12. CASE Cap!Refuse(c) \/ Cap!Dispose(c)
    <2>1. /\ <<pc[c], pc'[c]>> \in {<<"refused", "failed">>, <<"live", "closing">>}
          /\ \A d \in Callers : d # c => pc'[d] = pc[d]
          /\ pc' \in [Callers -> {"idle", "located", "issued", "prepared", "live", "refused",
                                  "failed", "closing", "closed"}]
      BY <1>12, GotoStep DEF Cap!Refuse, Cap!Dispose
    <2>2. contexts' = contexts \ {c} /\ UNCHANGED <<now, location, spent, launches, processes>>
      BY <1>12 DEF Cap!Refuse, Cap!Dispose
    <2> QED
      BY <1>1, <1>2, <1>3, <1>4, <1>5, <1>6, <2>1, <2>2
  <1> QED
    BY <1>8, <1>9, <1>10, <1>11, <1>12 DEF OpenStep

(* The relay: a process runs only beside a launch that is active or has gone. *)
LEMMA RelayStep ==
  ASSUME CapInv, NEW c \in Callers, Cap!Acquire(c) \/ Cap!Release(c)
  PROVE  CapInv'
  <1>0. TTL \in Nat /\ now \in Nat
    BY ServicesAssumption DEF CapInv, CapTyped, Cap!TypeOK
  <1>1. /\ launches \in [Callers -> [expires : Nat, active : BOOLEAN] \cup {None}]
        /\ processes \in [Callers -> 0..1]
    BY DEF CapInv, CapTyped, Cap!TypeOK
  <1>2. UNCHANGED <<now, location, spent, pc, contexts>>
    BY DEF Cap!Acquire, Cap!Release
  <1>3. ASSUME launches' \in [Callers -> [expires : Nat, active : BOOLEAN] \cup {None}],
               processes' \in [Callers -> 0..1],
               \A d \in Callers : d # c => launches'[d] = launches[d] /\ processes'[d] = processes[d],
               launches'[c] # None => launches[c] # None,
               processes'[c] > 0 => processes[c] > 0 \/ launches[c] # None,
               processes'[c] > 0 => launches'[c] = None \/ launches'[c].active
        PROVE  CapInv'
    <2>1. CapTyped'
      BY <1>2, <1>3 DEF CapInv, CapTyped, Cap!TypeOK
    <2>2. CapPlaces'
      BY <1>2, <1>3 DEF CapInv, CapPlaces
    <2>3. Cap!OneProcess'
      BY <1>3 DEF CapInv, Cap!OneProcess
    <2> QED
      BY <2>1, <2>2, <2>3 DEF CapInv
  <1>4. processes[c] > 0 => launches[c] = None \/ launches[c].active
    BY DEF CapInv, Cap!OneProcess
  <1>5. CASE Cap!Acquire(c) /\ Cap!Acquirable(c)
    <2>1. /\ launches[c] # None /\ ~launches[c].active
          /\ launches' = [launches EXCEPT ![c].active = TRUE]
          /\ processes' = [processes EXCEPT ![c] = @ + 1]
      BY <1>5 DEF Cap!Acquire, Cap!Acquirable
    <2>2. launches[c] \in [expires : Nat, active : BOOLEAN] /\ processes[c] = 0
      BY <1>1, <1>4, <2>1
    <2>3. /\ launches'[c] = [launches[c] EXCEPT !.active = TRUE]
          /\ launches'[c] \in [expires : Nat, active : BOOLEAN] /\ launches'[c].active
          /\ \A d \in Callers : d # c => launches'[d] = launches[d]
      BY <1>1, <2>1, <2>2
    <2>4. processes' \in [Callers -> 0..1] /\ \A d \in Callers : d # c => processes'[d] = processes[d]
      BY <1>1, <2>1, <2>2
    <2>5. launches' \in [Callers -> [expires : Nat, active : BOOLEAN] \cup {None}]
      BY <1>1, <2>1, <2>2
    <2> QED
      BY <1>3, <2>1, <2>3, <2>4, <2>5
  <1>6. CASE Cap!Acquire(c) /\ ~Cap!Acquirable(c)
    <2>1. /\ launches' = [launches EXCEPT ![c] = IF now > @.expires THEN None ELSE @]
          /\ processes' = processes /\ launches[c] # None
      BY <1>6 DEF Cap!Acquire
    <2>2. /\ launches'[c] \in {None, launches[c]}
          /\ \A d \in Callers : d # c => launches'[d] = launches[d]
          /\ launches' \in [Callers -> [expires : Nat, active : BOOLEAN] \cup {None}]
      BY <1>1, <2>1
    <2> QED
      BY <1>1, <1>3, <1>4, <2>1, <2>2
  <1>7. CASE Cap!Release(c)
    <2>1. /\ processes' = [processes EXCEPT ![c] = @ - 1] /\ processes[c] > 0
          /\ launches' = [launches EXCEPT ![c] =
               IF @ = None THEN None ELSE [expires |-> now + TTL, active |-> FALSE]]
      BY <1>7 DEF Cap!Release
    <2>2. processes'[c] = 0 /\ processes' \in [Callers -> 0..1]
      BY <1>1, <2>1
    <2>3. /\ launches' \in [Callers -> [expires : Nat, active : BOOLEAN] \cup {None}]
          /\ launches'[c] # None => launches[c] # None
          /\ \A d \in Callers : d # c => launches'[d] = launches[d]
      BY <1>0, <1>1, <2>1
    <2>4. \A d \in Callers : d # c => processes'[d] = processes[d]
      BY <1>1, <2>1
    <2> QED
      BY <1>3, <2>2, <2>3, <2>4
  <1> QED
    BY <1>5, <1>6, <1>7

LEMMA CapNext ==
  ASSUME CapInv, Cap!Next
  PROVE  CapInv'
  <1>1. CASE Cap!Tick
    <2>1. now' \in 0..MaxTime /\ UNCHANGED <<location, spent, pc, contexts, launches, processes>>
      BY <1>1, ServicesAssumption DEF Cap!Tick, CapInv, CapTyped, Cap!TypeOK
    <2> QED
      BY <2>1 DEF CapInv, CapTyped, Cap!TypeOK, CapPlaces, Cap!OneProcess
  <1>2. ASSUME NEW l \in Locations, NEW w \in Directories,
               Cap!RegisterLocation(l, w) \/ \E c \in Callers : Cap!Consume(c, l, w)
        PROVE  CapInv'
    BY <1>2, LocationStep
  <1>3. ASSUME NEW c \in Callers, OpenStep(c) \/ Cap!Acquire(c) \/ Cap!Release(c) PROVE CapInv'
    BY <1>3, ChatStep, RelayStep
  <1> QED
    BY <1>1, <1>2, <1>3 DEF Cap!Next, OpenStep

LEMMA CapStutter ==
  ASSUME CapInv, UNCHANGED capVars
  PROVE  CapInv'
  BY DEF capVars, CapInv, CapTyped, Cap!TypeOK, CapPlaces, Cap!OneProcess

LEMMA CapHolds ==
  ASSUME CapInv
  PROVE  Cap!ContextsOwned /\ Cap!LaunchesOwned /\ Cap!LocationUsedOnce /\ Cap!OneProcess
  <1>1. Cap!ContextsOwned /\ Cap!LaunchesOwned
    BY DEF CapInv, CapPlaces, Cap!ContextsOwned, Cap!LaunchesOwned, Cap!Over
  <1>2. ASSUME NEW l \in Locations PROVE Cap!Cardinality(spent[l]) <= 1
    <2>0. Cap!Cardinality(spent[l]) = Cardinality(spent[l])
      BY DEF Cap!Cardinality, Cardinality
    <2>1. CASE spent[l] = {}
      BY <2>0, <2>1, FS_EmptySet
    <2>2. ASSUME NEW c \in spent[l] PROVE Cap!Cardinality(spent[l]) <= 1
      <3>1. spent[l] = {c}
        BY DEF CapInv, CapPlaces
      <3>2. Cardinality({c}) = 1
        BY FS_Singleton
      <3> QED
        BY <2>0, <3>1, <3>2
    <2> QED
      BY <2>1, <2>2
  <1> QED
    BY <1>1, <1>2 DEF CapInv, Cap!LocationUsedOnce

-----------------------------------------------------------------------------
(* Attachments.                                                              *)

SendRequests == [n : Nat, chat : Screens, files : SUBSET Names, got : SUBSET Names,
                 at : {"take", "deliver", "accepted", "refused"}]

FileTyped ==
  /\ shown \in Screens /\ listed \in SUBSET Names /\ sent \in Nat
  /\ batch \in [chat : Screens, todo : SUBSET Names, done : SUBSET Names, failed : SUBSET Names]
  /\ kept \in [Screens -> SUBSET Names]
  /\ uploaded \in SUBSET [file : Names, chat : Screens]
  /\ deletes \in SUBSET [file : Names, chat : Screens]
  /\ sends \in SUBSET SendRequests

Taken(s) == s.at \in {"deliver", "accepted"}
InBatch == batch.todo \cup batch.done
Uploaded(f, c) == [file |-> f, chat |-> c] \in uploaded

(* Every file that is somewhere was uploaded, to one chat.                   *)
FilesKnown ==
  /\ \A f \in Names : \A c, d \in Screens : Uploaded(f, c) /\ Uploaded(f, d) => c = d
  /\ \A f \in InBatch : Uploaded(f, batch.chat)
  /\ \A c \in Screens : \A f \in kept[c] : Uploaded(f, c)
  /\ \A f \in listed : \E c \in Screens : Uploaded(f, c)
  /\ \A s \in sends : \A f \in s.files : \E c \in Screens : Uploaded(f, c)
  /\ \A d \in deletes : \E c \in Screens : Uploaded(d.file, c)
  /\ \A s \in sends : Taken(s) => \A f \in s.files : Uploaded(f, s.chat)

(* A file is in one place: in a batch, with the chat, or in the one message that has
   taken it.                                                                 *)
BatchApart ==
  /\ \A f \in InBatch : /\ f \notin listed
                        /\ \A s \in sends : f \notin s.files
                        /\ \A d \in deletes : f # d.file
                        /\ \A m \in messages : f \notin m.files
  /\ \A f \in batch.todo : \A c \in Screens : f \notin kept[c]
  /\ ~strayed => \A f \in batch.done : f \in kept[batch.chat]
SendsApart ==
  /\ \A s \in sends : Taken(s) => \A c \in Screens : s.files \cap kept[c] = {}
  /\ \A s \in sends : s.at = "deliver" => s.got = s.files /\ \A m \in messages : m.files \cap s.files = {}
  /\ \A s, r \in sends : s.at = "deliver" /\ r.at = "deliver" /\ s # r => s.files \cap r.files = {}
MessagesApart == \A m \in messages : \A c \in Screens : m.files \cap kept[c] = {}
DeletesApart == \A d \in deletes : d.file \notin listed
FilesApart == BatchApart /\ SendsApart /\ MessagesApart /\ DeletesApart

ListedOf(c) == IF c = shown THEN listed ELSE {}

(* Until something strays, what a chat keeps and what the browser lists of it differ
   by what is on its way.                                                    *)
Accounted ==
  ~strayed => \A c \in Screens :
    /\ \A f \in kept[c] : \/ f \in ListedOf(c) \/ [file |-> f, chat |-> c] \in deletes
                          \/ batch.chat = c /\ f \in batch.done \cup batch.failed
    /\ \A f \in ListedOf(c) : f \in kept[c] \/ \E s \in sends : Taken(s) /\ f \in s.files

FileInv == FileTyped /\ FilesKnown /\ FilesApart /\ Files!MessagesWhole /\ Accounted

LEMMA FileInit == Files!Init => FileInv
  <1> SUFFICES ASSUME Files!Init PROVE FileInv
    OBVIOUS
  <1>1. Files!NoBatch.chat \in Screens /\ Files!NoBatch.todo = {} /\ Files!NoBatch.done = {} /\ Files!NoBatch.failed = {}
        /\ Files!NoBatch \in [chat : Screens, todo : SUBSET Names, done : SUBSET Names, failed : SUBSET Names]
    BY ServicesAssumption DEF Files!NoBatch
  <1>2. FileTyped
    BY <1>1 DEF Files!Init, FileTyped
  <1>3. FilesKnown
    BY <1>1 DEF Files!Init, FilesKnown, InBatch, Uploaded
  <1>4. FilesApart
    BY <1>1 DEF Files!Init, FilesApart, BatchApart, SendsApart, MessagesApart, DeletesApart, InBatch
  <1>5. Files!MessagesWhole
    BY DEF Files!Init, Files!MessagesWhole
  <1>6. Accounted
    BY DEF Files!Init, Accounted, ListedOf
  <1> QED
    BY <1>2, <1>3, <1>4, <1>5, <1>6 DEF FileInv

LEMMA NoBatchFacts ==
  /\ Files!NoBatch.todo = {} /\ Files!NoBatch.done = {} /\ Files!NoBatch.failed = {}
  /\ Files!NoBatch \in [chat : Screens, todo : SUBSET Names, done : SUBSET Names, failed : SUBSET Names]
  BY ServicesAssumption DEF Files!NoBatch

\* The browser adds a file to a batch, with the chat's limit in view.
LEMMA AddKeeps ==
  ASSUME FileInv, NEW picked \in SUBSET Names, Files!Add(picked)
  PROVE  FileInv'
  <1>0. FileTyped /\ FilesKnown /\ FilesApart /\ Files!MessagesWhole /\ Accounted
    BY DEF FileInv
  <1>1. /\ picked # {} /\ \A f \in picked : \A c \in Screens : ~Uploaded(f, c)
        /\ batch' = [chat |-> shown, todo |-> picked, done |-> {}, failed |-> {}]
        /\ uploaded' = uploaded \cup {[file |-> f, chat |-> shown] : f \in picked}
        /\ batch.todo = {} /\ batch.done = {} /\ batch.failed = {}
        /\ UNCHANGED <<shown, listed, deletes, sends, kept, messages, strayed, sent>>
    <2>1. picked # {} /\ picked \cap Files!Picked = {} /\ batch = Files!NoBatch
      BY DEF Files!Add
    <2>2. \A f \in picked : \A c \in Screens : ~Uploaded(f, c)
      BY <2>1 DEF Files!Picked, Uploaded
    <2> QED
      BY <1>0, <2>1, <2>2, NoBatchFacts DEF Files!Add, Files!serverVars, FileTyped
  <1>2. batch'.chat = shown /\ batch'.todo = picked /\ batch'.done = {} /\ shown \in Screens
    BY <1>0, <1>1 DEF FileTyped
  <1>3. \A f \in Names : \A c \in Screens : Uploaded(f, c)' <=> Uploaded(f, c) \/ (f \in picked /\ c = shown)
    <2>1. uploaded' = uploaded \cup {[file |-> f, chat |-> shown] : f \in picked}
      BY <1>1
    <2> QED
      BY <2>1 DEF Uploaded
  <1>4. FileTyped'
    <2>1. batch' # Files!NoBatch
      BY <1>1, NoBatchFacts
    <2>2. Files!NoBatch' = Files!NoBatch
      BY DEF Files!NoBatch
    <2> QED
      BY <1>0, <1>1, <1>2, <2>1, <2>2 DEF FileTyped
  <1>5. FilesKnown'
    <2>1. \A f \in Names : \A c, d \in Screens : Uploaded(f, c)' /\ Uploaded(f, d)' => c = d
      BY <1>0, <1>1, <1>3 DEF FilesKnown
    <2>2. \A f \in InBatch' : Uploaded(f, batch.chat)'
      BY <1>2, <1>3 DEF InBatch
    <2>3. \A s \in sends' : s.files \in SUBSET Names /\ s.chat \in Screens
      BY <1>0, <1>1 DEF FileTyped, SendRequests
    <2>4. \A d \in deletes' : d.file \in Names
      BY <1>0, <1>1 DEF FileTyped
    <2>5. \A c \in Screens : \A f \in kept'[c] : Uploaded(f, c)'
      BY <1>0, <1>1, <1>3 DEF FilesKnown, FileTyped
    <2>6. \A f \in listed' : \E c \in Screens : Uploaded(f, c)'
      BY <1>0, <1>1, <1>3 DEF FilesKnown, FileTyped
    <2>7. \A s \in sends' : \A f \in s.files : \E c \in Screens : Uploaded(f, c)'
      BY <1>0, <1>1, <1>3, <2>3 DEF FilesKnown
    <2>8. \A d \in deletes' : \E c \in Screens : Uploaded(d.file, c)'
      BY <1>0, <1>1, <1>3, <2>4 DEF FilesKnown
    <2>9. \A s \in sends' : Taken(s) => \A f \in s.files : Uploaded(f, s.chat)'
      BY <1>0, <1>1, <1>3, <2>3 DEF FilesKnown
    <2> QED
      BY <2>1, <2>2, <2>5, <2>6, <2>7, <2>8, <2>9 DEF FilesKnown
  <1>6. FilesApart'
    <2>1. \A f \in picked : /\ f \notin listed
                            /\ \A s \in sends : f \notin s.files
                            /\ \A d \in deletes : f # d.file
                            /\ \A c \in Screens : f \notin kept[c]
      BY <1>0, <1>1 DEF FilesKnown
    <2>2. \A f \in picked : \A m \in messages : f \notin m.files
      <3>1. \A m \in messages : \A f \in m.files : [file |-> f, chat |-> m.chat] \in uploaded
        BY <1>0 DEF Files!MessagesWhole
      <3>2. \A m \in messages : \A f \in m.files : m.chat \in Screens /\ Uploaded(f, m.chat)
        <4> SUFFICES ASSUME NEW m \in messages, NEW f \in m.files PROVE m.chat \in Screens /\ Uploaded(f, m.chat)
          OBVIOUS
        <4>1. [file |-> f, chat |-> m.chat] \in [file : Names, chat : Screens]
          BY <1>0, <3>1 DEF FileTyped
        <4> QED
          BY <3>1, <4>1 DEF Uploaded
      <3> QED
        BY <1>1, <3>2
    <2>3. InBatch' = picked
      BY <1>2 DEF InBatch
    <2>4. \A f \in InBatch' : /\ f \notin listed'
                              /\ \A s \in sends' : f \notin s.files
                              /\ \A d \in deletes' : f # d.file
                              /\ \A m \in messages' : f \notin m.files
      BY <1>1, <2>1, <2>2, <2>3
    <2>5. UNCHANGED <<listed, deletes, sends, kept, messages>>
      BY <1>1
    <2>6. \A f \in batch'.todo : \A c \in Screens : f \notin kept'[c]
      BY <1>2, <2>1, <2>5
    <2>7. ~strayed' => \A f \in batch'.done : f \in kept'[batch'.chat]
      BY <1>2
    <2>8. BatchApart'
      BY <2>4, <2>6, <2>7 DEF BatchApart
    <2>9. SendsApart' /\ MessagesApart' /\ DeletesApart'
      BY <1>0, <2>5 DEF FilesApart, SendsApart, MessagesApart, DeletesApart, Taken
    <2> QED
      BY <2>8, <2>9 DEF FilesApart
  <1>7. Files!MessagesWhole'
    BY <1>0, <1>1 DEF Files!MessagesWhole
  <1>8. Accounted'
    BY <1>0, <1>1, <1>2 DEF Accounted, ListedOf
  <1> QED
    BY <1>4, <1>5, <1>6, <1>7, <1>8 DEF FileInv


LEMMA StoreKeeps ==
  ASSUME FileInv, NEW f, Files!Store(f)
  PROVE  FileInv'
  <1>0. FileTyped /\ FilesKnown /\ FilesApart /\ Files!MessagesWhole /\ Accounted
    BY DEF FileInv
  <1>1. /\ f \in batch.todo /\ batch.chat \in Screens /\ f \in Names /\ f \in InBatch
        /\ batch.todo \in SUBSET Names /\ batch.done \in SUBSET Names /\ batch.failed \in SUBSET Names
        /\ kept \in [Screens -> SUBSET Names]
    BY <1>0 DEF FileTyped, Files!Store, InBatch
  <1>2. UNCHANGED <<shown, listed, deletes, sends, uploaded, messages, strayed, sent>>
    BY DEF Files!Store
  <1>3. /\ batch' \in [chat : Screens, todo : SUBSET Names, done : SUBSET Names, failed : SUBSET Names]
        /\ batch'.chat = batch.chat /\ batch'.todo = batch.todo \ {f}
        /\ \/ /\ batch'.done = batch.done \cup {f} /\ batch'.failed = batch.failed
              /\ kept' = [kept EXCEPT ![batch.chat] = @ \cup {f}]
           \/ /\ batch'.done = batch.done /\ batch'.failed = batch.failed \cup {f}
              /\ kept' = [kept EXCEPT ![batch.chat] = @ \cup {f}] \/ kept' = kept
    <2>1. batch \in [chat : Screens, todo : SUBSET Names, done : SUBSET Names, failed : SUBSET Names]
      BY <1>0 DEF FileTyped
    <2>2. CASE Files!Answered(f) /\ kept' = [kept EXCEPT ![batch.chat] = @ \cup {f}]
      BY <1>1, <2>1, <2>2 DEF Files!Answered
    <2>3. CASE Files!Failed(f) /\ (kept' = [kept EXCEPT ![batch.chat] = @ \cup {f}] \/ kept' = kept)
      <3>1. batch' = [batch EXCEPT !.todo = @ \ {f}, !.failed = @ \cup {f}]
        BY <2>3 DEF Files!Failed
      <3>2. /\ batch' \in [chat : Screens, todo : SUBSET Names, done : SUBSET Names, failed : SUBSET Names]
            /\ batch'.chat = batch.chat /\ batch'.todo = batch.todo \ {f}
            /\ batch'.done = batch.done /\ batch'.failed = batch.failed \cup {f}
        BY <1>1, <2>1, <3>1
      <3> QED
        BY <2>3, <3>2
    <2> QED
      BY <2>2, <2>3 DEF Files!Store
  <1>5. /\ kept' \in [Screens -> SUBSET Names]
        /\ \A c \in Screens : kept[c] \subseteq kept'[c]
        /\ \A c \in Screens : \A g \in kept'[c] : g \in kept[c] \/ (c = batch.chat /\ g = f)
        /\ batch.done \cup batch.failed \subseteq batch'.done \cup batch'.failed
        /\ f \in batch'.done \cup batch'.failed
    BY <1>1, <1>3
  <1>4. ~strayed => \A g \in batch'.done : g \in kept'[batch.chat]
    <2> SUFFICES ASSUME ~strayed, NEW g \in batch'.done PROVE g \in kept'[batch.chat]
      OBVIOUS
    <2>1. \A h \in batch.done : h \in kept'[batch.chat]
      BY <1>0, <1>1, <1>5 DEF FilesApart, BatchApart
    <2>2. CASE batch'.done = batch.done \cup {f} /\ kept' = [kept EXCEPT ![batch.chat] = @ \cup {f}]
      BY <1>1, <2>1, <2>2, <1>5
    <2>3. CASE batch'.done = batch.done
      BY <2>1, <2>3
    <2> QED
      BY <1>3, <2>2, <2>3
  <1>6. FileTyped'
    BY <1>0, <1>2, <1>3, <1>5 DEF FileTyped
  <1>7. InBatch' \subseteq InBatch
    BY <1>1, <1>3, <1>5 DEF InBatch
  <1>8. FilesKnown'
    <2>1. \A g \in InBatch' : Uploaded(g, batch.chat)'
      BY <1>0, <1>2, <1>3, <1>7 DEF FilesKnown, Uploaded
    <2>2. \A c \in Screens : \A g \in kept'[c] : Uploaded(g, c)'
      <3>1. Uploaded(f, batch.chat) /\ \A c \in Screens : \A g \in kept[c] : Uploaded(g, c)
        BY <1>0, <1>1 DEF FilesKnown
      <3> QED
        BY <1>2, <1>5, <3>1 DEF Uploaded
    <2> QED
      BY <1>0, <1>2, <2>1, <2>2 DEF FilesKnown, Uploaded, Taken
  <1>9. BatchApart'
    <2>1. \A g \in InBatch' : /\ g \notin listed'
                              /\ \A s \in sends' : g \notin s.files
                              /\ \A d \in deletes' : g # d.file
                              /\ \A m \in messages' : g \notin m.files
      BY <1>0, <1>2, <1>7 DEF FilesApart, BatchApart
    <2>2. \A g \in batch'.todo : \A c \in Screens : g \notin kept'[c]
      BY <1>0, <1>1, <1>3, <1>5 DEF FilesApart, BatchApart
    <2>3. ~strayed' => \A g \in batch'.done : g \in kept'[batch'.chat]
      BY <1>2, <1>3, <1>4
    <2> QED
      BY <2>1, <2>2, <2>3 DEF BatchApart
  <1>10. \A s \in sends : f \notin s.files
    BY <1>0, <1>1 DEF FilesApart, BatchApart
  <1>11. \A m \in messages : f \notin m.files
    BY <1>0, <1>1 DEF FilesApart, BatchApart
  <1>12. \A c \in Screens : kept'[c] \subseteq kept[c] \cup {f}
    BY <1>1, <1>5
  <1>13. SendsApart'
    <2>1. \A s \in sends : Taken(s) => \A c \in Screens : s.files \cap kept'[c] = {}
      BY <1>0, <1>10, <1>12 DEF FilesApart, SendsApart
    <2> QED
      BY <1>0, <1>2, <2>1 DEF FilesApart, SendsApart, Taken
  <1>14. MessagesApart' /\ DeletesApart'
    <2>1. \A m \in messages : \A c \in Screens : m.files \cap kept'[c] = {}
      BY <1>0, <1>11, <1>12 DEF FilesApart, MessagesApart
    <2> QED
      BY <1>0, <1>2, <2>1 DEF FilesApart, MessagesApart, DeletesApart
  <1>15. Files!MessagesWhole'
    BY <1>0, <1>2 DEF Files!MessagesWhole
  <1>16. Accounted'
    <2> SUFFICES ASSUME ~strayed, NEW c \in Screens
                 PROVE  /\ \A g \in kept'[c] : \/ g \in ListedOf(c) \/ [file |-> g, chat |-> c] \in deletes
                                               \/ batch'.chat = c /\ g \in batch'.done \cup batch'.failed
                        /\ \A g \in ListedOf(c) : g \in kept'[c] \/ \E s \in sends : Taken(s) /\ g \in s.files
      BY <1>2 DEF Accounted, ListedOf, Taken
    <2>1. /\ \A g \in kept[c] : \/ g \in ListedOf(c) \/ [file |-> g, chat |-> c] \in deletes
                                \/ batch.chat = c /\ g \in batch.done \cup batch.failed
          /\ \A g \in ListedOf(c) : g \in kept[c] \/ \E s \in sends : Taken(s) /\ g \in s.files
      BY <1>0 DEF Accounted
    <2> QED
      BY <1>3, <1>5, <2>1
  <1> QED
    BY <1>6, <1>8, <1>9, <1>13, <1>14, <1>15, <1>16 DEF FileInv, FilesApart

LEMMA BatchEndsKeeps ==
  ASSUME FileInv, Files!BatchEnds
  PROVE  FileInv'
  <1>0. FileTyped /\ FilesKnown /\ FilesApart /\ Files!MessagesWhole /\ Accounted
    BY DEF FileInv
  <1>1. /\ UNCHANGED <<shown, deletes, sends, kept, uploaded, messages, sent>>
        /\ batch.todo = {} /\ batch' = Files!NoBatch
    BY DEF Files!BatchEnds, Files!serverVars
  <1>2. /\ batch'.todo = {} /\ batch'.done = {} /\ batch'.failed = {}
        /\ batch' \in [chat : Screens, todo : SUBSET Names, done : SUBSET Names, failed : SUBSET Names]
    BY <1>1, NoBatchFacts
  <1>3. /\ listed' = IF batch.failed = {} THEN listed \cup batch.done ELSE listed
        /\ strayed' = (strayed \/ batch.failed # {} \/ batch.chat # shown)
    BY DEF Files!BatchEnds
  <1>4. listed \subseteq listed' /\ listed' \subseteq listed \cup batch.done
    BY <1>3
  <1>5. InBatch' = {} /\ batch.done \subseteq InBatch /\ batch.chat \in Screens
    BY <1>0, <1>2 DEF InBatch, FileTyped
  <1>6. FileTyped'
    BY <1>0, <1>1, <1>2, <1>4 DEF FileTyped
  <1>7. FilesKnown'
    <2>1. \A f \in listed' : \E c \in Screens : Uploaded(f, c)
      BY <1>0, <1>4, <1>5 DEF FilesKnown
    <2> QED
      BY <1>0, <1>1, <1>5, <2>1 DEF FilesKnown, Uploaded, Taken
  <1>8. BatchApart'
    BY <1>2, <1>5 DEF BatchApart
  <1>9. SendsApart' /\ MessagesApart'
    BY <1>0, <1>1 DEF FilesApart, SendsApart, MessagesApart, Taken
  <1>10. DeletesApart'
    <2>1. \A d \in deletes : d.file \notin batch.done
      BY <1>0, <1>5 DEF FilesApart, BatchApart
    <2> QED
      BY <1>0, <1>1, <1>4, <2>1 DEF FilesApart, DeletesApart
  <1>11. Files!MessagesWhole'
    BY <1>0, <1>1 DEF Files!MessagesWhole
  <1>12. Accounted'
    <2> SUFFICES ASSUME ~strayed', NEW c \in Screens
                 PROVE  /\ \A f \in kept[c] : f \in ListedOf(c)' \/ [file |-> f, chat |-> c] \in deletes
                        /\ \A f \in ListedOf(c)' : f \in kept[c] \/ \E s \in sends : Taken(s) /\ f \in s.files
      BY <1>1 DEF Accounted, Taken
    <2>1. ~strayed /\ batch.failed = {} /\ batch.chat = shown
      BY <1>3
    <2>2. listed' = listed \cup batch.done
      BY <1>3, <2>1
    <2>3. ListedOf(c)' = IF c = shown THEN listed \cup batch.done ELSE {}
      BY <1>1, <2>2 DEF ListedOf
    <2>4. \A f \in batch.done : f \in kept[shown]
      BY <1>0, <2>1 DEF FilesApart, BatchApart
    <2> QED
      BY <1>0, <2>1, <2>3, <2>4 DEF Accounted, ListedOf
  <1> QED
    BY <1>6, <1>7, <1>8, <1>9, <1>10, <1>11, <1>12 DEF FileInv, FilesApart

LEMMA RemoveKeeps ==
  ASSUME FileInv, NEW f, Files!Remove(f)
  PROVE  FileInv'
  <1>0. FileTyped /\ FilesKnown /\ FilesApart /\ Files!MessagesWhole /\ Accounted
    BY DEF FileInv
  <1>1. /\ UNCHANGED <<shown, batch, sends, kept, uploaded, messages, strayed, sent>>
        /\ f \in listed /\ listed' = listed \ {f}
        /\ deletes' = deletes \cup {[file |-> f, chat |-> shown]}
    BY DEF Files!Remove, Files!serverVars
  <1>2. f \in Names /\ shown \in Screens
    BY <1>0, <1>1 DEF FileTyped
  <1>3. FileTyped'
    BY <1>0, <1>1, <1>2 DEF FileTyped
  <1>4. \A d \in deletes' : d \in deletes \/ d.file = f
    BY <1>1
  <1>5. FilesKnown'
    <2>1. \A d \in deletes' : \E c \in Screens : Uploaded(d.file, c)
      BY <1>0, <1>1, <1>4 DEF FilesKnown
    <2> QED
      BY <1>0, <1>1, <2>1 DEF FilesKnown, Uploaded, Taken, InBatch
  <1>6. BatchApart'
    <2>1. InBatch' = InBatch
      BY <1>1 DEF InBatch
    <2>2. \A g \in InBatch : g \notin listed' /\ \A d \in deletes' : g # d.file
      BY <1>0, <1>1, <1>4 DEF FilesApart, BatchApart
    <2> QED
      BY <1>0, <1>1, <2>1, <2>2 DEF FilesApart, BatchApart
  <1>7. SendsApart' /\ MessagesApart'
    BY <1>0, <1>1 DEF FilesApart, SendsApart, MessagesApart, Taken
  <1>8. DeletesApart'
    BY <1>0, <1>1, <1>4 DEF FilesApart, DeletesApart
  <1>9. Files!MessagesWhole'
    BY <1>0, <1>1 DEF Files!MessagesWhole
  <1>10. Accounted'
    BY <1>0, <1>1 DEF Accounted, ListedOf, Taken
  <1> QED
    BY <1>3, <1>5, <1>6, <1>7, <1>8, <1>9, <1>10 DEF FileInv, FilesApart

LEMMA DeleteKeeps ==
  ASSUME FileInv, NEW d \in deletes, Files!Delete(d)
  PROVE  FileInv'
  <1>0. FileTyped /\ FilesKnown /\ FilesApart /\ Files!MessagesWhole /\ Accounted
    BY DEF FileInv
  <1>1. /\ UNCHANGED <<shown, listed, batch, sends, uploaded, messages, sent>>
        /\ deletes' = deletes \ {d}
        /\ \/ kept' = [kept EXCEPT ![d.chat] = @ \ {d.file}] /\ strayed' = strayed
           \/ kept' = kept /\ strayed' = (strayed \/ d.file \in kept[d.chat])
    BY DEF Files!Delete
  <1>2. d.chat \in Screens /\ d.file \in Names /\ kept \in [Screens -> SUBSET Names]
    BY <1>0 DEF FileTyped
  <1>3. /\ kept' \in [Screens -> SUBSET Names]
        /\ \A c \in Screens : kept'[c] \subseteq kept[c] /\ \A g \in kept[c] : g # d.file => g \in kept'[c]
        /\ ~strayed' => ~strayed /\ d.file \notin kept'[d.chat]
    <2>1. CASE kept' = [kept EXCEPT ![d.chat] = @ \ {d.file}] /\ strayed' = strayed
      BY <1>2, <2>1
    <2>2. CASE kept' = kept /\ strayed' = (strayed \/ d.file \in kept[d.chat])
      BY <1>2, <2>2
    <2> QED
      BY <1>1, <2>1, <2>2
  <1>4. \A c \in Screens : kept'[c] \subseteq kept[c] /\ \A g \in kept[c] : g # d.file => g \in kept'[c]
    BY <1>3
  <1>5. FileTyped'
    BY <1>0, <1>1, <1>3 DEF FileTyped
  <1>6. FilesKnown'
    <2>1. \A c \in Screens : \A f \in kept'[c] : Uploaded(f, c)
      BY <1>0, <1>4 DEF FilesKnown
    <2> QED
      BY <1>0, <1>1, <2>1 DEF FilesKnown, Uploaded, Taken, InBatch
  <1>7. BatchApart'
    <2>1. InBatch' = InBatch
      BY <1>1 DEF InBatch
    <2>2. \A g \in batch.todo : \A c \in Screens : g \notin kept'[c]
      BY <1>0, <1>4 DEF FilesApart, BatchApart
    <2>3. ~strayed' => \A g \in batch.done : g \in kept'[batch.chat]
      <3>1. \A g \in batch.done : g # d.file
        BY <1>0 DEF FilesApart, BatchApart, InBatch
      <3>2. batch.chat \in Screens
        BY <1>0 DEF FileTyped
      <3> QED
        BY <1>0, <1>1, <1>4, <3>1, <3>2 DEF FilesApart, BatchApart
    <2> QED
      BY <1>0, <1>1, <2>1, <2>2, <2>3 DEF FilesApart, BatchApart
  <1>8. SendsApart'
    <2>1. \A s \in sends : Taken(s) => \A c \in Screens : s.files \cap kept'[c] = {}
      BY <1>0, <1>4 DEF FilesApart, SendsApart
    <2> QED
      BY <1>0, <1>1, <2>1 DEF FilesApart, SendsApart, Taken
  <1>9. MessagesApart' /\ DeletesApart'
    <2>1. \A m \in messages : \A c \in Screens : m.files \cap kept'[c] = {}
      BY <1>0, <1>4 DEF FilesApart, MessagesApart
    <2> QED
      BY <1>0, <1>1, <2>1 DEF FilesApart, MessagesApart, DeletesApart
  <1>10. Files!MessagesWhole'
    BY <1>0, <1>1 DEF Files!MessagesWhole
  <1>11. Accounted'
    <2> SUFFICES ASSUME ~strayed', NEW c \in Screens
                 PROVE  /\ \A f \in kept'[c] : \/ f \in ListedOf(c) \/ [file |-> f, chat |-> c] \in deletes'
                                               \/ batch.chat = c /\ f \in batch.done \cup batch.failed
                        /\ \A f \in ListedOf(c) : f \in kept'[c] \/ \E s \in sends : Taken(s) /\ f \in s.files
      BY <1>1 DEF Accounted, ListedOf, Taken
    <2>1. \A f \in kept'[c] : [file |-> f, chat |-> c] # d
      BY <1>3
    <2>2. \A f \in ListedOf(c) : f # d.file
      BY <1>0 DEF FilesApart, DeletesApart, ListedOf
    <2> QED
      BY <1>0, <1>1, <1>4, <2>1, <2>2 DEF Accounted
  <1> QED
    BY <1>5, <1>6, <1>7, <1>8, <1>9, <1>10, <1>11 DEF FileInv, FilesApart

LEMMA SendKeeps ==
  ASSUME FileInv, Files!Send
  PROVE  FileInv'
  <1>0. FileTyped /\ FilesKnown /\ FilesApart /\ Files!MessagesWhole /\ Accounted
    BY DEF FileInv
  <1> DEFINE r == [n |-> sent, chat |-> shown, files |-> listed, got |-> {}, at |-> "take"]
  <1>1. /\ UNCHANGED <<shown, listed, batch, deletes, kept, uploaded, messages, strayed>>
        /\ sends' = sends \cup {r} /\ sent' = sent + 1 /\ batch = Files!NoBatch
    BY DEF Files!Send, Files!serverVars
  <1>2. r \in SendRequests /\ r.files = listed /\ ~Taken(r) /\ r.at # "deliver"
    BY <1>0 DEF FileTyped, SendRequests, Taken
  <1>3. sends' = sends \cup {r}
    BY <1>1
  <1> HIDE DEF r
  <1>4. FileTyped'
    BY <1>0, <1>1, <1>2 DEF FileTyped
  <1>5. InBatch = {} /\ InBatch' = {} /\ batch'.todo = {} /\ batch'.done = {}
    BY <1>1, NoBatchFacts DEF InBatch
  <1>6. FilesKnown'
    <2>1. \A s \in sends' : \A f \in s.files : \E c \in Screens : Uploaded(f, c)
      BY <1>0, <1>2, <1>3 DEF FilesKnown
    <2>2. \A s \in sends' : Taken(s) => \A f \in s.files : Uploaded(f, s.chat)
      BY <1>0, <1>2, <1>3 DEF FilesKnown
    <2> QED
      BY <1>0, <1>1, <1>5, <2>1, <2>2 DEF FilesKnown, Uploaded, Taken
  <1>7. BatchApart'
    BY <1>5 DEF BatchApart
  <1>8. SendsApart'
    <2>1. \A s \in sends' : Taken(s) \/ s.at = "deliver" => s \in sends
      BY <1>2, <1>3
    <2> QED
      BY <1>0, <1>1, <2>1 DEF FilesApart, SendsApart, Taken
  <1>9. MessagesApart' /\ DeletesApart'
    BY <1>0, <1>1 DEF FilesApart, MessagesApart, DeletesApart
  <1>10. Files!MessagesWhole'
    BY <1>0, <1>1 DEF Files!MessagesWhole
  <1>11. Accounted'
    BY <1>0, <1>1, <1>3 DEF Accounted, ListedOf, Taken
  <1> QED
    BY <1>4, <1>6, <1>7, <1>8, <1>9, <1>10, <1>11 DEF FileInv, FilesApart

(* Requests to send that are refused, or have ended, leave the rest alone: what the
   others name, and what they have taken, is as before.                      *)
LEMMA SameFiles ==
  ASSUME FileInv, FileTyped',
         UNCHANGED <<shown, listed, batch, deletes, kept, uploaded, messages, strayed>>,
         \A q \in sends' : \E p \in sends : q.files = p.files,
         \A q \in sends' : Taken(q) \/ q.at = "deliver" => q \in sends,
         \A q \in sends : Taken(q) => q \in sends'
  PROVE  FileInv'
  <1>0. FileTyped /\ FilesKnown /\ FilesApart /\ Files!MessagesWhole /\ Accounted
    BY DEF FileInv
  <1>1. FilesKnown'
    <2>1. \A q \in sends' : \A f \in q.files : \E c \in Screens : Uploaded(f, c)
      BY <1>0 DEF FilesKnown
    <2>2. \A q \in sends' : Taken(q) => \A f \in q.files : Uploaded(f, q.chat)
      BY <1>0 DEF FilesKnown
    <2> QED
      BY <1>0, <2>1, <2>2 DEF FilesKnown, Uploaded, Taken, InBatch
  <1>2. BatchApart'
    <2>1. \A f \in InBatch : \A q \in sends' : f \notin q.files
      BY <1>0 DEF FilesApart, BatchApart
    <2> QED
      BY <1>0, <2>1 DEF FilesApart, BatchApart, InBatch
  <1>3. SendsApart'
    BY <1>0 DEF FilesApart, SendsApart, Taken
  <1>4. MessagesApart' /\ DeletesApart'
    BY <1>0 DEF FilesApart, MessagesApart, DeletesApart
  <1>5. Files!MessagesWhole'
    BY <1>0 DEF Files!MessagesWhole
  <1>6. Accounted'
    BY <1>0 DEF Accounted, ListedOf, Taken
  <1> QED
    BY <1>1, <1>2, <1>3, <1>4, <1>5, <1>6 DEF FileInv, FilesApart

\* takeAttachments: all of the named files, or the request is refused.
LEMMA TakeKeeps ==
  ASSUME FileInv, NEW s \in sends, Files!TakeAttachments(s)
  PROVE  FileInv'
  <1>0. FileTyped /\ FilesKnown /\ FilesApart /\ Files!MessagesWhole /\ Accounted
    BY DEF FileInv
  <1>1. /\ UNCHANGED <<shown, listed, batch, deletes, uploaded, messages, strayed, sent>>
        /\ s.at = "take"
    BY DEF Files!TakeAttachments
  <1>2. ~Taken(s)
    BY <1>1 DEF Taken
  <1>3. /\ kept \in [Screens -> SUBSET Names] /\ \A q \in sends : q.chat \in Screens
        /\ s.chat \in Screens /\ s.files \in SUBSET Names
    BY <1>0 DEF FileTyped, SendRequests
  <1>4. ASSUME s.files \subseteq kept[s.chat],
               kept' = [kept EXCEPT ![s.chat] = @ \ s.files],
               sends' = (sends \ {s}) \cup {[s EXCEPT !.at = "deliver", !.got = s.files]}
        PROVE  FileInv'
    <2> DEFINE r == [s EXCEPT !.at = "deliver", !.got = s.files]
    <2>1. /\ r \in SendRequests /\ r.chat = s.chat /\ r.files = s.files /\ r.at = "deliver"
          /\ r.got = s.files
      <3>1. s \in SendRequests
        BY <1>0 DEF FileTyped
      <3> QED
        BY <3>1 DEF SendRequests
    <2>2. sends' = (sends \ {s}) \cup {r}
      BY <1>4
    <2> HIDE DEF r
    <2>3. \A c \in Screens : kept'[c] = IF c = s.chat THEN kept[c] \ s.files ELSE kept[c]
      BY <1>3, <1>4
    <2>4. \A c \in Screens : kept'[c] \subseteq kept[c]
      BY <2>3
    <2>5. \A f \in s.files : Uploaded(f, s.chat) /\ f \in kept[s.chat]
      BY <1>0, <1>3, <1>4 DEF FilesKnown
    <2>6. \A q \in sends' : q = r \/ (q \in sends /\ q # s)
      BY <2>2
    <2>7. FileTyped'
      <3>1. kept' \in [Screens -> SUBSET Names]
        BY <1>3, <1>4
      <3> QED
        BY <1>0, <1>1, <2>1, <2>2, <3>1 DEF FileTyped
    <2>8. FilesKnown'
      <3>1. \A q \in sends' : \A f \in q.files : \E c \in Screens : Uploaded(f, c)
        BY <1>0, <1>3, <2>1, <2>5, <2>6 DEF FilesKnown
      <3>2. \A q \in sends' : Taken(q) => \A f \in q.files : Uploaded(f, q.chat)
        BY <1>0, <2>1, <2>5, <2>6 DEF FilesKnown
      <3>3. \A c \in Screens : \A f \in kept'[c] : Uploaded(f, c)
        BY <1>0, <2>4 DEF FilesKnown
      <3> QED
        BY <1>0, <1>1, <3>1, <3>2, <3>3 DEF FilesKnown, Uploaded, Taken, InBatch
    <2>9. BatchApart'
      <3>1. InBatch' = InBatch
        BY <1>1 DEF InBatch
      <3>2. \A f \in InBatch : \A q \in sends' : f \notin q.files
        BY <1>0, <2>1, <2>6 DEF FilesApart, BatchApart
      <3>3. \A f \in batch.todo : \A c \in Screens : f \notin kept'[c]
        BY <1>0, <2>4 DEF FilesApart, BatchApart
      <3>4. \A f \in batch.done : f \notin s.files
        BY <1>0 DEF FilesApart, BatchApart, InBatch
      <3>5. ~strayed => \A f \in batch.done : f \in kept'[batch.chat]
        BY <1>0, <2>3, <3>4 DEF FilesApart, BatchApart, FileTyped
      <3> QED
        BY <1>0, <1>1, <3>1, <3>2, <3>3, <3>5 DEF FilesApart, BatchApart
    <2>10. SendsApart'
      <3>1. \A c \in Screens : r.files \cap kept'[c] = {}
        <4>1. \A c \in Screens : c # s.chat => r.files \cap kept[c] = {}
          BY <1>0, <1>3, <2>1, <2>5 DEF FilesKnown
        <4> QED
          BY <2>1, <2>3, <4>1
      <3>2. \A q \in sends' : Taken(q) => \A c \in Screens : q.files \cap kept'[c] = {}
        BY <1>0, <2>4, <2>6, <3>1 DEF FilesApart, SendsApart
      <3>3. \A m \in messages : m.files \cap r.files = {}
        BY <1>0, <1>3, <2>1, <2>5 DEF FilesApart, MessagesApart
      <3>4. \A q \in sends' : q.at = "deliver" => q.got = q.files /\ \A m \in messages : m.files \cap q.files = {}
        BY <1>0, <2>1, <2>6, <3>3 DEF FilesApart, SendsApart
      <3>5. \A q \in sends : q.at = "deliver" => q.files \cap r.files = {}
        <4>1. \A q \in sends : q.at = "deliver" => q.files \cap kept[s.chat] = {}
          BY <1>0, <1>3 DEF FilesApart, SendsApart, Taken
        <4> QED
          BY <2>1, <2>5, <4>1
      <3>6. \A p, q \in sends' : p.at = "deliver" /\ q.at = "deliver" /\ p # q => p.files \cap q.files = {}
        BY <1>0, <2>6, <3>5 DEF FilesApart, SendsApart
      <3> QED
        BY <1>1, <3>2, <3>4, <3>6 DEF SendsApart, Taken
    <2>11. MessagesApart' /\ DeletesApart'
      <3>1. \A m \in messages : \A c \in Screens : m.files \cap kept'[c] = {}
        BY <1>0, <2>4 DEF FilesApart, MessagesApart
      <3> QED
        BY <1>0, <1>1, <3>1 DEF FilesApart, MessagesApart, DeletesApart
    <2>12. Files!MessagesWhole'
      BY <1>0, <1>1 DEF Files!MessagesWhole
    <2>13. Accounted'
      <3> SUFFICES ASSUME ~strayed, NEW c \in Screens
                   PROVE  /\ \A f \in kept'[c] : \/ f \in ListedOf(c) \/ [file |-> f, chat |-> c] \in deletes
                                                 \/ batch.chat = c /\ f \in batch.done \cup batch.failed
                          /\ \A f \in ListedOf(c) : f \in kept'[c] \/ \E q \in sends' : Taken(q) /\ f \in q.files
        BY <1>1 DEF Accounted, ListedOf, Taken
      <3>1. Taken(r) /\ r \in sends'
        BY <2>1, <2>2 DEF Taken
      <3>2. \A f \in ListedOf(c) : f \in kept[c] => f \in kept'[c] \/ f \in r.files
        BY <2>1, <2>3
      <3>3. \A q \in sends : Taken(q) => q \in sends'
        BY <1>2, <2>2
      <3> QED
        BY <1>0, <2>4, <3>1, <3>2, <3>3 DEF Accounted
    <2> QED
      BY <2>7, <2>8, <2>9, <2>10, <2>11, <2>12, <2>13 DEF FileInv, FilesApart
  <1>5. ASSUME UNCHANGED kept, sends' = (sends \ {s}) \cup {[s EXCEPT !.at = "refused"]}
        PROVE  FileInv'
    <2> DEFINE r == [s EXCEPT !.at = "refused"]
    <2>1. r \in SendRequests /\ r.files = s.files /\ r.at = "refused"
      <3>1. s \in SendRequests
        BY <1>0 DEF FileTyped
      <3> QED
        BY <3>1 DEF SendRequests
    <2>2. sends' = (sends \ {s}) \cup {r}
      BY <1>5
    <2> HIDE DEF r
    <2>3. /\ \A q \in sends' : \E p \in sends : q.files = p.files
          /\ \A q \in sends' : Taken(q) \/ q.at = "deliver" => q \in sends
          /\ \A q \in sends : Taken(q) => q \in sends'
      BY <1>2, <2>1, <2>2 DEF Taken
    <2>4. FileTyped'
      BY <1>0, <1>1, <1>5, <2>1, <2>2 DEF FileTyped
    <2> QED
      BY <1>0, <1>1, <1>5, <2>3, <2>4, SameFiles
  <1> QED
    BY <1>4, <1>5 DEF Files!TakeAttachments, Files!Take

\* The message has the files that were taken.
LEMMA DeliverKeeps ==
  ASSUME FileInv, NEW s \in sends, Files!Deliver(s)
  PROVE  FileInv'
  <1>0. FileTyped /\ FilesKnown /\ FilesApart /\ Files!MessagesWhole /\ Accounted
    BY DEF FileInv
  <1>1. /\ UNCHANGED <<shown, listed, batch, deletes, kept, uploaded, sent>>
        /\ s.at = "deliver" /\ Taken(s)
    BY DEF Files!Deliver, Taken
  <1>2. s \in SendRequests /\ \A q \in sends : q.files \in SUBSET Names
    BY <1>0 DEF FileTyped, SendRequests
  <1>3. ASSUME NEW to \in {"accepted", "refused"}
        PROVE  [s EXCEPT !.at = to] \in SendRequests /\ [s EXCEPT !.at = to].files = s.files
               /\ [s EXCEPT !.at = to].chat = s.chat /\ [s EXCEPT !.at = to].at = to
    BY <1>2 DEF SendRequests
  <1>4. ASSUME messages' = messages \cup {[n |-> s.n, chat |-> s.chat, files |-> s.files, got |-> s.got]},
               sends' = (sends \ {s}) \cup {[s EXCEPT !.at = "accepted"]}, UNCHANGED strayed
        PROVE  FileInv'
    <2> DEFINE r == [s EXCEPT !.at = "accepted"]
    <2> DEFINE n == [n |-> s.n, chat |-> s.chat, files |-> s.files, got |-> s.got]
    <2>1. /\ r \in SendRequests /\ r.files = s.files /\ r.chat = s.chat /\ r.at = "accepted"
          /\ Taken(r) /\ sends' = (sends \ {s}) \cup {r}
      BY <1>3, <1>4 DEF Taken
    <2>2. n.chat = s.chat /\ n.files = s.files /\ n.got = s.got /\ messages' = messages \cup {n}
      BY <1>4
    <2> HIDE DEF r, n
    <2>3. s.got = s.files /\ \A m \in messages : m.files \cap s.files = {}
      BY <1>0, <1>1 DEF FilesApart, SendsApart
    <2>4. \A q \in sends' : q = r \/ (q \in sends /\ q # s)
      BY <2>1
    <2>5. FileTyped'
      BY <1>0, <1>1, <2>1 DEF FileTyped
    <2>6. FilesKnown'
      <3>1. \A q \in sends' : \A f \in q.files : \E c \in Screens : Uploaded(f, c)
        BY <1>0, <2>1, <2>4 DEF FilesKnown
      <3>2. \A q \in sends' : Taken(q) => \A f \in q.files : Uploaded(f, q.chat)
        BY <1>0, <1>1, <2>1, <2>4 DEF FilesKnown
      <3> QED
        BY <1>0, <1>1, <3>1, <3>2 DEF FilesKnown, Uploaded, Taken, InBatch
    <2>7. BatchApart'
      <3>1. \A f \in InBatch : /\ \A q \in sends' : f \notin q.files
                               /\ \A m \in messages' : f \notin m.files
        BY <1>0, <2>1, <2>2, <2>4 DEF FilesApart, BatchApart
      <3> QED
        BY <1>0, <1>1, <1>4, <3>1 DEF FilesApart, BatchApart, InBatch
    <2>8. SendsApart'
      <3>1. \A q \in sends' : Taken(q) => \A c \in Screens : q.files \cap kept[c] = {}
        BY <1>0, <1>1, <2>1, <2>4 DEF FilesApart, SendsApart
      <3>2. \A q \in sends' : q.at = "deliver" => q \in sends /\ q # s
        BY <2>1, <2>4
      <3>3. \A q \in sends' : q.at = "deliver" => q.got = q.files /\ \A m \in messages' : m.files \cap q.files = {}
        BY <1>0, <1>1, <2>2, <3>2 DEF FilesApart, SendsApart
      <3>4. \A p, q \in sends' : p.at = "deliver" /\ q.at = "deliver" /\ p # q => p.files \cap q.files = {}
        BY <1>0, <3>2 DEF FilesApart, SendsApart
      <3> QED
        BY <1>1, <3>1, <3>3, <3>4 DEF SendsApart, Taken
    <2>9. MessagesApart' /\ DeletesApart'
      <3>1. \A m \in messages' : \A c \in Screens : m.files \cap kept[c] = {}
        BY <1>0, <1>1, <2>2 DEF FilesApart, MessagesApart, SendsApart
      <3> QED
        BY <1>0, <1>1, <3>1 DEF FilesApart, MessagesApart, DeletesApart
    <2>10. Files!MessagesWhole'
      <3>1. \A f \in s.files : [file |-> f, chat |-> s.chat] \in uploaded
        BY <1>0, <1>1 DEF FilesKnown, Uploaded
      <3>2. \A m \in messages' : m.got = m.files /\ \A f \in m.files : [file |-> f, chat |-> m.chat] \in uploaded
        BY <1>0, <2>2, <2>3, <3>1 DEF Files!MessagesWhole
      <3>3. \A m, o \in messages' : o # m => o.files \cap m.files = {}
        BY <1>0, <2>2, <2>3 DEF Files!MessagesWhole
      <3> QED
        BY <1>1, <3>2, <3>3 DEF Files!MessagesWhole
    <2>11. Accounted'
      <3>1. ASSUME NEW f, NEW q \in sends, Taken(q), f \in q.files
            PROVE  \E p \in sends' : Taken(p) /\ f \in p.files
        BY <2>1, <3>1
      <3> QED
        BY <1>0, <1>1, <1>4, <3>1 DEF Accounted, ListedOf, Taken
    <2> QED
      BY <2>5, <2>6, <2>7, <2>8, <2>9, <2>10, <2>11 DEF FileInv, FilesApart
  <1>5. ASSUME sends' = (sends \ {s}) \cup {[s EXCEPT !.at = "refused"]},
               strayed' = (strayed \/ s.files # {}), UNCHANGED messages
        PROVE  FileInv'
    <2> DEFINE r == [s EXCEPT !.at = "refused"]
    <2>1. /\ r \in SendRequests /\ r.files = s.files /\ r.at = "refused"
          /\ ~Taken(r) /\ sends' = (sends \ {s}) \cup {r}
      BY <1>3, <1>5 DEF Taken
    <2> HIDE DEF r
    <2>2. /\ \A q \in sends' : \E p \in sends : q.files = p.files
          /\ \A q \in sends' : Taken(q) \/ q.at = "deliver" => q \in sends
          /\ \A q \in sends : Taken(q) => q \in sends' \/ q = s
      BY <2>1
    <2>3. FileTyped'
      BY <1>0, <1>1, <2>1 DEF FileTyped
    <2>4. FilesKnown'
      <3>1. \A q \in sends' : \A f \in q.files : \E c \in Screens : Uploaded(f, c)
        BY <1>0, <2>2 DEF FilesKnown
      <3>2. \A q \in sends' : Taken(q) => \A f \in q.files : Uploaded(f, q.chat)
        BY <1>0, <2>2 DEF FilesKnown
      <3> QED
        BY <1>0, <1>1, <3>1, <3>2 DEF FilesKnown, Uploaded, Taken, InBatch
    <2>5. BatchApart'
      <3>1. \A f \in InBatch : \A q \in sends' : f \notin q.files
        BY <1>0, <2>2 DEF FilesApart, BatchApart
      <3> QED
        BY <1>0, <1>1, <1>5, <3>1 DEF FilesApart, BatchApart, InBatch
    <2>6. SendsApart'
      BY <1>0, <1>1, <1>5, <2>2 DEF FilesApart, SendsApart, Taken
    <2>7. MessagesApart' /\ DeletesApart'
      BY <1>0, <1>1, <1>5 DEF FilesApart, MessagesApart, DeletesApart
    <2>8. Files!MessagesWhole'
      BY <1>0, <1>1, <1>5 DEF Files!MessagesWhole
    <2>9. Accounted'
      <3>1. ASSUME s.files = {}, NEW f, NEW q \in sends, Taken(q), f \in q.files
            PROVE  \E p \in sends' : Taken(p) /\ f \in p.files
        BY <2>2, <3>1
      <3> QED
        BY <1>0, <1>1, <1>5, <3>1 DEF Accounted, ListedOf, Taken
    <2> QED
      BY <2>3, <2>4, <2>5, <2>6, <2>7, <2>8, <2>9 DEF FileInv, FilesApart
  <1> QED
    BY <1>4, <1>5 DEF Files!Deliver

LEMMA SendEndsKeeps ==
  ASSUME FileInv, NEW s \in sends, Files!SendEnds(s)
  PROVE  FileInv'
  <1>0. FileTyped /\ FilesKnown /\ FilesApart /\ Files!MessagesWhole /\ Accounted
    BY DEF FileInv
  <1>1. /\ UNCHANGED <<shown, batch, deletes, kept, uploaded, messages, sent>>
        /\ sends' = sends \ {s} /\ s.at \in {"accepted", "refused"} /\ (strayed => strayed')
        /\ \/ /\ s.at = "accepted" /\ listed' = {}
              /\ strayed' = (strayed \/ ~(listed \subseteq s.files))
           \/ /\ strayed' = (strayed \/ (s.at = "accepted" /\ listed \cap s.files # {}))
              /\ listed' = listed
    BY DEF Files!SendEnds, Files!serverVars
  <1>2. listed' \subseteq listed /\ sends' \subseteq sends
    BY <1>1
  <1>3. FileTyped'
    BY <1>0, <1>1, <1>2 DEF FileTyped
  <1>4. FilesKnown'
    BY <1>0, <1>1, <1>2 DEF FilesKnown, Uploaded, Taken, InBatch
  <1>5. BatchApart'
    <2>1. \A f \in InBatch : f \notin listed' /\ \A q \in sends' : f \notin q.files
      BY <1>0, <1>2 DEF FilesApart, BatchApart
    <2> QED
      BY <1>0, <1>1, <2>1 DEF FilesApart, BatchApart, InBatch
  <1>6. SendsApart'
    BY <1>0, <1>1, <1>2 DEF FilesApart, SendsApart, Taken
  <1>7. MessagesApart' /\ DeletesApart'
    BY <1>0, <1>1, <1>2 DEF FilesApart, MessagesApart, DeletesApart
  <1>8. Files!MessagesWhole'
    BY <1>0, <1>1 DEF Files!MessagesWhole
  <1>9. Accounted'
    <2> SUFFICES ASSUME ~strayed', NEW c \in Screens
                 PROVE  /\ \A f \in kept[c] : \/ f \in ListedOf(c)' \/ [file |-> f, chat |-> c] \in deletes
                                              \/ batch.chat = c /\ f \in batch.done \cup batch.failed
                        /\ \A f \in ListedOf(c)' : f \in kept[c] \/ \E q \in sends' : Taken(q) /\ f \in q.files
      BY <1>1 DEF Accounted, Taken
    <2>1. CASE s.at = "accepted" /\ listed' = {} /\ listed \subseteq s.files
      <3>1. ~strayed /\ Taken(s)
        BY <1>1, <2>1 DEF Taken
      <3>2. \A f \in kept[c] : f \notin listed
        BY <1>0, <2>1, <3>1 DEF FilesApart, SendsApart
      <3>3. ListedOf(c)' = {} /\ \A f \in kept[c] : f \notin ListedOf(c)
        BY <1>1, <2>1, <3>2 DEF ListedOf
      <3> QED
        BY <1>0, <3>1, <3>3 DEF Accounted
    <2>2. CASE listed' = listed /\ ~(s.at = "accepted" /\ listed \cap s.files # {})
      <3>1. ~strayed /\ ListedOf(c)' = ListedOf(c) /\ ListedOf(c) \subseteq listed
        BY <1>1, <2>2 DEF ListedOf
      <3>2. \A q \in sends : \A f \in ListedOf(c) : Taken(q) /\ f \in q.files => q \in sends'
        BY <1>1, <2>2, <3>1 DEF Taken
      <3> QED
        BY <1>0, <3>1, <3>2 DEF Accounted
    <2> QED
      BY <1>1, <2>1, <2>2
  <1> QED
    BY <1>3, <1>4, <1>5, <1>6, <1>7, <1>8, <1>9 DEF FileInv, FilesApart

\* A chat that is disposed of loses its uploads.
LEMMA DisposeKeeps ==
  ASSUME FileInv, NEW d \in Screens, Files!Dispose(d)
  PROVE  FileInv'
  <1>0. FileTyped /\ FilesKnown /\ FilesApart /\ Files!MessagesWhole /\ Accounted
    BY DEF FileInv
  <1>1. /\ UNCHANGED <<shown, listed, batch, deletes, sends, uploaded, messages, sent>>
        /\ kept' = [kept EXCEPT ![d] = {}] /\ strayed' = (strayed \/ kept[d] # {})
    BY DEF Files!Dispose
  <1>2. /\ kept' \in [Screens -> SUBSET Names] /\ \A c \in Screens : kept'[c] \subseteq kept[c]
        /\ ~strayed' => ~strayed /\ kept' = kept
    BY <1>0, <1>1 DEF FileTyped
  <1>3. FileTyped'
    BY <1>0, <1>1, <1>2 DEF FileTyped
  <1>4. FilesKnown'
    <2>1. \A c \in Screens : \A f \in kept'[c] : Uploaded(f, c)
      BY <1>0, <1>2 DEF FilesKnown
    <2> QED
      BY <1>0, <1>1, <2>1 DEF FilesKnown, Uploaded, Taken, InBatch
  <1>5. BatchApart'
    <2>1. \A f \in batch.todo : \A c \in Screens : f \notin kept'[c]
      BY <1>0, <1>2 DEF FilesApart, BatchApart
    <2>2. ~strayed' => \A f \in batch.done : f \in kept'[batch.chat]
      BY <1>0, <1>2 DEF FilesApart, BatchApart
    <2> QED
      BY <1>0, <1>1, <2>1, <2>2 DEF FilesApart, BatchApart, InBatch
  <1>6. SendsApart'
    <2>1. \A s \in sends : Taken(s) => \A c \in Screens : s.files \cap kept'[c] = {}
      BY <1>0, <1>2 DEF FilesApart, SendsApart
    <2> QED
      BY <1>0, <1>1, <2>1 DEF FilesApart, SendsApart, Taken
  <1>7. MessagesApart' /\ DeletesApart'
    <2>1. \A m \in messages : \A c \in Screens : m.files \cap kept'[c] = {}
      BY <1>0, <1>2 DEF FilesApart, MessagesApart
    <2> QED
      BY <1>0, <1>1, <2>1 DEF FilesApart, MessagesApart, DeletesApart
  <1>8. Files!MessagesWhole'
    BY <1>0, <1>1 DEF Files!MessagesWhole
  <1>9. Accounted'
    BY <1>0, <1>1, <1>2 DEF Accounted, ListedOf, Taken
  <1> QED
    BY <1>3, <1>4, <1>5, <1>6, <1>7, <1>8, <1>9 DEF FileInv, FilesApart

LEMMA ActivateKeeps ==
  ASSUME FileInv, NEW c \in Screens, NEW keep \in BOOLEAN, Files!Activate(c, keep)
  PROVE  FileInv'
  <1>0. FileTyped /\ FilesKnown /\ FilesApart /\ Files!MessagesWhole /\ Accounted
    BY DEF FileInv
  <1>1. /\ UNCHANGED <<batch, deletes, sends, kept, uploaded, messages, sent>>
        /\ shown' = c /\ listed' = (IF keep THEN listed ELSE {})
        /\ strayed' = (strayed \/ listed # {})
    BY DEF Files!Activate, Files!serverVars
  <1>2. listed' \subseteq listed
    BY <1>1
  <1>3. FileTyped'
    BY <1>0, <1>1, <1>2 DEF FileTyped
  <1>4. FilesKnown'
    BY <1>0, <1>1, <1>2 DEF FilesKnown, Uploaded, Taken, InBatch
  <1>5. BatchApart'
    BY <1>0, <1>1, <1>2 DEF FilesApart, BatchApart, InBatch
  <1>6. SendsApart' /\ MessagesApart' /\ DeletesApart'
    BY <1>0, <1>1, <1>2 DEF FilesApart, SendsApart, MessagesApart, DeletesApart, Taken
  <1>7. Files!MessagesWhole'
    BY <1>0, <1>1 DEF Files!MessagesWhole
  <1>8. Accounted'
    <2> SUFFICES ASSUME ~strayed, listed = {}
                 PROVE  Accounted'
      BY <1>1 DEF Accounted
    <2>1. \A d \in Screens : ListedOf(d) = {} /\ ListedOf(d)' = {}
      BY <1>1 DEF ListedOf
    <2> QED
      BY <1>0, <1>1, <2>1 DEF Accounted, Taken
  <1> QED
    BY <1>3, <1>4, <1>5, <1>6, <1>7, <1>8 DEF FileInv, FilesApart

LEMMA FileStutter ==
  ASSUME FileInv,
         UNCHANGED <<shown, listed, batch, deletes, sends, kept, uploaded, messages, strayed, sent>>
  PROVE  FileInv'
  <1>1. FileTyped'
    BY DEF FileInv, FileTyped
  <1> QED
    BY <1>1, SameFiles

LEMMA FileNext ==
  ASSUME FileInv, Files!Next
  PROVE  FileInv'
  <1>1. ASSUME NEW picked \in SUBSET Names, Files!Add(picked) PROVE FileInv'
    BY <1>1, AddKeeps
  <1>2. ASSUME NEW f \in Names, Files!Store(f) \/ Files!Remove(f) PROVE FileInv'
    BY <1>2, StoreKeeps, RemoveKeeps
  <1>3. CASE Files!BatchEnds \/ Files!Send
    BY <1>3, BatchEndsKeeps, SendKeeps
  <1>4. CASE Files!OtherActionEnds
    <2>1. UNCHANGED <<shown, listed, batch, deletes, sends, kept, uploaded, messages, strayed, sent>>
      BY <1>4 DEF Files!OtherActionEnds, Files!serverVars
    <2> QED
      BY <2>1, FileStutter
  <1>5. ASSUME NEW d \in deletes, Files!Delete(d) PROVE FileInv'
    BY <1>5, DeleteKeeps
  <1>6. ASSUME NEW s \in sends, Files!TakeAttachments(s) \/ Files!Deliver(s) \/ Files!SendEnds(s)
        PROVE  FileInv'
    BY <1>6, TakeKeeps, DeliverKeeps, SendEndsKeeps
  <1>7. ASSUME NEW c \in Screens, NEW keep \in BOOLEAN, Files!Activate(c, keep) PROVE FileInv'
    BY <1>7, ActivateKeeps
  <1>8. ASSUME NEW c \in Screens, Files!Dispose(c) PROVE FileInv'
    BY <1>8, DisposeKeeps
  <1> QED
    BY <1>1, <1>2, <1>3, <1>4, <1>5, <1>6, <1>7, <1>8 DEF Files!Next

LEMMA FileHolds ==
  ASSUME FileInv
  PROVE  Files!MessagesWhole /\ Files!Listed
  <1>1. ASSUME batch = Files!NoBatch, deletes = {}, sends = {}, ~strayed
        PROVE  listed = kept[shown]
    <2>1. shown \in Screens /\ batch.done = {} /\ batch.failed = {} /\ ListedOf(shown) = listed
      BY <1>1, NoBatchFacts DEF FileInv, FileTyped, ListedOf
    <2>2. /\ \A f \in kept[shown] : f \in listed
          /\ \A f \in listed : f \in kept[shown]
      BY <1>1, <2>1 DEF FileInv, Accounted
    <2> QED
      BY <2>2
  <1> QED
    BY <1>1 DEF FileInv, Files!Listed

-----------------------------------------------------------------------------
(* PluginBackends.                                                           *)

StepNames == {"check", "run", "halt", "kill", "enable", "disable", "write", "erase", "forget",
              "scan", "resolve", "process", "sweep"}

PlugTyped ==
  /\ revision \in Nat /\ latest \in Nat
  /\ disabled \in BOOLEAN /\ stopped \in BOOLEAN /\ calm \in BOOLEAN
  /\ todo \in [Plugins!Actors -> Seq(StepNames)]
  /\ seen \in [Plugins!Actors -> [active : BOOLEAN, revision : Nat]]
  /\ faults \in Nat

(* What is left of a pass of the ticker, and what it has found: undisturbed, it is
   what the operator wants.                                                  *)
StepLeft(n) == IF n = 3 THEN "scan" ELSE IF n = 2 THEN "resolve" ELSE IF n = 1 THEN "process" ELSE "sweep"
Pass == todo[None]
Wanted == ~stopped /\ revision # 0
Settled == process.id \in alive /\ process.revision = revision
TickerPass ==
  /\ Len(Pass) <= 4 /\ \A i \in 1..Len(Pass) : Pass[i] = StepLeft(Len(Pass) - i)
  /\ calm =>
     /\ Len(Pass) \in 1..3 => seen[None].active = Wanted
     /\ Len(Pass) = 2 => seen[None].revision = revision
     /\ Len(Pass) = 1 /\ Wanted => Settled
     /\ Len(Pass) = 0 => IF Wanted THEN Settled ELSE alive = {}

(* A step that starts a plugin comes after one that has found or made it enabled, one
   that disables it before one that stops it.                                *)
Ordered(s) ==
  \A i \in 1..Len(s) : /\ s[i] = "run" /\ i > 1 => s[i - 1] \in {"check", "enable"}
                       /\ s[i] = "disable" => i < Len(s) /\ s[i + 1] = "halt"
Alone ==
  /\ \A r \in Callers : Ordered(todo[r])
  /\ ~overlapped => \A r, q \in Callers : todo[r] # <<>> /\ todo[q] # <<>> => r = q
  /\ ~overlapped /\ faults = 0 =>
     /\ \A r \in Callers : todo[r] # <<>> /\ Head(todo[r]) = "run" => ~disabled
     /\ disabled /\ ~stopped => \E r \in Callers : todo[r] # <<>> /\ Head(todo[r]) = "halt"

PlugInv == PlugTyped /\ TickerPass /\ Alone /\ Plugins!OneBackend

LEMMA PlugInit ==
  ASSUME NEW r \in {0, 1}, NEW d \in BOOLEAN, Plugins!Started(r, d)
  PROVE  PlugInv
  <1>1. /\ revision \in Nat /\ latest \in Nat /\ disabled \in BOOLEAN /\ stopped \in BOOLEAN
        /\ calm = FALSE /\ faults = 0 /\ alive = {} /\ overlapped = FALSE
        /\ todo = [a \in Plugins!Actors |-> <<>>]
        /\ seen = [a \in Plugins!Actors |-> Plugins!Nothing]
    BY DEF Plugins!Started
  <1>2. Plugins!Nothing \in [active : BOOLEAN, revision : Nat]
    BY DEF Plugins!Nothing
  <1>3. todo \in [Plugins!Actors -> Seq(StepNames)] /\ \A a \in Plugins!Actors : todo[a] = <<>>
    BY <1>1
  <1>4. PlugTyped
    BY <1>1, <1>2, <1>3 DEF PlugTyped
  <1>5. None \in Plugins!Actors /\ \A c \in Callers : c \in Plugins!Actors
    BY DEF Plugins!Actors
  <1>6. TickerPass
    BY <1>1, <1>3, <1>5 DEF TickerPass, Pass
  <1>7. disabled => stopped
    BY DEF Plugins!Started
  <1>8. Alone
    BY <1>3, <1>5, <1>7 DEF Alone, Ordered
  <1> QED
    BY <1>1, <1>4, <1>6, <1>8 DEF PlugInv, Plugins!OneBackend

\* A step is taken from the front of a program.
LEMMA TailIs ==
  ASSUME NEW s \in Seq(StepNames), s # <<>>
  PROVE  /\ Len(s) \in Nat /\ Len(s) > 0 /\ Head(s) = s[1] /\ Tail(s) \in Seq(StepNames)
         /\ Len(Tail(s)) = Len(s) - 1
         /\ \A i \in 1..(Len(s) - 1) : Tail(s)[i] = s[i + 1]
  OBVIOUS

LEMMA Stepped ==
  ASSUME PlugTyped, NEW a \in Plugins!Actors, NEW s, Plugins!Step(a, s)
  PROVE  /\ todo[a] # <<>> /\ Head(todo[a]) = s /\ todo[a][1] = s
         /\ Len(todo[a]) \in Nat /\ Len(todo[a]) > 0
         /\ todo' \in [Plugins!Actors -> Seq(StepNames)] /\ Len(todo'[a]) = Len(todo[a]) - 1
         /\ \A i \in 1..(Len(todo[a]) - 1) : todo'[a][i] = todo[a][i + 1]
         /\ \A b \in Plugins!Actors : b # a => todo'[b] = todo[b]
  <1>1. todo \in [Plugins!Actors -> Seq(StepNames)] /\ todo[a] \in Seq(StepNames)
    BY DEF PlugTyped
  <1>2. /\ todo[a] # <<>> /\ Head(todo[a]) = s /\ todo' = [todo EXCEPT ![a] = Tail(todo[a])]
    BY DEF Plugins!Step
  <1>3. Tail(todo[a]) \in Seq(StepNames)
    BY <1>1, <1>2
  <1>4. todo' \in [Plugins!Actors -> Seq(StepNames)] /\ todo'[a] = Tail(todo[a])
        /\ \A b \in Plugins!Actors : b # a => todo'[b] = todo[b]
    BY <1>1, <1>2, <1>3
  <1> QED
    BY <1>1, <1>2, <1>4, TailIs

LEMMA GivenUp ==
  ASSUME PlugTyped, NEW a \in Plugins!Actors, Plugins!GiveUp(a)
  PROVE  /\ todo' \in [Plugins!Actors -> Seq(StepNames)] /\ todo'[a] = <<>>
         /\ \A b \in Plugins!Actors : b # a => todo'[b] = todo[b]
  BY DEF PlugTyped, Plugins!GiveUp

LEMMA AllActors == None \in Plugins!Actors /\ None \notin Callers /\ \A r \in Callers : r \in Plugins!Actors /\ r # None
  BY ServicesAssumption DEF Plugins!Actors

-----------------------------------------------------------------------------
(* The programs of the requests.                                             *)

LEMMA OrderedRest ==
  ASSUME NEW s \in Seq(StepNames), Ordered(s), NEW t \in Seq(StepNames), Len(s) > 0,
         Len(t) = Len(s) - 1, \A i \in 1..(Len(s) - 1) : t[i] = s[i + 1]
  PROVE  Ordered(t)
  <1> SUFFICES ASSUME NEW i \in 1..Len(t)
               PROVE  /\ t[i] = "run" /\ i > 1 => t[i - 1] \in {"check", "enable"}
                      /\ t[i] = "disable" => i < Len(t) /\ t[i + 1] = "halt"
    BY DEF Ordered
  <1>1. i + 1 \in 1..Len(s) /\ t[i] = s[i + 1]
    OBVIOUS
  <1>2. i > 1 => t[i - 1] = s[i]
    <2>1. i > 1 => i - 1 \in 1..(Len(s) - 1) /\ (i - 1) + 1 = i
      OBVIOUS
    <2> QED
      BY <2>1
  <1>3. s[i + 1] = "run" => s[(i + 1) - 1] \in {"check", "enable"}
    BY <1>1 DEF Ordered
  <1>4. s[i + 1] = "disable" => i + 1 < Len(s) /\ s[(i + 1) + 1] = "halt"
    BY <1>1 DEF Ordered
  <1>5. i < Len(t) => t[i + 1] = s[(i + 1) + 1]
    OBVIOUS
  <1> QED
    BY <1>1, <1>2, <1>3, <1>4, <1>5

LEMMA ActivateAllIs ==
  LET s == Plugins!ActivateAll IN
  s \in Seq(StepNames) /\ Len(s) = 4 /\ s[1] = "scan" /\ s[2] = "resolve" /\ s[3] = "process" /\ s[4] = "sweep"
  <1>1. Plugins!ActivateAll = <<"scan", "resolve", "process", "sweep">>
    BY DEF Plugins!ActivateAll
  <1>2. <<"scan", "resolve", "process", "sweep">> \in Seq(StepNames)
    BY DEF StepNames
  <1> QED
    BY <1>1, <1>2

LEMMA OrderedProgram ==
  ASSUME NEW p \in Seq(StepNames), Ordered(p), p # <<>>, p[1] # "run"
  PROVE  LET s == p \o Plugins!ActivateAll IN
         s \in Seq(StepNames) /\ s # <<>> /\ Head(s) # "run" /\ Ordered(s)
  <1>1. \E t : t = Plugins!ActivateAll
    OBVIOUS
  <1>2. PICK t : t = Plugins!ActivateAll
    BY <1>1
  <1>3. /\ t \in Seq(StepNames) /\ Len(t) = 4
        /\ \A i \in 1..4 : t[i] \notin {"run", "disable"}
    BY <1>2, ActivateAllIs
  <1>4. PICK s : s = p \o t
    OBVIOUS
  <1>a. /\ p \o t \in Seq(StepNames) /\ Len(p \o t) = Len(p) + Len(t)
        /\ \A i \in 1..Len(p) : (p \o t)[i] = p[i]
        /\ \A i \in (Len(p) + 1)..(Len(p) + Len(t)) : (p \o t)[i] = t[i - Len(p)]
    <2>1. t \in Seq(StepNames)
      BY <1>3
    <2> QED
      BY <2>1
  <1>5. s \in Seq(StepNames) /\ Len(s) = Len(p) + 4 /\ Len(p) \in Nat /\ Len(p) > 0
    <2>1. s \in Seq(StepNames) /\ Len(s) = Len(p) + Len(t)
      BY <1>4, <1>a
    <2> QED
      BY <1>3, <2>1
  <1>6. \A i \in 1..Len(p) : s[i] = p[i]
    BY <1>4, <1>a
  <1>7. \A i \in (Len(p) + 1)..(Len(p) + 4) : s[i] = t[i - Len(p)]
    BY <1>3, <1>4, <1>a
  <1>8. ASSUME NEW i \in 1..Len(s)
        PROVE  /\ s[i] = "run" /\ i > 1 => s[i - 1] \in {"check", "enable"}
               /\ s[i] = "disable" => i < Len(s) /\ s[i + 1] = "halt"
    <2>1. CASE i <= Len(p)
      <3>1. i \in 1..Len(p) /\ s[i] = p[i]
        BY <1>5, <1>6, <2>1
      <3>2. p[i] = "run" /\ i > 1 => p[i - 1] \in {"check", "enable"} /\ i - 1 \in 1..Len(p)
        BY <1>5, <3>1 DEF Ordered
      <3>3. p[i] = "disable" => i < Len(p) /\ p[i + 1] = "halt" /\ i + 1 \in 1..Len(p)
        BY <1>5, <3>1 DEF Ordered
      <3> QED
        BY <1>5, <1>6, <3>1, <3>2, <3>3
    <2>2. CASE i > Len(p)
      <3>1. i - Len(p) \in 1..4 /\ s[i] = t[i - Len(p)]
        BY <1>5, <1>7, <2>2
      <3> QED
        BY <1>3, <3>1
    <2> QED
      BY <1>5, <2>1, <2>2
  <1>9. Ordered(s)
    BY <1>8 DEF Ordered
  <1>10. s # <<>> /\ Head(s) = s[1] /\ s[1] = p[1]
    BY <1>5, <1>6
  <1> QED
    BY <1>2, <1>4, <1>5, <1>9, <1>10

LEMMA HeadIs == ASSUME NEW S, NEW s \in Seq(S), s # <<>> PROVE Head(s) = s[1]
  OBVIOUS

\* The programs that requests begin with.
LEMMA Programs ==
  ASSUME NEW k \in DOMAIN Plugins!Program
  PROVE  LET s == Plugins!Program[k] IN
         s \in Seq(StepNames) /\ s # <<>> /\ Head(s) # "run" /\ Ordered(s)
  <1>1. k \in {"start", "stop", "enable", "disable", "install", "delete", "proxy"}
    BY DEF Plugins!Program
  <1>2. ASSUME NEW p, p \in {<<"check", "run">>, <<"halt", "kill">>, <<"enable", "run">>,
                             <<"disable", "halt", "kill">>, <<"write", "enable", "run", "kill">>,
                             <<"halt", "kill", "erase", "forget">>, <<"scan", "resolve", "process">>}
        PROVE  p \in Seq(StepNames) /\ p # <<>> /\ p[1] # "run" /\ Ordered(p)
    <2>1. CASE p = <<"check", "run">>
      <3>1. p \in Seq(StepNames) /\ Len(p) = 2
        BY <2>1 DEF StepNames
      <3> QED
        BY <2>1, <3>1 DEF Ordered
    <2>2. CASE p = <<"halt", "kill">>
      <3>1. p \in Seq(StepNames) /\ Len(p) = 2
        BY <2>2 DEF StepNames
      <3> QED
        BY <2>2, <3>1 DEF Ordered
    <2>3. CASE p = <<"enable", "run">>
      <3>1. p \in Seq(StepNames) /\ Len(p) = 2
        BY <2>3 DEF StepNames
      <3> QED
        BY <2>3, <3>1 DEF Ordered
    <2>4. CASE p = <<"disable", "halt", "kill">>
      <3>1. p \in Seq(StepNames) /\ Len(p) = 3
        BY <2>4 DEF StepNames
      <3> QED
        BY <2>4, <3>1 DEF Ordered
    <2>5. CASE p = <<"write", "enable", "run", "kill">>
      <3>1. p \in Seq(StepNames) /\ Len(p) = 4
        BY <2>5 DEF StepNames
      <3> QED
        BY <2>5, <3>1 DEF Ordered
    <2>6. CASE p = <<"halt", "kill", "erase", "forget">>
      <3>1. p \in Seq(StepNames) /\ Len(p) = 4
        BY <2>6 DEF StepNames
      <3> QED
        BY <2>6, <3>1 DEF Ordered
    <2>7. CASE p = <<"scan", "resolve", "process">>
      <3>1. p \in Seq(StepNames) /\ Len(p) = 3
        BY <2>7 DEF StepNames
      <3> QED
        BY <2>7, <3>1 DEF Ordered
    <2> QED
      BY <1>2, <2>1, <2>2, <2>3, <2>4, <2>5, <2>6, <2>7
  <1>3. CASE k = "start"
    <2>1. Plugins!Program[k] = <<"check", "run">> \o Plugins!ActivateAll
      BY <1>3 DEF Plugins!Program
    <2> QED
      BY <1>2, <2>1, OrderedProgram
  <1>4. CASE k = "stop"
    <2>1. Plugins!Program[k] = <<"halt", "kill">> \o Plugins!ActivateAll
      BY <1>4 DEF Plugins!Program
    <2> QED
      BY <1>2, <2>1, OrderedProgram
  <1>5. CASE k = "enable"
    <2>1. Plugins!Program[k] = <<"enable", "run">> \o Plugins!ActivateAll
      BY <1>5 DEF Plugins!Program
    <2> QED
      BY <1>2, <2>1, OrderedProgram
  <1>6. CASE k = "disable"
    <2>1. Plugins!Program[k] = <<"disable", "halt", "kill">> \o Plugins!ActivateAll
      BY <1>6 DEF Plugins!Program
    <2> QED
      BY <1>2, <2>1, OrderedProgram
  <1>7. CASE k = "install"
    <2>1. Plugins!Program[k] = <<"write", "enable", "run", "kill">> \o Plugins!ActivateAll
      BY <1>7 DEF Plugins!Program
    <2> QED
      BY <1>2, <2>1, OrderedProgram
  <1>8. CASE k = "delete"
    <2>1. Plugins!Program[k] = <<"halt", "kill", "erase", "forget">>
      BY <1>8 DEF Plugins!Program
    <2> QED
      BY <1>2, <2>1, HeadIs
  <1>9. CASE k = "proxy"
    <2>1. Plugins!Program[k] = <<"scan", "resolve", "process">>
      BY <1>9 DEF Plugins!Program
    <2> QED
      BY <1>2, <2>1, HeadIs
  <1> QED
    BY <1>1, <1>3, <1>4, <1>5, <1>6, <1>7, <1>8, <1>9

-----------------------------------------------------------------------------
(* The ticker.                                                               *)

\* What is left of a pass says which step comes next.
LEMMA PassIs ==
  ASSUME PlugTyped, TickerPass, Pass # <<>>
  PROVE  /\ Len(Pass) \in 1..4 /\ Head(Pass) = StepLeft(Len(Pass) - 1) /\ Head(Pass) # "kill"
         /\ Head(Pass) = "scan" <=> Len(Pass) = 4
         /\ Head(Pass) = "resolve" <=> Len(Pass) = 3
         /\ Head(Pass) = "process" <=> Len(Pass) = 2
         /\ Head(Pass) = "sweep" <=> Len(Pass) = 1
  <1>1. Pass \in Seq(StepNames)
    BY AllActors DEF PlugTyped, Pass
  <1>2. Len(Pass) \in Nat /\ Len(Pass) > 0 /\ Head(Pass) = Pass[1]
    BY <1>1, TailIs
  <1>3. Len(Pass) \in 1..4
    <2>1. Len(Pass) <= 4
      BY DEF TickerPass
    <2>2. \A n \in Nat : n > 0 /\ n <= 4 => n \in 1..4
      OBVIOUS
    <2>3. Len(Pass) \in Nat /\ Len(Pass) > 0
      BY <1>2
    <2> QED
      BY <2>1, <2>2, <2>3
  <1>4. Pass[1] = StepLeft(Len(Pass) - 1)
    <2>1. 1 \in 1..Len(Pass)
      BY <1>2
    <2> QED
      BY <2>1 DEF TickerPass
  <1>5. Head(Pass) = StepLeft(Len(Pass) - 1)
    BY <1>2, <1>4
  <1>6. \A n \in 1..4 :
          /\ StepLeft(n - 1) # "kill"
          /\ StepLeft(n - 1) = "scan" <=> n = 4
          /\ StepLeft(n - 1) = "resolve" <=> n = 3
          /\ StepLeft(n - 1) = "process" <=> n = 2
          /\ StepLeft(n - 1) = "sweep" <=> n = 1
    BY DEF StepLeft
  <1> QED
    BY <1>3, <1>5, <1>6

LEMMA PassGoesOn ==
  ASSUME PlugTyped, TickerPass, NEW s, Plugins!Step(None, s)
  PROVE  /\ Len(Pass') = Len(Pass) - 1 /\ Len(Pass) \in 1..4
         /\ \A i \in 1..Len(Pass') : Pass'[i] = StepLeft(Len(Pass') - i)
         /\ s = StepLeft(Len(Pass) - 1)
         /\ \A r \in Callers : todo'[r] = todo[r]
         /\ todo' \in [Plugins!Actors -> Seq(StepNames)]
  <1>1. /\ Pass # <<>> /\ Head(Pass) = s /\ Len(Pass) \in Nat /\ Len(Pass) > 0
        /\ Len(Pass') = Len(Pass) - 1
        /\ \A i \in 1..(Len(Pass) - 1) : Pass'[i] = Pass[i + 1]
        /\ \A r \in Callers : todo'[r] = todo[r]
        /\ todo' \in [Plugins!Actors -> Seq(StepNames)]
    BY Stepped, AllActors DEF Pass
  <1>2. Len(Pass) \in 1..4 /\ s = StepLeft(Len(Pass) - 1)
    BY <1>1, PassIs
  <1>3. ASSUME NEW i \in 1..Len(Pass') PROVE Pass'[i] = StepLeft(Len(Pass') - i)
    <2>1. i + 1 \in 1..Len(Pass) /\ Pass'[i] = Pass[i + 1] /\ Len(Pass) - (i + 1) = Len(Pass') - i
      BY <1>1
    <2>2. Pass[i + 1] = StepLeft(Len(Pass) - (i + 1))
      BY <2>1 DEF TickerPass
    <2> QED
      BY <2>1, <2>2
  <1> QED
    BY <1>1, <1>2, <1>3

LEMMA OthersStep ==
  ASSUME TickerPass, todo'[None] = todo[None],
         ~calm' \/ UNCHANGED <<calm, stopped, revision, seen, process, alive>>
  PROVE  TickerPass'
  BY DEF TickerPass, Pass, Wanted, Settled, StepLeft

-----------------------------------------------------------------------------
(* The requests.                                                             *)

\* Who does not take a step of a request keeps what a lone request has settled.
LEMMA AloneStays ==
  ASSUME Alone, \A r \in Callers : todo'[r] = todo[r],
         UNCHANGED <<disabled, stopped, overlapped>>, faults' = 0 => faults = 0
  PROVE  Alone'
  <1>1. \A r \in Callers : Ordered(todo[r])'
    BY DEF Alone, Ordered
  <1> QED
    BY <1>1 DEF Alone

LEMMA AloneStep ==
  ASSUME PlugTyped, Alone, NEW r \in Callers, NEW s, Plugins!Step(r, s),
         overlapped' = overlapped, faults' = 0 => faults = 0,
         s \in {"check", "enable"} => ~disabled',
         s = "run" => disabled' = disabled,
         s = "halt" => stopped',
         s \notin {"disable", "run"} => (disabled' /\ ~stopped' => disabled /\ ~stopped)
  PROVE  Alone'
  <1>1. /\ todo[r] # <<>> /\ Head(todo[r]) = s /\ todo[r][1] = s
        /\ Len(todo[r]) \in Nat /\ Len(todo[r]) > 0
        /\ todo' \in [Plugins!Actors -> Seq(StepNames)] /\ Len(todo'[r]) = Len(todo[r]) - 1
        /\ \A i \in 1..(Len(todo[r]) - 1) : todo'[r][i] = todo[r][i + 1]
        /\ \A b \in Callers : b # r => todo'[b] = todo[b]
    BY Stepped, AllActors
  <1>2. todo[r] \in Seq(StepNames) /\ todo'[r] \in Seq(StepNames)
    BY <1>1, AllActors DEF PlugTyped
  <1>3. Ordered(todo[r])
    BY DEF Alone
  <1>4. Ordered(todo'[r])
    BY <1>1, <1>2, <1>3, OrderedRest
  <1>5. \A q \in Callers : Ordered(todo'[q])
    BY <1>1, <1>4 DEF Alone
  <1>6. todo'[r] # <<>> => Len(todo[r]) > 1 /\ Head(todo'[r]) = todo[r][2]
    <2>1. todo'[r] # <<>> => Len(todo'[r]) > 0 /\ Head(todo'[r]) = todo'[r][1]
      BY <1>2, TailIs
    <2>2. Len(todo[r]) > 1 => todo'[r][1] = todo[r][1 + 1]
      BY <1>1
    <2> QED
      BY <1>1, <2>1, <2>2
  <1>7. todo'[r] # <<>> /\ Head(todo'[r]) = "run" => s \in {"check", "enable"}
    <2>1. ASSUME Len(todo[r]) > 1, todo[r][2] = "run" PROVE todo[r][1] \in {"check", "enable"}
      <3>1. 2 \in 1..Len(todo[r])
        BY <1>1, <2>1
      <3> QED
        BY <1>3, <2>1, <3>1 DEF Ordered
    <2> QED
      BY <1>1, <1>6, <2>1
  <1>8. s = "disable" => todo'[r] # <<>> /\ Head(todo'[r]) = "halt"
    <2>1. ASSUME s = "disable" PROVE 1 < Len(todo[r]) /\ todo[r][1 + 1] = "halt"
      <3>1. 1 \in 1..Len(todo[r])
        BY <1>1
      <3> QED
        BY <1>1, <1>3, <2>1, <3>1 DEF Ordered
    <2>2. s = "disable" => Len(todo'[r]) > 0
      BY <1>1, <2>1
    <2>3. Len(<<>>) = 0
      OBVIOUS
    <2> QED
      BY <1>1, <1>6, <2>1, <2>2, <2>3
  <1>9. ASSUME ~overlapped' PROVE \A q, p \in Callers : todo'[q] # <<>> /\ todo'[p] # <<>> => q = p
    <2>1. \A q \in Callers : todo'[q] # <<>> => todo[q] # <<>>
      BY <1>1
    <2> QED
      BY <1>9, <2>1 DEF Alone
  <1>10. ASSUME ~overlapped', faults' = 0
         PROVE  /\ \A q \in Callers : todo'[q] # <<>> /\ Head(todo'[q]) = "run" => ~disabled'
                /\ disabled' /\ ~stopped' => \E q \in Callers : todo'[q] # <<>> /\ Head(todo'[q]) = "halt"
    <2>1. /\ \A q \in Callers : todo[q] # <<>> => q = r
          /\ s = "run" => ~disabled
          /\ disabled /\ ~stopped => s = "halt"
      BY <1>1, <1>10 DEF Alone
    <2>2. \A q \in Callers : todo'[q] # <<>> => q = r
      BY <1>1, <2>1
    <2>3. \A q \in Callers : todo'[q] # <<>> /\ Head(todo'[q]) = "run" => ~disabled'
      BY <1>7, <2>2
    <2>4. disabled' /\ ~stopped' => s = "disable"
      BY <2>1
    <2> QED
      BY <1>8, <2>3, <2>4
  <1> QED
    BY <1>5, <1>9, <1>10 DEF Alone, Ordered

LEMMA AloneGivesUp ==
  ASSUME PlugTyped, Alone, NEW r \in Callers, Plugins!GiveUp(r), todo[r] # <<>>,
         overlapped' = overlapped,
         faults' # 0 \/ (UNCHANGED <<disabled, stopped, faults>> /\ Head(todo[r]) # "halt")
  PROVE  Alone'
  <1>1. todo'[r] = <<>> /\ \A q \in Callers : q # r => todo'[q] = todo[q]
    BY GivenUp, AllActors
  <1>2. \A q \in Callers : Ordered(todo'[q])
    BY <1>1 DEF Alone, Ordered
  <1>3. ASSUME ~overlapped' PROVE \A q, p \in Callers : todo'[q] # <<>> /\ todo'[p] # <<>> => q = p
    BY <1>1, <1>3 DEF Alone
  <1>4. ASSUME ~overlapped', faults' = 0
        PROVE  /\ \A q \in Callers : todo'[q] # <<>> /\ Head(todo'[q]) = "run" => ~disabled'
               /\ disabled' /\ ~stopped' => \E q \in Callers : todo'[q] # <<>> /\ Head(todo'[q]) = "halt"
    BY <1>1, <1>4 DEF Alone
  <1> QED
    BY <1>2, <1>3, <1>4 DEF Alone, Ordered

-----------------------------------------------------------------------------
(* The steps.                                                                *)

\* A step that is not the ticker's leaves its pass, and disturbs it.
LEMMA NotTheTicker ==
  ASSUME PlugInv, PlugTyped', Alone', Plugins!OneBackend', todo'[None] = todo[None],
         ~calm' \/ UNCHANGED <<calm, stopped, revision, seen, process, alive>>
  PROVE  PlugInv'
  BY OthersStep DEF PlugInv

LEMMA RequestKeeps ==
  ASSUME PlugInv, NEW r \in Callers, NEW k \in DOMAIN Plugins!Program, Plugins!Request(r, k)
  PROVE  PlugInv'
  <1>0. PlugTyped /\ Alone /\ Plugins!OneBackend
    BY DEF PlugInv
  <1>1. /\ todo[r] = <<>> /\ todo' = [todo EXCEPT ![r] = Plugins!Program[k]]
        /\ overlapped' = (overlapped \/ Plugins!Busy) /\ ~calm' /\ calm' \in BOOLEAN
        /\ UNCHANGED <<revision, latest, disabled, stopped, process, alive, seen, faults>>
    BY DEF Plugins!Request, Plugins!choices, Plugins!backend, Plugins!source
  <1>2. /\ Plugins!Program[k] \in Seq(StepNames) /\ Plugins!Program[k] # <<>>
        /\ Head(Plugins!Program[k]) # "run" /\ Ordered(Plugins!Program[k])
    BY Programs
  <1>3. /\ todo' \in [Plugins!Actors -> Seq(StepNames)] /\ todo'[r] = Plugins!Program[k]
        /\ \A b \in Plugins!Actors : b # r => todo'[b] = todo[b]
    BY <1>0, <1>1, <1>2, AllActors DEF PlugTyped
  <1>4. PlugTyped'
    BY <1>0, <1>1, <1>3 DEF PlugTyped, Plugins!Actors
  <1>5. \A q \in Callers : Ordered(todo'[q])
    BY <1>0, <1>2, <1>3, AllActors DEF Alone
  <1>6. ASSUME ~overlapped'
        PROVE  ~overlapped /\ \A q \in Callers : todo[q] = <<>>
    BY <1>1, <1>6 DEF Plugins!Busy
  <1>7. ASSUME ~overlapped' PROVE \A q \in Callers : todo'[q] # <<>> => q = r
    BY <1>3, <1>6, <1>7, AllActors
  <1>8. ASSUME ~overlapped', faults' = 0
        PROVE  /\ \A q \in Callers : todo'[q] # <<>> /\ Head(todo'[q]) = "run" => ~disabled'
               /\ disabled' /\ ~stopped' => \E q \in Callers : todo'[q] # <<>> /\ Head(todo'[q]) = "halt"
    <2>1. ~(disabled /\ ~stopped)
      BY <1>0, <1>1, <1>6, <1>8 DEF Alone
    <2> QED
      BY <1>1, <1>2, <1>3, <1>7, <1>8, <2>1
  <1>9. Alone'
    BY <1>5, <1>7, <1>8 DEF Alone, Ordered
  <1>10. Plugins!OneBackend'
    BY <1>0, <1>1 DEF Plugins!OneBackend
  <1> QED
    BY <1>1, <1>3, <1>4, <1>9, <1>10, AllActors, NotTheTicker

(* A step of a request that is its own.                                      *)
LEMMA OwnStep ==
  ASSUME PlugInv, NEW r \in Callers, todo[r] # <<>>,
         Plugins!Check(r) \/ Plugins!Install(r) \/ Plugins!Erase(r) \/ Plugins!Forget(r)
           \/ \E on \in BOOLEAN : Plugins!SetRunning(r, on) \/ Plugins!SetEnabled(r, on)
  PROVE  PlugInv'
  <1>0. PlugTyped /\ Alone /\ Plugins!OneBackend
    BY DEF PlugInv
  <1>1. /\ UNCHANGED <<process, alive, seen, overlapped>> /\ ~calm' /\ calm' \in BOOLEAN
        /\ revision' \in Nat /\ latest' \in Nat /\ disabled' \in BOOLEAN /\ stopped' \in BOOLEAN
        /\ faults' \in {faults, faults + 1}
    <2>1. revision \in Nat /\ latest \in Nat /\ disabled \in BOOLEAN /\ stopped \in BOOLEAN /\ r # None
      BY <1>0, AllActors DEF PlugTyped
    <2>2. CASE Plugins!Check(r)
      BY <2>1, <2>2 DEF Plugins!Check, Plugins!Disturbs, Plugins!choices, Plugins!backend, Plugins!source,
         Plugins!counts
    <2>3. CASE Plugins!Install(r)
      <3>1. /\ UNCHANGED <<process, alive, seen, overlapped, disabled, stopped, faults>>
            /\ revision' = latest + 1 /\ latest' = latest + 1 /\ calm' = (calm /\ r = None)
        BY <2>3 DEF Plugins!Install, Plugins!Disturbs, Plugins!choices, Plugins!backend, Plugins!counts
      <3>2. latest + 1 \in Nat
        BY <2>1
      <3> QED
        BY <2>1, <3>1, <3>2
    <2>4. CASE Plugins!Erase(r)
      BY <2>1, <2>4 DEF Plugins!Erase, Plugins!Disturbs, Plugins!choices, Plugins!backend, Plugins!counts
    <2>5. CASE Plugins!Forget(r)
      BY <2>1, <2>5 DEF Plugins!Forget, Plugins!Disturbs, Plugins!backend, Plugins!source, Plugins!counts
    <2>6. ASSUME NEW on \in BOOLEAN, Plugins!SetRunning(r, on)
          PROVE  /\ UNCHANGED <<process, alive, seen, overlapped, revision, latest, disabled, faults>>
                 /\ stopped' = ~on /\ calm' = (calm /\ r = None)
      BY <2>6 DEF Plugins!SetRunning, Plugins!Disturbs, Plugins!backend, Plugins!source, Plugins!counts
    <2>7. ASSUME NEW on \in BOOLEAN, Plugins!SetEnabled(r, on)
          PROVE  /\ UNCHANGED <<process, alive, seen, overlapped, revision, latest, stopped>>
                 /\ disabled' = ~on /\ calm' = (calm /\ r = None) /\ faults' \in {faults, faults + 1}
      BY <2>7 DEF Plugins!SetEnabled, Plugins!Disturbs, Plugins!backend, Plugins!source, Plugins!counts
    <2> QED
      BY <2>1, <2>2, <2>3, <2>4, <2>5, <2>6, <2>7
  <1>2. faults \in Nat /\ faults' \in Nat /\ (faults' = 0 => faults = 0)
    BY <1>0, <1>1 DEF PlugTyped
  <1>3. ASSUME Alone', todo' \in [Plugins!Actors -> Seq(StepNames)], todo'[None] = todo[None]
        PROVE  PlugInv'
    <2>1. PlugTyped'
      BY <1>0, <1>1, <1>2, <1>3 DEF PlugTyped, Plugins!Actors
    <2>2. Plugins!OneBackend'
      BY <1>0, <1>1 DEF Plugins!OneBackend
    <2> QED
      BY <1>1, <1>3, <2>1, <2>2, NotTheTicker
  <1>4. ASSUME NEW s, Plugins!Step(r, s),
               s \in {"check", "enable"} => ~disabled',
               s = "run" => disabled' = disabled,
               s = "halt" => stopped',
               s \notin {"disable", "run"} => (disabled' /\ ~stopped' => disabled /\ ~stopped)
        PROVE  PlugInv'
    <2>1. todo' \in [Plugins!Actors -> Seq(StepNames)] /\ todo'[None] = todo[None]
      BY <1>0, <1>4, Stepped, AllActors
    <2>2. Alone'
      BY <1>0, <1>1, <1>2, <1>4, AloneStep
    <2> QED
      BY <1>3, <2>1, <2>2
  <1>5. ASSUME Plugins!GiveUp(r),
               faults' # 0 \/ (UNCHANGED <<disabled, stopped, faults>> /\ Head(todo[r]) # "halt")
        PROVE  PlugInv'
    <2>1. todo' \in [Plugins!Actors -> Seq(StepNames)] /\ todo'[None] = todo[None]
      BY <1>0, <1>5, GivenUp, AllActors
    <2>2. Alone'
      BY <1>0, <1>1, <1>5, AloneGivesUp
    <2> QED
      BY <1>3, <2>1, <2>2
  <1>6. CASE Plugins!Check(r)
    <2>1. CASE disabled
      BY <1>5, <1>6, <2>1 DEF Plugins!Check, Plugins!choices
    <2>2. CASE ~disabled
      BY <1>4, <1>6, <2>2 DEF Plugins!Check, Plugins!choices
    <2> QED
      BY <2>1, <2>2
  <1>7. CASE Plugins!Install(r)
    BY <1>4, <1>7 DEF Plugins!Install, Plugins!choices
  <1>8. CASE Plugins!Erase(r)
    BY <1>4, <1>8 DEF Plugins!Erase, Plugins!choices
  <1>9. CASE Plugins!Forget(r)
    BY <1>4, <1>9 DEF Plugins!Forget
  <1>10. ASSUME NEW on \in BOOLEAN, Plugins!SetRunning(r, on) PROVE PlugInv'
    <2>1. CASE on
      <3>1. Plugins!Step(r, "run") /\ disabled' = disabled
        BY <1>10, <2>1 DEF Plugins!SetRunning
      <3> QED
        BY <1>4, <3>1
    <2>2. CASE ~on
      <3>1. Plugins!Step(r, "halt") /\ disabled' = disabled /\ stopped'
        BY <1>10, <2>2 DEF Plugins!SetRunning
      <3> QED
        BY <1>4, <3>1
    <2> QED
      BY <2>1, <2>2
  <1>11. ASSUME NEW on \in BOOLEAN, Plugins!SetEnabled(r, on) PROVE PlugInv'
    <2>1. CASE Plugins!GiveUp(r) /\ faults' = faults + 1
      BY <1>2, <1>5, <2>1
    <2>2. CASE Plugins!Step(r, IF on THEN "enable" ELSE "disable")
      <3>1. CASE on
        <4>1. Plugins!Step(r, "enable") /\ ~disabled'
          BY <1>11, <2>2, <3>1 DEF Plugins!SetEnabled
        <4> QED
          BY <1>4, <4>1
      <3>2. CASE ~on
        <4>1. Plugins!Step(r, "disable")
          BY <2>2, <3>2
        <4> QED
          BY <1>4, <4>1
      <3> QED
        BY <3>1, <3>2
    <2> QED
      BY <1>11, <2>1, <2>2 DEF Plugins!SetEnabled
  <1> QED
    BY <1>6, <1>7, <1>8, <1>9, <1>10, <1>11

(* A step of the manager, for a request or for the ticker.                   *)
LEMMA ManagerStep ==
  ASSUME PlugInv, NEW a \in Plugins!Actors, NEW s \in {"kill", "scan", "resolve", "process", "sweep"},
         Plugins!Step(a, s), Plugins!OneBackend',
         UNCHANGED <<disabled, stopped, overlapped, revision, latest>>, faults' \in {faults, faults + 1},
         calm' \in BOOLEAN, calm' => calm /\ a = None,
         seen' \in [Plugins!Actors -> [active : BOOLEAN, revision : Nat]],
         a = None /\ calm' =>
           /\ s \in {"scan", "resolve", "process"} => seen'[None].active = Wanted
           /\ s = "resolve" => seen'[None].revision = revision
           /\ s = "process" /\ Wanted => Settled'
           /\ s = "sweep" => IF Wanted THEN Settled' ELSE alive' = {}
  PROVE  PlugInv'
  <1>0. PlugTyped /\ Alone /\ TickerPass
    BY DEF PlugInv
  <1>1. todo' \in [Plugins!Actors -> Seq(StepNames)] /\ \A b \in Plugins!Actors : b # a => todo'[b] = todo[b]
    BY <1>0, Stepped
  <1>2. faults' \in Nat /\ (faults' = 0 => faults = 0)
    BY <1>0 DEF PlugTyped
  <1>3. PlugTyped'
    BY <1>0, <1>1, <1>2 DEF PlugTyped, Plugins!Actors
  <1>4. CASE a # None
    <2>1. a \in Callers
      BY <1>4 DEF Plugins!Actors
    <2>2. Alone'
      BY <1>0, <1>2, <2>1, AloneStep
    <2> QED
      BY <1>1, <1>3, <1>4, <2>2, AllActors, NotTheTicker
  <1>5. CASE a = None
    <2>1. /\ Len(Pass') = Len(Pass) - 1 /\ Len(Pass) \in 1..4
          /\ \A i \in 1..Len(Pass') : Pass'[i] = StepLeft(Len(Pass') - i)
          /\ s = StepLeft(Len(Pass) - 1)
          /\ \A r \in Callers : todo'[r] = todo[r]
      BY <1>0, <1>5, PassGoesOn
    <2>2. Alone'
      BY <1>0, <1>2, <2>1, AloneStays
    <2>3. Wanted' = Wanted
      BY DEF Wanted
    <2>4. s = StepLeft(Len(Pass'))
      BY <2>1
    <2>5. \A n \in 0..3 : /\ n = 3 => StepLeft(n) = "scan"
                          /\ n = 2 => StepLeft(n) = "resolve"
                          /\ n = 1 => StepLeft(n) = "process"
                          /\ n = 0 => StepLeft(n) = "sweep"
      BY DEF StepLeft
    <2>8. Len(Pass') \in 0..3
      BY <2>1
    <2>9. ASSUME calm'
          PROVE  /\ Len(Pass') \in 1..3 => seen'[None].active = Wanted
                 /\ Len(Pass') = 2 => seen'[None].revision = revision
                 /\ Len(Pass') = 1 /\ Wanted => Settled'
                 /\ Len(Pass') = 0 => IF Wanted THEN Settled' ELSE alive' = {}
      <3>1. /\ Len(Pass') = 3 => s = "scan"
            /\ Len(Pass') = 2 => s = "resolve"
            /\ Len(Pass') = 1 => s = "process"
            /\ Len(Pass') = 0 => s = "sweep"
        BY <2>4, <2>5, <2>8
      <3> QED
        BY <1>5, <2>8, <2>9, <3>1
    <2>10. TickerPass'
      <3>1. Len(Pass') <= 4
        <4>1. \A n \in 0..3 : n <= 4
          OBVIOUS
        <4> QED
          BY <2>8, <4>1
      <3>2. (\A i \in 1..Len(Pass) : Pass[i] = StepLeft(Len(Pass) - i))'
        BY <2>1 DEF StepLeft
      <3> QED
        BY <2>3, <2>9, <3>1, <3>2 DEF TickerPass
    <2> QED
      BY <1>3, <2>2, <2>10 DEF PlugInv
  <1> QED
    BY <1>4, <1>5

\* Killing the process that is known leaves none.
LEMMA KillLeavesNone ==
  ASSUME Plugins!OneBackend, Plugins!Kill
  PROVE  alive' = {} /\ Plugins!OneBackend'
  BY DEF Plugins!OneBackend, Plugins!Kill

LEMMA ManagerKeeps ==
  ASSUME PlugInv, NEW a \in Plugins!Actors,
         Plugins!StopPlugin(a) \/ Plugins!Scan(a) \/ Plugins!Resolve(a) \/ Plugins!Process(a)
           \/ Plugins!Sweep(a)
  PROVE  PlugInv'
  <1>0. PlugTyped /\ TickerPass /\ Alone /\ Plugins!OneBackend
    BY DEF PlugInv
  <1>1. /\ UNCHANGED <<disabled, stopped, overlapped, revision, latest>>
    BY DEF Plugins!StopPlugin, Plugins!Scan, Plugins!Resolve, Plugins!Process, Plugins!Sweep,
       Plugins!choices, Plugins!source, Plugins!counts
  <1>2. /\ revision \in Nat /\ stopped \in BOOLEAN /\ calm \in BOOLEAN
        /\ seen \in [Plugins!Actors -> [active : BOOLEAN, revision : Nat]]
        /\ seen[a] \in [active : BOOLEAN, revision : Nat]
        /\ Plugins!Nothing \in [active : BOOLEAN, revision : Nat]
    BY <1>0 DEF PlugTyped, Plugins!Nothing
  <1>3. ASSUME NEW s, Plugins!Step(None, s), calm
        PROVE  /\ Len(Pass) \in 1..4
               /\ s = "resolve" => Len(Pass) = 3
               /\ s = "process" => Len(Pass) = 2
               /\ s = "sweep" => Len(Pass) = 1
               /\ s # "kill"
    <2>1. Pass # <<>> /\ Head(Pass) = s
      BY <1>3 DEF Plugins!Step, Pass
    <2> QED
      BY <1>0, <2>1, PassIs
  <1>4. CASE Plugins!StopPlugin(a)
    <2>1. /\ Plugins!Step(a, "kill") /\ UNCHANGED <<seen, faults>> /\ calm' = (calm /\ a = None)
          /\ Plugins!Kill
      BY <1>4 DEF Plugins!StopPlugin, Plugins!Disturbs
    <2>2. a = None => ~calm'
      BY <1>3, <2>1
    <2> QED
      BY <1>0, <1>1, <1>2, <2>1, <2>2, KillLeavesNone, ManagerStep
  <1>5. CASE Plugins!Scan(a)
    <2> DEFINE proxied == todo[a] = Plugins!Program.proxy
               found == [active |-> ~stopped /\ (proxied \/ revision # 0), revision |-> 0]
    <2>1. /\ seen' = [seen EXCEPT ![a] = found]
          /\ IF proxied /\ stopped THEN Plugins!GiveUp(a) ELSE Plugins!Step(a, "scan")
          /\ todo[a] # <<>> /\ Head(todo[a]) = "scan" /\ calm' = (calm /\ a = None)
          /\ UNCHANGED <<process, alive, faults>>
      BY <1>5 DEF Plugins!Scan, Plugins!Disturbs, Plugins!backend
    <2>2. found \in [active : BOOLEAN, revision : Nat]
      BY <1>2
    <2>3. seen' \in [Plugins!Actors -> [active : BOOLEAN, revision : Nat]] /\ seen'[a] = found
      BY <1>2, <2>1, <2>2
    <2>4. Plugins!OneBackend'
      BY <1>0, <2>1 DEF Plugins!OneBackend
    <2>5. ASSUME a = None PROVE ~proxied
      <3>1. Len(Pass) = 4 /\ Pass = todo[a]
        BY <1>0, <2>1, <2>5, PassIs DEF Pass
      <3>2. Plugins!Program.proxy = <<"scan", "resolve", "process">>
        BY DEF Plugins!Program
      <3>3. Len(<<"scan", "resolve", "process">>) = 3
        OBVIOUS
      <3> QED
        BY <3>1, <3>2, <3>3
    <2>6. a = None => seen'[None].active = Wanted
      BY <1>2, <2>3, <2>5 DEF Wanted
    <2> HIDE DEF proxied, found
    <2>7. CASE Plugins!Step(a, "scan")
      BY <1>0, <1>1, <1>2, <2>1, <2>3, <2>4, <2>6, <2>7, ManagerStep
    <2>8. CASE proxied /\ Plugins!GiveUp(a)
      <3>1. a \in Callers
        BY <2>5, <2>8 DEF Plugins!Actors
      <3>2. todo' \in [Plugins!Actors -> Seq(StepNames)] /\ todo'[None] = todo[None]
        BY <1>0, <2>8, <3>1, GivenUp, AllActors
      <3>3. PlugTyped'
        BY <1>0, <1>1, <1>2, <2>1, <2>3, <3>2 DEF PlugTyped, Plugins!Actors
      <3>4. Alone'
        BY <1>0, <1>1, <2>1, <2>8, <3>1, AloneGivesUp
      <3>5. ~calm'
        BY <2>1, <3>1, AllActors
      <3> QED
        BY <2>4, <3>2, <3>3, <3>4, <3>5, NotTheTicker
    <2> QED
      BY <2>1, <2>7, <2>8
  <1>6. CASE Plugins!Resolve(a)
    <2>1. /\ Plugins!Step(a, "resolve") /\ seen' = [seen EXCEPT ![a].revision = revision]
          /\ calm' = (calm /\ a = None) /\ UNCHANGED <<process, alive, faults>>
      BY <1>6 DEF Plugins!Resolve, Plugins!Disturbs, Plugins!backend
    <2>2. /\ seen' \in [Plugins!Actors -> [active : BOOLEAN, revision : Nat]]
          /\ seen'[a].active = seen[a].active /\ seen'[a].revision = revision
      BY <1>2, <2>1
    <2>3. a = None /\ calm' => seen'[None].active = Wanted
      <3>1. SUFFICES ASSUME a = None, calm' PROVE seen'[None].active = Wanted
        OBVIOUS
      <3>2. calm /\ Plugins!Step(None, "resolve")
        BY <2>1, <3>1
      <3>3. Len(Pass) = 3
        BY <1>3, <3>2
      <3>4. seen[None].active = Wanted
        BY <1>0, <3>2, <3>3 DEF TickerPass
      <3> QED
        BY <2>2, <3>1, <3>4
    <2>4. Plugins!OneBackend'
      BY <1>0, <2>1 DEF Plugins!OneBackend
    <2> QED
      BY <1>1, <1>2, <2>1, <2>2, <2>3, <2>4, ManagerStep
  <1>7. CASE Plugins!Process(a)
    <2> DEFINE needed == seen[a].active /\ seen[a].revision # 0
               there == process.id \in alive /\ process.revision = seen[a].revision
    <2>1. /\ Plugins!Step(a, "process")
          /\ seen' = [seen EXCEPT ![a] = IF Len(todo[a]) = 1 THEN Plugins!Nothing ELSE [@ EXCEPT !.revision = 0]]
          /\ IF ~needed \/ there THEN UNCHANGED <<process, alive, faults>> /\ calm' = (calm /\ a = None)
             ELSE \/ /\ process' = [id |-> Plugins!NewId(Plugins!Replace(a)), revision |-> seen[a].revision]
                     /\ alive' = Plugins!Replace(a) \cup {Plugins!NewId(Plugins!Replace(a))}
                     /\ calm' = (calm /\ a = None) /\ UNCHANGED faults
                  \/ /\ faults' = faults + 1 /\ process' = Plugins!NoProcess /\ alive' = Plugins!Replace(a)
                     /\ calm' = FALSE
      BY <1>7 DEF Plugins!Process, Plugins!Disturbs, Plugins!backend
    <2>2. /\ seen' \in [Plugins!Actors -> [active : BOOLEAN, revision : Nat]]
          /\ Len(todo[a]) # 1 => seen'[a].active = seen[a].active
      BY <1>2, <2>1
    <2>3. Plugins!Replace(a) = {}
      BY <1>0 DEF Plugins!Replace, Plugins!OneBackend
    <2> DEFINE id == Plugins!NewId(Plugins!Replace(a))
    <2>4. /\ Plugins!OneBackend' /\ calm' \in BOOLEAN /\ (calm' => calm /\ a = None)
          /\ faults' \in {faults, faults + 1}
          /\ needed /\ calm' => process'.id \in alive' /\ process'.revision = seen[a].revision
      <3>1. CASE ~needed \/ there
        <4>1. UNCHANGED <<process, alive, faults>> /\ calm' = (calm /\ a = None)
          BY <2>1, <3>1
        <4>2. Plugins!OneBackend'
          BY <1>0, <4>1 DEF Plugins!OneBackend
        <4>3. needed => process'.id \in alive' /\ process'.revision = seen[a].revision
          BY <3>1, <4>1
        <4> HIDE DEF needed, there
        <4> QED
          BY <1>2, <4>1, <4>2, <4>3
      <3>2. CASE /\ process' = [id |-> id, revision |-> seen[a].revision]
                 /\ alive' = Plugins!Replace(a) \cup {id}
                 /\ calm' = (calm /\ a = None) /\ UNCHANGED faults
        <4>1. alive' = {id} /\ process'.id = id /\ process'.revision = seen[a].revision
          BY <2>3, <3>2
        <4> HIDE DEF id, needed, there
        <4>2. Plugins!OneBackend' /\ process'.id \in alive'
          BY <4>1 DEF Plugins!OneBackend
        <4> QED
          BY <1>2, <3>2, <4>1, <4>2
      <3>3. CASE faults' = faults + 1 /\ alive' = Plugins!Replace(a) /\ calm' = FALSE
        <4>1. Plugins!OneBackend'
          BY <2>3, <3>3 DEF Plugins!OneBackend
        <4> HIDE DEF needed, there
        <4> QED
          BY <3>3, <4>1
      <3> HIDE DEF needed, there
      <3> QED
        BY <2>1, <3>1, <3>2, <3>3
    <2>5. needed /\ calm' => process'.id \in alive' /\ process'.revision = seen[a].revision
      BY <2>4
    <2>6. ASSUME a = None, calm'
          PROVE  /\ seen'[None].active = Wanted
                 /\ Wanted => Settled'
      <3>1. Len(Pass) = 2 /\ calm
        BY <1>3, <2>1, <2>4, <2>6
      <3>2. seen[None].active = Wanted /\ seen[None].revision = revision /\ Len(todo[None]) = 2
        BY <1>0, <3>1 DEF TickerPass, Pass
      <3>3. seen'[None].active = Wanted
        BY <2>2, <2>6, <3>2
      <3>4. Wanted => needed
        BY <2>6, <3>2 DEF Wanted
      <3>5. Wanted => process'.id \in alive' /\ process'.revision = revision'
        BY <1>1, <2>5, <2>6, <3>2, <3>4
      <3> QED
        BY <3>3, <3>5 DEF Settled
    <2> HIDE DEF needed, there
    <2> QED
      BY <1>1, <1>2, <2>1, <2>2, <2>4, <2>6, ManagerStep
  <1>8. CASE Plugins!Sweep(a)
    <2>1. /\ Plugins!Step(a, "sweep") /\ seen' = [seen EXCEPT ![a] = Plugins!Nothing]
          /\ IF seen[a].active THEN UNCHANGED <<process, alive>> ELSE Plugins!Kill
          /\ calm' = (calm /\ a = None) /\ UNCHANGED faults
      BY <1>8 DEF Plugins!Sweep, Plugins!Disturbs, Plugins!backend
    <2>2. seen' \in [Plugins!Actors -> [active : BOOLEAN, revision : Nat]]
      BY <1>2, <2>1
    <2>3. Plugins!OneBackend' /\ (~seen[a].active => alive' = {})
      BY <1>0, <2>1, KillLeavesNone DEF Plugins!OneBackend
    <2>4. ASSUME a = None, calm' PROVE IF Wanted THEN Settled' ELSE alive' = {}
      <3>1. Len(Pass) = 1 /\ calm
        BY <1>3, <2>1, <2>4
      <3>2. seen[None].active = Wanted /\ (Wanted => Settled)
        BY <1>0, <3>1 DEF TickerPass
      <3>3. Wanted => Settled'
        BY <1>1, <2>1, <2>4, <3>2 DEF Settled
      <3> QED
        BY <2>3, <2>4, <3>2, <3>3
    <2> QED
      BY <1>1, <1>2, <2>1, <2>2, <2>3, <2>4, ManagerStep
  <1> QED
    BY <1>4, <1>5, <1>6, <1>7, <1>8

LEMMA PlugNext ==
  ASSUME PlugInv, Plugins!Next
  PROVE  PlugInv'
  <1>0. PlugTyped /\ TickerPass /\ Alone /\ Plugins!OneBackend
    BY DEF PlugInv
  <1>1. CASE Plugins!Tick
    <2>1. /\ todo[None] = <<>> /\ todo' = [todo EXCEPT ![None] = Plugins!ActivateAll]
          /\ calm' \in BOOLEAN
          /\ UNCHANGED <<revision, latest, disabled, stopped, process, alive, seen, faults, overlapped>>
      BY <1>1 DEF Plugins!Tick, Plugins!choices, Plugins!backend, Plugins!source, Plugins!counts
    <2>2. /\ todo' \in [Plugins!Actors -> Seq(StepNames)] /\ todo'[None] = Plugins!ActivateAll
          /\ \A r \in Callers : todo'[r] = todo[r]
      BY <1>0, <2>1, ActivateAllIs, AllActors DEF PlugTyped
    <2>3. PlugTyped'
      BY <1>0, <2>1, <2>2 DEF PlugTyped, Plugins!Actors
    <2>4. Alone'
      BY <1>0, <2>1, <2>2, AloneStays
    <2>5. TickerPass'
      <3>1. Pass' = Plugins!ActivateAll
        BY <2>2 DEF Pass
      <3>2. Len(Pass') = 4 /\ Pass'[1] = "scan" /\ Pass'[2] = "resolve" /\ Pass'[3] = "process" /\ Pass'[4] = "sweep"
        BY <3>1, ActivateAllIs
      <3>3. (\A i \in 1..Len(Pass) : Pass[i] = StepLeft(Len(Pass) - i))'
        BY <3>2 DEF StepLeft
      <3> QED
        BY <3>2, <3>3 DEF TickerPass
    <2>6. Plugins!OneBackend'
      BY <1>0, <2>1 DEF Plugins!OneBackend
    <2> QED
      BY <2>3, <2>4, <2>5, <2>6 DEF PlugInv
  <1>2. CASE Plugins!Exits \/ Plugins!Close \/ Plugins!Closed
    <2>1. /\ UNCHANGED <<revision, latest, disabled, stopped, todo, seen, overlapped>>
          /\ calm' \in BOOLEAN /\ faults' \in {faults, faults + 1}
          /\ ~calm' \/ UNCHANGED <<calm, process, alive>>
      BY <1>0, <1>2 DEF PlugTyped, Plugins!Exits, Plugins!Close, Plugins!Closed, Plugins!choices, Plugins!backend,
         Plugins!source, Plugins!counts
    <2>2. faults' \in Nat /\ (faults' = 0 => faults = 0)
      BY <1>0, <2>1 DEF PlugTyped
    <2>3. PlugTyped'
      BY <1>0, <2>1, <2>2 DEF PlugTyped, Plugins!Actors
    <2>4. Alone'
      BY <1>0, <2>1, <2>2, AloneStays
    <2>5. Plugins!OneBackend'
      BY <1>0, <1>2, KillLeavesNone
         DEF Plugins!Exits, Plugins!Close, Plugins!Closed, Plugins!OneBackend, Plugins!backend
    <2> QED
      BY <2>1, <2>3, <2>4, <2>5, NotTheTicker
  <1>3. ASSUME NEW r \in Callers, NEW k \in DOMAIN Plugins!Program, Plugins!Request(r, k) PROVE PlugInv'
    BY <1>3, RequestKeeps
  <1>4. ASSUME NEW r \in Callers, todo[r] # <<>>,
               Plugins!Check(r) \/ Plugins!Install(r) \/ Plugins!Erase(r) \/ Plugins!Forget(r)
                 \/ \E on \in BOOLEAN : Plugins!SetRunning(r, on) \/ Plugins!SetEnabled(r, on)
        PROVE  PlugInv'
    BY <1>4, OwnStep
  <1>5. ASSUME NEW a \in Plugins!Actors,
               Plugins!StopPlugin(a) \/ Plugins!Scan(a) \/ Plugins!Resolve(a) \/ Plugins!Process(a)
                 \/ Plugins!Sweep(a)
        PROVE  PlugInv'
    BY <1>5, ManagerKeeps
  <1> QED
    BY <1>1, <1>2, <1>3, <1>4, <1>5 DEF Plugins!Next

LEMMA PlugStutter ==
  ASSUME PlugInv, UNCHANGED pluginVars
  PROVE  PlugInv'
  <1>1. UNCHANGED <<revision, latest, disabled, stopped, process, alive, todo, seen, faults, overlapped, calm>>
    BY DEF pluginVars
  <1>2. PlugTyped' /\ Plugins!OneBackend'
    BY <1>1 DEF PlugInv, PlugTyped, Plugins!Actors, Plugins!OneBackend
  <1>3. Alone'
    BY <1>1, AloneStays DEF PlugInv
  <1> QED
    BY <1>1, <1>2, <1>3, NotTheTicker

LEMMA PlugHolds ==
  ASSUME PlugInv
  PROVE  Plugins!OneBackend /\ Plugins!PassSettles /\ Plugins!DisabledIsStopped
  <1>1. Plugins!OneBackend /\ TickerPass /\ Alone
    BY DEF PlugInv
  <1>2. todo[None] = <<>> => Len(Pass) = 0
    BY DEF Pass
  <1>3. Plugins!PassSettles
    BY <1>1, <1>2 DEF TickerPass, Wanted, Settled, Plugins!PassSettles
  <1>4. Plugins!DisabledIsStopped
    BY <1>1 DEF Alone, Plugins!Busy, Plugins!DisabledIsStopped
  <1> QED
    BY <1>1, <1>3, <1>4

-----------------------------------------------------------------------------
(* DesktopShell.                                                             *)

DeskTyped ==
  /\ Desk!TypeOK
  /\ page \in 0..MaxLaunches /\ launched \in 0..MaxLaunches /\ (shell # "off" => launched > 0)
  /\ draining \in [Desk!Servers -> BOOLEAN] /\ timers \in [Desk!Servers -> Nat]
  /\ silent \subseteq Desk!Servers

(* The desktop asks one server for a bootstrap, and has the token of that one. *)
OneBootstrap ==
  /\ shell \in {"checking", "waiting"} => served = 0 /\ ~bootAsked
  /\ shell = "checking" => child = 0
  /\ bootAsked => served = 0
  /\ shell # "off" /\ (loading \/ page # 0) => served # 0
  /\ served = 0 /\ shell # "off" => ~servedKept

(* A server that was reclaimed does not drain, nor does the one the page works with;
   one that drains has no idle chat.                                         *)
Reclaimed ==
  /\ shell # "off" /\ servedKept => serverAt[served] \in {"serving", "crashed"} /\ ~draining[served]
  /\ shell # "off" /\ page # 0 => ~draining[page]
  /\ \A w \in Desk!Servers : draining[w] => chats[w] # "idle"

(* Who will end a server that serves: the desktop that uses it or has started it, a
   turn or a timer - or nobody, since it was not told.                       *)
WillEnd(w) == draining[w] /\ (chats[w] = "running" \/ timers[w] > 0)
Attended(w) == shell # "off" /\ w \in {served, child}
Owned ==
  /\ \A w \in Desk!Servers : serverAt[w] = "serving" => w \in silent \/ WillEnd(w) \/ Attended(w)
  /\ \A w \in Desk!Servers : serverAt[w] \in {"booting", "removing", "binding"} =>
       w \in silent \/ (shell # "off" /\ w = child)
  /\ shell # "off" /\ served # 0 => path \in {0, served, child} \cup silent

(* Unless two have been started beside each other, one server is alive.      *)
OneAlive == ~overlapping => \A v, w \in Desk!Alive : v = w

DeskInv == DeskTyped /\ OneBootstrap /\ Reclaimed /\ Owned /\ OneAlive /\ Desk!ServedAtPath

States == {"none", "booting", "removing", "binding", "serving", "retired", "closing", "gone", "crashed"}

LEMMA DeskInit == Desk!Init => DeskInv
  <1> SUFFICES ASSUME Desk!Init PROVE DeskInv
    OBVIOUS
  <1>0. MaxLaunches \in Nat
    BY ServicesAssumption
  <1>1. DeskTyped
    BY <1>0 DEF Desk!Init, DeskTyped, Desk!TypeOK, Desk!Servers
  <1>2. OneBootstrap /\ Reclaimed /\ Owned
    BY DEF Desk!Init, OneBootstrap, Reclaimed, Owned
  <1>3. OneAlive /\ Desk!ServedAtPath
    BY DEF Desk!Init, OneAlive, Desk!Alive, Desk!ServedAtPath
  <1> QED
    BY <1>1, <1>2, <1>3 DEF DeskInv

LEMMA DeskTypes ==
  ASSUME DeskInv
  PROVE  /\ serverAt \in [Desk!Servers -> States] /\ MaxLaunches \in Nat
         /\ chats \in [Desk!Servers -> {"none", "idle", "running"}]
         /\ draining \in [Desk!Servers -> BOOLEAN] /\ timers \in [Desk!Servers -> Nat]
         /\ 0 \notin Desk!Servers /\ Desk!Servers \subseteq 0..MaxLaunches
         /\ \A n \in 0..MaxLaunches : n # 0 => n \in Desk!Servers
         /\ path \in 0..MaxLaunches /\ served \in 0..MaxLaunches /\ child \in 0..MaxLaunches
         /\ page \in 0..MaxLaunches
  <1>1. MaxLaunches \in Nat
    BY ServicesAssumption
  <1>2. DeskTyped /\ Desk!TypeOK
    BY DEF DeskInv, DeskTyped
  <1> QED
    BY <1>1, <1>2 DEF DeskTyped, Desk!TypeOK, Desk!Servers, States

(* A step of a server leaves the desktop alone.                              *)
LEMMA ServerStep ==
  ASSUME DeskInv, NEW w \in Desk!Servers,
         UNCHANGED <<shell, child, bootAsked, served, servedKept, loading, page, draining,
                     silent, overlapping, launched>>,
         serverAt' \in [Desk!Servers -> States], path' \in 0..MaxLaunches,
         timers' \in [Desk!Servers -> Nat],
         chats' \in [Desk!Servers -> {"none", "idle", "running"}],
         \A v \in Desk!Servers : v # w =>
           serverAt'[v] = serverAt[v] /\ chats'[v] = chats[v] /\ timers'[v] = timers[v],
         serverAt'[w] = serverAt[w] \/ w \in Desk!Alive,
         serverAt[w] \in {"serving", "crashed"} /\ ~draining[w] => serverAt'[w] \in {"serving", "crashed"},
         draining[w] => chats'[w] # "idle",
         serverAt'[w] = "serving" => w \in silent \/ WillEnd(w)' \/ Attended(w),
         serverAt'[w] \in {"booting", "removing", "binding"} =>
           serverAt[w] \in {"booting", "removing", "binding"},
         path' \in {path, 0} \/ (path' = w /\ serverAt[w] = "binding"),
         path' # path => path = 0 \/ (w \in Desk!Alive /\ serverAt'[w] \notin {"serving", "retired"}),
         serverAt'[w] \in {"serving", "retired"} => serverAt[w] \in {"serving", "retired"} \/ path' = w
  PROVE  DeskInv'
  <1>0. DeskTyped /\ OneBootstrap /\ Reclaimed /\ Owned /\ OneAlive /\ Desk!ServedAtPath
    BY DEF DeskInv
  <1>1. DeskTyped'
    BY <1>0 DEF DeskTyped, Desk!TypeOK, States, Desk!Servers
  <1>2. OneBootstrap'
    BY <1>0 DEF OneBootstrap
  <1>3. served # 0 => served \in Desk!Servers
    BY DeskTypes
  <1>4. Reclaimed'
    <2>1. \A v \in Desk!Servers : draining[v] => chats'[v] # "idle"
      BY <1>0 DEF Reclaimed
    <2>2. shell # "off" /\ servedKept => serverAt'[served] \in {"serving", "crashed"} /\ ~draining[served]
      BY <1>0, <1>3 DEF Reclaimed, OneBootstrap
    <2>3. Desk!Servers' = Desk!Servers
      BY DEF Desk!Servers
    <2> QED
      BY <1>0, <2>1, <2>2, <2>3 DEF Reclaimed
  <1>5. Owned'
    <2>1. ASSUME NEW v \in Desk!Servers, serverAt'[v] = "serving"
          PROVE  v \in silent \/ WillEnd(v)' \/ Attended(v)
      <3>1. CASE v = w
        BY <2>1, <3>1
      <3>2. CASE v # w
        BY <1>0, <2>1, <3>2 DEF Owned, WillEnd
      <3> QED
        BY <3>1, <3>2
    <2>2. ASSUME NEW v \in Desk!Servers, serverAt'[v] \in {"booting", "removing", "binding"}
          PROVE  v \in silent \/ (shell # "off" /\ v = child)
      BY <1>0, <2>2 DEF Owned
    <2>3. shell # "off" /\ served # 0 => path' \in {0, served, child} \cup silent
      BY <1>0 DEF Owned
    <2>4. \A v \in Desk!Servers : Attended(v)' <=> Attended(v)
      BY DEF Attended
    <2>5. Desk!Servers' = Desk!Servers
      BY DEF Desk!Servers
    <2> QED
      BY <2>1, <2>2, <2>3, <2>4, <2>5 DEF Owned
  <1>6. Desk!Alive' \subseteq Desk!Alive
    BY DEF Desk!Alive, Desk!Servers
  <1>7. OneAlive'
    BY <1>0, <1>6 DEF OneAlive
  <1>8. Desk!ServedAtPath'
    <2> SUFFICES ASSUME ~overlapping, NEW v \in Desk!Servers, serverAt'[v] \in {"serving", "retired"}
                 PROVE  path' = v
      BY DEF Desk!ServedAtPath, Desk!Servers
    <2>2. CASE serverAt[v] \in {"serving", "retired"}
      <3>1. path = v /\ v # 0 /\ v \in Desk!Alive
        BY <1>0, <2>2, DeskTypes DEF Desk!ServedAtPath, Desk!Alive
      <3>2. w \in Desk!Alive => w = v
        BY <1>0, <3>1 DEF OneAlive
      <3> QED
        BY <3>1, <3>2
    <2>3. CASE serverAt[v] \notin {"serving", "retired"}
      BY <2>3
    <2> QED
      BY <2>2, <2>3
  <1> QED
    BY <1>1, <1>2, <1>4, <1>5, <1>7, <1>8 DEF DeskInv

\* The steps of a server, whichever it is.
LEMMA ServerNext ==
  ASSUME DeskInv, NEW w \in Desk!Servers,
         Desk!Work(w) \/ Desk!Probe(w) \/ Desk!RemoveAbandoned(w) \/ Desk!Listen(w)
           \/ Desk!TurnEnds(w) \/ Desk!TimerFires(w) \/ Desk!CloseListener(w) \/ Desk!Exit(w)
           \/ Desk!Crash(w)
  PROVE  DeskInv'
  <1>0. DeskTyped /\ OneBootstrap /\ Reclaimed /\ Owned
    BY DEF DeskInv
  <1>1. /\ serverAt \in [Desk!Servers -> States]
        /\ chats \in [Desk!Servers -> {"none", "idle", "running"}]
        /\ draining \in [Desk!Servers -> BOOLEAN] /\ timers \in [Desk!Servers -> Nat]
        /\ w \in 0..MaxLaunches /\ 0 \in 0..MaxLaunches /\ w # 0 /\ path \in 0..MaxLaunches
    BY DeskTypes
  <1>2. UNCHANGED <<shell, child, bootAsked, served, servedKept, loading, page, draining,
                    silent, overlapping, launched>>
    BY DEF Desk!Work, Desk!Probe, Desk!RemoveAbandoned, Desk!Listen, Desk!TurnEnds, Desk!TimerFires,
           Desk!CloseListener, Desk!Exit, Desk!Crash, Desk!chatState, Desk!others, Desk!bound,
           Desk!shellVars, Desk!countVars
  <1>3. draining[w] => chats[w] # "idle"
    BY <1>0 DEF Reclaimed
  <1>4. serverAt[w] = "serving" => w \in silent \/ WillEnd(w) \/ Attended(w)
    BY <1>0 DEF Owned
  (* A step that moves the server from one place to another.                 *)
  <1>5. ASSUME NEW s \in States, Desk!Becomes(w, s), UNCHANGED <<timers, chats>>,
               serverAt[w] \notin {"none", "gone", "crashed", "serving"},
               path' \in {path, 0} \/ (path' = w /\ serverAt[w] = "binding"),
               path' # path => path = 0 \/ s \notin {"serving", "retired"},
               s \in {"serving", "retired"} => path' = w /\ serverAt[w] = "binding",
               s \in {"booting", "removing", "binding"} => serverAt[w] \in {"booting", "removing", "binding"}
        PROVE  DeskInv'
    <2>1. /\ serverAt' \in [Desk!Servers -> States] /\ serverAt'[w] = s
          /\ \A v \in Desk!Servers : v # w => serverAt'[v] = serverAt[v]
      BY <1>1, <1>5 DEF Desk!Becomes
    <2>2. w \in Desk!Alive
      BY <1>5 DEF Desk!Alive
    <2>3. path' \in 0..MaxLaunches
      BY <1>1, <1>5
    <2>4. s = "serving" => w \in silent \/ Attended(w)
      BY <1>0, <1>5 DEF Owned, Attended
    <2> QED
      BY <1>1, <1>2, <1>3, <1>5, <2>1, <2>2, <2>3, <2>4, ServerStep
  <1>6. CASE Desk!Probe(w)
    BY <1>1, <1>5, <1>6 DEF Desk!Probe, Desk!chatState, States
  <1>7. CASE Desk!RemoveAbandoned(w)
    BY <1>1, <1>5, <1>7 DEF Desk!RemoveAbandoned, Desk!chatState, States
  <1>8. CASE Desk!Listen(w)
    BY <1>1, <1>5, <1>8 DEF Desk!Listen, Desk!chatState, States
  <1>9. CASE Desk!Exit(w)
    BY <1>1, <1>5, <1>9 DEF Desk!Exit, Desk!chatState, States
  (* A step that changes what the server does, and not where it stands.      *)
  <1>10. ASSUME UNCHANGED <<serverAt, path>>, timers' \in [Desk!Servers -> Nat],
                chats' \in [Desk!Servers -> {"none", "idle", "running"}],
                \A v \in Desk!Servers : v # w => chats'[v] = chats[v] /\ timers'[v] = timers[v],
                draining[w] => chats'[w] # "idle",
                draining[w] /\ WillEnd(w) => WillEnd(w)'
         PROVE  DeskInv'
    <2>1. WillEnd(w) => WillEnd(w)'
      BY <1>10 DEF WillEnd
    <2> QED
      BY <1>1, <1>2, <1>4, <1>10, <2>1, ServerStep
  <1>11. CASE Desk!Work(w)
    <2>1. UNCHANGED <<serverAt, path, timers>> /\ ~draining[w]
      BY <1>0, <1>1, <1>11 DEF Desk!Work, Reclaimed
    <2>2. /\ chats' \in [Desk!Servers -> {"none", "idle", "running"}]
          /\ \A v \in Desk!Servers : v # w => chats'[v] = chats[v]
      BY <1>1, <1>11 DEF Desk!Work
    <2> QED
      BY <1>1, <1>10, <2>1, <2>2
  <1>12. CASE Desk!TurnEnds(w)
    <2>1. UNCHANGED <<serverAt, path>> /\ chats[w] = "running"
      BY <1>12 DEF Desk!TurnEnds, Desk!bound
    <2>2. CASE draining[w]
      <3>1. chats' = [chats EXCEPT ![w] = "none"] /\ timers' = [timers EXCEPT ![w] = @ + 1]
        BY <1>12, <2>2 DEF Desk!TurnEnds
      <3>2. /\ timers' \in [Desk!Servers -> Nat] /\ chats' \in [Desk!Servers -> {"none", "idle", "running"}]
            /\ \A v \in Desk!Servers : v # w => chats'[v] = chats[v] /\ timers'[v] = timers[v]
            /\ chats'[w] = "none" /\ timers'[w] > 0
        BY <1>1, <3>1
      <3>3. WillEnd(w)'
        BY <1>2, <2>2, <3>2 DEF WillEnd
      <3> QED
        BY <1>10, <2>1, <3>2, <3>3
    <2>3. CASE ~draining[w]
      <3>1. chats' = [chats EXCEPT ![w] = "idle"] /\ timers' = timers
        BY <1>12, <2>3 DEF Desk!TurnEnds
      <3> QED
        BY <1>1, <1>10, <2>1, <2>3, <3>1
    <2> QED
      BY <2>2, <2>3
  <1>13. CASE Desk!TimerFires(w)
    <2>1. /\ timers[w] > 0 /\ serverAt[w] \in {"serving", "retired"} /\ UNCHANGED <<path, chats>>
          /\ timers' = [timers EXCEPT ![w] = @ - 1]
          /\ serverAt' = [serverAt EXCEPT ![w] = IF Desk!Retires(w) THEN "retired" ELSE serverAt[w]]
      BY <1>13 DEF Desk!TimerFires, Desk!Becomes
    <2>2. /\ timers' \in [Desk!Servers -> Nat]
          /\ \A v \in Desk!Servers : v # w => timers'[v] = timers[v]
      BY <1>1, <2>1
    <2>3. /\ serverAt' \in [Desk!Servers -> States]
          /\ \A v \in Desk!Servers : v # w => serverAt'[v] = serverAt[v]
          /\ serverAt'[w] = IF Desk!Retires(w) THEN "retired" ELSE serverAt[w]
      BY <1>1, <2>1 DEF States
    <2>4. w \in Desk!Alive
      BY <2>1 DEF Desk!Alive
    <2>5. serverAt'[w] = "serving" => w \in silent \/ WillEnd(w)' \/ Attended(w)
      <3>1. ASSUME serverAt'[w] = "serving", WillEnd(w) PROVE WillEnd(w)'
        <4>1. draining[w] /\ ~Desk!Retires(w)
          BY <2>3, <3>1 DEF WillEnd
        <4>2. chats[w] = "running"
          BY <1>1, <1>3, <4>1 DEF Desk!Retires
        <4> QED
          BY <1>2, <2>1, <4>1, <4>2 DEF WillEnd
      <3>2. serverAt'[w] = "serving" => serverAt[w] = "serving"
        BY <2>3
      <3> QED
        BY <1>4, <3>1, <3>2
    <2>6. ~draining[w] => serverAt'[w] = serverAt[w]
      BY <2>3 DEF Desk!Retires
    <2>7. serverAt'[w] \in {"serving", "retired"}
      BY <2>1, <2>3
    <2> QED
      BY <1>1, <1>2, <1>3, <2>1, <2>2, <2>3, <2>4, <2>5, <2>6, <2>7, ServerStep
  <1>14. CASE Desk!CloseListener(w) \/ Desk!Crash(w)
    <2>1. /\ chats' = [chats EXCEPT ![w] = "none"] /\ UNCHANGED timers
          /\ \/ path' = 0 /\ serverAt[w] = "retired" /\ serverAt' = [serverAt EXCEPT ![w] = "closing"]
             \/ path' = path /\ w \in Desk!Alive /\ serverAt' = [serverAt EXCEPT ![w] = "crashed"]
      BY <1>14 DEF Desk!CloseListener, Desk!Crash, Desk!Becomes
    <2>2. /\ chats' \in [Desk!Servers -> {"none", "idle", "running"}] /\ chats'[w] = "none"
          /\ \A v \in Desk!Servers : v # w => chats'[v] = chats[v]
      BY <1>1, <2>1
    <2>3. /\ serverAt' \in [Desk!Servers -> States]
          /\ \A v \in Desk!Servers : v # w => serverAt'[v] = serverAt[v]
          /\ serverAt'[w] \in {"closing", "crashed"}
          /\ serverAt'[w] = "crashed" \/ serverAt[w] = "retired"
      BY <1>1, <2>1 DEF States
    <2>4. w \in Desk!Alive
      BY <2>1 DEF Desk!Alive
    <2> QED
      BY <1>1, <1>2, <2>1, <2>2, <2>3, <2>4, ServerStep
  <1> QED
    BY <1>6, <1>7, <1>8, <1>9, <1>11, <1>12, <1>13, <1>14

(* A step of the desktop that leaves the servers alone.                      *)
LEMMA ShellStep ==
  ASSUME DeskInv, UNCHANGED <<path, serverAt, draining, timers, chats, overlapping>>,
         DeskTyped', OneBootstrap', silent \subseteq silent',
         shell' # "off" /\ servedKept' => shell # "off" /\ servedKept /\ served' = served,
         shell' # "off" /\ page' # 0 => shell # "off" /\ page' = page,
         shell' # "off" /\ served' # 0 => shell # "off" /\ served' = served /\ child' = child,
         \A w \in Desk!Servers : Attended(w) => w \in silent' \/ Attended(w)',
         \A w \in Desk!Servers : shell # "off" /\ w = child => w \in silent' \/ (shell' # "off" /\ w = child')
  PROVE  DeskInv'
  <1>0. DeskTyped /\ OneBootstrap /\ Reclaimed /\ Owned /\ OneAlive /\ Desk!ServedAtPath
    BY DEF DeskInv
  <1>1. Desk!Servers' = Desk!Servers /\ Desk!Alive' = Desk!Alive
    BY DEF Desk!Servers, Desk!Alive
  <1>2. Reclaimed'
    BY <1>0, <1>1 DEF Reclaimed
  <1>3. \A w \in Desk!Servers : WillEnd(w) => WillEnd(w)'
    BY DEF WillEnd
  <1>4. Owned'
    <2>1. \A w \in Desk!Servers : serverAt'[w] = "serving" => w \in silent' \/ WillEnd(w)' \/ Attended(w)'
      BY <1>0, <1>3 DEF Owned
    <2>2. \A w \in Desk!Servers : serverAt'[w] \in {"booting", "removing", "binding"} =>
            w \in silent' \/ (shell' # "off" /\ w = child')
      BY <1>0 DEF Owned
    <2>3. shell' # "off" /\ served' # 0 => path' \in {0, served', child'} \cup silent'
      BY <1>0 DEF Owned
    <2> QED
      BY <1>1, <2>1, <2>2, <2>3 DEF Owned
  <1>5. OneAlive'
    BY <1>0, <1>1 DEF OneAlive
  <1>6. Desk!ServedAtPath'
    BY <1>0, <1>1 DEF Desk!ServedAtPath
  <1> QED
    BY <1>2, <1>4, <1>5, <1>6 DEF DeskInv

\* The steps of the desktop alone.
LEMMA DesktopNext ==
  ASSUME DeskInv,
         Desk!Launch \/ Desk!Wait \/ Desk!Bootstrapped \/ Desk!Quit \/ Desk!Leave
  PROVE  DeskInv'
  <1>0. DeskTyped /\ OneBootstrap /\ Desk!TypeOK
    BY DEF DeskInv, DeskTyped
  <1>1. UNCHANGED <<path, serverAt, draining, timers, chats, overlapping>>
    BY DEF Desk!Launch, Desk!Wait, Desk!Bootstrapped, Desk!Quit, Desk!Leave, Desk!serverVars
  <1>2. Desk!Servers' = Desk!Servers /\ MaxLaunches \in Nat /\ Desk!Servers = 1..MaxLaunches
    BY ServicesAssumption DEF Desk!Servers
  <1>3. CASE Desk!Launch
    <2>1. /\ shell = "off" /\ shell' = "checking" /\ launched' = launched + 1 /\ launched < MaxLaunches
          /\ child' = 0 /\ bootAsked' = FALSE /\ served' = 0 /\ servedKept' = FALSE
          /\ loading' = FALSE /\ page' = 0 /\ silent' = silent
      BY <1>3 DEF Desk!Launch
    <2>2. DeskTyped'
      BY <1>0, <1>1, <1>2, <2>1 DEF DeskTyped, Desk!TypeOK
    <2>3. OneBootstrap'
      BY <2>1 DEF OneBootstrap
    <2> QED
      BY <1>1, <2>1, <2>2, <2>3, ShellStep DEF Attended
  <1>4. CASE Desk!Wait
    <2>1. /\ shell = "waiting" /\ shell' = "starting"
          /\ UNCHANGED <<child, served, servedKept, loading, page, silent, launched>>
      BY <1>4 DEF Desk!Wait, Desk!countVars
    <2>2. DeskTyped'
      BY <1>0, <1>1, <1>2, <2>1 DEF DeskTyped, Desk!TypeOK
    <2>3. OneBootstrap'
      BY <1>0, <2>1 DEF OneBootstrap
    <2> QED
      BY <1>1, <2>1, <2>2, <2>3, ShellStep DEF Attended
  <1>5. CASE Desk!Bootstrapped
    <2>1. /\ shell = "starting" /\ shell' \in {"open", "leaving"}
          /\ loading' = loading \/ served # 0
          /\ UNCHANGED <<child, bootAsked, served, servedKept, page, silent, launched>>
      BY <1>5 DEF Desk!Bootstrapped, Desk!countVars
    <2>2. DeskTyped'
      BY <1>0, <1>1, <1>2, <2>1 DEF DeskTyped, Desk!TypeOK
    <2>3. OneBootstrap'
      BY <1>0, <2>1 DEF OneBootstrap
    <2> QED
      BY <1>1, <2>1, <2>2, <2>3, ShellStep DEF Attended
  <1>6. CASE Desk!Quit
    <2>1. /\ shell \in {"checking", "waiting", "starting", "open"} /\ shell' \in {"detaching", "leaving"}
          /\ UNCHANGED <<child, bootAsked, served, servedKept, loading, page, silent, launched>>
      BY <1>6 DEF Desk!Quit, Desk!countVars
    <2>2. DeskTyped'
      BY <1>0, <1>1, <1>2, <2>1 DEF DeskTyped, Desk!TypeOK
    <2>3. OneBootstrap'
      BY <1>0, <2>1 DEF OneBootstrap
    <2> QED
      BY <1>1, <2>1, <2>2, <2>3, ShellStep DEF Attended
  <1>7. CASE Desk!Leave
    <2>1. /\ shell' = "off" /\ silent' = silent \cup ({served, child} \ {0})
          /\ UNCHANGED <<child, bootAsked, served, servedKept, loading, page, launched>>
      BY <1>7 DEF Desk!Leave, Desk!Left
    <2>2. silent \subseteq silent' /\ \A w \in Desk!Servers : w \in {served, child} => w \in silent'
      BY <1>2, <2>1
    <2>3. silent' \subseteq Desk!Servers
      BY <1>0, <1>2, <2>1 DEF DeskTyped, Desk!TypeOK
    <2>4. DeskTyped'
      BY <1>0, <1>1, <1>2, <2>1, <2>3 DEF DeskTyped, Desk!TypeOK
    <2>5. OneBootstrap'
      BY <1>0, <2>1 DEF OneBootstrap
    <2> QED
      BY <1>1, <2>1, <2>2, <2>4, <2>5, ShellStep DEF Attended
  <1> QED
    BY <1>3, <1>4, <1>5, <1>6, <1>7

\* The health check finds a server that answers, or starts one.
LEMMA HealthCheckKeeps ==
  ASSUME DeskInv, Desk!HealthCheck
  PROVE  DeskInv'
  <1>0. DeskTyped /\ OneBootstrap /\ Desk!TypeOK /\ Reclaimed /\ Owned /\ OneAlive /\ Desk!ServedAtPath
    BY DEF DeskInv, DeskTyped
  <1>1. /\ shell = "checking" /\ served = 0 /\ ~bootAsked /\ child = 0 /\ ~servedKept
        /\ ~loading /\ page = 0
        /\ UNCHANGED <<served, servedKept, loading, page, path, draining, timers, chats, silent, launched>>
    BY <1>0 DEF Desk!HealthCheck, OneBootstrap, DeskTyped, Desk!countVars
  <1>2. Desk!Servers' = Desk!Servers /\ MaxLaunches \in Nat /\ Desk!Servers = 1..MaxLaunches
    BY ServicesAssumption DEF Desk!Servers
  <1>3. CASE Desk!Answers
    <2>1. shell' = "starting" /\ UNCHANGED <<child, serverAt, overlapping>>
      BY <1>3 DEF Desk!HealthCheck
    <2>2. DeskTyped'
      BY <1>0, <1>1, <1>2, <2>1 DEF DeskTyped, Desk!TypeOK
    <2>3. OneBootstrap'
      BY <1>1, <2>1 DEF OneBootstrap
    <2> QED
      BY <1>1, <2>1, <2>2, <2>3, ShellStep DEF Attended
  <1>4. CASE ~Desk!Answers
    <2>1. /\ shell' = "waiting" /\ child' = launched /\ bootAsked' = bootAsked
          /\ serverAt' = [serverAt EXCEPT ![launched] = "booting"]
          /\ overlapping' = (overlapping \/ Desk!Alive # {})
      BY <1>4 DEF Desk!HealthCheck
    <2>2. launched \in Desk!Servers /\ launched \in 0..MaxLaunches
      BY <1>0, <1>1, <1>2 DEF DeskTyped
    <2>3. /\ serverAt' \in [Desk!Servers -> States] /\ serverAt'[launched] = "booting"
          /\ \A w \in Desk!Servers : w # launched => serverAt'[w] = serverAt[w]
      BY <2>1, <2>2, DeskTypes DEF States
    <2>4. DeskTyped'
      BY <1>0, <1>1, <1>2, <2>1, <2>2, <2>3 DEF DeskTyped, Desk!TypeOK, States
    <2>5. OneBootstrap'
      BY <1>1, <2>1 DEF OneBootstrap
    <2>6. Reclaimed'
      BY <1>0, <1>1, <1>2 DEF Reclaimed
    <2>7. Owned'
      <3>1. \A w \in Desk!Servers : WillEnd(w) => WillEnd(w)'
        BY <1>1 DEF WillEnd
      <3>2. \A w \in Desk!Servers : serverAt'[w] = "serving" => w \in silent \/ WillEnd(w)
        <4>1. \A w \in Desk!Servers : ~Attended(w)
          BY <1>1, <1>2 DEF Attended
        <4> QED
          BY <1>0, <2>3, <4>1 DEF Owned
      <3>3. \A w \in Desk!Servers : serverAt'[w] \in {"booting", "removing", "binding"} =>
              w \in silent \/ w = child'
        BY <1>0, <1>1, <1>2, <2>1, <2>3 DEF Owned
      <3> QED
        BY <1>1, <1>2, <2>1, <3>1, <3>2, <3>3 DEF Owned
    <2>8. ASSUME ~overlapping' PROVE ~overlapping /\ \A w \in Desk!Alive' : w = launched
      <3>1. ~overlapping /\ Desk!Alive = {}
        BY <2>1, <2>8
      <3>2. \A w \in Desk!Servers : w # launched => serverAt'[w] \in {"none", "gone", "crashed"}
        BY <2>3, <3>1 DEF Desk!Alive
      <3> QED
        BY <1>2, <3>1, <3>2 DEF Desk!Alive
    <2>9. OneAlive'
      BY <2>8 DEF OneAlive
    <2>10. Desk!ServedAtPath'
      <3>1. ASSUME ~overlapping', NEW w \in Desk!Servers PROVE serverAt'[w] \notin {"serving", "retired"}
        <4>1. serverAt'[w] \in {"serving", "retired"} => w \in Desk!Alive'
          BY <1>2 DEF Desk!Alive
        <4> QED
          BY <2>3, <2>8, <3>1, <4>1
      <3> QED
        BY <1>2, <3>1 DEF Desk!ServedAtPath
    <2> QED
      BY <2>4, <2>5, <2>6, <2>7, <2>9, <2>10 DEF DeskInv
  <1> QED
    BY <1>3, <1>4

(* A bootstrap, of the desktop or of its page: the server that answers does not drain. *)
LEMMA CancelDrain ==
  ASSUME DeskInv, Desk!Answers, draining' = [draining EXCEPT ![path] = FALSE],
         UNCHANGED <<path, serverAt, timers, chats, overlapping, shell, child>>,
         DeskTyped', OneBootstrap',
         silent' = IF shell = "off" THEN silent \cup {path} ELSE silent,
         \/ /\ shell # "off" => served = 0 /\ page' = 0
            /\ served' = path
            /\ servedKept' = (serverAt[path] = "serving")
         \/ /\ UNCHANGED <<served, servedKept>> /\ page' = path
            /\ shell # "off" => served # 0
  PROVE  DeskInv'
  <1>0. DeskTyped /\ OneBootstrap /\ Reclaimed /\ Owned /\ OneAlive /\ Desk!ServedAtPath
    BY DEF DeskInv
  <1>1. Desk!Servers' = Desk!Servers /\ Desk!Alive' = Desk!Alive
    BY DEF Desk!Servers, Desk!Alive
  <1>2. path \in Desk!Servers /\ 0 \notin Desk!Servers /\ path # 0
    BY DeskTypes DEF Desk!Answers
  <1>3. /\ ~draining'[path]
        /\ \A w \in Desk!Servers : w # path => draining'[w] = draining[w]
    BY <1>2, DeskTypes
  <1>4. \A w \in Desk!Servers : draining'[w] => draining[w]
    BY <1>3
  <1>5. served # 0 => served \in Desk!Servers
    BY DeskTypes
  <1>6. Reclaimed'
    <2>1. \A w \in Desk!Servers : draining'[w] => chats'[w] # "idle"
      BY <1>0, <1>4 DEF Reclaimed
    <2>2. shell' # "off" /\ servedKept' => serverAt'[served'] \in {"serving", "crashed"} /\ ~draining'[served']
      BY <1>0, <1>3, <1>4, <1>5 DEF Reclaimed
    <2>3. shell' # "off" /\ page' # 0 => ~draining'[page']
      BY <1>3
    <2> QED
      BY <1>1, <2>1, <2>2, <2>3 DEF Reclaimed
  <1>7. Owned'
    <2>1. ASSUME NEW w \in Desk!Servers, serverAt[w] = "serving"
          PROVE  w \in silent' \/ WillEnd(w)' \/ Attended(w)'
      <3>1. CASE w = path
        BY <1>0, <1>2, <3>1 DEF Owned, Attended
      <3>2. CASE w # path
        <4>1. WillEnd(w) => WillEnd(w)'
          BY <1>3, <3>2 DEF WillEnd
        <4>2. Attended(w) => Attended(w)'
          BY <1>2 DEF Attended
        <4> QED
          BY <1>0, <2>1, <4>1, <4>2 DEF Owned
      <3> QED
        BY <3>1, <3>2
    <2>2. \A w \in Desk!Servers : serverAt'[w] \in {"booting", "removing", "binding"} =>
            w \in silent' \/ (shell' # "off" /\ w = child')
      BY <1>0 DEF Owned
    <2>3. shell' # "off" /\ served' # 0 => path' \in {0, served', child'} \cup silent'
      BY <1>0 DEF Owned
    <2> QED
      BY <1>1, <2>1, <2>2, <2>3 DEF Owned
  <1>8. OneAlive' /\ Desk!ServedAtPath'
    BY <1>0, <1>1 DEF OneAlive, Desk!ServedAtPath
  <1> QED
    BY <1>6, <1>7, <1>8 DEF DeskInv

\* A bootstrap reclaims a server that drains.
LEMMA BootstrapKeeps ==
  ASSUME DeskInv, Desk!Bootstrap \/ Desk!Load
  PROVE  DeskInv'
  <1>0. DeskTyped /\ OneBootstrap /\ Desk!TypeOK
    BY DEF DeskInv, DeskTyped
  <1>1. /\ UNCHANGED <<path, serverAt, timers, chats, overlapping, shell, child, launched>>
        /\ Desk!Servers' = Desk!Servers /\ MaxLaunches \in Nat /\ Desk!Servers = 1..MaxLaunches
    BY ServicesAssumption DEF Desk!Bootstrap, Desk!Load, Desk!countVars, Desk!Servers
  <1>2. CASE Desk!Bootstrap
    <2>1. /\ Desk!Answers /\ draining' = [draining EXCEPT ![path] = FALSE]
          /\ bootAsked /\ bootAsked' = FALSE /\ served' = path
          /\ servedKept' = (serverAt[path] = "serving") /\ UNCHANGED <<loading, page>>
          /\ silent' = IF shell = "off" THEN silent \cup {path} ELSE silent
      BY <1>2 DEF Desk!Bootstrap
    <2>2. /\ served = 0 /\ shell \notin {"checking", "waiting"} /\ path \in Desk!Servers /\ path # 0
          /\ shell # "off" => page = 0 /\ ~loading
      BY <1>0, <2>1, DeskTypes DEF OneBootstrap, DeskTyped, Desk!Answers
    <2>3. draining' \in [Desk!Servers -> BOOLEAN]
      BY <2>1, DeskTypes
    <2>4. silent' \subseteq Desk!Servers
      BY <1>0, <2>1, <2>2 DEF DeskTyped
    <2>5. DeskTyped'
      BY <1>0, <1>1, <2>1, <2>3, <2>4 DEF DeskTyped, Desk!TypeOK
    <2>6. OneBootstrap'
      BY <1>1, <2>1, <2>2 DEF OneBootstrap
    <2> QED
      BY <1>1, <2>1, <2>2, <2>5, <2>6, CancelDrain
  <1>3. CASE Desk!Load /\ Desk!Answers
    <2>1. /\ Desk!Answers /\ draining' = [draining EXCEPT ![path] = FALSE]
          /\ loading /\ loading' = FALSE /\ page' = path
          /\ silent' = IF shell = "off" THEN silent \cup {path} ELSE silent
          /\ UNCHANGED <<served, servedKept, bootAsked>>
      BY <1>3 DEF Desk!Load
    <2>2. path \in Desk!Servers /\ (shell # "off" => served # 0)
      BY <1>0, <2>1, DeskTypes DEF OneBootstrap, Desk!Answers
    <2>3. draining' \in [Desk!Servers -> BOOLEAN]
      BY <2>1, DeskTypes
    <2>4. silent' \subseteq Desk!Servers
      BY <1>0, <2>1, <2>2 DEF DeskTyped
    <2>5. DeskTyped'
      BY <1>0, <1>1, <2>1, <2>3, <2>4 DEF DeskTyped, Desk!TypeOK
    <2>6. OneBootstrap'
      BY <1>0, <1>1, <2>1, <2>2 DEF OneBootstrap
    <2> QED
      BY <1>1, <2>1, <2>2, <2>5, <2>6, CancelDrain
  <1>4. CASE Desk!Load /\ ~Desk!Answers
    <2>1. /\ loading' = FALSE /\ UNCHANGED <<page, draining, silent, served, servedKept, bootAsked>>
      BY <1>4 DEF Desk!Load
    <2>2. DeskTyped'
      BY <1>0, <1>1, <2>1 DEF DeskTyped, Desk!TypeOK
    <2>3. OneBootstrap'
      BY <1>0, <1>1, <2>1 DEF OneBootstrap
    <2> QED
      BY <1>1, <2>1, <2>2, <2>3, ShellStep DEF Attended
  <1> QED
    BY <1>2, <1>3, <1>4

\* The desktop detaches, and its server drains.
LEMMA DetachKeeps ==
  ASSUME DeskInv, Desk!Detach
  PROVE  DeskInv'
  <1>0. DeskTyped /\ OneBootstrap /\ Desk!TypeOK /\ Reclaimed /\ Owned /\ OneAlive /\ Desk!ServedAtPath
    BY DEF DeskInv, DeskTyped
  <1>1. /\ UNCHANGED <<path, serverAt, overlapping, child, bootAsked, served, servedKept, loading, page, launched>>
        /\ shell = "detaching" /\ shell' = "off"
        /\ Desk!Servers' = Desk!Servers /\ MaxLaunches \in Nat /\ Desk!Servers = 1..MaxLaunches
    BY ServicesAssumption DEF Desk!Detach, Desk!countVars, Desk!Servers
  <1>2. /\ Desk!Left = silent \cup ({served, child} \ {0}) /\ Desk!Left \subseteq Desk!Servers
        /\ \A w \in Desk!Servers : w \in {served, child} => w \in Desk!Left
    BY <1>0, <1>1 DEF Desk!Left, DeskTyped, Desk!TypeOK
  <1>3. OneBootstrap'
    BY <1>0, <1>1 DEF OneBootstrap
  <1>4. CASE ~(Desk!Answers /\ path = served)
    <2>1. silent' = Desk!Left /\ UNCHANGED <<draining, chats, timers>>
      BY <1>4 DEF Desk!Detach
    <2>2. DeskTyped'
      BY <1>0, <1>1, <1>2, <2>1 DEF DeskTyped, Desk!TypeOK
    <2> QED
      BY <1>1, <1>2, <1>3, <2>1, <2>2, ShellStep DEF Attended
  <1>5. CASE Desk!Answers /\ path = served
    <2>0. path \in Desk!Servers /\ serverAt[path] \in {"serving", "retired"}
      BY <1>5, DeskTypes DEF Desk!Answers
    <2>1. /\ silent' = Desk!Left \ {path}
          /\ draining' = [draining EXCEPT ![path] = TRUE]
          /\ chats' = [chats EXCEPT ![path] = IF @ = "running" THEN @ ELSE "none"]
          /\ timers' = [timers EXCEPT ![path] = IF chats'[path] = "none" THEN @ + 1 ELSE @]
      BY <1>5 DEF Desk!Detach, Desk!Drain
    <2>2. /\ chats' \in [Desk!Servers -> {"none", "idle", "running"}] /\ chats'[path] \in {"none", "running"}
          /\ \A w \in Desk!Servers : w # path => chats'[w] = chats[w]
      BY <2>0, <2>1, DeskTypes
    <2>3. /\ timers' \in [Desk!Servers -> Nat] /\ (chats'[path] = "none" => timers'[path] > 0)
          /\ \A w \in Desk!Servers : w # path => timers'[w] = timers[w]
      BY <2>0, <2>1, DeskTypes
    <2>4. /\ draining' \in [Desk!Servers -> BOOLEAN] /\ draining'[path]
          /\ \A w \in Desk!Servers : w # path => draining'[w] = draining[w]
      BY <2>0, <2>1, DeskTypes
    <2>5. DeskTyped'
      <3>1. silent' \subseteq Desk!Servers
        BY <1>2, <2>1
      <3> QED
        BY <1>0, <1>1, <2>2, <2>3, <2>4, <3>1 DEF DeskTyped, Desk!TypeOK
    <2>6. Reclaimed'
      BY <1>0, <1>1, <2>2, <2>4 DEF Reclaimed
    <2>7. Owned'
      <3>1. ASSUME NEW w \in Desk!Servers, serverAt[w] = "serving"
            PROVE  w \in silent' \/ WillEnd(w)'
        <4>1. CASE w = path
          BY <2>2, <2>3, <2>4, <4>1 DEF WillEnd
        <4>2. CASE w # path
          <5>1. WillEnd(w) => WillEnd(w)'
            BY <2>2, <2>3, <2>4, <4>2 DEF WillEnd
          <5>2. Attended(w) \/ w \in silent => w \in silent'
            BY <1>2, <2>1, <4>2 DEF Attended
          <5> QED
            BY <1>0, <3>1, <5>1, <5>2 DEF Owned
        <4> QED
          BY <4>1, <4>2
      <3>2. ASSUME NEW w \in Desk!Servers, serverAt[w] \in {"booting", "removing", "binding"}
            PROVE  w \in silent'
        <4>1. w # path
          BY <2>0, <3>2
        <4>2. w \in silent \/ w = child
          BY <1>0, <3>2 DEF Owned
        <4> QED
          BY <1>2, <2>1, <4>1, <4>2
      <3> QED
        BY <1>1, <3>1, <3>2 DEF Owned
    <2>8. Desk!Alive' = Desk!Alive
      BY <1>1 DEF Desk!Alive
    <2>9. OneAlive' /\ Desk!ServedAtPath'
      BY <1>0, <1>1, <2>8 DEF OneAlive, Desk!ServedAtPath
    <2> QED
      BY <1>3, <2>5, <2>6, <2>7, <2>9 DEF DeskInv
  <1> QED
    BY <1>4, <1>5

LEMMA DeskNext ==
  ASSUME DeskInv, Desk!Next
  PROVE  DeskInv'
  BY DesktopNext, HealthCheckKeeps, BootstrapKeeps, DetachKeeps, ServerNext DEF Desk!Next

LEMMA DeskStutter ==
  ASSUME DeskInv, UNCHANGED deskVars
  PROVE  DeskInv'
  <1>1. UNCHANGED <<shell, child, bootAsked, served, servedKept, loading, page, path, serverAt,
                    draining, timers, chats, silent, overlapping, launched>>
    BY DEF deskVars
  <1>2. DeskTyped' /\ OneBootstrap'
    BY <1>1 DEF DeskInv, DeskTyped, Desk!TypeOK, Desk!Servers, OneBootstrap
  <1> QED
    BY <1>1, <1>2, ShellStep DEF Attended, DeskInv, OneBootstrap

LEMMA DeskHolds ==
  ASSUME DeskInv
  PROVE  Desk!ReclaimedStays /\ Desk!ServedAtPath /\ Desk!DetachedEnds
  <1>1. Desk!ReclaimedStays
    BY DEF DeskInv, Reclaimed, Desk!ReclaimedStays
  <1>2. Desk!DetachedEnds
    BY DEF DeskInv, Owned, WillEnd, Attended, Desk!DetachedEnds
  <1> QED
    BY <1>1, <1>2 DEF DeskInv

-----------------------------------------------------------------------------
(* The preferences of chats.                                                 *)
(* What a preference, a state of the service, its file and a handler are.    *)
Chosen == Models \cup {None}
Thought == Levels \cup {None}
Selections == [model : Chosen, level : Thought, tools : SUBSET Tools]
Entries == [id : Names, model : Chosen, level : Thought, tools : {{}}]
PrefStates == [default : Selections, sessions : Seq(Entries)]
PrefFiles == [default : Selections,
              sessions : Seq([id : Names, model : Chosen, level : Thought, tools : SUBSET Tools])]
Handlings ==
  [pc : {"idle", "save", "tool", "push"}]
  \cup [pc : {"options"}, model : Chosen, level : Thought]
  \cup [pc : {"pushing"}, tools : SUBSET Tools, chats : SUBSET Names]
  \cup [pc : {"open", "bind", "register"}, s : Names, new : BOOLEAN, choice : Selections]
  \cup [pc : {"config"}, s : Names, model : Chosen, level : Thought]
OneEach(p) == \A i, j \in DOMAIN p.sessions : p.sessions[i].id = p.sessions[j].id => i = j

PrefsTyped ==
  /\ prefs \in PrefStates /\ OneEach(prefs) /\ file \in PrefFiles /\ OneEach(file)
  /\ req \in [Callers -> Handlings] /\ runtimes \in [Names -> Selections \cup {None}]
  /\ failures \in Nat /\ overlap \in BOOLEAN

NamesKnown ==
  /\ Prefs!Ids(prefs) \cup Prefs!Ids(file) \subseteq known
  /\ \A s \in Names : runtimes[s] # None => s \in known
  /\ \A r \in Callers : req[r].pc \in {"open", "bind", "register", "config"} => req[r].s \in known

(* A request that writes does nothing else, and unless they overlapped there is one. *)
Handled ==
  /\ \A r \in Callers : saver = r => req[r].pc \in {"save", "tool", "bind"}
  /\ ~overlap => \A q, r \in Callers : req[q].pc # "idle" /\ req[r].pc # "idle" => q = r

Undisturbed == ~overlap /\ failures = 0

(* A live chat has the tools of all, or is about to be given them.           *)
Due(s) == \E r \in Callers : req[r].pc \in {"tool", "push"} \/ (req[r].pc = "pushing" /\ s \in req[r].chats)
ToolsAgree == Undisturbed =>
  /\ \A s \in Names : runtimes[s] # None => runtimes[s].tools = prefs.default.tools \/ Due(s)
  /\ \A r \in Callers : req[r].pc = "pushing" => req[r].tools = prefs.default.tools

(* What a chat is opened with is what its session has, or will be given.     *)
OpeningAgrees == Undisturbed => \A r \in Callers :
  /\ req[r].pc = "open" => runtimes[req[r].s] = None
  /\ req[r].pc = "open" /\ req[r].new => req[r].s \notin Prefs!Ids(prefs) /\ req[r].choice = prefs.default
  /\ req[r].pc = "open" /\ ~req[r].new => req[r].choice = Prefs!Get(prefs, req[r].s)
  /\ req[r].pc \in {"bind", "register"} => req[r].choice = Prefs!Get(prefs, req[r].s)

(* A live chat runs with what its session has, or will be given by the request that
   has configured it.                                                        *)
Same(c, d) == c.model = d.model /\ c.level = d.level
Configures(r, s) == req[r].pc = "config" /\ req[r].s = s
LiveAgrees == Undisturbed => \A s \in Names : runtimes[s] # None /\ s \notin forgotten =>
  /\ (\A r \in Callers : ~Configures(r, s)) => Same(Prefs!Of(prefs, s), runtimes[s])
  /\ \A r \in Callers : Configures(r, s) =>
       Same(Prefs!With(Prefs!Of(prefs, s), req[r].model, req[r].level), runtimes[s])

PrefsInv == PrefsTyped /\ Prefs!SavedIsKept /\ NamesKnown /\ Handled /\ ToolsAgree /\ OpeningAgrees /\ LiveAgrees

-----------------------------------------------------------------------------
(* What is stored for a session.                                             *)

LEMMA OfFound ==
  ASSUME NEW p \in PrefStates, OneEach(p), NEW i \in DOMAIN p.sessions
  PROVE  /\ p.sessions[i].id \in Prefs!Ids(p) /\ Prefs!Place(p, p.sessions[i].id) = i
         /\ Prefs!Of(p, p.sessions[i].id) = p.sessions[i]
  <1>1. p.sessions[i].id \in Prefs!Ids(p)
    BY DEF Prefs!Ids
  <1>2. Prefs!Place(p, p.sessions[i].id) = i
    BY DEF Prefs!Place, OneEach
  <1> QED
    BY <1>1, <1>2 DEF Prefs!Of

LEMMA OfTyped ==
  ASSUME NEW p \in PrefStates, OneEach(p), NEW s \in Names
  PROVE  Prefs!Of(p, s) \in Entries /\ Prefs!Of(p, s).id = s
  <1>1. CASE s \in Prefs!Ids(p)
    <2>1. PICK i \in DOMAIN p.sessions : p.sessions[i].id = s
      BY <1>1 DEF Prefs!Ids
    <2>2. p.sessions[i] \in Entries
      BY <2>1 DEF PrefStates
    <2> QED
      BY <2>1, <2>2, OfFound
  <1>2. CASE s \notin Prefs!Ids(p)
    BY <1>2 DEF Prefs!Of, Entries, Chosen, Thought
  <1> QED
    BY <1>1, <1>2

LEMMA WithTyped ==
  ASSUME NEW m \in Chosen, NEW l \in Thought
  PROVE  /\ \A c \in Selections : Prefs!With(c, m, l) \in Selections /\ Prefs!With(c, m, l).tools = c.tools
         /\ \A e \in Entries : Prefs!With(e, m, l) \in Entries /\ Prefs!With(e, m, l).id = e.id
  <1>1. \A c \in Selections : Prefs!With(c, m, l) \in Selections /\ Prefs!With(c, m, l).tools = c.tools
    BY DEF Prefs!With, Selections
  <1>2. \A e \in Entries : Prefs!With(e, m, l) \in Entries /\ Prefs!With(e, m, l).id = e.id
    BY DEF Prefs!With, Entries
  <1> QED
    BY <1>1, <1>2

(* A queue without what stands at one place.                                 *)
LEMMA WithoutPlace ==
  ASSUME NEW S, NEW q \in Seq(S), NEW k \in 1..Len(q)
  PROVE  LET o == SubSeq(q, 1, k - 1) \o SubSeq(q, k + 1, Len(q))
         IN /\ o \in Seq(S) /\ Len(o) = Len(q) - 1
            /\ \A i \in 1..Len(q) - 1 : o[i] = q[IF i < k THEN i ELSE i + 1]
  <1> DEFINE a == SubSeq(q, 1, k - 1)
             b == SubSeq(q, k + 1, Len(q))
  <1>1. a \in Seq(S) /\ Len(a) = k - 1 /\ \A i \in 1..k - 1 : a[i] = q[i]
    OBVIOUS
  <1>2. b \in Seq(S) /\ Len(b) = Len(q) - k /\ \A i \in 1..Len(q) - k : b[i] = q[k + i]
    OBVIOUS
  <1> HIDE DEF a, b
  <1>0. Len(q) \in Nat /\ k \in Int
    OBVIOUS
  <1>3. a \o b \in Seq(S) /\ Len(a \o b) = Len(q) - 1
    <2>0. a \in Seq(S) /\ b \in Seq(S)
      BY <1>1, <1>2
    <2>1. a \o b \in Seq(S) /\ Len(a \o b) = Len(a) + Len(b)
      BY <2>0
    <2>2. (k - 1) + (Len(q) - k) = Len(q) - 1
      BY <1>0
    <2> QED
      BY <1>1, <1>2, <2>1, <2>2
  <1>4. \A i \in 1..Len(q) - 1 : (a \o b)[i] = q[IF i < k THEN i ELSE i + 1]
    <2> TAKE i \in 1..Len(q) - 1
    <2>1. CASE i < k
      BY <1>1, <1>2, <2>1
    <2>2. CASE i >= k
      <3>1. i - (k - 1) \in 1..Len(q) - k /\ k + (i - (k - 1)) = i + 1
        BY <2>2
      <3>2. (a \o b)[i] = b[i - (k - 1)]
        BY <1>1, <1>2, <2>2
      <3> QED
        BY <1>2, <2>2, <3>1, <3>2
    <2>3. i < k \/ i >= k
      BY <1>0
    <2> QED
      BY <2>1, <2>2, <2>3
  <1> QED
    BY <1>3, <1>4 DEF a, b

LEMMA OthersKept ==
  ASSUME NEW p \in PrefStates, OneEach(p), NEW s \in Names
  PROVE  /\ Prefs!Others(p, s) \in Seq(Entries)
         /\ \A i \in DOMAIN Prefs!Others(p, s) : Prefs!Others(p, s)[i].id # s
         /\ \A i \in DOMAIN Prefs!Others(p, s) : \E j \in DOMAIN p.sessions : Prefs!Others(p, s)[i] = p.sessions[j]
         /\ \A i, j \in DOMAIN Prefs!Others(p, s) :
              Prefs!Others(p, s)[i].id = Prefs!Others(p, s)[j].id => i = j
  <1> DEFINE q == p.sessions
             o == Prefs!Others(p, s)
  <1>0. q \in Seq(Entries) /\ Len(q) \in Nat /\ DOMAIN q = 1..Len(q)
    BY DEF PrefStates
  <1>1. CASE s \notin Prefs!Ids(p)
    <2>1. o = q
      BY <1>1 DEF Prefs!Others
    <2>2. \A i \in DOMAIN q : q[i].id # s
      BY <1>1 DEF Prefs!Ids
    <2> QED
      BY <2>1, <2>2, <1>0 DEF OneEach
  <1>2. CASE s \in Prefs!Ids(p)
    <2>1. PICK k \in DOMAIN q : q[k].id = s
      BY <1>2 DEF Prefs!Ids
    <2>2. Prefs!Place(p, s) = k
      BY <2>1, OfFound
    <2>3. o = SubSeq(q, 1, k - 1) \o SubSeq(q, k + 1, Len(q))
      BY <1>2, <2>2 DEF Prefs!Others
    <2> DEFINE At(i) == IF i < k THEN i ELSE i + 1
    <2> HIDE DEF q, o
    <2>4. k \in 1..Len(q)
      BY <1>0, <2>1
    <2>5. o \in Seq(Entries) /\ Len(o) = Len(q) - 1 /\ \A i \in 1..Len(q) - 1 : o[i] = q[At(i)]
      BY <1>0, <2>3, <2>4, WithoutPlace
    <2>6. DOMAIN o = 1..Len(q) - 1
      BY <2>5, <1>0
    <2>7. \A i \in 1..Len(q) - 1 : At(i) \in 1..Len(q) /\ At(i) # k
      BY <1>0, <2>4
    <2>8. \A i, j \in 1..Len(q) - 1 : At(i) = At(j) => i = j
      BY <1>0, <2>4
    <2> HIDE DEF At
    <2>9. \A i, j \in 1..Len(q) : q[i].id = q[j].id => i = j
      BY <1>0 DEF OneEach, q
    <2>a. \A i \in DOMAIN o : o[i].id # s
      BY SMTT(40), <2>1, <2>4, <2>5, <2>6, <2>7, <2>9
    <2>b. \A i \in DOMAIN o : \E j \in DOMAIN q : o[i] = q[j]
      BY <1>0, <2>5, <2>6, <2>7
    <2>c. \A i, j \in DOMAIN o : o[i].id = o[j].id => i = j
      <3> SUFFICES ASSUME NEW i \in DOMAIN o, NEW j \in DOMAIN o, o[i].id = o[j].id PROVE i = j
        OBVIOUS
      <3>1. At(i) = At(j)
        BY SMTT(40), <2>5, <2>6, <2>7, <2>9
      <3> QED
        BY <2>6, <2>8, <3>1
    <2> QED
      BY <2>5, <2>a, <2>b, <2>c DEF o, q
  <1> QED
    BY <1>1, <1>2

(* Remember changes what is stored for one session, and may forget another.  *)
LEMMA MergeKept ==
  ASSUME NEW p \in PrefStates, OneEach(p), NEW s \in Names, NEW m \in Chosen, NEW l \in Thought
  PROVE  LET q == Prefs!Merge(p, s, m, l)
         IN /\ q \in PrefStates /\ OneEach(q)
            /\ q.default = Prefs!With(p.default, m, l) /\ q.default.tools = p.default.tools
            /\ s \in Prefs!Ids(q) /\ Prefs!Of(q, s) = Prefs!With(Prefs!Of(p, s), m, l)
            /\ Prefs!Ids(q) \subseteq Prefs!Ids(p) \cup {s}
            /\ \A t \in Prefs!Ids(q) : t # s => Prefs!Of(q, t) = Prefs!Of(p, t)
  <1> DEFINE o == Prefs!Others(p, s)
             w == Prefs!With(Prefs!Of(p, s), m, l)
             e == Append(o, w)
             v == IF Len(e) > KeptSessions THEN Tail(e) ELSE e
             q == Prefs!Merge(p, s, m, l)
  <1>1. /\ o \in Seq(Entries) /\ (\A i \in DOMAIN o : o[i].id # s)
        /\ (\A i \in DOMAIN o : \E j \in DOMAIN p.sessions : o[i] = p.sessions[j])
        /\ (\A i, j \in DOMAIN o : o[i].id = o[j].id => i = j)
    BY OthersKept
  <1>2. w \in Entries /\ w.id = s
    BY OfTyped, WithTyped
  <1>3. q = [default |-> Prefs!With(p.default, m, l), sessions |-> v]
    BY DEF Prefs!Merge
  <1>k. KeptSessions \in Nat \ {0}
    BY PrefsAssumption
  <1> HIDE DEF o, w
  <1>4. /\ e \in Seq(Entries) /\ Len(e) = Len(o) + 1 /\ Len(o) \in Nat /\ DOMAIN o = 1..Len(o)
        /\ DOMAIN e = 1..Len(o) + 1 /\ e[Len(o) + 1] = w
        /\ \A i \in 1..Len(o) : e[i] = o[i]
    BY <1>1, <1>2
  <1>5. \A i, j \in 1..Len(o) + 1 : e[i].id = e[j].id => i = j
    <2>1. \A i \in 1..Len(o) + 1 : i \in 1..Len(o) \/ i = Len(o) + 1
      BY <1>4
    <2> QED
      BY <1>1, <1>2, <1>4, <2>1
  <1> HIDE DEF e
  <1> DEFINE d == IF Len(e) > KeptSessions THEN 1 ELSE 0
  <1>6. /\ v \in Seq(Entries) /\ Len(v) = Len(e) - d /\ DOMAIN v = 1..Len(e) - d
        /\ \A i \in 1..Len(e) - d : v[i] = e[i + d] /\ i + d \in 1..Len(e)
    BY <1>4, <1>k
  <1>7. Len(e) - d \in 1..Len(e) - d /\ v[Len(e) - d] = w
    BY <1>4, <1>6, <1>k
  <1>8. \A i, j \in DOMAIN v : v[i].id = v[j].id => i = j
    BY <1>4, <1>5, <1>6
  <1>9. \A i \in DOMAIN v : v[i] = w \/ \E j \in DOMAIN p.sessions : v[i] = p.sessions[j]
    <2> TAKE i \in DOMAIN v
    <2>1. i + d = Len(o) + 1 \/ i + d \in 1..Len(o)
      BY <1>4, <1>6
    <2> QED
      BY <2>1, <1>1, <1>4, <1>6
  <1> HIDE DEF v, d, q
  <1>a. p.default \in Selections
    BY DEF PrefStates
  <1>b. Prefs!With(p.default, m, l) \in Selections /\ Prefs!With(p.default, m, l).tools = p.default.tools
    BY <1>a, WithTyped
  <1>c. q \in PrefStates /\ q.sessions = v /\ q.default = Prefs!With(p.default, m, l)
    BY <1>3, <1>6, <1>b DEF PrefStates
  <1>d. OneEach(q)
    BY <1>8, <1>c DEF OneEach
  <1>e. s \in Prefs!Ids(q) /\ Prefs!Of(q, s) = w
    <2>1. Len(e) - d \in DOMAIN q.sessions /\ q.sessions[Len(e) - d] = w
      BY <1>6, <1>7, <1>c
    <2> QED
      BY <1>2, <1>c, <1>d, <2>1, OfFound
  <1>f. \A t \in Prefs!Ids(q) : t # s => t \in Prefs!Ids(p) /\ Prefs!Of(q, t) = Prefs!Of(p, t)
    <2> SUFFICES ASSUME NEW t \in Prefs!Ids(q), t # s PROVE t \in Prefs!Ids(p) /\ Prefs!Of(q, t) = Prefs!Of(p, t)
      OBVIOUS
    <2>1. PICK i \in DOMAIN v : v[i].id = t
      BY <1>c DEF Prefs!Ids
    <2>2. PICK j \in DOMAIN p.sessions : v[i] = p.sessions[j]
      BY <1>2, <1>9, <2>1
    <2>3. Prefs!Of(q, t) = v[i]
      BY <1>c, <1>d, <2>1, OfFound
    <2>4. t \in Prefs!Ids(p) /\ Prefs!Of(p, t) = p.sessions[j]
      BY <2>1, <2>2, OfFound
    <2> QED
      BY <2>2, <2>3, <2>4
  <1> QED
    BY <1>b, <1>c, <1>d, <1>e, <1>f DEF q, w

-----------------------------------------------------------------------------
(* Handlers.                                                                 *)

LEMMA HandlingFields ==
  ASSUME NEW h \in Handlings
  PROVE  /\ h.pc = "options" => h.model \in Chosen /\ h.level \in Thought
         /\ h.pc = "pushing" => h.tools \in SUBSET Tools /\ h.chats \in SUBSET Names
         /\ h.pc = "config" => h.s \in Names /\ h.model \in Chosen /\ h.level \in Thought
         /\ h.pc \in {"open", "bind", "register"} => h.s \in Names /\ h.new \in BOOLEAN /\ h.choice \in Selections
  BY DEF Handlings

LEMMA HandlingMoves ==
  ASSUME NEW h \in Handlings
  PROVE  /\ h.pc \in {"open", "bind", "register"} => \A c \in {"bind", "register"} :
              /\ [h EXCEPT !.pc = c] \in Handlings /\ [h EXCEPT !.pc = c].pc = c
              /\ [h EXCEPT !.pc = c].s = h.s /\ [h EXCEPT !.pc = c].choice = h.choice
         /\ h.pc = "pushing" => \A s \in Names :
              /\ [h EXCEPT !.chats = @ \ {s}] \in Handlings /\ [h EXCEPT !.chats = @ \ {s}].pc = "pushing"
              /\ [h EXCEPT !.chats = @ \ {s}].tools = h.tools /\ [h EXCEPT !.chats = @ \ {s}].chats = h.chats \ {s}
  <1>1. ASSUME h.pc \in {"open", "bind", "register"}, NEW c \in {"bind", "register"}
        PROVE  /\ [h EXCEPT !.pc = c] \in Handlings /\ [h EXCEPT !.pc = c].pc = c
               /\ [h EXCEPT !.pc = c].s = h.s /\ [h EXCEPT !.pc = c].choice = h.choice
    <2>1. h \in [pc : {"open", "bind", "register"}, s : Names, new : BOOLEAN, choice : Selections]
      BY <1>1 DEF Handlings
    <2> QED
      BY <2>1 DEF Handlings
  <1>2. ASSUME h.pc = "pushing", NEW s \in Names
        PROVE  /\ [h EXCEPT !.chats = @ \ {s}] \in Handlings /\ [h EXCEPT !.chats = @ \ {s}].pc = "pushing"
               /\ [h EXCEPT !.chats = @ \ {s}].tools = h.tools /\ [h EXCEPT !.chats = @ \ {s}].chats = h.chats \ {s}
    <2>1. h \in [pc : {"pushing"}, tools : SUBSET Tools, chats : SUBSET Names]
      BY <1>2 DEF Handlings
    <2> QED
      BY <2>1 DEF Handlings
  <1> QED
    BY <1>1, <1>2

(* The handlings a request can be given.                                     *)
LEMMA HandlingsMade ==
  /\ \A c \in {"idle", "save", "tool", "push"} : [pc |-> c] \in Handlings /\ [pc |-> c].pc = c
  /\ Prefs!Idle \in Handlings /\ Prefs!Idle.pc = "idle"
  /\ \A m \in Chosen, l \in Thought : [pc |-> "options", model |-> m, level |-> l] \in Handlings
  /\ \A m \in Chosen, l \in Thought, s \in Names :
       [pc |-> "config", s |-> s, model |-> m, level |-> l] \in Handlings
  /\ \A u \in SUBSET Tools, c \in SUBSET Names : [pc |-> "pushing", tools |-> u, chats |-> c] \in Handlings
  /\ \A s \in Names, n \in BOOLEAN, c \in Selections :
       [pc |-> "open", s |-> s, new |-> n, choice |-> c] \in Handlings
  BY DEF Handlings, Prefs!Idle

(* A step of one request.                                                    *)
LEMMA GoesAlone ==
  ASSUME PrefsInv, NEW r \in Callers, NEW next \in Handlings, req[r].pc # "idle", Prefs!Goes(r, next)
  PROVE  /\ req' \in [Callers -> Handlings] /\ req'[r] = next
         /\ \A q \in Callers : q # r => req'[q] = req[q]
         /\ overlap' = overlap /\ overlap' \in BOOLEAN
         /\ ~overlap => \A q \in Callers : q # r => req[q].pc = "idle" /\ req'[q].pc = "idle"
  <1>1. req \in [Callers -> Handlings] /\ overlap \in BOOLEAN
    BY DEF PrefsInv, PrefsTyped
  <1>2. ~overlap => \A q \in Callers : q # r => req[q].pc = "idle"
    BY DEF PrefsInv, Handled
  <1> QED
    BY <1>1, <1>2 DEF Prefs!Goes

LEMMA StartsAlone ==
  ASSUME PrefsInv, NEW r \in Callers, NEW next \in Handlings, Prefs!Starts(r, next)
  PROVE  /\ req' \in [Callers -> Handlings] /\ req'[r] = next
         /\ \A q \in Callers : q # r => req'[q] = req[q]
         /\ overlap' \in BOOLEAN
         /\ ~overlap' => ~overlap /\ \A q \in Callers : req[q].pc = "idle" /\ (q # r => req'[q].pc = "idle")
  <1>1. req \in [Callers -> Handlings] /\ overlap \in BOOLEAN
    BY DEF PrefsInv, PrefsTyped
  <1>2. req[r].pc = "idle"
    BY DEF Prefs!Starts
  <1>3. ~overlap' => ~overlap /\ \A q \in Callers : q # r => req[q].pc = "idle"
    BY DEF Prefs!Starts
  <1> QED
    BY <1>1, <1>2, <1>3 DEF Prefs!Starts

LEMMA HandledAfter ==
  ASSUME PrefsInv, NEW r \in Callers, NEW next,
         req'[r] = next, \A q \in Callers : q # r => req'[q] = req[q],
         ~overlap' => \A q \in Callers : q # r => req'[q].pc = "idle",
         \/ saver' = r /\ next.pc \in {"save", "tool", "bind"}
         \/ saver' = saver /\ saver # r
         \/ saver' = None
  PROVE  Handled'
  <1>1. None \notin Callers
    BY ServicesAssumption
  <1>2. \A q \in Callers : saver' = q => req'[q].pc \in {"save", "tool", "bind"}
    BY <1>1 DEF PrefsInv, Handled
  <1>3. ~overlap' => \A q, t \in Callers : req'[q].pc # "idle" /\ req'[t].pc # "idle" => q = t
    OBVIOUS
  <1> QED
    BY <1>2, <1>3 DEF Handled

(* When nobody is being served, the live chats agree with the preferences.   *)
LEMMA AtRest ==
  ASSUME PrefsInv, Undisturbed, \A q \in Callers : req[q].pc \notin {"tool", "push", "pushing"}
  PROVE  \A s \in Names : runtimes[s] # None => runtimes[s].tools = prefs.default.tools
  BY DEF PrefsInv, ToolsAgree, Due

LEMMA LiveAtRest ==
  ASSUME PrefsInv, Undisturbed, \A q \in Callers : req[q].pc # "config"
  PROVE  \A s \in Names : runtimes[s] # None /\ s \notin forgotten => Same(Prefs!Of(prefs, s), runtimes[s])
  BY DEF PrefsInv, LiveAgrees, Configures

(* The same of the state after a step in which one request is served.        *)
LEMMA ToolsAfter ==
  ASSUME NEW r \in Callers,
         Undisturbed' => \A q \in Callers : q # r => req'[q].pc = "idle",
         Undisturbed' => req'[r].pc \in {"tool", "push"} \/ \A s \in Names : runtimes'[s] # None =>
           runtimes'[s].tools = prefs'.default.tools \/ (req'[r].pc = "pushing" /\ s \in req'[r].chats),
         Undisturbed' => (req'[r].pc = "pushing" => req'[r].tools = prefs'.default.tools)
  PROVE  ToolsAgree'
  BY DEF ToolsAgree, Due

LEMMA OpeningAfter ==
  ASSUME NEW r \in Callers,
         Undisturbed' => \A q \in Callers : q # r => req'[q].pc = "idle",
         Undisturbed' =>
           /\ req'[r].pc = "open" => runtimes'[req'[r].s] = None
           /\ req'[r].pc = "open" /\ req'[r].new => req'[r].s \notin Prefs!Ids(prefs') /\ req'[r].choice = prefs'.default
           /\ req'[r].pc = "open" /\ ~req'[r].new => req'[r].choice = Prefs!Get(prefs', req'[r].s)
           /\ req'[r].pc \in {"bind", "register"} => req'[r].choice = Prefs!Get(prefs', req'[r].s)
  PROVE  OpeningAgrees'
  BY DEF OpeningAgrees

LEMMA LiveAfter ==
  ASSUME NEW r \in Callers,
         Undisturbed' => \A q \in Callers : q # r => req'[q].pc = "idle",
         Undisturbed' => req'[r].pc # "config",
         Undisturbed' => \A s \in Names : runtimes'[s] # None /\ s \notin forgotten' =>
           Same(Prefs!Of(prefs', s), runtimes'[s])
  PROVE  LiveAgrees'
  <1>1. Undisturbed' => \A s \in Names, q \in Callers : ~Configures(q, s)'
    BY DEF Configures
  <1> QED
    BY <1>1 DEF LiveAgrees, Same

LEMMA Disturbed ==
  ASSUME failures' # 0
  PROVE  ToolsAgree' /\ OpeningAgrees' /\ LiveAgrees'
  BY DEF Undisturbed, ToolsAgree, OpeningAgrees, LiveAgrees

-----------------------------------------------------------------------------
(* What the service does to its state.                                       *)

LEMMA SameSessions ==
  ASSUME NEW p, NEW q, q.sessions = p.sessions
  PROVE  /\ Prefs!Ids(q) = Prefs!Ids(p) /\ (OneEach(p) => OneEach(q))
         /\ \A s \in Names : Prefs!Of(q, s) = Prefs!Of(p, s)
  BY DEF Prefs!Ids, OneEach, Prefs!Of, Prefs!Place

LEMMA SeqElements ==
  ASSUME NEW S, NEW q \in Seq(S)
  PROVE  /\ Len(q) \in Nat /\ DOMAIN q = 1..Len(q) /\ \A i \in DOMAIN q : q[i] \in S
         /\ \A T : (\A i \in DOMAIN q : q[i] \in T) => q \in Seq(T)
         /\ \A v, T : DOMAIN v = DOMAIN q /\ v = [i \in DOMAIN q |-> v[i]] /\ (\A i \in DOMAIN q : v[i] \in T) => v \in Seq(T)
  <1>1. Len(q) \in Nat /\ DOMAIN q = 1..Len(q) /\ (\A i \in DOMAIN q : q[i] \in S) /\ q = [i \in DOMAIN q |-> q[i]]
    OBVIOUS
  <1>2. ASSUME NEW v, NEW T, v = [i \in 1..Len(q) |-> v[i]], \A i \in 1..Len(q) : v[i] \in T PROVE v \in Seq(T)
    BY <1>1, <1>2
  <1> QED
    BY <1>1, <1>2

(* read is the identity on what the service writes, and makes such a state of any file. *)
LEMMA LoadState ==
  ASSUME NEW p \in PrefStates
  PROVE  Prefs!Load(p) = p /\ p \in PrefFiles
  <1>1. p.sessions \in Seq(Entries) /\ p.default \in Selections /\ p = [default |-> p.default, sessions |-> p.sessions]
    BY DEF PrefStates
  <1>2. \A i \in DOMAIN p.sessions : p.sessions[i] \in Entries
    BY <1>1
  <1>3. \A e \in Entries : [e EXCEPT !.tools = {}] = e /\ e.tools = {}
    BY DEF Entries
  <1>4. UNION {p.sessions[i].tools : i \in DOMAIN p.sessions} = {}
    BY <1>2, <1>3
  <1>5. [i \in DOMAIN p.sessions |-> [p.sessions[i] EXCEPT !.tools = {}]] = p.sessions
    <2>1. p.sessions = [i \in DOMAIN p.sessions |-> p.sessions[i]]
      BY <1>1
    <2>2. \A i \in DOMAIN p.sessions : [p.sessions[i] EXCEPT !.tools = {}] = p.sessions[i]
      BY <1>2, <1>3
    <2> QED
      BY <2>1, <2>2, Zenon
  <1>6. [p.default EXCEPT !.tools = @ \cup {}] = p.default
    BY <1>1 DEF Selections
  <1>7. Prefs!Load(p) = p
    BY <1>1, <1>4, <1>5, <1>6 DEF Prefs!Load
  <1>8. p \in PrefFiles
    <2>1. \A e \in Entries : e \in [id : Names, model : Chosen, level : Thought, tools : SUBSET Tools]
      BY DEF Entries
    <2>2. p.sessions \in Seq([id : Names, model : Chosen, level : Thought, tools : SUBSET Tools])
      <3> DEFINE E == [id : Names, model : Chosen, level : Thought, tools : SUBSET Tools]
                 q == p.sessions
      <3>1. q \in Seq(Entries) /\ \A i \in DOMAIN q : q[i] \in E
        BY <1>1, <1>2, <2>1
      <3> HIDE DEF E, q
      <3>2. q \in Seq(E)
        BY <3>1, SeqElements
      <3> QED
        BY <3>2 DEF E, q
    <2> QED
      BY <1>1, <2>2 DEF PrefFiles
  <1> QED
    BY <1>7, <1>8

LEMMA LoadFile ==
  ASSUME NEW f \in PrefFiles, OneEach(f)
  PROVE  Prefs!Load(f) \in PrefStates /\ OneEach(Prefs!Load(f)) /\ Prefs!Ids(Prefs!Load(f)) = Prefs!Ids(f)
  <1> DEFINE E == [id : Names, model : Chosen, level : Thought, tools : SUBSET Tools]
             q == f.sessions
             v == [i \in DOMAIN q |-> [q[i] EXCEPT !.tools = {}]]
             d == [f.default EXCEPT !.tools = @ \cup UNION {q[i].tools : i \in DOMAIN q}]
  <1>1. q \in Seq(E) /\ f.default \in Selections
    BY DEF PrefFiles
  <1> HIDE DEF E, q
  <1>2. Len(q) \in Nat /\ DOMAIN q = 1..Len(q) /\ \A i \in DOMAIN q : q[i] \in E
    BY <1>1, SeqElements
  <1>3. \A e \in E : [e EXCEPT !.tools = {}] \in Entries /\ [e EXCEPT !.tools = {}].id = e.id /\ e.tools \in SUBSET Tools
    BY DEF Entries, E
  <1>4. v \in Seq(Entries) /\ DOMAIN v = DOMAIN q /\ \A i \in DOMAIN q : v[i].id = q[i].id
    <2>1. DOMAIN v = DOMAIN q /\ v = [i \in DOMAIN q |-> v[i]] /\ \A i \in DOMAIN q : v[i] = [q[i] EXCEPT !.tools = {}]
      OBVIOUS
    <2>2. \A i \in DOMAIN q : v[i] \in Entries /\ v[i].id = q[i].id
      BY <1>2, <1>3, <2>1
    <2> HIDE DEF v
    <2> QED
      BY <1>1, <2>1, <2>2, SeqElements
  <1>5. d \in Selections
    <2>1. UNION {q[i].tools : i \in DOMAIN q} \in SUBSET Tools
      BY <1>2, <1>3
    <2> QED
      BY <1>1, <2>1 DEF Selections
  <1>6. Prefs!Load(f) = [default |-> d, sessions |-> v]
    BY DEF Prefs!Load, q
  <1> HIDE DEF v, d
  <1>7. Prefs!Load(f) \in PrefStates /\ Prefs!Load(f).sessions = v
    BY <1>4, <1>5, <1>6 DEF PrefStates
  <1> QED
    BY <1>4, <1>7 DEF OneEach, Prefs!Ids, q

LEMMA SavedStays ==
  ASSUME PrefsInv, file' = file, since \subseteq since'
  PROVE  Prefs!SavedIsKept'
  BY DEF PrefsInv, Prefs!SavedIsKept, Prefs!Load

LEMMA PrefStutter ==
  ASSUME PrefsInv, UNCHANGED prefVars
  PROVE  PrefsInv'
  BY DEF prefVars, PrefsInv, PrefsTyped, OneEach, Prefs!SavedIsKept, NamesKnown, Handled, ToolsAgree, Undisturbed, Due,
         OpeningAgrees, LiveAgrees, Configures, Same

(* A choice is remembered for a session: what is stored for the live chats is what
   was, unless the limit has forgotten it.                                   *)
LEMMA Remembered ==
  ASSUME PrefsInv, NEW r \in Callers, NEW s \in Names, NEW m \in Chosen, NEW l \in Thought, s \in known,
         Prefs!Update(r, Prefs!Merge(prefs, s, m, l)), known' = known
  PROVE  /\ prefs' \in PrefStates /\ OneEach(prefs') /\ Prefs!Ids(prefs') \cup Prefs!Ids(file') \subseteq known'
         /\ file' = file /\ since \subseteq since' /\ saver' = r /\ failures' = failures
         /\ prefs'.default.tools = prefs.default.tools /\ forgotten \subseteq forgotten'
         /\ s \in Prefs!Ids(prefs') /\ Prefs!Of(prefs', s) = Prefs!With(Prefs!Of(prefs, s), m, l)
         /\ \A u \in Names : u # s /\ runtimes[u] # None /\ u \notin forgotten' => Prefs!Of(prefs', u) = Prefs!Of(prefs, u)
  <1>1. prefs \in PrefStates /\ OneEach(prefs) /\ Prefs!Ids(prefs) \cup Prefs!Ids(file) \subseteq known
    BY DEF PrefsInv, PrefsTyped, NamesKnown
  <1>2. /\ prefs' = Prefs!Merge(prefs, s, m, l) /\ file' = file /\ since \subseteq since' /\ saver' = r
        /\ failures' = failures /\ forgotten \subseteq forgotten'
        /\ \A u \in Prefs!Ids(prefs) \ Prefs!Ids(prefs') : u \in Names /\ runtimes[u] # None => u \in forgotten'
    BY DEF Prefs!Update
  <1>3. /\ prefs' \in PrefStates /\ OneEach(prefs') /\ prefs'.default.tools = prefs.default.tools
        /\ s \in Prefs!Ids(prefs') /\ Prefs!Of(prefs', s) = Prefs!With(Prefs!Of(prefs, s), m, l)
        /\ Prefs!Ids(prefs') \subseteq Prefs!Ids(prefs) \cup {s}
        /\ \A t \in Prefs!Ids(prefs') : t # s => Prefs!Of(prefs', t) = Prefs!Of(prefs, t)
    BY <1>1, <1>2, MergeKept
  <1>4. ASSUME NEW u \in Names, u # s, runtimes[u] # None, u \notin forgotten'
        PROVE  Prefs!Of(prefs', u) = Prefs!Of(prefs, u)
    <2>1. CASE u \in Prefs!Ids(prefs')
      BY <1>3, <1>4, <2>1
    <2>2. CASE u \notin Prefs!Ids(prefs')
      <3>1. u \notin Prefs!Ids(prefs)
        BY <1>2, <1>4, <2>2
      <3> QED
        BY <2>2, <3>1 DEF Prefs!Of
    <2> QED
      BY <2>1, <2>2
  <1>5. Prefs!Ids(file') = Prefs!Ids(file)
    BY <1>2
  <1> QED
    BY <1>1, <1>2, <1>3, <1>4, <1>5

-----------------------------------------------------------------------------
(* The steps of the service.                                                 *)

LEMMA InitialPrefs ==
  ASSUME NEW f \in PrefFiles, OneEach(f), Prefs!Started(f)
  PROVE  PrefsInv
  <1>0. None \notin Callers
    BY ServicesAssumption
  <1>1. /\ file = f /\ prefs = Prefs!Load(f) /\ since = {Prefs!Load(f)} /\ known = Prefs!Ids(f) /\ saver = None
        /\ req = [r \in Callers |-> Prefs!Idle] /\ runtimes = [s \in Names |-> None]
        /\ failures = 0 /\ overlap = FALSE
    BY DEF Prefs!Started, Prefs!Ids
  <1>2. prefs \in PrefStates /\ OneEach(prefs) /\ Prefs!Ids(prefs) = Prefs!Ids(f)
    BY <1>1, LoadFile
  <1>3. PrefsTyped
    BY <1>1, <1>2, HandlingsMade DEF PrefsTyped
  <1>4. \A r \in Callers : req[r].pc = "idle"
    BY <1>1 DEF Prefs!Idle
  <1>5. \A s \in Names : runtimes[s] = None
    BY <1>1
  <1>6. NamesKnown
    BY <1>1, <1>2, <1>4, <1>5 DEF NamesKnown
  <1>7. Handled
    BY <1>0, <1>1, <1>4 DEF Handled
  <1>8. ToolsAgree /\ OpeningAgrees /\ LiveAgrees
    BY <1>4, <1>5 DEF ToolsAgree, OpeningAgrees, LiveAgrees
  <1>9. Prefs!SavedIsKept
    BY <1>1 DEF Prefs!SavedIsKept
  <1> QED
    BY <1>3, <1>6, <1>7, <1>8, <1>9 DEF PrefsInv

LEMMA PrefsInit == Prefs!Init \/ Prefs!Started(Prefs!NoPrefs) => PrefsInv
  <1>1. Prefs!Choice \in Selections
    BY DEF Prefs!Choice, Selections, Chosen, Thought
  <1>2. ASSUME Prefs!Started(Prefs!NoPrefs) PROVE PrefsInv
    <2>1. Prefs!NoPrefs \in PrefFiles /\ OneEach(Prefs!NoPrefs)
      BY <1>1 DEF Prefs!NoPrefs, PrefFiles, OneEach
    <2> QED
      BY <1>2, <2>1, InitialPrefs
  <1>3. ASSUME NEW s \in Names, NEW m \in Models, Prefs!Started(Prefs!OldPrefs(s, m, ThinkingLevels(m)[1]))
        PROVE  PrefsInv
    <2> DEFINE l == ThinkingLevels(m)[1]
               e == [id |-> s, model |-> m, level |-> l, tools |-> Tools]
    <2>1. l \in Levels
      BY PrefsAssumption
    <2> HIDE DEF l
    <2>2. e \in [id : Names, model : Chosen, level : Thought, tools : SUBSET Tools]
      BY <2>1 DEF Chosen, Thought
    <2> HIDE DEF e
    <2>3. <<e>> \in Seq([id : Names, model : Chosen, level : Thought, tools : SUBSET Tools])
      BY <2>2
    <2>4. Prefs!OldPrefs(s, m, l) = [default |-> Prefs!Choice, sessions |-> <<e>>]
      BY DEF Prefs!OldPrefs, e
    <2>5. Prefs!OldPrefs(s, m, l) \in PrefFiles /\ OneEach(Prefs!OldPrefs(s, m, l))
      BY <1>1, <2>3, <2>4 DEF PrefFiles, OneEach
    <2> QED
      BY <1>3, <2>5, InitialPrefs DEF l
  <1> QED
    BY <1>2, <1>3 DEF Prefs!Init

LEMMA PrefsSaved ==
  ASSUME PrefsInv, NEW r \in Callers, Prefs!Saved(r)
  PROVE  PrefsInv'
  <1>1. /\ saver = r /\ saver' = None /\ file' = prefs /\ since' = {prefs}
        /\ UNCHANGED <<prefs, known, runtimes, failures, forgotten>>
    BY DEF Prefs!Saved
  <1>2. req[r].pc \in {"save", "tool", "bind"} /\ req[r] \in Handlings
    BY <1>1 DEF PrefsInv, PrefsTyped, Handled
  <1>3. PICK next \in Handlings :
          /\ Prefs!Goes(r, next)
          /\ req[r].pc = "save" => next.pc = "idle"
          /\ req[r].pc = "tool" => next.pc = "push"
          /\ req[r].pc = "bind" => next.pc = "register" /\ next.s = req[r].s /\ next.choice = req[r].choice
    <2>1. CASE req[r].pc = "save"
      BY <2>1, HandlingsMade DEF Prefs!Saved
    <2>2. CASE req[r].pc = "tool"
      BY <2>2, HandlingsMade DEF Prefs!Saved
    <2>3. CASE req[r].pc = "bind"
      BY <1>2, <2>3, HandlingMoves DEF Prefs!Saved
    <2> QED
      BY <1>2, <2>1, <2>2, <2>3
  <1>4. /\ req' \in [Callers -> Handlings] /\ req'[r] = next /\ (\A q \in Callers : q # r => req'[q] = req[q])
        /\ overlap' = overlap /\ overlap' \in BOOLEAN
        /\ ~overlap => \A q \in Callers : q # r => req[q].pc = "idle" /\ req'[q].pc = "idle"
    BY <1>2, <1>3, GoesAlone
  <1>5. /\ prefs \in PrefStates /\ OneEach(prefs) /\ runtimes \in [Names -> Selections \cup {None}] /\ failures \in Nat
        /\ Prefs!Ids(prefs) \subseteq known /\ (\A s \in Names : runtimes[s] # None => s \in known)
        /\ \A q \in Callers : req[q].pc \in {"open", "bind", "register", "config"} => req[q].s \in known
    BY DEF PrefsInv, PrefsTyped, NamesKnown
  <1>6. PrefsTyped'
    BY <1>1, <1>4, <1>5, LoadState DEF PrefsTyped
  <1>7. Prefs!SavedIsKept'
    <2>1. Prefs!Load(file') \in since'
      BY <1>1, <1>5, LoadState
    <2> QED
      BY <2>1 DEF Prefs!SavedIsKept
  <1>8. NamesKnown'
    <2>1. \A q \in Callers : req'[q].pc \in {"open", "bind", "register", "config"} => req'[q].s \in known
      BY <1>2, <1>3, <1>4, <1>5
    <2> QED
      BY <1>1, <1>5, <2>1 DEF NamesKnown
  <1>9. Handled'
    BY <1>1, <1>4, HandledAfter
  <1>a. Undisturbed' => Undisturbed /\ \A q \in Callers : q # r => req[q].pc = "idle" /\ req'[q].pc = "idle"
    BY <1>1, <1>4 DEF Undisturbed
  <1>b. ToolsAgree'
    <2>1. req[r].pc # "tool" /\ Undisturbed => \A s \in Names : runtimes[s] # None => runtimes[s].tools = prefs.default.tools
      BY <1>1, <1>2, <1>4, AtRest DEF Undisturbed
    <2> QED
      BY <1>1, <1>2, <1>3, <1>4, <1>a, <2>1, ToolsAfter
  <1>c. OpeningAgrees'
    <2>1. Undisturbed /\ req[r].pc = "bind" => req[r].choice = Prefs!Get(prefs, req[r].s)
      BY DEF PrefsInv, OpeningAgrees
    <2> QED
      BY <1>1, <1>2, <1>3, <1>4, <1>a, <2>1, OpeningAfter
  <1>d. LiveAgrees'
    <2>1. Undisturbed => \A s \in Names : runtimes[s] # None /\ s \notin forgotten => Same(Prefs!Of(prefs, s), runtimes[s])
      BY <1>2, <1>4, LiveAtRest DEF Undisturbed
    <2>2. next.pc # "config"
      BY <1>2, <1>3
    <2> QED
      BY <1>1, <1>4, <1>a, <2>1, <2>2, LiveAfter
  <1> QED
    BY <1>6, <1>7, <1>8, <1>9, <1>b, <1>c, <1>d DEF PrefsInv

LEMMA PrefsSaveFails ==
  ASSUME PrefsInv, NEW r \in Callers, Prefs!SaveFails(r)
  PROVE  PrefsInv'
  <1>1. /\ saver = r /\ saver' = None /\ file' = file /\ failures' = failures + 1 /\ Prefs!Goes(r, Prefs!Idle)
        /\ UNCHANGED <<prefs, known, runtimes, forgotten, since>>
    BY DEF Prefs!SaveFails, Prefs!Unfinished
  <1>2. req[r].pc # "idle" /\ failures \in Nat
    BY <1>1 DEF PrefsInv, PrefsTyped, Handled
  <1>3. Prefs!Idle \in Handlings /\ Prefs!Idle.pc = "idle"
    BY HandlingsMade
  <1>4. /\ req' \in [Callers -> Handlings] /\ req'[r] = Prefs!Idle /\ (\A q \in Callers : q # r => req'[q] = req[q])
        /\ overlap' = overlap /\ overlap' \in BOOLEAN
        /\ ~overlap => \A q \in Callers : q # r => req[q].pc = "idle" /\ req'[q].pc = "idle"
    BY <1>1, <1>2, <1>3, GoesAlone
  <1>5. PrefsTyped'
    BY <1>1, <1>2, <1>4 DEF PrefsInv, PrefsTyped, OneEach
  <1>6. Prefs!SavedIsKept'
    BY <1>1, SavedStays
  <1>7. NamesKnown'
    BY <1>1, <1>3, <1>4 DEF PrefsInv, NamesKnown
  <1>8. Handled'
    BY <1>1, <1>4, HandledAfter
  <1> QED
    BY <1>1, <1>2, <1>5, <1>6, <1>7, <1>8, Disturbed DEF PrefsInv

LEMMA PrefsCrash ==
  ASSUME PrefsInv, Prefs!Crash
  PROVE  PrefsInv'
  <1>0. None \notin Callers
    BY ServicesAssumption
  <1>1. /\ failures' = failures + 1 /\ file' = file /\ prefs' = Prefs!Load(file) /\ saver' = None
        /\ req' = [r \in Callers |-> Prefs!Idle] /\ runtimes' = [s \in Names |-> None]
        /\ UNCHANGED <<known, overlap, since>>
    BY DEF Prefs!Crash, Prefs!Unfinished
  <1>2. failures \in Nat /\ file \in PrefFiles /\ OneEach(file) /\ overlap \in BOOLEAN /\ Prefs!Ids(file) \subseteq known
    BY DEF PrefsInv, PrefsTyped, NamesKnown
  <1>3. prefs' \in PrefStates /\ OneEach(prefs') /\ Prefs!Ids(prefs') = Prefs!Ids(file)
    BY <1>1, <1>2, LoadFile
  <1>4. \A q \in Callers : req'[q] \in Handlings /\ req'[q].pc = "idle"
    BY <1>1, HandlingsMade
  <1>5. req' \in [Callers -> Handlings] /\ runtimes' \in [Names -> Selections \cup {None}]
    BY <1>1, <1>4
  <1>6. PrefsTyped'
    BY <1>1, <1>2, <1>3, <1>5 DEF PrefsTyped
  <1>7. Prefs!SavedIsKept'
    BY <1>1, SavedStays
  <1>8. NamesKnown'
    BY <1>1, <1>2, <1>3, <1>4 DEF NamesKnown
  <1>9. Handled'
    BY <1>0, <1>1, <1>4 DEF Handled
  <1> QED
    BY <1>1, <1>2, <1>6, <1>7, <1>8, <1>9, Disturbed DEF PrefsInv

LEMMA PrefsCloseChat ==
  ASSUME PrefsInv, NEW s \in Names, Prefs!CloseChat(s)
  PROVE  PrefsInv'
  <1>1. /\ runtimes' = [runtimes EXCEPT ![s] = None] /\ forgotten' = forgotten \ {s}
        /\ UNCHANGED <<prefs, file, saver, req, known, failures, overlap, since>>
    BY DEF Prefs!CloseChat
  <1>2. runtimes \in [Names -> Selections \cup {None}]
    BY DEF PrefsInv, PrefsTyped
  <1>3. /\ runtimes' \in [Names -> Selections \cup {None}]
        /\ \A u \in Names : runtimes'[u] # None =>
             runtimes[u] # None /\ runtimes'[u] = runtimes[u] /\ (u \notin forgotten' => u \notin forgotten)
    BY <1>1, <1>2
  <1>4. PrefsTyped'
    BY <1>1, <1>3 DEF PrefsInv, PrefsTyped, OneEach
  <1>5. Prefs!SavedIsKept'
    BY <1>1, SavedStays
  <1>6. NamesKnown' /\ Handled'
    BY <1>1, <1>3 DEF PrefsInv, NamesKnown, Handled
  <1>7. ToolsAgree'
    BY <1>1, <1>3 DEF PrefsInv, ToolsAgree, Undisturbed, Due
  <1>8. OpeningAgrees'
    <2>1. \A r \in Callers : req[r].pc = "open" => req[r].s \in Names
      BY HandlingFields DEF PrefsInv, PrefsTyped
    <2> QED
      BY <1>1, <1>3, <2>1 DEF PrefsInv, OpeningAgrees, Undisturbed
  <1>9. LiveAgrees'
    BY <1>1, <1>3 DEF PrefsInv, LiveAgrees, Undisturbed, Configures, Same
  <1> QED
    BY <1>4, <1>5, <1>6, <1>7, <1>8, <1>9 DEF PrefsInv

(* A step of one request that changes nothing but where it stands.          *)
LEMMA PrefsReads ==
  ASSUME PrefsInv, NEW r \in Callers, UNCHANGED <<prefs, file, saver, failures, forgotten, since, known, runtimes>>,
         req' \in [Callers -> Handlings], \A q \in Callers : q # r => req'[q] = req[q], overlap' \in BOOLEAN,
         ~overlap' => ~overlap /\ \A q \in Callers : q # r => req[q].pc = "idle" /\ req'[q].pc = "idle",
         req[r].pc = "idle", req'[r].pc = "options"
  PROVE  PrefsInv'
  <1>1. PrefsTyped'
    BY DEF PrefsInv, PrefsTyped, OneEach
  <1>2. Prefs!SavedIsKept'
    BY SavedStays
  <1>3. NamesKnown'
    BY DEF PrefsInv, NamesKnown
  <1>4. saver # r
    BY DEF PrefsInv, Handled
  <1>5. Handled'
    BY <1>4, HandledAfter
  <1>6. Undisturbed' => Undisturbed /\ \A q \in Callers : req[q].pc = "idle" /\ (q # r => req'[q].pc = "idle")
    BY DEF Undisturbed
  <1>7. ToolsAgree'
    BY <1>6, AtRest, ToolsAfter
  <1>8. OpeningAgrees'
    BY <1>6, OpeningAfter
  <1>9. LiveAgrees'
    BY <1>6, LiveAtRest, LiveAfter
  <1> QED
    BY <1>1, <1>2, <1>3, <1>5, <1>7, <1>8, <1>9 DEF PrefsInv

LEMMA PrefsReadOptions ==
  ASSUME PrefsInv, NEW r \in Callers, NEW m \in Chosen, NEW l \in Thought, Prefs!ReadOptions(r, m, l)
  PROVE  PrefsInv'
  <1>1. UNCHANGED <<prefs, file, saver, failures, forgotten, since, known, runtimes>>
    BY DEF Prefs!ReadOptions, Prefs!ReadOnly
  <1>2. PICK next \in Handlings : Prefs!Starts(r, next) /\ next.pc = "options"
    <2> DEFINE model == IF m = None THEN prefs.default.model ELSE m
               level == IF l = None THEN prefs.default.level ELSE l
               bad == model # None /\ level # None /\ ~Prefs!Takes(model, level)
               next == [pc |-> "options", model |-> m, level |-> IF bad THEN ThinkingLevels(model)[1] ELSE l]
    <2>1. model \in Chosen
      BY DEF PrefsInv, PrefsTyped, PrefStates, Selections
    <2>2. bad => model \in Models
      BY <2>1 DEF Chosen
    <2> HIDE DEF model, bad
    <2>3. bad => ThinkingLevels(model)[1] \in Thought
      BY <2>2, PrefsAssumption DEF Thought
    <2>4. (IF bad THEN ThinkingLevels(model)[1] ELSE l) \in Thought
      BY <2>3
    <2>5. next \in Handlings /\ next.pc = "options"
      BY <2>4, HandlingsMade
    <2>6. Prefs!Starts(r, next)
      BY DEF Prefs!ReadOptions, model, bad
    <2> QED
      BY <2>5, <2>6
  <1>3. /\ req' \in [Callers -> Handlings] /\ req'[r] = next /\ (\A q \in Callers : q # r => req'[q] = req[q])
        /\ overlap' \in BOOLEAN
        /\ ~overlap' => ~overlap /\ \A q \in Callers : req[q].pc = "idle" /\ (q # r => req'[q].pc = "idle")
    BY <1>2, StartsAlone
  <1>4. req[r].pc = "idle"
    BY <1>2 DEF Prefs!Starts
  <1> QED
    BY <1>1, <1>2, <1>3, <1>4, PrefsReads

LEMMA PrefsUpdateDefault ==
  ASSUME PrefsInv, NEW r \in Callers, Prefs!UpdateDefault(r)
  PROVE  PrefsInv'
  <1> DEFINE next == [pc |-> "save"]
             d == Prefs!With(prefs.default, req[r].model, req[r].level)
  <1>1. /\ prefs' = [prefs EXCEPT !.default = d] /\ saver' = r /\ since \subseteq since'
        /\ forgotten \subseteq forgotten' /\ req[r].pc = "options" /\ Prefs!Goes(r, next)
        /\ UNCHANGED <<file, failures, known, runtimes>>
    BY DEF Prefs!UpdateDefault, Prefs!Update
  <1>2. req[r] \in Handlings /\ prefs \in PrefStates
    BY DEF PrefsInv, PrefsTyped
  <1>3. d \in Selections /\ d.tools = prefs.default.tools
    <2>1. req[r].model \in Chosen /\ req[r].level \in Thought /\ prefs.default \in Selections
      BY <1>1, <1>2, HandlingFields DEF PrefStates
    <2> QED
      BY <2>1, WithTyped
  <1> HIDE DEF d
  <1>4. prefs' \in PrefStates /\ prefs'.sessions = prefs.sessions /\ prefs'.default.tools = prefs.default.tools
    BY <1>1, <1>2, <1>3 DEF PrefStates
  <1>5. /\ Prefs!Ids(prefs') = Prefs!Ids(prefs) /\ (OneEach(prefs) => OneEach(prefs'))
        /\ \A s \in Names : Prefs!Of(prefs', s) = Prefs!Of(prefs, s)
    BY <1>4, SameSessions
  <1>6. next \in Handlings /\ next.pc = "save"
    BY HandlingsMade
  <1> HIDE DEF next
  <1>7. /\ req' \in [Callers -> Handlings] /\ req'[r] = next /\ (\A q \in Callers : q # r => req'[q] = req[q])
        /\ overlap' = overlap /\ overlap' \in BOOLEAN
        /\ ~overlap => \A q \in Callers : q # r => req[q].pc = "idle" /\ req'[q].pc = "idle"
    BY <1>1, <1>6, GoesAlone
  <1>8. PrefsTyped'
    BY <1>1, <1>4, <1>5, <1>7 DEF PrefsInv, PrefsTyped, OneEach
  <1>9. Prefs!SavedIsKept'
    BY <1>1, SavedStays
  <1>a. NamesKnown'
    BY <1>1, <1>5, <1>6, <1>7 DEF PrefsInv, NamesKnown, Prefs!Ids
  <1>b. Handled'
    BY <1>1, <1>6, <1>7, HandledAfter
  <1>c. Undisturbed' => Undisturbed /\ \A q \in Callers : q # r => req[q].pc = "idle" /\ req'[q].pc = "idle"
    BY <1>1, <1>7 DEF Undisturbed
  <1>d. ToolsAgree'
    <2>1. Undisturbed => \A s \in Names : runtimes[s] # None => runtimes[s].tools = prefs.default.tools
      BY <1>1, <1>7, AtRest DEF Undisturbed
    <2> QED
      BY <1>1, <1>4, <1>6, <1>7, <1>c, <2>1, ToolsAfter
  <1>e. OpeningAgrees'
    BY <1>6, <1>7, <1>c, OpeningAfter
  <1>f. LiveAgrees'
    <2>1. Undisturbed => \A s \in Names : runtimes[s] # None /\ s \notin forgotten => Same(Prefs!Of(prefs, s), runtimes[s])
      BY <1>1, <1>7, LiveAtRest DEF Undisturbed
    <2> QED
      BY <1>1, <1>5, <1>6, <1>7, <1>c, <2>1, LiveAfter
  <1> QED
    BY <1>8, <1>9, <1>a, <1>b, <1>d, <1>e, <1>f DEF PrefsInv

LEMMA PrefsSetToolEnabled ==
  ASSUME PrefsInv, NEW r \in Callers, NEW t \in Tools, NEW enabled \in BOOLEAN, Prefs!SetToolEnabled(r, t, enabled)
  PROVE  PrefsInv'
  <1> DEFINE next == [pc |-> "tool"]
             u == IF enabled THEN prefs.default.tools \ {t} ELSE prefs.default.tools \cup {t}
  <1>1. /\ prefs' = [prefs EXCEPT !.default.tools = u] /\ saver' = r /\ since \subseteq since'
        /\ forgotten \subseteq forgotten' /\ Prefs!Starts(r, next)
        /\ UNCHANGED <<file, failures, known, runtimes>>
    BY DEF Prefs!SetToolEnabled, Prefs!Update
  <1>2. prefs \in PrefStates
    BY DEF PrefsInv, PrefsTyped
  <1>3. u \in SUBSET Tools
    BY <1>2 DEF PrefStates, Selections
  <1> HIDE DEF u
  <1>4. prefs' \in PrefStates /\ prefs'.sessions = prefs.sessions
    <2>1. prefs' = [prefs EXCEPT !.default = [prefs.default EXCEPT !.tools = u]]
      BY <1>1
    <2>2. [prefs.default EXCEPT !.tools = u] \in Selections
      BY <1>2, <1>3 DEF PrefStates, Selections
    <2> QED
      BY <1>2, <2>1, <2>2 DEF PrefStates
  <1>5. /\ Prefs!Ids(prefs') = Prefs!Ids(prefs) /\ (OneEach(prefs) => OneEach(prefs'))
        /\ \A s \in Names : Prefs!Of(prefs', s) = Prefs!Of(prefs, s)
    BY <1>4, SameSessions
  <1>6. next \in Handlings /\ next.pc = "tool"
    BY HandlingsMade
  <1> HIDE DEF next
  <1>7. /\ req' \in [Callers -> Handlings] /\ req'[r] = next /\ (\A q \in Callers : q # r => req'[q] = req[q])
        /\ overlap' \in BOOLEAN
        /\ ~overlap' => ~overlap /\ \A q \in Callers : req[q].pc = "idle" /\ (q # r => req'[q].pc = "idle")
    BY <1>1, <1>6, StartsAlone
  <1>8. PrefsTyped'
    BY <1>1, <1>4, <1>5, <1>7 DEF PrefsInv, PrefsTyped, OneEach
  <1>9. Prefs!SavedIsKept'
    BY <1>1, SavedStays
  <1>a. NamesKnown'
    BY <1>1, <1>5, <1>6, <1>7 DEF PrefsInv, NamesKnown, Prefs!Ids
  <1>b. Handled'
    BY <1>1, <1>6, <1>7, HandledAfter
  <1>c. Undisturbed' => Undisturbed /\ \A q \in Callers : req[q].pc = "idle" /\ (q # r => req'[q].pc = "idle")
    BY <1>1, <1>7 DEF Undisturbed
  <1>d. ToolsAgree'
    BY <1>6, <1>7, <1>c, ToolsAfter
  <1>e. OpeningAgrees'
    BY <1>6, <1>7, <1>c, OpeningAfter
  <1>f. LiveAgrees'
    <2>1. Undisturbed' => \A s \in Names : runtimes[s] # None /\ s \notin forgotten => Same(Prefs!Of(prefs, s), runtimes[s])
      BY <1>c, LiveAtRest
    <2> QED
      BY <1>1, <1>5, <1>6, <1>7, <1>c, <2>1, LiveAfter
  <1> QED
    BY <1>8, <1>9, <1>a, <1>b, <1>d, <1>e, <1>f DEF PrefsInv

LEMMA PrefsPushRead ==
  ASSUME PrefsInv, NEW r \in Callers, Prefs!PushRead(r)
  PROVE  PrefsInv'
  <1> DEFINE next == [pc |-> "pushing", tools |-> prefs.default.tools, chats |-> {s \in Names : runtimes[s] # None}]
  <1>1. /\ req[r].pc = "push" /\ saver = None /\ Prefs!Goes(r, next)
        /\ UNCHANGED <<prefs, file, saver, failures, forgotten, since, known, runtimes>>
    BY DEF Prefs!PushRead, Prefs!ReadOnly
  <1>2. next \in Handlings
    <2>1. prefs.default.tools \in SUBSET Tools
      BY DEF PrefsInv, PrefsTyped, PrefStates, Selections
    <2> QED
      BY <2>1, HandlingsMade
  <1>3. next.pc = "pushing" /\ next.tools = prefs.default.tools /\ \A s \in Names : runtimes[s] # None => s \in next.chats
    OBVIOUS
  <1> HIDE DEF next
  <1>4. /\ req' \in [Callers -> Handlings] /\ req'[r] = next /\ (\A q \in Callers : q # r => req'[q] = req[q])
        /\ overlap' = overlap /\ overlap' \in BOOLEAN
        /\ ~overlap => \A q \in Callers : q # r => req[q].pc = "idle" /\ req'[q].pc = "idle"
    BY <1>1, <1>2, GoesAlone
  <1>5. PrefsTyped'
    BY <1>1, <1>4 DEF PrefsInv, PrefsTyped, OneEach
  <1>6. Prefs!SavedIsKept'
    BY <1>1, SavedStays
  <1>7. NamesKnown'
    BY <1>1, <1>3, <1>4 DEF PrefsInv, NamesKnown
  <1>8. Handled'
    BY <1>1, <1>4, HandledAfter
  <1>9. Undisturbed' => Undisturbed /\ \A q \in Callers : q # r => req[q].pc = "idle" /\ req'[q].pc = "idle"
    BY <1>1, <1>4 DEF Undisturbed
  <1>a. ToolsAgree'
    BY <1>1, <1>3, <1>4, <1>9, ToolsAfter
  <1>b. OpeningAgrees'
    BY <1>3, <1>4, <1>9, OpeningAfter
  <1>c. LiveAgrees'
    <2>1. Undisturbed => \A s \in Names : runtimes[s] # None /\ s \notin forgotten => Same(Prefs!Of(prefs, s), runtimes[s])
      BY <1>1, <1>4, LiveAtRest DEF Undisturbed
    <2> QED
      BY <1>1, <1>3, <1>4, <1>9, <2>1, LiveAfter
  <1> QED
    BY <1>5, <1>6, <1>7, <1>8, <1>a, <1>b, <1>c DEF PrefsInv

LEMMA PrefsPushOne ==
  ASSUME PrefsInv, NEW r \in Callers, Prefs!PushOne(r)
  PROVE  PrefsInv'
  <1>1. /\ req[r].pc = "pushing" /\ UNCHANGED <<prefs, file, saver, failures, forgotten, since, known>>
    BY DEF Prefs!PushOne, Prefs!ReadOnly
  <1>2. /\ req[r] \in Handlings /\ runtimes \in [Names -> Selections \cup {None}] /\ saver # r
    BY <1>1 DEF PrefsInv, PrefsTyped, Handled
  <1>3. req[r].tools \in SUBSET Tools /\ req[r].chats \in SUBSET Names
    BY <1>1, <1>2, HandlingFields
  <1>4. \A c \in Selections : [c EXCEPT !.tools = req[r].tools] \in Selections
    BY <1>3 DEF Selections
  (* What the step gives: one chat less to tell, and that one has the tools. *)
  <1>5. PICK next \in Handlings :
          /\ Prefs!Goes(r, next) /\ next.pc \in {"idle", "pushing"}
          /\ next.pc = "pushing" => next.tools = req[r].tools
          /\ runtimes' \in [Names -> Selections \cup {None}]
          /\ \A s \in Names : runtimes'[s] # None =>
               /\ runtimes[s] # None /\ Same(runtimes'[s], runtimes[s])
               /\ runtimes'[s].tools = runtimes[s].tools \/ runtimes'[s].tools = req[r].tools
               /\ s \in req[r].chats => (next.pc = "pushing" /\ s \in next.chats) \/ runtimes'[s].tools = req[r].tools
    <2>1. CASE req[r].chats = {}
      <3>1. Prefs!Goes(r, Prefs!Idle) /\ runtimes' = runtimes
        BY <2>1 DEF Prefs!PushOne
      <3> QED
        BY <1>2, <2>1, <3>1, HandlingsMade DEF Same
    <2>2. CASE req[r].chats # {}
      <3>1. PICK s \in req[r].chats :
              /\ Prefs!Goes(r, [req[r] EXCEPT !.chats = @ \ {s}])
              /\ runtimes' = [runtimes EXCEPT ![s] = IF @ = None THEN None ELSE [@ EXCEPT !.tools = req[r].tools]]
        BY <2>2 DEF Prefs!PushOne
      <3> DEFINE next == [req[r] EXCEPT !.chats = @ \ {s}]
      <3>2. /\ next \in Handlings /\ next.pc = "pushing" /\ next.tools = req[r].tools
            /\ next.chats = req[r].chats \ {s} /\ s \in Names
        BY ZenonT(40), <1>1, <1>2, <1>3, HandlingMoves
      <3> HIDE DEF next
      <3>3. /\ runtimes' \in [Names -> Selections \cup {None}]
            /\ \A u \in Names : u # s => runtimes'[u] = runtimes[u]
            /\ runtimes[s] = None => runtimes'[s] = None
            /\ runtimes[s] # None => runtimes'[s] = [runtimes[s] EXCEPT !.tools = req[r].tools]
        BY <1>2, <1>4, <3>1, <3>2
      <3>4. \A c \in Selections : Same([c EXCEPT !.tools = req[r].tools], c) /\ [c EXCEPT !.tools = req[r].tools].tools = req[r].tools
        BY DEF Selections, Same
      <3>5. runtimes'[s] # None => /\ runtimes[s] # None /\ Same(runtimes'[s], runtimes[s])
                                   /\ runtimes'[s].tools = req[r].tools
        BY <1>2, <3>2, <3>3, <3>4
      <3>6. \A u \in Names : u # s /\ u \in req[r].chats => u \in next.chats
        BY <3>2
      <3>7. Prefs!Goes(r, next)
        BY <3>1 DEF next
      <3>8. \A u \in Names : runtimes'[u] # None =>
               /\ runtimes[u] # None /\ Same(runtimes'[u], runtimes[u])
               /\ runtimes'[u].tools = runtimes[u].tools \/ runtimes'[u].tools = req[r].tools
               /\ u \in req[r].chats => u \in next.chats \/ runtimes'[u].tools = req[r].tools
        BY <3>3, <3>5, <3>6 DEF Same
      <3> QED
        BY <3>2, <3>3, <3>7, <3>8
    <2> QED
      BY <2>1, <2>2
  <1>6. /\ req' \in [Callers -> Handlings] /\ req'[r] = next /\ (\A q \in Callers : q # r => req'[q] = req[q])
        /\ overlap' = overlap /\ overlap' \in BOOLEAN
        /\ ~overlap => \A q \in Callers : q # r => req[q].pc = "idle" /\ req'[q].pc = "idle"
    BY <1>1, <1>5, GoesAlone
  <1>7. PrefsTyped'
    BY <1>1, <1>5, <1>6 DEF PrefsInv, PrefsTyped, OneEach
  <1>8. Prefs!SavedIsKept'
    BY <1>1, SavedStays
  <1>9. NamesKnown'
    BY <1>1, <1>5, <1>6 DEF PrefsInv, NamesKnown
  <1>a. Handled'
    BY <1>1, <1>2, <1>6, HandledAfter
  <1>b. Undisturbed' => Undisturbed /\ \A q \in Callers : q # r => req[q].pc = "idle" /\ req'[q].pc = "idle"
    BY <1>1, <1>6 DEF Undisturbed
  <1>c. ToolsAgree'
    <2>1. Undisturbed => req[r].tools = prefs.default.tools
      BY <1>1 DEF PrefsInv, ToolsAgree
    <2>2. Undisturbed => \A s \in Names : runtimes[s] # None => runtimes[s].tools = prefs.default.tools \/ s \in req[r].chats
      <3> SUFFICES ASSUME Undisturbed, NEW s \in Names, runtimes[s] # None
                   PROVE  runtimes[s].tools = prefs.default.tools \/ s \in req[r].chats
        OBVIOUS
      <3>1. Due(s) => s \in req[r].chats
        BY <1>1, <1>6 DEF Due, Undisturbed
      <3> QED
        BY <3>1 DEF PrefsInv, ToolsAgree
    <2>3. Undisturbed => \A s \in Names : runtimes'[s] # None =>
            runtimes'[s].tools = prefs.default.tools \/ (next.pc = "pushing" /\ s \in next.chats)
      BY <1>5, <2>1, <2>2
    <2> QED
      BY <1>1, <1>5, <1>6, <1>b, <2>1, <2>3, ToolsAfter
  <1>d. OpeningAgrees'
    BY <1>5, <1>6, <1>b, OpeningAfter
  <1>e. LiveAgrees'
    <2>1. Undisturbed => \A s \in Names : runtimes[s] # None /\ s \notin forgotten => Same(Prefs!Of(prefs, s), runtimes[s])
      BY <1>1, <1>6, LiveAtRest DEF Undisturbed
    <2>2. Undisturbed => \A s \in Names : runtimes'[s] # None /\ s \notin forgotten => Same(Prefs!Of(prefs, s), runtimes'[s])
      BY <1>5, <2>1 DEF Same
    <2> QED
      BY <1>1, <1>5, <1>6, <1>b, <2>2, LiveAfter
  <1> QED
    BY <1>7, <1>8, <1>9, <1>a, <1>c, <1>d, <1>e DEF PrefsInv

LEMMA PrefsOpenRead ==
  ASSUME PrefsInv, NEW r \in Callers, NEW s \in Names, Prefs!OpenRead(r, s)
  PROVE  PrefsInv'
  <1> DEFINE c == IF s \in known THEN Prefs!Get(prefs, s) ELSE prefs.default
             next == [pc |-> "open", s |-> s, new |-> s \notin known, choice |-> c]
  <1>1. /\ runtimes[s] = None /\ Prefs!Starts(r, next) /\ known' = known \cup {s}
        /\ UNCHANGED <<prefs, file, saver, failures, forgotten, since, runtimes>>
    BY DEF Prefs!OpenRead, Prefs!ReadOnly
  <1>2. /\ prefs \in PrefStates /\ OneEach(prefs) /\ prefs.default \in Selections
        /\ Prefs!Ids(prefs) \subseteq known /\ req[r].pc = "idle" /\ saver # r
    <2>1. req[r].pc = "idle"
      BY <1>1 DEF Prefs!Starts
    <2> QED
      BY <2>1 DEF PrefsInv, PrefsTyped, PrefStates, NamesKnown, Handled
  <1>3. Prefs!Get(prefs, s) \in Selections
    BY <1>2, OfTyped DEF Prefs!Get, Selections, Entries
  <1>4. next \in Handlings
    <2>1. c \in Selections /\ (s \notin known) \in BOOLEAN
      BY <1>2, <1>3
    <2> HIDE DEF c
    <2> QED
      BY <2>1, HandlingsMade
  <1>5. /\ next.pc = "open" /\ next.s = s
        /\ next.new => s \notin known /\ next.choice = prefs.default
        /\ ~next.new => next.choice = Prefs!Get(prefs, s)
    OBVIOUS
  <1> HIDE DEF next
  <1>6. /\ req' \in [Callers -> Handlings] /\ req'[r] = next /\ (\A q \in Callers : q # r => req'[q] = req[q])
        /\ overlap' \in BOOLEAN
        /\ ~overlap' => ~overlap /\ \A q \in Callers : req[q].pc = "idle" /\ (q # r => req'[q].pc = "idle")
    BY <1>1, <1>4, StartsAlone
  <1>7. PrefsTyped'
    BY <1>1, <1>6 DEF PrefsInv, PrefsTyped, OneEach
  <1>8. Prefs!SavedIsKept'
    BY <1>1, SavedStays
  <1>9. NamesKnown'
    BY <1>1, <1>5, <1>6 DEF PrefsInv, NamesKnown, Prefs!Ids
  <1>a. Handled'
    BY <1>1, <1>2, <1>6, HandledAfter
  <1>b. Undisturbed' => Undisturbed /\ \A q \in Callers : req[q].pc = "idle" /\ (q # r => req'[q].pc = "idle")
    BY <1>1, <1>6 DEF Undisturbed
  <1>c. ToolsAgree'
    <2>1. Undisturbed' => \A u \in Names : runtimes[u] # None => runtimes[u].tools = prefs.default.tools
      BY <1>b, AtRest
    <2> QED
      BY <1>1, <1>5, <1>6, <1>b, <2>1, ToolsAfter
  <1>d. OpeningAgrees'
    BY <1>1, <1>2, <1>5, <1>6, <1>b, OpeningAfter
  <1>e. LiveAgrees'
    <2>1. Undisturbed' => \A u \in Names : runtimes[u] # None /\ u \notin forgotten => Same(Prefs!Of(prefs, u), runtimes[u])
      BY <1>b, LiveAtRest
    <2> QED
      BY <1>1, <1>5, <1>6, <1>b, <2>1, LiveAfter
  <1> QED
    BY <1>7, <1>8, <1>9, <1>a, <1>c, <1>d, <1>e DEF PrefsInv

LEMMA PrefsBind ==
  ASSUME PrefsInv, NEW r \in Callers, Prefs!Bind(r)
  PROVE  PrefsInv'
  <1> DEFINE s == req[r].s
             c == req[r].choice
             merges == req[r].new /\ (c.model # None \/ c.level # None)
  <1>1. req[r].pc = "open" /\ known' = known /\ runtimes' = runtimes
    BY DEF Prefs!Bind
  <1>2. /\ req[r] \in Handlings /\ saver # r /\ s \in Names /\ s \in known /\ c \in Selections
        /\ c.model \in Chosen /\ c.level \in Thought
        /\ prefs \in PrefStates /\ OneEach(prefs) /\ Prefs!Ids(prefs) \subseteq known
        /\ \A q \in Callers : req[q].pc \in {"open", "bind", "register", "config"} => req[q].s \in known
    <2>1. req[r] \in Handlings /\ s \in Names /\ c \in Selections
      BY <1>1, HandlingFields DEF PrefsInv, PrefsTyped
    <2> QED
      BY <1>1, <2>1 DEF PrefsInv, PrefsTyped, NamesKnown, Handled, Selections
  <1>3. PICK next \in Handlings :
          /\ Prefs!Goes(r, next) /\ next.pc \in {"bind", "register"} /\ next.s = s /\ next.choice = c
          /\ merges => next.pc = "bind" /\ Prefs!Update(r, Prefs!Merge(prefs, s, c.model, c.level))
          /\ ~merges => UNCHANGED <<prefs, file, saver, failures, forgotten, since>>
    <2>1. CASE merges
      BY <1>1, <1>2, <2>1, HandlingMoves DEF Prefs!Bind
    <2>2. CASE ~merges
      BY <1>1, <1>2, <2>2, HandlingMoves DEF Prefs!Bind, Prefs!ReadOnly
    <2> QED
      BY <2>1, <2>2
  <1>4. /\ req' \in [Callers -> Handlings] /\ req'[r] = next /\ (\A q \in Callers : q # r => req'[q] = req[q])
        /\ overlap' = overlap /\ overlap' \in BOOLEAN
        /\ ~overlap => \A q \in Callers : q # r => req[q].pc = "idle" /\ req'[q].pc = "idle"
    BY <1>1, <1>3, GoesAlone
  <1> HIDE DEF merges
  <1>5. /\ prefs' \in PrefStates /\ OneEach(prefs') /\ Prefs!Ids(prefs') \cup Prefs!Ids(file') \subseteq known'
        /\ file' = file /\ since \subseteq since' /\ failures' = failures
        /\ (saver' = r /\ next.pc = "bind") \/ saver' = saver
        /\ prefs'.default.tools = prefs.default.tools /\ forgotten \subseteq forgotten'
        /\ \A u \in Names : u # s /\ runtimes[u] # None /\ u \notin forgotten' => Prefs!Of(prefs', u) = Prefs!Of(prefs, u)
    <2>1. CASE merges
      BY <1>1, <1>2, <1>3, <2>1, Remembered
    <2>2. CASE ~merges
      BY <1>1, <1>3, <2>2 DEF PrefsInv, PrefsTyped, NamesKnown, OneEach, Prefs!Ids
    <2> QED
      BY <2>1, <2>2
  <1>6. PrefsTyped'
    BY <1>1, <1>4, <1>5 DEF PrefsInv, PrefsTyped, OneEach
  <1>7. Prefs!SavedIsKept'
    BY <1>5, SavedStays
  <1>8. NamesKnown'
    <2>1. \A q \in Callers : req'[q].pc \in {"open", "bind", "register", "config"} => req'[q].s \in known'
      BY <1>1, <1>2, <1>3, <1>4
    <2> QED
      BY <1>1, <1>5, <2>1 DEF PrefsInv, NamesKnown
  <1>9. Handled'
    BY <1>2, <1>4, <1>5, HandledAfter
  <1>a. Undisturbed' => Undisturbed /\ \A q \in Callers : q # r => req[q].pc = "idle" /\ req'[q].pc = "idle"
    BY <1>4, <1>5 DEF Undisturbed
  <1>b. ToolsAgree'
    <2>1. Undisturbed => \A u \in Names : runtimes[u] # None => runtimes[u].tools = prefs.default.tools
      BY <1>1, <1>4, AtRest DEF Undisturbed
    <2> QED
      BY <1>1, <1>3, <1>4, <1>5, <1>a, <2>1, ToolsAfter
  <1>c. OpeningAgrees'
    <2>1. Undisturbed => c = Prefs!Get(prefs', s)
      <3>1. Undisturbed => /\ req[r].new => s \notin Prefs!Ids(prefs) /\ c = prefs.default
                           /\ ~req[r].new => c = Prefs!Get(prefs, s)
        BY <1>1 DEF PrefsInv, OpeningAgrees
      <3>2. s \notin Prefs!Ids(prefs) => Prefs!Of(prefs, s).model = None /\ Prefs!Of(prefs, s).level = None
        BY DEF Prefs!Of
      <3>3. c = [model |-> c.model, level |-> c.level, tools |-> c.tools]
        BY <1>2 DEF Selections
      <3>4. CASE merges
        <4>1. Prefs!Of(prefs', s) = Prefs!With(Prefs!Of(prefs, s), c.model, c.level)
          BY <1>1, <1>2, <1>3, <3>4, Remembered
        <4>2. Prefs!Of(prefs, s) \in Entries
          BY <1>2, OfTyped
        <4>3. Undisturbed => Prefs!Of(prefs', s).model = c.model /\ Prefs!Of(prefs', s).level = c.level
          BY <3>1, <3>2, <3>4, <4>1, <4>2 DEF merges, Prefs!With, Entries
        <4>4. Undisturbed => c.tools = prefs'.default.tools
          BY <1>5, <3>1, <3>4 DEF merges
        <4> QED
          BY <3>3, <4>3, <4>4 DEF Prefs!Get
      <3>5. CASE ~merges
        <4>1. prefs' = prefs
          BY <1>3, <3>5
        <4>2. CASE req[r].new
          <5>1. Undisturbed => c.model = None /\ c.level = None /\ c.tools = prefs.default.tools
            BY <3>1, <3>5, <4>2 DEF merges
          <5> QED
            BY <3>1, <3>2, <3>3, <4>1, <4>2, <5>1 DEF Prefs!Get
        <4>3. CASE ~req[r].new
          BY <3>1, <4>1, <4>3
        <4> QED
          BY <4>2, <4>3
      <3> QED
        BY <3>4, <3>5
    <2> QED
      BY <1>3, <1>4, <1>a, <2>1, OpeningAfter
  <1>d. LiveAgrees'
    <2>1. Undisturbed => \A u \in Names : runtimes[u] # None /\ u \notin forgotten => Same(Prefs!Of(prefs, u), runtimes[u])
      BY <1>1, <1>4, LiveAtRest DEF Undisturbed
    <2>2. Undisturbed => runtimes[s] = None
      BY <1>1 DEF PrefsInv, OpeningAgrees
    <2>3. Undisturbed => \A u \in Names : runtimes[u] # None /\ u \notin forgotten' => Same(Prefs!Of(prefs', u), runtimes[u])
      BY <1>5, <2>1, <2>2
    <2> QED
      BY <1>1, <1>3, <1>4, <1>5, <1>a, <2>3, LiveAfter
  <1> QED
    BY <1>6, <1>7, <1>8, <1>9, <1>b, <1>c, <1>d DEF PrefsInv

LEMMA PrefsRegister ==
  ASSUME PrefsInv, NEW r \in Callers, Prefs!Register(r)
  PROVE  PrefsInv'
  <1> DEFINE s == req[r].s
             c == req[r].choice
  <1>1. /\ req[r].pc = "register" /\ runtimes' = [runtimes EXCEPT ![s] = c] /\ Prefs!Goes(r, Prefs!Idle)
        /\ UNCHANGED <<prefs, file, saver, failures, forgotten, since, known>>
    BY DEF Prefs!Register, Prefs!ReadOnly
  <1>2. s \in Names /\ s \in known /\ c \in Selections /\ runtimes \in [Names -> Selections \cup {None}] /\ saver # r
    BY <1>1, HandlingFields DEF PrefsInv, PrefsTyped, NamesKnown, Handled
  <1>3. Prefs!Idle \in Handlings /\ Prefs!Idle.pc = "idle"
    BY HandlingsMade
  <1>4. /\ req' \in [Callers -> Handlings] /\ req'[r] = Prefs!Idle /\ (\A q \in Callers : q # r => req'[q] = req[q])
        /\ overlap' = overlap /\ overlap' \in BOOLEAN
        /\ ~overlap => \A q \in Callers : q # r => req[q].pc = "idle" /\ req'[q].pc = "idle"
    BY <1>1, <1>3, GoesAlone
  <1>5. /\ runtimes' \in [Names -> Selections \cup {None}] /\ runtimes'[s] = c
        /\ \A u \in Names : u # s => runtimes'[u] = runtimes[u]
    BY <1>1, <1>2
  <1>6. PrefsTyped'
    BY <1>1, <1>4, <1>5 DEF PrefsInv, PrefsTyped, OneEach
  <1>7. Prefs!SavedIsKept'
    BY <1>1, SavedStays
  <1>8. NamesKnown'
    BY <1>1, <1>2, <1>3, <1>4, <1>5 DEF PrefsInv, NamesKnown
  <1>9. Handled'
    BY <1>1, <1>2, <1>4, HandledAfter
  <1>a. Undisturbed' => Undisturbed /\ \A q \in Callers : q # r => req[q].pc = "idle" /\ req'[q].pc = "idle"
    BY <1>1, <1>4 DEF Undisturbed
  <1>b. Undisturbed => c = Prefs!Get(prefs, s)
    BY <1>1 DEF PrefsInv, OpeningAgrees
  <1>c. ToolsAgree'
    <2>1. Undisturbed => \A u \in Names : runtimes[u] # None => runtimes[u].tools = prefs.default.tools
      BY <1>1, <1>4, AtRest DEF Undisturbed
    <2>2. Undisturbed => c.tools = prefs.default.tools
      BY <1>b DEF Prefs!Get
    <2>3. Undisturbed => \A u \in Names : runtimes'[u] # None => runtimes'[u].tools = prefs.default.tools
      BY <1>5, <2>1, <2>2
    <2> QED
      BY <1>1, <1>3, <1>4, <1>a, <2>3, ToolsAfter
  <1>d. OpeningAgrees'
    BY <1>3, <1>4, <1>a, OpeningAfter
  <1>e. LiveAgrees'
    <2>1. Undisturbed => \A u \in Names : runtimes[u] # None /\ u \notin forgotten => Same(Prefs!Of(prefs, u), runtimes[u])
      BY <1>1, <1>4, LiveAtRest DEF Undisturbed
    <2>2. Undisturbed => Same(Prefs!Of(prefs, s), c)
      BY <1>b DEF Prefs!Get, Same
    <2>3. Undisturbed => \A u \in Names : runtimes'[u] # None /\ u \notin forgotten => Same(Prefs!Of(prefs, u), runtimes'[u])
      BY <1>5, <2>1, <2>2
    <2> QED
      BY <1>1, <1>3, <1>4, <1>a, <2>3, LiveAfter
  <1> QED
    BY <1>6, <1>7, <1>8, <1>9, <1>c, <1>d, <1>e DEF PrefsInv

LEMMA PrefsConfig ==
  ASSUME PrefsInv, NEW r \in Callers, NEW s \in Names, NEW m \in Chosen, NEW l \in Thought, Prefs!Config(r, s, m, l)
  PROVE  PrefsInv'
  <1> DEFINE model == IF m = None THEN runtimes[s].model ELSE m
             refused == l # None /\ model # None /\ ~Prefs!Takes(model, l)
             k == IF refused THEN None ELSE l
  <1>1. /\ runtimes[s] # None /\ runtimes' = [runtimes EXCEPT ![s] = Prefs!With(runtimes[s], m, k)]
        /\ UNCHANGED <<prefs, file, saver, forgotten, since, known>>
    BY DEF Prefs!Config
  <1>2. /\ runtimes \in [Names -> Selections \cup {None}] /\ runtimes[s] \in Selections /\ s \in known /\ failures \in Nat
    BY <1>1 DEF PrefsInv, PrefsTyped, NamesKnown
  <1>3. k \in Thought
    BY DEF Thought
  <1>4. PICK next \in Handlings :
          /\ Prefs!Starts(r, next) /\ (next.pc = "config" => next.s = s) /\ next.pc \in {"idle", "config"}
          /\ refused => failures' = failures + 1
          /\ ~refused => failures' = failures /\ next.pc = "config" /\ next.model = m /\ next.level = l
    <2>1. CASE refused
      <3>1. Prefs!Starts(r, Prefs!Idle) /\ failures' = failures + 1
        BY <2>1 DEF Prefs!Config
      <3> QED
        BY <2>1, <3>1, HandlingsMade
    <2>2. CASE ~refused
      <3> DEFINE next == [pc |-> "config", s |-> s, model |-> m, level |-> l]
      <3>1. Prefs!Starts(r, next) /\ failures' = failures
        BY <2>2 DEF Prefs!Config
      <3>2. next.pc = "config" /\ next.s = s /\ next.model = m /\ next.level = l
        OBVIOUS
      <3>3. next \in Handlings
        BY HandlingsMade
      <3> QED
        BY <2>2, <3>1, <3>2, <3>3
    <2> QED
      BY <2>1, <2>2
  <1> HIDE DEF refused, k
  <1>5. /\ req' \in [Callers -> Handlings] /\ req'[r] = next /\ (\A q \in Callers : q # r => req'[q] = req[q])
        /\ overlap' \in BOOLEAN
        /\ ~overlap' => ~overlap /\ \A q \in Callers : req[q].pc = "idle" /\ (q # r => req'[q].pc = "idle")
    BY <1>4, StartsAlone
  <1>6. /\ Prefs!With(runtimes[s], m, k) \in Selections /\ Prefs!With(runtimes[s], m, k).tools = runtimes[s].tools
    BY <1>2, <1>3, WithTyped
  <1>7. /\ runtimes' \in [Names -> Selections \cup {None}] /\ runtimes'[s] = Prefs!With(runtimes[s], m, k)
        /\ \A u \in Names : u # s => runtimes'[u] = runtimes[u]
    BY <1>1, <1>2, <1>6
  <1>8. req[r].pc = "idle" /\ saver # r
    <2>1. req[r].pc = "idle"
      BY <1>4 DEF Prefs!Starts
    <2> QED
      BY <2>1 DEF PrefsInv, Handled
  <1>9. failures' \in Nat
    BY <1>2, <1>4
  <1>a. PrefsTyped'
    BY <1>1, <1>5, <1>7, <1>9 DEF PrefsInv, PrefsTyped, OneEach
  <1>b. Prefs!SavedIsKept'
    BY <1>1, SavedStays
  <1>c. NamesKnown'
    BY <1>1, <1>2, <1>4, <1>5, <1>7 DEF PrefsInv, NamesKnown
  <1>d. Handled'
    BY <1>1, <1>5, <1>8, HandledAfter
  <1>e. Undisturbed' => Undisturbed /\ ~refused /\ \A q \in Callers : req[q].pc = "idle" /\ (q # r => req'[q].pc = "idle")
    BY <1>2, <1>4, <1>5 DEF Undisturbed
  <1>f. ToolsAgree'
    <2>1. Undisturbed' => \A u \in Names : runtimes[u] # None => runtimes[u].tools = prefs.default.tools
      BY <1>e, AtRest
    <2>2. Undisturbed' => \A u \in Names : runtimes'[u] # None => runtimes'[u].tools = prefs.default.tools
      BY <1>1, <1>6, <1>7, <2>1
    <2> QED
      BY <1>1, <1>4, <1>5, <1>e, <2>2, ToolsAfter
  <1>g. OpeningAgrees'
    BY <1>4, <1>5, <1>e, OpeningAfter
  <1>h. LiveAgrees'
    <2>1. Undisturbed' => \A u \in Names : runtimes[u] # None /\ u \notin forgotten => Same(Prefs!Of(prefs, u), runtimes[u])
      BY <1>e, LiveAtRest
    <2>2. Undisturbed' /\ s \notin forgotten => Same(Prefs!With(Prefs!Of(prefs, s), m, l), runtimes'[s])
      <3>1. Prefs!Of(prefs, s) \in Entries
        BY OfTyped DEF PrefsInv, PrefsTyped
      <3>2. SUFFICES ASSUME Undisturbed', s \notin forgotten
                     PROVE  Same(Prefs!With(Prefs!Of(prefs, s), m, l), runtimes'[s])
        OBVIOUS
      <3>3. k = l /\ Same(Prefs!Of(prefs, s), runtimes[s])
        BY <1>1, <1>e, <2>1, <3>2 DEF k
      <3> QED
        BY <1>2, <1>7, <3>1, <3>3 DEF Prefs!With, Same, Entries, Selections
    <2>3. ASSUME Undisturbed', NEW u \in Names, runtimes'[u] # None, u \notin forgotten'
          PROVE  /\ (\A q \in Callers : ~Configures(q, u)') => Same(Prefs!Of(prefs', u), runtimes'[u])
                 /\ \A q \in Callers : Configures(q, u)' =>
                      Same(Prefs!With(Prefs!Of(prefs', u), req'[q].model, req'[q].level), runtimes'[u])
      <3>1. req'[r].pc = "config" /\ req'[r].s = s /\ req'[r].model = m /\ req'[r].level = l
        BY <1>4, <1>5, <1>e, <2>3
      <3>2. \A q \in Callers : Configures(q, u)' <=> q = r /\ u = s
        BY <1>e, <2>3, <3>1 DEF Configures
      <3>3. CASE u = s
        BY <1>1, <2>2, <2>3, <3>1, <3>2, <3>3
      <3>4. CASE u # s
        BY <1>1, <1>7, <2>1, <2>3, <3>2, <3>4
      <3> QED
        BY <3>3, <3>4
    <2> QED
      BY <2>3 DEF LiveAgrees, Same
  <1> QED
    BY <1>a, <1>b, <1>c, <1>d, <1>f, <1>g, <1>h DEF PrefsInv

LEMMA PrefsRememberConfig ==
  ASSUME PrefsInv, NEW r \in Callers, Prefs!RememberConfig(r)
  PROVE  PrefsInv'
  <1> DEFINE s == req[r].s
             next == [pc |-> "save"]
  <1>1. /\ req[r].pc = "config" /\ known' = known /\ runtimes' = runtimes /\ Prefs!Goes(r, next)
        /\ Prefs!Update(r, Prefs!Merge(prefs, s, req[r].model, req[r].level))
    BY DEF Prefs!RememberConfig
  <1>2. s \in Names /\ s \in known /\ req[r].model \in Chosen /\ req[r].level \in Thought
    BY <1>1, HandlingFields DEF PrefsInv, PrefsTyped, NamesKnown
  <1>3. next \in Handlings /\ next.pc = "save"
    BY HandlingsMade
  <1> HIDE DEF next
  <1>4. /\ req' \in [Callers -> Handlings] /\ req'[r] = next /\ (\A q \in Callers : q # r => req'[q] = req[q])
        /\ overlap' = overlap /\ overlap' \in BOOLEAN
        /\ ~overlap => \A q \in Callers : q # r => req[q].pc = "idle" /\ req'[q].pc = "idle"
    BY <1>1, <1>3, GoesAlone
  <1>5. /\ prefs' \in PrefStates /\ OneEach(prefs') /\ Prefs!Ids(prefs') \cup Prefs!Ids(file') \subseteq known'
        /\ file' = file /\ since \subseteq since' /\ saver' = r /\ failures' = failures
        /\ prefs'.default.tools = prefs.default.tools /\ forgotten \subseteq forgotten'
        /\ Prefs!Of(prefs', s) = Prefs!With(Prefs!Of(prefs, s), req[r].model, req[r].level)
        /\ \A u \in Names : u # s /\ runtimes[u] # None /\ u \notin forgotten' => Prefs!Of(prefs', u) = Prefs!Of(prefs, u)
    BY <1>1, <1>2, Remembered
  <1>6. PrefsTyped'
    BY <1>1, <1>4, <1>5 DEF PrefsInv, PrefsTyped, OneEach
  <1>7. Prefs!SavedIsKept'
    BY <1>5, SavedStays
  <1>8. NamesKnown'
    BY <1>1, <1>3, <1>4, <1>5 DEF PrefsInv, NamesKnown
  <1>9. Handled'
    BY <1>3, <1>4, <1>5, HandledAfter
  <1>a. Undisturbed' => Undisturbed /\ \A q \in Callers : q # r => req[q].pc = "idle" /\ req'[q].pc = "idle"
    BY <1>4, <1>5 DEF Undisturbed
  <1>b. ToolsAgree'
    <2>1. Undisturbed => \A u \in Names : runtimes[u] # None => runtimes[u].tools = prefs.default.tools
      BY <1>1, <1>4, AtRest DEF Undisturbed
    <2> QED
      BY <1>1, <1>3, <1>4, <1>5, <1>a, <2>1, ToolsAfter
  <1>c. OpeningAgrees'
    BY <1>3, <1>4, <1>a, OpeningAfter
  <1>d. LiveAgrees'
    <2>1. ASSUME Undisturbed, NEW u \in Names, runtimes[u] # None, u \notin forgotten'
          PROVE  Same(Prefs!Of(prefs', u), runtimes[u])
      <3>1. u \notin forgotten
        BY <1>5, <2>1
      <3>2. CASE u = s
        <4>1. Configures(r, s)
          BY <1>1 DEF Configures
        <4>2. Same(Prefs!With(Prefs!Of(prefs, s), req[r].model, req[r].level), runtimes[s])
          BY <1>2, <2>1, <3>1, <3>2, <4>1 DEF PrefsInv, LiveAgrees
        <4> QED
          BY <1>5, <3>2, <4>2
      <3>3. CASE u # s
        <4>1. \A q \in Callers : ~Configures(q, u)
          BY <1>1, <1>4, <2>1, <3>3 DEF Configures, Undisturbed
        <4>2. Same(Prefs!Of(prefs, u), runtimes[u])
          BY <2>1, <3>1, <4>1 DEF PrefsInv, LiveAgrees
        <4> QED
          BY <1>5, <2>1, <3>3, <4>2
      <3> QED
        BY <3>2, <3>3
    <2> QED
      BY <1>1, <1>3, <1>4, <1>a, <2>1, LiveAfter
  <1> QED
    BY <1>6, <1>7, <1>8, <1>9, <1>b, <1>c, <1>d DEF PrefsInv

LEMMA PrefsNext ==
  ASSUME PrefsInv, Prefs!Next
  PROVE  PrefsInv'
  BY PrefsCrash, PrefsCloseChat, PrefsSaved, PrefsSaveFails, PrefsUpdateDefault, PrefsPushRead, PrefsPushOne, PrefsBind,
     PrefsRegister, PrefsRememberConfig, PrefsReadOptions, PrefsSetToolEnabled, PrefsOpenRead, PrefsConfig
     DEF Prefs!Next, Chosen, Thought

LEMMA PrefsHold ==
  ASSUME PrefsInv
  PROVE  Prefs!SavedIsKept /\ Prefs!ChoicesAgree
  <1>1. ASSUME Undisturbed, Prefs!Settled, NEW s \in Names, runtimes[s] # None
        PROVE  /\ runtimes[s].tools = prefs.default.tools
               /\ s \notin forgotten => Prefs!Get(prefs, s) = runtimes[s]
    <2>1. \A q \in Callers : req[q].pc = "idle"
      BY <1>1 DEF Prefs!Settled
    <2>2. runtimes[s].tools = prefs.default.tools
      BY <1>1, <2>1, AtRest
    <2>3. s \notin forgotten => Same(Prefs!Of(prefs, s), runtimes[s])
      BY <1>1, <2>1, LiveAtRest
    <2>4. runtimes[s] = [model |-> runtimes[s].model, level |-> runtimes[s].level, tools |-> runtimes[s].tools]
      BY <1>1 DEF PrefsInv, PrefsTyped, Selections
    <2> QED
      BY <2>2, <2>3, <2>4 DEF Prefs!Get, Same
  <1> QED
    BY <1>1 DEF PrefsInv, Prefs!ChoicesAgree, Undisturbed

-----------------------------------------------------------------------------
(* The list of projects and their folders.                                   *)

ProjectPaths == Names \cup {"home"}

ProjectsTyped ==
  /\ fs \in [ProjectPaths -> ProjectPaths \cup {None}]
  /\ hints \in Seq(ProjectPaths) /\ listFile.hints \in Seq(ProjectPaths)
  /\ removed \subseteq ProjectPaths

(* A file has what the list had, so no two of its folders share a project either. *)
FileSound == Projects!Disjoint(listFile.folders)

ProjectsInv ==
  /\ ProjectsTyped /\ Projects!ListSound /\ FileSound
  /\ Projects!RemovedStayAway /\ Projects!SavedIsWhole

LEMMA ProjectsLibrary ==
  ASSUME NEW f
  PROVE  Projects!Range(f) = Range(f) /\ Projects!IsInjective(f) = IsInjective(f)
  BY DEF Projects!Range, Range, Projects!IsInjective, IsInjective

(* A list without one project has the others, in their order.                *)
LEMMA OthersListed ==
  ASSUME ProjectsInv, NEW p \in ProjectPaths
  PROVE  LET o == Projects!Others(p)
         IN /\ o \in Seq(ProjectPaths) /\ IsInjective(o) /\ Len(o) <= Len(hints)
            /\ p \notin Range(o) /\ \A q \in ProjectPaths : q # p => (q \in Range(o) <=> q \in Range(hints))
  <1> DEFINE o == Projects!Others(p)
  <1>1. hints \in Seq(ProjectPaths) /\ IsInjective(hints)
    BY ProjectsLibrary DEF ProjectsInv, ProjectsTyped, Projects!ListSound
  <1>2. Len(hints) \in Nat /\ DOMAIN hints = 1..Len(hints)
    BY <1>1
  <1>3. CASE p \notin Range(hints)
    BY <1>1, <1>2, <1>3, ProjectsLibrary DEF Projects!Others
  <1>4. CASE p \in Range(hints)
    <2>1. PICK k \in 1..Len(hints) : hints[k] = p
      BY <1>2, <1>4 DEF Range
    <2>2. \A i \in 1..Len(hints) : hints[i] = p => i = k
      BY <1>1, <1>2, <2>1 DEF IsInjective
    <2>3. Projects!Place(p) = k
      BY <1>2, <2>1, <2>2 DEF Projects!Place
    <2>4. o = SubSeq(hints, 1, k - 1) \o SubSeq(hints, k + 1, Len(hints))
      BY <1>4, <2>3, ProjectsLibrary DEF Projects!Others
    <2> DEFINE At(i) == IF i < k THEN i ELSE i + 1
    <2> HIDE DEF o
    <2>5. o \in Seq(ProjectPaths) /\ Len(o) = Len(hints) - 1 /\ \A i \in 1..Len(hints) - 1 : o[i] = hints[At(i)]
      BY <1>1, <2>4, WithoutPlace
    <2>6. DOMAIN o = 1..Len(hints) - 1
      BY <1>2, <2>5
    <2>7. \A i \in 1..Len(hints) - 1 : At(i) \in 1..Len(hints) /\ At(i) # k
      BY <1>2
    <2>8. \A i, j \in 1..Len(hints) - 1 : At(i) = At(j) => i = j
      BY <1>2
    <2>9. \A j \in 1..Len(hints) : j # k => \E i \in 1..Len(hints) - 1 : At(i) = j
      <3> SUFFICES ASSUME NEW j \in 1..Len(hints), j # k PROVE \E i \in 1..Len(hints) - 1 : At(i) = j
        OBVIOUS
      <3>1. CASE j < k
        <4>1. j \in 1..Len(hints) - 1 /\ At(j) = j
          BY <1>2, <3>1
        <4> QED
          BY <4>1
      <3>2. CASE j > k
        <4>1. j - 1 \in 1..Len(hints) - 1 /\ At(j - 1) = j
          BY <1>2, <3>2
        <4> QED
          BY <4>1
      <3> QED
        BY <1>2, <3>1, <3>2
    <2> HIDE DEF At
    <2>a. IsInjective(o)
      <3>1. \A i, j \in 1..Len(hints) - 1 : o[i] = o[j] => At(i) = At(j)
        BY <1>1, <1>2, <2>5, <2>7 DEF IsInjective
      <3> QED
        BY <2>6, <2>8, <3>1 DEF IsInjective
    <2>b. p \notin Range(o)
      BY <2>2, <2>5, <2>6, <2>7 DEF Range
    <2>c. \A q \in Range(o) : q \in Range(hints)
      BY <1>2, <2>5, <2>6, <2>7 DEF Range
    <2>d. \A q \in Range(hints) : q # p => q \in Range(o)
      <3> SUFFICES ASSUME NEW q \in Range(hints), q # p PROVE q \in Range(o)
        OBVIOUS
      <3>1. PICK j \in 1..Len(hints) : hints[j] = q
        BY <1>2 DEF Range
      <3>2. PICK i \in 1..Len(hints) - 1 : At(i) = j
        BY <2>1, <2>9, <3>1
      <3> QED
        BY <2>5, <2>6, <3>1, <3>2 DEF Range
    <2>e. Len(o) <= Len(hints)
      BY <1>2, <2>5
    <2> QED
      BY <2>5, <2>a, <2>b, <2>c, <2>d, <2>e DEF o
  <1> QED
    BY <1>3, <1>4

(* The project that was opened is the first, and what follows was in the list. *)
LEMMA RememberedListed ==
  ASSUME ProjectsInv, NEW p \in ProjectPaths
  PROVE  LET l == Projects!Remembered(p)
         IN l \in Seq(ProjectPaths) /\ IsInjective(l) /\ Len(l) <= MaxHints /\ Range(l) \subseteq {p} \cup Range(hints)
  <1> DEFINE rest == Projects!Others(p)
             next == IF Len(rest) < MaxHints THEN rest ELSE SubSeq(rest, 1, MaxHints - 1)
             l == <<p>> \o next
  <1>0. MaxHints \in Nat \ {0}
    BY ProjectsAssumption
  <1>1. /\ rest \in Seq(ProjectPaths) /\ IsInjective(rest) /\ p \notin Range(rest)
        /\ \A q \in ProjectPaths : q # p => (q \in Range(rest) <=> q \in Range(hints))
    BY OthersListed
  <1>2. Projects!Remembered(p) = l
    BY DEF Projects!Remembered
  <1> HIDE DEF rest
  <1>3. Len(rest) \in Nat /\ DOMAIN rest = 1..Len(rest) /\ \A i \in 1..Len(rest) : rest[i] \in ProjectPaths
    BY <1>1
  <1>4. /\ next \in Seq(ProjectPaths) /\ Len(next) \in Nat /\ Len(next) < MaxHints /\ Len(next) <= Len(rest)
        /\ \A i \in 1..Len(next) : next[i] = rest[i] /\ i \in 1..Len(rest)
    BY <1>0, <1>1, <1>3
  <1> HIDE DEF next
  <1>5. /\ l \in Seq(ProjectPaths) /\ Len(l) = Len(next) + 1 /\ DOMAIN l = 1..Len(next) + 1 /\ l[1] = p
        /\ \A i \in 2..Len(next) + 1 : l[i] = next[i - 1] /\ i - 1 \in 1..Len(next)
    <2>1. next \in Seq(ProjectPaths) /\ <<p>> \in Seq(ProjectPaths) /\ Len(<<p>>) = 1 /\ <<p>>[1] = p
      BY <1>4
    <2> QED
      BY <1>4, <2>1
  <1> HIDE DEF l
  <1>6. \A i \in 2..Len(next) + 1 : l[i] = rest[i - 1] /\ i - 1 \in 1..Len(rest) /\ l[i] # p
    <2> SUFFICES ASSUME NEW i \in 2..Len(next) + 1
                 PROVE  l[i] = rest[i - 1] /\ i - 1 \in 1..Len(rest) /\ l[i] # p
      OBVIOUS
    <2>1. l[i] = rest[i - 1] /\ i - 1 \in 1..Len(rest)
      BY <1>4, <1>5
    <2>2. rest[i - 1] \in Range(rest)
      BY <1>3, <2>1 DEF Range
    <2> QED
      BY <1>1, <2>1, <2>2
  <1>7. \A i \in DOMAIN l : i = 1 \/ i \in 2..Len(next) + 1
    BY <1>4, <1>5
  <1>8. IsInjective(l)
    <2>1. \A i, j \in 2..Len(next) + 1 : l[i] = l[j] => i = j
      <3> SUFFICES ASSUME NEW i \in 2..Len(next) + 1, NEW j \in 2..Len(next) + 1, l[i] = l[j] PROVE i = j
        OBVIOUS
      <3>1. i - 1 = j - 1
        BY <1>1, <1>3, <1>6 DEF IsInjective
      <3> QED
        BY <3>1, <1>4
    <2> QED
      BY <1>5, <1>6, <1>7, <2>1 DEF IsInjective
  <1>9. Range(l) \subseteq {p} \cup Range(hints)
    <2>1. \A i \in DOMAIN l : l[i] \in {p} \cup Range(hints)
      <3> SUFFICES ASSUME NEW i \in DOMAIN l PROVE l[i] \in {p} \cup Range(hints)
        OBVIOUS
      <3>1. CASE i = 1
        BY <1>5, <3>1
      <3>2. CASE i \in 2..Len(next) + 1
        <4>1. rest[i - 1] \in Range(rest) /\ rest[i - 1] \in ProjectPaths
          BY <1>3, <1>6, <3>2 DEF Range
        <4> QED
          BY <1>1, <1>6, <3>2, <4>1
      <3> QED
        BY <1>7, <3>1, <3>2
    <2> QED
      BY <2>1 DEF Range
  <1>a. Len(l) <= MaxHints
    BY <1>0, <1>4, <1>5
  <1> QED
    BY <1>2, <1>5, <1>8, <1>9, <1>a

(* What a file is read as: each project once, and none that was removed unless a link
   leads to it.                                                              *)
LEMMA LoadedListed ==
  ASSUME ProjectsInv, NEW l \in Projects!Lists, Projects!Loaded(l)
  PROVE  /\ l \in Seq(ProjectPaths) /\ Len(l) <= MaxHints /\ IsInjective(l)
         /\ \A q \in Range(l) : q \in Range(listFile.hints) \/ q \in Projects!Linked
  <1>0. MaxHints \in Nat
    BY ProjectsAssumption
  <1>1. PICK n \in 0..MaxHints : l \in [1..n -> ProjectPaths]
    BY DEF Projects!Lists, ProjectPaths
  <1>2. l \in Seq(ProjectPaths) /\ Len(l) = n /\ DOMAIN l = 1..n
    BY <1>0, <1>1
  <1>3. PICK entry \in [DOMAIN l -> {i \in DOMAIN listFile.hints : Projects!Counts(i)}] :
          /\ \A i \in DOMAIN l : l[i] = Projects!Resolve(listFile.hints[entry[i]])
          /\ \A i, j \in DOMAIN l : i < j => entry[i] < entry[j]
    BY DEF Projects!Loaded
  <1>4. listFile.hints \in Seq(ProjectPaths) /\ DOMAIN listFile.hints \subseteq Nat \ {0}
    BY DEF ProjectsInv, ProjectsTyped
  <1>5. \A i, j \in DOMAIN l : i < j => l[i] # l[j]
    <2> SUFFICES ASSUME NEW i \in DOMAIN l, NEW j \in DOMAIN l, i < j PROVE l[i] # l[j]
      OBVIOUS
    <2>1. /\ entry[i] < entry[j] /\ entry[i] \in Nat \ {0} /\ entry[j] \in Nat
          /\ Projects!Counts(entry[j])
      BY <1>3, <1>4
    <2>2. entry[i] \in 1..(entry[j] - 1)
      BY <2>1
    <2>3. Projects!Resolve(listFile.hints[entry[i]]) # Projects!Resolve(listFile.hints[entry[j]])
      BY <2>1, <2>2 DEF Projects!Counts
    <2> QED
      BY <1>3, <2>3
  <1>6. IsInjective(l)
    <2>1. \A i, j \in DOMAIN l : i = j \/ i < j \/ j < i
      BY <1>0, <1>2
    <2> QED
      BY <1>5, <2>1 DEF IsInjective
  <1>7. \A q \in Range(l) : q \in Range(listFile.hints) \/ q \in Projects!Linked
    <2> SUFFICES ASSUME NEW q \in Range(l), q \notin Range(listFile.hints) PROVE q \in Projects!Linked
      OBVIOUS
    <2>1. PICK i \in DOMAIN l : l[i] = q
      BY DEF Range
    <2>2. entry[i] \in DOMAIN listFile.hints
      BY <1>3
    <2>3. listFile.hints[entry[i]] \in Range(listFile.hints)
      BY <2>2 DEF Range
    <2>4. Projects!Resolve(listFile.hints[entry[i]]) = q
      BY <1>3, <2>1
    <2> QED
      BY <2>3, <2>4, ProjectsLibrary DEF Projects!Linked
  <1> QED
    BY <1>0, <1>1, <1>2, <1>6, <1>7

LEMMA ProjectsInit == Projects!Init => ProjectsInv
  <1> SUFFICES ASSUME Projects!Init PROVE ProjectsInv
    OBVIOUS
  <1>0. MaxHints \in Nat
    BY ProjectsAssumption
  <1>1. /\ fs = [p \in ProjectPaths |-> p] /\ hints = <<>> /\ listFile = [hints |-> <<>>, folders |-> Projects!NoFolders]
        /\ folders = Projects!NoFolders /\ removed = {} /\ unsaved = {}
    BY DEF Projects!Init, ProjectPaths
  <1>2. DOMAIN Projects!NoFolders = {}
    BY DEF Projects!NoFolders
  <1>3. ProjectsTyped
    BY <1>1 DEF ProjectsTyped
  <1>4. Projects!ListSound /\ FileSound
    BY <1>0, <1>1, <1>2 DEF Projects!ListSound, FileSound, Projects!Disjoint, Projects!IsInjective
  <1>5. Projects!RemovedStayAway /\ Projects!SavedIsWhole
    BY <1>1 DEF Projects!RemovedStayAway, Projects!SavedIsWhole
  <1> QED
    BY <1>3, <1>4, <1>5 DEF ProjectsInv

(* What the invariant says, in terms of the library of this module.          *)
LEMMA ProjectsFacts ==
  ASSUME ProjectsInv
  PROVE  /\ hints \in Seq(ProjectPaths) /\ listFile.hints \in Seq(ProjectPaths) /\ removed \subseteq ProjectPaths
         /\ Len(hints) <= MaxHints /\ IsInjective(hints)
         /\ \A f \in DOMAIN folders : folders[f] \subseteq Range(hints) \cup evicted
         /\ \A f, g \in DOMAIN folders : f # g => folders[f] \cap folders[g] = {}
         /\ \A f, g \in DOMAIN listFile.folders : f # g => listFile.folders[f] \cap listFile.folders[g] = {}
         /\ removed \cap (Range(hints) \cup Range(listFile.hints)) = {}
  BY ProjectsLibrary
     DEF ProjectsInv, ProjectsTyped, Projects!ListSound, FileSound, Projects!Disjoint, Projects!RemovedStayAway

(* What SavedIsWhole says of the projects that have been saved.              *)
ProjectsAgree ==
  /\ Range(hints) \ unsaved = Range(listFile.hints) \ unsaved
  /\ \A f \in Folders : Projects!Held(folders, f) \ unsaved = Projects!Held(listFile.folders, f) \ unsaved

LEMMA ProjectsAgreement ==
  ASSUME ProjectsInv
  PROVE  ProjectsAgree /\ (listSaved => listFile = [hints |-> hints, folders |-> folders])
  BY ProjectsLibrary DEF ProjectsInv, Projects!SavedIsWhole, ProjectsAgree

(* What has been saved is the file.                                          *)
LEMMA ProjectsSaved ==
  ASSUME listFile' = [hints |-> hints', folders |-> folders']
  PROVE  ProjectsAgree'
  <1>1. listFile'.hints = hints' /\ listFile'.folders = folders'
    OBVIOUS
  <1> QED
    BY <1>1 DEF ProjectsAgree, Projects!Held

LEMMA ProjectsAfter ==
  ASSUME fs' \in [ProjectPaths -> ProjectPaths \cup {None}], hints' \in Seq(ProjectPaths),
         listFile'.hints \in Seq(ProjectPaths), removed' \subseteq ProjectPaths,
         Len(hints') <= MaxHints, IsInjective(hints'),
         \A f \in DOMAIN folders' : folders'[f] \subseteq Range(hints') \cup evicted',
         \A f, g \in DOMAIN folders' : f # g => folders'[f] \cap folders'[g] = {},
         \A f, g \in DOMAIN listFile'.folders : f # g => listFile'.folders[f] \cap listFile'.folders[g] = {},
         removed' \cap (Range(hints') \cup Range(listFile'.hints)) = {},
         ProjectsAgree', listSaved' => listFile' = [hints |-> hints', folders |-> folders']
  PROVE  ProjectsInv'
  <1>1. Projects!IsInjective(hints') /\ Projects!Range(hints') = Range(hints')
        /\ Projects!Range(listFile'.hints) = Range(listFile'.hints)
    BY ProjectsLibrary
  <1>2. ProjectsTyped' /\ Projects!SavedIsWhole'
    BY <1>1 DEF ProjectsTyped, ProjectPaths, ProjectsAgree, Projects!SavedIsWhole, Projects!Held, Projects!Range, Range
  <1>3. Projects!ListSound'
    BY <1>1 DEF Projects!ListSound, Projects!Disjoint, Projects!IsInjective, Projects!Range
  <1>4. FileSound'
    BY DEF FileSound, Projects!Disjoint
  <1>5. Projects!RemovedStayAway'
    BY <1>1 DEF Projects!RemovedStayAway, Projects!Range
  <1> QED
    BY <1>2, <1>3, <1>4, <1>5 DEF ProjectsInv

LEMMA ProjectsOpen ==
  ASSUME ProjectsInv, NEW p \in ProjectPaths, Projects!Open(p)
  PROVE  ProjectsInv'
  <1> DEFINE c == Projects!Resolve(p)
  <1>1. /\ c # None /\ hints' = Projects!Remembered(c) /\ removed' = removed \ {c} /\ fs' = fs /\ folders' = folders
        /\ evicted' = (evicted \cup Projects!Range(hints)) \ Projects!Range(hints')
        /\ \/ listFile' = [hints |-> hints', folders |-> folders] /\ listSaved' = TRUE
           \/ /\ listFile' = listFile /\ listSaved' = FALSE
              /\ unsaved' = unsaved \cup {c} \cup (Projects!Range(hints) \ Projects!Range(hints'))
    BY DEF Projects!Open, Projects!Save, Projects!Unsaved, Projects!SaveFails
  <1>2. c \in ProjectPaths
    BY <1>1 DEF Projects!Resolve, ProjectPaths
  <1> HIDE DEF c
  <1>3. /\ hints' \in Seq(ProjectPaths) /\ IsInjective(hints') /\ Len(hints') <= MaxHints
        /\ Range(hints') \subseteq {c} \cup Range(hints)
    BY <1>1, <1>2, RememberedListed
  <1>4. fs \in [ProjectPaths -> ProjectPaths \cup {None}]
    BY DEF ProjectsInv, ProjectsTyped
  <1>5. evicted' = (evicted \cup Range(hints)) \ Range(hints')
    BY <1>1, ProjectsLibrary
  <1>6. \A f \in DOMAIN folders' : folders'[f] \subseteq Range(hints') \cup evicted'
    BY <1>1, <1>5, ProjectsFacts
  <1>7. removed' \cap (Range(hints') \cup Range(listFile'.hints)) = {}
    BY <1>1, <1>3, ProjectsFacts
  <1>8. /\ listFile'.hints \in Seq(ProjectPaths)
        /\ \A f, g \in DOMAIN listFile'.folders : f # g => listFile'.folders[f] \cap listFile'.folders[g] = {}
    BY <1>1, <1>3, ProjectsFacts
  <1>9. ProjectsAgree'
    <2>1. CASE listFile' = [hints |-> hints', folders |-> folders]
      BY <1>1, <2>1, ProjectsSaved
    <2>2. CASE listFile' = listFile /\ unsaved' = unsaved \cup {c} \cup (Range(hints) \ Range(hints'))
      <3>1. Range(hints') \ unsaved' = Range(listFile'.hints) \ unsaved'
        BY <1>3, <2>2, ProjectsAgreement DEF ProjectsAgree
      <3>2. \A f \in Folders : Projects!Held(folders', f) \ unsaved' = Projects!Held(listFile'.folders, f) \ unsaved'
        BY <1>1, <2>2, ProjectsAgreement DEF ProjectsAgree
      <3> QED
        BY <3>1, <3>2 DEF ProjectsAgree, Projects!Held
    <2> QED
      BY <1>1, <2>1, <2>2, ProjectsLibrary
  <1> QED
    BY <1>1, <1>3, <1>4, <1>6, <1>7, <1>8, <1>9, ProjectsFacts, ProjectsAfter

LEMMA ProjectsRemove ==
  ASSUME ProjectsInv, NEW p \in ProjectPaths, Projects!RemoveProject(p)
  PROVE  ProjectsInv'
  <1>1. /\ hints' = Projects!Others(p) /\ folders' = Projects!Without(p) /\ fs' = fs /\ evicted' = evicted
        /\ \/ listFile' = [hints |-> hints', folders |-> folders'] /\ listSaved' = TRUE /\ removed' = removed \cup {p}
           \/ /\ listFile' = listFile /\ listSaved' = FALSE /\ removed' = removed
              /\ unsaved' = unsaved \cup {p}
    BY DEF Projects!RemoveProject, Projects!Save, Projects!Unsaved, Projects!SaveFails
  <1>2. /\ hints' \in Seq(ProjectPaths) /\ IsInjective(hints') /\ Len(hints') <= Len(hints)
        /\ p \notin Range(hints') /\ \A q \in ProjectPaths : q # p => (q \in Range(hints') <=> q \in Range(hints))
    BY <1>1, OthersListed
  <1>3. fs \in [ProjectPaths -> ProjectPaths \cup {None}] /\ MaxHints \in Nat
    BY ProjectsAssumption DEF ProjectsInv, ProjectsTyped
  <1>4. Range(hints) \subseteq ProjectPaths /\ Range(hints') \subseteq ProjectPaths
    BY <1>2, ProjectsFacts DEF Range
  <1>5. DOMAIN folders' = DOMAIN folders /\ \A f \in DOMAIN folders : folders'[f] = folders[f] \ {p}
    BY <1>1 DEF Projects!Without
  <1>6. \A f \in DOMAIN folders' : folders'[f] \subseteq Range(hints') \cup evicted'
    BY <1>1, <1>2, <1>4, <1>5, ProjectsFacts
  <1>7. \A f, g \in DOMAIN folders' : f # g => folders'[f] \cap folders'[g] = {}
    BY <1>5, ProjectsFacts
  <1>8. removed' \cap (Range(hints') \cup Range(listFile'.hints)) = {}
    BY <1>1, <1>2, <1>4, ProjectsFacts
  <1>9. removed' \subseteq ProjectPaths /\ Len(hints') <= MaxHints
    <2>1. Len(hints') \in Nat /\ Len(hints) \in Nat
      BY <1>2, ProjectsFacts
    <2> QED
      BY <1>1, <1>2, <1>3, <2>1, ProjectsFacts
  <1>a. /\ listFile'.hints \in Seq(ProjectPaths)
        /\ \A f, g \in DOMAIN listFile'.folders : f # g => listFile'.folders[f] \cap listFile'.folders[g] = {}
    BY <1>1, <1>2, <1>7, ProjectsFacts
  <1>b. ProjectsAgree'
    <2>1. CASE listFile' = [hints |-> hints', folders |-> folders']
      BY <2>1, ProjectsSaved
    <2>2. CASE listFile' = listFile /\ unsaved' = unsaved \cup {p}
      <3>1. Range(hints') \ unsaved' = Range(listFile'.hints) \ unsaved'
        BY <1>2, <1>4, <2>2, ProjectsAgreement DEF ProjectsAgree
      <3>2. \A f \in Folders : Projects!Held(folders', f) \ unsaved' = Projects!Held(listFile'.folders, f) \ unsaved'
        <4>1. \A f : Projects!Held(folders', f) = Projects!Held(folders, f) \ {p}
          BY <1>5 DEF Projects!Held
        <4> QED
          BY <2>2, <4>1, ProjectsAgreement DEF ProjectsAgree
      <3> QED
        BY <3>1, <3>2 DEF ProjectsAgree, Projects!Held
    <2> QED
      BY <1>1, <2>1, <2>2
  <1> QED
    BY <1>1, <1>2, <1>3, <1>6, <1>7, <1>8, <1>9, <1>a, <1>b, ProjectsAfter

LEMMA ProjectsUpdateFolders ==
  ASSUME ProjectsInv, NEW ids, NEW next \in [ids -> SUBSET Range(hints)], Projects!UpdateFolders(next)
  PROVE  ProjectsInv'
  <1>1. /\ UNCHANGED <<fs, hints, removed, evicted>> /\ Projects!Disjoint(next)
        /\ \/ listFile' = [hints |-> hints, folders |-> next] /\ listSaved' = TRUE /\ folders' = next
           \/ UNCHANGED <<listFile, folders, listSaved, unsaved>>
    BY DEF Projects!UpdateFolders, Projects!Save, Projects!SaveFails
  <1>2. fs \in [ProjectPaths -> ProjectPaths \cup {None}]
    BY DEF ProjectsInv, ProjectsTyped
  <1>3. \A f \in DOMAIN folders' : folders'[f] \subseteq Range(hints') \cup evicted'
    BY <1>1, ProjectsFacts
  <1>4. \A f, g \in DOMAIN folders' : f # g => folders'[f] \cap folders'[g] = {}
    BY <1>1, ProjectsFacts DEF Projects!Disjoint
  <1>5. /\ listFile'.hints \in Seq(ProjectPaths) /\ removed' \cap (Range(hints') \cup Range(listFile'.hints)) = {}
        /\ \A f, g \in DOMAIN listFile'.folders : f # g => listFile'.folders[f] \cap listFile'.folders[g] = {}
    BY <1>1, <1>4, ProjectsFacts
  <1>6. listSaved' => listFile' = [hints |-> hints', folders |-> folders']
    BY <1>1, ProjectsAgreement
  <1>7. ProjectsAgree'
    <2>1. CASE listFile' = [hints |-> hints', folders |-> folders']
      BY <2>1, ProjectsSaved
    <2>2. CASE UNCHANGED <<listFile, folders, unsaved>>
      BY <1>1, <2>2, ProjectsAgreement DEF ProjectsAgree, Projects!Held
    <2> QED
      BY <1>1, <2>1, <2>2
  <1> QED
    BY <1>1, <1>2, <1>3, <1>4, <1>5, <1>6, <1>7, ProjectsFacts, ProjectsAfter

LEMMA ProjectsRestart ==
  ASSUME ProjectsInv, Projects!Restart
  PROVE  ProjectsInv'
  <1>1. /\ UNCHANGED <<fs, listFile>> /\ listSaved' = FALSE /\ evicted' = {} /\ removed' = removed \ Projects!Linked
        /\ LET named == Range(listFile.hints) \cup UNION Range(listFile.folders)
           IN unsaved' = (named \ Range(hints')) \cup (Range(hints') \ Range(listFile.hints))
    BY ProjectsLibrary DEF Projects!Restart, Projects!Changed
  <1>5. Range(hints') \ unsaved' = Range(listFile'.hints) \ unsaved'
    BY <1>1
  <1>6. \A f \in DOMAIN listFile.folders : listFile.folders[f] \ unsaved' \subseteq Range(hints')
    BY <1>1 DEF Range
  <1>2. fs \in [ProjectPaths -> ProjectPaths \cup {None}] /\ MaxHints \in Nat
    BY ProjectsAssumption DEF ProjectsInv, ProjectsTyped
  <1>3. CASE hints' \in {l \in Projects!Lists : Projects!Loaded(l)} /\ folders' = Projects!LoadedFolders(hints')
    <2>1. /\ hints' \in Seq(ProjectPaths) /\ Len(hints') <= MaxHints /\ IsInjective(hints')
          /\ \A q \in Range(hints') : q \in Range(listFile.hints) \/ q \in Projects!Linked
      BY <1>3, LoadedListed
    <2>2. /\ DOMAIN folders' = DOMAIN listFile.folders
          /\ \A f \in DOMAIN folders' : folders'[f] = listFile.folders[f] \cap Range(hints')
      BY <1>3, ProjectsLibrary DEF Projects!LoadedFolders
    <2>3. removed' \cap (Range(hints') \cup Range(listFile'.hints)) = {}
      BY <1>1, <2>1, ProjectsFacts
    <2>4. \A f, g \in DOMAIN folders' : f # g => folders'[f] \cap folders'[g] = {}
      BY <2>2, ProjectsFacts
    <2>5. \A f \in DOMAIN folders' : folders'[f] \subseteq Range(hints') \cup evicted'
      BY <2>2
    <2>6. \A f : Projects!Held(folders', f) \ unsaved' = Projects!Held(listFile'.folders, f) \ unsaved'
      BY <1>1, <1>6, <2>2 DEF Projects!Held
    <2>7. ProjectsAgree'
      BY <1>5, <2>6 DEF ProjectsAgree, Projects!Held
    <2> QED
      BY <1>1, <1>2, <2>1, <2>3, <2>4, <2>5, <2>7, ProjectsFacts, ProjectsAfter
  <1>4. CASE hints' = <<>> /\ folders' = Projects!NoFolders
    <2>1. hints' \in Seq(ProjectPaths) /\ Len(hints') <= MaxHints /\ IsInjective(hints') /\ Range(hints') = {}
      BY <1>2, <1>4, RangeEmpty DEF IsInjective
    <2>2. DOMAIN folders' = {}
      BY <1>4 DEF Projects!NoFolders
    <2>3. removed' \cap (Range(hints') \cup Range(listFile'.hints)) = {}
      BY <1>1, <2>1, ProjectsFacts
    <2>4. \A f : Projects!Held(folders', f) \ unsaved' = Projects!Held(listFile'.folders, f) \ unsaved'
      BY <1>1, <1>6, <2>1, <2>2 DEF Projects!Held
    <2>5. ProjectsAgree'
      BY <1>5, <2>4 DEF ProjectsAgree, Projects!Held
    <2> QED
      BY <1>1, <1>2, <2>1, <2>2, <2>3, <2>5, ProjectsFacts, ProjectsAfter
  <1> QED
    BY <1>3, <1>4 DEF Projects!Restart

LEMMA ProjectsNext ==
  ASSUME ProjectsInv, Projects!Next
  PROVE  ProjectsInv'
  <1>1. ASSUME NEW p \in ProjectPaths, NEW what \in ProjectPaths \cup {None}, Projects!Change(p, what)
        PROVE  ProjectsInv'
    <2>1. fs' = [fs EXCEPT ![p] = what] /\ UNCHANGED <<hints, folders, listFile, listSaved, unsaved, removed, evicted>>
      BY <1>1 DEF Projects!Change
    <2>2. fs' \in [ProjectPaths -> ProjectPaths \cup {None}]
      BY <1>1, <2>1 DEF ProjectsInv, ProjectsTyped
    <2>3. listSaved' => listFile' = [hints |-> hints', folders |-> folders']
      BY <2>1, ProjectsAgreement
    <2>4. ProjectsAgree'
      BY <2>1, ProjectsAgreement DEF ProjectsAgree, Projects!Held
    <2> QED
      BY <2>1, <2>2, <2>3, <2>4, ProjectsFacts, ProjectsAfter
  <1>2. ASSUME NEW ids \in SUBSET Folders, NEW next \in [ids -> SUBSET Projects!Range(hints)], Projects!UpdateFolders(next)
        PROVE  ProjectsInv'
    BY <1>2, ProjectsLibrary, ProjectsUpdateFolders
  <1> QED
    BY <1>1, <1>2, ProjectsOpen, ProjectsRemove, ProjectsRestart DEF Projects!Next, ProjectPaths

LEMMA ProjectsStutter ==
  ASSUME ProjectsInv, UNCHANGED listVars
  PROVE  ProjectsInv'
  BY DEF listVars, ProjectsInv, ProjectsTyped, Projects!ListSound, FileSound, Projects!Disjoint, Projects!RemovedStayAway,
         Projects!SavedIsWhole, Projects!Held, Projects!Range, Projects!IsInjective

-----------------------------------------------------------------------------
(* The watcher of the plugin directory.                                      *)

WatchTyped == tree \in [PluginDirs -> Nat] /\ catalog \in [PluginDirs -> Nat] /\ changes \in Nat

(* A directory without a watch is added by the walk that goes on or by one to come,
   and a catalogue that nobody has been told of is read at the end of one.  What
   ends a walk early was an event.                                           *)
WatchInv ==
  /\ WatchTyped
  /\ \A d \in PluginDirs : tree[d] # Watch!Absent => d \in watched \/ d \in walking \/ event \/ timer
  /\ event \/ timer \/ Watch!Busy \/ catalog = tree
  /\ walking \subseteq PluginDirs /\ \A d \in walking : tree[d] = Watch!Absent => event

LEMMA WatchInit ==
  ASSUME NEW there \in SUBSET PluginDirs, Watch!Started(there)
  PROVE  WatchInv
  <1>1. /\ tree = [d \in PluginDirs |-> IF d \in there THEN 1 ELSE 0] /\ watched = there /\ catalog = tree
        /\ changes = 0 /\ walking = {}
    BY DEF Watch!Started, Watch!Absent
  <1> QED
    BY <1>1 DEF WatchInv, WatchTyped, Watch!Absent

LEMMA WatchNext ==
  ASSUME WatchInv, Watch!Next
  PROVE  WatchInv'
  <1>0. tree \in [PluginDirs -> Nat] /\ catalog \in [PluginDirs -> Nat] /\ changes \in Nat
    BY DEF WatchInv, WatchTyped
  <1>1. ASSUME NEW d \in PluginDirs, Watch!Create(d) PROVE WatchInv'
    BY <1>0, <1>1 DEF Watch!Create, Watch!Change, Watch!stepVars, WatchInv, WatchTyped, Watch!Absent, Watch!Busy
  <1>2. ASSUME NEW d \in PluginDirs, Watch!Remove(d) PROVE WatchInv'
    BY <1>0, <1>2 DEF Watch!Remove, Watch!Change, Watch!stepVars, WatchInv, WatchTyped, Watch!Absent, Watch!Busy
  <1>3. ASSUME NEW d \in PluginDirs, Watch!Modify(d) PROVE WatchInv'
    <2>1. /\ tree' = [tree EXCEPT ![d] = changes + 2] /\ event' = (event \/ d \in watched) /\ tree[d] # 0
          /\ changes' = changes + 1 /\ UNCHANGED <<watched, timer, walking, reading, catalog>>
      BY <1>3 DEF Watch!Modify, Watch!Change, Watch!stepVars, Watch!Absent
    <2>2. tree' \in [PluginDirs -> Nat] /\ tree'[d] # 0 /\ (\A e \in PluginDirs : e # d => tree'[e] = tree[e]) /\ changes' \in Nat
      BY <1>0, <2>1
    <2>3. d \in watched \/ d \in walking \/ event \/ timer
      BY <2>1 DEF WatchInv, Watch!Absent
    <2> QED
      BY <1>0, <2>1, <2>2, <2>3 DEF WatchInv, WatchTyped, Watch!Absent, Watch!Busy
  <1>4. ASSUME NEW d \in PluginDirs, Watch!AddDirectory(d) PROVE WatchInv'
    <2>1. /\ d \in walking /\ reading' = (walking' = {}) /\ UNCHANGED <<tree, event, timer, catalog, changes>>
          /\ tree[d] = 0 => walking' = {} /\ watched' = watched
          /\ tree[d] # 0 => walking' = walking \ {d} /\ watched' = watched \cup {d}
      BY <1>4 DEF Watch!AddDirectory, Watch!Absent
    <2>2. WatchTyped' /\ Watch!Busy'
      BY <1>0, <2>1 DEF WatchTyped, Watch!Busy
    <2>3. \A e \in PluginDirs : tree'[e] # Watch!Absent => e \in watched' \/ e \in walking' \/ event' \/ timer'
      BY <2>1 DEF WatchInv, Watch!Absent
    <2>4. walking' \subseteq PluginDirs /\ \A e \in walking' : tree'[e] = Watch!Absent => event'
      BY <2>1 DEF WatchInv, Watch!Absent
    <2> QED
      BY <2>2, <2>3, <2>4 DEF WatchInv, Watch!Absent
  <1>5. ASSUME Watch!Event PROVE WatchInv'
    BY <1>0, <1>5 DEF Watch!Event, WatchInv, WatchTyped, Watch!Absent, Watch!Busy
  <1>6. ASSUME Watch!Fire PROVE WatchInv'
    BY <1>0, <1>6 DEF Watch!Fire, WatchInv, WatchTyped, Watch!Absent, Watch!Busy
  <1>7. ASSUME Watch!Catalog PROVE WatchInv'
    BY <1>0, <1>7 DEF Watch!Catalog, WatchInv, WatchTyped, Watch!Absent, Watch!Busy
  <1> QED
    BY <1>1, <1>2, <1>3, <1>4, <1>5, <1>6, <1>7 DEF Watch!Next

LEMMA WatchStutter ==
  ASSUME WatchInv, UNCHANGED watchVars
  PROVE  WatchInv'
  BY DEF watchVars, WatchInv, WatchTyped, Watch!Busy, Watch!Absent

LEMMA WatchHolds == WatchInv => Watch!CatalogPublished
  BY DEF WatchInv, Watch!CatalogPublished

-----------------------------------------------------------------------------
(* Queues.                                                                   *)

LEMMA Filled ==
  ASSUME NEW S, NEW q \in Seq(S)
  PROVE  Len(q) \in Nat /\ (q = <<>> <=> Len(q) = 0) /\ \A i \in 1..Len(q) : q[i] \in S
  OBVIOUS

LEMMA TakenEnds ==
  ASSUME NEW S, NEW q \in Seq(S), q # <<>>
  PROVE  /\ Head(q) \in S /\ Tail(q) \in Seq(S) /\ q[Len(q)] \in S
         /\ Tail(q) = <<>> => Head(q) = q[Len(q)]
         /\ Tail(q) # <<>> => Tail(q)[Len(Tail(q))] = q[Len(q)]
  <1>1. Len(q) \in Nat \ {0} /\ Tail(q) \in Seq(S) /\ Len(Tail(q)) = Len(q) - 1 /\ Head(q) = q[1]
    OBVIOUS
  <1>2. \A i \in 1..Len(Tail(q)) : Tail(q)[i] = q[i + 1]
    OBVIOUS
  <1>3. q[1] \in S /\ q[Len(q)] \in S
    BY <1>1
  <1>4. ASSUME Tail(q) = <<>> PROVE Head(q) = q[Len(q)]
    <2>1. Len(Tail(q)) = 0
      BY <1>1, <1>4, Filled
    <2>2. Len(q) \in Nat /\ Len(q) - 1 = 0
      BY <1>1, <2>1, Filled
    <2>3. Len(q) = 1
      BY <2>2
    <2> QED
      BY <1>1, <2>3
  <1>5. ASSUME Tail(q) # <<>> PROVE Tail(q)[Len(Tail(q))] = q[Len(q)]
    <2>1. Len(Tail(q)) \in 1..Len(Tail(q))
      BY <1>1, <1>5
    <2>2. Len(Tail(q)) + 1 = Len(q)
      BY <1>1
    <2> QED
      BY <1>2, <2>1, <2>2
  <1> QED
    BY <1>1, <1>3, <1>4, <1>5

LEMMA AddedEnds ==
  ASSUME NEW S, NEW q \in Seq(S), NEW e \in S
  PROVE  /\ Append(q, e) \in Seq(S) /\ Append(q, e) # <<>>
         /\ Append(q, e)[Len(Append(q, e))] = e
  OBVIOUS

LEMMA AddedAt ==
  ASSUME NEW S, NEW q \in Seq(S), NEW e
  PROVE  /\ Len(Append(q, e)) = Len(q) + 1
         /\ \A i \in 1..Len(q) + 1 : Append(q, e)[i] = IF i = Len(q) + 1 THEN e ELSE q[i]
  OBVIOUS

LEMMA CutShort ==
  ASSUME NEW S, NEW q \in Seq(S), NEW n \in 0..Len(q)
  PROVE  SubSeq(q, 1, n) \in Seq(S) /\ (q = <<>> => SubSeq(q, 1, n) = <<>>)
  <1>1. SubSeq(q, 1, n) \in Seq(S) /\ Len(SubSeq(q, 1, n)) = n
    OBVIOUS
  <1> QED
    BY <1>1

LEMMA NoElements == Len(<<>>) = 0 /\ \A S : <<>> \in Seq(S)
  OBVIOUS

LEMMA AtMostOne ==
  ASSUME NEW n \in Nat, n <= 1, n # 0
  PROVE  n = 1
  OBVIOUS

-----------------------------------------------------------------------------
(* The host that follows the turn of a runner.                               *)

StreamTyped ==
  /\ state \in Nat /\ dropped \in Nat /\ stolen \in Nat /\ snap \in Nat /\ live \in Nat
  /\ queue \in Seq(Nat) /\ events \in Seq(Nat) /\ cur \in Nat
  /\ conn \in [1..MaxConns -> {"none", "open", "left", "done"}] /\ wire \in [1..MaxConns -> Seq(Nat)]

LastOf(q, v) == IF q = <<>> THEN v ELSE q[Len(q)]

(* What the live chat is told when it has read what the adapter holds.       *)
Told == LastOf(events, live)

(* A state that the host has got to is the last one, or its event was lost.  *)
Reached(v) == v = state \/ dropped = state \/ stolen = state

(* The event of the last change stands at the end of the runner's channel, of the
   connection or of what the host holds, or the change is in the snapshot - unless
   it was lost.                                                              *)
RemoteInv ==
  /\ StreamTyped
  /\ queue # <<>> => queue[Len(queue)] = state \/ dropped = state
  /\ at = "read" => cur \in 1..MaxConns
  /\ \A i \in 1..MaxConns : /\ conn[i] = "open" => i = cur /\ at = "read"
                            /\ i > cur => wire[i] = <<>>
  /\ queue = <<>> => /\ at = "reconcile" => Reached(snap)
                     /\ at = "subscribe" => Reached(Told)
                     /\ at = "read" /\ conn[cur] = "open" => Reached(LastOf(wire[cur], Told))

LEMMA RemoteInit == Remote!Init => RemoteInv
  <1> SUFFICES ASSUME Remote!Init PROVE RemoteInv
    OBVIOUS
  <1>1. /\ state = 0 /\ queue = <<>> /\ at = "snapshot" /\ cur = 0 /\ snap = 0 /\ events = <<>>
        /\ live = 0 /\ dropped = 0 /\ stolen = 0
        /\ conn = [i \in 1..MaxConns |-> "none"] /\ wire = [i \in 1..MaxConns |-> <<>>]
    BY DEF Remote!Init, Remote!Conns
  <1> QED
    BY <1>1 DEF RemoteInv, StreamTyped, LastOf, Told

LEMMA RemoteStutter ==
  ASSUME RemoteInv, UNCHANGED streamVars
  PROVE  RemoteInv'
  BY DEF streamVars, RemoteInv, StreamTyped, LastOf, Told, Reached

(* The runner's side.                                                        *)
LEMMA RemoteChange ==
  ASSUME RemoteInv, Remote!Change
  PROVE  RemoteInv'
  <1>1. /\ state' = state + 1 /\ state \in Nat /\ UNCHANGED <<conn, wire, at, cur, snap, events, live, stolen>>
        /\ \/ queue' = Append(queue, state + 1) /\ dropped' = dropped
           \/ dropped' = state + 1 /\ queue' = queue
    BY DEF Remote!Change, Remote!hostVars, RemoteInv, StreamTyped
  <1>2. CASE queue' = Append(queue, state + 1) /\ dropped' = dropped
    <2>1. queue' \in Seq(Nat) /\ queue' # <<>> /\ queue'[Len(queue')] = state'
      <3>1. queue \in Seq(Nat) /\ state + 1 \in Nat
        BY <1>1 DEF RemoteInv, StreamTyped
      <3>2. LET a == Append(queue, state + 1) IN a \in Seq(Nat) /\ a # <<>> /\ a[Len(a)] = state + 1
        BY <3>1, AddedEnds
      <3> QED
        BY <1>1, <1>2, <3>2
    <2>2. StreamTyped'
      BY <1>1, <1>2, <2>1 DEF RemoteInv, StreamTyped
    <2> QED
      BY <1>1, <2>1, <2>2 DEF RemoteInv
  <1>3. CASE dropped' = state + 1 /\ queue' = queue
    BY <1>1, <1>3 DEF RemoteInv, StreamTyped, LastOf, Told, Reached
  <1> QED
    BY <1>1, <1>2, <1>3

LEMMA RemoteTake ==
  ASSUME RemoteInv, NEW i \in 1..MaxConns, Remote!Take(i)
  PROVE  RemoteInv'
  <1>1. /\ queue # <<>> /\ queue' = Tail(queue) /\ UNCHANGED <<state, at, cur, snap, events, live, dropped>>
        /\ \/ conn[i] = "open" /\ wire' = [wire EXCEPT ![i] = Append(wire[i], Head(queue))] /\ UNCHANGED <<conn, stolen>>
           \/ /\ conn[i] = "left" /\ stolen' = Head(queue) /\ wire' = wire
              /\ conn' = conn \/ conn' = [conn EXCEPT ![i] = "done"]
    BY DEF Remote!Take, Remote!hostVars
  <1>2. /\ Head(queue) \in Nat /\ queue' \in Seq(Nat)
        /\ queue' # <<>> => queue'[Len(queue')] = state \/ dropped = state
        /\ queue' = <<>> => Head(queue) = state \/ dropped = state
    <2>1. queue \in Seq(Nat)
      BY DEF RemoteInv, StreamTyped
    <2>2. queue[Len(queue)] = state \/ dropped = state
      BY <1>1 DEF RemoteInv
    <2> QED
      BY <1>1, <2>1, <2>2, TakenEnds
  <1>3. CASE conn[i] = "open" /\ wire' = [wire EXCEPT ![i] = Append(wire[i], Head(queue))] /\ UNCHANGED <<conn, stolen>>
    <2>1. i = cur /\ at = "read"
      BY <1>3 DEF RemoteInv
    <2>2. /\ Append(wire[i], Head(queue)) \in Seq(Nat) /\ Append(wire[i], Head(queue)) # <<>>
          /\ LET a == Append(wire[i], Head(queue)) IN a[Len(a)] = Head(queue)
      <3>1. wire[i] \in Seq(Nat)
        BY DEF RemoteInv, StreamTyped
      <3> QED
        BY ZenonT(40), <1>2, <3>1, AddedEnds
    <2>3. /\ wire' \in [1..MaxConns -> Seq(Nat)] /\ wire'[cur] = Append(wire[i], Head(queue))
          /\ \A j \in 1..MaxConns : j # i => wire'[j] = wire[j]
      BY <1>3, <2>1, <2>2 DEF RemoteInv, StreamTyped
    <2>4. queue' = <<>> => Reached(LastOf(wire[cur], Told))'
      BY <1>1, <1>2, <2>2, <2>3 DEF LastOf, Told, Reached
    <2>5. \A j \in 1..MaxConns : j > cur => j # i
      BY <2>1 DEF RemoteInv, StreamTyped
    <2>6. StreamTyped'
      BY <1>1, <1>2, <1>3, <2>3 DEF RemoteInv, StreamTyped
    <2>7. (at = "read" => cur \in 1..MaxConns)'
      BY <1>1 DEF RemoteInv
    <2> QED
      BY <1>1, <1>2, <1>3, <2>1, <2>3, <2>4, <2>5, <2>6, <2>7 DEF RemoteInv
  <1>4. CASE /\ conn[i] = "left" /\ stolen' = Head(queue) /\ wire' = wire
             /\ conn' = conn \/ conn' = [conn EXCEPT ![i] = "done"]
    <2>1. /\ conn' \in [1..MaxConns -> {"none", "open", "left", "done"}]
          /\ \A j \in 1..MaxConns : conn'[j] = "open" => conn[j] = "open"
      BY <1>4 DEF RemoteInv, StreamTyped
    <2>2. queue' = <<>> => \A v : Reached(v)'
      BY <1>1, <1>2, <1>4 DEF Reached
    <2>3. StreamTyped'
      BY <1>1, <1>2, <1>4, <2>1 DEF RemoteInv, StreamTyped
    <2> QED
      BY <1>1, <1>2, <1>4, <2>1, <2>2, <2>3 DEF RemoteInv, LastOf, Told
  <1> QED
    BY <1>1, <1>3, <1>4

LEMMA RemoteLeave ==
  ASSUME RemoteInv, NEW i \in 1..MaxConns, Remote!Notice(i) \/ Remote!Break(i)
  PROVE  RemoteInv'
  <1>1. /\ UNCHANGED <<state, queue, at, cur, snap, events, live, dropped, stolen>>
        /\ conn' = [conn EXCEPT ![i] = "left"] \/ conn' = [conn EXCEPT ![i] = "done"]
        /\ wire' = wire \/ (conn[i] = "open" /\ \E n \in 0..Len(wire[i]) : wire' = [wire EXCEPT ![i] = SubSeq(wire[i], 1, n)])
    BY DEF Remote!Notice, Remote!Break, Remote!hostVars
  <1>2. conn' \in [1..MaxConns -> {"none", "open", "left", "done"}] /\ conn'[i] # "open" /\ \A j \in 1..MaxConns : j # i => conn'[j] = conn[j]
    BY <1>1 DEF RemoteInv, StreamTyped
  <1>3. /\ wire' \in [1..MaxConns -> Seq(Nat)]
        /\ \A j \in 1..MaxConns : (wire[j] = <<>> => wire'[j] = <<>>) /\ (j # i => wire'[j] = wire[j])
        /\ wire' = wire \/ conn[i] = "open"
    <2>1. CASE wire' = wire
      BY <2>1 DEF RemoteInv, StreamTyped
    <2>2. CASE wire' # wire
      <3>1. PICK n \in 0..Len(wire[i]) : wire' = [wire EXCEPT ![i] = SubSeq(wire[i], 1, n)]
        BY <1>1, <2>2
      <3>2. SubSeq(wire[i], 1, n) \in Seq(Nat) /\ (wire[i] = <<>> => SubSeq(wire[i], 1, n) = <<>>)
        <4>1. wire[i] \in Seq(Nat)
          BY DEF RemoteInv, StreamTyped
        <4> QED
          BY <4>1, CutShort
      <3> QED
        BY <1>1, <2>2, <3>1, <3>2 DEF RemoteInv, StreamTyped
    <2> QED
      BY <2>1, <2>2
  <1>4. queue = <<>> /\ at = "read" /\ conn'[cur] = "open" => Reached(LastOf(wire[cur], Told))'
    BY <1>1, <1>2, <1>3 DEF RemoteInv, LastOf, Told, Reached
  <1>5. StreamTyped'
    BY <1>1, <1>2, <1>3 DEF RemoteInv, StreamTyped
  <1> QED
    BY <1>1, <1>2, <1>3, <1>4, <1>5 DEF RemoteInv, LastOf, Told, Reached

(* The host's side.                                                          *)
LEMMA RemoteReadSnapshot ==
  ASSUME RemoteInv, Remote!ReadSnapshot
  PROVE  RemoteInv'
  <1>1. /\ at = "snapshot" /\ UNCHANGED <<state, queue, conn, wire, cur, events, live, dropped>>
        /\ \/ at' = "reconcile" /\ snap' = state /\ stolen' = 0
           \/ at' = "wait" /\ UNCHANGED <<snap, stolen>>
    BY DEF Remote!ReadSnapshot, Remote!Goto, Remote!Fails
  <1> QED
    BY <1>1 DEF RemoteInv, StreamTyped, LastOf, Told, Reached

LEMMA RemoteReconcile ==
  ASSUME RemoteInv, Remote!Reconcile
  PROVE  RemoteInv'
  <1>1. /\ at = "reconcile" /\ at' = "subscribe" /\ events' = Append(events, snap)
        /\ UNCHANGED <<state, queue, conn, wire, cur, snap, live, dropped, stolen>>
    BY DEF Remote!Reconcile, Remote!Goto
  <1>2. events' \in Seq(Nat) /\ Told' = snap /\ snap \in Nat
    <2>1. events \in Seq(Nat) /\ snap \in Nat
      BY DEF RemoteInv, StreamTyped
    <2> QED
      BY <1>1, <2>1, AddedEnds DEF LastOf, Told
  <1> QED
    BY <1>1, <1>2 DEF RemoteInv, StreamTyped, Reached

LEMMA RemoteSubscribe ==
  ASSUME RemoteInv, Remote!Subscribe
  PROVE  RemoteInv'
  <1>1. /\ at = "subscribe" /\ UNCHANGED <<state, queue, wire, snap, events, live, dropped, stolen>> /\ cur < MaxConns
        /\ \/ at' = "read" /\ cur' = cur + 1 /\ conn' = [conn EXCEPT ![cur + 1] = "open"]
           \/ at' = "wait" /\ UNCHANGED <<cur, conn>>
    BY DEF Remote!Subscribe, Remote!Goto
  <1>2. CASE at' = "read" /\ cur' = cur + 1 /\ conn' = [conn EXCEPT ![cur + 1] = "open"]
    <2>0. MaxConns \in Nat
      BY FollowersAssumption DEF FollowersAssumption
    <2>1. cur + 1 \in 1..MaxConns /\ cur \in Nat
      BY <1>1, <2>0 DEF RemoteInv, StreamTyped
    <2>2. /\ conn' \in [1..MaxConns -> {"none", "open", "left", "done"}] /\ conn'[cur + 1] = "open"
          /\ \A j \in 1..MaxConns : j # cur + 1 => conn'[j] = conn[j]
      BY <1>2, <2>1 DEF RemoteInv, StreamTyped
    <2>3. wire[cur + 1] = <<>> /\ \A j \in 1..MaxConns : j > cur + 1 => wire[j] = <<>>
      BY <2>1 DEF RemoteInv
    <2>4. \A j \in 1..MaxConns : conn[j] # "open"
      BY <1>1 DEF RemoteInv
    <2>5. queue = <<>> => Reached(Told)
      BY <1>1 DEF RemoteInv
    <2>6. StreamTyped'
      BY <1>1, <1>2, <2>1, <2>2 DEF RemoteInv, StreamTyped
    <2>7. queue = <<>> => Reached(LastOf(wire[cur], Told))'
      BY <1>1, <1>2, <2>3, <2>5 DEF LastOf, Told, Reached
    <2>8. (queue # <<>> => queue[Len(queue)] = state \/ dropped = state)'
      BY <1>1 DEF RemoteInv, LastOf, Told
    <2> QED
      BY <1>1, <1>2, <2>1, <2>2, <2>3, <2>4, <2>6, <2>7, <2>8 DEF RemoteInv
  <1>3. CASE at' = "wait" /\ UNCHANGED <<cur, conn>>
    BY <1>1, <1>3 DEF RemoteInv, StreamTyped, LastOf, Told
  <1> QED
    BY <1>1, <1>2, <1>3

LEMMA RemoteRead ==
  ASSUME RemoteInv, Remote!Read
  PROVE  RemoteInv'
  <1>1. /\ at = "read" /\ wire[cur] # <<>> /\ wire' = [wire EXCEPT ![cur] = Tail(wire[cur])]
        /\ events' = Append(events, Head(wire[cur]))
        /\ UNCHANGED <<state, queue, conn, at, cur, snap, live, dropped, stolen>>
    BY DEF Remote!Read
  <1>2. cur \in 1..MaxConns /\ wire[cur] \in Seq(Nat)
    BY <1>1 DEF RemoteInv, StreamTyped
  <1>3. /\ Head(wire[cur]) \in Nat /\ Tail(wire[cur]) \in Seq(Nat)
        /\ LastOf(Tail(wire[cur]), Head(wire[cur])) = LastOf(wire[cur], Told)
    BY <1>1, <1>2, TakenEnds DEF LastOf, Told
  <1>4. events' \in Seq(Nat) /\ Told' = Head(wire[cur])
    <2>1. events \in Seq(Nat)
      BY DEF RemoteInv, StreamTyped
    <2> QED
      BY <1>1, <1>3, <2>1, AddedEnds DEF LastOf, Told
  <1>5. /\ wire' \in [1..MaxConns -> Seq(Nat)] /\ wire'[cur] = Tail(wire[cur])
        /\ \A j \in 1..MaxConns : j # cur => wire'[j] = wire[j]
    BY <1>1, <1>2, <1>3 DEF RemoteInv, StreamTyped
  <1>6. LastOf(wire[cur], Told)' = LastOf(wire[cur], Told)
    BY <1>1, <1>3, <1>4, <1>5 DEF LastOf, Told
  <1>7. StreamTyped'
    BY <1>1, <1>3, <1>4, <1>5 DEF RemoteInv, StreamTyped
  <1>8. \A j \in 1..MaxConns : j > cur => j # cur
    BY DEF RemoteInv, StreamTyped
  <1> QED
    BY <1>1, <1>2, <1>4, <1>5, <1>6, <1>7, <1>8 DEF RemoteInv, Reached

LEMMA RemotePump ==
  ASSUME RemoteInv, Remote!Pump
  PROVE  RemoteInv'
  <1>1. /\ events # <<>> /\ live' = Head(events) /\ events' = Tail(events)
        /\ UNCHANGED <<state, queue, conn, wire, at, cur, snap, dropped, stolen>>
    BY DEF Remote!Pump
  <1>2. live' \in Nat /\ events' \in Seq(Nat) /\ Told' = Told
    <2>1. events \in Seq(Nat) /\ live \in Nat
      BY DEF RemoteInv, StreamTyped
    <2> QED
      BY <1>1, <2>1, TakenEnds DEF LastOf, Told
  <1>3. StreamTyped'
    BY <1>1, <1>2 DEF RemoteInv, StreamTyped
  <1> QED
    BY <1>1, <1>2, <1>3 DEF RemoteInv, Reached, LastOf, Told

LEMMA RemoteClose ==
  ASSUME RemoteInv, Remote!Close
  PROVE  RemoteInv'
  <1>1. /\ at' = "closed" /\ queue' = <<>> /\ UNCHANGED <<state, wire, cur, snap, events, live, dropped, stolen>>
        /\ conn' = [i \in 1..MaxConns |-> IF conn[i] = "open" THEN "left" ELSE conn[i]]
    BY DEF Remote!Close, Remote!Conns
  <1>2. /\ conn' \in [1..MaxConns -> {"none", "open", "left", "done"}]
        /\ \A i \in 1..MaxConns : conn'[i] # "open"
    BY <1>1 DEF RemoteInv, StreamTyped
  <1> QED
    BY <1>1, <1>2 DEF RemoteInv, StreamTyped, LastOf, Told

LEMMA RemoteNext ==
  ASSUME RemoteInv, Remote!Next
  PROVE  RemoteInv'
  <1>1. ASSUME Remote!ReadEnd PROVE RemoteInv'
    <2>1. /\ at = "read" /\ at' = "wait" /\ conn[cur] # "open"
          /\ UNCHANGED <<state, queue, conn, wire, cur, snap, events, live, dropped, stolen>>
      BY <1>1 DEF Remote!ReadEnd, Remote!Goto
    <2> QED
      BY <2>1 DEF RemoteInv, StreamTyped, LastOf, Told
  <1>2. ASSUME Remote!Retry PROVE RemoteInv'
    <2>1. /\ at = "wait" /\ at' = "snapshot"
          /\ UNCHANGED <<state, queue, conn, wire, cur, snap, events, live, dropped, stolen>>
      BY <1>2 DEF Remote!Retry, Remote!Goto
    <2> QED
      BY <2>1 DEF RemoteInv, StreamTyped, LastOf, Told
  <1> QED
    BY <1>1, <1>2, RemoteChange, RemoteReadSnapshot, RemoteReconcile, RemoteSubscribe, RemoteRead, RemotePump, RemoteClose,
       RemoteTake, RemoteLeave DEF Remote!Next, Remote!Conns

LEMMA RemoteHolds == RemoteInv => Remote!HostKnowsRun
  <1> SUFFICES ASSUME RemoteInv, Remote!Quiet, dropped # state, stolen # state PROVE live = state
    BY DEF Remote!HostKnowsRun
  <1>1. queue = <<>> /\ events = <<>> /\ at = "read" /\ wire[cur] = <<>> /\ conn[cur] = "open"
    BY DEF Remote!Quiet
  <1> QED
    BY <1>1 DEF RemoteInv, Reached, LastOf, Told

-----------------------------------------------------------------------------
(* The feeds of the dashboard and of a plugin.                               *)

FeedFrames == [type : {"event", "gap", "snapshot"}, seq : Nat, number : Nat]

FeedTyped ==
  /\ version \in Nat /\ base \in Nat /\ fetched \in Nat /\ wanted \in Nat
  /\ saved \in [seq : Nat, base : Nat]
  /\ up \in BOOLEAN /\ pending \in BOOLEAN /\ unlucky \in BOOLEAN /\ sub \in {"none", "on", "closed"}
  /\ kind \in {"dashboard", "managed", "page"}
  /\ chan \in Seq(Nat) /\ frames \in Seq(FeedFrames) /\ inbox \in Seq(FeedFrames) /\ Len(inbox) <= 1

(* No number is of an event to come.                                         *)
FeedNumbers ==
  /\ base <= version /\ fetched <= version /\ saved.base + saved.seq <= version
  /\ saved.base <= base

FrameTrue(f) == /\ base <= f.number /\ f.number <= version
                /\ f.type \in {"event", "snapshot"} => f.seq = f.number - base
                /\ f.type = "event" => f.seq > 0

FeedConnected ==
  /\ up <=> sub # "none"
  /\ ~up => chan = <<>> /\ frames = <<>> /\ inbox = <<>>
  /\ \A i \in 1..Len(frames) : FrameTrue(frames[i])
  /\ \A i \in 1..Len(inbox) : FrameTrue(inbox[i])
  /\ \A i \in 1..Len(chan) : base < chan[i] /\ chan[i] <= version

OfThisServer == saved.seq > 0 /\ saved.base = base
IsGap(f) == f.type = "gap"

(* The dashboard: what was seen is fetched or about to be, and until everything
   published is fetched there is something to come.                          *)
DashboardFollows ==
  /\ OfThisServer => pending \/ fetched >= saved.seq + base
  /\ up => \/ fetched = version \/ pending \/ frames # <<>> \/ chan # <<>> \/ inbox # <<>>
           \/ sub = "closed" \/ unlucky

(* A plugin's client: the events from c on are in the channel, those before it in
   what is written, without a hole from the one that it waits for, unless it is going
   to be told of a gap.                                                      *)
ChannelFrom(c) ==
  /\ c + Len(chan) <= version /\ (sub = "on" => c + Len(chan) = version)
  /\ \A i \in 1..Len(chan) : chan[i] = c + i

FramesUpTo(c) ==
  /\ \A j \in 1..Len(frames) : /\ frames[j].number = c - Len(frames) + j /\ frames[j].type # "snapshot"
                               /\ IsGap(frames[j]) => Len(frames) = 1 /\ inbox = <<>>
  /\ inbox # <<>> => inbox[1].number = c - Len(frames) /\ inbox[1].type # "snapshot" /\ (IsGap(inbox[1]) => frames = <<>>)
  /\ \/ unlucky \/ wanted = c - Len(frames) - Len(inbox) + 1
     \/ inbox # <<>> /\ IsGap(inbox[1])
     \/ frames # <<>> /\ IsGap(frames[1])

PluginFollows ==
  /\ ~pending
  /\ OfThisServer /\ Feed!InLog(saved.seq) =>
       /\ unlucky \/ wanted = base + saved.seq + 1
       /\ \A i \in 1..Len(frames) : ~IsGap(frames[i])
       /\ \A i \in 1..Len(inbox) : ~IsGap(inbox[i])
  /\ up => \E c \in base..version : ChannelFrom(c) /\ FramesUpTo(c)

FeedInv ==
  /\ FeedTyped /\ FeedNumbers /\ FeedConnected
  /\ kind = "dashboard" => DashboardFollows
  /\ kind = "managed" => PluginFollows

LEMMA FeedInit ==
  ASSUME NEW k \in {"dashboard", "managed", "page"}, Feed!Started(k)
  PROVE  FeedInv
  <1>1. /\ version = 0 /\ base = 0 /\ chan = <<>> /\ sub = "none" /\ frames = <<>> /\ inbox = <<>>
        /\ up = FALSE /\ saved = [seq |-> 0, base |-> 0] /\ wanted = 0 /\ pending = FALSE /\ fetched = 0
        /\ unlucky = FALSE /\ kind = k
    BY DEF Feed!Started, Feed!NotConnected
  <1>2. FeedTyped
    <2>1. chan \in Seq(Nat) /\ frames \in Seq(FeedFrames) /\ inbox \in Seq(FeedFrames) /\ Len(inbox) <= 1
      BY <1>1, NoElements
    <2> QED
      BY <1>1, <2>1 DEF FeedTyped
  <1> QED
    BY <1>1, <1>2, NoElements DEF FeedInv, FeedNumbers, FeedConnected, OfThisServer, DashboardFollows, PluginFollows

LEMMA FeedStutter ==
  ASSUME FeedInv, UNCHANGED feedVars
  PROVE  FeedInv'
  BY DEF feedVars, FeedInv, FeedTyped, FeedNumbers, FeedConnected, FrameTrue, OfThisServer, IsGap, DashboardFollows,
         PluginFollows, ChannelFrom, FramesUpTo, Feed!InLog, Feed!First

(* What is out of the log stays out of it.                                   *)
LEMMA LogMoves ==
  ASSUME FeedInv, base' = base, version' = version + 1, NEW n \in Nat, n > 0, base + n <= version, Feed!InLog(n)'
  PROVE  Feed!InLog(n)
  <1>1. base \in Nat /\ version \in Nat /\ LogCapacity \in Nat
    BY FollowersAssumption DEF FollowersAssumption, FeedInv, FeedTyped
  <1> QED
    BY <1>1 DEF Feed!InLog, Feed!First

(* The handler ends.                                                         *)
LEMMA FeedCut ==
  ASSUME FeedInv, Feed!Cut, UNCHANGED <<kind, version, saved, wanted, unlucky>>,
         base' \in {base, version},
         (pending' = pending /\ fetched' = fetched) \/ (pending' = FALSE /\ fetched' = version)
  PROVE  FeedInv'
  <1>1. up' = FALSE /\ sub' = "none" /\ chan' = <<>> /\ frames' = <<>> /\ inbox' = <<>>
    BY DEF Feed!Cut
  <1>2. FeedTyped'
    <2>1. chan' \in Seq(Nat) /\ frames' \in Seq(FeedFrames) /\ inbox' \in Seq(FeedFrames) /\ Len(inbox') <= 1
      BY <1>1, NoElements
    <2> QED
      BY <1>1, <2>1 DEF FeedInv, FeedTyped
  <1>3a. FeedConnected'
    BY <1>1, NoElements DEF FeedConnected
  <1>3. FeedNumbers'
    BY DEF FeedInv, FeedTyped, FeedNumbers
  <1>4. OfThisServer' => OfThisServer /\ base' = base
    BY DEF FeedInv, FeedTyped, FeedNumbers, OfThisServer
  <1>5. kind = "dashboard" => DashboardFollows'
    BY <1>1, <1>4 DEF FeedInv, FeedTyped, FeedNumbers, DashboardFollows, OfThisServer
  <1>6. kind = "managed" => PluginFollows'
    <2>1. base' = base => (Feed!InLog(saved.seq)' <=> Feed!InLog(saved.seq))
      BY DEF Feed!InLog, Feed!First
    <2> QED
      BY <1>1, <1>4, <2>1 DEF FeedInv, PluginFollows
  <1> QED
    BY <1>2, <1>3, <1>3a, <1>5, <1>6 DEF FeedInv

LEMMA FeedPublish ==
  ASSUME FeedInv, Feed!Publish
  PROVE  FeedInv'
  <1>1. /\ version' = version + 1 /\ UNCHANGED <<kind, base, frames, inbox, up, saved, wanted, pending, fetched, unlucky>>
        /\ \/ sub = "on" /\ chan' = Append(chan, version + 1) /\ sub' = sub
           \/ sub = "on" /\ chan' = chan /\ sub' = "closed"
           \/ sub # "on" /\ chan' = chan /\ sub' = sub
    BY DEF Feed!Publish, Feed!Deliver, Feed!faultVars, Feed!clientVars
  <1>2. version \in Nat /\ base \in Nat /\ chan \in Seq(Nat) /\ Len(chan) \in Nat
    BY DEF FeedInv, FeedTyped
  <1>3. chan' \in Seq(Nat) /\ (sub = "on" => chan' # <<>> \/ sub' = "closed")
    <2>1. version + 1 \in Nat
      BY <1>2
    <2>2. Append(chan, version + 1) \in Seq(Nat) /\ Append(chan, version + 1) # <<>>
      BY <1>2, <2>1, AddedEnds
    <2> QED
      BY <1>1, <1>2, <2>2
  <1>4. FeedTyped'
    BY <1>1, <1>2, <1>3 DEF FeedInv, FeedTyped
  <1>5. FeedNumbers'
    BY <1>1, <1>2 DEF FeedInv, FeedTyped, FeedNumbers
  <1>6. FeedConnected'
    <2>1. \A f \in FeedFrames : FrameTrue(f) => FrameTrue(f)'
      BY <1>1, <1>2 DEF FrameTrue, FeedFrames
    <2>2. /\ \A i \in 1..Len(frames) : frames[i] \in FeedFrames
          /\ \A i \in 1..Len(inbox) : inbox[i] \in FeedFrames
      BY Filled DEF FeedInv, FeedTyped
    <2>3. \A i \in 1..Len(frames) : FrameTrue(frames[i])'
      BY <1>1, <2>1, <2>2 DEF FeedInv, FeedConnected
    <2>4. \A i \in 1..Len(inbox) : FrameTrue(inbox[i])'
      BY <1>1, <2>1, <2>2 DEF FeedInv, FeedConnected
    <2>5. \A i \in 1..Len(chan') : base' < chan'[i] /\ chan'[i] <= version'
      <3>1. \A i \in 1..Len(chan) : chan[i] \in Nat /\ base < chan[i] /\ chan[i] <= version
        BY <1>2, Filled DEF FeedInv, FeedConnected
      <3>2. base < version + 1
        BY <1>2 DEF FeedInv, FeedNumbers
      <3>3. CASE chan' = Append(chan, version + 1)
        <4>1. Len(chan') = Len(chan) + 1 /\ \A i \in 1..Len(chan) + 1 : chan'[i] = IF i = Len(chan) + 1 THEN version + 1 ELSE chan[i]
          BY <1>2, <3>3, AddedAt
        <4>2. ASSUME NEW i \in 1..Len(chan'), i = Len(chan) + 1 PROVE base' < chan'[i] /\ chan'[i] <= version'
          <5>1. chan'[i] = version + 1
            BY <4>1, <4>2
          <5> QED
            BY <1>1, <1>2, <3>2, <5>1
        <4>3. ASSUME NEW i \in 1..Len(chan'), i # Len(chan) + 1 PROVE base' < chan'[i] /\ chan'[i] <= version'
          <5>1. i \in 1..Len(chan)
            BY <1>2, <4>1, <4>3
          <5>2. chan'[i] = chan[i]
            BY <4>1, <4>3
          <5> QED
            BY <1>1, <1>2, <3>1, <5>1, <5>2
        <4> QED
          BY <4>2, <4>3
      <3>4. CASE chan' = chan
        BY <1>1, <1>2, <3>1, <3>4
      <3> QED
        BY <1>1, <3>3, <3>4
    <2> QED
      BY <1>1, <2>3, <2>4, <2>5 DEF FeedInv, FeedConnected
  <1>7. kind = "dashboard" => DashboardFollows'
    BY <1>1, <1>3 DEF FeedInv, FeedTyped, FeedConnected, DashboardFollows, OfThisServer
  <1>8. ASSUME kind = "managed" PROVE PluginFollows'
    <2>1. OfThisServer' /\ Feed!InLog(saved.seq)' => OfThisServer /\ Feed!InLog(saved.seq)
      <3> SUFFICES ASSUME OfThisServer', Feed!InLog(saved.seq)' PROVE OfThisServer /\ Feed!InLog(saved.seq)
        OBVIOUS
      <3>1. OfThisServer /\ saved.seq \in Nat /\ saved.seq > 0 /\ base + saved.seq <= version
        BY <1>1, <1>2 DEF FeedInv, FeedTyped, FeedNumbers, OfThisServer
      <3>2. Feed!InLog(saved.seq)' = (Feed!InLog(saved.seq))'
        OBVIOUS
      <3> QED
        BY <1>1, <3>1, LogMoves
    <2>2. up => \E c \in base..version' : ChannelFrom(c)' /\ FramesUpTo(c)'
      <3> SUFFICES ASSUME up PROVE \E c \in base..version' : ChannelFrom(c)' /\ FramesUpTo(c)'
        OBVIOUS
      <3>1. PICK c \in base..version : ChannelFrom(c) /\ FramesUpTo(c)
        BY <1>8 DEF FeedInv, PluginFollows
      <3>2. FramesUpTo(c)'
        BY <1>1, <3>1 DEF FramesUpTo, IsGap
      <3>3. ChannelFrom(c)'
        <4>1. CASE sub = "on" /\ chan' = Append(chan, version + 1) /\ sub' = sub
          <5>1. Len(chan') = Len(chan) + 1 /\ \A i \in 1..Len(chan) + 1 : chan'[i] = IF i = Len(chan) + 1 THEN version + 1 ELSE chan[i]
            BY <1>2, <4>1, AddedAt
          <5>2. c + Len(chan) = version /\ \A i \in 1..Len(chan) : chan[i] = c + i
            BY <3>1, <4>1 DEF ChannelFrom
          <5>3. c + Len(chan') = version'
            <6>1. c \in Nat /\ Len(chan) \in Nat
              BY <1>2
            <6> QED
              BY <1>1, <1>2, <6>1, <5>1, <5>2
          <5>4. \A i \in 1..Len(chan') : chan'[i] = c + i
            BY SMTT(40), <1>2, <3>1, <5>1, <5>2
          <5> QED
            BY <1>1, <1>2, <5>3, <5>4 DEF ChannelFrom
        <4>2. CASE chan' = chan /\ sub' # "on"
          BY <1>1, <1>2, <3>1, <4>2 DEF ChannelFrom
        <4> QED
          BY <1>1, <4>1, <4>2
      <3> QED
        BY <1>1, <1>2, <3>2, <3>3
    <2> QED
      BY <1>1, <1>8, <2>1, <2>2 DEF FeedInv, PluginFollows, IsGap
  <1> QED
    BY <1>1, <1>4, <1>5, <1>6, <1>7, <1>8 DEF FeedInv

LEMMA FeedFlush ==
  ASSUME FeedInv, Feed!Flush
  PROVE  FeedInv'
  <1>1. /\ pending /\ pending' = FALSE /\ fetched' = version
        /\ UNCHANGED <<kind, version, base, chan, sub, frames, inbox, up, saved, wanted, unlucky>>
    BY DEF Feed!Flush, Feed!faultVars
  <1>2. FeedTyped'
    BY <1>1 DEF FeedInv, FeedTyped
  <1>2a. FeedNumbers'
    BY <1>1 DEF FeedInv, FeedTyped, FeedNumbers
  <1>3. FeedConnected'
    BY <1>1 DEF FeedInv, FeedConnected, FrameTrue
  <1>4. kind = "dashboard" => DashboardFollows'
    BY <1>1 DEF FeedInv, FeedTyped, FeedNumbers, DashboardFollows, OfThisServer
  <1>5. kind # "managed"
    BY <1>1 DEF FeedInv, PluginFollows
  <1> QED
    BY <1>1, <1>2, <1>2a, <1>3, <1>4, <1>5 DEF FeedInv

(* The handler writes what it has to say first, then what the channel holds. *)
LEMMA FeedWrite ==
  ASSUME FeedInv, Feed!Write
  PROVE  FeedInv'
  <1>0. /\ sub # "none" /\ inbox = <<>>
        /\ UNCHANGED <<kind, up, saved, wanted, pending, fetched, unlucky, version, base, sub>>
        /\ \/ /\ frames # <<>> /\ frames' = Tail(frames) /\ chan' = chan
              /\ inbox' = <<IF Head(frames).type = "snapshot" THEN Feed!Snapshot ELSE Head(frames)>>
           \/ /\ frames = <<>> /\ chan # <<>> /\ chan' = Tail(chan) /\ frames' = frames
              /\ inbox' = <<Feed!Event(Head(chan))>>
    BY DEF Feed!Write, Feed!faultVars, Feed!clientVars
  <1>1. /\ version \in Nat /\ base \in Nat /\ base <= version /\ chan \in Seq(Nat) /\ frames \in Seq(FeedFrames)
        /\ Len(chan) \in Nat /\ Len(frames) \in Nat
    BY Filled DEF FeedInv, FeedTyped, FeedNumbers
  <1>2. \A x \in FeedFrames : <<x>> \in Seq(FeedFrames) /\ Len(<<x>>) = 1 /\ <<x>>[1] = x /\ <<x>> # <<>>
    OBVIOUS
  <1>3. FeedNumbers'
    BY <1>0 DEF FeedInv, FeedNumbers
  <1>4. ASSUME frames # <<>>, frames' = Tail(frames), chan' = chan,
               inbox' = <<IF Head(frames).type = "snapshot" THEN Feed!Snapshot ELSE Head(frames)>>
        PROVE  FeedInv'
    <2> DEFINE h == Head(frames)
               x == IF h.type = "snapshot" THEN Feed!Snapshot ELSE h
    <2>1. /\ h = frames[1] /\ h \in FeedFrames /\ frames' \in Seq(FeedFrames) /\ Len(frames') = Len(frames) - 1
          /\ \A i \in 1..Len(frames) - 1 : frames'[i] = frames[i + 1]
      <3>1. Tail(frames) \in Seq(FeedFrames) /\ Head(frames) = frames[1] /\ Head(frames) \in FeedFrames
        BY <1>1, <1>4
      <3>2. Len(Tail(frames)) = Len(frames) - 1 /\ \A i \in 1..Len(frames) - 1 : Tail(frames)[i] = frames[i + 1]
        BY <1>1, <1>4
      <3> QED
        BY <1>4, <3>1, <3>2
    <2>2. Len(frames) > 0 /\ 1 \in 1..Len(frames)
      BY <1>1, <1>4, Filled
    <2>3. FrameTrue(h)
      BY <2>1, <2>2 DEF FeedInv, FeedConnected
    <2>4. x \in FeedFrames /\ FrameTrue(x) /\ (h.type # "snapshot" => x = h)
      <3>1. Feed!Snapshot \in FeedFrames /\ FrameTrue(Feed!Snapshot)
        BY <1>1 DEF Feed!Snapshot, FeedFrames, FrameTrue
      <3> QED
        BY <2>1, <2>3, <3>1
    <2>5. inbox' = <<x>>
      BY <1>4
    <2> HIDE DEF x, h
    <2>6. inbox' \in Seq(FeedFrames) /\ Len(inbox') = 1 /\ inbox'[1] = x /\ inbox' # <<>>
      BY <1>2, <2>4, <2>5
    <2>7. FeedTyped'
      <3>1. chan' \in Seq(Nat) /\ Len(inbox') <= 1 /\ inbox' \in Seq(FeedFrames) /\ frames' \in Seq(FeedFrames)
        BY <1>1, <1>4, <2>1, <2>6
      <3> QED
        BY <1>0, <3>1 DEF FeedInv, FeedTyped
    <2>8. FeedConnected'
      <3>1. \A i \in 1..Len(frames) - 1 : i + 1 \in 1..Len(frames)
        BY <1>1
      <3>2. \A i \in 1..Len(frames') : FrameTrue(frames'[i])
        BY <2>1, <3>1 DEF FeedInv, FeedConnected
      <3>3. \A i \in 1..Len(inbox') : FrameTrue(inbox'[i])
        BY <2>4, <2>6
      <3>4. up
        BY <1>0 DEF FeedInv, FeedConnected
      <3>5. \A g : FrameTrue(g)' = FrameTrue(g)
        BY <1>0 DEF FrameTrue
      <3>6. \A i \in 1..Len(frames') : FrameTrue(frames[i])'
        BY <1>0, <3>2 DEF FrameTrue
      <3>7. \A i \in 1..Len(inbox') : FrameTrue(inbox[i])'
        BY <1>0, <3>3 DEF FrameTrue
      <3> QED
        BY <1>0, <1>4, <3>4, <3>6, <3>7 DEF FeedInv, FeedConnected
    <2>9. kind = "dashboard" => DashboardFollows'
      BY <1>0, <2>6 DEF FeedInv, DashboardFollows, OfThisServer
    <2>10. ASSUME kind = "managed" PROVE PluginFollows'
      <3>0. up /\ up'
        BY <1>0 DEF FeedInv, FeedConnected
      <3>1. PICK c \in base..version : ChannelFrom(c) /\ FramesUpTo(c)
        BY <2>10, <3>0 DEF FeedInv, PluginFollows
      <3>2. /\ x.number = c - Len(frames) + 1 /\ x.type # "snapshot" /\ x = frames[1]
            /\ IsGap(x) => Len(frames) = 1
        BY <2>1, <2>2, <2>4, <3>1 DEF FramesUpTo, IsGap
      <3>3. ChannelFrom(c)'
        BY <1>0, <1>4, <3>1 DEF ChannelFrom
      <3>4. \A j \in 1..Len(frames') : /\ frames'[j].number = c - Len(frames') + j /\ frames'[j].type # "snapshot"
                                       /\ ~IsGap(frames'[j])
        <4> SUFFICES ASSUME NEW j \in 1..Len(frames')
                     PROVE  frames'[j].number = c - Len(frames') + j /\ frames'[j].type # "snapshot" /\ ~IsGap(frames'[j])
          OBVIOUS
        <4>0. Len(frames) \in Nat /\ j \in 1..Len(frames) - 1
          BY <1>1, <2>1
        <4>1. j + 1 \in 1..Len(frames) /\ frames'[j] = frames[j + 1] /\ Len(frames) # 1
          BY <2>1, <4>0
        <4>2. frames[j + 1].number = c - Len(frames) + (j + 1) /\ frames[j + 1].type # "snapshot" /\ ~IsGap(frames[j + 1])
          BY <3>1, <4>1 DEF FramesUpTo
        <4>3. c - Len(frames) + (j + 1) = c - Len(frames') + j
          BY <1>1, <2>1
        <4> QED
          BY <4>1, <4>2, <4>3
      <3>5. \/ unlucky \/ wanted = c - Len(frames') - Len(inbox') + 1 \/ IsGap(x)
        <4>1. c - Len(frames) - Len(<<>>) + 1 = c - Len(frames') - Len(inbox') + 1
          BY <1>1, <2>1, <2>6, NoElements
        <4>2. \/ unlucky \/ wanted = c - Len(frames) - Len(<<>>) + 1 \/ IsGap(frames[1])
          BY <1>0, <3>1 DEF FramesUpTo
        <4> QED
          BY <3>2, <4>1, <4>2
      <3>6. x.number = c - Len(frames') /\ (IsGap(x) => frames' = <<>>)
        <4>1. c - Len(frames) + 1 = c - Len(frames')
          BY <1>1, <2>1
        <4>2. Len(frames) = 1 => frames' = <<>>
          BY <2>1, Filled
        <4> QED
          BY <3>2, <4>1, <4>2
      <3>7. FramesUpTo(c)'
        BY <1>0, <2>6, <3>2, <3>4, <3>5, <3>6 DEF FramesUpTo, IsGap
      <3>8. ASSUME OfThisServer', Feed!InLog(saved.seq)'
            PROVE  /\ unlucky' \/ wanted' = base' + saved'.seq + 1
                   /\ \A i \in 1..Len(frames') : ~IsGap(frames'[i])
                   /\ \A i \in 1..Len(inbox') : ~IsGap(inbox'[i])
        <4>1. OfThisServer /\ Feed!InLog(saved.seq)
          BY <1>0, <3>8 DEF OfThisServer, Feed!InLog, Feed!First
        <4>2. ~IsGap(x) /\ (unlucky \/ wanted = base + saved.seq + 1)
          BY <2>2, <2>10, <3>2, <4>1 DEF FeedInv, PluginFollows
        <4> QED
          BY <1>0, <2>6, <3>4, <4>2
      <3>9. ~pending'
        BY <1>0, <2>10 DEF FeedInv, PluginFollows
      <3> QED
        BY <1>0, <3>1, <3>3, <3>7, <3>8, <3>9 DEF PluginFollows, IsGap
    <2> QED
      BY <1>0, <1>3, <2>7, <2>8, <2>9, <2>10 DEF FeedInv
  <1>5. ASSUME frames = <<>>, chan # <<>>, chan' = Tail(chan), frames' = frames, inbox' = <<Feed!Event(Head(chan))>>
        PROVE  FeedInv'
    <2> DEFINE x == Feed!Event(Head(chan))
    <2>1. /\ chan' \in Seq(Nat) /\ Len(chan') = Len(chan) - 1 /\ Head(chan) = chan[1]
          /\ \A i \in 1..Len(chan) - 1 : chan'[i] = chan[i + 1]
      <3>1. Tail(chan) \in Seq(Nat) /\ Head(chan) = chan[1]
        BY <1>1, <1>5
      <3>2. Len(Tail(chan)) = Len(chan) - 1 /\ \A i \in 1..Len(chan) - 1 : Tail(chan)[i] = chan[i + 1]
        BY <1>1, <1>5
      <3> QED
        BY <1>5, <3>1, <3>2
    <2>2. Len(chan) > 0 /\ 1 \in 1..Len(chan)
      BY <1>1, <1>5, Filled
    <2>3. chan[1] \in Nat /\ base < chan[1] /\ chan[1] <= version
      BY <1>1, <2>2, Filled DEF FeedInv, FeedConnected
    <2>4. x \in FeedFrames /\ FrameTrue(x) /\ x.type = "event" /\ x.number = chan[1]
      BY <1>1, <2>1, <2>3 DEF Feed!Event, FeedFrames, FrameTrue
    <2>5. inbox' = <<x>>
      BY <1>5
    <2> HIDE DEF x
    <2>6. inbox' \in Seq(FeedFrames) /\ Len(inbox') = 1 /\ inbox'[1] = x /\ inbox' # <<>>
      BY <1>2, <2>4, <2>5
    <2>7. FeedTyped'
      BY <1>0, <1>5, <2>1, <2>6 DEF FeedInv, FeedTyped
    <2>8. FeedConnected'
      <3>1. \A i \in 1..Len(chan') : base' < chan'[i] /\ chan'[i] <= version'
        <4>1. \A i \in 1..Len(chan) - 1 : i + 1 \in 1..Len(chan)
          BY <1>1
        <4> QED
          BY <1>0, <2>1, <4>1 DEF FeedInv, FeedConnected
      <3>2. \A i \in 1..Len(inbox') : FrameTrue(inbox[i])'
        BY <1>0, <2>4, <2>6 DEF FrameTrue
      <3>3. \A i \in 1..Len(frames') : FrameTrue(frames[i])'
        BY <1>5, NoElements
      <3>4. up
        BY <1>0 DEF FeedInv, FeedConnected
      <3> QED
        BY <1>0, <3>1, <3>2, <3>3, <3>4 DEF FeedInv, FeedConnected
    <2>9. kind = "dashboard" => DashboardFollows'
      BY <1>0, <2>6 DEF FeedInv, DashboardFollows, OfThisServer
    <2>10. ASSUME kind = "managed" PROVE PluginFollows'
      <3>0. up /\ up'
        BY <1>0 DEF FeedInv, FeedConnected
      <3>1. PICK c \in base..version : ChannelFrom(c) /\ FramesUpTo(c)
        BY <2>10, <3>0 DEF FeedInv, PluginFollows
      <3>2. c \in Nat /\ c + Len(chan) <= version /\ chan[1] = c + 1
        BY <1>1, <2>2, <3>1 DEF ChannelFrom
      <3>3. c + 1 \in base'..version'
        BY <1>0, <1>1, <2>2, <3>1, <3>2
      <3>4. ChannelFrom(c + 1)'
        <4>1. c + 1 + Len(chan') = c + Len(chan)
          BY <1>1, <2>1, <3>2
        <4>2. \A i \in 1..Len(chan') : chan'[i] = c + 1 + i
          <5> TAKE i \in 1..Len(chan')
          <5>1. i + 1 \in 1..Len(chan) /\ chan'[i] = chan[i + 1]
            BY <1>1, <2>1
          <5>2. chan[i + 1] = c + (i + 1)
            BY <3>1, <5>1 DEF ChannelFrom
          <5> QED
            BY <1>1, <3>2, <5>1, <5>2
        <4> QED
          BY <1>0, <3>1, <4>1, <4>2 DEF ChannelFrom
      <3>5. FramesUpTo(c + 1)'
        <4>1. c + 1 - Len(<<>>) = c + 1 /\ c + 1 - Len(<<>>) - 1 + 1 = c + 1 /\ c - Len(<<>>) - Len(<<>>) + 1 = c + 1
          BY <3>2, NoElements
        <4>2. unlucky \/ wanted = c + 1
          BY <1>0, <1>5, <3>1, <4>1 DEF FramesUpTo
        <4> QED
          BY <1>0, <1>5, <2>4, <2>6, <3>2, <4>1, <4>2, NoElements DEF FramesUpTo, IsGap
      <3>6. ASSUME OfThisServer', Feed!InLog(saved.seq)'
            PROVE  unlucky' \/ wanted' = base' + saved'.seq + 1
        <4>1. OfThisServer /\ Feed!InLog(saved.seq)
          BY <1>0, <3>6 DEF OfThisServer, Feed!InLog, Feed!First
        <4> QED
          BY <1>0, <2>10, <4>1 DEF FeedInv, PluginFollows
      <3>7. /\ \A i \in 1..Len(frames') : ~IsGap(frames'[i])
            /\ \A i \in 1..Len(inbox') : ~IsGap(inbox'[i])
        BY <1>5, <2>4, <2>6, NoElements DEF IsGap
      <3>8. ~pending'
        BY <1>0, <2>10 DEF FeedInv, PluginFollows
      <3> QED
        BY <3>3, <3>4, <3>5, <3>6, <3>7, <3>8 DEF PluginFollows, IsGap
    <2> QED
      BY <1>0, <1>3, <2>7, <2>8, <2>9, <2>10 DEF FeedInv
  <1> QED
    BY <1>0, <1>4, <1>5

(* What is replayed: the events from one on, up to the last.                 *)
LEMMA ReplayedFrames ==
  ASSUME FeedInv, NEW n \in Nat, n <= version - base
  PROVE  LET r == Feed!Replay(n)
         IN /\ r \in Seq(FeedFrames) /\ Len(r) = version - base - n
            /\ \A i \in 1..Len(r) : /\ r[i] \in FeedFrames /\ r[i].type = "event" /\ FrameTrue(r[i])
                                    /\ r[i].number = base + n + i
  <1> DEFINE m == version - base - n
             r == Feed!Replay(n)
  <1>1. version \in Nat /\ base \in Nat /\ base <= version /\ m \in Nat
    BY DEF FeedInv, FeedTyped, FeedNumbers
  <1>2. r = [i \in 1..m |-> Feed!Event(base + n + i)]
    BY DEF Feed!Replay
  <1>3. \A i \in 1..m : LET e == Feed!Event(base + n + i)
                       IN e \in FeedFrames /\ e.type = "event" /\ FrameTrue(e) /\ e.number = base + n + i
    BY <1>1 DEF Feed!Event, FeedFrames, FrameTrue
  <1> HIDE DEF m, r
  <1>4. \A i \in 1..m : Feed!Event(base + n + i) \in FeedFrames
    BY <1>3
  <1>5. r \in Seq(FeedFrames) /\ Len(r) = m
    BY <1>1, <1>2, <1>4
  <1>6. \A i \in 1..Len(r) : r[i] = Feed!Event(base + n + i)
    BY <1>2, <1>5
  <1> QED
    BY <1>3, <1>5, <1>6 DEF m, r

(* The client connects, and the handler subscribes.                          *)
LEMMA FeedConnect ==
  ASSUME FeedInv, Feed!Connect
  PROVE  FeedInv'
  <1>1. /\ ~up /\ up' = TRUE /\ inbox' = <<>> /\ sub' = "on" /\ chan' = <<>>
        /\ UNCHANGED <<kind, version, base, saved, pending, fetched>>
        /\ wanted' = IF wanted = 0 THEN version + 1 ELSE wanted
        /\ frames' = IF kind = "dashboard" THEN Feed!DashboardFrames(Feed!LastId) ELSE Feed!PluginFrames(Feed!LastId)
        /\ unlucky' = \/ unlucky
                      \/ kind # "dashboard" /\ saved.seq = 0 /\ wanted \notin {0, version + 1}
                      \/ Feed!LastId > 0 /\ saved.base # base /\ Feed!InLog(Feed!LastId)
    BY DEF Feed!Connect, Feed!faultVars, Feed!NotConnected
  <1>2. /\ version \in Nat /\ base \in Nat /\ base <= version /\ saved.seq \in Nat /\ saved.base \in Nat
        /\ saved.base + saved.seq <= version /\ wanted \in Nat
    BY DEF FeedInv, FeedTyped, FeedNumbers
  <1> DEFINE n == Feed!LastId
             r == Feed!Replay(n)
             g == Feed!Gap(n)
             s == Feed!Snapshot
             z == Feed!Gap(0)
  <1>3. n \in Nat /\ (kind # "page" => n = saved.seq) /\ (kind = "page" => n = 0)
    BY <1>2 DEF Feed!LastId
  <1>4. ASSUME Feed!InLog(n)
        PROVE  /\ r \in Seq(FeedFrames) /\ Len(r) = version - base - n
               /\ \A i \in 1..Len(r) : /\ r[i] \in FeedFrames /\ r[i].type = "event" /\ FrameTrue(r[i])
                                       /\ r[i].number = base + n + i
    <2>1. n <= version - base
      BY <1>4 DEF Feed!InLog
    <2> QED
      BY <1>3, <2>1, ReplayedFrames
  <1>5. /\ g \in FeedFrames /\ z \in FeedFrames /\ s \in FeedFrames /\ FrameTrue(g) /\ FrameTrue(s) /\ FrameTrue(z)
        /\ g.type = "gap" /\ g.number = version
    BY <1>2, <1>3 DEF Feed!Gap, Feed!Snapshot, FeedFrames, FrameTrue
  <1>6. frames' = IF kind = "dashboard"
                  THEN IF n > 0 /\ Feed!InLog(n) THEN r ELSE (IF n > 0 THEN <<z>> ELSE <<>>) \o <<s>>
                  ELSE IF n = 0 THEN <<>> ELSE IF Feed!InLog(n) THEN r ELSE <<g>>
    BY <1>1 DEF Feed!DashboardFrames, Feed!PluginFrames
  <1>7. unlucky' = \/ unlucky
                   \/ kind # "dashboard" /\ saved.seq = 0 /\ wanted \notin {0, version + 1}
                   \/ n > 0 /\ saved.base # base /\ Feed!InLog(n)
    BY <1>1
  <1> HIDE DEF n, r, g, s, z
  <1> DEFINE q == IF n > 0 THEN <<z>> ELSE <<>>
  <1>8. \/ n > 0 /\ Feed!InLog(n) /\ frames' = r
        \/ kind = "dashboard" /\ frames' = q \o <<s>>
        \/ kind # "dashboard" /\ n = 0 /\ frames' = <<>>
        \/ kind # "dashboard" /\ n > 0 /\ ~Feed!InLog(n) /\ frames' = <<g>>
    <2> DEFINE d == q \o <<s>>
               e == <<g>>
    <2>1. frames' = IF kind = "dashboard"
                    THEN IF n > 0 /\ Feed!InLog(n) THEN r ELSE d
                    ELSE IF n = 0 THEN <<>> ELSE IF Feed!InLog(n) THEN r ELSE e
      BY <1>6
    <2>2. n = 0 \/ n > 0
      BY <1>3
    <2> HIDE DEF d, e
    <2>3. \/ n > 0 /\ Feed!InLog(n) /\ frames' = r
          \/ kind = "dashboard" /\ frames' = d
          \/ kind # "dashboard" /\ n = 0 /\ frames' = <<>>
          \/ kind # "dashboard" /\ n > 0 /\ ~Feed!InLog(n) /\ frames' = e
      BY <2>1, <2>2
    <2> QED
      BY <2>3 DEF d, e
  <1>9. frames' \in Seq(FeedFrames) /\ \A i \in 1..Len(frames') : FrameTrue(frames'[i])
    <2>1. CASE Feed!InLog(n) /\ frames' = r
      BY <1>4, <2>1
    <2>2. CASE frames' = q \o <<s>>
      <3>1. q \in Seq(FeedFrames) /\ Len(q) \in Nat /\ \A i \in 1..Len(q) : FrameTrue(q[i])
        <4>1. CASE n > 0
          <5>1. q = <<z>> /\ <<z>> \in Seq(FeedFrames) /\ Len(<<z>>) = 1 /\ <<z>>[1] = z
            BY <1>5, <4>1
          <5>2. \A i \in 1..1 : i = 1
            OBVIOUS
          <5> QED
            BY <1>5, <5>1, <5>2
        <4>2. CASE ~(n > 0)
          BY <4>2, NoElements
        <4> QED
          BY <4>1, <4>2
      <3> HIDE DEF q
      <3>2. frames' \in Seq(FeedFrames) /\ Len(frames') = Len(q) + 1
        BY <1>5, <2>2, <3>1
      <3>3. \A i \in 1..Len(q) + 1 : frames'[i] = IF i <= Len(q) THEN q[i] ELSE s
        BY <1>5, <2>2, <3>1
      <3> QED
        BY <1>5, <3>1, <3>2, <3>3
    <2>4. CASE frames' = <<>>
      BY <2>4, NoElements
    <2>5. CASE frames' = <<g>>
      BY <1>5, <2>5
    <2> QED
      BY <1>8, <2>1, <2>2, <2>4, <2>5
  <1>10. FeedTyped'
    <2>1. /\ chan' \in Seq(Nat) /\ inbox' \in Seq(FeedFrames) /\ Len(inbox') <= 1 /\ frames' \in Seq(FeedFrames)
          /\ wanted' \in Nat
      BY <1>1, <1>2, <1>9, NoElements
    <2>2. unlucky' \in BOOLEAN
      BY <1>7
    <2> QED
      BY <1>1, <2>1, <2>2 DEF FeedInv, FeedTyped
  <1>11. FeedNumbers'
    BY <1>1 DEF FeedInv, FeedNumbers
  <1>12. FeedConnected'
    <2>1. \A i \in 1..Len(frames') : FrameTrue(frames[i])'
      BY <1>1, <1>9 DEF FrameTrue
    <2> QED
      BY <1>1, <2>1, NoElements DEF FeedConnected
  <1>13. ASSUME kind = "dashboard" PROVE DashboardFollows'
    <2>1. OfThisServer' => pending' \/ fetched' >= saved'.seq + base'
      BY <1>1, <1>13 DEF FeedInv, DashboardFollows, OfThisServer
    <2>2. CASE n > 0 /\ Feed!InLog(n) /\ frames' = r
      <3>1. CASE frames' # <<>>
        BY <2>1, <3>1 DEF DashboardFollows
      <3>2. CASE frames' = <<>>
        <4>1. version - base - n = 0 /\ n = saved.seq
          BY <1>3, <1>4, <1>13, <2>2, <3>2, NoElements
        <4>2. CASE saved.base # base
          BY <1>7, <2>1, <2>2, <4>2 DEF DashboardFollows
        <4>3. CASE saved.base = base
          <5>1. OfThisServer
            BY <2>2, <4>1, <4>3 DEF OfThisServer
          <5>2. pending \/ fetched = version
            BY <1>2, <1>13, <4>1, <5>1 DEF FeedInv, FeedTyped, FeedNumbers, DashboardFollows
          <5> QED
            BY <1>1, <2>1, <5>2 DEF DashboardFollows
        <4> QED
          BY <4>2, <4>3
      <3> QED
        BY <3>1, <3>2
    <2>3. CASE frames' = q \o <<s>>
      <3>0. q \in Seq(FeedFrames) /\ <<s>> \in Seq(FeedFrames) /\ Len(<<s>>) = 1
        BY <1>5, NoElements
      <3> HIDE DEF q
      <3>1. frames' # <<>>
        <4>1. Len(frames') = Len(q) + 1 /\ Len(q) \in Nat
          BY <2>3, <3>0
        <4> QED
          BY <4>1, NoElements
      <3> QED
        BY <2>1, <3>1 DEF DashboardFollows
    <2> QED
      BY <1>8, <1>13, <2>2, <2>3
  <1>14. ASSUME kind = "managed" PROVE PluginFollows'
    <2>1. n = saved.seq /\ ~pending' /\ version \in base'..version'
      BY <1>1, <1>2, <1>3, <1>14 DEF FeedInv, PluginFollows
    <2>2. ChannelFrom(version)'
      BY <1>1, <1>2, NoElements DEF ChannelFrom
    <2>3. Feed!InLog(saved.seq)' = Feed!InLog(saved.seq) /\ OfThisServer' = OfThisServer
      BY <1>1 DEF Feed!InLog, Feed!First, OfThisServer
    <2>4. CASE n > 0 /\ Feed!InLog(n) /\ frames' = r
      <3>1. \A j \in 1..Len(frames') : frames'[j].number = version - Len(frames') + j /\ frames'[j].type = "event"
        <4>1. version - (version - base - n) = base + n
          BY <1>2, <1>3
        <4> QED
          BY <1>4, <2>4, <4>1
      <3>2. unlucky' \/ wanted' = base + n + 1
        <4>1. CASE saved.base # base
          BY <1>7, <2>4, <4>1
        <4>2. CASE saved.base = base
          <5>1. OfThisServer
            BY <2>1, <2>4, <4>2 DEF OfThisServer
          <5>2. unlucky \/ wanted = base + n + 1
            BY <1>14, <2>1, <2>4, <5>1 DEF FeedInv, PluginFollows
          <5> QED
            BY <1>1, <1>2, <1>3, <1>7, <5>2
        <4> QED
          BY <4>1, <4>2
      <3>3. version - Len(frames') - Len(<<>>) + 1 = base + n + 1
        BY SMTT(40), <1>2, <1>3, <1>4, <2>4, NoElements
      <3>4. FramesUpTo(version)'
        BY <1>1, <3>1, <3>2, <3>3, NoElements DEF FramesUpTo, IsGap
      <3>5. /\ \A i \in 1..Len(frames') : ~IsGap(frames'[i])
            /\ \A i \in 1..Len(inbox') : ~IsGap(inbox'[i])
        BY <1>1, <3>1, NoElements DEF IsGap
      <3> QED
        BY <1>1, <2>1, <2>2, <3>2, <3>4, <3>5 DEF PluginFollows, IsGap
    <2>5. CASE n = 0 /\ frames' = <<>>
      <3>1. unlucky' \/ wanted' = version + 1
        BY <1>1, <1>7, <1>14, <2>1, <2>5
      <3>2. FramesUpTo(version)'
        <4>1. version - 0 - 0 + 1 = version + 1
          BY <1>2
        <4> QED
          BY <1>1, <2>5, <3>1, <4>1, NoElements DEF FramesUpTo
      <3>3. ~OfThisServer'
        BY <1>1, <2>1, <2>5 DEF OfThisServer
      <3> QED
        BY <1>1, <2>1, <2>2, <3>2, <3>3 DEF PluginFollows
    <2>6. CASE n > 0 /\ ~Feed!InLog(n) /\ frames' = <<g>>
      <3>1. Len(frames') = 1 /\ frames'[1] = g /\ frames' # <<>>
        BY <2>6
      <3>2. FramesUpTo(version)'
        <4>1. \A j \in 1..Len(frames') : /\ frames'[j].number = version - Len(frames') + j /\ frames'[j].type # "snapshot"
                                         /\ IsGap(frames'[j]) => Len(frames') = 1 /\ inbox' = <<>>
          <5>1. \A j \in 1..1 : j = 1
            OBVIOUS
          <5>2. version - 1 + 1 = version
            BY <1>2
          <5> QED
            BY <1>1, <1>5, <3>1, <5>1, <5>2
        <4>2. IsGap(frames'[1])
          BY <1>5, <3>1 DEF IsGap
        <4> QED
          BY <1>1, <3>1, <4>1, <4>2 DEF FramesUpTo, IsGap
      <3>3. ~Feed!InLog(saved.seq)'
        BY <2>1, <2>3, <2>6
      <3> QED
        BY <1>1, <2>1, <2>2, <3>2, <3>3 DEF PluginFollows
    <2> QED
      BY <1>8, <1>14, <2>4, <2>5, <2>6
  <1> QED
    BY <1>1, <1>10, <1>11, <1>12, <1>13, <1>14 DEF FeedInv

LEMMA FeedReceive ==
  ASSUME FeedInv, Feed!Receive
  PROVE  FeedInv'
  <1> DEFINE f == inbox[1]
  <1>1. /\ inbox # <<>> /\ up /\ inbox' = <<>> /\ UNCHANGED <<kind, version, base, chan, sub, frames, up, fetched>>
        /\ saved' = IF f.type = "gap" \/ f.seq = 0 THEN saved ELSE [seq |-> f.seq, base |-> f.number - f.seq]
        /\ wanted' = IF f.type # "event" \/ f.number = wanted THEN f.number + 1 ELSE 0
        /\ unlucky' = (unlucky /\ f.type = "event" /\ kind # "dashboard")
        /\ pending' = (kind = "dashboard")
    BY DEF Feed!Receive, Feed!faultVars
  <1>2. 1 \in 1..Len(inbox) /\ Len(inbox) = 1
    <2>1. inbox \in Seq(FeedFrames) /\ Len(inbox) <= 1
      BY DEF FeedInv, FeedTyped
    <2>2. Len(inbox) \in Nat /\ Len(inbox) # 0 /\ Len(inbox) <= 1
      BY <1>1, <2>1, Filled
    <2>3. Len(inbox) = 1
      BY <2>2, AtMostOne
    <2> QED
      BY <2>3
  <1>3. f \in FeedFrames /\ FrameTrue(f)
    <2>1. inbox \in Seq(FeedFrames) /\ \A i \in 1..Len(inbox) : FrameTrue(inbox[i])
      BY DEF FeedInv, FeedTyped, FeedConnected
    <2> QED
      BY <1>2, <2>1, Filled
  <1> HIDE DEF f
  <1>4. /\ f.number \in Nat /\ f.seq \in Nat /\ base <= f.number /\ f.number <= version /\ version \in Nat /\ base \in Nat
        /\ f.type \in {"event", "gap", "snapshot"}
        /\ f.type \in {"event", "snapshot"} => f.seq = f.number - base
        /\ f.type = "event" => f.seq > 0
    BY <1>3 DEF FeedInv, FeedTyped, FrameTrue, FeedFrames
  <1>5. \/ (f.type = "gap" \/ f.seq = 0) /\ saved' = saved
        \/ f.type # "gap" /\ saved' = [seq |-> f.seq, base |-> base] /\ f.seq > 0 /\ f.seq + base = f.number
    BY <1>1, <1>4
  <1>6. FeedTyped'
    BY <1>1, <1>4, <1>5 DEF FeedInv, FeedTyped
  <1>7. FeedNumbers'
    BY <1>1, <1>4, <1>5 DEF FeedInv, FeedTyped, FeedNumbers
  <1>8. FeedConnected'
    BY <1>1 DEF FeedInv, FeedConnected, FrameTrue
  <1>9. kind = "dashboard" => DashboardFollows'
    BY <1>1 DEF DashboardFollows
  <1>10. ASSUME kind = "managed" PROVE PluginFollows'
    <2>1. PICK c \in base..version : ChannelFrom(c) /\ FramesUpTo(c)
      BY <1>1, <1>10 DEF FeedInv, PluginFollows
    <2>2. ChannelFrom(c)' /\ c \in base'..version'
      BY <1>1, <2>1 DEF ChannelFrom
    <2>3. f.number = c - Len(frames) /\ f.type # "snapshot" /\ (f.type = "gap" => frames = <<>>)
      BY <1>1, <2>1 DEF FramesUpTo, IsGap, f
    <2>4. \A j \in 1..Len(frames) : frames[j].number = c - Len(frames) + j /\ frames[j].type # "snapshot" /\ frames[j].type # "gap"
      BY <1>1, <2>1 DEF FramesUpTo, IsGap
    <2>5. f.type = "gap" \/ unlucky \/ wanted = c - Len(frames)
      <3>1. frames # <<>> => 1 \in 1..Len(frames)
        BY DEF FeedInv, FeedTyped
      <3>2. frames # <<>> => ~IsGap(frames[1])
        BY <2>4, <3>1 DEF IsGap
      <3>3. c - Len(frames) - Len(inbox) + 1 = c - Len(frames)
        BY <1>2, <2>1 DEF FeedInv, FeedTyped
      <3> QED
        BY <2>1, <3>2, <3>3 DEF FramesUpTo, IsGap, f
    <2>6. unlucky' \/ wanted' = f.number + 1
      <3>1. CASE f.type = "event"
        BY <1>1, <1>10, <2>3, <2>5, <3>1
      <3>2. CASE f.type # "event"
        BY <1>1, <3>2
      <3> QED
        BY <3>1, <3>2
    <2>7. FramesUpTo(c)'
      <3>1. c - Len(frames) - Len(<<>>) + 1 = f.number + 1
        BY <2>3, <1>4
      <3> QED
        BY <1>1, <2>4, <2>6, <3>1 DEF FramesUpTo, IsGap
    <2>8. ASSUME OfThisServer', Feed!InLog(saved.seq)'
          PROVE  /\ unlucky' \/ wanted' = base' + saved'.seq + 1
                 /\ \A i \in 1..Len(frames') : ~IsGap(frames'[i])
                 /\ \A i \in 1..Len(inbox') : ~IsGap(inbox'[i])
      <3>1. \A i \in 1..Len(frames') : ~IsGap(frames'[i])
        BY <1>1, <2>4 DEF IsGap
      <3>2. CASE f.type # "gap" /\ saved' = [seq |-> f.seq, base |-> base] /\ f.seq + base = f.number
        <4>1. base' + saved'.seq + 1 = f.number + 1
          BY <1>1, <1>4, <3>2
        <4> QED
          BY <1>1, <2>6, <3>1, <4>1
      <3>3. CASE (f.type = "gap" \/ f.seq = 0) /\ saved' = saved
        <4>1. OfThisServer /\ Feed!InLog(saved.seq)
          BY <1>1, <2>8, <3>3 DEF OfThisServer, Feed!InLog, Feed!First
        <4>2. ~IsGap(f)
          BY <1>2, <1>10, <4>1 DEF FeedInv, PluginFollows, f
        <4>3. f.type = "event"
          BY <1>4, <2>3, <4>2 DEF IsGap
        <4> QED
          BY <1>4, <3>3, <4>3
      <3> QED
        BY <1>5, <3>2, <3>3
    <2> QED
      BY <1>1, <1>10, <2>2, <2>7, <2>8 DEF PluginFollows
  <1> QED
    BY <1>1, <1>6, <1>7, <1>8, <1>9, <1>10 DEF FeedInv

LEMMA FeedNext ==
  ASSUME FeedInv, Feed!Next
  PROVE  FeedInv'
  <1>1. ASSUME Feed!EndOfStream \/ Feed!Break \/ Feed!Reload \/ Feed!Restart PROVE FeedInv'
    <2>1. /\ Feed!Cut /\ UNCHANGED <<kind, version, saved, wanted, unlucky>> /\ base' \in {base, version}
          /\ (pending' = pending /\ fetched' = fetched) \/ (pending' = FALSE /\ fetched' = version)
      BY <1>1 DEF Feed!EndOfStream, Feed!Break, Feed!Reload, Feed!Restart, Feed!faultVars
    <2> QED
      BY <2>1, FeedCut
  <1> QED
    BY <1>1, FeedPublish, FeedConnect, FeedWrite, FeedReceive, FeedFlush DEF Feed!Next

LEMMA FeedHolds ==
  ASSUME FeedInv, kind # "page"
  PROVE  Feed!GapsAreTold
  <1> SUFFICES ASSUME Feed!CaughtUp, ~unlucky
               PROVE  IF kind = "dashboard" THEN fetched = version ELSE wanted = version + 1
    BY DEF Feed!GapsAreTold
  <1>1. up /\ sub = "on" /\ frames = <<>> /\ chan = <<>> /\ inbox = <<>> /\ ~pending
    BY DEF Feed!CaughtUp
  <1>2. CASE kind = "dashboard"
    BY <1>1, <1>2 DEF FeedInv, DashboardFollows
  <1>3. CASE kind = "managed"
    <2>1. PICK c \in base..version : ChannelFrom(c) /\ FramesUpTo(c)
      BY <1>1, <1>3 DEF FeedInv, PluginFollows
    <2>2. version \in Nat /\ base \in Nat
      BY DEF FeedInv, FeedTyped
    <2>3. c + 0 = version /\ wanted = c - 0 - 0 + 1
      BY <1>1, <2>1, NoElements DEF ChannelFrom, FramesUpTo
    <2>4. wanted = version + 1
      BY <2>1, <2>2, <2>3
    <2> QED
      BY <1>3, <2>4
  <1> QED
    BY <1>2, <1>3 DEF FeedInv, FeedTyped

-----------------------------------------------------------------------------
(* The cache of a browser: what EventLogProofs says of any browser and any log, it says
   of this one.                                                              *)

Proved == INSTANCE EventLogProofs WITH
  Clients <- Browsers, LogCapacity <- CacheLog, ChanCapacity <- CacheChan, chan <- cacheChan,
  asked <- cacheAsked, inbox <- cacheInbox, answers <- cacheAnswers

LEMMA CacheAssumed == Proved!CapacityAssumption /\ Proved!BoundAssumption
  <1>1. CacheLog \in Nat \ {0} /\ CacheChan \in Nat \ {0}
    BY FollowersAssumption DEF FollowersAssumption
  <1>2. WireCapacity \in Nat /\ MaxSeq \in Nat /\ MaxLosses \in Nat
    BY FollowersAssumption DEF FollowersAssumption
  <1> QED
    BY <1>1, <1>2 DEF Proved!CapacityAssumption, Proved!BoundAssumption

(* The two instances are of one module.                                      *)

LEMMA SameChat == Cache!Chat = Proved!Chat
  BY DEF Cache!Chat, Proved!Chat, Cache!PumpTake, Proved!PumpTake, Cache!PumpPublish,
     Proved!PumpPublish, Cache!ConfigPublish, Proved!ConfigPublish, Cache!Remove, Proved!Remove,
     Cache!Invalidate, Proved!Invalidate, Cache!Close, Proved!Close, Cache!Publish, Proved!Publish,
     Cache!Trimmed, Proved!Trimmed, Cache!HasRoom, Proved!HasRoom, Cache!Closed, Proved!Closed,
     Cache!Event, Proved!Event, Cache!logVars, Proved!logVars, Cache!serveVars, Proved!serveVars,
     Cache!clientVars, Proved!clientVars, Cache!vars, Proved!vars, Cache!cacheVars, Proved!cacheVars

LEMMA SameServe ==
  ASSUME NEW c \in Browsers
  PROVE  Cache!Serve(c) = Proved!Serve(c)
  BY DEF Cache!Serve, Proved!Serve, Cache!Subscribe, Proved!Subscribe, Cache!WriteReplay,
     Proved!WriteReplay, Cache!ReplayDone, Proved!ReplayDone, Cache!WriteGap, Proved!WriteGap,
     Cache!WriteSnapshot, Proved!WriteSnapshot, Cache!WriteEvent, Proved!WriteEvent,
     Cache!HandlerReturn, Proved!HandlerReturn, Cache!Write, Proved!Write, Cache!Resumable,
     Proved!Resumable, Cache!IsReplay, Proved!IsReplay, Cache!Gap, Proved!Gap, Cache!Snapshot,
     Proved!Snapshot, Cache!ChannelClosed, Proved!ChannelClosed, Cache!Closed, Proved!Closed,
     Cache!logVars, Proved!logVars, Cache!serveVars, Proved!serveVars, Cache!clientVars,
     Proved!clientVars, Cache!vars, Proved!vars, Cache!cacheVars, Proved!cacheVars

LEMMA SameBrowser ==
  ASSUME NEW c \in Browsers
  PROVE  /\ Cache!Farewell(c) = Proved!Farewell(c)
         /\ Cache!Connect(c) = Proved!Connect(c)
         /\ Cache!Disconnect(c) = Proved!Disconnect(c)
         /\ Cache!Reduce(c) = Proved!Reduce(c)
  BY DEF Cache!Farewell, Proved!Farewell, Cache!HasRoom, Proved!HasRoom, Cache!Connect, Proved!Connect,
     Cache!Disconnect, Proved!Disconnect, Cache!Reduce, Proved!Reduce, Cache!Stale, Proved!Stale,
     Cache!logVars, Proved!logVars, Cache!serveVars, Proved!serveVars, Cache!clientVars,
     Proved!clientVars, Cache!vars, Proved!vars

LEMMA SameVisit ==
  ASSUME NEW c \in Browsers
  PROVE  /\ Cache!Prepare(c) = Proved!Prepare(c)
         /\ Cache!ServeSnapshot(c) = Proved!ServeSnapshot(c)
         /\ Cache!Prepared(c) = Proved!Prepared(c)
         /\ Cache!Open(c) = Proved!Open(c)
         /\ Cache!OpenNew(c) = Proved!OpenNew(c)
         /\ Cache!Leave(c) = Proved!Leave(c)
         /\ Cache!Flush(c) = Proved!Flush(c)
  BY SameBrowser DEF Cache!Prepare, Proved!Prepare, Cache!ServeSnapshot, Proved!ServeSnapshot,
     Cache!Prepared, Proved!Prepared, Cache!Open, Proved!Open, Cache!OpenNew, Proved!OpenNew,
     Cache!Leave, Proved!Leave, Cache!Flush, Proved!Flush, Cache!Show, Proved!Show, Cache!logVars,
     Proved!logVars, Cache!serveVars, Proved!serveVars, Cache!clientVars, Proved!clientVars,
     Cache!vars, Proved!vars, Cache!cacheVars, Proved!cacheVars

LEMMA CacheInit == Cache!CacheInit => Proved!CacheInv
  <1>1. Cache!CacheInit = Proved!CacheInit
    BY DEF Cache!CacheInit, Proved!CacheInit, Cache!Init, Proved!Init
  <1> QED
    BY <1>1, CacheAssumed, Proved!InitCache

LEMMA CacheNext ==
  ASSUME Proved!CacheInv, Cache!CacheNext \/ UNCHANGED cacheVars
  PROVE  Proved!CacheInv'
  <1>1. Cache!CacheNext => Proved!CacheNext
    BY SameChat, SameServe, SameBrowser, SameVisit DEF Cache!CacheNext, Proved!CacheNext, Cache!cacheVars, Proved!cacheVars
  <1>2. UNCHANGED cacheVars => UNCHANGED Proved!allVars
    BY DEF cacheVars, Proved!allVars, Proved!cacheVars, Proved!vars, Proved!logVars, Proved!serveVars, Proved!clientVars
  <1> QED
    BY <1>1, <1>2, CacheAssumed, Proved!NextCache

LEMMA CacheHolds == Proved!CacheInv => Cache!CacheIsPrefix
  <1>1. Cache!CacheIsPrefix = Proved!CacheIsPrefix
    BY DEF Cache!CacheIsPrefix, Proved!CacheIsPrefix, Cache!ViewIsPrefix, Proved!ViewIsPrefix,
           Cache!ItemsUpTo, Proved!ItemsUpTo
  <1> QED
    BY <1>1, CacheAssumed, Proved!CacheFromInv

-----------------------------------------------------------------------------
(* The parts together: a step is one of one part, and the others stay.       *)

LEMMA OnePart ==
  ASSUME [Next]_vars
  PROVE  /\ Store!Next \/ UNCHANGED storeVars
         /\ Cap!Next \/ UNCHANGED capVars
         /\ Plugins!Next \/ UNCHANGED pluginVars
         /\ Files!Next \/ UNCHANGED fileVars
         /\ Desk!Next \/ UNCHANGED deskVars
         /\ Prefs!Next \/ UNCHANGED prefVars
         /\ Projects!Next \/ UNCHANGED listVars
         /\ Watch!Next \/ UNCHANGED watchVars
         /\ Remote!Next \/ UNCHANGED streamVars
         /\ Feed!Next \/ UNCHANGED feedVars
         /\ Cache!CacheNext \/ UNCHANGED cacheVars
  <1>1. CASE Next
    BY <1>1 DEF Next
  <1>2. CASE UNCHANGED vars
    BY <1>2 DEF vars
  <1> QED
    BY <1>1, <1>2

LEMMA StoreAlways == Spec => []StoreInv
  <1>1. Init => StoreInv
    BY StoreInit DEF Init
  <1>2. StoreInv /\ [Next]_vars => StoreInv'
    BY OnePart, StoreNext, StoreStutter
  <1> QED
    BY <1>1, <1>2, PTL DEF Spec

(* Whatever is repeated or given up, the store applies an operation once, in the order
   of the runner, and the runner is told what the store did, from a log that stays
   bounded (serveMutation, pruneOperationsLocked, RemoteStore.mutate).       *)
THEOREM StoreServed == Spec => []StoreIsTrue
  <1>1. StoreInv => StoreIsTrue
    BY AnswerIsTrueHolds DEF StoreInv, StoreIsTrue
  <1> QED
    BY <1>1, StoreAlways, PTL

LEMMA CapAlways == Spec => []CapInv
  <1>1. Init => CapInv
    BY CapInit DEF Init
  <1>2. CapInv /\ [Next]_vars => CapInv'
    BY OnePart, CapNext, CapStutter
  <1> QED
    BY <1>1, <1>2, PTL DEF Spec

(* No context and no launch outlives its chat, on any way out of openChat and
   disposeChat; a location is given to one request, a launch runs one process. *)
THEOREM CapabilitiesOwned == Spec => []CapabilitiesHeld
  <1>1. CapInv => CapabilitiesHeld
    BY CapHolds DEF CapabilitiesHeld
  <1> QED
    BY <1>1, CapAlways, PTL

LEMMA FilesAlways == Spec => []FileInv
  <1>1. Init => FileInv
    BY FileInit DEF Init
  <1>2. FileInv /\ [Next]_vars => FileInv'
    <2>1. FileInv /\ UNCHANGED fileVars => FileInv'
      BY FileStutter DEF fileVars
    <2> QED
      BY <2>1, OnePart, FileNext
  <1> QED
    BY <1>1, <1>2, PTL DEF Spec

(* A message is accepted with all of its files or not at all, each of them once, and
   the browser lists what the chat keeps (takeAttachments, useDashboard.send). *)
THEOREM FilesAreWhole == Spec => []FilesWhole
  <1>1. FileInv => FilesWhole
    BY FileHolds DEF FilesWhole
  <1> QED
    BY <1>1, FilesAlways, PTL

LEMMA PluginsAlways == Spec => []PlugInv
  <1>1. Init => PlugInv
    <2>1. Init => \E r \in {0, 1}, d \in BOOLEAN : Plugins!Started(r, d)
      BY DEF Init, Plugins!Init
    <2> QED
      BY <2>1, PlugInit
  <1>2. PlugInv /\ [Next]_vars => PlugInv'
    BY OnePart, PlugNext, PlugStutter
  <1> QED
    BY <1>1, <1>2, PTL DEF Spec

(* A plugin never has two backends, whatever races for it, and an undisturbed pass
   of the ticker makes its backend what the operator wants; requests one after the
   other never leave a disabled plugin running (plugin_backends.go).         *)
THEOREM PluginsSettle == Spec => []PluginSettles
  <1>1. PlugInv => PluginSettles
    BY PlugHolds DEF PluginSettles
  <1> QED
    BY <1>1, PluginsAlways, PTL

LEMMA DeskAlways == Spec => []DeskInv
  <1>1. Init => DeskInv
    BY DeskInit DEF Init
  <1>2. DeskInv /\ [Next]_vars => DeskInv'
    BY OnePart, DeskNext, DeskStutter
  <1> QED
    BY <1>1, <1>2, PTL DEF Spec

(* A desktop keeps the server it has reclaimed, a server keeps its socket, and one
   that has been left retires (main.cjs, listenUnix, retireIfDrained).       *)
THEOREM DesktopsServed == Spec => []DesktopServed
  <1>1. DeskInv => DesktopServed
    BY DeskHolds DEF DesktopServed
  <1> QED
    BY <1>1, DeskAlways, PTL

LEMMA PrefsAlways == Spec => []PrefsInv
  <1>1. Init => PrefsInv
    BY PrefsInit DEF Init
  <1>2. PrefsInv /\ [Next]_vars => PrefsInv'
    BY OnePart, PrefsNext, PrefStutter
  <1> QED
    BY <1>1, <1>2, PTL DEF Spec

(* What the preference service reads back after any failure is a state it has had since
   it last reported one as saved; without overlap or failure, the live chats have the
   tools of all and what their sessions would be given (chatprefs.write, read, Remember,
   handleConfig, handleUpdateDefaultTool).                                   *)
THEOREM PreferencesTrue == Spec => []PrefsTrue
  <1>1. PrefsInv => PrefsTrue
    BY PrefsHold DEF PrefsTrue
  <1> QED
    BY <1>1, PrefsAlways, PTL

LEMMA ProjectsAlways == Spec => []ProjectsInv
  <1>1. Init => ProjectsInv
    BY ProjectsInit DEF Init
  <1>2. ProjectsInv /\ [Next]_vars => ProjectsInv'
    BY OnePart, ProjectsNext, ProjectsStutter
  <1> QED
    BY <1>1, <1>2, PTL DEF Spec

(* The list of projects and their folders stays sound, a removal that was saved holds
   and what could not be saved was refused, whatever fails, is restarted and changes on
   disk (workspaces.Service).                                                *)
THEOREM ProjectsStay == Spec => []ProjectsKept
  <1>1. ProjectsInv => ProjectsKept
    BY DEF ProjectsInv, ProjectsKept
  <1> QED
    BY <1>1, ProjectsAlways, PTL

LEMMA WatchAlways == Spec => []WatchInv
  <1>1. Init => WatchInv
    <2>1. Init => \E there \in SUBSET PluginDirs : Watch!Started(there)
      BY DEF Init, Watch!Init
    <2> QED
      BY <2>1, WatchInit
  <1>2. WatchInv /\ [Next]_vars => WatchInv'
    BY OnePart, WatchNext, WatchStutter
  <1> QED
    BY <1>1, <1>2, PTL DEF Spec

LEMMA RemoteAlways == Spec => []RemoteInv
  <1>1. Init => RemoteInv
    BY RemoteInit DEF Init
  <1>2. RemoteInv /\ [Next]_vars => RemoteInv'
    BY OnePart, RemoteNext, RemoteStutter
  <1> QED
    BY <1>1, <1>2, PTL DEF Spec

LEMMA FeedAlways == Spec => []FeedInv
  <1>1. Init => FeedInv
    <2>1. Kinds \subseteq {"dashboard", "managed", "page"}
      BY FollowersAssumption DEF FollowersAssumption
    <2>2. Init => \E k \in {"dashboard", "managed", "page"} : Feed!Started(k)
      BY <2>1 DEF Init, Feed!Init
    <2> QED
      BY <2>2, FeedInit
  <1>2. FeedInv /\ [Next]_vars => FeedInv'
    BY OnePart, FeedNext, FeedStutter
  <1> QED
    BY <1>1, <1>2, PTL DEF Spec

LEMMA CacheAlways == Spec => []Proved!CacheInv
  <1>1. Init => Proved!CacheInv
    BY CacheInit DEF Init
  <1>2. Proved!CacheInv /\ [Next]_vars => Proved!CacheInv'
    BY OnePart, CacheNext
  <1> QED
    BY <1>1, <1>2, PTL DEF Spec

(* Whoever follows events and has read everything knows how things stand, or that it
   has missed something: the host the state of the runner's turn, a client of the
   dashboard's or a plugin's events all of them or the gap, the dashboards the last
   change of the plugins; a browser that comes back to a chat resumes from a true state
   of it (streamOnce, eventHub.subscribe and publish, pluginWatcher.run, useChat). *)
THEOREM FollowersKnow == Spec => []FollowersAreTold
  <1>1. RemoteInv /\ FeedInv /\ WatchInv /\ Proved!CacheInv => FollowersAreTold
    BY RemoteHolds, FeedHolds, WatchHolds, CacheHolds DEF FollowersAreTold
  <1> QED
    BY <1>1, RemoteAlways, FeedAlways, WatchAlways, CacheAlways, PTL

=============================================================================
