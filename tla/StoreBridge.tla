------------------------------ MODULE StoreBridge ------------------------------
(***************************************************************************)
(* The session store of the host, used by a runner in a sandbox            *)
(* (internal/sessionstorebridge, internal/sessionstoreremote).  A mutation *)
(* carries an operation id; the host keeps a log of operations and answers *)
(* a repeated one from it.  Operations are numbered in the order in which  *)
(* the runner starts them; what they write is left out.                    *)
(***************************************************************************)
EXTENDS Naturals, Sequences, FiniteSets, Functions

CONSTANTS Callers,      \* goroutines of the runner
          NoCaller,
          MaxOps,       \* bound: operations
          MaxRepeats,   \* bound: requests sent again, in all
          MaxLog        \* operations the host remembers (4096)

Ops == 1..MaxOps
\* not_found stands for the errors that have a code of their own, store_error for
\* the rest, a request that does not decode included
Outcomes == {"ok", "not_found", "store_error"}

VARIABLES mutex,     \* RemoteStore.mutations: who holds it
          current,   \* current[c]: the operation c waits for, 0 for none
          attempt,   \* attempt[o]: times o was sent
          network,   \* requests on their way: <<o, attempt>>
          begun,     \* every operation ever entered in the log, in order
          cut,       \* how many of them have been pruned
          operations,  \* operations[o]: "none", "running", "stored", "done"
          waiting,   \* repeated requests that wait for the first one
          answers,   \* responses on their way: <<o, attempt, outcome>>
          stored,    \* the mutations the store has applied, in order
          outcome,   \* outcome[o]: what the handler has found for o
          returned   \* returned[o]: what mutate has returned for o

vars == <<mutex, current, attempt, network, begun, cut, operations, waiting, answers,
          stored, outcome, returned>>
host == <<begun, cut, operations, waiting, stored, outcome>>
runner == <<mutex, current, attempt, returned>>

Init ==
  /\ mutex = NoCaller /\ current = [c \in Callers |-> 0]
  /\ attempt = [o \in Ops |-> 0] /\ returned = [o \in Ops |-> "no"]
  /\ network = {} /\ answers = {} /\ waiting = {}
  /\ begun = <<>> /\ cut = 0 /\ operations = [o \in Ops |-> "none"]
  /\ stored = <<>> /\ outcome = [o \in Ops |-> "no"]

operationIDs == SubSeq(begun, cut + 1, Len(begun))
Started == {o \in Ops : attempt[o] > 0}
Repeats == {r \in Ops \X (2..(MaxRepeats + 1)) : r[2] <= attempt[r[1]]}

-----------------------------------------------------------------------------
(* The runner.                                                               *)

\* Mutant: the calls of two goroutines overlap
MutateUnlocked(c, o) ==
  /\ current[c] = 0 /\ o = Cardinality(Started) + 1
  /\ mutex' = c
  /\ current' = [current EXCEPT ![c] = o]
  /\ attempt' = [attempt EXCEPT ![o] = 1]
  /\ network' = network \cup {<<o, 1>>}
  /\ UNCHANGED <<host, answers, returned>>

\* mutate: the mutex is held until the answer has been read.
Mutate(c, o) ==
  /\ mutex = NoCaller /\ o = Cardinality(Started) + 1
  /\ mutex' = c
  /\ current' = [current EXCEPT ![c] = o]
  /\ attempt' = [attempt EXCEPT ![o] = 1]
  /\ network' = network \cup {<<o, 1>>}
  /\ UNCHANGED <<host, answers, returned>>

\* The connection breaks and the request is sent again with the same id.
Resend(c) ==
  LET o == current[c] IN
  /\ o # 0 /\ Cardinality(Repeats) < MaxRepeats
  /\ attempt' = [attempt EXCEPT ![o] = @ + 1]
  /\ network' = network \cup {<<o, attempt[o] + 1>>}
  /\ answers' = {}
  /\ UNCHANGED <<host, mutex, current, returned>>

\* do: the wire form of an error is turned back into the error.
FromWire(w) == IF w \in {"not_found", "ok"} THEN w ELSE "failed"

Return(c, r) ==
  /\ returned' = [returned EXCEPT ![current[c]] = r]
  /\ current' = [current EXCEPT ![c] = 0]
  /\ mutex' = NoCaller
  /\ answers' = {}

Answered(c) ==
  LET o == current[c] IN
  /\ o # 0
  /\ \E w \in Outcomes :
       /\ <<o, attempt[o], w>> \in answers
       /\ Return(c, FromWire(w))
  /\ UNCHANGED <<host, attempt, network>>

\* The client's timeout or the caller's context: the host may go on.
GiveUp(c) ==
  /\ current[c] # 0
  /\ Return(c, "unknown")
  /\ UNCHANGED <<host, attempt, network>>

-----------------------------------------------------------------------------
(* serveMutation on the host.                                                *)

\* A request arrives: a copy before MaxLog other operations have (the assumption
\* the log is made for).
Age(o) == IF o \in Range(begun) THEN Len(begun) - (CHOOSE i \in DOMAIN begun : begun[i] = o) ELSE 0
Arrives(o, a) == <<o, a>> \in network /\ Age(o) < MaxLog /\ network' = network \ {<<o, a>>}

\* The first request of an operation enters it in the log and runs the handler.
Begin(o, a) ==
  /\ Arrives(o, a) /\ operations[o] = "none"
  /\ begun' = Append(begun, o)
  /\ operations' = [operations EXCEPT ![o] = "running"]
  /\ waiting' = waiting \cup {<<o, a>>}
  /\ UNCHANGED <<runner, cut, answers, stored, outcome>>

\* Mutant: an operation that is still running is answered at once
RepeatAtOnce(o, a) ==
  /\ Arrives(o, a) /\ operations[o] # "none"
  /\ answers' = answers \cup {<<o, a, "ok">>}
  /\ UNCHANGED <<runner, begun, cut, operations, waiting, stored, outcome>>

\* A repeated one waits for it.
Repeat(o, a) ==
  /\ Arrives(o, a) /\ operations[o] # "none"
  /\ waiting' = waiting \cup {<<o, a>>}
  /\ UNCHANGED <<runner, begun, cut, operations, answers, stored, outcome>>

\* The handler: a request that does not decode never reaches the store.
Handle(o) ==
  /\ operations[o] = "running"
  /\ \E w \in Outcomes :
       /\ outcome' = [outcome EXCEPT ![o] = w]
       /\ stored' = IF w = "ok" THEN Append(stored, o) ELSE stored
  /\ operations' = [operations EXCEPT ![o] = "stored"]
  /\ UNCHANGED <<runner, network, begun, cut, waiting, answers>>

\* pruneOperationsLocked stops at the first operation that is not done.
Prunable(n, keep, done) ==
  /\ n = 0 \/ Len(operationIDs) - n >= keep
  /\ \A i \in 1..n : operationIDs[i] \in done
PrunedShort(n, done) ==  \* Mutant: keeps one operation less
  Prunable(n, MaxLog - 1, done) /\ ~Prunable(n + 1, MaxLog - 1, done)
PrunedNever(n, done) == n = 0  \* Mutant: the log is never cut
Pruned(n, done) == Prunable(n, MaxLog, done) /\ ~Prunable(n + 1, MaxLog, done)

Record(o) ==
  LET done == {p \in Ops : operations[p] = "done"} \cup {o} IN
  /\ operations[o] = "stored"
  /\ \E n \in 0..Len(operationIDs) :
       /\ Pruned(n, done)
       /\ cut' = cut + n
       /\ operations' = [p \in Ops |-> IF \E i \in 1..n : operationIDs[i] = p THEN "none"
                                       ELSE IF p = o THEN "done" ELSE operations[p]]
  /\ UNCHANGED <<runner, network, begun, waiting, answers, stored, outcome>>

\* replay: an answer reaches the runner while it waits for that request.
Reply(o, a) ==
  /\ <<o, a>> \in waiting
  /\ outcome[o] # "no" /\ operations[o] \in {"done", "none"}
  /\ waiting' = waiting \ {<<o, a>>}
  /\ answers' = IF a = attempt[o] /\ \E c \in Callers : current[c] = o
                THEN answers \cup {<<o, a, outcome[o]>>} ELSE answers
  /\ UNCHANGED <<runner, network, begun, cut, operations, stored, outcome>>

Next ==
  \/ \E c \in Callers : Resend(c) \/ Answered(c) \/ GiveUp(c) \/ \E o \in Ops : Mutate(c, o)
  \/ \E o \in Ops, a \in 1..(MaxRepeats + 1) : Begin(o, a) \/ Repeat(o, a) \/ Reply(o, a)
  \/ \E o \in Ops : Handle(o) \/ Record(o)

Spec == Init /\ [][Next]_vars

-----------------------------------------------------------------------------
TypeOK ==
  /\ mutex \in Callers \cup {NoCaller} /\ current \in [Callers -> 0..MaxOps]
  /\ attempt \in [Ops -> 0..(MaxRepeats + 1)] /\ cut \in 0..Len(begun)
  /\ network \cup waiting \subseteq Ops \X (1..(MaxRepeats + 1))
  /\ operations \in [Ops -> {"none", "running", "stored", "done"}]
  /\ outcome \in [Ops -> Outcomes \cup {"no"}]
  /\ returned \in [Ops -> {"no", "unknown", "ok", "not_found", "failed"}]

(* However often an operation is sent, the store applies it once, as long as no
   copy is older than the log (serveMutation, pruneOperationsLocked).        *)
AppliedOnce == \A i, j \in DOMAIN stored : stored[i] = stored[j] => i = j

(* What mutate returns is what the store did, also when a copy was answered: a
   success is in the store, an error with a name is that error (replay, do). *)
AnswerIsTrue ==
  \A o \in Ops : returned[o] \notin {"no", "unknown"} =>
    /\ returned[o] = FromWire(outcome[o])
    /\ returned[o] = "ok" <=> o \in Range(stored)

(* The store applies the operations of a runner in the order in which they were
   started, those excepted on whose answer the runner has given up
   (RemoteStore.mutations is held until the answer has been read).           *)
OrderKept ==
  \A i, j \in DOMAIN stored : stored[i] < stored[j] /\ returned[stored[i]] # "unknown" => i < j

(* The log is bounded: what exceeds the limit is running, or follows an operation
   that is (pruneOperationsLocked).                                          *)
LogBounded ==
  LET open == {o \in Range(operationIDs) : operations[o] # "done"} IN
  \/ Len(operationIDs) <= MaxLog + Cardinality(open)
  \/ operationIDs[1] \in open
=============================================================================
