------------------------------- MODULE StdioMux -------------------------------
(***************************************************************************)
(* The multiplexer between the host and the runner in a sandbox            *)
(* (internal/stdiomux): many streams over one pair of bounded pipes.  One  *)
(* goroutine per end reads frames; any goroutine writes one, under a mutex *)
(* that makes a frame one unit, and waits while the pipe is full.          *)
(* A chunk of data is one unit, its number stands for its bytes.           *)
(***************************************************************************)
EXTENDS Naturals, Sequences, FiniteSets, FiniteSetsExt

CONSTANTS Host, Runner,
          HostStreams, RunnerStreams,   \* the ids each end may dial with
          None,
          PipeCap,      \* frames that fit into a pipe
          Backlog,      \* connections waiting for Accept
          MaxStreams,   \* streams an end keeps
          MaxBuffered,  \* units a stream buffers
          MaxData       \* bound: units written, and ends closed, in all

ASSUME MuxAssumption ==
  /\ Host # Runner /\ HostStreams \cap RunnerStreams = {}
  /\ None \notin HostStreams \cup RunnerStreams
  /\ PipeCap \in Nat \ {0} /\ Backlog \in Nat /\ MaxStreams \in Nat
  /\ MaxBuffered \in Nat /\ MaxData \in Nat

Ends == {Host, Runner}
Streams == HostStreams \cup RunnerStreams
Other(e) == IF e = Host THEN Runner ELSE Host
Dialled(e) == IF e = Host THEN HostStreams ELSE RunnerStreams


VARIABLES reg,      \* reg[e]: Mux.streams
          obj,      \* obj[e][s]: the stream objects, which outlive the map
          accept,   \* accept[e]: Mux.accept
          done,     \* done[e]: Mux.done and Mux.err
          pipe,     \* pipe[e]: what e has written and its peer has not read
          calls,    \* calls[e]: frames whose writeFrame has not returned
          reader,   \* reader[e]: the stream readLoop is writing a reset for
          held,     \* held[e]: connections Dial or Accept has returned
          sent, final, got, ended

vars == <<reg, obj, accept, done, pipe, calls, reader, held, sent, final, got, ended>>

Frame(t, s, k) == [type |-> t, id |-> s, unit |-> k]
NewStream == [buffer |-> <<>>, remote |-> FALSE, local |-> FALSE, err |-> "none"]

Init ==
  /\ reg = [e \in Ends |-> {}]
  /\ obj = [e \in Ends |-> [s \in Streams |-> NewStream]]
  /\ accept = [e \in Ends |-> <<>>]
  /\ done = [e \in Ends |-> "up"]
  /\ pipe = [e \in Ends |-> <<>>]
  /\ calls = [e \in Ends |-> {}]
  /\ reader = [e \in Ends |-> None]
  /\ held = [e \in Ends |-> {}]
  /\ sent = [e \in Ends |-> [s \in Streams |-> 0]]
  /\ final = [e \in Ends |-> [s \in Streams |-> FALSE]]
  /\ got = [e \in Ends |-> [s \in Streams |-> 0]]
  /\ ended = [e \in Ends |-> [s \in Streams |-> "open"]]

Frames == [type : {"open", "data", "close", "reset"}, id : Streams, unit : Nat]
Objects == [buffer : Seq(Nat), remote : BOOLEAN, local : BOOLEAN,
            err : {"none", "reset", "overflow", "down"}]

TypeOK ==
  /\ reg \in [Ends -> SUBSET Streams] /\ held \in [Ends -> SUBSET Streams]
  /\ \A e \in Ends : Cardinality(reg[e] \ Dialled(e)) <= MaxStreams
  /\ obj \in [Ends -> [Streams -> Objects]]
  /\ \A e \in Ends, s \in Streams : Len(obj[e][s].buffer) <= MaxBuffered
  /\ accept \in [Ends -> Seq(Streams)] /\ \A e \in Ends : Len(accept[e]) <= Backlog
  /\ pipe \in [Ends -> Seq(Frames)] /\ \A e \in Ends : Len(pipe[e]) <= PipeCap
  /\ calls \in [Ends -> SUBSET Frames]
  /\ done \in [Ends -> {"up", "eof", "closed"}]
  /\ reader \in [Ends -> Streams \cup {None}]
  /\ sent \in [Ends -> [Streams -> Nat]] /\ got \in [Ends -> [Streams -> Nat]]
  /\ final \in [Ends -> [Streams -> BOOLEAN]]
  /\ ended \in [Ends -> [Streams -> {"open", "eof", "error"}]]

Down(e) == done[e] # "up"
\* shutdown: the table is emptied and every stream in it learns why.
ShutDown(e, why) ==
  /\ ~Down(e)
  /\ done' = [done EXCEPT ![e] = why]
  /\ obj' = [obj EXCEPT ![e] = [s \in Streams |->
               IF s \in reg[e] THEN [@[s] EXCEPT !.remote = TRUE, !.err = "down"] ELSE @[s]]]

-----------------------------------------------------------------------------
(* The programs' calls.                                                      *)

\* DialContext: the id is taken and registered before the open frame is written.
Dial(e, s) ==
  /\ ~Down(e)
  /\ s \in Dialled(e) \ (reg[e] \cup held[e])
  /\ obj[e][s] = NewStream /\ s \notin {f.id : f \in calls[e]}
  /\ reg' = [reg EXCEPT ![e] = @ \cup {s}]
  /\ calls' = [calls EXCEPT ![e] = @ \cup {Frame("open", s, 0)}]
  /\ UNCHANGED <<obj, accept, done, pipe, reader, held, sent, final, got, ended>>

Spent ==
  LET At(e) == Cardinality({f \in calls[e] : f.type = "data"})
               + MapThenSumSet(LAMBDA s : sent[e][s], Streams)
  IN At(Host) + At(Runner) + Cardinality({e \in Ends : Down(e)})

\* stream.Write, one chunk: localClosed is read before the frame is written.
Write(e, s) ==
  /\ s \in held[e] /\ ~obj[e][s].local
  /\ Spent < MaxData
  /\ \A f \in calls[e] : f.id = s => f.type # "data"
  /\ calls' = [calls EXCEPT ![e] = @ \cup {Frame("data", s, sent[e][s] + 1)}]
  /\ UNCHANGED <<reg, obj, accept, done, pipe, reader, held, sent, final, got, ended>>

\* stream.Close: remoteClosed is read under the lock, the table is swept later.
Close(e, s) ==
  /\ s \in held[e] /\ ~obj[e][s].local
  /\ obj' = [obj EXCEPT ![e][s].local = TRUE]
  /\ calls' = [calls EXCEPT ![e] = @ \cup {Frame("close", s, IF obj[e][s].remote THEN 1 ELSE 0)}]
  /\ UNCHANGED <<reg, accept, done, pipe, reader, held, sent, final, got, ended>>

\* What the caller of writeFrame does when it returns; left is the table then.
\* A write that overlaps Close is not counted.
Returned(e, f, ok, left) ==
  /\ calls' = [calls EXCEPT ![e] = @ \ {f}]
  /\ reg' = [reg EXCEPT ![e] =
               IF (f.type = "open" /\ ~ok) \/ (f.type = "close" /\ f.unit = 1) THEN left \ {f.id} ELSE left]
  /\ held' = [held EXCEPT ![e] = IF f.type = "open" /\ ok THEN @ \cup {f.id} ELSE @]
  /\ sent' = [sent EXCEPT ![e][f.id] =
                IF f.type = "data" /\ ok /\ ~final[e][f.id] THEN @ + 1 ELSE @]
  /\ final' = [final EXCEPT ![e][f.id] = @ \/ (f.type = "close" /\ ok)]

WriteFrame(e, f) ==
  /\ f \in calls[e] /\ ~Down(e)
  /\ Len(pipe[e]) < PipeCap
  /\ pipe' = [pipe EXCEPT ![e] = Append(@, Frame(f.type, f.id, IF f.type = "data" THEN f.unit ELSE 0))]
  /\ Returned(e, f, TRUE, reg[e])
  /\ UNCHANGED <<obj, accept, done, reader, got, ended>>

WriteFails(e, f) ==
  /\ f \in calls[e]
  /\ \/ Down(e) /\ Returned(e, f, FALSE, reg[e]) /\ UNCHANGED <<obj, done>>
     \/ Down(Other(e)) /\ ShutDown(e, "closed") /\ Returned(e, f, FALSE, {})
  /\ UNCHANGED <<accept, pipe, reader, got, ended>>

Accept(e) ==
  /\ accept[e] # <<>>
  /\ held' = [held EXCEPT ![e] = @ \cup {Head(accept[e])}]
  /\ accept' = [accept EXCEPT ![e] = Tail(@)]
  /\ UNCHANGED <<reg, obj, done, pipe, calls, reader, sent, final, got, ended>>

\* stream.Read: what is buffered first.
ReadData(e, s) ==
  /\ s \in held[e] /\ ~obj[e][s].local /\ ended[e][s] = "open"
  /\ obj[e][s].buffer # <<>>
  /\ got' = [got EXCEPT ![e][s] = Head(obj[e][s].buffer)]
  /\ obj' = [obj EXCEPT ![e][s].buffer = Tail(@)]
  /\ UNCHANGED <<reg, accept, done, pipe, calls, reader, held, sent, final, ended>>

DrainedAnyway(o) == TRUE  \* Mutant: the end is reported before the rest of the buffer
Drained(o) == o.buffer = <<>>

\* The end of the pipe is io.EOF, and every stream of the table reports it as its own.
CloseError(e) == IF done[e] = "closed" THEN "error" ELSE "eof"
Result(e, o) == IF o.err \in {"reset", "overflow"} THEN "error"
                ELSE IF o.err = "down" THEN CloseError(e) ELSE "eof"

\* The reader finds the end behind the data, or it waits for data that comes together
\* with the end of the connection, and its select takes the latter.
ReadEnd(e, s) ==
  /\ s \in held[e] /\ ~obj[e][s].local /\ ended[e][s] = "open"
  /\ \/ /\ Drained(obj[e][s]) /\ obj[e][s].remote
        /\ ended' = [ended EXCEPT ![e][s] = Result(e, obj[e][s])]
     \/ Down(e) /\ ended' = [ended EXCEPT ![e][s] = CloseError(e)]
  /\ UNCHANGED <<reg, obj, accept, done, pipe, calls, reader, held, sent, final, got>>

-----------------------------------------------------------------------------
(* readLoop.                                                                 *)

Next1(e) == Head(pipe[Other(e)])
Takes(e, types) ==
  /\ ~Down(e) /\ reader[e] = None
  /\ pipe[Other(e)] # <<>> /\ Next1(e).type \in types
  /\ pipe' = [pipe EXCEPT ![Other(e)] = Tail(@)]

Refused(e) == Cardinality(reg[e]) >= MaxStreams \/ Len(accept[e]) >= Backlog

TakeOpen(e) ==
  /\ Takes(e, {"open"})
  /\ IF Refused(e)
     THEN /\ reader' = [reader EXCEPT ![e] = Next1(e).id]
          /\ UNCHANGED <<reg, accept>>
     ELSE /\ reg' = [reg EXCEPT ![e] = @ \cup {Next1(e).id}]
          /\ accept' = [accept EXCEPT ![e] = Append(@, Next1(e).id)]
          /\ UNCHANGED reader
  /\ UNCHANGED <<obj, done, calls, held, sent, final, got, ended>>

FullLate(o) == Len(o.buffer) > MaxBuffered  \* Mutant: the limit is tested without the new data
Full(o) == Len(o.buffer) + 1 > MaxBuffered

\* stream.receive
TakeData(e) ==
  LET s == Next1(e).id
      o == obj[e][s]
      live == s \in reg[e] /\ ~o.remote /\ ~o.local
  IN /\ Takes(e, {"data"})
     /\ obj' = IF ~live THEN obj
               ELSE IF Full(o) THEN [obj EXCEPT ![e][s].err = "overflow", ![e][s].remote = TRUE]
               ELSE [obj EXCEPT ![e][s].buffer = Append(@, Next1(e).unit)]
     /\ reader' = IF live /\ Full(o) THEN [reader EXCEPT ![e] = s] ELSE reader
     /\ UNCHANGED <<reg, accept, done, calls, held, sent, final, got, ended>>

SweepNot(e, s) == UNCHANGED reg  \* Mutant: only Close removes a stream
SweepOnRemote(e, s) == reg' = [reg EXCEPT ![e] = IF obj[e][s].local THEN @ \ {s} ELSE @]

\* stream.remoteClose, for a close frame and for a reset
TakeClose(e) ==
  LET s == Next1(e).id
      reset == Next1(e).type = "reset"
  IN /\ Takes(e, {"close", "reset"})
     /\ IF s \in reg[e]
        THEN /\ obj' = [obj EXCEPT ![e][s].remote = TRUE,
                                   ![e][s].err = IF reset THEN "reset" ELSE @]
             /\ SweepOnRemote(e, s)
        ELSE UNCHANGED <<obj, reg>>
     /\ UNCHANGED <<accept, done, calls, reader, held, sent, final, got, ended>>

\* Mutant: a refused stream is forgotten and the peer is not told
ForgetReset(e) ==
  /\ reader[e] # None
  /\ reader' = [reader EXCEPT ![e] = None]
  /\ UNCHANGED <<reg, obj, accept, done, pipe, calls, held, sent, final, got, ended>>

\* The reset that readLoop writes itself: it reads no frame meanwhile.
WriteReset(e) ==
  /\ reader[e] # None
  /\ reader' = [reader EXCEPT ![e] = None]
  /\ \/ Down(e) /\ UNCHANGED <<pipe, done, obj, reg>>
     \/ /\ ~Down(e) /\ Len(pipe[e]) < PipeCap
        /\ pipe' = [pipe EXCEPT ![e] = Append(@, Frame("reset", reader[e], 0))]
        /\ UNCHANGED <<done, obj, reg>>
     \/ /\ Down(Other(e)) /\ ShutDown(e, "closed")
        /\ reg' = [reg EXCEPT ![e] = {}]
        /\ UNCHANGED pipe
  /\ UNCHANGED <<accept, calls, held, sent, final, got, ended>>

\* Mux.Close, or the end of the process
CloseMux(e) ==
  /\ Spent < MaxData
  /\ ShutDown(e, "closed")
  /\ reg' = [reg EXCEPT ![e] = {}]
  /\ UNCHANGED <<accept, pipe, calls, reader, held, sent, final, got, ended>>

\* The peer's end of the pipe is closed, after a whole frame or inside one.
ReadEOF(e) ==
  /\ reader[e] = None /\ Down(Other(e)) /\ pipe[Other(e)] = <<>>
  /\ \E why \in {"eof", "closed"} : ShutDown(e, why)
  /\ reg' = [reg EXCEPT ![e] = {}]
  /\ UNCHANGED <<accept, pipe, calls, reader, held, sent, final, got, ended>>

-----------------------------------------------------------------------------
Reading(e) == TakeOpen(e) \/ TakeData(e) \/ TakeClose(e) \/ WriteReset(e) \/ ReadEOF(e)
Writing(e) == \E f \in calls[e] : WriteFrame(e, f) \/ WriteFails(e, f)
Using(e) == \/ \E s \in Streams : Dial(e, s) \/ Write(e, s) \/ Close(e, s)
            \/ CloseMux(e)
Receiving(e) == Accept(e) \/ \E s \in Streams : ReadData(e, s) \/ ReadEnd(e, s)

Next == \E e \in Ends : Reading(e) \/ Writing(e) \/ Using(e) \/ Receiving(e)
Spec == Init /\ [][Next]_vars

\* Goroutines run, a program reads what it holds; nothing is assumed of those that
\* dial, write and close.
Fairness == \A e \in Ends : /\ WF_vars(Reading(e)) /\ WF_vars(Writing(e))
                            /\ WF_vars(Receiving(e))
FairSpec == Spec /\ Fairness

-----------------------------------------------------------------------------
(* Each direction of each stream is a queue of its own: nothing is reordered, lost
   or repeated, and an end that is not the end of the connection comes after
   everything that was written before Close (stream.receive, Read, Close).   *)
Pairs == INSTANCE StreamPairs WITH lost <- [e \in Ends |-> Down(e)]
StreamsAreQueues == Pairs!PairsSpec

(* A stream that both ends have closed leaves the table, whoever was last: the
   table is limited to 256 streams, and a leak would end in refusals
   (stream.Close and remoteClose, which each read the other's flag).         *)
TableIsSwept ==
  \A e \in Ends : \A s \in reg[e] :
    obj[e][s].local /\ obj[e][s].remote => \E f \in calls[e] : f.id = s

(* The limits of a table, of Accept and of a buffer never hold up anything but
   the stream they refuse (readLoop's default branches and receive): again and
   again there is nothing written that has not been read, unless one of the two
   ends has given the stream up or is told.  There is one exception: both
   readers wait with a reset for room that only the other can make.          *)
MutualReset == \A e \in Ends : reader[e] # None /\ Len(pipe[e]) = PipeCap
GivenUp(e, s) == obj[e][s].local \/ ended[e][s] # "open"
AllRead ==
  \A e \in Ends, s \in Streams :
    got[Other(e)][s] = sent[e][s] \/ GivenUp(e, s) \/ GivenUp(Other(e), s)
DataArrives == []<>(AllRead \/ MutualReset)
=============================================================================
