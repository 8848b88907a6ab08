---------------------------- MODULE BrowserCache ----------------------------
(***************************************************************************)
(* The chats a browser has visited: useChat keeps the reduced state of    *)
(* each one, prepareChat fetches the state of a chat before it is shown   *)
(* for the first time (useDashboard.activateChat).  EventLog follows one  *)
(* chat; here its browsers may leave it for another one and come back,    *)
(* and a tab clicked twice has two snapshots on their way.                 *)
(***************************************************************************)
EXTENDS EventLog

CONSTANT MaxFetches  \* bound: snapshots requested by a browser

VARIABLES
  active,  \* the browsers that show the chat: activeChatId
  cache,   \* cache[c]: <<>>, or the reduced state useChat keeps of the chat
  asking,  \* asking[c]: snapshot requests not served yet
  answers, \* answers[c]: served and not received yet
  fetches  \* fetches[c]: requests made so far

cacheVars == <<active, cache, asking, answers, fetches>>
allVars   == <<vars, cacheVars>>

CacheInit ==
  /\ Init
  /\ active = {}
  /\ cache = [c \in Clients |-> <<>>]
  /\ asking = [c \in Clients |-> 0]
  /\ answers = [c \in Clients |-> <<>>]
  /\ fetches = [c \in Clients |-> 0]

-----------------------------------------------------------------------------
\* A state of the chat becomes the one on the screen.
Show(c, s) ==
  /\ active' = active \cup {c}
  /\ cseq' = [cseq EXCEPT ![c] = s.seq]
  /\ view' = [view EXCEPT ![c] = s.items]
  /\ ended' = [ended EXCEPT ![c] = s.ended]

\* prepareChat: a chat that is not in the cache is fetched first, and nothing
\* stops the user from clicking again meanwhile.
Prepare(c) ==
  /\ cache[c] = <<>>
  /\ fetches[c] < MaxFetches
  /\ fetches' = [fetches EXCEPT ![c] = @ + 1]
  /\ asking' = [asking EXCEPT ![c] = @ + 1]
  /\ UNCHANGED <<vars, active, cache, answers>>

\* handleGetChat: mustChat, then the snapshot under the lock.
ServeSnapshot(c) ==
  /\ asking[c] > 0
  /\ stage = "open"
  /\ asking' = [asking EXCEPT ![c] = @ - 1]
  /\ answers' = [answers EXCEPT ![c] =
                   Append(@, [seq |-> seq, items |-> timeline, ended |-> FALSE])]
  /\ UNCHANGED <<vars, active, cache, fetches>>

\* Mutant: the answer keeps the number the cache had.
PreparedHalf(c) ==
  \E i \in 1..Len(answers[c]) :
    LET s == answers[c][i]
        old == IF cache[c] = <<>> THEN s ELSE cache[c][1]
    IN /\ answers' = [answers EXCEPT ![c] =
                        SubSeq(@, 1, i - 1) \o SubSeq(@, i + 1, Len(@))]
       /\ cache' = [cache EXCEPT ![c] = <<[s EXCEPT !.seq = old.seq]>>]
       /\ IF c \in active THEN UNCHANGED <<active, clientVars>> ELSE Show(c, s)
       /\ UNCHANGED <<logVars, serveVars, inbox, losses, asking, fetches>>

\* ... and when an answer arrives, in whatever order, it replaces the cached
\* state.  The chat is activated, which changes nothing when it already is.
Prepared(c) ==
  \E i \in 1..Len(answers[c]) :
    LET s == answers[c][i]
    IN /\ answers' = [answers EXCEPT ![c] =
                        SubSeq(@, 1, i - 1) \o SubSeq(@, i + 1, Len(@))]
       /\ cache' = [cache EXCEPT ![c] = <<s>>]
       /\ IF c \in active THEN UNCHANGED <<active, clientVars>> ELSE Show(c, s)
       /\ UNCHANGED <<logVars, serveVars, inbox, losses, asking, fetches>>

\* A chat of the cache is shown at once.
Open(c) ==
  /\ c \notin active
  /\ cache[c] # <<>>
  /\ Show(c, cache[c][1])
  /\ UNCHANGED <<logVars, serveVars, inbox, losses, cache, asking, answers, fetches>>

\* A chat this browser has just created is shown without a snapshot.
OpenNew(c) ==
  /\ c \notin active
  /\ cache[c] = <<>>
  /\ fetches[c] = 0
  /\ Show(c, [seq |-> 0, items |-> <<>>, ended |-> FALSE])
  /\ UNCHANGED <<logVars, serveVars, inbox, losses, cache, asking, answers, fetches>>

\* Mutant: what waits for the next frame outlives the visit.
LeaveBatch(c) ==
  /\ c \in active
  /\ active' = active \ {c}
  /\ handler' = [handler EXCEPT ![c] = IF @ = "none" THEN @ ELSE "cut"]
  /\ UNCHANGED <<logVars, chan, asked, replay, inbox, clientVars, losses,
                 cache, asking, answers, fetches>>

\* The cleanup of the effect: the stream is closed, the batch is dropped.
Leave(c) ==
  /\ c \in active
  /\ active' = active \ {c}
  /\ handler' = [handler EXCEPT ![c] = IF @ = "none" THEN @ ELSE "cut"]
  /\ inbox' = [inbox EXCEPT ![c] = <<>>]
  /\ UNCHANGED <<logVars, chan, asked, replay, clientVars, losses,
                 cache, asking, answers, fetches>>

\* flush: the new state is also the cached one.
Flush(c) ==
  /\ c \in active
  /\ Reduce(c)
  /\ cache' = [cache EXCEPT ![c] =
                 <<[seq |-> cseq'[c], items |-> view'[c], ended |-> ended'[c]]>>]
  /\ UNCHANGED <<active, asking, answers, fetches>>

CacheNext ==
  \/ Chat /\ UNCHANGED cacheVars
  \/ \E c \in Clients :
       \/ Farewell(c) /\ UNCHANGED cacheVars
       \/ c \in active /\ Connect(c) /\ UNCHANGED cacheVars
       \/ Serve(c) /\ UNCHANGED cacheVars
       \/ c \in active /\ Disconnect(c) /\ UNCHANGED cacheVars
       \/ Prepare(c) \/ ServeSnapshot(c) \/ Prepared(c)
       \/ Open(c) \/ OpenNew(c) \/ Leave(c) \/ Flush(c)

CacheSpec == CacheInit /\ [][CacheNext]_allVars

-----------------------------------------------------------------------------
\* A browser that goes from one chat to another and back shows a true state of
\* the chat, and keeps one: its items are those up to its sequence number, so
\* that it can be shown and resumed from at any time (useChat.flush, prepareChat).
CacheIsPrefix ==
  /\ ViewIsPrefix
  /\ \A c \in Clients : cache[c] # <<>> =>
       cache[c][1].items = ItemsUpTo(cache[c][1].seq)
=============================================================================
