------------------------------- MODULE Attachments -------------------------------
(***************************************************************************)
(* The files of a message: a browser uploads them to the chat on its       *)
(* screen, lists what the server answered, and names them when it sends    *)
(* (useDashboard); the server keeps them with the chat until a message     *)
(* takes them (handleAttachment, takeAttachments, handleMessages).  The    *)
(* browser has one list, whichever chat it shows.  A file has the id its   *)
(* upload gets.  One batch of uploads is on its way at a time.  A request  *)
(* may fail on its way or lose its answer, and a chat may be disposed of.  *)
(***************************************************************************)
EXTENDS Naturals, FiniteSets

CONSTANTS Chats, Files,
          MaxPending,               \* uploads a chat keeps (maxAttachmentCount)
          MaxSends,                 \* bound: messages
          MaxActivations            \* bound: chats that are activated or disposed of

VARIABLES
  active,    \* the chat on the screen
  listed,    \* attachments
  busy,      \* busyAction: the composer is disabled
  batch,     \* the uploads of addAttachments
  deletes,   \* requests to delete an upload on their way
  sends,     \* requests to send on their way
  pending,   \* on the server: the uploads each chat keeps
  gone,      \* the chats that were disposed of
  uploaded,  \* files the browser has ever picked, and the chat of each
  messages,  \* those the chats accepted: what was named, and what came with it
  strayed,   \* the list may differ from the uploads of the chat (see Listed)
  sent, activations  \* counters of the bounds

attachmentVars == <<active, listed, busy, batch, deletes, sends, pending, gone, uploaded, messages,
                    strayed, sent, activations>>
serverVars == <<pending, gone, messages>>

NoBatch == [chat |-> CHOOSE c \in Chats : TRUE, todo |-> {}, done |-> {}, failed |-> {}]

Init ==
  /\ active = NoBatch.chat /\ listed = {} /\ busy = FALSE /\ batch = NoBatch /\ deletes = {}
  /\ sends = {} /\ pending = [c \in Chats |-> {}] /\ gone = {} /\ uploaded = {}
  /\ messages = {} /\ strayed = FALSE /\ sent = 0 /\ activations = 0

-----------------------------------------------------------------------------
(* Uploads.                                                                  *)

Picked == {u.file : u \in uploaded}

\* addAttachments: as many as the list has room for, each a request of its own.
Add(files) ==
  /\ ~busy /\ batch = NoBatch /\ busy' = TRUE
  /\ files # {} /\ files \cap Picked = {} /\ Cardinality(files) <= MaxPending - Cardinality(listed)
  /\ batch' = [chat |-> active, todo |-> files, done |-> {}, failed |-> {}]
  /\ uploaded' = uploaded \cup {[file |-> f, chat |-> active] : f \in files}
  /\ UNCHANGED <<active, listed, deletes, sends, serverVars, strayed, sent, activations>>

Answered(f) == batch' = [batch EXCEPT !.todo = @ \ {f}, !.done = @ \cup {f}]
Failed(f) == batch' = [batch EXCEPT !.todo = @ \ {f}, !.failed = @ \cup {f}]

\* handleAttachment: any file may be refused, the limit refuses, and the answer for a
\* file that is stored may be lost.
Store(f) ==
  /\ f \in batch.todo
  /\ \/ /\ Cardinality(pending[batch.chat]) < MaxPending
        /\ pending' = [pending EXCEPT ![batch.chat] = @ \cup {f}]
        /\ Answered(f) \/ Failed(f)
     \/ Failed(f) /\ UNCHANGED pending
  /\ UNCHANGED <<active, listed, busy, deletes, sends, gone, uploaded, messages, strayed, sent,
                 activations>>

\* All are answered, and listed - or one fails, and none is.
BatchEnds ==
  /\ batch # NoBatch /\ batch.todo = {} /\ batch' = NoBatch /\ busy' = FALSE
  /\ listed' = IF batch.failed = {} THEN listed \cup batch.done ELSE listed
  /\ strayed' = (strayed \/ batch.failed # {} \/ batch.chat # active)
  /\ UNCHANGED <<active, deletes, sends, serverVars, uploaded, sent, activations>>

\* Mutant: the server is not told.
RemoveHere(f) ==
  /\ f \in listed /\ listed' = listed \ {f}
  /\ UNCHANGED <<active, busy, batch, deletes, sends, serverVars, uploaded, strayed, sent, activations>>

\* removeAttachment: the server of the chat on the screen is told, and may not know it.
Remove(f) ==
  /\ f \in listed /\ listed' = listed \ {f}
  /\ deletes' = deletes \cup {[file |-> f, chat |-> active]}
  /\ UNCHANGED <<active, busy, batch, sends, serverVars, uploaded, strayed, sent, activations>>

\* handleDeleteAttachment, or a request that fails: the browser does not look at the
\* answer, and the chat keeps the upload.
Delete(d) ==
  /\ d \in deletes /\ deletes' = deletes \ {d}
  /\ \/ /\ pending' = [pending EXCEPT ![d.chat] = @ \ {d.file}]
        /\ UNCHANGED strayed
     \/ /\ strayed' = (strayed \/ d.file \in pending[d.chat])
        /\ UNCHANGED pending
  /\ UNCHANGED <<active, listed, busy, batch, sends, gone, messages, uploaded, sent, activations>>

-----------------------------------------------------------------------------
(* Sending.                                                                  *)

\* send: the composer is disabled meanwhile, unless another action has ended.
Send ==
  /\ ~busy /\ batch = NoBatch /\ sent < MaxSends /\ sent' = sent + 1 /\ busy' = TRUE
  /\ sends' = sends \cup {[n |-> sent, chat |-> active, files |-> listed, got |-> {}, at |-> "take"]}
  /\ UNCHANGED <<active, listed, batch, deletes, serverVars, uploaded, strayed, activations>>

TakePresent(s) ==  \* Mutant: what is missing is left out
  /\ pending' = [pending EXCEPT ![s.chat] = @ \ s.files]
  /\ sends' = (sends \ {s}) \cup {[s EXCEPT !.at = "deliver", !.got = s.files \cap pending[s.chat]]}

\* takeAttachments, under the lock of the chat: all of them or none
Take(s) ==
  IF s.files \subseteq pending[s.chat]
  THEN /\ pending' = [pending EXCEPT ![s.chat] = @ \ s.files]
       /\ sends' = (sends \ {s}) \cup {[s EXCEPT !.at = "deliver", !.got = s.files]}
  ELSE sends' = (sends \ {s}) \cup {[s EXCEPT !.at = "refused"]} /\ UNCHANGED pending

TakeAttachments(s) ==
  /\ s \in sends /\ s.at = "take" /\ Take(s)
  /\ UNCHANGED <<active, listed, busy, batch, deletes, gone, uploaded, messages, strayed, sent, activations>>

\* chat.Send, which may refuse the message, and does when the chat is closed; what was
\* taken does not come back.
Deliver(s) ==
  /\ s \in sends /\ s.at = "deliver"
  /\ \/ /\ s.chat \notin gone
        /\ messages' = messages \cup {[n |-> s.n, chat |-> s.chat, files |-> s.files, got |-> s.got]}
        /\ sends' = (sends \ {s}) \cup {[s EXCEPT !.at = "accepted"]}
        /\ UNCHANGED strayed
     \/ /\ sends' = (sends \ {s}) \cup {[s EXCEPT !.at = "refused"]}
        /\ strayed' = (strayed \/ s.files # {})
        /\ UNCHANGED messages
  /\ UNCHANGED <<active, listed, busy, batch, deletes, pending, gone, uploaded, sent, activations>>

\* The answer empties the list, with what has been added to it meanwhile; a message
\* that is refused, or whose answer is lost, leaves the list as it is.
SendEnds(s) ==
  /\ s \in sends /\ s.at \in {"accepted", "refused"} /\ sends' = sends \ {s} /\ busy' = FALSE
  /\ \/ /\ s.at = "accepted" /\ listed' = {}
        /\ strayed' = (strayed \/ ~(listed \subseteq s.files))
     \/ /\ strayed' = (strayed \/ (s.at = "accepted" /\ listed \cap s.files # {}))
        /\ UNCHANGED listed
  /\ UNCHANGED <<active, batch, deletes, serverVars, uploaded, sent, activations>>

-----------------------------------------------------------------------------
\* guard: the first action that ends enables the composer, also for those under way.
OtherActionEnds ==
  /\ busy /\ busy' = FALSE
  /\ UNCHANGED <<active, listed, batch, deletes, sends, serverVars, uploaded, strayed, sent, activations>>

\* disposeChat and liveChat.close: the uploads go.  A request that has found the chat
\* before goes on.
Dispose(c) ==
  /\ c \notin gone /\ gone' = gone \cup {c}
  /\ activations < MaxActivations /\ activations' = activations + 1
  /\ pending' = [pending EXCEPT ![c] = {}]
  /\ strayed' = (strayed \/ pending[c] # {})
  /\ UNCHANGED <<active, listed, busy, batch, deletes, sends, messages, uploaded, sent>>

\* activateChat keeps the list; clearChat empties it.
Activate(c, keep) ==
  /\ activations < MaxActivations /\ activations' = activations + 1
  /\ active' = c /\ IF c = active THEN ~keep ELSE c \notin gone
  /\ listed' = IF keep THEN listed ELSE {}
  /\ strayed' = (strayed \/ listed # {})
  /\ UNCHANGED <<busy, batch, deletes, sends, serverVars, uploaded, sent>>

Next ==
  \/ \E fs \in SUBSET Files : Add(fs)
  \/ \E f \in Files : Store(f) \/ Remove(f)
  \/ BatchEnds \/ Send \/ OtherActionEnds
  \/ \E d \in deletes : Delete(d)
  \/ \E s \in sends : TakeAttachments(s) \/ Deliver(s) \/ SendEnds(s)
  \/ \E c \in Chats : Dispose(c) \/ \E keep \in BOOLEAN : Activate(c, keep)

Spec == Init /\ [][Next]_attachmentVars

-----------------------------------------------------------------------------
(* A message that was accepted came with all the files it named, none of them came
   with another one, and all were uploaded to its chat - whatever was sent twice,
   removed or switched meanwhile (takeAttachments).                              *)
MessagesWhole ==
  \A m \in messages :
    /\ m.got = m.files
    /\ \A f \in m.files : [file |-> f, chat |-> m.chat] \in uploaded
    /\ \A o \in messages : o # m => o.files \cap m.files = {}

(* When nothing is on its way, what the browser lists is what the chat on the screen
   keeps: it can be sent, and nothing else uses up the limit.  What breaks this is
   noted in strayed, and is one of: a chat with files that is left or disposed of; an
   upload, a removal or a message with files that fails, or whose answer is lost; an
   upload that ends when another chat is on the screen; and files that were added
   while a message was sent (addAttachments, removeAttachment, send, liveChat.close). *)
Listed ==
  batch = NoBatch /\ deletes = {} /\ sends = {} /\ ~strayed => listed = pending[active]
=============================================================================
