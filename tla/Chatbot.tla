------------------------------ MODULE Chatbot ------------------------------
(***************************************************************************)
(* The WhatsApp chatbot: the inbound webhook (whatsapp.py), the background *)
(* task it queues for every fresh direct message (chatbot.process_inbound) *)
(* and the admin who takes threads over and releases them (threads.py).    *)
(*                                                                         *)
(* Tasks run concurrently, each in a session of its own.  A task decides   *)
(* on the thread row as it read it, then waits for the classifier and for  *)
(* the daemon, and commits last.  A commit writes the columns the task has *)
(* set, not the row it read.  The thread row is locked from the first      *)
(* flush of a task to its end: the insert of a new thread, or the autoflush*)
(* before the property query of a search reply.                            *)
(***************************************************************************)
EXTENDS Integers, FiniteSets

CONSTANTS
  Chats,            \* chat_jid
  Messages,         \* (chat_jid, message_id)
  Timestamps,       \* wa_timestamp, in seconds
  MinReplyInterval, \* chatbot_min_reply_interval_seconds
  MaxTasks,         \* background tasks that run at the same time
  MaxTime           \* bound: the clock stops here

ASSUME ChatbotAssumption ==
  /\ Timestamps \subseteq Nat \ {0}
  /\ MinReplyInterval \in Nat
  /\ MaxTasks \in Nat \ {0}
  /\ MaxTime \in Nat

VARIABLES
  now,              \* the clock
  chatbot_enabled,  \* the committed bot_config row
  thread,           \* the committed whatsapp_threads rows
  message,          \* the committed whatsapp_messages rows
  task,             \* the background task of every message
  replies,          \* history: how many direct messages went out in answer to it
  promised          \* history: chats told that a human will answer, not yet released

vars == <<now, chatbot_enabled, thread, message, task, replies, promised>>

-----------------------------------------------------------------------------
Never == -1

Thread ==
  [ exists : BOOLEAN, mode : {"bot", "human"},
    last_processed_wa_ts : {0} \cup Timestamps,   \* 0: none, or an old one
    last_bot_reply_at : {Never} \cup 0 .. MaxTime ]

\* Media stands for every message without text.
Message == [chat : Chats, wa_timestamp : Timestamps, kind : {"text", "media"}]
NoMessage == [chat |-> "none"]

\* The awaits of process_inbound, and how it ends: "beaten" and "failed" by an
\* exception, which is logged (of the insert of a thread that is there by now,
\* of an answer of the classifier that cannot be used), "lost" with the
\* instance that runs it.
Running == {"config", "missing", "classify", "match", "send", "commit"}
Ended == {"done", "beaten", "failed", "lost"}

\* start    the time process_inbound took on entry
\* enabled  chatbot_enabled as it read it
\* held     it has inserted or updated the thread row, and locks it
\* handoff  it has set mode to HUMAN
\* replied  the last_bot_reply_at it has set
\* sent     history: when a reply of it went out, acknowledged or not
\* before   history: the tasks of its chat that were done when it began
Task ==
  [ phase : {"none", "queued"} \cup Running \cup Ended,
    start : 0 .. MaxTime, enabled : BOOLEAN, held : BOOLEAN,
    handoff : BOOLEAN, replied : {Never} \cup 0 .. MaxTime,
    sent : {Never} \cup 0 .. MaxTime, before : SUBSET Messages ]

NoTask == [ phase |-> "none", start |-> 0, enabled |-> FALSE, held |-> FALSE,
            handoff |-> FALSE, replied |-> Never, sent |-> Never, before |-> {} ]

NoThread == [ exists |-> FALSE, mode |-> "bot", last_processed_wa_ts |-> 0,
              last_bot_reply_at |-> Never ]

NewThread == [NoThread EXCEPT !.exists = TRUE]

In(m, phase) == task[m].phase = phase
InFlight == { m \in Messages : task[m].phase \in Running }

Become(m, t) ==
  /\ task' = [task EXCEPT ![m] = t]
  /\ UNCHANGED <<now, chatbot_enabled, thread, message, replies, promised>>

\* The task is over, and its session with it; what it sent is not unsent.
Over(t, phase) ==
  [NoTask EXCEPT !.phase = phase, !.replied = t.replied, !.sent = t.sent,
                 !.before = IF phase \in {"failed", "lost"} /\ t.sent = Never THEN {} ELSE t.before]

\* The tasks of chat c that are done, and those whose reply their commit has recorded.
Done(c) == { m \in Messages : message[m].chat = c /\ In(m, "done") }
Recorded(c) == { m \in Done(c) : task[m].replied # Never }

RowFree(c, m) ==
  \A n \in Messages \ {m} : ~ (task[n].held /\ message[n].chat = c)

-----------------------------------------------------------------------------
(* The webhook.                                                            *)

\* A fresh message is committed, then its task is queued.
inbound_message(m, row) ==
  /\ In(m, "none")
  /\ message' = [message EXCEPT ![m] = row]
  /\ task' = [task EXCEPT ![m].phase = "queued"]
  /\ UNCHANGED <<now, chatbot_enabled, thread, replies, promised>>

\* A bug: a message the table already holds is queued again.
Bug_redelivered(m) ==
  /\ task[m].phase \in Ended
  /\ Become(m, [NoTask EXCEPT !.phase = "queued"])

\* ON CONFLICT DO NOTHING: a message pushed again has no effect.
redelivered(m) ==
  /\ ~ In(m, "none")
  /\ UNCHANGED vars

-----------------------------------------------------------------------------
(* process_inbound.                                                        *)

ReadConfig(m) ==
  /\ In(m, "queued")
  /\ Cardinality(InFlight) < MaxTasks
  /\ Become(m, [task[m] EXCEPT !.phase = "config", !.start = now,
                               !.enabled = chatbot_enabled,
                               !.before = Done(message[m].chat)])

\* A bug: the watermark is not looked at.
Bug_already_processed(m, th) == FALSE

already_processed(m, th) == message[m].wa_timestamp <= th.last_processed_wa_ts

\* A bug: no rate limit.
Bug_within_rate_limit(t, th) == FALSE

within_rate_limit(t, th) ==
  /\ th.last_bot_reply_at # Never
  /\ t.start - th.last_bot_reply_at < MinReplyInterval

Silent(t, th) == ~ t.enabled \/ th.mode = "human" \/ within_rate_limit(t, th)

\* What task t of message m does next, having found the thread row th.
Decide(m, t, th) ==
  \/ /\ already_processed(m, th)
     /\ Become(m, Over(t, "done"))
  \/ /\ ~ already_processed(m, th)
     /\ Silent(t, th)
     /\ Become(m, [t EXCEPT !.phase = "commit"])
  \/ /\ ~ already_processed(m, th) /\ ~ Silent(t, th)
     /\ message[m].kind = "media"
     /\ Become(m, [t EXCEPT !.phase = "send", !.handoff = TRUE])
  \/ /\ ~ already_processed(m, th) /\ ~ Silent(t, th)
     /\ message[m].kind = "text"
     /\ Become(m, [t EXCEPT !.phase = "classify"])

ReadThread(m) ==
  LET th == thread[message[m].chat]
  IN  /\ In(m, "config")
      /\ \/ th.exists /\ Decide(m, task[m], th)
         \/ ~ th.exists /\ Become(m, [task[m] EXCEPT !.phase = "missing"])

\* The insert waits for a concurrent one to end.
CreateThread(m) ==
  LET c == message[m].chat
  IN  /\ In(m, "missing")
      /\ ~ thread[c].exists /\ RowFree(c, m)
      /\ Decide(m, [task[m] EXCEPT !.held = TRUE], NewThread)

\* A bug: the insert goes on waiting.
Bug_ThreadExists(m) == FALSE /\ UNCHANGED vars

\* The unique constraint on chat_jid; _dispatch_chatbot logs the exception.
ThreadExists(m) ==
  /\ In(m, "missing")
  /\ thread[message[m].chat].exists
  /\ Become(m, Over(task[m], "beaten"))

classify_message(m) ==
  /\ In(m, "classify")
  /\ \/ Become(m, [task[m] EXCEPT !.phase = "match"])                    \* SEARCH
     \/ Become(m, [task[m] EXCEPT !.phase = "send"])                     \* GREETING
     \/ Become(m, [task[m] EXCEPT !.phase = "send", !.handoff = TRUE])   \* QUESTION, OTHER
     \/ Become(m, [task[m] EXCEPT !.phase = "commit", !.handoff = TRUE]) \* None
     \/ Become(m, Over(task[m], "failed"))              \* intent, language or criteria of another type

\* The property query of a search reply, and the autoflush before it.
match_properties(m) ==
  /\ In(m, "match")
  /\ RowFree(message[m].chat, m)
  /\ Become(m, [task[m] EXCEPT !.phase = "send", !.held = TRUE])

\* The daemon has sent the message; its answer may not arrive in time.
DirectMessageSent(m) ==
  /\ In(m, "send")
  /\ replies' = [replies EXCEPT ![m] = @ + 1]
  /\ promised' = IF task[m].handoff THEN promised \cup {message[m].chat} ELSE promised
  /\ \E acknowledged \in BOOLEAN :
       task' = [task EXCEPT ![m].phase = "commit", ![m].sent = now,
                            ![m].replied = IF acknowledged THEN now ELSE Never]
  /\ UNCHANGED <<now, chatbot_enabled, thread, message>>

\* No phone number, no daemon, or an error from it.
DirectMessageFails(m) ==
  /\ In(m, "send")
  /\ Become(m, [task[m] EXCEPT !.phase = "commit"])

\* A bug: only a message that was answered is marked processed.
Bug_Written(m) ==
  LET th == thread[message[m].chat]
  IN  [ exists |-> TRUE,
        mode |-> IF task[m].handoff THEN "human" ELSE th.mode,
        last_processed_wa_ts |-> IF task[m].replied = Never THEN th.last_processed_wa_ts
                                 ELSE message[m].wa_timestamp,
        last_bot_reply_at |-> IF task[m].replied = Never THEN th.last_bot_reply_at
                              ELSE task[m].replied ]

\* A bug: a handover counts only when its notice was acknowledged.
Bug_WrittenHandoff(m) ==
  LET th == thread[message[m].chat]
  IN  [ exists |-> TRUE,
        mode |-> IF task[m].handoff /\ task[m].replied # Never THEN "human" ELSE th.mode,
        last_processed_wa_ts |-> message[m].wa_timestamp,
        last_bot_reply_at |-> IF task[m].replied = Never THEN th.last_bot_reply_at
                              ELSE task[m].replied ]

\* A bug: the whole row is written, as the task found it (not in HUMAN mode).
Bug_WrittenMode(m) ==
  [ exists |-> TRUE,
    mode |-> IF task[m].handoff THEN "human" ELSE "bot",
    last_processed_wa_ts |-> message[m].wa_timestamp,
    last_bot_reply_at |-> task[m].replied ]

\* The thread row after the commit: the columns the task has set.
Written(m) ==
  LET th == thread[message[m].chat]
  IN  [ exists |-> TRUE,
        mode |-> IF task[m].handoff THEN "human" ELSE th.mode,
        last_processed_wa_ts |-> message[m].wa_timestamp,
        last_bot_reply_at |-> IF task[m].replied = Never THEN th.last_bot_reply_at
                              ELSE task[m].replied ]

CommitTask(m) ==
  LET c == message[m].chat
  IN  /\ In(m, "commit")
      /\ RowFree(c, m)
      /\ thread' = [thread EXCEPT ![c] = Written(m)]
      /\ task' = [task EXCEPT ![m] = Over(@, "done")]
      /\ UNCHANGED <<now, chatbot_enabled, message, replies, promised>>

\* The instance is stopped or the session fails; nothing runs the task again.
Crash(m) ==
  /\ task[m].phase \in {"queued"} \cup Running
  /\ Become(m, [Over(task[m], "lost") EXCEPT !.handoff = task[m].handoff])

-----------------------------------------------------------------------------
(* The admin.  What update_thread does between its read and its commit     *)
(* cannot be told from doing it at once: it writes mode, and only when it  *)
(* read the other one.                                                     *)

update_thread(c, mode) ==
  /\ thread[c].exists
  /\ \A n \in Messages : ~ (task[n].held /\ message[n].chat = c)
  /\ thread' = [thread EXCEPT ![c].mode = mode]
  /\ promised' = IF mode = "bot" THEN promised \ {c} ELSE promised
  /\ UNCHANGED <<now, chatbot_enabled, message, task, replies>>

update_bot_config ==
  /\ chatbot_enabled' = ~ chatbot_enabled
  /\ UNCHANGED <<now, thread, message, task, replies, promised>>

Tick ==
  /\ now < MaxTime
  /\ now' = now + 1
  /\ UNCHANGED <<chatbot_enabled, thread, message, task, replies, promised>>

Init ==
  /\ now = 0
  /\ chatbot_enabled \in BOOLEAN
  /\ thread \in [Chats -> {NoThread, NewThread}]   \* new chats and old ones
  /\ message = [m \in Messages |-> NoMessage]
  /\ task = [m \in Messages |-> NoTask]
  /\ replies = [m \in Messages |-> 0]
  /\ promised = {}

Step(m) ==
  \/ ReadConfig(m) \/ ReadThread(m) \/ CreateThread(m) \/ ThreadExists(m)
  \/ classify_message(m) \/ match_properties(m)
  \/ DirectMessageSent(m) \/ DirectMessageFails(m)
  \/ CommitTask(m)

Next ==
  \/ \E m \in Messages :
       \/ \E row \in Message : inbound_message(m, row)
       \/ redelivered(m)
       \/ Step(m)
       \/ Crash(m)
  \/ \E c \in Chats, mode \in {"bot", "human"} : update_thread(c, mode)
  \/ update_bot_config
  \/ Tick

Spec == Init /\ [][Next]_vars

\* The event loop runs a queued task, the classifier and the daemon answer or
\* time out (20 s and 30 s), and PostgreSQL serves lock waiters in turn.
FairSpec == Spec /\ \A m \in Messages : SF_vars(Step(m))

-----------------------------------------------------------------------------
(* What holds however the tasks overlap.                                   *)

TypeOK ==
  /\ now \in 0 .. MaxTime
  /\ chatbot_enabled \in BOOLEAN
  /\ thread \in [Chats -> Thread]
  /\ message \in [Messages -> Message \cup {NoMessage}]
  /\ task \in [Messages -> Task]
  /\ replies \in [Messages -> Nat]
  /\ promised \subseteq Chats

\* However often a message is delivered, and wherever its task is stopped,
\* at most one answer to it goes out (chatbot.py:378).
AtMostOneReply == \A m \in Messages : replies[m] <= 1

\* enums.py:56: a thread "flips back to BOT only when an admin" releases
\* it: no task, however late it commits, writes back the mode it read.
TakeoverSticks ==
  [][\A c \in Chats :
       thread[c].mode = "human" /\ thread'[c].mode = "bot"
         => update_thread(c, "bot")]_vars

\* chatbot.py:14: a lead who was told that a human takes over is in human
\* hands until the admin releases the thread, or the task that told it has yet
\* to commit, or was stopped between the two.
PromiseKept ==
  \A c \in promised :
    \/ thread[c].mode = "human"
    \/ \E m \in Messages : /\ message[m].chat = c /\ replies[m] > 0 /\ task[m].handoff
                            /\ task[m].phase \in {"commit", "lost"}

\* Of some tasks of its chat, each was done before m began, or began after m was done.
Apart(m, others) == \A k \in others \ {m} : k \in task[m].before \/ m \in task[k].before

\* chatbot.py:11, as far as the code keeps it: once a reply is recorded, no
\* task of the chat that begins after that sends anything, acknowledged or
\* not, before an interval has passed, however many tasks run, fail or are
\* stopped meanwhile.  Not covered: the reply of a task that began before, and
\* a reply that was never recorded or whose task overlapped another recorded
\* one, whose later commit may put an older time over a newer.
RateLimited ==
  \A m, n \in Messages :
    /\ m \in Recorded(message[n].chat) /\ m \in task[n].before
    /\ Apart(m, Recorded(message[m].chat))
    /\ task[n].sent # Never
    => task[n].sent - task[m].replied >= MinReplyInterval

\* chatbot.py:18: the watermark always advances, in whatever order the messages
\* of a chat come in, unless a task commits and another of the chat has been done
\* since it began.
WatermarkAdvances ==
  [][\A c \in Chats :
       \/ thread'[c].last_processed_wa_ts >= thread[c].last_processed_wa_ts
       \/ \E m \in Done(c)' \ Done(c) : Done(c) \ task[m].before # {}]_vars

Marked(m) == already_processed(m, thread[message[m].chat])

\* chatbot.py:400: "even the no-op paths still mark the message processed": the
\* message of a task that is done is marked, and stays so whatever the tasks after
\* it do, unless it overlapped another that is done.
MarkedProcessed ==
  \A m \in Messages : In(m, "done") /\ Apart(m, Done(message[m].chat)) => Marked(m)

\* Every message the webhook has stored is dealt with, unless its task is
\* stopped: no task waits for ever on the thread row.
TasksEnd == \A m \in Messages : In(m, "queued") ~> task[m].phase \in Ended

-----------------------------------------------------------------------------
(* What chatbot.py says of a burst, and overlapping tasks do not keep.     *)

\* chatbot.py:356: "Per-thread limit keeps us out of spam-band territory when a
\* user sends a burst of messages": also when the tasks of two messages of a
\* chat overlap, their recorded replies are an interval apart.
BurstRateLimited ==
  \A c \in Chats : \A m, n \in Recorded(c) :
    m # n /\ task[m].replied <= task[n].replied
      => task[n].replied - task[m].replied >= MinReplyInterval
=============================================================================
