--------------------------- MODULE ChatbotProofs ---------------------------
(***************************************************************************)
(* For every set of chats and messages, any number of concurrent tasks and *)
(* any timing: the chatbot is type correct, answers a message at most      *)
(* once, hands no thread back to itself and keeps the promise of a         *)
(* handover, and sends nothing within an interval of a reply recorded      *)
(* before.  The message of a task that is done is marked, and the          *)
(* watermark falls only at a commit that overlaps another.                 *)
(***************************************************************************)
EXTENDS Chatbot, TLAPS

\* A message is stored before its task runs, and nothing has gone out for it
\* before the task has come to its send, which it reaches once.
Fresh == {"none", "queued", "config", "missing", "classify", "match", "send"}

TaskInv ==
  \A m \in Messages :
    /\ task[m].phase # "none" => message[m] \in Message
    /\ task[m].phase \in Fresh => replies[m] = 0
    /\ replies[m] <= 1

IInv == TypeOK /\ TaskInv

-----------------------------------------------------------------------------
LEMMA RecordsOK ==
  /\ NoTask \in Task
  /\ NoThread \in Thread /\ NewThread \in Thread
<1>1. NoTask \in Task
  <2>1. 0 \in 0 .. MaxTime
    BY ChatbotAssumption
  <2>2. QED
    BY <2>1 DEF NoTask, Task
<1>2. NoThread \in Thread
  BY DEF NoThread, Thread
<1>3. NewThread \in Thread
  BY <1>2 DEF NewThread, NoThread, Thread
<1>4. QED
  BY <1>1, <1>2, <1>3

LEMMA DoneOK ==
  \A c : /\ Done(c) \subseteq Messages
         /\ \A x : x \in Recorded(c) <=> x \in Done(c) /\ task[x].replied # Never
BY DEF Done, Recorded

LEMMA InitIInv == ASSUME Init PROVE IInv
<1>1. TypeOK
  BY RecordsOK, ChatbotAssumption DEF Init, TypeOK
<1>2. TaskInv
  BY DEF Init, TaskInv, NoTask
<1>3. QED
  BY <1>1, <1>2 DEF IInv

\* A task that sends nothing moves on, backwards never.
LEMMA BecomeKeepsIInv ==
  ASSUME IInv, NEW m \in Messages, NEW t \in Task, Become(m, t),
         t.phase # "none" => message[m] \in Message,
         t.phase \in Fresh => task[m].phase \in Fresh
  PROVE  IInv'
<1>1. TypeOK'
  BY DEF IInv, TypeOK, Become
<1>2. TaskInv'
  <2> SUFFICES ASSUME NEW n \in Messages
               PROVE  /\ task'[n].phase # "none" => message'[n] \in Message
                      /\ task'[n].phase \in Fresh => replies'[n] = 0
                      /\ replies'[n] <= 1
    BY DEF TaskInv
  <2>1. task'[n] = IF n = m THEN t ELSE task[n]
    BY DEF IInv, TypeOK, Become
  <2>2. UNCHANGED <<message, replies>>
    BY DEF Become
  <2>3. QED
    BY <2>1, <2>2 DEF IInv, TaskInv
<1>3. QED
  BY <1>1, <1>2 DEF IInv

LEMMA OverOK ==
  ASSUME NEW t \in Task, NEW phase \in Ended
  PROVE  Over(t, phase) \in Task /\ Over(t, phase).phase = phase
<1>1. phase \in {"none", "queued"} \cup Running \cup Ended
  OBVIOUS
<1>2. /\ t.replied \in {Never} \cup 0 .. MaxTime /\ t.sent \in {Never} \cup 0 .. MaxTime
      /\ t.before \in SUBSET Messages
  BY DEF Task
<1>3. QED
  BY <1>1, <1>2, RecordsOK DEF Over, NoTask, Task

\* Whatever the thread row says, the task goes forward or ends.
LEMMA DecideKeepsIInv ==
  ASSUME IInv, NEW m \in Messages, NEW t \in Task, NEW th, Decide(m, t, th),
         task[m].phase \in {"config", "missing"}
  PROVE  IInv'
<1>1. message[m] \in Message /\ task[m].phase \in Fresh
  BY DEF IInv, TaskInv, Fresh
<1>2. CASE Become(m, Over(t, "done"))
  <2>1. Over(t, "done") \in Task /\ Over(t, "done").phase \notin Fresh
    BY OverOK DEF Ended, Fresh
  <2>2. QED
    BY <1>1, <1>2, <2>1, BecomeKeepsIInv
<1>3. ASSUME NEW phase \in {"commit", "send", "classify"}, NEW handoff \in BOOLEAN,
             Become(m, [t EXCEPT !.phase = phase, !.handoff = handoff])
      PROVE  IInv'
  <2>1. [t EXCEPT !.phase = phase, !.handoff = handoff] \in Task
    BY DEF Task, Running
  <2>2. QED
    BY <1>1, <1>3, <2>1, BecomeKeepsIInv
<1>4. [t EXCEPT !.phase = "commit"] = [t EXCEPT !.phase = "commit", !.handoff = t.handoff]
      /\ [t EXCEPT !.phase = "classify"] = [t EXCEPT !.phase = "classify", !.handoff = t.handoff]
      /\ t.handoff \in BOOLEAN
  BY DEF Task
<1>5. QED
  BY <1>2, <1>3, <1>4 DEF Decide

\* The webhook queues the task of a message it stores.
LEMMA InboundKeepsIInv ==
  ASSUME IInv, NEW m \in Messages, NEW row \in Message, inbound_message(m, row)
  PROVE  IInv'
<1>1. /\ message' = [message EXCEPT ![m] = row]
      /\ task' = [task EXCEPT ![m].phase = "queued"]
      /\ UNCHANGED <<now, chatbot_enabled, thread, replies, promised>>
      /\ task[m].phase = "none"
  BY DEF inbound_message, In
<1>2. [task[m] EXCEPT !.phase = "queued"] \in Task
  BY DEF IInv, TypeOK, Task
<1>3. TypeOK'
  BY <1>1, <1>2 DEF IInv, TypeOK
<1>4. TaskInv'
  <2> SUFFICES ASSUME NEW n \in Messages
               PROVE  /\ task'[n].phase # "none" => message'[n] \in Message
                      /\ task'[n].phase \in Fresh => replies'[n] = 0
                      /\ replies'[n] <= 1
    BY DEF TaskInv
  <2>1. CASE n = m
    BY <1>1, <2>1 DEF IInv, TypeOK, TaskInv, Fresh
  <2>2. CASE n # m
    <3>1. task'[n] = task[n] /\ message'[n] = message[n] /\ replies'[n] = replies[n]
      BY <1>1, <2>2 DEF IInv, TypeOK
    <3>2. QED
      BY <3>1 DEF IInv, TaskInv
  <2>3. QED
    BY <2>1, <2>2
<1>5. QED
  BY <1>3, <1>4 DEF IInv

\* The only step at which a direct message goes out leaves the send behind.
LEMMA SentKeepsIInv ==
  ASSUME IInv, NEW m \in Messages, DirectMessageSent(m)
  PROVE  IInv'
<1>1. PICK acknowledged \in BOOLEAN :
        task' = [task EXCEPT ![m].phase = "commit", ![m].sent = now,
                             ![m].replied = IF acknowledged THEN now ELSE Never]
  BY DEF DirectMessageSent
<1>2. /\ task[m].phase = "send" /\ message[m] \in Message
      /\ replies' = [replies EXCEPT ![m] = @ + 1]
      /\ UNCHANGED <<now, chatbot_enabled, thread, message>>
  BY DEF DirectMessageSent, In, IInv, TaskInv
<1>3. promised' \subseteq Chats
  BY <1>2 DEF DirectMessageSent, IInv, TypeOK, Message
<1>4. task' \in [Messages -> Task] /\ task'[m].phase = "commit"
  <2> DEFINE t == [task[m] EXCEPT !.phase = "commit", !.sent = now,
                                  !.replied = IF acknowledged THEN now ELSE Never]
  <2>1. t \in Task /\ t.phase = "commit"
    <3>1. /\ task[m] \in Task /\ now \in {Never} \cup 0 .. MaxTime
          /\ (IF acknowledged THEN now ELSE Never) \in {Never} \cup 0 .. MaxTime
      BY DEF IInv, TypeOK
    <3>2. QED
      BY <3>1 DEF Task, Running
  <2>2. task' = [task EXCEPT ![m] = t]
    BY <1>1 DEF IInv, TypeOK
  <2>3. QED
    BY <2>1, <2>2 DEF IInv, TypeOK
<1>5. TypeOK'
  <2>1. replies' \in [Messages -> Nat]
    BY <1>2 DEF IInv, TypeOK
  <2>2. QED
    BY <1>2, <1>3, <1>4, <2>1 DEF IInv, TypeOK
<1>6. TaskInv'
  <2> SUFFICES ASSUME NEW n \in Messages
               PROVE  /\ task'[n].phase # "none" => message'[n] \in Message
                      /\ task'[n].phase \in Fresh => replies'[n] = 0
                      /\ replies'[n] <= 1
    BY DEF TaskInv
  <2>1. CASE n = m
    BY <1>2, <1>4, <2>1 DEF IInv, TypeOK, TaskInv, Fresh
  <2>2. CASE n # m
    <3>1. task'[n] = task[n] /\ message'[n] = message[n] /\ replies'[n] = replies[n]
      BY <1>1, <1>2, <2>2 DEF IInv, TypeOK
    <3>2. QED
      BY <3>1 DEF IInv, TaskInv
  <2>3. QED
    BY <2>1, <2>2
<1>7. QED
  BY <1>5, <1>6 DEF IInv

\* The commit writes a well-formed row, and ends the task.
LEMMA CommitKeepsIInv ==
  ASSUME IInv, NEW m \in Messages, CommitTask(m)
  PROVE  IInv'
<1>1. /\ thread' = [thread EXCEPT ![message[m].chat] = Written(m)]
      /\ task' = [task EXCEPT ![m] = Over(task[m], "done")]
      /\ UNCHANGED <<now, chatbot_enabled, message, replies, promised>>
      /\ message[m] \in Message /\ task[m] \in Task
  BY DEF CommitTask, In, IInv, TypeOK, TaskInv
<1>2. Over(task[m], "done") \in Task /\ Over(task[m], "done").phase = "done"
  BY <1>1, OverOK DEF Ended
<1>3. Written(m) \in Thread
  BY <1>1 DEF IInv, TypeOK, Written, Thread, Task, Message
<1>4. TypeOK'
  BY <1>1, <1>2, <1>3 DEF IInv, TypeOK, Message
<1>5. TaskInv'
  <2>1. \A n \in Messages : task'[n] = IF n = m THEN Over(task[m], "done") ELSE task[n]
    BY <1>1 DEF IInv, TypeOK
  <2>2. QED
    BY <1>1, <1>2, <2>1 DEF IInv, TaskInv, Fresh
<1>6. QED
  BY <1>4, <1>5 DEF IInv

\* One step of a task.
LEMMA StepKeepsIInv ==
  ASSUME IInv, NEW m \in Messages, Step(m) \/ Crash(m)
  PROVE  IInv'
<1>1. task[m] \in Task /\ now \in 0 .. MaxTime /\ chatbot_enabled \in BOOLEAN
  BY DEF IInv, TypeOK
<1>2. task[m].phase # "none" => message[m] \in Message
  BY DEF IInv, TaskInv
<1>3. CASE ReadConfig(m)
  <2>1. [task[m] EXCEPT !.phase = "config", !.start = now, !.enabled = chatbot_enabled,
                             !.before = Done(message[m].chat)] \in Task
    BY <1>1, DoneOK DEF Task, Running
  <2>2. QED
    BY <1>2, <1>3, <2>1, BecomeKeepsIInv DEF ReadConfig, In, Fresh
<1>4. CASE ReadThread(m)
  <2>1. [task[m] EXCEPT !.phase = "missing"] \in Task
    BY <1>1 DEF Task, Running
  <2>2. CASE Become(m, [task[m] EXCEPT !.phase = "missing"])
    BY <1>2, <1>4, <2>1, <2>2, BecomeKeepsIInv DEF ReadThread, In, Fresh
  <2>3. CASE Decide(m, task[m], thread[message[m].chat])
    BY <1>1, <1>4, <2>3, DecideKeepsIInv DEF ReadThread, In
  <2>4. QED
    BY <1>4, <2>2, <2>3 DEF ReadThread
<1>5. CASE CreateThread(m)
  <2>1. [task[m] EXCEPT !.held = TRUE] \in Task
    BY <1>1 DEF Task
  <2>2. QED
    BY <1>5, <2>1, DecideKeepsIInv DEF CreateThread, In
<1>6. CASE ThreadExists(m)
  <2>1. Over(task[m], "beaten") \in Task /\ Over(task[m], "beaten").phase = "beaten"
    BY <1>1, OverOK DEF Ended
  <2>2. QED
    BY <1>2, <1>6, <2>1, BecomeKeepsIInv DEF ThreadExists, In, Fresh
<1>7. CASE classify_message(m)
  <2>1. task[m].phase = "classify" /\ task[m].handoff \in BOOLEAN
    BY <1>1, <1>7 DEF classify_message, In, Task
  <2>2. CASE Become(m, Over(task[m], "failed"))
    <3>1. Over(task[m], "failed") \in Task /\ Over(task[m], "failed").phase = "failed"
      BY <1>1, OverOK DEF Ended
    <3>2. QED
      BY <1>2, <2>1, <2>2, <3>1, BecomeKeepsIInv DEF Fresh
  <2>3. ASSUME NEW phase \in {"match", "send", "commit"}, NEW handoff \in BOOLEAN,
               Become(m, [task[m] EXCEPT !.phase = phase, !.handoff = handoff])
        PROVE  IInv'
    <3>1. [task[m] EXCEPT !.phase = phase, !.handoff = handoff] \in Task
      BY <1>1 DEF Task, Running
    <3>2. QED
      BY <1>2, <2>1, <2>3, <3>1, BecomeKeepsIInv DEF Fresh
  <2>4. \A phase : [task[m] EXCEPT !.phase = phase]
                     = [task[m] EXCEPT !.phase = phase, !.handoff = task[m].handoff]
    BY <1>1 DEF Task
  <2>5. QED
    BY <1>7, <2>1, <2>2, <2>3, <2>4 DEF classify_message
<1>8. CASE match_properties(m)
  <2>1. [task[m] EXCEPT !.phase = "send", !.held = TRUE] \in Task
    BY <1>1 DEF Task, Running
  <2>2. QED
    BY <1>2, <1>8, <2>1, BecomeKeepsIInv DEF match_properties, In, Fresh
<1>9. CASE DirectMessageSent(m)
  BY <1>9, SentKeepsIInv
<1>10. CASE DirectMessageFails(m)
  <2>1. [task[m] EXCEPT !.phase = "commit"] \in Task
    BY <1>1 DEF Task, Running
  <2>2. QED
    BY <1>2, <1>10, <2>1, BecomeKeepsIInv DEF DirectMessageFails, In, Fresh
<1>11. CASE CommitTask(m)
  BY <1>11, CommitKeepsIInv
<1>12. CASE Crash(m)
  <2> DEFINE t == [Over(task[m], "lost") EXCEPT !.handoff = task[m].handoff]
  <2>1. Over(task[m], "lost") \in Task /\ Over(task[m], "lost").phase = "lost"
    BY <1>1, OverOK DEF Ended
  <2>2. t \in Task /\ t.phase = "lost"
    BY <1>1, <2>1 DEF Task
  <2>3. Become(m, t) /\ task[m].phase # "none"
    BY <1>12 DEF Crash, Running
  <2> HIDE DEF t
  <2>4. QED
    BY <1>2, <2>2, <2>3, BecomeKeepsIInv DEF Fresh
<1>13. QED
  BY <1>3, <1>4, <1>5, <1>6, <1>7, <1>8, <1>9, <1>10, <1>11, <1>12 DEF Step

\* The admin and the clock touch no task.
LEMMA OtherKeepsIInv ==
  ASSUME IInv,
         \/ \E c \in Chats, mode \in {"bot", "human"} : update_thread(c, mode)
         \/ update_bot_config \/ Tick \/ UNCHANGED vars
  PROVE  IInv'
<1>1. UNCHANGED <<message, task, replies>>
  BY DEF update_thread, update_bot_config, Tick, vars
<1>2. now' \in 0 .. MaxTime /\ chatbot_enabled' \in BOOLEAN /\ promised' \subseteq Chats
  <2>1. now' \in 0 .. MaxTime
    BY ChatbotAssumption DEF IInv, TypeOK, update_thread, update_bot_config, Tick, vars
  <2>2. chatbot_enabled' \in BOOLEAN
    <3>1. CASE update_bot_config
      BY <3>1, Zenon DEF update_bot_config
    <3>2. CASE chatbot_enabled' = chatbot_enabled
      BY <3>2 DEF IInv, TypeOK
    <3>3. QED
      BY <3>1, <3>2 DEF update_thread, Tick, vars
  <2>3. promised' \subseteq Chats
    BY DEF IInv, TypeOK, update_thread, update_bot_config, Tick, vars
  <2>4. QED
    BY <2>1, <2>2, <2>3
<1>3. thread' \in [Chats -> Thread]
  <2>1. CASE UNCHANGED thread
    BY <2>1 DEF IInv, TypeOK
  <2>2. ASSUME NEW c \in Chats, NEW mode \in {"bot", "human"}, update_thread(c, mode)
        PROVE  thread' \in [Chats -> Thread]
    <3>1. thread' = [thread EXCEPT ![c].mode = mode]
      BY <2>2 DEF update_thread
    <3>2. [thread[c] EXCEPT !.mode = mode] \in Thread
      BY DEF IInv, TypeOK, Thread
    <3>3. QED
      BY <3>1, <3>2 DEF IInv, TypeOK
  <2>3. QED
    BY <2>1, <2>2 DEF update_bot_config, Tick, vars
<1>4. TypeOK'
  BY <1>1, <1>2, <1>3 DEF IInv, TypeOK
<1>5. TaskInv'
  BY <1>1 DEF IInv, TaskInv
<1>6. QED
  BY <1>4, <1>5 DEF IInv

LEMMA NextKeepsIInv == ASSUME IInv, [Next]_vars PROVE IInv'
BY InboundKeepsIInv, StepKeepsIInv, OtherKeepsIInv DEF Next, redelivered

-----------------------------------------------------------------------------
\* The chatbot is type correct.
THEOREM ChatbotTypeCorrect == Spec => []TypeOK
<1>1. IInv => TypeOK
  BY DEF IInv
<1>2. QED
  BY <1>1, InitIInv, NextKeepsIInv, PTL DEF Spec

\* Re-deliveries, crashes and concurrent tasks of other messages do not make
\* the chatbot answer a message twice.
THEOREM AnswersAtMostOnce == Spec => []AtMostOneReply
<1>1. IInv => AtMostOneReply
  BY DEF IInv, TaskInv, AtMostOneReply
<1>2. QED
  BY <1>1, InitIInv, NextKeepsIInv, PTL DEF Spec

\* Of all steps only the release by the admin hands a thread to the bot.
THEOREM OnlyReleaseGivesThreadBack == Spec => TakeoverSticks
<1>1. ASSUME IInv, [Next]_vars, NEW c \in Chats,
             thread[c].mode = "human", thread'[c].mode = "bot"
      PROVE  update_thread(c, "bot")
  <2>1. CASE UNCHANGED thread
    BY <1>1, <2>1
  <2>2. ASSUME NEW m \in Messages, CommitTask(m)
        PROVE  FALSE
    <3>1. thread' = [thread EXCEPT ![message[m].chat] = Written(m)]
      BY <2>2 DEF CommitTask
    <3>2. CASE c = message[m].chat
      <4>1. thread'[c] = Written(m)
        BY <1>1, <3>1, <3>2 DEF IInv, TypeOK
      <4>2. Written(m).mode = IF task[m].handoff THEN "human" ELSE thread[c].mode
        BY <3>2 DEF Written
      <4>3. QED
        BY <1>1, <4>1, <4>2
    <3>3. CASE c # message[m].chat
      BY <1>1, <3>1, <3>3 DEF IInv, TypeOK
    <3>4. QED
      BY <3>2, <3>3
  <2>3. ASSUME NEW d \in Chats, NEW mode \in {"bot", "human"}, update_thread(d, mode)
        PROVE  update_thread(c, "bot")
    <3>1. thread' = [thread EXCEPT ![d].mode = mode]
      BY <2>3 DEF update_thread
    <3>2. c = d
      BY <1>1, <3>1 DEF IInv, TypeOK
    <3>3. mode = "bot"
      BY <1>1, <3>1, <3>2 DEF IInv, TypeOK, Thread
    <3>4. QED
      BY <2>3, <3>2, <3>3
  <2>4. UNCHANGED thread \/ (\E m \in Messages : CommitTask(m))
          \/ (\E d \in Chats, mode \in {"bot", "human"} : update_thread(d, mode))
    BY <1>1 DEF Next, Step, inbound_message, redelivered, ReadConfig, ReadThread,
                CreateThread, ThreadExists, classify_message, match_properties,
                DirectMessageSent, DirectMessageFails, Crash, Decide, Become,
                update_bot_config, Tick, vars
  <2>5. QED
    BY <2>1, <2>2, <2>3, <2>4
<1>2. IInv /\ [Next]_vars
        => [\A c \in Chats :
              thread[c].mode = "human" /\ thread'[c].mode = "bot"
                => update_thread(c, "bot")]_vars
  BY <1>1
<1>3. QED
  BY <1>2, InitIInv, NextKeepsIInv, PTL DEF Spec, TakeoverSticks

-----------------------------------------------------------------------------
(* The promise of a handover.                                              *)

\* Task m has told chat c that a human takes over.
Told(m, c) ==
  /\ message[m].chat = c /\ replies[m] > 0 /\ task[m].handoff
  /\ task[m].phase \in {"commit", "lost"}

\* Before its commit a task that has told so can only be stopped, and
\* whatever stops it leaves the mark.
LEMMA BecomeKeepsPromise ==
  ASSUME IInv, PromiseKept, NEW m \in Messages, NEW t \in Task, Become(m, t),
         \A c \in Chats : Told(m, c) => t.handoff /\ t.phase \in {"commit", "lost"}
  PROVE  PromiseKept'
<1>1. task' = [task EXCEPT ![m] = t] /\ UNCHANGED <<thread, message, replies, promised>>
  BY DEF Become
<1>2. SUFFICES ASSUME NEW c \in promised, ~ thread[c].mode = "human"
               PROVE  \E n \in Messages : Told(n, c)'
  BY <1>1 DEF PromiseKept, Told
<1>3. c \in Chats
  BY DEF IInv, TypeOK
<1>4. PICK n \in Messages : Told(n, c)
  BY <1>2 DEF PromiseKept, Told
<1>5. CASE n = m
  BY <1>1, <1>3, <1>4, <1>5 DEF IInv, TypeOK, Told
<1>6. CASE n # m
  <2>1. task'[n] = task[n]
    BY <1>1, <1>6 DEF IInv, TypeOK
  <2>2. QED
    BY <1>1, <1>4, <2>1 DEF Told
<1>7. QED
  BY <1>5, <1>6

\* Every step of a task but its send and its commit.
LEMMA QuietStepKeepsPromise ==
  ASSUME IInv, PromiseKept, NEW m \in Messages, NEW t \in Task, Become(m, t),
         ~ task[m].phase \in {"commit", "lost"}
  PROVE  PromiseKept'
BY BecomeKeepsPromise DEF Told

\* A notice that went out is followed by the commit of the mode.
LEMMA SentKeepsPromise ==
  ASSUME IInv, PromiseKept, NEW m \in Messages, DirectMessageSent(m)
  PROVE  PromiseKept'
<1>1. PICK acknowledged \in BOOLEAN :
        task' = [task EXCEPT ![m].phase = "commit", ![m].sent = now,
                             ![m].replied = IF acknowledged THEN now ELSE Never]
  BY DEF DirectMessageSent
<1>2. /\ task[m].phase = "send" /\ task[m] \in Task /\ replies[m] \in Nat
      /\ replies' = [replies EXCEPT ![m] = @ + 1]
      /\ UNCHANGED <<thread, message>>
      /\ promised' = IF task[m].handoff THEN promised \cup {message[m].chat} ELSE promised
  BY DEF DirectMessageSent, In, IInv, TypeOK
<1>3. task'[m].phase = "commit" /\ task'[m].handoff = task[m].handoff
  BY <1>1, <1>2 DEF IInv, TypeOK, Task
<1>4. \A n \in Messages : n # m => task'[n] = task[n] /\ replies'[n] = replies[n]
  BY <1>1, <1>2 DEF IInv, TypeOK
<1>5. SUFFICES ASSUME NEW c \in promised', ~ thread[c].mode = "human"
               PROVE  \E n \in Messages : Told(n, c)'
  BY <1>2 DEF PromiseKept, Told
<1>6. CASE c = message[m].chat /\ task[m].handoff
  <2>1. replies'[m] = replies[m] + 1
    BY <1>2 DEF IInv, TypeOK
  <2>2. Told(m, c)'
    BY <1>2, <1>3, <1>6, <2>1 DEF Told
  <2>3. QED
    BY <2>2
<1>7. CASE c \in promised
  <2>1. PICK n \in Messages : Told(n, c)
    BY <1>5, <1>7 DEF PromiseKept, Told
  <2>2. n # m
    BY <1>2, <2>1 DEF Told
  <2>3. Told(n, c)'
    BY <1>2, <1>4, <2>1, <2>2 DEF Told
  <2>4. QED
    BY <2>3
<1>8. QED
  BY <1>2, <1>6, <1>7

\* The commit of a task that has told so puts the thread in HUMAN mode; no
\* other commit takes it out of it.
LEMMA CommitKeepsPromise ==
  ASSUME IInv, PromiseKept, NEW m \in Messages, CommitTask(m)
  PROVE  PromiseKept'
<1>1. /\ thread' = [thread EXCEPT ![message[m].chat] = Written(m)]
      /\ task' = [task EXCEPT ![m] = Over(task[m], "done")]
      /\ UNCHANGED <<message, replies, promised>>
  BY DEF CommitTask
<1>2. SUFFICES ASSUME NEW c \in promised, ~ thread'[c].mode = "human"
               PROVE  \E n \in Messages : Told(n, c)'
  BY <1>1 DEF PromiseKept, Told
<1>3. c \in Chats
  BY DEF IInv, TypeOK
<1>4. /\ ~ thread[c].mode = "human"
      /\ c = message[m].chat => ~ task[m].handoff
  <2>1. CASE c = message[m].chat
    <3>1. thread'[c].mode = IF task[m].handoff THEN "human" ELSE thread[c].mode
      BY <1>1, <1>3, <2>1 DEF IInv, TypeOK, Written
    <3>2. QED
      BY <1>2, <3>1
  <2>2. CASE c # message[m].chat
    BY <1>1, <1>2, <1>3, <2>2 DEF IInv, TypeOK
  <2>3. QED
    BY <2>1, <2>2
<1>5. PICK n \in Messages : Told(n, c)
  BY <1>4 DEF PromiseKept, Told
<1>6. n # m
  BY <1>4, <1>5 DEF Told
<1>7. task'[n] = task[n]
  BY <1>1, <1>6 DEF IInv, TypeOK
<1>8. Told(n, c)'
  BY <1>1, <1>5, <1>7 DEF Told
<1>9. QED
  BY <1>8

\* A step of a task.
LEMMA StepKeepsPromise ==
  ASSUME IInv, PromiseKept, NEW m \in Messages, Step(m) \/ Crash(m)
  PROVE  PromiseKept'
<1>1. task[m] \in Task /\ now \in 0 .. MaxTime /\ chatbot_enabled \in BOOLEAN
  BY DEF IInv, TypeOK
<1>2. CASE ReadConfig(m)
  <2>1. [task[m] EXCEPT !.phase = "config", !.start = now, !.enabled = chatbot_enabled,
                             !.before = Done(message[m].chat)] \in Task
    BY <1>1, DoneOK DEF Task, Running
  <2>2. QED
    BY <1>2, <2>1, QuietStepKeepsPromise DEF ReadConfig, In
<1>3. ASSUME NEW t \in Task, NEW th, Decide(m, t, th), task[m].phase \in {"config", "missing"}
      PROVE  PromiseKept'
  <2>1. /\ Over(t, "done") \in Task
        /\ [t EXCEPT !.phase = "commit"] \in Task
        /\ [t EXCEPT !.phase = "send", !.handoff = TRUE] \in Task
        /\ [t EXCEPT !.phase = "classify"] \in Task
    BY OverOK DEF Task, Running, Ended
  <2>2. QED
    BY <1>3, <2>1, QuietStepKeepsPromise DEF Decide
<1>4. CASE ReadThread(m)
  <2>1. [task[m] EXCEPT !.phase = "missing"] \in Task
    BY <1>1 DEF Task, Running
  <2>2. QED
    BY <1>1, <1>3, <1>4, <2>1, QuietStepKeepsPromise DEF ReadThread, In
<1>5. CASE CreateThread(m)
  <2>1. [task[m] EXCEPT !.held = TRUE] \in Task
    BY <1>1 DEF Task
  <2>2. QED
    BY <1>3, <1>5, <2>1 DEF CreateThread, In
<1>6. CASE ThreadExists(m)
  BY <1>1, <1>6, OverOK, QuietStepKeepsPromise DEF ThreadExists, In, Ended
<1>7. CASE classify_message(m)
  <2>1. /\ Over(task[m], "failed") \in Task
        /\ [task[m] EXCEPT !.phase = "match"] \in Task
        /\ [task[m] EXCEPT !.phase = "send"] \in Task
        /\ [task[m] EXCEPT !.phase = "send", !.handoff = TRUE] \in Task
        /\ [task[m] EXCEPT !.phase = "commit", !.handoff = TRUE] \in Task
    BY <1>1, OverOK DEF Task, Running, Ended
  <2>2. QED
    BY <1>7, <2>1, QuietStepKeepsPromise DEF classify_message, In
<1>8. CASE match_properties(m)
  <2>1. [task[m] EXCEPT !.phase = "send", !.held = TRUE] \in Task
    BY <1>1 DEF Task, Running
  <2>2. QED
    BY <1>8, <2>1, QuietStepKeepsPromise DEF match_properties, In
<1>9. CASE DirectMessageSent(m)
  BY <1>9, SentKeepsPromise
<1>10. CASE DirectMessageFails(m)
  <2>1. [task[m] EXCEPT !.phase = "commit"] \in Task
    BY <1>1 DEF Task, Running
  <2>2. QED
    BY <1>10, <2>1, QuietStepKeepsPromise DEF DirectMessageFails, In
<1>11. CASE CommitTask(m)
  BY <1>11, CommitKeepsPromise
<1>12. CASE Crash(m)
  <2> DEFINE t == [Over(task[m], "lost") EXCEPT !.handoff = task[m].handoff]
  <2>1. Over(task[m], "lost") \in Task /\ Over(task[m], "lost").phase = "lost"
    BY <1>1, OverOK DEF Ended
  <2>2. t \in Task /\ t.phase = "lost" /\ t.handoff = task[m].handoff
    BY <1>1, <2>1 DEF Task
  <2>3. Become(m, t)
    BY <1>12 DEF Crash
  <2> HIDE DEF t
  <2>4. QED
    BY <2>2, <2>3, BecomeKeepsPromise DEF Told
<1>13. QED
  BY <1>2, <1>4, <1>5, <1>6, <1>7, <1>8, <1>9, <1>10, <1>11, <1>12 DEF Step

\* The webhook stores a message whose task has not begun; the admin takes
\* threads over, or releases the promise together with the thread.
LEMMA OtherKeepsPromise ==
  ASSUME IInv, PromiseKept,
         \/ \E m \in Messages, row \in Message : inbound_message(m, row)
         \/ \E c \in Chats, mode \in {"bot", "human"} : update_thread(c, mode)
         \/ update_bot_config \/ Tick \/ UNCHANGED vars
  PROVE  PromiseKept'
<1>1. ASSUME NEW m \in Messages, NEW row \in Message, inbound_message(m, row)
      PROVE  PromiseKept'
  <2>1. /\ message' = [message EXCEPT ![m] = row]
        /\ task' = [task EXCEPT ![m].phase = "queued"]
        /\ UNCHANGED <<thread, replies, promised>>
        /\ task[m].phase = "none"
    BY <1>1 DEF inbound_message, In
  <2>2. SUFFICES ASSUME NEW c \in promised, ~ thread[c].mode = "human"
                 PROVE  \E n \in Messages : Told(n, c)'
    BY <2>1 DEF PromiseKept, Told
  <2>3. PICK n \in Messages : Told(n, c)
    BY <2>2 DEF PromiseKept, Told
  <2>4. n # m
    BY <2>1, <2>3 DEF Told
  <2>5. task'[n] = task[n] /\ message'[n] = message[n]
    BY <2>1, <2>4 DEF IInv, TypeOK
  <2>6. Told(n, c)'
    BY <2>1, <2>3, <2>5 DEF Told
  <2>7. QED
    BY <2>6
<1>2. ASSUME NEW c \in Chats, NEW mode \in {"bot", "human"}, update_thread(c, mode)
      PROVE  PromiseKept'
  <2>1. /\ thread' = [thread EXCEPT ![c].mode = mode]
        /\ promised' = IF mode = "bot" THEN promised \ {c} ELSE promised
        /\ UNCHANGED <<message, task, replies>>
    BY <1>2 DEF update_thread
  <2>2. SUFFICES ASSUME NEW d \in promised', ~ thread'[d].mode = "human"
                 PROVE  \E n \in Messages : Told(n, d)
    BY <2>1 DEF PromiseKept, Told
  <2>3. d \in promised /\ d \in Chats
    BY <2>1, <2>2 DEF IInv, TypeOK
  <2>4. d # c
    BY <2>1, <2>2, <2>3 DEF IInv, TypeOK, Thread
  <2>5. thread'[d] = thread[d]
    BY <2>1, <2>3, <2>4 DEF IInv, TypeOK
  <2>6. QED
    BY <2>2, <2>3, <2>5 DEF PromiseKept, Told
<1>3. CASE UNCHANGED <<thread, message, task, replies, promised>>
  BY <1>3 DEF PromiseKept
<1>4. QED
  BY <1>1, <1>2, <1>3 DEF update_bot_config, Tick, vars

\* However the tasks overlap, and wherever one is stopped: a lead who was told
\* that a human takes over is in human hands until the admin releases the
\* thread, or the task that told it is before its commit, or was stopped there.
THEOREM PromisesAreKept == Spec => []PromiseKept
<1>1. Init => IInv /\ PromiseKept
  BY InitIInv DEF Init, PromiseKept
<1>2. IInv /\ PromiseKept /\ [Next]_vars => (IInv /\ PromiseKept)'
  BY NextKeepsIInv, StepKeepsPromise, OtherKeepsPromise DEF Next, redelivered
<1>3. QED
  BY <1>1, <1>2, PTL DEF Spec

-----------------------------------------------------------------------------
(* The distance of replies.                                                *)

\* The task of m has a recorded reply, and no other such task of its chat
\* overlapped it.
Undisturbed(m) == task[m].replied # Never /\ Apart(m, Recorded(message[m].chat))

\* A task in flight began after all it knows of were done, and one that is
\* about to send began an interval after the undisturbed ones; the reply it
\* sends goes out later still.
Rested(t) ==
  \A m \in t.before : Undisturbed(m) => t.start - task[m].replied >= MinReplyInterval

ReplyOK(n, t) ==
  /\ t.replied # Never => t.sent # Never
  /\ t.replied <= now
  /\ t.phase \in Fresh => t.sent = Never /\ t.replied = Never
  /\ t.phase \in {"none", "queued"} => t.before = {}
  /\ t.before \subseteq Done(message[n].chat)
  /\ t.phase \in Running =>
       t.start <= now /\ \A m \in t.before : task[m].replied <= t.start
  /\ t.phase = "commit" /\ t.replied # Never => t.start <= t.replied
  /\ t.phase \in {"classify", "match", "send"} => Rested(t)
  /\ t.sent # Never =>
       \A m \in t.before :
         Undisturbed(m) => t.sent - task[m].replied >= MinReplyInterval

\* The thread row is not behind an undisturbed reply.
RowOK(c) ==
  /\ ~ thread[c].exists => thread[c].last_bot_reply_at = Never
  /\ \A m \in Recorded(c) : Undisturbed(m) =>
       thread[c].last_bot_reply_at # Never /\ task[m].replied <= thread[c].last_bot_reply_at

RepliesInv ==
  /\ IInv
  /\ \A n \in Messages : ReplyOK(n, task[n])
  /\ \A c \in Chats : RowOK(c)

\* The times the decisions compare are numbers.
LEMMA Times ==
  /\ \A th \in Thread : th.last_processed_wa_ts \in Nat /\ th.last_bot_reply_at \in Int
  /\ \A row \in Message : row.wa_timestamp \in Nat
  /\ \A t \in Task : t.start \in Nat /\ t.replied \in Int /\ t.sent \in Int
<1>1. \A time \in Timestamps : time \in Nat
  BY ChatbotAssumption
<1>2. \A time \in 0 .. MaxTime : time \in Nat /\ time \in Int
  BY ChatbotAssumption
<1>3. Never \in Int
  BY DEF Never
<1>4. QED
  BY <1>1, <1>2, <1>3 DEF Thread, Message, Task

\* What the invariant says of times compares integers.
LEMMA TimesNow ==
  ASSUME IInv
  PROVE  /\ now \in Nat /\ MinReplyInterval \in Nat
         /\ \A m \in Messages : task[m] \in Task /\ task[m].start \in Nat
                                 /\ task[m].replied \in Int /\ task[m].sent \in Int
         /\ \A c \in Chats : thread[c] \in Thread /\ thread[c].last_bot_reply_at \in Int
BY Times, ChatbotAssumption DEF IInv, TypeOK

\* A step of one task that records no reply leaves the recorded ones, and
\* which of them are undisturbed, as they are.
LEMMA RecordedSame ==
  ASSUME IInv, NEW m \in Messages, task[m].phase # "done",
         UNCHANGED message,
         \A n \in Messages : n # m => task'[n] = task[n],
         task'[m].phase = "done" => task'[m].replied = Never
  PROVE  /\ \A c : Recorded(c)' = Recorded(c) /\ Done(c) \subseteq Done(c)'
         /\ \A c : \A x \in Done(c) : task'[x] = task[x]
         /\ \A c : \A x \in Done(c) : Undisturbed(x)' <=> Undisturbed(x)
<1>1. \A c : Recorded(c)' = Recorded(c)
  BY DEF Recorded, Done, In
<1>2. \A c : /\ Done(c) \subseteq Done(c)'
             /\ \A x \in Done(c) : x \in Messages /\ x # m /\ task'[x] = task[x]
  BY DEF Done, In
<1>3. \A c : \A x \in Recorded(c) : x \in Done(c)
  BY DoneOK
<1>4. QED
  BY <1>1, <1>2, <1>3 DEF Undisturbed, Apart

LEMMA BecomeKeepsReplies ==
  ASSUME RepliesInv, IInv', NEW m \in Messages, NEW t \in Task, Become(m, t),
         task[m].phase # "done", ReplyOK(m, t),
         t.phase = "done" => t.replied = Never
  PROVE  RepliesInv'
<1>1. /\ UNCHANGED <<now, thread, message>>
      /\ \A n \in Messages : task'[n] = IF n = m THEN t ELSE task[n]
  BY DEF Become, RepliesInv, IInv, TypeOK
<1>2. /\ \A c : Recorded(c)' = Recorded(c) /\ Done(c) \subseteq Done(c)'
      /\ \A c : \A x \in Done(c) : task'[x] = task[x]
      /\ \A c : \A x \in Done(c) : Undisturbed(x)' <=> Undisturbed(x)
  BY <1>1, RecordedSame DEF RepliesInv
<1>3. ASSUME NEW n \in Messages PROVE ReplyOK(n, task[n])'
  <2>1. ReplyOK(n, task'[n])
    BY <1>1 DEF RepliesInv
  <2>2. task'[n].before \subseteq Done(message[n].chat)
    BY <2>1 DEF ReplyOK
  <2>3. QED
    BY <1>1, <1>2, <2>1, <2>2 DEF ReplyOK, Rested
<1>4. ASSUME NEW c \in Chats PROVE RowOK(c)'
  BY <1>1, <1>2, DoneOK DEF RepliesInv, RowOK
<1>5. QED
  BY <1>3, <1>4 DEF RepliesInv

\* Task t ends as u, and leaves what it has sent.
Ends(t, u) ==
  /\ u.phase \in Ended
  /\ u.replied = t.replied /\ u.sent = t.sent
  /\ u.before = IF u.phase \in {"failed", "lost"} /\ t.sent = Never THEN {} ELSE t.before

\* Task t, which has sent nothing yet, goes on as u without sending.
GoesOn(t, u) ==
  /\ t.phase \in Running \cap Fresh /\ u.phase \in Running
  /\ u.start = t.start /\ u.before = t.before
  /\ u.replied = t.replied /\ u.sent = t.sent

LEMMA OverEnds ==
  ASSUME NEW t \in Task, NEW phase \in Ended, NEW handoff \in BOOLEAN
  PROVE  /\ Over(t, phase) \in Task /\ Over(t, phase).phase = phase
         /\ Ends(t, Over(t, phase))
         /\ [Over(t, phase) EXCEPT !.handoff = handoff] \in Task
         /\ [Over(t, phase) EXCEPT !.handoff = handoff].phase = phase
         /\ Ends(t, [Over(t, phase) EXCEPT !.handoff = handoff])
<1> DEFINE u == Over(t, phase)
           v == [u EXCEPT !.handoff = handoff]
<1>1. u \in Task /\ u.phase = phase
  BY OverOK
<1>2. Ends(t, u)
  BY <1>1 DEF Ends, Over, NoTask
<1> HIDE DEF u
<1>3. /\ v \in Task /\ v.phase = u.phase /\ v.replied = u.replied
      /\ v.sent = u.sent /\ v.before = u.before
  BY <1>1 DEF Task
<1> HIDE DEF v
<1>4. Ends(t, v)
  BY <1>2, <1>3 DEF Ends
<1>5. QED
  BY <1>1, <1>2, <1>3, <1>4 DEF u, v

LEMMA EndsReplyOK ==
  ASSUME NEW m \in Messages, NEW t \in Task, NEW u \in Task, ReplyOK(m, t), Ends(t, u)
  PROVE  ReplyOK(m, u)
BY DEF ReplyOK, Ends, Ended, Running, Fresh

LEMMA GoesOnReplyOK ==
  ASSUME NEW m \in Messages, NEW t \in Task, NEW u \in Task, ReplyOK(m, t), GoesOn(t, u),
         u.phase \in {"classify", "match", "send"} => Rested(t)
  PROVE  ReplyOK(m, u)
<1>1. Rested(t) => Rested(u)
  BY DEF GoesOn, Rested
<1>2. QED
  BY <1>1 DEF ReplyOK, GoesOn, Running

\* The rate limit looks at the row, which is not behind an undisturbed reply.
LEMMA DecideKeepsReplies ==
  ASSUME RepliesInv, IInv', NEW m \in Messages, NEW t \in Task, NEW th \in Thread,
         Decide(m, t, th), message[m].chat \in Chats,
         th.last_bot_reply_at = thread[message[m].chat].last_bot_reply_at,
         ReplyOK(m, t), t.phase \in {"config", "missing"},
         task[m].phase \in {"config", "missing"}
  PROVE  RepliesInv'
<1>1. t.phase \in Running /\ t.phase \in Fresh /\ task[m].phase # "done"
  BY DEF Running, Fresh
<1>2. CASE Become(m, Over(t, "done"))
  <2> DEFINE u == Over(t, "done")
  <2>1. u \in Task /\ u.phase = "done" /\ Ends(t, u)
    BY OverEnds DEF Ended
  <2>2. Become(m, u) /\ t.replied = Never
    BY <1>1, <1>2 DEF ReplyOK
  <2> HIDE DEF u
  <2>3. ReplyOK(m, u) /\ u.replied = Never
    BY <2>1, <2>2, EndsReplyOK DEF Ends
  <2>4. QED
    BY <1>1, <2>1, <2>2, <2>3, BecomeKeepsReplies
<1>3. ASSUME NEW phase \in {"commit", "send", "classify"}, NEW handoff \in BOOLEAN,
             phase = "commit" \/ ~ Silent(t, th),
             Become(m, [t EXCEPT !.phase = phase, !.handoff = handoff])
      PROVE  RepliesInv'
  <2> DEFINE u == [t EXCEPT !.phase = phase, !.held = t.held, !.handoff = handoff]
  <2>1. t.held \in BOOLEAN /\ [t EXCEPT !.phase = phase, !.handoff = handoff] = u
    BY DEF Task
  <2>2. ASSUME phase # "commit" PROVE Rested(t)
    <3> SUFFICES ASSUME NEW x \in t.before, Undisturbed(x)
                 PROVE  t.start - task[x].replied >= MinReplyInterval
      BY DEF Rested
    <3>1. x \in Recorded(message[m].chat) /\ x \in Messages
      BY DoneOK DEF ReplyOK, Undisturbed
    <3>2. th.last_bot_reply_at # Never /\ task[x].replied <= th.last_bot_reply_at
      BY <2>2, <3>1 DEF RepliesInv, RowOK
    <3>3. ~ (t.start - th.last_bot_reply_at < MinReplyInterval)
      BY <1>3, <2>2, <3>2 DEF Silent, within_rate_limit
    <3>4. t.start \in Int /\ th.last_bot_reply_at \in Int /\ task[x].replied \in Int
      BY <3>1, Times, TimesNow DEF RepliesInv
    <3>5. QED
      BY <3>2, <3>3, <3>4, TimesNow DEF RepliesInv
  <2>3. phase \in Running
    BY DEF Running
  <2>4. /\ u \in Task /\ u.phase = phase
        /\ u.start = t.start /\ u.before = t.before
        /\ u.replied = t.replied /\ u.sent = t.sent
    BY <2>1, <2>3 DEF Task
  <2>5. Become(m, u)
    BY <1>3, <2>1
  <2> HIDE DEF u
  <2>6. GoesOn(t, u) /\ ReplyOK(m, u)
    BY <1>1, <2>2, <2>3, <2>4, GoesOnReplyOK DEF GoesOn
  <2>7. QED
    BY <1>1, <1>3, <2>4, <2>5, <2>6, BecomeKeepsReplies
<1>4. /\ [t EXCEPT !.phase = "commit"] = [t EXCEPT !.phase = "commit", !.handoff = t.handoff]
      /\ [t EXCEPT !.phase = "classify"] = [t EXCEPT !.phase = "classify", !.handoff = t.handoff]
      /\ t.handoff \in BOOLEAN
  BY DEF Task
<1>5. QED
  BY <1>2, <1>3, <1>4 DEF Decide

\* A reply goes out no earlier than its task began.
LEMMA SentKeepsReplies ==
  ASSUME RepliesInv, IInv', NEW m \in Messages, DirectMessageSent(m)
  PROVE  RepliesInv'
<1>1. PICK acknowledged \in BOOLEAN :
        task' = [task EXCEPT ![m].phase = "commit", ![m].sent = now,
                             ![m].replied = IF acknowledged THEN now ELSE Never]
  BY DEF DirectMessageSent
<1>2. /\ task[m].phase = "send" /\ UNCHANGED <<now, thread, message>>
      /\ task[m] \in Task /\ now \in Nat /\ MinReplyInterval \in Nat
      /\ task[m].start \in Nat
  BY TimesNow DEF DirectMessageSent, In, RepliesInv
<1>3. /\ task'[m].phase = "commit" /\ task'[m].start = task[m].start
      /\ task'[m].before = task[m].before /\ task'[m].sent = now
      /\ task'[m].replied \in {now, Never}
      /\ \A n \in Messages : n # m => task'[n] = task[n]
  BY <1>1, <1>2 DEF RepliesInv, IInv, TypeOK, Task
<1>4. /\ \A c : Recorded(c)' = Recorded(c) /\ Done(c) \subseteq Done(c)'
      /\ \A c : \A x \in Done(c) : task'[x] = task[x]
      /\ \A c : \A x \in Done(c) : Undisturbed(x)' <=> Undisturbed(x)
  BY <1>2, <1>3, RecordedSame DEF RepliesInv
<1>5. now # Never /\ Never <= now
  BY <1>2 DEF Never
<1>6. ASSUME NEW n \in Messages PROVE ReplyOK(n, task[n])'
  <2>1. ReplyOK(n, task[n]) /\ task[n].before \subseteq Done(message[n].chat)
    BY DEF RepliesInv, ReplyOK
  <2>2. CASE n # m
    BY <1>2, <1>3, <1>4, <2>1, <2>2 DEF ReplyOK, Rested
  <2>3. CASE n = m
    <3>1. /\ task[m].start <= now
          /\ \A x \in task[m].before :
               /\ task[x].replied <= task[m].start
               /\ Undisturbed(x) => task[m].start - task[x].replied >= MinReplyInterval
      BY <1>2, <2>1, <2>3 DEF ReplyOK, Rested, Running
    <3>2. \A x \in task[m].before : task[x].replied \in Int
      BY <2>1, <2>3, DoneOK, TimesNow DEF RepliesInv
    <3>3. \A x \in task[m].before : Undisturbed(x) => now - task[x].replied >= MinReplyInterval
      BY <1>2, <3>1, <3>2
    <3>4. QED
      BY <1>2, <1>3, <1>4, <1>5, <2>1, <2>3, <3>1, <3>3 DEF ReplyOK, Fresh, Running
  <2>4. QED
    BY <2>2, <2>3
<1>7. ASSUME NEW c \in Chats PROVE RowOK(c)'
  BY <1>2, <1>4, DoneOK DEF RepliesInv, RowOK
<1>8. QED
  BY <1>6, <1>7 DEF RepliesInv

\* The commit of a reply records it.  A reply that stays undisturbed was
\* recorded before the task of this one began, so its time is no later.
LEMMA CommitKeepsReplies ==
  ASSUME RepliesInv, IInv', NEW m \in Messages, CommitTask(m)
  PROVE  RepliesInv'
<1> DEFINE u == Over(task[m], "done")
<1>0. message[m].chat \in Chats
  BY DEF CommitTask, In, RepliesInv, IInv, TaskInv, Message
<1> PICK c \in Chats : c = message[m].chat
  BY <1>0
<1>1. /\ thread' = [thread EXCEPT ![c] = Written(m)]
      /\ task' = [task EXCEPT ![m] = u]
      /\ UNCHANGED <<now, message>>
      /\ task[m].phase = "commit" /\ task[m] \in Task /\ c = message[m].chat
      /\ thread \in [Chats -> Thread] /\ task \in [Messages -> Task]
  BY DEF CommitTask, In, RepliesInv, IInv, TypeOK
<1>2. ReplyOK(m, task[m])
  BY DEF RepliesInv
<1>3. u \in Task /\ u.phase = "done" /\ Ends(task[m], u)
  BY <1>1, OverEnds DEF Ended
<1> HIDE DEF u
<1>4. /\ u.replied = task[m].replied /\ ReplyOK(m, u)
      /\ u.before = task[m].before
  BY <1>1, <1>2, <1>3, EndsReplyOK DEF Ends
<1>5. /\ task'[m] = u
      /\ \A n \in Messages : n # m => task'[n] = task[n]
      /\ thread'[c] = Written(m)
      /\ \A d \in Chats : d # c => thread'[d] = thread[d]
  BY <1>1
<1>6. /\ \A d : Recorded(d) \subseteq Recorded(d)' /\ Recorded(d) \subseteq Done(d)
      /\ \A d : Done(d) \subseteq Done(d)'
      /\ \A d : \A x \in Done(d) : x \in Messages /\ x # m /\ message[x].chat = d
      /\ \A d : \A x \in Recorded(d)' : x \in Recorded(d) \/ (x = m /\ d = c)
      /\ m \in Recorded(c)' <=> task[m].replied # Never
  BY <1>1, <1>3, <1>4, <1>5 DEF Recorded, Done, In
<1>7. \A d : \A x \in Done(d) : task'[x] = task[x] /\ (Undisturbed(x)' => Undisturbed(x))
  BY <1>1, <1>5, <1>6 DEF Undisturbed, Apart
<1>8. ASSUME NEW n \in Messages PROVE ReplyOK(n, task[n])'
  <2>1. ReplyOK(n, task'[n])
    BY <1>4, <1>5 DEF RepliesInv
  <2>2. task'[n].before \subseteq Done(message[n].chat)
    BY <2>1 DEF ReplyOK
  <2>3. QED
    BY <1>1, <1>6, <1>7, <2>1, <2>2 DEF ReplyOK, Rested
<1>9. RowOK(c)'
  <2>1. Written(m).exists /\ Written(m).last_bot_reply_at
          = IF task[m].replied = Never THEN thread[c].last_bot_reply_at ELSE task[m].replied
    BY DEF Written
  <2>2. SUFFICES ASSUME NEW x \in Recorded(c)', Undisturbed(x)'
                 PROVE  /\ Written(m).last_bot_reply_at # Never
                        /\ task'[x].replied <= Written(m).last_bot_reply_at
    BY <1>5, <2>1 DEF RowOK
  <2>3. CASE x = m
    <3>1. task[m].replied # Never /\ task'[m].replied = task[m].replied /\ task[m].replied \in Int
      BY <1>1, <1>4, <1>5, <1>6, <2>2, <2>3, Times
    <3>2. QED
      BY <2>1, <2>3, <3>1
  <2>4. CASE x # m
    <3>1. x \in Recorded(c) /\ task'[x] = task[x] /\ Undisturbed(x)
      BY <1>6, <1>7, <2>2, <2>4
    <3>2. CASE task[m].replied = Never
      BY <1>1, <2>1, <3>1, <3>2 DEF RepliesInv, RowOK
    <3>3. CASE task[m].replied # Never
      <4>1. m \in Recorded(c)' \ {x} /\ message[x].chat = c
        BY <1>6, <2>4, <3>1, <3>3
      <4>2. m \in task'[x].before \/ x \in task'[m].before
        BY <1>1, <2>2, <4>1 DEF Undisturbed, Apart
      <4>3. task[x].before \subseteq Done(c) /\ x \in Messages
        BY <1>6, <3>1, <4>1 DEF RepliesInv, ReplyOK
      <4>4. x \in task[m].before
        BY <1>4, <1>5, <1>6, <3>1, <3>3, <4>2, <4>3
      <4>5. task[x].replied <= task[m].start /\ task[m].start <= task[m].replied
        BY <1>1, <1>2, <3>3, <4>4 DEF ReplyOK, Running
      <4>6. task[x].replied \in Int /\ task[m].start \in Int /\ task[m].replied \in Int
        BY <4>3, TimesNow DEF RepliesInv
      <4>7. QED
        BY <2>1, <3>1, <3>3, <4>5, <4>6
    <3>4. QED
      BY <3>2, <3>3
  <2>5. QED
    BY <2>3, <2>4
<1>10. ASSUME NEW d \in Chats, d # c PROVE RowOK(d)'
  BY <1>5, <1>6, <1>7, <1>10 DEF RepliesInv, RowOK
<1>11. QED
  BY <1>8, <1>9, <1>10 DEF RepliesInv

LEMMA StepKeepsReplies ==
  ASSUME RepliesInv, IInv', NEW m \in Messages, Step(m) \/ Crash(m)
  PROVE  RepliesInv'
<1>1. /\ task[m] \in Task /\ now \in 0 .. MaxTime /\ chatbot_enabled \in BOOLEAN
      /\ thread \in [Chats -> Thread] /\ now \in Nat
      /\ task[m].phase # "none" => message[m].chat \in Chats
      /\ task[m].held \in BOOLEAN /\ task[m].handoff \in BOOLEAN
  BY TimesNow DEF RepliesInv, IInv, TypeOK, TaskInv, Message, Task
<1>2. ReplyOK(m, task[m])
  BY DEF RepliesInv
<1>3. ASSUME NEW u \in Task, Become(m, u), GoesOn(task[m], u),
             u.phase \in {"classify", "match", "send"}
               => task[m].phase \in {"classify", "match", "send"}
      PROVE  RepliesInv'
  <2>1. u.phase \in {"classify", "match", "send"} => Rested(task[m])
    BY <1>2, <1>3 DEF ReplyOK
  <2>2. ReplyOK(m, u)
    BY <1>1, <1>2, <1>3, <2>1, GoesOnReplyOK
  <2>3. u.phase # "done" /\ task[m].phase # "done"
    BY <1>3 DEF GoesOn, Running
  <2>4. QED
    BY <1>3, <2>2, <2>3, BecomeKeepsReplies
<1>4. ASSUME NEW u \in Task, Ends(task[m], u), u.phase # "done", task[m].phase # "done",
             Become(m, u)
      PROVE  RepliesInv'
  BY <1>1, <1>2, <1>4, EndsReplyOK, BecomeKeepsReplies
<1>5. \A phase \in Ended :
        /\ Over(task[m], phase) \in Task /\ Over(task[m], phase).phase = phase
        /\ Ends(task[m], Over(task[m], phase))
  BY <1>1, OverEnds
<1>6. CASE ReadConfig(m)
  <2> DEFINE u == [task[m] EXCEPT !.phase = "config", !.start = now, !.enabled = chatbot_enabled,
                                  !.before = Done(message[m].chat)]
  <2>1. /\ u \in Task /\ u.phase = "config" /\ u.start = now
        /\ u.before = Done(message[m].chat)
        /\ u.replied = task[m].replied /\ u.sent = task[m].sent
    BY <1>1, DoneOK DEF Task, Running
  <2>2. task[m].phase = "queued" /\ Become(m, u)
    BY <1>6 DEF ReadConfig, In
  <2> HIDE DEF u
  <2>3. task[m].sent = Never /\ task[m].replied = Never
    BY <1>2, <2>2 DEF ReplyOK, Fresh
  <2>4. \A x \in Done(message[m].chat) : task[x].replied <= now
    BY DoneOK DEF RepliesInv, ReplyOK
  <2>5. ReplyOK(m, u)
    BY <1>1, <2>1, <2>3, <2>4 DEF ReplyOK, Never
  <2>6. QED
    BY <2>1, <2>2, <2>5, BecomeKeepsReplies
<1>7. CASE ReadThread(m)
  <2>1. task[m].phase = "config" /\ thread[message[m].chat] \in Thread
    BY <1>1, <1>7 DEF ReadThread, In
  <2>2. CASE Decide(m, task[m], thread[message[m].chat])
    BY <1>1, <1>2, <2>1, <2>2, DecideKeepsReplies
  <2>3. CASE Become(m, [task[m] EXCEPT !.phase = "missing"])
    <3> DEFINE u == [task[m] EXCEPT !.phase = "missing"]
    <3>1. /\ u \in Task /\ u.phase = "missing"
          /\ u.start = task[m].start /\ u.before = task[m].before
          /\ u.replied = task[m].replied /\ u.sent = task[m].sent
      BY <1>1 DEF Task, Running
    <3>2. Become(m, u)
      BY <2>3
    <3> HIDE DEF u
    <3>3. GoesOn(task[m], u)
      BY <2>1, <3>1 DEF GoesOn, Running, Fresh
    <3>4. QED
      BY <1>3, <2>1, <3>1, <3>2, <3>3
  <2>4. QED
    BY <1>7, <2>2, <2>3 DEF ReadThread
<1>8. CASE CreateThread(m)
  <2> DEFINE u == [task[m] EXCEPT !.held = TRUE]
  <2>1. task[m].phase = "missing"
    BY <1>8 DEF CreateThread, In
  <2>2. /\ u \in Task /\ u.phase = "missing"
        /\ u.start = task[m].start /\ u.before = task[m].before
        /\ u.replied = task[m].replied /\ u.sent = task[m].sent
    BY <1>1, <2>1 DEF Task
  <2>3. NewThread.last_bot_reply_at = thread[message[m].chat].last_bot_reply_at
    BY <1>1, <1>8, <2>1 DEF CreateThread, RepliesInv, RowOK, NewThread, NoThread
  <2>4. Decide(m, u, NewThread)
    BY <1>8 DEF CreateThread
  <2> HIDE DEF u
  <2>5. GoesOn(task[m], u) /\ ReplyOK(m, u)
    BY <1>1, <1>2, <2>1, <2>2, GoesOnReplyOK DEF GoesOn, Running, Fresh
  <2>6. QED
    BY <1>1, <2>1, <2>2, <2>3, <2>4, <2>5, RecordsOK, DecideKeepsReplies
<1>9. CASE ThreadExists(m)
  BY <1>1, <1>4, <1>5, <1>9 DEF ThreadExists, In, Ended
<1>10. CASE classify_message(m)
  <2>1. task[m].phase = "classify"
    BY <1>10 DEF classify_message, In
  <2>2. CASE Become(m, Over(task[m], "failed"))
    BY <1>4, <1>5, <2>1, <2>2 DEF Ended
  <2>3. ASSUME NEW phase \in {"match", "send", "commit"}, NEW handoff \in BOOLEAN,
               Become(m, [task[m] EXCEPT !.phase = phase, !.handoff = handoff])
        PROVE  RepliesInv'
    <3> DEFINE u == [task[m] EXCEPT !.phase = phase, !.handoff = handoff]
    <3>1. /\ u \in Task /\ u.phase = phase
          /\ u.start = task[m].start /\ u.before = task[m].before
          /\ u.replied = task[m].replied /\ u.sent = task[m].sent
      BY <1>1 DEF Task, Running
    <3>2. Become(m, u)
      BY <2>3
    <3> HIDE DEF u
    <3>3. GoesOn(task[m], u)
      BY <2>1, <3>1 DEF GoesOn, Running, Fresh
    <3>4. QED
      BY <1>3, <2>1, <3>1, <3>2, <3>3
  <2>4. \A phase : [task[m] EXCEPT !.phase = phase]
                     = [task[m] EXCEPT !.phase = phase, !.handoff = task[m].handoff]
    BY <1>1 DEF Task
  <2>5. QED
    BY <1>1, <1>10, <2>2, <2>3, <2>4 DEF classify_message
<1>11. CASE match_properties(m)
  <2> DEFINE u == [task[m] EXCEPT !.phase = "send", !.held = TRUE]
  <2>1. task[m].phase = "match"
    BY <1>11 DEF match_properties, In
  <2>2. /\ u \in Task /\ u.phase = "send"
        /\ u.start = task[m].start /\ u.before = task[m].before
        /\ u.replied = task[m].replied /\ u.sent = task[m].sent
    BY <1>1 DEF Task, Running
  <2>3. Become(m, u)
    BY <1>11 DEF match_properties
  <2> HIDE DEF u
  <2>4. GoesOn(task[m], u)
    BY <2>1, <2>2 DEF GoesOn, Running, Fresh
  <2>5. QED
    BY <1>3, <2>1, <2>2, <2>3, <2>4
<1>12. CASE DirectMessageSent(m)
  BY <1>12, SentKeepsReplies
<1>13. CASE DirectMessageFails(m)
  <2> DEFINE u == [task[m] EXCEPT !.phase = "commit"]
  <2>1. task[m].phase = "send"
    BY <1>13 DEF DirectMessageFails, In
  <2>2. /\ u \in Task /\ u.phase = "commit"
        /\ u.start = task[m].start /\ u.before = task[m].before
        /\ u.replied = task[m].replied /\ u.sent = task[m].sent
    BY <1>1 DEF Task, Running
  <2>3. Become(m, u)
    BY <1>13 DEF DirectMessageFails
  <2> HIDE DEF u
  <2>4. GoesOn(task[m], u)
    BY <2>1, <2>2 DEF GoesOn, Running, Fresh
  <2>5. QED
    BY <1>3, <2>1, <2>2, <2>3, <2>4
<1>14. CASE CommitTask(m)
  BY <1>14, CommitKeepsReplies
<1>15. CASE Crash(m)
  <2>1. task[m].phase # "done" /\ "lost" \in Ended
    BY <1>15 DEF Crash, Running, Ended
  <2> DEFINE u == [Over(task[m], "lost") EXCEPT !.handoff = task[m].handoff]
  <2>2. u \in Task /\ u.phase = "lost" /\ Ends(task[m], u)
    BY <1>1, <2>1, OverEnds
  <2>3. Become(m, u)
    BY <1>15 DEF Crash
  <2> HIDE DEF u
  <2>4. QED
    BY <1>4, <2>1, <2>2, <2>3
<1>16. QED
  BY <1>6, <1>7, <1>8, <1>9, <1>10, <1>11, <1>12, <1>13, <1>14, <1>15 DEF Step

\* The webhook stores a message that was in no answer; the admin writes the
\* mode and no other column; time only goes on.
LEMMA OtherKeepsReplies ==
  ASSUME RepliesInv, IInv',
         \/ \E m \in Messages, row \in Message : inbound_message(m, row)
         \/ \E c \in Chats, mode \in {"bot", "human"} : update_thread(c, mode)
         \/ update_bot_config \/ Tick \/ UNCHANGED vars
  PROVE  RepliesInv'
<1>1. ASSUME NEW m \in Messages, NEW row \in Message, inbound_message(m, row)
      PROVE  RepliesInv'
  <2>1. /\ message' = [message EXCEPT ![m] = row]
        /\ task' = [task EXCEPT ![m].phase = "queued"]
        /\ UNCHANGED <<now, thread>>
        /\ task[m].phase = "none" /\ task[m] \in Task
    BY <1>1 DEF inbound_message, In, RepliesInv, IInv, TypeOK
  <2>2. /\ task'[m].phase = "queued" /\ task'[m].replied = task[m].replied
        /\ task'[m].sent = task[m].sent /\ task'[m].before = task[m].before
        /\ \A n \in Messages : n # m => task'[n] = task[n] /\ message'[n] = message[n]
    BY <2>1 DEF RepliesInv, IInv, TypeOK, Task
  <2>3. \A c : Recorded(c)' = Recorded(c) /\ Done(c)' = Done(c) /\ Recorded(c) \subseteq Done(c)
    BY <2>1, <2>2 DEF Recorded, Done, In
  <2>4. \A c : \A x \in Done(c) : x # m /\ task'[x] = task[x] /\ message'[x] = message[x]
    BY <2>1, <2>2 DEF Done, In
  <2>5. \A c : \A x \in Done(c) : Undisturbed(x)' <=> Undisturbed(x)
    BY <2>2, <2>3, <2>4 DEF Undisturbed, Apart
  <2>6. ASSUME NEW n \in Messages PROVE ReplyOK(n, task[n])'
    <3>1. ReplyOK(n, task[n]) /\ task[n].before \subseteq Done(message[n].chat)
      BY DEF RepliesInv, ReplyOK
    <3>2. CASE n = m
      <4>1. task[m].before = {} /\ task[m].sent = Never /\ task[m].replied = Never
        BY <2>1, <3>1, <3>2 DEF ReplyOK, Fresh
      <4>2. QED
        BY <2>1, <2>2, <3>1, <3>2, <4>1 DEF ReplyOK, Running
    <3>3. CASE n # m
      BY <2>1, <2>2, <2>3, <2>4, <2>5, <3>1, <3>3 DEF ReplyOK, Rested
    <3>4. QED
      BY <3>2, <3>3
  <2>7. ASSUME NEW c \in Chats PROVE RowOK(c)'
    BY <2>1, <2>3, <2>4, <2>5 DEF RepliesInv, RowOK
  <2>8. QED
    BY <2>6, <2>7 DEF RepliesInv
<1>2. CASE ~ \E m \in Messages, row \in Message : inbound_message(m, row)
  <2>1. UNCHANGED <<message, task>> /\ now \in Nat /\ now' \in {now, now + 1}
    BY <1>2, TimesNow DEF update_thread, update_bot_config, Tick, vars, RepliesInv
  <2>2. thread \in [Chats -> Thread]
    BY DEF RepliesInv, IInv, TypeOK
  <2>3. \A d \in Chats : /\ thread'[d].exists = thread[d].exists
                          /\ thread'[d].last_bot_reply_at = thread[d].last_bot_reply_at
    <3>1. ASSUME NEW c \in Chats, NEW mode \in {"bot", "human"}, update_thread(c, mode),
                 NEW d \in Chats
          PROVE  /\ thread'[d].exists = thread[d].exists
                 /\ thread'[d].last_bot_reply_at = thread[d].last_bot_reply_at
      <4>1. thread' = [thread EXCEPT ![c] = [thread[c] EXCEPT !.mode = mode]]
        BY <3>1 DEF update_thread
      <4>2. CASE d = c
        BY <2>2, <4>1, <4>2 DEF Thread
      <4>3. CASE d # c
        BY <2>2, <4>1, <4>3
      <4>4. QED
        BY <4>2, <4>3
    <3>2. QED
      BY <1>2, <3>1 DEF update_bot_config, Tick, vars
  <2>4. /\ \A c : Recorded(c)' = Recorded(c) /\ Done(c)' = Done(c)
        /\ \A x : Undisturbed(x)' <=> Undisturbed(x)
    BY <2>1 DEF Recorded, Done, Undisturbed, Apart, In
  <2>5. ASSUME NEW n \in Messages PROVE ReplyOK(n, task[n])'
    <3>1. ReplyOK(n, task[n]) /\ task[n].replied \in Int /\ task[n].start \in Int
      BY TimesNow DEF RepliesInv
    <3>2. task[n].replied <= now' /\ (task[n].phase \in Running => task[n].start <= now')
      BY <2>1, <3>1 DEF ReplyOK
    <3>3. QED
      BY <2>1, <2>4, <3>1, <3>2 DEF ReplyOK, Rested
  <2>6. ASSUME NEW c \in Chats PROVE RowOK(c)'
    BY <2>1, <2>3, <2>4 DEF RepliesInv, RowOK
  <2>7. QED
    BY <2>5, <2>6 DEF RepliesInv
<1>3. QED
  BY <1>1, <1>2

LEMMA InitReplies == ASSUME Init PROVE RepliesInv
<1>1. /\ \A m \in Messages : task[m] = NoTask
      /\ now = 0 /\ thread \in [Chats -> {NoThread, NewThread}]
  BY DEF Init
<1>2. \A c : Recorded(c) = {}
  BY <1>1 DEF Recorded, Done, In, NoTask
<1>3. \A n \in Messages : ReplyOK(n, task[n])
  BY <1>1 DEF ReplyOK, NoTask, Running, Never
<1>4. \A c \in Chats : RowOK(c)
  BY <1>1, <1>2 DEF RowOK, NoThread, NewThread
<1>5. QED
  BY <1>3, <1>4, InitIInv DEF RepliesInv

LEMMA NextKeepsReplies == ASSUME RepliesInv, [Next]_vars PROVE RepliesInv'
<1>1. IInv'
  BY NextKeepsIInv DEF RepliesInv
<1>2. QED
  BY <1>1, StepKeepsReplies, OtherKeepsReplies DEF Next, redelivered

\* However the tasks overlap, fail or are stopped, and whether or not the
\* daemon's answers arrive: no task that begins after an undisturbed reply was
\* recorded sends anything to the chat before an interval has passed.
THEOREM RecordedRepliesKeepTheirDistance == Spec => []RateLimited
<1>1. RepliesInv => RateLimited
  BY DoneOK DEF RepliesInv, ReplyOK, RateLimited, Undisturbed
<1>2. QED
  BY <1>1, InitReplies, NextKeepsReplies, PTL DEF Spec

-----------------------------------------------------------------------------
(* The watermark.                                                          *)

\* A thread row that is not there yet has no columns set.
RowsInv ==
  \A c \in Chats : ~ thread[c].exists => thread[c].last_processed_wa_ts = 0

\* What task t of message n decided on is still so unless another of the chat
\* has been done since; and n is later than what was marked before it began.
DecisionOK(n, t) ==
  LET c == message[n].chat
  IN  t.phase \in {"classify", "match", "send", "commit"} =>
        /\ Done(c) \subseteq t.before => ~ already_processed(n, thread[c])
        /\ \A m \in t.before : Apart(m, Done(c)) =>
             message[m].wa_timestamp < message[n].wa_timestamp

MarksInv ==
  /\ RepliesInv /\ RowsInv
  /\ \A n \in Messages : DecisionOK(n, task[n])
  /\ MarkedProcessed

\* A step of the task of m, which is not done: those that are stay done, and
\* none of them becomes apart from the others.
LEMMA DoneGrows ==
  ASSUME NEW m \in Messages, task[m].phase # "done", UNCHANGED message,
         \A n \in Messages : n # m => task'[n] = task[n]
  PROVE  /\ \A c : Done(c) \subseteq Done(c)'
         /\ \A c : \A x \in Done(c)' : x \in Done(c) \/ (x = m /\ message[m].chat = c)
         /\ \A c : \A x \in Done(c) : Apart(x, Done(c))' => Apart(x, Done(c))
<1>1. \A c : Done(c) \subseteq Done(c)'
  BY DEF Done, In
<1>2. \A c : \A x \in Done(c)' : x \in Done(c) \/ (x = m /\ message[m].chat = c)
  BY DEF Done, In
<1>3. \A c : \A x \in Done(c) : x \in Messages /\ x # m /\ task'[x] = task[x]
  BY DEF Done, In
<1>4. QED
  BY <1>1, <1>2, <1>3 DEF Apart

\* A step of one task that writes no thread row.
LEMMA BecomeKeepsMarks ==
  ASSUME MarksInv, RepliesInv', NEW m \in Messages, NEW t \in Task, task[m].phase # "done",
         UNCHANGED <<thread, message>>, task' = [task EXCEPT ![m] = t],
         t.before \subseteq Done(message[m].chat),
         DecisionOK(m, t), t.phase = "done" => Marked(m)
  PROVE  MarksInv'
<1>1. \A n \in Messages : task'[n] = IF n = m THEN t ELSE task[n]
  BY DEF MarksInv, RepliesInv, IInv, TypeOK
<1>2. /\ \A c : Done(c) \subseteq Done(c)'
      /\ \A c : \A x \in Done(c) : Apart(x, Done(c))' => Apart(x, Done(c))
  BY <1>1, DoneGrows
<1>3. RowsInv'
  BY DEF MarksInv, RowsInv
<1>4. ASSUME NEW n \in Messages PROVE DecisionOK(n, task[n])'
  <2>1. DecisionOK(n, task'[n]) /\ task'[n].before \subseteq Done(message[n].chat)
    BY <1>1 DEF MarksInv, RepliesInv, ReplyOK
  <2>2. QED
    BY <1>2, <2>1 DEF DecisionOK, already_processed
<1>5. MarkedProcessed'
  <2> SUFFICES ASSUME NEW n \in Messages, In(n, "done")', Apart(n, Done(message[n].chat))'
               PROVE  Marked(n)
    BY DEF MarkedProcessed, Marked, already_processed
  <2>1. CASE n = m
    BY <1>1, <2>1 DEF In
  <2>2. CASE n # m
    <3>1. In(n, "done") /\ n \in Done(message[n].chat)
      BY <1>1, <2>2 DEF In, Done
    <3>2. QED
      BY <1>2, <3>1 DEF MarksInv, MarkedProcessed
  <2>3. QED
    BY <2>1, <2>2
<1>6. QED
  BY <1>3, <1>4, <1>5 DEF MarksInv

\* A step of a task that has decided leaves what it decided on as it is.
LEMMA DecisionKept ==
  ASSUME NEW m, NEW t, NEW u, DecisionOK(m, t), u.before = t.before,
         t.phase \in {"classify", "match", "send", "commit"}
  PROVE  DecisionOK(m, u)
BY DEF DecisionOK

\* The decision is taken on the row as it is, which marks the messages of the
\* tasks that were done before.
LEMMA DecideKeepsMarks ==
  ASSUME MarksInv, RepliesInv', NEW m \in Messages, NEW t \in Task, NEW th \in Thread,
         Decide(m, t, th), message[m] \in Message, t.before = task[m].before,
         th.last_processed_wa_ts = thread[message[m].chat].last_processed_wa_ts,
         task[m].phase \in {"config", "missing"}
  PROVE  MarksInv'
<1>1. task[m].before \subseteq Done(message[m].chat) /\ task[m].phase # "done"
  BY DEF MarksInv, RepliesInv, ReplyOK
<1>2. CASE already_processed(m, th) /\ Become(m, Over(t, "done"))
  <2> DEFINE u == Over(t, "done")
  <2>1. u \in Task /\ u.phase = "done" /\ u.before = t.before
    BY OverEnds DEF Ended, Ends
  <2>2. Become(m, u)
    BY <1>2
  <2> HIDE DEF u
  <2>3. DecisionOK(m, u) /\ Marked(m)
    BY <1>2, <2>1 DEF DecisionOK, Marked, already_processed
  <2>4. QED
    BY <1>1, <2>1, <2>2, <2>3, BecomeKeepsMarks DEF Become
<1>3. ASSUME NEW phase \in {"commit", "send", "classify"}, NEW handoff \in BOOLEAN,
             ~ already_processed(m, th),
             Become(m, [t EXCEPT !.phase = phase, !.handoff = handoff])
      PROVE  MarksInv'
  <2> DEFINE u == [t EXCEPT !.phase = phase, !.handoff = handoff]
  <2>1. u \in Task /\ u.phase = phase /\ u.before = t.before
    BY DEF Task, Running
  <2>2. Become(m, u)
    BY <1>3
  <2> HIDE DEF u
  <2>3. ASSUME NEW x \in u.before, Apart(x, Done(message[m].chat))
        PROVE  message[x].wa_timestamp < message[m].wa_timestamp
    <3>1. x \in Messages /\ In(x, "done") /\ message[x].chat = message[m].chat
      BY <1>1, <2>1 DEF Done
    <3>2. message[x].wa_timestamp <= th.last_processed_wa_ts
      BY <2>3, <3>1 DEF MarksInv, MarkedProcessed, Marked, already_processed
    <3>3. message[x] \in Message
      BY <3>1 DEF MarksInv, RepliesInv, IInv, TaskInv, In
    <3>4. QED
      BY <1>3, <3>2, <3>3, Times DEF already_processed
  <2>4. DecisionOK(m, u)
    BY <1>3, <2>3 DEF DecisionOK, already_processed
  <2>5. QED
    BY <1>1, <1>3, <2>1, <2>2, <2>4, BecomeKeepsMarks DEF Become
<1>4. /\ [t EXCEPT !.phase = "commit"] = [t EXCEPT !.phase = "commit", !.handoff = t.handoff]
      /\ [t EXCEPT !.phase = "classify"] = [t EXCEPT !.phase = "classify", !.handoff = t.handoff]
      /\ t.handoff \in BOOLEAN
  BY DEF Task
<1>5. QED
  BY <1>2, <1>3, <1>4 DEF Decide

\* A commit marks its own message.  One that stays apart from it was done before
\* its task began, and is earlier.
LEMMA CommitKeepsMarks ==
  ASSUME MarksInv, RepliesInv', NEW m \in Messages, CommitTask(m)
  PROVE  MarksInv'
<1> DEFINE u == Over(task[m], "done")
<1>0. message[m].chat \in Chats /\ message[m] \in Message
  BY DEF CommitTask, In, MarksInv, RepliesInv, IInv, TaskInv, Message
<1> PICK c \in Chats : c = message[m].chat
  BY <1>0
<1>1. /\ thread' = [thread EXCEPT ![c] = Written(m)]
      /\ task' = [task EXCEPT ![m] = u]
      /\ UNCHANGED message
      /\ task[m].phase = "commit" /\ task[m] \in Task /\ c = message[m].chat
      /\ thread \in [Chats -> Thread] /\ task \in [Messages -> Task]
  BY DEF CommitTask, In, MarksInv, RepliesInv, IInv, TypeOK
<1>2. u.phase = "done" /\ u.before = task[m].before
  BY <1>1, OverEnds DEF Ended, Ends
<1> HIDE DEF u
<1>3. /\ task'[m] = u
      /\ \A n \in Messages : n # m => task'[n] = task[n]
      /\ thread'[c] = Written(m)
      /\ \A d \in Chats : d # c => thread'[d] = thread[d]
      /\ Written(m).exists /\ Written(m).last_processed_wa_ts = message[m].wa_timestamp
  BY <1>1 DEF Written
<1>4. /\ \A d : Done(d) \subseteq Done(d)'
      /\ \A d : \A x \in Done(d) : Apart(x, Done(d))' => Apart(x, Done(d))
      /\ m \in Done(c)' /\ \A d : m \notin Done(d)
  <2>1. m \in Done(c)' /\ \A d : m \notin Done(d)
    BY <1>1, <1>2, <1>3 DEF Done, In
  <2>2. QED
    BY <1>1, <1>3, <2>1, DoneGrows
<1>5. RowsInv'
  BY <1>3 DEF MarksInv, RowsInv
<1>6. \A n \in Messages : DecisionOK(n, task[n]) /\ task[n].before \subseteq Done(message[n].chat)
  BY DEF MarksInv, RepliesInv, ReplyOK
<1>7. ASSUME NEW n \in Messages PROVE DecisionOK(n, task[n])'
  <2>1. CASE n = m
    BY <1>2, <1>3, <2>1 DEF DecisionOK
  <2>2. CASE n # m /\ message[n].chat = c
    BY <1>1, <1>3, <1>4, <1>6, <2>2 DEF DecisionOK
  <2>3. CASE n # m /\ message[n].chat # c
    <3>1. task[n].phase # "none" => message[n].chat \in Chats
      BY DEF MarksInv, RepliesInv, IInv, TaskInv, Message
    <3>2. QED
      BY <1>1, <1>3, <1>4, <1>6, <2>3, <3>1 DEF DecisionOK, already_processed
  <2>4. QED
    BY <2>1, <2>2, <2>3
<1>8. MarkedProcessed'
  <2> SUFFICES ASSUME NEW n \in Messages, In(n, "done")', Apart(n, Done(message[n].chat))'
               PROVE  Marked(n)'
    BY DEF MarkedProcessed
  <2>1. CASE n = m
    BY <1>0, <1>1, <1>3, <2>1, Times DEF Marked, already_processed
  <2>2. CASE n # m
    <3>1. /\ In(n, "done") /\ n \in Done(message[n].chat)
          /\ message[n] \in Message /\ message[n].chat \in Chats
      BY <1>3, <2>2 DEF In, Done, MarksInv, RepliesInv, IInv, TaskInv, Message
    <3>2. Apart(n, Done(message[n].chat))
      BY <1>1, <1>4, <3>1
    <3>3. CASE message[n].chat # c
      BY <1>1, <1>3, <3>1, <3>2, <3>3 DEF MarksInv, MarkedProcessed, Marked, already_processed
    <3>4. CASE message[n].chat = c
      <4>1. m \in task'[n].before \/ n \in task'[m].before
        BY <1>1, <1>4, <2>2, <3>4 DEF Apart
      <4>2. n \in task[m].before
        BY <1>2, <1>3, <1>4, <1>6, <2>2, <4>1
      <4>3. message[n].wa_timestamp < message[m].wa_timestamp
        BY <1>1, <1>6, <3>2, <3>4, <4>2 DEF DecisionOK
      <4>4. QED
        BY <1>0, <1>1, <1>3, <3>1, <3>4, <4>3, Times DEF Marked, already_processed
    <3>5. QED
      BY <3>3, <3>4
  <2>3. QED
    BY <2>1, <2>2
<1>9. QED
  BY <1>5, <1>7, <1>8 DEF MarksInv

\* A step of a task.
LEMMA StepKeepsMarks ==
  ASSUME MarksInv, RepliesInv', NEW m \in Messages, Step(m) \/ Crash(m)
  PROVE  MarksInv'
<1>1. /\ task[m] \in Task /\ now \in 0 .. MaxTime /\ chatbot_enabled \in BOOLEAN
      /\ thread \in [Chats -> Thread] /\ task \in [Messages -> Task]
      /\ task[m].phase # "none" => message[m] \in Message /\ message[m].chat \in Chats
      /\ task[m].handoff \in BOOLEAN
  BY DEF MarksInv, RepliesInv, IInv, TypeOK, TaskInv, Message, Task
<1>2. DecisionOK(m, task[m]) /\ task[m].before \subseteq Done(message[m].chat)
  BY DEF MarksInv, RepliesInv, ReplyOK
<1>3. ASSUME NEW u \in Task, Become(m, u), task[m].phase # "done", u.phase # "done",
             u.before \subseteq Done(message[m].chat),
             u.phase \in {"classify", "match", "send", "commit"}
               => task[m].phase \in {"classify", "match", "send", "commit"}
                    /\ u.before = task[m].before
      PROVE  MarksInv'
  <2>1. DecisionOK(m, u)
    BY <1>2, <1>3, DecisionKept DEF DecisionOK
  <2>2. QED
    BY <1>3, <2>1, BecomeKeepsMarks DEF Become
<1>4. \A phase \in Ended :
        LET u == Over(task[m], phase)
        IN  u \in Task /\ u.phase = phase /\ u.before \in {{}, task[m].before}
  BY <1>1, OverEnds DEF Ends
<1>5. CASE ReadConfig(m)
  <2> DEFINE u == [task[m] EXCEPT !.phase = "config", !.start = now, !.enabled = chatbot_enabled,
                                  !.before = Done(message[m].chat)]
  <2>1. u \in Task /\ u.phase = "config" /\ u.before = Done(message[m].chat)
    BY <1>1, DoneOK DEF Task, Running
  <2>2. task[m].phase = "queued" /\ Become(m, u)
    BY <1>5 DEF ReadConfig, In
  <2> HIDE DEF u
  <2>3. QED
    BY <1>3, <2>1, <2>2
<1>6. CASE ReadThread(m)
  <2>1. task[m].phase = "config" /\ thread[message[m].chat] \in Thread
    BY <1>1, <1>6 DEF ReadThread, In
  <2>2. CASE Decide(m, task[m], thread[message[m].chat])
    BY <1>1, <2>1, <2>2, DecideKeepsMarks
  <2>3. CASE Become(m, [task[m] EXCEPT !.phase = "missing"])
    <3>1. LET u == [task[m] EXCEPT !.phase = "missing"]
          IN  u \in Task /\ u.phase = "missing" /\ u.before = task[m].before
      BY <1>1 DEF Task, Running
    <3>2. QED
      BY <1>2, <1>3, <2>1, <2>3, <3>1
  <2>4. QED
    BY <1>6, <2>2, <2>3 DEF ReadThread
<1>7. CASE CreateThread(m)
  <2> DEFINE u == [task[m] EXCEPT !.held = TRUE]
  <2>1. task[m].phase = "missing" /\ Decide(m, u, NewThread)
    BY <1>7 DEF CreateThread, In
  <2>2. u \in Task /\ u.before = task[m].before
    BY <1>1 DEF Task
  <2>3. NewThread.last_processed_wa_ts = thread[message[m].chat].last_processed_wa_ts
    BY <1>1, <1>7, <2>1 DEF CreateThread, MarksInv, RowsInv, NewThread, NoThread
  <2> HIDE DEF u
  <2>4. QED
    BY <1>1, <2>1, <2>2, <2>3, RecordsOK, DecideKeepsMarks
<1>8. CASE ThreadExists(m)
  <2>1. Become(m, Over(task[m], "beaten")) /\ task[m].phase = "missing" /\ "beaten" \in Ended
    BY <1>8 DEF ThreadExists, In, Ended
  <2>2. QED
    BY <1>2, <1>3, <1>4, <2>1
<1>9. CASE classify_message(m)
  <2>1. task[m].phase = "classify"
    BY <1>9 DEF classify_message, In
  <2>2. CASE Become(m, Over(task[m], "failed"))
    <3>1. "failed" \in Ended
      BY DEF Ended
    <3>2. QED
      BY <1>2, <1>3, <1>4, <2>1, <2>2, <3>1
  <2>3. ASSUME NEW phase \in {"match", "send", "commit"}, NEW handoff \in BOOLEAN,
               Become(m, [task[m] EXCEPT !.phase = phase, !.handoff = handoff])
        PROVE  MarksInv'
    <3>1. LET u == [task[m] EXCEPT !.phase = phase, !.handoff = handoff]
          IN  u \in Task /\ u.phase = phase /\ u.before = task[m].before
      BY <1>1 DEF Task, Running
    <3>2. QED
      BY <1>2, <1>3, <2>1, <2>3, <3>1
  <2>4. \A phase : [task[m] EXCEPT !.phase = phase]
                     = [task[m] EXCEPT !.phase = phase, !.handoff = task[m].handoff]
    BY <1>1 DEF Task
  <2>5. QED
    BY <1>1, <1>9, <2>2, <2>3, <2>4 DEF classify_message
<1>10. CASE match_properties(m)
  <2>1. task[m].phase = "match" /\ Become(m, [task[m] EXCEPT !.phase = "send", !.held = TRUE])
    BY <1>10 DEF match_properties, In
  <2>2. LET u == [task[m] EXCEPT !.phase = "send", !.held = TRUE]
        IN  u \in Task /\ u.phase = "send" /\ u.before = task[m].before
    BY <1>1 DEF Task, Running
  <2>3. QED
    BY <1>2, <1>3, <2>1, <2>2
<1>11. CASE DirectMessageSent(m)
  <2>1. PICK acknowledged \in BOOLEAN :
          task' = [task EXCEPT ![m].phase = "commit", ![m].sent = now,
                               ![m].replied = IF acknowledged THEN now ELSE Never]
    BY <1>11 DEF DirectMessageSent
  <2>2. task[m].phase = "send" /\ UNCHANGED <<thread, message>>
    BY <1>11 DEF DirectMessageSent, In
  <2>3. \E u \in Task : task' = [task EXCEPT ![m] = u] /\ u.phase = "commit" /\ u.before = task[m].before
    <3>1. task'[m] \in Task
      BY DEF RepliesInv, IInv, TypeOK
    <3>2. task'[m].phase = "commit" /\ task'[m].before = task[m].before
      BY <1>1, <2>1 DEF Task
    <3>3. task' = [task EXCEPT ![m] = task'[m]]
      BY <1>1, <2>1
    <3>4. QED
      BY <3>1, <3>2, <3>3
  <2>4. PICK u \in Task : /\ task' = [task EXCEPT ![m] = u]
                          /\ u.phase = "commit" /\ u.before = task[m].before
    BY <2>3
  <2>5. DecisionOK(m, u)
    BY <1>2, <2>2, <2>4, DecisionKept
  <2>6. QED
    BY <1>2, <2>2, <2>4, <2>5, BecomeKeepsMarks
<1>12. CASE DirectMessageFails(m)
  <2>1. task[m].phase = "send" /\ Become(m, [task[m] EXCEPT !.phase = "commit"])
    BY <1>12 DEF DirectMessageFails, In
  <2>2. LET u == [task[m] EXCEPT !.phase = "commit"]
        IN  u \in Task /\ u.phase = "commit" /\ u.before = task[m].before
    BY <1>1 DEF Task, Running
  <2>3. QED
    BY <1>2, <1>3, <2>1, <2>2
<1>13. CASE CommitTask(m)
  BY <1>13, CommitKeepsMarks
<1>14. CASE Crash(m)
  <2> DEFINE u == [Over(task[m], "lost") EXCEPT !.handoff = task[m].handoff]
  <2>1. u \in Task /\ u.phase = "lost" /\ u.before \in {{}, task[m].before}
    BY <1>1, OverEnds DEF Ends, Ended
  <2>2. task[m].phase # "done" /\ Become(m, u)
    BY <1>14 DEF Crash, Running
  <2> HIDE DEF u
  <2>3. QED
    BY <1>2, <1>3, <2>1, <2>2
<1>15. QED
  BY <1>5, <1>6, <1>7, <1>8, <1>9, <1>10, <1>11, <1>12, <1>13, <1>14 DEF Step

\* The webhook stores a message that no task has looked at; the admin writes the
\* mode and no other column.
LEMMA OtherKeepsMarks ==
  ASSUME MarksInv, RepliesInv',
         \/ \E m \in Messages, row \in Message : inbound_message(m, row)
         \/ \E c \in Chats, mode \in {"bot", "human"} : update_thread(c, mode)
         \/ update_bot_config \/ Tick \/ UNCHANGED vars
  PROVE  MarksInv'
<1>1. ASSUME NEW m \in Messages, NEW row \in Message, inbound_message(m, row)
      PROVE  MarksInv'
  <2>1. /\ message' = [message EXCEPT ![m] = row]
        /\ task' = [task EXCEPT ![m].phase = "queued"]
        /\ UNCHANGED thread
        /\ task[m].phase = "none" /\ task[m] \in Task
    BY <1>1 DEF inbound_message, In, MarksInv, RepliesInv, IInv, TypeOK
  <2>2. /\ task'[m].phase = "queued" /\ task'[m].before = task[m].before
        /\ \A n \in Messages : n # m => task'[n] = task[n] /\ message'[n] = message[n]
    BY <2>1 DEF MarksInv, RepliesInv, IInv, TypeOK, Task
  <2>3. /\ \A c : Done(c)' = Done(c)
        /\ \A c : \A x \in Done(c) : /\ x \in Messages /\ x # m
                                     /\ task'[x] = task[x] /\ message'[x] = message[x]
    BY <2>1, <2>2 DEF Done, In
  <2>4. \A c : \A x \in Done(c) : Apart(x, Done(c))' <=> Apart(x, Done(c))
    BY <2>3 DEF Apart
  <2>5. RowsInv'
    BY <2>1 DEF MarksInv, RowsInv
  <2>6. ASSUME NEW n \in Messages PROVE DecisionOK(n, task[n])'
    <3>1. CASE n = m
      BY <2>2, <3>1 DEF DecisionOK
    <3>2. CASE n # m
      <4>1. DecisionOK(n, task[n]) /\ task[n].before \subseteq Done(message[n].chat)
        BY DEF MarksInv, RepliesInv, ReplyOK
      <4>2. QED
        BY <2>1, <2>2, <2>3, <2>4, <3>2, <4>1 DEF DecisionOK, already_processed
    <3>3. QED
      BY <3>1, <3>2
  <2>7. MarkedProcessed'
    <3> SUFFICES ASSUME NEW n \in Messages, In(n, "done")', Apart(n, Done(message[n].chat))'
                 PROVE  Marked(n)'
      BY DEF MarkedProcessed
    <3>1. In(n, "done") /\ message'[n] = message[n] /\ n \in Done(message[n].chat)
      BY <2>2 DEF In, Done
    <3>2. Marked(n)
      BY <2>3, <2>4, <3>1 DEF MarksInv, MarkedProcessed
    <3>3. QED
      BY <2>1, <3>1, <3>2 DEF Marked, already_processed
  <2>8. QED
    BY <2>5, <2>6, <2>7 DEF MarksInv
<1>2. CASE ~ \E m \in Messages, row \in Message : inbound_message(m, row)
  <2>1. UNCHANGED <<message, task>>
    BY <1>2 DEF update_thread, update_bot_config, Tick, vars
  <2>2. \A d \in Chats : /\ thread'[d].exists = thread[d].exists
                          /\ thread'[d].last_processed_wa_ts = thread[d].last_processed_wa_ts
    <3>1. ASSUME NEW c \in Chats, NEW mode \in {"bot", "human"}, update_thread(c, mode),
                 NEW d \in Chats
          PROVE  /\ thread'[d].exists = thread[d].exists
                 /\ thread'[d].last_processed_wa_ts = thread[d].last_processed_wa_ts
      <4>1. thread \in [Chats -> Thread] /\ thread[c] \in Thread
        BY DEF MarksInv, RepliesInv, IInv, TypeOK
      <4>2. thread' = [thread EXCEPT ![c] = [thread[c] EXCEPT !.mode = mode]]
        BY <3>1 DEF update_thread
      <4>3. CASE d = c
        BY <4>1, <4>2, <4>3 DEF Thread
      <4>4. CASE d # c
        BY <4>1, <4>2, <4>4
      <4>5. QED
        BY <4>3, <4>4
    <3>2. QED
      BY <1>2, <3>1 DEF update_bot_config, Tick, vars
  <2>3. \A n \in Messages : task[n].phase # "none" => message[n].chat \in Chats
    BY DEF MarksInv, RepliesInv, IInv, TaskInv, Message
  <2>4. RowsInv'
    BY <2>2 DEF MarksInv, RowsInv
  <2>5. /\ \A c : Done(c)' = Done(c)
        /\ \A x, c : Apart(x, Done(c))' <=> Apart(x, Done(c))
    BY <2>1 DEF Done, In, Apart
  <2>6. ASSUME NEW n \in Messages PROVE DecisionOK(n, task[n])'
    BY <2>1, <2>2, <2>3, <2>5 DEF MarksInv, DecisionOK, already_processed
  <2>7. MarkedProcessed'
    <3> SUFFICES ASSUME NEW n \in Messages, In(n, "done")', Apart(n, Done(message[n].chat))'
                 PROVE  Marked(n)'
      BY DEF MarkedProcessed
    <3>1. In(n, "done") /\ message[n].chat \in Chats
      BY <2>1, <2>3 DEF In
    <3>2. Marked(n)
      BY <2>1, <2>5, <3>1 DEF MarksInv, MarkedProcessed
    <3>3. QED
      BY <2>1, <2>2, <3>1, <3>2 DEF Marked, already_processed
  <2>8. QED
    BY <2>4, <2>6, <2>7 DEF MarksInv
<1>3. QED
  BY <1>1, <1>2

LEMMA InitMarks == ASSUME Init PROVE MarksInv
<1>1. /\ \A m \in Messages : task[m] = NoTask
      /\ thread \in [Chats -> {NoThread, NewThread}]
  BY DEF Init
<1>2. RowsInv
  BY <1>1 DEF RowsInv, NoThread, NewThread
<1>3. \A n \in Messages : DecisionOK(n, task[n])
  BY <1>1 DEF DecisionOK, NoTask
<1>4. MarkedProcessed
  BY <1>1 DEF MarkedProcessed, In, NoTask
<1>5. QED
  BY <1>2, <1>3, <1>4, InitReplies DEF MarksInv

LEMMA NextKeepsMarks == ASSUME MarksInv, [Next]_vars PROVE MarksInv'
<1>1. RepliesInv'
  BY NextKeepsReplies DEF MarksInv
<1>2. QED
  BY <1>1, StepKeepsMarks, OtherKeepsMarks DEF Next, redelivered

\* Whatever became of a message, an answer, a handover or nothing at all: when
\* its task is done it is behind the watermark, and stays there unless its task
\* overlapped another of the chat that is done.
THEOREM EndedMeansMarked == Spec => []MarkedProcessed
<1>1. MarksInv => MarkedProcessed
  BY DEF MarksInv
<1>2. QED
  BY <1>1, InitMarks, NextKeepsMarks, PTL DEF Spec

\* A commit moves the watermark forward, although the messages of a chat come in
\* any order, or another task of the chat has been done since its own began.
THEOREM WatermarkNeverFalls == Spec => WatermarkAdvances
<1>1. ASSUME MarksInv, [Next]_vars, NEW c \in Chats
      PROVE  \/ thread'[c].last_processed_wa_ts >= thread[c].last_processed_wa_ts
             \/ \E m \in Done(c)' \ Done(c) : Done(c) \ task[m].before # {}
  <2>1. /\ thread \in [Chats -> Thread] /\ task \in [Messages -> Task]
        /\ thread[c].last_processed_wa_ts \in Nat
    BY <1>1, Times DEF MarksInv, RepliesInv, IInv, TypeOK
  <2>2. CASE UNCHANGED thread
    BY <2>1, <2>2
  <2>3. ASSUME NEW m \in Messages, CommitTask(m)
        PROVE  \/ thread'[c].last_processed_wa_ts >= thread[c].last_processed_wa_ts
               \/ m \in Done(c)' \ Done(c) /\ Done(c) \ task[m].before # {}
    <3>1. /\ thread' = [thread EXCEPT ![message[m].chat] = Written(m)]
          /\ task' = [task EXCEPT ![m] = Over(task[m], "done")]
          /\ UNCHANGED message
          /\ task[m].phase = "commit" /\ message[m] \in Message
      BY <1>1, <2>3 DEF CommitTask, In, MarksInv, RepliesInv, IInv, TaskInv
    <3>2. CASE c # message[m].chat
      BY <2>1, <3>1, <3>2
    <3>3. CASE c = message[m].chat
      <4>1. m \in Done(c)' \ Done(c)
        BY <2>1, <3>1, <3>3 DEF Done, In, Over, NoTask
      <4>2. CASE Done(c) \subseteq task[m].before
        <5>1. ~ message[m].wa_timestamp <= thread[c].last_processed_wa_ts
          BY <1>1, <3>1, <3>3, <4>2 DEF MarksInv, DecisionOK, already_processed
        <5>2. thread'[c].last_processed_wa_ts = message[m].wa_timestamp
          BY <2>1, <3>1, <3>3 DEF Written
        <5>3. QED
          BY <2>1, <3>1, <5>1, <5>2, Times
      <4>3. QED
        BY <4>1, <4>2
    <3>4. QED
      BY <3>2, <3>3
  <2>4. ASSUME NEW d \in Chats, NEW mode \in {"bot", "human"}, update_thread(d, mode)
        PROVE  thread'[c].last_processed_wa_ts >= thread[c].last_processed_wa_ts
    <3>1. thread' = [thread EXCEPT ![d] = [thread[d] EXCEPT !.mode = mode]]
      BY <2>4 DEF update_thread
    <3>2. thread'[c].last_processed_wa_ts = thread[c].last_processed_wa_ts
      BY <2>1, <3>1 DEF Thread
    <3>3. QED
      BY <2>1, <3>2
  <2>5. UNCHANGED thread \/ (\E m \in Messages : CommitTask(m))
          \/ (\E d \in Chats, mode \in {"bot", "human"} : update_thread(d, mode))
    BY <1>1 DEF Next, Step, inbound_message, redelivered, ReadConfig, ReadThread,
                CreateThread, ThreadExists, classify_message, match_properties,
                DirectMessageSent, DirectMessageFails, Crash, Decide, Become,
                update_bot_config, Tick, vars
  <2>6. QED
    BY <2>2, <2>3, <2>4, <2>5
<1>2. MarksInv /\ [Next]_vars
        => [\A c \in Chats :
              \/ thread'[c].last_processed_wa_ts >= thread[c].last_processed_wa_ts
              \/ \E m \in Done(c)' \ Done(c) : Done(c) \ task[m].before # {}]_vars
  BY <1>1
<1>3. QED
  BY <1>2, InitMarks, NextKeepsMarks, PTL DEF Spec, WatermarkAdvances
=============================================================================
