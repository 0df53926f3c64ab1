------------------------------ MODULE Summaries ------------------------------
(***************************************************************************)
(* The summaries of conversations: summarizer.py, run by summaries_routes.py*)
(* on every active thread or on one, and the daily digest of digest.py.    *)
(*                                                                         *)
(* A run is one request and one session.  It fixes the end of its period,  *)
(* goes through the threads, and awaits the model for each of them with    *)
(* nothing locked; a row is written and committed per thread.  Messages    *)
(* carry the start of the transaction that stores them, and so do the      *)
(* summaries.  A request that fails ends where it is.  Python and the      *)
(* database share one clock.                                               *)
(***************************************************************************)
EXTENDS Integers, FiniteSetsExt

CONSTANTS
  Chats,      \* the chats that have a thread
  Messages,   \* messages of these chats
  Runs,       \* runs of the summarizer; each is made once
  Activity,   \* only_threads_active_within
  Window,     \* digest_window_hours
  MaxTime,    \* bound: the clock
  MaxDigests  \* bound: digests

\* What MCConversations assumes of them.
SummariesAssumption ==
  /\ Chats # {}
  /\ Activity \in Nat /\ Window \in Nat /\ MaxTime \in Nat /\ MaxDigests \in Nat

VARIABLES
  now,        \* the clock
  message,    \* the table of messages
  active,     \* last_message_at of every thread
  summaries,  \* the table of summaries
  run,        \* what every run has done
  digests,    \* the digests made so far, and the time of the last
  overlapped  \* history: the pairs of runs of which one committed a summary of a
              \* chat while the other had read it

vars == <<now, message, active, summaries, run, digests, overlapped>>

-----------------------------------------------------------------------------
Time == 0 .. MaxTime
Never == -1
Message == [at : {"none", "storing", "stored"}, chat : Chats, created : Time]

\* hidden   history: the messages that were not committed when it read the chat
\* seen     history: the digests made when its transaction began
\* shown    history: a digest has selected it
\* skipped  history: a digest on time left it out, and so many came before
ConversationSummary ==
  [ chat : Chats, period_start : Time, period_end : Time, messages : SUBSET Messages,
    created : Time, by : Runs, hidden : SUBSET Messages,
    seen : 0 .. MaxDigests, shown : BOOLEAN, skipped : 0 .. MaxDigests ]

\* began    the start of the session's transaction, Never without one
Run == [ at : {"idle", "next", "model", "over"}, until : Time, todo : SUBSET Chats,
         chat : SUBSET Chats, after : Time \cup {Never}, messages : SUBSET Messages,
         hidden : SUBSET Messages, began : Time \cup {Never}, seen : 0 .. MaxDigests ]
Idle == [ at |-> "idle", until |-> 0, todo |-> {}, chat |-> {}, after |-> Never, messages |-> {},
          hidden |-> {}, began |-> Never, seen |-> 0 ]
Over == [Idle EXCEPT !.at = "over"]

At(r, where) == run[r].at = where
Go(r, q) == run' = [run EXCEPT ![r] = q]

\* The thread is done with; after the last the request is answered.
Done(q) ==
  IF q.todo = {} THEN Over
  ELSE [ Idle EXCEPT !.at = "next", !.until = q.until, !.todo = q.todo, !.began = q.began, !.seen = q.seen ]

-----------------------------------------------------------------------------
\* The webhook stores a message in two steps: created_at is the start of its
\* transaction, and nobody sees the row before the commit.
Receive(m, c) ==
  /\ message[m].at = "none"
  /\ message' = [message EXCEPT ![m] = [at |-> "storing", chat |-> c, created |-> now]]
  /\ UNCHANGED <<now, active, summaries, run, digests, overlapped>>

Store(m) ==
  /\ message[m].at = "storing"
  /\ message' = [message EXCEPT ![m].at = "stored"]
  /\ UNCHANGED <<now, active, summaries, run, digests, overlapped>>

\* process_inbound of the chatbot, later and perhaps never.
Process(c) ==
  /\ \E m \in Messages : message[m].at = "stored" /\ message[m].chat = c
  /\ active' = [active EXCEPT ![c] = now]
  /\ UNCHANGED <<now, message, summaries, run, digests, overlapped>>

-----------------------------------------------------------------------------
\* summarize_all_threads: the threads with recent activity, or none.
summarize_all_threads(r) ==
  /\ At(r, "idle")
  /\ LET threads == { c \in Chats : active[c] # Never /\ active[c] >= now - Activity }
     IN Go(r, Done([Idle EXCEPT !.until = now, !.todo = threads, !.began = now, !.seen = digests.count]))
  /\ UNCHANGED <<now, message, active, summaries, digests, overlapped>>

\* summarize_one_thread, whatever its activity.
summarize_one_thread(r, c) ==
  /\ At(r, "idle") /\ active[c] # Never
  /\ Go(r, Done([Idle EXCEPT !.until = now, !.todo = {c}, !.began = now, !.seen = digests.count]))
  /\ UNCHANGED <<now, message, active, summaries, digests, overlapped>>

\* _previous_period_end
PreviousPeriodEnd(c) ==
  LET ends == { s.period_end : s \in { t \in summaries : t.chat = c } }
  IN IF ends = {} THEN Never ELSE Max(ends)

Stored == { m \in Messages : message[m].at = "stored" }

\* _fetch_period_messages: those of (after, until].
Bug_Period(c, after, until) ==
  { m \in Stored : message[m].chat = c /\ message[m].created > after /\ message[m].created < until }
Bug_PeriodClosed(c, after, until) ==
  { m \in Stored : message[m].chat = c /\ message[m].created >= after /\ message[m].created <= until }
Period(c, after, until) ==
  { m \in Stored : message[m].chat = c /\ message[m].created > after /\ message[m].created <= until }

\* summarize_thread up to the call of the model: nothing to summarise, or a
\* transcript.  The transaction began with the first statement after a commit.
Read(r) ==
  /\ At(r, "next")
  /\ \E c \in run[r].todo :
       LET q == [ run[r] EXCEPT !.todo = @ \ {c},
                    !.began = IF @ = Never THEN now ELSE @,
                    !.seen = IF run[r].began = Never THEN digests.count ELSE @ ]
           after == PreviousPeriodEnd(c)
           messages == Period(c, after, q.until)
       IN Go(r, IF after >= q.until \/ messages = {} THEN Done(q)
                ELSE [ q EXCEPT !.at = "model", !.chat = {c}, !.after = after,
                                !.messages = messages, !.hidden = Messages \ Stored ])
  /\ UNCHANGED <<now, message, active, summaries, digests, overlapped>>

\* No key, an error, an answer that is not JSON, or an empty summary: the thread is
\* skipped, and nothing is written.
Skip(r) ==
  /\ At(r, "model")
  /\ Go(r, Done(run[r]))
  /\ UNCHANGED <<now, message, active, summaries, digests, overlapped>>

\* The upsert on (chat_jid, period_end), which leaves created_at as it is, and its
\* commit.
Row(r, c) ==
  LET q == run[r]
      old == { s \in summaries : s.chat = c /\ s.period_end = q.until }
      new == [ chat |-> c, period_end |-> q.until, messages |-> q.messages, hidden |-> q.hidden,
               period_start |-> IF q.after # Never THEN q.after
                                ELSE Min({ message[m].created : m \in q.messages }),
               created |-> q.began, by |-> r, seen |-> q.seen, shown |-> FALSE, skipped |-> 0 ]
  IN IF old = {} THEN new
     ELSE LET row == CHOOSE s \in old : TRUE
          IN [ new EXCEPT !.created = row.created, !.seen = row.seen,
                          !.shown = row.shown, !.skipped = row.skipped ]

Write(r) ==
  /\ At(r, "model")
  /\ \E c \in run[r].chat :
       /\ summaries' = { s \in summaries : s.chat # c \/ s.period_end # run[r].until } \cup {Row(r, c)}
       /\ overlapped' = overlapped \cup
            { {r, q} : q \in { p \in Runs \ {r} : At(p, "model") /\ run[p].chat = {c} } }
  /\ Go(r, Done([run[r] EXCEPT !.began = Never]))
  /\ UNCHANGED <<now, message, active, digests>>

\* The request fails: the database, or an answer of the model that is JSON but no
\* object.
Fail(r) ==
  /\ run[r].at \in {"next", "model"}
  /\ Go(r, Over)
  /\ UNCHANGED <<now, message, active, summaries, digests, overlapped>>

-----------------------------------------------------------------------------
\* send_daily_digest: the summaries of the window.  The mail keeps no trace, so a
\* digest is what is selected for it, whether the mail arrives or not; of a thread
\* with several it shows the text of the latest and the actions of all.  A call
\* without a recipient is no step, one that finds nothing sends no mail.
Bug_InWindow(s) == s.created > now - Window
InWindow(s) == s.created >= now - Window

send_daily_digest ==
  /\ digests.count < MaxDigests
  /\ digests' = [count |-> digests.count + 1, last |-> now]
  /\ LET onTime == digests.count > 0 /\ now - digests.last <= Window
     IN summaries' =
          { [ s EXCEPT !.shown = @ \/ InWindow(s),
                !.skipped = IF onTime /\ @ = 0 /\ ~ s.shown /\ ~ InWindow(s) THEN digests.count ELSE @ ]
            : s \in summaries }
  /\ UNCHANGED <<now, message, active, run, overlapped>>

Tick ==
  /\ now < MaxTime
  /\ now' = now + 1
  /\ UNCHANGED <<message, active, summaries, run, digests, overlapped>>

-----------------------------------------------------------------------------
Init ==
  /\ now = 0
  /\ message = [m \in Messages |-> [at |-> "none", chat |-> CHOOSE c \in Chats : TRUE, created |-> 0]]
  /\ active = [c \in Chats |-> Never]
  /\ summaries = {}
  /\ run = [r \in Runs |-> Idle]
  /\ digests = [count |-> 0, last |-> 0]
  /\ overlapped = {}

Next ==
  \/ \E m \in Messages : Store(m) \/ \E c \in Chats : Receive(m, c)
  \/ \E c \in Chats : Process(c)
  \/ \E r \in Runs :
       \/ summarize_all_threads(r) \/ Read(r) \/ Skip(r) \/ Write(r) \/ Fail(r)
       \/ \E c \in Chats : summarize_one_thread(r, c)
  \/ send_daily_digest
  \/ Tick

Spec == Init /\ [][Next]_vars

-----------------------------------------------------------------------------
\* The types of the rows and of the runs, and one summary of a chat and an end.
TypeOK ==
  /\ now \in Time
  /\ message \in [Messages -> Message]
  /\ active \in [Chats -> Time \cup {Never}]
  /\ summaries \subseteq ConversationSummary
  /\ \A s, t \in summaries : s.chat = t.chat /\ s.period_end = t.period_end => s = t
  /\ run \in [Runs -> Run]
  /\ digests \in [count : 0 .. MaxDigests, last : Time]
  /\ overlapped \subseteq SUBSET Runs

\* summarizer.py:6, the messages "since the last summary's period_end": however
\* runs overlap, skip threads and fail, a stored message is in a summary, or
\* after every period so far and so for the next run, or it was committed after
\* its period had been read.
NothingLost ==
  \A m \in Stored :
    LET rows == { s \in summaries : s.chat = message[m].chat }
    IN \/ \A s \in rows : s.period_end < message[m].created
       \/ \E s \in rows : m \in s.messages
       \/ \E s \in rows : m \in s.hidden /\ message[m].created <= s.period_end

\* summarizer.py:13, "re-running for the same window updates instead of
\* duplicating": a message is in two summaries only when one of their runs
\* committed its summary while the other had read the chat.
SummarisedOnce ==
  \A s, t \in summaries :
    s # t /\ s.messages \cap t.messages # {} => {s.by, t.by} \in overlapped

\* digest.py:1, the digest "bundles yesterday's summaries": of two digests no
\* further apart than the window, the second selects every summary the first could
\* not have, except one whose transaction had begun before the first.
DigestsComplete ==
  \A s \in summaries : s.skipped # 0 => s.seen < s.skipped
=============================================================================
