# A verification of the Classic Jerusalem backend

This directory models the stateful parts of the repository in TLA+, checks the
models with TLC and proves the properties that matter most with TLAPS. The
code is the reference: every definition is translated from it, and
`PROJECT.json` maps each one to the lines it stands for.

## The system

A one-man realtor's back office. A FastAPI backend
(`backend/src/shmuel_backend`) over PostgreSQL, a Node daemon that holds a
WhatsApp connection (`whatsapp-daemon`), a React admin application and a
WordPress site. Everything concurrent meets in the database: every HTTP request
and every background task has a session of its own (`db.py`), at READ COMMITTED,
with no `SELECT ... FOR UPDATE`, no version column and no retry anywhere.

| Component | State it keeps | Operations | What is hard about it | What makes it correct | Status |
|---|---|---|---|---|---|
| Posting calendar (`scheduler.py`, `schedule_config.py`) | one config row | find the next free slot | Shabbat, full slots, boundaries, a search of 60 hops | the slot found is open and no earlier one is | modelled |
| Post queue (`queue_routes.py`, `properties.py`, `auto_poster.py`) | properties, post slots | create, mark posted, skip, cancel, dispatch, change status (bulk too), delete | stale reads across awaits, two-transaction dispatch, row locks, crashes | one pending slot per available property and none for others; capacity; slots leave *pending* once | modelled; the searches of `properties.py` are not |
| Group poster (`auto_poster.py`, `whatsapp_client.py`) | none of its own | send a post to every matching group, three at a time | lost acknowledgements, partial failure, retries | no group gets a post twice or misses it unnoticed | partly: the wording of a post is left out |
| Chatbot (`whatsapp.py`, `chatbot.py`, `threads.py`) | messages, threads, bot config | webhook, background task, takeover, release, on/off | tasks overlap on a thread, the admin interferes during a 20 s classification, re-delivery, crash between send and commit | one answer at most, silence in human hands, distance between answers | partly: the texts, and the making of the config row, are left out |
| Daemon (`whatsapp.ts`, `server.ts`, `index.ts`) | socket, connection state, QR | connect, reconnect, reset, shut down | events of replaced sockets, timers, reset in between | a state that is the state of some socket, and no pile of sockets | partly: the sends are modelled from the caller's side |
| Daemon session store (`authStore.ts`, `backend.ts`, `whatsapp_session` row) | credentials and keys, in memory and stored | load, debounced save, flush, reset | failed load taken for empty, overlapping uploads, crash before the save | one identity, and the last change stored once it is quiet | modelled |
| Newsletter (`newsletter.py`, `email_client.py`) | subscribers, digest watermarks | subscribe, confirm, unsubscribe, delete, digest | watermark before the send, overlap of dispatches | no property told twice or skipped; everybody can leave | modelled |
| Summaries (`summarizer.py`, `digest.py`) | summaries per thread and period | summarise one or all threads, daily digest | overlapping runs, messages that commit late | each message in one summary, each summary in a digest | modelled |
| Leads (`lead_extraction.py`, `leads_routes.py`) and contacts (`contacts.py`) | leads, contacts | extract, correct, approve, reject; create, change, delete, import | double clicks, races of approve and reject, duplicate phones | a lead changes a contact once, and the contact says what the lead says | modelled |
| Cloud photos (`cloud_routes.py`, `cloud/*`, `collage_service.py`) | connection, photo rows, Drive files, cache of packs | connect, disconnect, upload, import, copy, delete, render a pack | two stores without a transaction, lost answers, stale cache | a row for every file and a file for every row | partly: the read-only endpoints and the folders are left out |
| Photo selection (`photo_select.py`) | none | pick the most diverse photos | a greedy algorithm at its boundaries | its result against a definition | the operators; hashing and drawing are left out |
| Translations (`translations.py`) | translations by source hash | synchronise | concurrent runs, edits meanwhile | a stored hash is that of the text translated | modelled |
| Site content (`content_routes.py`, `import_wp_content.py`) | blog posts, neighborhoods, pages | create, patch, delete, import | the import is one long transaction among requests; unique slugs | an import mirrors WordPress, and never publishes a draft | modelled |
| Listing import (`wp_import.py`, `import_wp_properties.py`) | the marker in a property's notes | page through WordPress, skip what is there, create | re-runs, overlaps, listings that move between pages | no listing missed, none made twice | modelled |
| Notes, public API, Yad2, exports, shell, admin application, plugin, mock daemon, deployment | rows, forms | single-transaction CRUD, parsing, rendering | nothing concurrent beyond one row | - | not modelled, see below |

How they interact: a property's status change calls into the queue; the queue
calls the group poster, which calls the daemon over HTTP; the daemon pushes
inbound messages to the webhook, which feeds the chatbot, the summaries and
(from these) the leads, which write contacts; the daemon keeps its session in
the backend's database; a new property triggers the newsletter; three jobs read
WordPress (translations, content, listings), and the listings' galleries go to
Drive, from which the group poster's pictures are rendered.

## The plan

1. `Scheduler`, `SlotSearch` - the calendar. **Done.**
2. `PostQueue` over `Scheduler`, with the abstract `Rotation`, which it is
   shown to implement. **Done.**
3. `Chatbot`. **Done.**
4. `AutoPoster`: the sends of `dispatch_slot`, group by group, and its retry.
   **Done.**
5. `Daemon`, with the session store and the row it is kept in. **Done.**
6. `Newsletter`, `Summaries`, `Leads`. **Done.**
7. `CloudPhotos` over `PhotoSelect`. **Done.**
8. `Translations`, `ContentMirror`, `ListingImport`, the three that follow
   WordPress, composed in `MCSiteContent`. **Done.**
9. Proofs: the calendar, the queue with its refinement of `Rotation`, the
   chatbot, the group poster, the daemon, the newsletter, the leads, the summaries,
   the photos with the selection and the three jobs that follow WordPress.
   **Done**, but for what is named under "Only model-checked".

## Modules

### Scheduler, SlotSearch (`scheduler.py`)

`Scheduler` is the calendar as operators. Time is minutes on the local clock of
the schedule's time zone, minute 0 a Monday midnight. `slot_times`,
`is_in_shabbat_block`, `next_slot_after` and `next_post_slot` are the functions
of the code; `next_post_slot` is stated over the set of open slots, and
`SlotSearch` is the loop of the code, one action per way an iteration goes
(`SkipShabbat`, `SkipFull`, `Return`, `GiveUp`), which is shown to compute it.
Conversions to and from UTC are left out: they are one to one except in the
hour that is repeated in autumn. `next_slot_after` looks at three days, as the
code does; the "exhausted lookahead" error is reached by no input, which
`NextSlotAfter` in `PostQueueProofs` proves. The names of `SlotSearch` are its own
(`SearchSpec`, `now_utc`, `schedule`, `counts`), so that one module can prove about
the search and about the queue that schedules with it.

### PostQueue, Rotation

| Code | Model |
|---|---|
| `Property.status`, the row's existence | `property` |
| `post_slots` in order of insertion | `slots`; rows deleted by the cascade stay as `"deleted"` |
| `ScheduleConfig` | `policy` |
| what an open session has read and written | `requests[r]` |
| `mark_posted`, `skip_slot` | `mark_posted`/`skip_slot` (load), `FlushConsumed` (UPDATE, count, next slot), `Commit` |
| `cancel_slot` | `cancel_slot`, `CommitCancelSlot` |
| `dispatch_now` with `dispatch_slot` | `dispatch_now`, `SendAccepted` or `SendNothing`, `CommitDispatched`, `RollDispatched`, `Commit` |
| `create_property` | `create_available`, `Commit`; `create_off_market` |
| `update_property`, `bulk_update_status` | `update_status`, then for each property `ReadProperty` and `ApplyStatus` or `SameStatus`, then `Commit` |
| `delete_property`, `bulk_delete` | `delete_properties` |
| `update_schedule_config` | `update_schedule_config` |

An action is what a session does between two awaits whose order another session
can see. PostgreSQL is modelled by how the code uses it: a SELECT sees what is
committed and the session's own writes (`SeenPending`, `CountSeen`); an UPDATE
takes the row lock (`SlotFree`, `PropertyFree`) and writes its columns whatever
they hold by then; an UPDATE of a deleted row fails (`SlotGone`,
`PropertyGone`); the foreign key refuses a slot of a deleted property
(`ForeignKeyError`); a cycle of waiting sessions costs one of them its
transaction (`DeadlockVictim`; nothing in the code prevents the cycle, two bulk changes
of the same properties in opposite orders make one). `Crash` ends any request between two steps.

Abstractions: `priority`, `posted_at` and display columns are left out; the
instants at which requests come are a small set, and time stands still within a
request; the slots a status change cancels are locked at its commit; the
deletion is one step, taken when no other session holds a lock it needs (it reads
nothing another request could change and use);
the bulk loop reads the schedule for each property, which the code caches after
the first.

`Rotation` is what the queue is for, without slots or requests: a property is
absent, queued, off the market, deleted, or dropped (available, and nothing will
post it). It gets there from `cancelling` or `rolling` only: its post is being
cancelled by hand, or it has been posted at once and its next post is not arranged
yet. The mapping is the definition `place` of `PostQueue`. `StaysInRotation` says the
same of requests that overlap, where the other places do not hold up.

### Chatbot

| Code | Model |
|---|---|
| `whatsapp_messages` | `message` |
| `whatsapp_threads`: mode, last_processed_wa_ts, last_bot_reply_at | `thread` |
| `bot_config.chatbot_enabled` | `chatbot_enabled` |
| the background task of a message | `task[m]` |
| `inbound_message`, stored and duplicate | `inbound_message`, `redelivered` |
| `process_inbound` | `ReadConfig`, `ReadThread` or `CreateThread` or `ThreadExists`, `classify_message`, `match_properties`, `DirectMessageSent` or `DirectMessageFails`, `CommitTask` |
| `update_thread`, `update_bot_config` | the same names |

`Decide` is the cascade of early returns, taken on the row as read.
`Written` is the row after the commit: SQLAlchemy writes the columns the task
has set and no others, which is why a takeover survives a late commit. A new
thread is locked from its insert, an old one from the autoflush before the
property query of a search reply; a second insert waits and then violates the
unique `chat_jid`, and `_dispatch_chatbot` logs that and forgets the message.
The bot configuration row is taken to exist, group messages are left out (they
are stored and never processed), and `update_thread` is one step: it writes
`mode` only if it read the other one, so it cannot be told from a step that
reads and writes at once. `replies` and `promised` are history variables, and so
are the fields `sent` and `before` of a task: when it sent its reply, acknowledged
or not, and which tasks of its chat were done when it began. `RateLimited`
is about these two: it holds of any number of tasks, but only of a reply that was
recorded before the other task began. The rest is what the code does not keep:
`BurstRateLimited` is the promise of `chatbot.py:356`, which `chatbot_burst` refutes;
a reply that was not acknowledged, or whose task ended before its commit, is no
earlier reply (`chatbot.py:496`, "only on success"); and of two overlapping tasks
the one that commits last may put the older time over the newer, which `Apart`
excludes. The same goes for the watermark: `MarkedProcessed` and `WatermarkAdvances`
hold of any number of tasks, but for those that are done and overlapped.

### AutoPoster

| Code | Model |
|---|---|
| status of the one slot that is dispatched | `slot` |
| a request to `/dispatch` and the photos of its share pack | `dispatch[d]` |
| the coroutine `_send_group_post` of a group and the photo it is at | `chain[d][g]` |
| `asyncio.Semaphore(_GROUP_SEND_CONCURRENCY)` | `sem[d]` |
| HTTP requests the daemon works on | `in_flight` |
| `dispatch_now` up to the status check, early returns, the read of the groups | `dispatch_now`, `Skipped`, `_active_target_groups` |
| entry of `async with sem` and the first send | `Acquire` |
| the three outcomes of `_post` | `SendAccepted`, `SendRefused`, `SendUnanswered` |
| what the chain does next | `Resume`: `NextPhoto`, `AllSent`, or the early return |
| `sendMessage` of the daemon | `Deliver` |
| `gather`, the tally, and the flip of the slot | `Gather` |

It is `SendAccepted`/`SendNothing`/`CommitDispatched` of `PostQueue` in detail:
there a dispatch is one answer, here it is what the groups get. A send that is
given up stays `in_flight`, so it may be delivered after the chain has gone on,
after the dispatch has ended, and after a retry. Left out: the order in which
the semaphore wakes its waiters (any waiter may be next), the pause between
photos, the count of failed photos. The group rows are not a variable: they
are read once, so what the admin has made of them is a choice at that read.
`delivered` and `earlier` are history variables.

### Daemon

| Code | Model |
|---|---|
| the process of `index.ts` and the signal it gets | `process`, `stopping`, `starts` |
| `RemoteAuthStore`: state, `saveTimer`, uploads under way | `session`, `save_timer`, `uploads` |
| the row of `whatsapp_session` | `stored`, with the number of the upload that wrote it |
| sockets, `this.sock`, `snapshot.state`, `setTimeout` of a reconnection, `connect` awaiting the version | `socket`, `current`, `state`, `timers`, `connecting` |
| `load`, with an error of the backend taken for an empty session | `Load`, `LoadSession` |
| `connection.update`, `creds.update`, the keys | actions named for the event |
| `reset`: log out, wipe, save, connect again | `LogOut`, `WipeStore`, `ConnectAgain` of each request |

Sockets are replaced and never released, so an event may come from any of them.
An upload is in flight until it is stored or lost, may overtake another, and may
outlive the process. A session is its identity and the version of its
credentials; `MaxIdentity` and `MaxUploads` bound when an account is unlinked,
credentials change or a signal comes. The sends are
left out: from outside they are an answer, an error or silence, which is what
`AutoPoster` and `Chatbot` have.

### CloudPhotos, PhotoSelect

A photo row is the number of its Drive file. `requests[q]` is a login, a
disconnection, an upload, an import of URLs, the script's copy of a gallery, a
deletion or a pack, and how far it is; each await on Drive is a step, whose call
is accepted, refused, or carried out without its answer being heard (`Outcome`).
The copy sends a photo a second time when the first answer is lost, as the
script does. The script is a process of its own: `Crash` stops the server, with its
requests and the cache, `ScriptStops` the script. `loose` is a history variable: the files and tokens which a failure
between the two stores took out of the database's sight.

`MCCloudPhotos` gives each behaviour logins or packs. A pack sees of the
connection only that there is one and that its calls are accepted, and its calls
may fail anyway, so a login in the middle of a pack shows a pack nothing new.

`PhotoSelect` has `select_diverse` and the tiles of a collage as operators over
hashes that are sets of bits; `SelectsDiverse` says of a gallery what they choose
from it, and the run has every gallery of up to four hashes of three bits. The two
loops, of the selection and of the backfill, are recursive functions, as is the
filter `Only` of `CloudPhotos`: a proof can take a function step by step.

### Newsletter, Leads, Summaries, MCConversations

| Code | Model |
|---|---|
| `newsletter_subscribers`; the links in the mails | `subscriber`; `link` |
| `create_property` and its digest, subscriber by subscriber | `dispatch[p]`, named by the property |
| `leads`, `contacts` | `lead`, `contact` |
| a request that has read a lead, a contact or a file | `request[r]` |
| `whatsapp_messages`, `last_message_at`, `conversation_summaries` | `message`, `active`, `summaries` |
| a run over all threads or one | `run[r]`, one thread after the other |
| the daily digest | `digests` |

In all three a row is stamped with the time its transaction began and seen when
it is committed; what the properties of `Newsletter` and `Summaries` say is what
this distance can and cannot lose. An UPDATE writes the columns that differ from
what was loaded. The history variables (`overlapped`, `accounted`, `raced`,
`hidden`, `seen`) name the exceptions: each property says that nothing but the
overlap it names can break the promise.

Abstractions: a subscription is one step from its SELECT to its commit; two for one
address that overlap end in a refusal by the unique key, or in one more token and
welcome. A dispatch that moves
the watermark of a row which was armed again since it was loaded passes every property,
and `NothingSkipped` excuses them all for that subscription (`Mark`). A digest is what it selects: of a thread with several summaries in the
window its mail shows the text of the latest and the actions of all
(`digest.py:117`), and a mail that fails leaves the database as one that arrives does.

`MCConversations` puts `Leads` and `Summaries` side by side: they share no row, so a
step is of one of them and leaves the other as it is. Each of its two runs gives
one of them its rows and requests and the other none.

### Translations, ContentMirror, ListingImport, MCSiteContent

`Translations`: a sync fetches the content, loads the hashes, translates what is
new or changed and upserts item by item, each item one transaction with its
rows locked. `ContentMirror`: the import of the content is one transaction,
UPDATE and INSERT post by post, among the admin's creates, patches and deletes,
with slugs that are unique. `ListingImport`: a run fetches page by page from a
catalogue that moves, reads the markers once, and makes the missing properties
with a commit each. The three tables share nothing, nor do the jobs wait for one
another; a behaviour of `MCSiteContent` is therefore of one of them with the
others at rest, and what holds of each holds of all.

Abstractions: the pages of `Translations` are one answer, since an edit between two of
them is, for each item, an edit before the sync or after its fetch. A listing run with
`--limit`, and one whose fetch was cut short by a 400, do part of their plan: what they
leave is what a run leaves that stops there (`Stop`), and no property takes them for
complete runs.

## What the runs check

Every run passes but `chatbot_burst`, which shows where the code and its
documentation part.

| Run | Question | Properties |
|---|---|---|
| `posting` | One request at a time, with crashes and a changing schedule: one pending slot per available property, no slot overfull, and who drops out of the rotation? Does the loop of the calendar find the earliest open slot, and give up only after its hops? | `OvershootBounded`, `OnePendingWhileAvailable`, `ImplementsRotation`, `ReturnsEarliest`, `LoopComputesNextPostSlot` |
| `queue_races` | Two requests interleaved, refused, deadlocked and stopped, under a changing schedule: does a property of the market keep a slot to come? | `SkipRolls`, `StaysInRotation` |
| `chatbot_tasks` | Three messages in two tasks at a time: which replies are an interval apart, which messages stay marked, and when may the watermark fall? | `RateLimited`, `MarkedProcessed`, `WatermarkAdvances` |
| `chatbot_burst` | Does the limit keep a burst from being answered at once? It does not: a message that comes between a reply and its commit gets its own | `BurstRateLimited` (violated) |
| `chatbot_races` | Overlapping tasks: one answer, no takeover undone, no promise of a human forgotten, every task ends? | `AtMostOneReply`, `PromiseKept`, `TakeoverSticks`, `TasksEnd` |
| `auto_poster` | Refused, unanswered and late sends, crashes, overlapping dispatches and retries: who gets the post, in what order, how often, and does a dispatch end? | `PhotosFollowCollage`, `RetryOnlyUnacknowledged`, `DispatchesEnd` |
| `daemon` | Kills, signals, resets, log-outs, drops, uploads lost or reordered: which identity is kept, does the state tell of a socket, is the session stored, does it reconnect, does a reset end? | `OneIdentity`, `SocketsMatchState`, `QuietMeansStored`, `Reconnects`, `ResetsEnd` |
| `cloud_photos` | Drive calls that fail or succeed unheard, crashes, logins: do rows and files agree, does the token work, does a cached pack show what is listed; and is the selection what it says? | `FilesAccounted`, `TokenWorks`, `PackShowsListed`, `SelectsDiverse` |
| `newsletter` | Overlapping dispatches, lost mails, subscribers that come and go: what is told twice or never? | `RepeatsOnlyByOverlap`, `NothingSkipped`, `CanUnsubscribe` |
| `leads` | Three requests that extract, correct, approve, reject or import, with edits by hand: what is written into the address book, and when does a contact come twice? | `ReviewedOnce`, `BookAgrees`, `PhoneOnce` |
| `summaries` | Overlapping and failing runs, messages that commit late, digests at any time: what has no summary, or two, and what no digest tells? | `NothingLost`, `SummarisedOnce`, `DigestsComplete` |
| `site_content` | The three jobs that follow WordPress, interrupted, overlapping and repeated over edits on both sides: what does a hash promise, what does a completed job leave, and who publishes a row? | `HashTellsText`, `CleanSyncCurrent`, `ImportMirrors`, `DraftsStay`, `ListingsMirrored` |

### Where the code and its documentation part

Met while modelling; the models follow the code. The properties above are stated
so that they hold of it, and name the exception each of these makes.

Queue.
- `queue_routes.py:8` says that renting a property cancels its pending posts, but
  `mark_posted`, `skip_slot` and `dispatch_now` (165) roll the next slot without
  looking at the property, and so leave a pending slot for one that is being rented.
- `queue_routes.py:177`, "exactly like mark_posted": `dispatch_now` commits *posted*
  and the next slot in two transactions (192); between them the property can fall
  out of the rotation.
- `scheduler.py:109`, "strictly in the future": an overdue slot is rolled from its
  own time (`queue_routes.py:84`), into the past.
- Two requests that count before either commits overfill a slot, and two that roll
  the same slot leave its property with two pending ones.
- `DispatchResult` says that a partial failure does not flip the slot; `dispatch_slot`
  flips it on any success and says so itself. `Bug_Gather` follows the first text, and
  breaks `RetryOnlyUnacknowledged`.

Chatbot.
- Two messages of a burst get two replies within the interval (`chatbot.py:356`, 421),
  as `chatbot_burst` shows: a task reads `last_bot_reply_at` at its beginning, and the
  one before it commits its own only after its send.
- A reply whose acknowledgement came late, or whose task was stopped, does not count
  against the next one.
- Of two first messages of a lead one may be lost (`chatbot.py:195`), although the
  watermark is "always" advanced (399); with overlapping tasks it can also go back.
- The bot answers in a thread taken over while it was classifying (`chatbot.py:9`, 416).
- The notice of a takeover goes out before the takeover is committed (486); a crash
  between the two loses it, the last case of `PromiseKept`.
- `normalize_phone` keeps digits only, contacts keep their `+` (`contacts.py:42`), so the
  two never match.

Daemon.
- A signal that comes before the load has ended flushes fresh credentials over the
  stored session (`index.ts:31`), which `models.py:297` says survives redeploys.
- A load that fails is taken for an empty session (`backend.ts:32`).

Newsletter.
- A property committed after a later one's digest moved the watermark is in no digest;
  a send that fails after the watermark was committed (404) loses its digest.
- A subscriber who leaves between the load (342) and the send is still mailed, contrary
  to `newsletter.py:203`; one deleted in between fails the flush, and `create_property`
  answers 500 though the property is committed.
- `models.py:253` speaks of double opt-in; sign-ups are confirmed at once.

Leads and contacts.
- Two contacts of one phone make every approval of it fail; two approvals into one contact at
  once lose one's notes; approve and reject at once leave a rejected lead with a contact.
- The import normalises phones, the forms and the approval do not; nothing in the backend calls
  `extract_lead`; the segment `lead` matches no property.

Summaries.
- A message committed after its period was read is in no summary; overlapping runs summarise
  it twice; a summary begun before a digest and committed after it is in no digest.
- `last_message_at` advances only in the chatbot's task (`chatbot.py:409`). An answer of
  the model that is JSON but no object ends the whole run. A digest mail that is lost leaves no trace.

Photos.
- `cloud_routes.py:384`, "one bad URL doesn't fail the batch": the rollback (446) expires what
  the loop still holds, and the next good image answers 500.
- The listings' script uploads again when an answer was lost, and leaves a file in Drive that no
  row names.

Translations, content, listings.
- Overlapping syncs with an edit between them can leave an old translation under the new
  hash (`torn`); one of two syncs that insert the same row ends with 500; translations of
  removed fields stay; an older sync that commits later overwrites newer rows.
- `models.py:542` says the hero image has no WordPress source; `import_wp_content.py:165` sets it on
  every run. A re-run overwrites what the admin changed and brings back, published, what the
  admin deleted; rows of posts removed from WordPress stay and keep their slug.
- "Run it as often as you like": a slug swapped on WordPress, held by a row of the admin, or of a page
  made again under a new id fails the whole import.
- A PATCH stores an empty slug unchecked; two requests that check a slug at once end with 500, not 409.
- `import_wp_properties.py:9`, "a listing already imported is skipped": the loop does not add what it
  makes to what it found, and a listing that moves to a later page while the pages are fetched is made
  twice by one run; so is one whose marker was edited out of the notes. A run with `--enqueue` does
  not queue what an earlier run without it made.

### Bounds

`MaxHops` is 60 in the code and 5 here: a weekend takes two or three hops,
so a search still crosses Shabbat, meets full slots, and runs out of hops.
`MaxSlots` stops new requests on a long table (requests that run may still add
theirs); three slots are a roll of a roll, two and two requests are every race
of two. Two properties and two requests: each hazard listed is one of two
sessions. `Instants` are a Thursday morning and a Saturday
night two days later, so that a slot can be overdue and a weekend lies between.
The chatbot has one chat (chats share nothing but the on/off switch), two tasks at a
time, two timestamps, so that messages can be out of order or of the same second, and two
messages; three where the rate limit and the watermark are checked, so that a task
can begin after one is done while another overlaps. There the clock has one step and the
interval is one, and the bot is switched on (`SwitchedOn`): switched off it goes the way of
a thread in human hands. The clock stands still where no property looks at it. `Init` starts a chat with no thread or with an
old one. `AutoPoster` has two groups and a semaphore of one, so that a chain
waits for the other, two dispatches, so that one is the retry of the other or
overlaps it, and one photo; its proofs hold for any number of each. Symmetry is
used in runs without liveness only, over properties, requests, messages, rows,
posts and texts, which the specifications treat alike.

The other bounds, each the least at which what a property is about comes about:
`Daemon` has two starts (a restart over what the first left), one reset, two
sockets at a time, three identities (of a start, of an unlinked account and of
what follows it), one change of credentials, and two uploads in flight when
another event adds one. `CloudPhotos`
has two requests, two contents, two URLs, two files and two tokens: a retry, a
duplicate and a second login. `Newsletter` has two properties and one address,
since subscribers share nothing but the watermark's clock, with a threshold of
one. `Leads` has three requests, for a correction beside two reviews.
`Summaries` has two chats, messages, runs and digests. `MCSiteContent` has two
requests of each kind, two posts and two rows, and pages of one listing.

### Fairness

`Chatbot` has strong fairness for the steps of each task, none for the clients,
the admin, the clock and crashes. The event loop runs a coroutine that can run,
the classifier and the daemon answer or time out (20 s and 30 s), and PostgreSQL
grants a row lock to its waiters in turn: a step that is enabled again and again
is taken. Weak fairness would not do, since a lock that is taken and released
for ever disables a waiter in between. `AutoPoster` has weak fairness for the
steps of each dispatch (the event loop and the 30 s timeout of its requests);
no step of it is needed again and again, since a dispatch has finitely many.
`Daemon` has weak fairness for the start of a process (its supervisor restarts
it), the load, the exit, the connections and their timers, the save, the uploads
(which end or are given up) and the steps of a reset; none for events, kills,
signals and log-outs. `PostQueue` and the other modules state no fairness.

## What is proved

For every value of the constants that satisfies the named assumptions
(`MaxHopsAssumption`, `SlotSearchAssumption`, `PostQueueAssumption`,
`ChatbotAssumption`, `AutoPosterAssumption`, `DaemonAssumption`,
`NewsletterAssumption`, `PhotoSelectAssumption`, `LeadsAssumption`, the `BoundsAssumption` of
`MCConversations`, `TranslationsAssumption`, and the `MirrorAssumption` and
`ListingsAssumption` of `MCSiteContent`, which are those of the modules they
instantiate; TLC evaluates all in the runs):

- `PostQueueProofs`, about the search, and about the queue for any number of
  properties. Of the search, for every schedule, every pattern of counts and any
  bound on the hops:
  - `NextSlotAfter`, that three days hold the first slot after
    any time, and `SearchReturnsEarliest` and `SearchIsNextPostSlot`. The
    inductive invariant says that the cursor has gone at most a day for each hop,
    that nothing between the floor and the cursor is open, and that the number of slots
    between them is `hops`; the last is what ties the loop's counter to the
    operator's `HopOf`. What the queue knows of a slot it is given, `NextPostSlot`,
    is proved with them.

  Of any number of requests that interleave at every await:
  - `TypeCorrect`, `PendingSlotsHaveProperties`, `UsedSlotsNeverPendingAgain`. The
    invariant adds to these what a request in flight knows (`WellFormed`): its
    slot is a row of the table, it never means to make a slot pending, and the
    properties it holds get a property's status. Without the last, a commit could
    bring a property out of existence under the slots of others. One lemma per
    kind of step; `CommitKeepsInv` is the heart.
  - `CapacityHolds`: the pending slots of a time are at most `MaxPosts` for each
    request. `Capacity` counts them together with those the requests are about to
    insert, since a request counts before it inserts; `FamilyBound` bounds these by
    an injection into requests x places.
  - `SkippingRolls`: a skipped slot has a later one of its property. `Followed` adds
    that the transaction that carries the skip carries the insert (`Carries`).
  - `NothingFallsOut`: a step that leaves a property of the market without a slot to
    come ends a cancellation by hand or the roll of a dispatched slot. A commit that
    uses up the slot of a property brings its next one, and one that cancels the
    slots of a property takes it off the market, whatever was committed meanwhile.

  Of one request at a time (hypothesis `Requests = {r}`, as in `posting`; two
  that roll the same slot break the first):
  - `OneSlotPerProperty`, that an available property has one pending slot unless
    it was dropped, and no other has any. `SerialInv` says at each phase of the
    request which property's slot is on its way (`Serial`), and that a property is
    deleted with its slots (`DeletedTogether`).
  - `QueueImplementsRotation`, the refinement: each step is a step of `Rotation`
    under `place`, or leaves `place` as it is. `Placed` is the mapping read off
    case by case.
- `ChatbotProofs`: `ChatbotTypeCorrect`, `AnswersAtMostOnce`,
  `OnlyReleaseGivesThreadBack`, `PromisesAreKept` and
  `RecordedRepliesKeepTheirDistance`, for any number of tasks at
  once. The invariant says that nothing has gone out for a task that has yet to
  come to its send, and every step keeps the tasks going forward. For the distance
  of replies `RepliesInv` adds that a thread never shows an earlier reply than one
  recorded without an overlap, and that a task which passed the limit began an interval
  after each of those it found. For `EndedMeansMarked` and
  `WatermarkNeverFalls`, of any number of tasks too, `MarksInv` adds when a task's
  decision, taken on the row as read, is still true at its commit (`DecisionOK`): while no
  other of the chat has been done since it began, the thread is not marked beyond its
  message, and its message is later than those of the tasks that were done before and
  stay apart from it, which it therefore does not unmark.
- `AutoPosterProofs`: `AutoPosterTypeCorrect`, `ConcurrencyIsBounded`,
  `CollageComesFirst`, `ReportsAreTrue`. The invariant has three parts:
  every place of a semaphore is free or held by one chain (`PermitInv`, by the
  cardinality lemmas for adding and removing an element); a chain is never ahead of its
  sends, nor past a collage that did not arrive (`SendInv`); and the slot is
  posted exactly by the dispatches some group has acknowledged (`SlotInv`).
  `ResumeKeepsIInv` treats the three answers to a send at once.
- `DaemonProofs`: `DaemonTypeCorrect`, `IdentitySurvives`, `StateIsOfSomeSocket`,
  `QuietRowIsCurrent`, wherever the process is killed and however uploads are lost
  or overtake each other. Numbers of uploads are their own (`Numbered`), and with
  no save scheduled what is in memory is what the last one carried (`Latest`); until
  the identity is given up on nothing connects or is saved before the load has
  ended (`Kept`), from which no second identity is made; sockets, timers and
  connections together are one, and one more for each reset that has ended
  (`Counted`); and what the state shows has a socket, or one to come (`Behind`).
- `NewsletterProofs`: `NewsletterTypeCorrect`, `RepeatsAreOverlaps`,
  `NothingIsSkipped`, `OnlyALostWelcomeLeavesNoWayOut`. What a watermark has passed is accounted
  for (`Accounted`); a watermark grows as long as the token is the same (`Grows`),
  since a dispatch may hold a row that has meanwhile been deleted and made again;
  what has been told is behind the watermark of the row and of each dispatch that
  loaded it, unless the two overlapped (`ToldOnce`); and a digest that was mailed
  with the token of the row brought a link that works (`Brought`), so that the only
  active subscriber without one, and without a welcome on the way, is one whose welcome was
  lost and to whom nothing was mailed with that token.
- `ConversationProofs`, about `Leads` and the instance of `Summaries` in
  `MCConversations`.
  - `LeadsTypeCorrect`, `LeadsAreReviewedOnce`, `ContactsAgree`, `PhonesAreOnce`. A
    request reads, awaits and writes without looking again, so the invariant is
    about what it has read: a lead which no other request has loaded since is as
    it was loaded (`Held`), and so is not in the book when it is approved; what an
    approval is going to write back of a contact's notes tells what they tell
    (`Recalls`); and no request has made a contact of a phone another is looking for
    (`Unused`). `raced` names what is excepted. `ApprovalKeepsIInv`, where a lead and a
    contact change together, is the heart.
  - `SummariesTypeCorrect`, `NothingIsLost`, `SummarisedAtMostOnce`,
    `DigestsAreComplete`. The row that has a message may be replaced by the upsert of another run,
    so `NothingLost` is not inductive: a message which a period of its chat has passed
    is in a row that ends no later, or was hidden from it (`Told`), and what a run at
    the model has not read is hidden, after its period, or before the row it begins
    at, which stays (`Reading`). `RowOK` and `Begun` order rows and transactions by the
    digests that were made before them.
  - `ConversationsAreKept`: all of these together of `ConversationsSpec`, the
    specification which the two runs check.
- `CloudPhotosProofs`, for any number of requests, contents, files and tokens and
  any lengths of a pack, a gallery and the cache:
  - `PhotosTypeCorrect`. The invariant adds what a request has in its hands in each
    phase (`Going`), without which a file that is sent for could be none.
  - `FilesAreAccounted`. A request that is to list a file has one that is new: it is
    not trashed, not listed, and no other request has it (`Unlisted`), for otherwise
    its row could stand for the file of another; and a row goes only when its file is
    trashed or in `loose` (`Removed`). One lemma for each step between the two stores.
  - `StoredTokenWorks`. A login that has yet to store its token has one of its own,
    granted, not revoked and not the stored one (`Fresh`), so that no disconnection
    could revoke it before it is stored.
  - `PacksShowListed`. An entry of the cache shows photos of its key (`Shows`), since
    a pack is rendered from the rows its key was made of, whatever became of them
    while their files were fetched.
  - `SelectionIsDiverse`, of galleries and hashes of any size (`EveryGalleryDiverse`).
    It takes induction over the length of a selection. The provers have no induction
    principle to apply to a formula; the proof has one for sets instead
    (`BoundedInduction`, from the least element of a set of numbers), and with it
    that a function defined by recursion exists (`Recursion`). `PickOne` is one round
    of the selection: it adds the farthest candidate, or there is none; `PicksAreFull`,
    that after any number of rounds each has added one or none is left. `BackfillOne` and
    `FilledIsFull` are the same for the collage.
  - `PhotosAreKept`: all of these together of `PhotosSpec`, the specification which
    the run checks.
- `SiteContentProofs`, about `Translations` and the two instances of
  `MCSiteContent`, for any number of texts, posts, rows, listings, requests and
  runs and any length of a page:
  - `TranslationsTypeCorrect`, `StoredHashTellsText`. A hash and a text are written
    by an UPDATE of the columns that differ from what was selected, so the property
    is not inductive: the invariant adds that what a transaction has written would
    leave a row that tells its text if it committed to the row as it stands
    (`WrittenTells`), that no two transactions hold one row (`OneHolder`), so that
    the row stands until then, and that a row is never deleted under an UPDATE
    (`RowsStay`). `torn` names the rows where a commit between another's SELECT and
    UPDATE makes this fail.
  - `CleanSyncLeavesAllCurrent`: `CleanInv` says of a sync that runs alone,
    with no error and no edit since its fetch, that what it has fetched, translated and written is of the text as it
    stands (`UpToDate`), and that what it has skipped was right (`Settled`).
  - `ListingImportTypeCorrect`, `ImportMirrorsListings`. The two halves of the
    property have an invariant each. What a run knew when it read the notes still
    tells what it will make, since markers only get lost (`SeenThere`, `Unborne`); and
    while nothing is edited, what a run has fetched, has left to make and has found
    together hold every listing on offer (`Covers`). `RunKeepsIInv` treats the steps of
    a run that make no property, `CreateKeepsIInv` the one that does.
  - `MirrorTypeCorrect`, `ImportsMirrorPosts`, `DraftsAreKept`. A WordPress id never
    has two rows, committed or about to be (`RowsApart`), and while nothing is edited
    every post is still to do, the one at hand, or has its row (`ImportInv`). An
    UPDATE of the import leaves `published` as it is.
  - `SiteFollowsWordPress`: all of these together of `SiteSpec`, the specification
    which the run checks.

### Only model-checked

- Liveness: `TasksEnd`, `DispatchesEnd`, `Reconnects`, `ResetsEnd`. Fairness is
  beyond the prover.
- `BurstRateLimited` is refuted, not proved.

## Not modelled

- **Property notes, the public listings API, exports, seed data, search,
  matching with contacts and duplicate detection of properties**: queries, and
  rows that one statement writes and nothing else reads. A model would say what
  the WHERE clause says.
- **Yad2 import**: a preview. It parses a page into the fields of a form, and the
  admin saves the form as any other property.
- **API shell** (routing, settings, logging, validation): no state. The session
  of `db.py` and the constraints of `models.py` are part of every module that
  relies on them.
- **Admin application**: its clicks are the requests of the models, in any order
  and as often as the bounds allow. What it holds itself is one form or one list.
- **WordPress plugin**: renders the public API behind a cache of one minute.
- **Mock daemon**: records what it is asked to send, for demonstrations.
- **Migrations and deployment**: a migration changes the tables once, before a
  new revision is deployed; what the old revision does on the new tables
  meanwhile depends on the two texts and not on any state kept here.
- **Of the components that are modelled in part**: the wording of posts, replies,
  mails and prompts, and the HTML around them; the hashes of images and the
  drawing of collages; the OAuth state row, which a login inserts and its
  callback deletes, and which nothing else reads; the folders of Drive, whose
  find-or-create may make two of one name without any other harm; the endpoints
  that only read.

## Running

    tlc -config PostQueueRaces.cfg MCPostQueue
    tlapm PostQueueProofs.tla

Each run of `PROJECT.json` names its module and configuration. The operators
`Bug_*` are mutations of the definitions that follow them, one for each
property; no specification uses them.
