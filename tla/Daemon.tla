------------------------------- MODULE Daemon -------------------------------
(***************************************************************************)
(* The WhatsApp daemon: the process (index.ts), its connection             *)
(* (whatsapp.ts), the store of its credentials (authStore.ts) and the row  *)
(* of the backend that outlives it (backend.ts, whatsapp.py).              *)
(*                                                                         *)
(* A session is the pair of its identity, one for every call of            *)
(* initAuthCreds, and the version of its credentials and keys.  Sockets are*)
(* replaced, never released: one that was replaced goes on delivering its  *)
(* events.  Uploads of the session are requests in flight; they may be     *)
(* lost, overtake each other and outlive the process.  The process may be  *)
(* killed at any moment.                                                   *)
(***************************************************************************)
EXTENDS Integers, FiniteSets

CONSTANTS
  Sockets,     \* sockets of a process, numbered; a closed one may be reused
  Resets,      \* POST /reset requests
  MaxVersion,  \* bound: changes of credentials and keys
  MaxIdentity, \* bound: calls of initAuthCreds before the account stays linked
  MaxStarts,   \* bound: starts of the process
  MaxUploads   \* bound: uploads in flight when a change, a signal or a log-out adds one

ASSUME DaemonAssumption ==
  /\ Sockets \in SUBSET (Nat \ {0}) /\ IsFiniteSet(Sockets)
  /\ MaxVersion \in Nat /\ MaxIdentity \in Nat /\ MaxStarts \in Nat /\ MaxUploads \in Nat

VARIABLES
  process,    \* "down", "loading" the session, or "up"
  stopping,   \* a signal was received: the process exits after its flush
  starts,     \* starts so far
  session,    \* the credentials and keys in memory
  identities, \* calls of initAuthCreds so far
  version,    \* changes of a session so far
  save_timer, \* a save is scheduled
  uploads,    \* PUTs of the session in flight
  uploaded,   \* number of the last upload of this process, or of what it loaded
  sequence,   \* uploads so far
  stored,     \* the row of whatsapp_session, with the number of its upload
  socket,     \* every socket: its phase, and the identity it signs in with
  current,    \* this.sock, 0 for null
  state,      \* snapshot.state
  timers,     \* reconnections scheduled
  connecting, \* calls of connect that await the Baileys version
  reset,      \* every reset request: how far it is
  wiped       \* history: the stored identity was given up on

store == <<session, identities, version, save_timer, uploads, uploaded, sequence>>
link == <<socket, current, state, timers, connecting>>
vars == <<process, stopping, starts, store, stored, link, reset, wiped>>

-----------------------------------------------------------------------------
Session == [identity : 1 .. identities, version : 0 .. version]
Row == [session : Session, number : 1 .. sequence]
NoRow == [number |-> 0]
Upload == [session : Session, number : 1 .. sequence, by : Resets \cup {"store", "signal"}]
Socket == [phase : {"closed", "live", "open"}, identity : 0 .. identities]
Closed == [phase |-> "closed", identity |-> 0]

Alive == { s \in Sockets : socket[s].phase \in {"live", "open"} }
Open == { s \in Sockets : socket[s].phase = "open" }
Free == Sockets \ Alive

NewSession == [identity |-> identities + 1, version |-> version]

\* flush: what is in memory now is on its way to the backend.
Flush(what, by) ==
  /\ sequence' = sequence + 1
  /\ uploaded' = sequence + 1
  /\ uploads' = uploads \cup {[session |-> what, number |-> sequence + 1, by |-> by]}

\* RemoteAuthStore.reset: new credentials, stored at once.
Wipe(by) ==
  /\ identities' = identities + 1
  /\ session' = NewSession
  /\ Flush(NewSession, by)
  /\ wiped' = TRUE

-----------------------------------------------------------------------------
\* main: a store with new credentials, a server that listens, and the load of
\* the session under way.
Start ==
  /\ process = "down"
  /\ starts < MaxStarts
  /\ process' = "loading"
  /\ starts' = starts + 1
  /\ identities' = identities + 1
  /\ session' = NewSession
  /\ uploaded' = 0
  /\ UNCHANGED <<stopping, version, save_timer, uploads, sequence, stored, link, reset, wiped>>

\* loadSession: the row, or none for no row, an error, no answer or no session in it.
LoadSession == {stored, NoRow}

\* load, when the backend has answered: a session, or none.  Then start connects.
Bug_Loaded ==
  \/ UNCHANGED <<session, uploaded>> /\ wiped' = (wiped \/ (stored = NoRow /\ uploads # {}))
  \/ UNCHANGED <<session, uploaded>> /\ wiped' = TRUE
Loaded ==
  \E row \in LoadSession :
    IF row # NoRow
    THEN session' = row.session /\ uploaded' = row.number /\ UNCHANGED wiped
    ELSE /\ UNCHANGED <<session, uploaded>>
         /\ wiped' = (wiped \/ stored # NoRow \/ uploads # {})

Load ==
  /\ process = "loading"
  /\ Loaded
  /\ process' = "up"
  /\ connecting' = connecting + 1
  /\ UNCHANGED <<stopping, starts, identities, version, save_timer, uploads, sequence, stored>>
  /\ UNCHANGED <<socket, current, state, timers, reset>>

\* SIGINT and SIGTERM flush whatever the store holds, loaded or not.
Signal ==
  /\ process # "down"
  /\ ~ stopping
  /\ Cardinality(uploads) < MaxUploads
  /\ stopping' = TRUE
  /\ Flush(session, "signal")
  /\ wiped' = (wiped \/ process = "loading")
  /\ UNCHANGED <<process, starts, session, identities, version, save_timer, stored, link, reset>>

\* The process ends, and its memory with it; what it has sent goes on, with
\* nobody waiting for it.
Die ==
  /\ process' = "down"
  /\ session' = [identity |-> 1, version |-> 0]
  /\ uploaded' = 0
  /\ uploads' = { [u EXCEPT !.by = "store"] : u \in uploads }
  /\ stopping' = FALSE
  /\ save_timer' = FALSE
  /\ socket' = [s \in Sockets |-> Closed]
  /\ current' = 0
  /\ state' = "disconnected"
  /\ timers' = 0
  /\ connecting' = 0
  /\ reset' = [r \in Resets |-> IF reset[r] = "none" THEN "none" ELSE "gone"]
  /\ UNCHANGED <<starts, identities, version, sequence, stored, wiped>>

Exit ==
  /\ stopping
  /\ \A u \in uploads : u.by # "signal"
  /\ Die

Kill ==
  /\ process # "down"
  /\ starts < MaxStarts
  /\ Die

-----------------------------------------------------------------------------
\* connect, once the version is known: a socket with the session of now.
Connect ==
  /\ connecting > 0
  /\ Free # {}
  /\ connecting' = connecting - 1
  /\ LET s == CHOOSE s \in Free : \A t \in Free : s <= t
     IN /\ socket' = [socket EXCEPT ![s] = [phase |-> "live", identity |-> session.identity]]
        /\ current' = s
  /\ state' = "connecting"
  /\ UNCHANGED <<process, stopping, starts, store, stored, timers, reset, wiped>>

\* connection.update with a QR code.
ShowCode(s) ==
  /\ socket[s].phase = "live"
  /\ state' = "pairing"
  /\ UNCHANGED <<process, stopping, starts, store, stored, socket, current, timers>>
  /\ UNCHANGED <<connecting, reset, wiped>>

\* connection.update: open.
OpenSocket(s) ==
  /\ socket[s].phase = "live"
  /\ socket' = [socket EXCEPT ![s].phase = "open"]
  /\ state' = "connected"
  /\ UNCHANGED <<process, stopping, starts, store, stored, current, timers>>
  /\ UNCHANGED <<connecting, reset, wiped>>

\* connection.update: close, for any reason but a log-out; it reconnects later.
Bug_Reconnect == timers' = timers + 2
Reconnect == timers' = timers + 1

CloseSocket(s) ==
  /\ s \in Alive
  /\ socket' = [socket EXCEPT ![s] = Closed]
  /\ state' = "connecting"
  /\ Reconnect
  /\ UNCHANGED <<process, stopping, starts, store, stored, current, connecting, reset, wiped>>

\* connection.update: close because the account was unlinked.  The session is
\* wiped and nothing reconnects.
LoggedOut(s) ==
  /\ socket' = [socket EXCEPT ![s] = Closed]
  /\ state' = "disconnected"
  /\ Wipe("store")
  /\ UNCHANGED <<process, stopping, starts, version, save_timer, stored>>
  /\ UNCHANGED <<current, timers, connecting>>

Unlink(s) ==
  /\ s \in Alive
  /\ identities < MaxIdentity /\ Cardinality(uploads) < MaxUploads
  /\ LoggedOut(s)
  /\ UNCHANGED reset

\* The timer of a reconnection.
Bug_Retry == timers > 0 /\ UNCHANGED <<timers, connecting>>
Retry ==
  /\ timers > 0
  /\ timers' = timers - 1
  /\ connecting' = connecting + 1

TimerFires ==
  /\ Retry
  /\ UNCHANGED <<process, stopping, starts, store, stored, socket, current, state, reset, wiped>>

-----------------------------------------------------------------------------
\* creds.update: the socket has changed its own credentials, which become the
\* store's.  keys.set changes the keys of the store.  Both save later.
Bug_Changed(s) ==
  \/ session' = [identity |-> socket[s].identity, version |-> version + 1] /\ save_timer' = TRUE
  \/ session' = [session EXCEPT !.version = version + 1] /\ UNCHANGED save_timer
Changed(s) ==
  /\ \/ session' = [identity |-> socket[s].identity, version |-> version + 1]
     \/ session' = [session EXCEPT !.version = version + 1]
  /\ save_timer' = TRUE

Change(s) ==
  /\ s \in Alive
  /\ version < MaxVersion /\ Cardinality(uploads) < MaxUploads
  /\ version' = version + 1
  /\ Changed(s)
  /\ UNCHANGED <<process, stopping, starts, identities, uploads, uploaded, sequence>>
  /\ UNCHANGED <<stored, link, reset, wiped>>

\* The timer of saveLater.
Save ==
  /\ save_timer
  /\ save_timer' = FALSE
  /\ Flush(session, "store")
  /\ UNCHANGED <<process, stopping, starts, session, identities, version, stored, link, reset, wiped>>

\* put_session_blob commits an upload; the answer does not matter.
Store(u) ==
  /\ uploads' = uploads \ {u}
  /\ stored' = [session |-> u.session, number |-> u.number]
  /\ UNCHANGED <<process, stopping, starts, session, identities, version, save_timer, uploaded>>
  /\ UNCHANGED <<sequence, link, reset, wiped>>

\* saveSession fails and is not tried again.
Lose(u) ==
  /\ uploads' = uploads \ {u}
  /\ UNCHANGED <<process, stopping, starts, session, identities, version, save_timer, uploaded>>
  /\ UNCHANGED <<sequence, stored, link, reset, wiped>>

-----------------------------------------------------------------------------
\* POST /reset logs the current socket out, if there is one: its handler runs,
\* or the log-out fails and the socket stays as it is.
RequestReset(r) ==
  /\ process # "down"
  /\ reset[r] = "none"
  /\ reset' = [reset EXCEPT ![r] = IF current = 0 THEN "wipe" ELSE "logout"]
  /\ UNCHANGED <<process, stopping, starts, store, stored, link, wiped>>

Bug_LogOut(r) ==
  /\ reset[r] = "logout"
  /\ current \in Alive
  /\ reset' = [reset EXCEPT ![r] = "wipe"]
  /\ LoggedOut(current)
LogOut(r) ==
  /\ reset[r] = "logout"
  /\ reset' = [reset EXCEPT ![r] = "wipe"]
  /\ \/ current \in Alive /\ LoggedOut(current)
     \/ UNCHANGED <<process, stopping, starts, store, stored, link, wiped>>

WipeStore(r) ==
  /\ reset[r] = "wipe"
  /\ reset' = [reset EXCEPT ![r] = "saving"]
  /\ current' = 0
  /\ Wipe(r)
  /\ UNCHANGED <<process, stopping, starts, version, save_timer, stored>>
  /\ UNCHANGED <<socket, state, timers, connecting>>

ConnectAgain(r) ==
  /\ reset[r] = "saving"
  /\ \A u \in uploads : u.by # r
  /\ reset' = [reset EXCEPT ![r] = "done"]
  /\ state' = "disconnected"
  /\ connecting' = connecting + 1
  /\ UNCHANGED <<process, stopping, starts, store, stored, socket, current, timers, wiped>>

-----------------------------------------------------------------------------
Init ==
  /\ process = "down" /\ stopping = FALSE /\ starts = 0
  /\ session = [identity |-> 1, version |-> 0] /\ identities = 1 /\ version = 0
  /\ save_timer = FALSE /\ uploads = {} /\ uploaded = 0 /\ sequence = 0
  /\ stored = NoRow
  /\ socket = [s \in Sockets |-> Closed]
  /\ current = 0 /\ state = "disconnected" /\ timers = 0 /\ connecting = 0
  /\ reset = [r \in Resets |-> "none"]
  /\ wiped = FALSE

Next ==
  \/ Start \/ Load \/ Signal \/ Exit \/ Kill
  \/ Connect \/ TimerFires \/ Save
  \/ \E s \in Sockets :
       ShowCode(s) \/ OpenSocket(s) \/ CloseSocket(s) \/ Unlink(s) \/ Change(s)
  \/ \E u \in uploads : Store(u) \/ Lose(u)
  \/ \E r \in Resets : RequestReset(r) \/ LogOut(r) \/ WipeStore(r) \/ ConnectAgain(r)

Spec == Init /\ [][Next]_vars

\* Timers fire, the version fetch falls back to a built-in one, every upload
\* is answered or fails, and the platform restarts the process.  Nothing is
\* asked of WhatsApp, the administrator or the signals.
FairSpec ==
  /\ Spec
  /\ WF_vars(Start) /\ WF_vars(Load) /\ WF_vars(Exit)
  /\ WF_vars(Connect) /\ WF_vars(TimerFires) /\ WF_vars(Save)
  /\ WF_vars(\E u \in uploads : Store(u) \/ Lose(u))
  /\ \A r \in Resets : WF_vars(LogOut(r)) /\ WF_vars(WipeStore(r)) /\ WF_vars(ConnectAgain(r))

-----------------------------------------------------------------------------
\* The types of the process, its store and its connections.
TypeOK ==
  /\ process \in {"down", "loading", "up"} /\ stopping \in BOOLEAN
  /\ starts \in Nat /\ identities \in Nat /\ version \in Nat /\ sequence \in Nat
  /\ session \in Session /\ save_timer \in BOOLEAN
  /\ uploads \subseteq Upload /\ uploaded \in 0 .. sequence
  /\ stored \in Row \cup {NoRow}
  /\ socket \in [Sockets -> Socket] /\ current \in Sockets \cup {0}
  /\ state \in {"disconnected", "pairing", "connecting", "connected"}
  /\ timers \in Nat /\ connecting \in Nat
  /\ reset \in [Resets -> {"none", "logout", "wipe", "saving", "done", "gone"}]
  /\ wiped \in BOOLEAN

\* models.py:298: the session "survives daemon redeploys".  Unless somebody
\* resets it or unlinks the account, a load fails, a signal comes before the
\* load has ended, or a restart overtakes the very first upload, there is one
\* identity in the row, in every upload on its way and in every process,
\* however often it is killed and whatever uploads are lost or reordered.
Identities ==
  { u.session.identity : u \in uploads } \cup { socket[s].identity : s \in Alive }
    \cup (IF stored = NoRow THEN {} ELSE {stored.session.identity})
    \cup (IF process = "up" THEN {session.identity} ELSE {})
OneIdentity == ~ wiped => Cardinality(Identities) <= 1

\* However sockets, their reconnections and resets overlap, the state that the
\* administrator sees is that of some socket: "connected" has an open one behind it,
\* "connecting" and "pairing" one that lives or is about to.  And the sockets do not
\* pile up: there are the one of the start and at most one more for every reset, which
\* may leave the old socket, or its reconnection, behind.
SocketsMatchState ==
  /\ state = "connected" => Open # {}
  /\ state \in {"connecting", "pairing"} => Alive # {} \/ timers + connecting > 0
  /\ Cardinality(Alive) + timers + connecting
       <= 1 + Cardinality({ r \in Resets : reset[r] = "done" })

\* authStore.ts:26: every mutation is saved.  When no save is scheduled and none
\* is on its way, and the row is the last one this process has uploaded or
\* loaded (that is, the last upload was neither lost nor overtaken by an earlier
\* one), then the row is what the process has in memory.
QuietMeansStored ==
  (process = "up" /\ ~ save_timer /\ uploads = {} /\ stored.number = uploaded /\ stored # NoRow)
    => stored.session = session

\* whatsapp.ts:30: "Reconnects on drop".  A daemon that says it is connecting
\* gets a socket, is told otherwise by a log-out, or stops.
Reconnects == state = "connecting" ~> (Alive # {} \/ state # "connecting")

\* A reset that was accepted ends, unless the process does.
ResetsEnd == \A r \in Resets : reset[r] = "logout" ~> reset[r] \in {"done", "gone"}
=============================================================================
