---------------------------- MODULE DaemonProofs ----------------------------
(***************************************************************************)
(* For any numbers of sockets, resets, changes and starts, wherever the    *)
(* process is killed and whatever uploads are lost or overtake each other: *)
(* the daemon is type correct, keeps one identity, shows a state that some *)
(* socket is in, and has in the row what it has in memory once it is quiet.*)
(***************************************************************************)
EXTENDS Daemon, FiniteSetTheorems, WellFoundedInduction, TLAPS

\* The number of an upload is its own, and that of the row no longer under way.
Numbered ==
  /\ \A u, v \in uploads : u.number = v.number => u = v
  /\ \A u \in uploads : u.number # stored.number

\* A socket that lives signs in with an identity.
Signed == \A s \in Alive : socket[s].identity \in 1 .. identities

\* With no save scheduled, what is in memory is what was uploaded or loaded last.
Latest ==
  process # "down" /\ ~ save_timer =>
    /\ \A u \in uploads : u.number = uploaded => u.session = session
    /\ stored # NoRow /\ stored.number = uploaded => stored.session = session

\* Nothing runs while the process is down.
Resting ==
  process = "down" =>
    /\ Alive = {} /\ timers = 0 /\ connecting = 0 /\ ~ save_timer
    /\ \A r \in Resets : reset[r] \in {"none", "gone"}

\* Until the identity is given up on, nothing connects or is saved before the
\* session is loaded, and there is one identity.
Kept ==
  ~ wiped =>
    /\ \A r \in Resets : reset[r] # "saving"
    /\ process # "up" => Alive = {} /\ timers = 0 /\ connecting = 0 /\ ~ save_timer
    /\ \A i, j \in Identities : i = j

\* A socket, or a reconnection, for the start and for every reset.
Done == { r \in Resets : reset[r] = "done" }
Counted ==
  /\ IsFiniteSet(Done)
  /\ Cardinality(Alive) + timers + connecting
       <= (IF process = "up" THEN 1 ELSE 0) + Cardinality(Done)

\* The state shown has a socket behind it, or one to come.
Behind ==
  /\ state = "connected" => Open # {}
  /\ state \in {"connecting", "pairing"} => Alive # {} \/ timers + connecting > 0

IInv == TypeOK /\ Signed /\ Numbered /\ Latest /\ Resting /\ Kept /\ Counted /\ Behind

-----------------------------------------------------------------------------
(* Types.                                                                  *)

\* What is a session, a row, an upload or a socket stays one as the counters go up.
LEMMA Grow ==
  ASSUME TypeOK, identities' \in Nat, version' \in Nat, sequence' \in Nat,
         identities' >= identities, version' >= version, sequence' >= sequence
  PROVE  /\ Session \subseteq Session' /\ Row \subseteq Row'
         /\ Upload \subseteq Upload' /\ Socket \subseteq Socket'
         /\ 0 .. sequence \subseteq (0 .. sequence)'
<1>1. /\ identities \in Nat /\ version \in Nat /\ sequence \in Nat
  BY DEF TypeOK
<1>2. /\ 1 .. identities \subseteq 1 .. identities' /\ 0 .. identities \subseteq 0 .. identities'
      /\ 0 .. version \subseteq 0 .. version' /\ 1 .. sequence \subseteq 1 .. sequence'
      /\ 0 .. sequence \subseteq 0 .. sequence'
  BY <1>1
<1>3. Session \subseteq Session'
  BY <1>2 DEF Session
<1>4. QED
  BY <1>2, <1>3 DEF Row, Upload, Socket

\* A flush sends a session under the next number.
LEMMA FlushType ==
  ASSUME TypeOK, NEW what, NEW by \in Resets \cup {"store", "signal"}, Flush(what, by),
         identities' \in Nat, version' \in Nat, identities' >= identities, version' >= version,
         what \in Session'
  PROVE  /\ uploads' \subseteq Upload' /\ sequence' \in Nat /\ uploaded' \in (0 .. sequence)'
         /\ Session \subseteq Session' /\ Row \subseteq Row' /\ Socket \subseteq Socket'
<1>1. /\ sequence \in Nat /\ sequence' = sequence + 1 /\ uploaded' = sequence + 1
      /\ uploads' = uploads \cup {[session |-> what, number |-> sequence + 1, by |-> by]}
  BY DEF Flush, TypeOK
<1>2. /\ Session \subseteq Session' /\ Row \subseteq Row'
      /\ Upload \subseteq Upload' /\ Socket \subseteq Socket'
  BY <1>1, Grow
<1>3. sequence + 1 \in 1 .. sequence'
  BY <1>1
<1>4. [session |-> what, number |-> sequence + 1, by |-> by] \in Upload'
  BY <1>3 DEF Upload
<1>5. QED
  BY <1>1, <1>2, <1>3, <1>4 DEF TypeOK

\* The new session of a reset or a log-out is one.
LEMMA WipeType ==
  ASSUME TypeOK, NEW by \in Resets \cup {"store", "signal"}, Wipe(by), version' = version
  PROVE  /\ uploads' \subseteq Upload' /\ sequence' \in Nat /\ uploaded' \in (0 .. sequence)'
         /\ identities' \in Nat /\ session' \in Session' /\ wiped' = TRUE
         /\ Row \subseteq Row' /\ Socket \subseteq Socket'
<1>1. /\ identities \in Nat /\ version \in Nat /\ identities' = identities + 1
      /\ session' = [identity |-> identities + 1, version |-> version]
      /\ Flush(NewSession, by) /\ NewSession = [identity |-> identities + 1, version |-> version]
      /\ wiped' = TRUE
  BY DEF Wipe, NewSession, TypeOK
<1>2. identities + 1 \in 1 .. identities' /\ version \in 0 .. version'
  BY <1>1
<1>3. NewSession \in Session'
  BY <1>1, <1>2 DEF Session
<1>4. /\ identities' \in Nat /\ version' \in Nat /\ identities' >= identities /\ version' >= version
  BY <1>1
<1>5. QED
  BY <1>1, <1>3, <1>4, FlushType

\* So is a closed one.
LEMMA ClosedSocket == ASSUME TypeOK PROVE Closed \in Socket
<1>1. 0 \in 0 .. identities
  BY DEF TypeOK
<1>2. QED
  BY <1>1 DEF Closed, Socket

\* The smallest number of a set of sockets.
LEMMA LeastSocket ==
  ASSUME NEW S \in SUBSET Sockets, S # {}
  PROVE  (CHOOSE s \in S : \A t \in S : s <= t) \in S
<1>1. S \subseteq Nat
  BY DaemonAssumption
<1>2. PICK x \in S : \A y \in S : ~ (<<y, x>> \in OpToRel(<, Nat))
  BY <1>1, NatLessThanWellFounded, WFMin
<1>3. \A y \in S : ~ (y < x)
  BY <1>1, <1>2 DEF OpToRel
<1>4. \A y \in S : x <= y
  BY <1>1, <1>3
<1>5. QED
  BY <1>4

\* The socket a connection gets was free, and lives then.
LEMMA ConnectSocket ==
  ASSUME TypeOK, Connect
  PROVE  \E s \in Free :
           /\ socket' = [socket EXCEPT ![s] = [phase |-> "live", identity |-> session.identity]]
           /\ current' = s
<1> DEFINE s == CHOOSE s \in Free : \A t \in Free : s <= t
<1>1. Free # {} /\ Free \in SUBSET Sockets
  BY DEF Connect, Free
<1>2. s \in Free
  BY <1>1, LeastSocket
<1>3. QED
  BY <1>2 DEF Connect

\* A process that ends leaves the values of one that has not begun.
LEMMA DieType == ASSUME TypeOK, Die PROVE TypeOK'
<1>1. Closed \in Socket /\ identities \in Nat /\ identities >= 1 /\ version \in Nat
  BY ClosedSocket DEF TypeOK, Session
<1>2. \A u \in uploads : [u EXCEPT !.by = "store"] \in Upload
  BY DEF TypeOK, Upload
<1>3. uploads' \subseteq Upload
  BY <1>2 DEF Die
<1>4. [identity |-> 1, version |-> 0] \in Session
  BY <1>1 DEF Session
<1>5. /\ socket' \in [Sockets -> Socket]
      /\ reset' \in [Resets -> {"none", "logout", "wipe", "saving", "done", "gone"}]
  BY <1>1 DEF Die
<1>6. Session' = Session /\ Row' = Row /\ Upload' = Upload /\ Socket' = Socket
  BY DEF Die, Session, Row, Upload, Socket
<1>7. 0 \in 0 .. sequence /\ sequence' = sequence
  BY DEF Die, TypeOK
<1>8. UNCHANGED <<starts, identities, version, stored, wiped>> /\ NoRow' = NoRow
  BY DEF Die, NoRow
<1>9. /\ process' = "down" /\ stopping' = FALSE /\ save_timer' = FALSE /\ uploaded' = 0
      /\ session' = [identity |-> 1, version |-> 0]
      /\ current' = 0 /\ state' = "disconnected" /\ timers' = 0 /\ connecting' = 0
  BY DEF Die
<1>10. QED
  BY <1>3, <1>4, <1>5, <1>6, <1>7, <1>8, <1>9 DEF TypeOK

\* A log-out of a living socket.
LEMMA LoggedOutType ==
  ASSUME TypeOK, NEW s \in Sockets, LoggedOut(s),
         reset' \in [Resets -> {"none", "logout", "wipe", "saving", "done", "gone"}]
  PROVE  TypeOK'
<1>1. /\ Wipe("store") /\ version' = version /\ socket' = [socket EXCEPT ![s] = Closed]
      /\ state' = "disconnected"
      /\ UNCHANGED <<process, stopping, starts, save_timer, stored, current, timers, connecting>>
  BY DEF LoggedOut
<1>2. /\ uploads' \subseteq Upload' /\ sequence' \in Nat /\ uploaded' \in (0 .. sequence)'
      /\ identities' \in Nat /\ session' \in Session' /\ wiped' = TRUE
      /\ Row \subseteq Row' /\ Socket \subseteq Socket'
  BY <1>1, WipeType
<1>3. socket' \in [Sockets -> Socket']
  BY <1>1, <1>2, ClosedSocket DEF TypeOK
<1>4. stored' \in Row' \cup {NoRow}
  BY <1>1, <1>2 DEF TypeOK
<1>5. QED
  BY <1>1, <1>2, <1>3, <1>4 DEF TypeOK, NoRow

\* Every step keeps the types.
LEMMA TypeInduction == ASSUME TypeOK, Signed, [Next]_vars PROVE TypeOK'
<1> DEFINE Still == UNCHANGED <<identities, version, sequence>>
<1>1. Still => Session' = Session /\ Row' = Row /\ Upload' = Upload /\ Socket' = Socket
                 /\ (0 .. sequence)' = 0 .. sequence /\ NoRow' = NoRow
  BY DEF Session, Row, Upload, Socket, NoRow
<1>2. /\ starts \in Nat /\ identities \in Nat /\ version \in Nat /\ sequence \in Nat
      /\ timers \in Nat /\ connecting \in Nat
  BY DEF TypeOK
<1>3. CASE UNCHANGED vars
  BY <1>1, <1>3 DEF vars, store, link, TypeOK
<1>4. CASE Start
  <2>1. identities' = identities + 1 /\ UNCHANGED <<version, sequence>>
        /\ session' = [identity |-> identities + 1, version |-> version] /\ uploaded' = 0
    BY <1>4 DEF Start, store, NewSession
  <2>2. /\ Session \subseteq Session' /\ Row \subseteq Row'
        /\ Upload \subseteq Upload' /\ Socket \subseteq Socket'
    BY <1>2, <2>1, Grow
  <2>3. identities + 1 \in 1 .. identities' /\ version \in 0 .. version' /\ 0 \in 0 .. sequence'
    BY <1>2, <2>1
  <2>4. session' \in Session'
    BY <2>1, <2>3 DEF Session
  <2>5. UNCHANGED <<uploads, stored, socket>>
    BY <1>4 DEF Start, link
  <2>6. /\ uploads' \subseteq Upload' /\ stored' \in Row' \cup {NoRow} /\ socket' \in [Sockets -> Socket']
    BY <2>2, <2>5 DEF TypeOK
  <2>7. QED
    BY <1>2, <1>4, <2>1, <2>3, <2>4, <2>6 DEF Start, store, link, TypeOK, NoRow
<1>5. CASE Load
  <2>1. session' \in Session /\ uploaded' \in 0 .. sequence /\ wiped' \in BOOLEAN
    <3>1. PICK row \in LoadSession :
            IF row # NoRow
            THEN session' = row.session /\ uploaded' = row.number /\ UNCHANGED wiped
            ELSE /\ UNCHANGED <<session, uploaded>>
                 /\ wiped' = (wiped \/ stored # NoRow \/ uploads # {})
      BY <1>5 DEF Load, Loaded
    <3>2. CASE row # NoRow
      <4>1. row \in Row
        BY <3>2 DEF LoadSession, TypeOK
      <4>2. row.session \in Session /\ row.number \in 1 .. sequence
        BY <4>1 DEF Row
      <4>3. QED
        BY <1>2, <3>1, <3>2, <4>2 DEF TypeOK
    <3>3. CASE row = NoRow
      BY <3>1, <3>3 DEF TypeOK
    <3>4. QED
      BY <3>2, <3>3
  <2>2. QED
    BY <1>1, <1>2, <1>5, <2>1 DEF Load, TypeOK
<1>6. CASE Signal
  <2>1. Flush(session, "signal") /\ UNCHANGED <<identities, version, session, stored, socket>>
    BY <1>6 DEF Signal, link
  <2>2. Session' = Session
    BY <2>1 DEF Session
  <2>3. /\ uploads' \subseteq Upload' /\ sequence' \in Nat /\ uploaded' \in (0 .. sequence)'
        /\ Row \subseteq Row' /\ Socket \subseteq Socket'
    BY <1>2, <2>1, <2>2, FlushType DEF TypeOK
  <2>4. stored' \in Row' \cup {NoRow} /\ socket' \in [Sockets -> Socket'] /\ session' \in Session'
    BY <2>1, <2>2, <2>3 DEF TypeOK
  <2>5. wiped' \in BOOLEAN
    BY <1>6 DEF Signal
  <2>6. QED
    BY <1>6, <2>3, <2>4, <2>5 DEF Signal, link, TypeOK, NoRow
<1>7. CASE Exit \/ Kill
  BY <1>7, DieType DEF Exit, Kill
<1>8. CASE Connect
  <2>1. Still
    BY <1>8 DEF Connect, store
  <2>2. PICK s \in Free : /\ socket' = [socket EXCEPT ![s] = [phase |-> "live", identity |-> session.identity]]
                          /\ current' = s
    BY <1>8, ConnectSocket
  <2>3. [phase |-> "live", identity |-> session.identity] \in Socket
    <3>1. session.identity \in 0 .. identities
      BY <1>2 DEF TypeOK, Session
    <3>2. QED
      BY <3>1 DEF Socket
  <2>4. socket' \in [Sockets -> Socket] /\ current' \in Sockets \cup {0}
    BY <2>2, <2>3 DEF TypeOK, Free
  <2>5. connecting' \in Nat
    BY <1>2, <1>8 DEF Connect
  <2>6. QED
    BY <1>1, <1>8, <2>1, <2>4, <2>5 DEF Connect, store, TypeOK
<1>9. CASE TimerFires
  BY <1>1, <1>2, <1>9 DEF TimerFires, Retry, store, TypeOK
<1>10. CASE Save
  <2>1. Flush(session, "store") /\ UNCHANGED <<identities, version, session, stored, socket>>
    BY <1>10 DEF Save, link
  <2>2. Session' = Session
    BY <2>1 DEF Session
  <2>3. /\ uploads' \subseteq Upload' /\ sequence' \in Nat /\ uploaded' \in (0 .. sequence)'
        /\ Row \subseteq Row' /\ Socket \subseteq Socket'
    BY <1>2, <2>1, <2>2, FlushType DEF TypeOK
  <2>4. stored' \in Row' \cup {NoRow} /\ socket' \in [Sockets -> Socket'] /\ session' \in Session'
    BY <2>1, <2>2, <2>3 DEF TypeOK
  <2>5. QED
    BY <1>10, <2>3, <2>4 DEF Save, link, TypeOK, NoRow
<1>11. ASSUME NEW s \in Sockets, ShowCode(s)
       PROVE  TypeOK'
  BY <1>1, <1>11 DEF ShowCode, store, TypeOK
<1>12. ASSUME NEW s \in Sockets, OpenSocket(s)
       PROVE  TypeOK'
  <2>1. [socket[s] EXCEPT !.phase = "open"] \in Socket
    BY DEF TypeOK, Socket
  <2>2. socket' \in [Sockets -> Socket]
    BY <1>12, <2>1 DEF OpenSocket, TypeOK
  <2>3. QED
    BY <1>1, <1>12, <2>2 DEF OpenSocket, store, TypeOK
<1>13. ASSUME NEW s \in Sockets, CloseSocket(s)
       PROVE  TypeOK'
  <2>1. socket' \in [Sockets -> Socket]
    BY <1>13, ClosedSocket DEF CloseSocket, TypeOK
  <2>2. timers' \in Nat
    BY <1>2, <1>13 DEF CloseSocket, Reconnect
  <2>3. QED
    BY <1>1, <1>13, <2>1, <2>2 DEF CloseSocket, store, TypeOK
<1>14. ASSUME NEW s \in Sockets, Unlink(s)
       PROVE  TypeOK'
  <2>1. reset' \in [Resets -> {"none", "logout", "wipe", "saving", "done", "gone"}]
    BY <1>14 DEF Unlink, TypeOK
  <2>2. QED
    BY <1>14, <2>1, LoggedOutType DEF Unlink
<1>15. ASSUME NEW s \in Sockets, Change(s)
       PROVE  TypeOK'
  <2>1. /\ version' = version + 1 /\ UNCHANGED <<identities, sequence, uploads, uploaded, stored, socket>>
    BY <1>15 DEF Change, link
  <2>2. /\ Session \subseteq Session' /\ Row \subseteq Row'
        /\ Upload \subseteq Upload' /\ Socket \subseteq Socket'
    BY <1>2, <2>1, Grow
  <2>3. session' \in Session'
    <3>1. version + 1 \in 0 .. version' /\ identities' = identities
      BY <1>2, <2>1
    <3>2. session.identity \in 1 .. identities
      BY DEF TypeOK, Session
    <3>3. socket[s].identity \in 1 .. identities
      BY <1>15 DEF Change, Signed
    <3>4. CASE session' = [session EXCEPT !.version = version + 1]
      <4>1. session' = [identity |-> session.identity, version |-> version + 1]
        BY <3>4 DEF TypeOK, Session
      <4>2. QED
        BY <3>1, <3>2, <4>1 DEF Session
    <3>5. CASE session' = [identity |-> socket[s].identity, version |-> version + 1]
      BY <3>1, <3>3, <3>5 DEF Session
    <3>6. QED
      BY <1>15, <3>4, <3>5 DEF Change, Changed
  <2>4. /\ uploads' \subseteq Upload' /\ stored' \in Row' \cup {NoRow} /\ socket' \in [Sockets -> Socket']
    BY <2>1, <2>2 DEF TypeOK
  <2>5. QED
    BY <1>2, <1>15, <2>1, <2>3, <2>4 DEF Change, Changed, link, TypeOK, NoRow
<1>16. ASSUME NEW u \in uploads, Store(u)
       PROVE  TypeOK'
  <2>1. u \in Upload
    BY DEF TypeOK
  <2>2. [session |-> u.session, number |-> u.number] \in Row
    BY <2>1 DEF Upload, Row
  <2>3. QED
    BY <1>1, <1>16, <2>2 DEF Store, link, TypeOK
<1>17. ASSUME NEW u \in uploads, Lose(u)
       PROVE  TypeOK'
  BY <1>1, <1>17 DEF Lose, link, TypeOK
<1>18. ASSUME NEW r \in Resets, RequestReset(r)
       PROVE  TypeOK'
  BY <1>1, <1>18 DEF RequestReset, store, link, TypeOK
<1>19. ASSUME NEW r \in Resets, LogOut(r)
       PROVE  TypeOK'
  <2>1. reset' \in [Resets -> {"none", "logout", "wipe", "saving", "done", "gone"}]
    BY <1>19 DEF LogOut, TypeOK
  <2>2. CASE current \in Alive /\ LoggedOut(current)
    BY <2>1, <2>2, LoggedOutType DEF Alive
  <2>3. CASE UNCHANGED <<process, stopping, starts, store, stored, link, wiped>>
    BY <1>1, <2>1, <2>3 DEF store, link, TypeOK
  <2>4. QED
    BY <1>19, <2>2, <2>3 DEF LogOut
<1>20. ASSUME NEW r \in Resets, WipeStore(r)
       PROVE  TypeOK'
  <2>1. /\ Wipe(r) /\ version' = version /\ UNCHANGED <<stored, socket>>
    BY <1>20 DEF WipeStore
  <2>2. /\ uploads' \subseteq Upload' /\ sequence' \in Nat /\ uploaded' \in (0 .. sequence)'
        /\ identities' \in Nat /\ session' \in Session' /\ wiped' = TRUE
        /\ Row \subseteq Row' /\ Socket \subseteq Socket'
    BY <2>1, WipeType
  <2>3. stored' \in Row' \cup {NoRow} /\ socket' \in [Sockets -> Socket']
    BY <2>1, <2>2 DEF TypeOK
  <2>4. QED
    BY <1>20, <2>1, <2>2, <2>3 DEF WipeStore, TypeOK, NoRow
<1>21. ASSUME NEW r \in Resets, ConnectAgain(r)
       PROVE  TypeOK'
  BY <1>1, <1>2, <1>21 DEF ConnectAgain, store, TypeOK
<1>22. QED
  BY <1>3, <1>4, <1>5, <1>6, <1>7, <1>8, <1>9, <1>10, <1>11, <1>12, <1>13, <1>14, <1>15,
     <1>16, <1>17, <1>18, <1>19, <1>20, <1>21 DEF Next

-----------------------------------------------------------------------------
(* What the steps do to the store and to the uploads.                      *)

\* The steps that touch the store.
LEMMA StoreSteps ==
  ASSUME [Next]_vars
  PROVE  \/ UNCHANGED <<process, save_timer, uploads, uploaded, session, stored>>
         \/ Start \/ Load \/ Die
         \/ \E by : Flush(session', by) /\ UNCHANGED stored
         \/ \E s \in Sockets : Change(s)
         \/ \E u \in uploads : Store(u) \/ Lose(u)
<1>1. CASE UNCHANGED vars
  BY <1>1 DEF vars, store
<1>2. CASE Signal
  BY <1>2 DEF Signal
<1>3. CASE Exit \/ Kill
  BY <1>3 DEF Exit, Kill
<1>4. CASE Save
  BY <1>4 DEF Save
<1>5. CASE Connect \/ TimerFires
  BY <1>5 DEF Connect, TimerFires, store
<1>6. ASSUME NEW s \in Sockets, ShowCode(s) \/ OpenSocket(s) \/ CloseSocket(s)
      PROVE  UNCHANGED <<process, save_timer, uploads, uploaded, session, stored>>
  BY <1>6 DEF ShowCode, OpenSocket, CloseSocket, store
<1>7. ASSUME NEW s, LoggedOut(s)
      PROVE  \E by : Flush(session', by) /\ UNCHANGED stored
  BY <1>7 DEF LoggedOut, Wipe
<1>8. ASSUME NEW r \in Resets, RequestReset(r) \/ ConnectAgain(r)
      PROVE  UNCHANGED <<process, save_timer, uploads, uploaded, session, stored>>
  BY <1>8 DEF RequestReset, ConnectAgain, store
<1>9. ASSUME NEW r \in Resets, LogOut(r)
      PROVE  \/ UNCHANGED <<process, save_timer, uploads, uploaded, session, stored>>
             \/ \E by : Flush(session', by) /\ UNCHANGED stored
  BY <1>7, <1>9 DEF LogOut, store
<1>10. ASSUME NEW r \in Resets, WipeStore(r)
       PROVE  \E by : Flush(session', by) /\ UNCHANGED stored
  BY <1>10 DEF WipeStore, Wipe
<1>11. QED
  BY <1>1, <1>2, <1>3, <1>4, <1>5, <1>6, <1>7, <1>8, <1>9, <1>10 DEF Next, Unlink

\* The upload of a flush has a number above all others.
LEMMA FlushNumber ==
  ASSUME TypeOK, NEW what, NEW by, Flush(what, by)
  PROVE  /\ uploaded' = sequence + 1
         /\ \A u \in uploads : u.number # sequence + 1
         /\ stored.number # sequence + 1
         /\ \A u \in uploads' : u \in uploads \/ (u.number = sequence + 1 /\ u.session = what)
         /\ \A u, v \in uploads' : u \notin uploads /\ v \notin uploads => u = v
<1>1. /\ sequence \in Nat /\ uploads \subseteq Upload /\ stored \in Row \cup {NoRow}
  BY DEF TypeOK
<1>2. \A u \in uploads : u.number # sequence + 1
  BY <1>1 DEF Upload
<1>3. stored.number # sequence + 1
  BY <1>1 DEF Row, NoRow
<1>4. QED
  BY <1>2, <1>3 DEF Flush

\* An upload gets a number nobody had; the row gets that of an upload that is gone.
LEMMA NumberedInduction == ASSUME TypeOK, Numbered, [Next]_vars PROVE Numbered'
<1>1. CASE UNCHANGED <<uploads, stored>>
  BY <1>1 DEF Numbered
<1>2. ASSUME NEW by, Flush(session', by), UNCHANGED stored
      PROVE  Numbered'
  <2>1. /\ \A u \in uploads : u.number # sequence + 1
        /\ stored.number # sequence + 1
        /\ \A u \in uploads' : u \in uploads \/ u.number = sequence + 1
        /\ \A u, v \in uploads' : u \notin uploads /\ v \notin uploads => u = v
    BY <1>2, FlushNumber
  <2>2. ASSUME NEW u \in uploads', NEW v \in uploads', u.number = v.number PROVE u = v
    <3>1. CASE u \in uploads /\ v \in uploads
      BY <2>2, <3>1 DEF Numbered
    <3>2. CASE u \notin uploads /\ v \notin uploads
      BY <2>1, <3>2
    <3>3. CASE (u \in uploads /\ v \notin uploads) \/ (u \notin uploads /\ v \in uploads)
      BY <2>1, <2>2, <3>3
    <3>4. QED
      BY <3>1, <3>2, <3>3
  <2>3. ASSUME NEW u \in uploads' PROVE u.number # stored.number
    BY <2>1 DEF Numbered
  <2>4. QED
    BY <1>2, <2>2, <2>3 DEF Numbered
<1>3. CASE Die
  <2>1. uploads' = { [u EXCEPT !.by = "store"] : u \in uploads } /\ stored' = stored
    BY <1>3 DEF Die
  <2>2. \A u \in uploads : [u EXCEPT !.by = "store"].number = u.number
    BY DEF TypeOK, Upload
  <2>3. \A v \in uploads' : \E u \in uploads : v = [u EXCEPT !.by = "store"] /\ v.number = u.number
    BY <2>1, <2>2
  <2>4. ASSUME NEW v \in uploads', NEW w \in uploads', v.number = w.number PROVE v = w
    BY <2>3, <2>4 DEF Numbered
  <2>5. ASSUME NEW v \in uploads' PROVE v.number # stored.number
    BY <2>3 DEF Numbered
  <2>6. QED
    BY <2>1, <2>4, <2>5 DEF Numbered
<1>4. ASSUME NEW u \in uploads, Store(u) PROVE Numbered'
  <2>1. uploads' = uploads \ {u} /\ stored' = [session |-> u.session, number |-> u.number]
    BY <1>4 DEF Store
  <2>2. QED
    BY <2>1 DEF Numbered
<1>5. ASSUME NEW u \in uploads, Lose(u) PROVE Numbered'
  BY <1>5 DEF Lose, Numbered
<1>6. QED
  BY <1>1, <1>2, <1>3, <1>4, <1>5, StoreSteps DEF Start, Load, Change

\* What changes the session schedules a save, and what uploads it numbers it.
LEMMA LatestInduction == ASSUME TypeOK, Numbered, Latest, [Next]_vars PROVE Latest'
<1>1. /\ \A u \in uploads : u \in Upload /\ u.number # 0
      /\ stored \in Row \cup {NoRow} /\ (stored # NoRow => stored.number # 0)
  BY DEF TypeOK, Upload, Row
<1>2. CASE UNCHANGED <<process, save_timer, uploads, uploaded, session, stored>>
  BY <1>2 DEF Latest, NoRow
<1>3. CASE Start
  BY <1>1, <1>3 DEF Start, Latest, NoRow
<1>4. CASE Load
  <2>1. UNCHANGED <<save_timer, uploads, stored>> /\ process # "down"
    BY <1>4 DEF Load
  <2>2. \/ stored # NoRow /\ session' = stored.session /\ uploaded' = stored.number
        \/ UNCHANGED <<session, uploaded>>
    BY <1>4 DEF Load, Loaded, LoadSession
  <2>3. QED
    BY <2>1, <2>2 DEF Latest, Numbered, NoRow
<1>5. CASE Die
  BY <1>5 DEF Die, Latest
<1>6. ASSUME NEW by, Flush(session', by), UNCHANGED stored
      PROVE  Latest'
  <2>1. /\ uploaded' = sequence + 1
        /\ \A u \in uploads : u.number # sequence + 1
        /\ stored.number # sequence + 1
        /\ \A u \in uploads' : u \in uploads \/ (u.number = sequence + 1 /\ u.session = session')
    BY <1>6, FlushNumber
  <2>2. QED
    BY <1>6, <2>1 DEF Latest
<1>7. ASSUME NEW s \in Sockets, Change(s) PROVE Latest'
  BY <1>7 DEF Change, Changed, Latest
<1>8. ASSUME NEW u \in uploads, Store(u) PROVE Latest'
  BY <1>8 DEF Store, Latest, NoRow
<1>9. ASSUME NEW u \in uploads, Lose(u) PROVE Latest'
  BY <1>9 DEF Lose, Latest, NoRow
<1>10. QED
  BY <1>2, <1>3, <1>4, <1>5, <1>6, <1>7, <1>8, <1>9, StoreSteps

-----------------------------------------------------------------------------
(* What they do to the sockets.                                            *)

\* Exit and Kill are the only ways down, and come to the same.
LEMMA SocketSteps ==
  ASSUME [Next]_vars
  PROVE  \/ UNCHANGED link
         \/ Load \/ Die \/ Connect \/ TimerFires
         \/ \E s \in Sockets : ShowCode(s) \/ OpenSocket(s) \/ CloseSocket(s)
         \/ \E s \in Alive : LoggedOut(s)
         \/ \E r \in Resets : WipeStore(r) \/ ConnectAgain(r)
BY DEF Next, vars, Start, Signal, Exit, Kill, Save, Change, Store, Lose, RequestReset, LogOut, Unlink

\* The sockets alive after each step.
LEMMA AliveAfter ==
  ASSUME TypeOK
  PROVE  /\ UNCHANGED socket => Alive' = Alive /\ Open' = Open
         /\ Die => Alive' = {}
         /\ \A s \in Sockets : OpenSocket(s) => Alive' = Alive /\ s \in Open'
         /\ \A s \in Sockets : socket' = [socket EXCEPT ![s] = Closed] => Alive' = Alive \ {s}
         /\ \A s \in Sockets : \A identity :
              socket' = [socket EXCEPT ![s] = [phase |-> "live", identity |-> identity]]
                => Alive' = Alive \cup {s}
<1>1. socket \in [Sockets -> Socket]
  BY DEF TypeOK
<1>2. UNCHANGED socket => Alive' = Alive /\ Open' = Open
  BY DEF Alive, Open
<1>3. Die => Alive' = {}
  BY DEF Die, Alive, Closed
<1>4. ASSUME NEW s \in Sockets, OpenSocket(s) PROVE Alive' = Alive /\ s \in Open'
  <2>1. socket' = [socket EXCEPT ![s].phase = "open"] /\ socket[s].phase = "live"
    BY <1>4 DEF OpenSocket
  <2>2. \A t \in Sockets : socket'[t].phase = IF t = s THEN "open" ELSE socket[t].phase
    BY <1>1, <2>1 DEF Socket
  <2>3. QED
    BY <2>1, <2>2 DEF Alive, Open
<1>5. ASSUME NEW s \in Sockets, socket' = [socket EXCEPT ![s] = Closed] PROVE Alive' = Alive \ {s}
  BY <1>1, <1>5 DEF Alive, Closed
<1>6. ASSUME NEW s \in Sockets, NEW identity,
             socket' = [socket EXCEPT ![s] = [phase |-> "live", identity |-> identity]]
      PROVE  Alive' = Alive \cup {s}
  BY <1>1, <1>6 DEF Alive
<1>7. QED
  BY <1>2, <1>3, <1>4, <1>5, <1>6

\* A new socket signs in with the identity of the session; a start or a
\* reset only adds identities.
LEMMA SignedInduction == ASSUME TypeOK, Signed, [Next]_vars PROVE Signed'
<1>1. identities \in Nat /\ socket \in [Sockets -> Socket] /\ session.identity \in 1 .. identities
  BY DEF TypeOK, Session
<1>2. identities' \in {identities, identities + 1}
  BY DEF Next, vars, store, Start, Load, Signal, Exit, Kill, Die, Connect, TimerFires, Save,
         ShowCode, OpenSocket, CloseSocket, Unlink, LoggedOut, Wipe, Change, Store, Lose,
         RequestReset, LogOut, WipeStore, ConnectAgain
<1>3. 1 .. identities \subseteq 1 .. identities'
  BY <1>1, <1>2
<1>4. SUFFICES \A t \in Alive' : socket'[t].identity \in 1 .. identities
  BY <1>3 DEF Signed
<1>5. CASE UNCHANGED socket
  BY <1>5 DEF Signed, Alive
<1>6. CASE Die
  BY <1>6, AliveAfter
<1>7. CASE Connect
  <2>1. PICK s \in Free : socket' = [socket EXCEPT ![s] = [phase |-> "live", identity |-> session.identity]]
    BY <1>7, ConnectSocket
  <2>2. QED
    BY <1>1, <2>1 DEF Signed, Alive, Free
<1>8. ASSUME NEW s \in Sockets, OpenSocket(s)
      PROVE  \A t \in Alive' : socket'[t].identity \in 1 .. identities
  <2>1. socket' = [socket EXCEPT ![s].phase = "open"] /\ Alive' = Alive
    BY <1>8, AliveAfter DEF OpenSocket
  <2>2. \A t \in Sockets : socket'[t].identity = socket[t].identity
    BY <1>1, <2>1 DEF Socket
  <2>3. QED
    BY <2>1, <2>2 DEF Signed, Alive
<1>9. ASSUME NEW s \in Sockets, socket' = [socket EXCEPT ![s] = Closed]
      PROVE  \A t \in Alive' : socket'[t].identity \in 1 .. identities
  BY <1>1, <1>9, AliveAfter DEF Signed, Alive
<1>10. QED
  BY <1>5, <1>6, <1>7, <1>8, <1>9, SocketSteps
     DEF link, Load, TimerFires, ShowCode, CloseSocket, LoggedOut, WipeStore, ConnectAgain, Alive

\* What ends the process stops all of this, and nothing restarts it before a load.
LEMMA RestingInduction == ASSUME TypeOK, Resting, [Next]_vars PROVE Resting'
<1>1. CASE Die
  <2>1. Alive' = {}
    BY <1>1, AliveAfter
  <2>2. /\ timers' = 0 /\ connecting' = 0 /\ ~ save_timer'
        /\ \A r \in Resets : reset'[r] \in {"none", "gone"}
    BY <1>1 DEF Die
  <2>3. QED
    BY <2>1, <2>2 DEF Resting
<1>2. CASE process' = "down" /\ process # "down"
  BY <1>1, <1>2 DEF Next, vars, store, link, Start, Load, Signal, Exit, Kill, Connect, TimerFires,
     Save, ShowCode, OpenSocket, CloseSocket, Unlink, LoggedOut, Change, Store, Lose,
     RequestReset, LogOut, WipeStore, ConnectAgain
<1>3. CASE process' = "down" /\ process = "down"
  <2>1. /\ Alive = {} /\ timers = 0 /\ connecting = 0 /\ ~ save_timer
        /\ \A r \in Resets : reset[r] \in {"none", "gone"}
    BY <1>3 DEF Resting
  <2>2. Die \/ UNCHANGED <<link, save_timer, reset>>
    BY <1>3, <2>1 DEF Next, vars, store, Start, Load, Signal, Exit, Kill, Connect, TimerFires, Retry,
       Save, ShowCode, OpenSocket, CloseSocket, Unlink, LoggedOut, Change, Store, Lose,
       RequestReset, LogOut, WipeStore, ConnectAgain, Alive
  <2>3. CASE UNCHANGED <<link, save_timer, reset>>
    BY <2>1, <2>3 DEF link, Resting, Alive
  <2>4. QED
    BY <1>1, <2>2, <2>3
<1>4. QED
  BY <1>2, <1>3 DEF Resting

-----------------------------------------------------------------------------
(* One identity.                                                           *)

\* The identity of a session, a socket or an upload that counts is the one.
LEMMA KeptInduction ==
  ASSUME TypeOK, Signed, Resting, Kept, [Next]_vars, Resting', ~ wiped'
  PROVE  Kept'
<1>1. ~ wiped
  BY DEF Next, vars, Start, Load, Loaded, Signal, Exit, Kill, Die, Connect, TimerFires, Save,
         ShowCode, OpenSocket, CloseSocket, Unlink, LoggedOut, Wipe, Change, Store, Lose,
         RequestReset, LogOut, WipeStore, ConnectAgain
<1>2. /\ \A r \in Resets : reset[r] # "saving"
      /\ process # "up" => Alive = {} /\ timers = 0 /\ connecting = 0 /\ ~ save_timer
      /\ \A i, j \in Identities : i = j
  BY <1>1 DEF Kept
<1>3. \A r \in Resets : reset'[r] # "saving"
  <2>1. ASSUME NEW r \in Resets, WipeStore(r) PROVE FALSE
    BY <2>1 DEF WipeStore, Wipe
  <2>2. \/ UNCHANGED reset \/ Die
        \/ \E r \in Resets : RequestReset(r) \/ LogOut(r) \/ ConnectAgain(r)
    BY <2>1 DEF Next, vars, Start, Load, Signal, Exit, Kill, Connect, TimerFires, Save,
         ShowCode, OpenSocket, CloseSocket, Unlink, Change, Store, Lose
  <2>3. QED
    BY <1>2, <2>2 DEF Die, RequestReset, LogOut, ConnectAgain, TypeOK
<1>4. ASSUME UNCHANGED <<process, save_timer, timers, connecting>>, Alive' \subseteq Alive,
             Identities' \subseteq Identities
      PROVE  Kept'
  BY <1>2, <1>3, <1>4 DEF Kept
<1>5. CASE UNCHANGED <<process, session, uploads, stored, socket, save_timer, timers, connecting>>
  <2>1. Identities' = Identities /\ Alive' = Alive
    BY <1>5 DEF Identities, Alive, NoRow
  <2>2. QED
    BY <1>4, <1>5, <2>1
<1>6. CASE Start
  <2>1. /\ process = "down" /\ process' = "loading" /\ Alive' = Alive
        /\ UNCHANGED <<uploads, stored, socket, save_timer, timers, connecting>>
    BY <1>6 DEF Start, link, Alive
  <2>2. Identities' \subseteq Identities
    BY <2>1 DEF Identities, NoRow, Alive
  <2>3. QED
    BY <1>2, <1>3, <2>1, <2>2 DEF Kept
<1>7. CASE Load
  <2>1. /\ process' = "up" /\ process = "loading" /\ Alive' = Alive /\ Alive = {}
        /\ UNCHANGED <<uploads, stored, socket>>
    BY <1>2, <1>7 DEF Load, Alive
  <2>2. CASE stored # NoRow /\ session' = stored.session
    <3>1. Identities' \subseteq Identities
      BY <2>1, <2>2 DEF Identities, NoRow
    <3>2. QED
      BY <1>2, <1>3, <2>1, <3>1 DEF Kept
  <2>3. CASE stored = NoRow /\ uploads = {}
    <3>1. Identities' = {session'.identity}
      BY <2>1, <2>3 DEF Identities, NoRow
    <3>2. QED
      BY <1>3, <2>1, <3>1 DEF Kept
  <2>4. QED
    BY <1>7, <2>2, <2>3 DEF Load, Loaded, LoadSession
<1>8. CASE Die
  <2>1. /\ process' = "down" /\ Alive' = {} /\ UNCHANGED stored
        /\ uploads' = { [u EXCEPT !.by = "store"] : u \in uploads }
    BY <1>8, AliveAfter DEF Die
  <2>2. \A u \in uploads : [u EXCEPT !.by = "store"].session = u.session
    BY DEF TypeOK, Upload
  <2>3. { u.session.identity : u \in uploads' } \subseteq { u.session.identity : u \in uploads }
    BY <2>1, <2>2
  <2>4. Identities' \subseteq Identities
    BY <2>1, <2>3 DEF Identities, NoRow
  <2>5. QED
    BY <1>2, <1>3, <2>1, <2>4 DEF Kept, Resting
<1>9. ASSUME NEW by, Flush(session, by), process = "up",
              UNCHANGED <<process, session, stored, socket, timers, connecting>>
       PROVE  Kept'
  <2>1. /\ Alive' = Alive
        /\ uploads' = uploads \cup {[session |-> session, number |-> sequence + 1, by |-> by]}
    BY <1>9 DEF Flush, Alive
  <2>2. Identities' = Identities
    BY <1>9, <2>1 DEF Identities, NoRow
  <2>3. QED
    BY <1>2, <1>3, <1>9, <2>2 DEF Kept
<1>10. CASE Signal
  <2>1. process = "up" /\ Flush(session, "signal")
    BY <1>10 DEF Signal, TypeOK
  <2>2. QED
    BY <1>9, <1>10, <2>1 DEF Signal, link
<1>11. CASE Save
  <2>1. process = "up" /\ Flush(session, "store")
    BY <1>2, <1>11 DEF Save
  <2>2. QED
    BY <1>9, <1>11, <2>1 DEF Save, link
<1>12. CASE Connect
  <2>1. PICK s \in Free : socket' = [socket EXCEPT ![s] = [phase |-> "live", identity |-> session.identity]]
    BY <1>12, ConnectSocket
  <2>2. process = "up" /\ process' = "up"
    BY <1>2, <1>12 DEF Connect, TypeOK
  <2>3. Alive' = Alive \cup {s} /\ s \in Sockets
    BY <2>1, AliveAfter DEF Free
  <2>4. /\ socket'[s].identity = session.identity
        /\ \A t \in Alive : t # s => socket'[t].identity = socket[t].identity
        /\ s \notin Alive
    BY <2>1 DEF TypeOK, Free
  <2>5. { socket'[t].identity : t \in Alive' }
          \subseteq { socket[t].identity : t \in Alive } \cup {session.identity}
    BY <2>3, <2>4
  <2>6. UNCHANGED <<uploads, stored, session>>
    BY <1>12 DEF Connect, store
  <2>7. Identities' \subseteq Identities
    BY <2>2, <2>5, <2>6 DEF Identities, NoRow
  <2>8. QED
    BY <1>2, <1>3, <2>2, <2>7 DEF Kept
<1>13. CASE TimerFires
  <2>1. /\ UNCHANGED <<process, session, uploads, stored, socket>>
        /\ timers > 0
    BY <1>13 DEF TimerFires, Retry, store
  <2>2. process = "up"
    BY <1>2, <2>1
  <2>3. Identities' = Identities
    BY <2>1 DEF Identities, NoRow, Alive
  <2>4. QED
    BY <1>2, <1>3, <2>1, <2>2, <2>3 DEF Kept
<1>14. ASSUME NEW s \in Sockets, OpenSocket(s) PROVE Kept'
  <2>1. Alive' = Alive
    BY <1>14, AliveAfter
  <2>2. \A t \in Alive : socket'[t].identity = socket[t].identity
    BY <1>14 DEF OpenSocket, Alive, TypeOK, Socket
  <2>3. /\ UNCHANGED <<process, session, uploads, stored, save_timer, timers, connecting>>
    BY <1>14 DEF OpenSocket, store
  <2>4. { socket'[t].identity : t \in Alive' } = { socket[t].identity : t \in Alive }
    BY <2>1, <2>2
  <2>5. Identities' = Identities
    BY <2>3, <2>4 DEF Identities, NoRow
  <2>6. QED
    BY <1>4, <2>1, <2>3, <2>5
<1>15. ASSUME NEW s \in Sockets, CloseSocket(s) PROVE Kept'
  <2>1. /\ Alive' = Alive \ {s} /\ socket' = [socket EXCEPT ![s] = Closed] /\ s \in Alive
        /\ UNCHANGED <<process, session, uploads, stored, save_timer, connecting>>
    BY <1>15, AliveAfter DEF CloseSocket, store
  <2>2. \A t \in Alive' : t \in Alive /\ socket'[t].identity = socket[t].identity
    BY <2>1 DEF TypeOK, Alive
  <2>3. { socket'[t].identity : t \in Alive' } \subseteq { socket[t].identity : t \in Alive }
    BY <2>2
  <2>4. Identities' \subseteq Identities
    BY <2>1, <2>3 DEF Identities, NoRow
  <2>5. process = "up"
    BY <1>2, <2>1
  <2>6. QED
    BY <1>2, <1>3, <2>1, <2>4, <2>5 DEF Kept
<1>16. ASSUME NEW s, LoggedOut(s) PROVE FALSE
  BY <1>16 DEF LoggedOut, Wipe
<1>17. ASSUME NEW s \in Sockets, Change(s) PROVE Kept'
  <2>1. /\ s \in Alive /\ UNCHANGED <<process, uploads, stored, socket, timers, connecting>>
        /\ session'.identity \in {socket[s].identity, session.identity}
    BY <1>17 DEF Change, Changed, link, TypeOK, Session
  <2>2. process = "up"
    BY <1>2, <2>1
  <2>3. Alive' = Alive /\ socket[s].identity \in { socket[t].identity : t \in Alive }
    BY <2>1 DEF Alive
  <2>4. Identities' \subseteq Identities
    BY <2>1, <2>2, <2>3 DEF Identities, NoRow
  <2>5. QED
    BY <1>2, <1>3, <2>1, <2>2, <2>4 DEF Kept
<1>18. ASSUME NEW u \in uploads, Store(u) PROVE Kept'
  <2>1. /\ uploads' = uploads \ {u} /\ stored' = [session |-> u.session, number |-> u.number]
        /\ UNCHANGED <<process, session, socket, save_timer, timers, connecting>>
    BY <1>18 DEF Store, link
  <2>2. stored'.session.identity \in { v.session.identity : v \in uploads } /\ Alive' = Alive
    BY <2>1 DEF Alive
  <2>3. Identities' \subseteq Identities
    BY <2>1, <2>2 DEF Identities
  <2>4. QED
    BY <1>4, <2>1, <2>2, <2>3
<1>19. ASSUME NEW u \in uploads, Lose(u) PROVE Kept'
  <2>1. /\ uploads' = uploads \ {u} /\ UNCHANGED <<stored, process, session, socket, save_timer, timers, connecting>>
    BY <1>19 DEF Lose, link
  <2>2. Identities' \subseteq Identities /\ Alive' = Alive
    BY <2>1 DEF Identities, NoRow, Alive
  <2>3. QED
    BY <1>4, <2>1, <2>2
<1>20. ASSUME NEW r \in Resets, WipeStore(r) PROVE FALSE
  BY <1>20 DEF WipeStore, Wipe
<1>21. ASSUME NEW r \in Resets, ConnectAgain(r) PROVE FALSE
  BY <1>2, <1>21 DEF ConnectAgain
<1>22. ASSUME NEW r \in Resets, RequestReset(r) PROVE Kept'
  BY <1>5, <1>22 DEF RequestReset, store, link
<1>23. ASSUME NEW r \in Resets, LogOut(r) PROVE Kept'
  BY <1>5, <1>16, <1>23 DEF LogOut, store, link
<1>24. ASSUME NEW s \in Sockets, ShowCode(s) PROVE Kept'
  BY <1>5, <1>24 DEF ShowCode, store
<1>25. CASE UNCHANGED vars
  BY <1>5, <1>25 DEF vars, store, link
<1>26. QED
  BY <1>6, <1>7, <1>8, <1>10, <1>11, <1>12, <1>13, <1>14, <1>15, <1>16, <1>17, <1>18, <1>19,
     <1>20, <1>21, <1>22, <1>23, <1>24, <1>25 DEF Next, Exit, Kill, Unlink

-----------------------------------------------------------------------------
(* Sockets and the state shown.                                            *)

\* The sockets alive are finitely many; one more or one less counts.
LEMMA AliveCount ==
  /\ IsFiniteSet(Alive) /\ Cardinality(Alive) \in Nat
  /\ \A s \in Alive : Cardinality(Alive \ {s}) = Cardinality(Alive) - 1
  /\ \A s : s \notin Alive => Cardinality(Alive \cup {s}) = Cardinality(Alive) + 1
<1>1. IsFiniteSet(Alive)
  BY DaemonAssumption, FS_Subset DEF Alive
<1>2. QED
  BY <1>1, FS_CardinalityType, FS_AddElement, FS_RemoveElement

\* Every step takes its socket or reconnection from another, but a load and the
\* end of a reset, which count.
LEMMA CountedInduction == ASSUME TypeOK, Resting, Counted, [Next]_vars PROVE Counted'
<1>1. /\ timers \in Nat /\ connecting \in Nat /\ Cardinality(Alive) \in Nat
      /\ IsFiniteSet(Done) /\ Cardinality(Done) \in Nat
      /\ process \in {"down", "loading", "up"}
      /\ Cardinality(Alive) + timers + connecting
           <= (IF process = "up" THEN 1 ELSE 0) + Cardinality(Done)
  BY AliveCount, FS_CardinalityType DEF TypeOK, Counted
<1>2. ASSUME UNCHANGED process, Done' = Done, timers' \in Nat, connecting' \in Nat,
             Cardinality(Alive') \in Nat,
             Cardinality(Alive') + timers' + connecting' <= Cardinality(Alive) + timers + connecting
      PROVE  Counted'
  <2>1. Cardinality(Alive') + timers' + connecting'
          <= (IF process = "up" THEN 1 ELSE 0) + Cardinality(Done)
    BY <1>1, <1>2
  <2>2. QED
    BY <1>1, <1>2, <2>1 DEF Counted
<1>3. CASE UNCHANGED <<process, socket, timers, connecting>> /\ Done' = Done
  BY <1>1, <1>2, <1>3 DEF Alive
<1>4. CASE Start
  <2>1. UNCHANGED <<socket, timers, connecting, reset>> /\ process = "down" /\ process' = "loading"
    BY <1>4 DEF Start, link
  <2>2. Alive' = Alive /\ Done' = Done
    BY <2>1 DEF Alive, Done
  <2>3. QED
    BY <1>1, <2>1, <2>2 DEF Counted
<1>5. CASE Load
  <2>1. /\ UNCHANGED <<socket, timers, reset>> /\ process = "loading" /\ process' = "up"
        /\ connecting' = connecting + 1
    BY <1>5 DEF Load
  <2>2. Alive' = Alive /\ Done' = Done
    BY <2>1 DEF Alive, Done
  <2>3. QED
    BY <1>1, <2>1, <2>2 DEF Counted
<1>6. CASE Die
  <2>1. Alive' = {} /\ timers' = 0 /\ connecting' = 0
    BY <1>6, AliveAfter DEF Die
  <2>2. Done' = {}
    BY <1>6 DEF Die, Done
  <2>3. QED
    BY <1>6, <2>1, <2>2, FS_EmptySet DEF Counted, Die
<1>7. CASE Connect
  <2>1. PICK s \in Free : socket' = [socket EXCEPT ![s] = [phase |-> "live", identity |-> session.identity]]
    BY <1>7, ConnectSocket
  <2>2. Alive' = Alive \cup {s} /\ s \notin Alive
    BY <2>1, AliveAfter DEF Free
  <2>3. Cardinality(Alive') = Cardinality(Alive) + 1
    BY <2>2, AliveCount
  <2>4. connecting > 0 /\ connecting' = connecting - 1 /\ UNCHANGED <<process, timers>> /\ Done' = Done
    BY <1>7 DEF Connect, Done
  <2>5. QED
    BY <1>1, <1>2, <2>3, <2>4
<1>8. CASE TimerFires
  <2>1. /\ timers > 0 /\ timers' = timers - 1 /\ connecting' = connecting + 1
        /\ UNCHANGED <<process, socket>> /\ Done' = Done /\ Alive' = Alive
    BY <1>8 DEF TimerFires, Retry, Done, Alive
  <2>2. QED
    BY <1>1, <1>2, <2>1
<1>9. ASSUME NEW s \in Sockets, OpenSocket(s) PROVE Counted'
  <2>1. Alive' = Alive /\ Done' = Done /\ UNCHANGED <<process, timers, connecting>>
    BY <1>9, AliveAfter DEF OpenSocket, Done
  <2>2. QED
    BY <1>1, <1>2, <2>1
<1>10. ASSUME NEW s \in Sockets, CloseSocket(s) PROVE Counted'
  <2>1. /\ Alive' = Alive \ {s} /\ s \in Alive /\ Done' = Done /\ timers' = timers + 1
        /\ UNCHANGED <<process, connecting>>
    BY <1>10, AliveAfter DEF CloseSocket, Reconnect, Done
  <2>2. Cardinality(Alive') = Cardinality(Alive) - 1 /\ Cardinality(Alive) - 1 \in Nat
    <3>1. Cardinality(Alive') = Cardinality(Alive) - 1
      BY <2>1, AliveCount
    <3>2. Cardinality(Alive') \in Nat
      BY <2>1, AliveCount, FS_RemoveElement, FS_CardinalityType
    <3>3. QED
      BY <3>1, <3>2
  <2>3. QED
    BY <1>1, <1>2, <2>1, <2>2
<1>11. ASSUME NEW s \in Alive, LoggedOut(s), Done' = Done PROVE Counted'
  <2>1. /\ Alive' = Alive \ {s} /\ UNCHANGED <<process, timers, connecting>>
    BY <1>11, AliveAfter DEF LoggedOut, Alive
  <2>2. Cardinality(Alive') = Cardinality(Alive) - 1 /\ Cardinality(Alive') \in Nat
    BY <2>1, AliveCount, FS_RemoveElement, FS_CardinalityType
  <2>3. QED
    BY <1>1, <1>2, <1>11, <2>1, <2>2
<1>12. ASSUME NEW r \in Resets, RequestReset(r) \/ LogOut(r) \/ WipeStore(r)
       PROVE  Done' = Done
  <2>1. PICK to \in {"logout", "wipe", "saving"} : reset' = [reset EXCEPT ![r] = to]
    BY <1>12 DEF RequestReset, LogOut, WipeStore
  <2>2. reset[r] # "done"
    BY <1>12 DEF RequestReset, LogOut, WipeStore
  <2>3. QED
    BY <2>1, <2>2 DEF Done, TypeOK
<1>13. ASSUME NEW r \in Resets, RequestReset(r) PROVE Counted'
  BY <1>3, <1>12, <1>13 DEF RequestReset, link
<1>14. ASSUME NEW r \in Resets, LogOut(r) PROVE Counted'
  BY <1>3, <1>11, <1>12, <1>14 DEF LogOut, link
<1>15. ASSUME NEW r \in Resets, WipeStore(r) PROVE Counted'
  BY <1>3, <1>12, <1>15 DEF WipeStore
<1>16. ASSUME NEW r \in Resets, ConnectAgain(r) PROVE Counted'
  <2>1. /\ reset[r] = "saving" /\ reset' = [reset EXCEPT ![r] = "done"]
        /\ connecting' = connecting + 1 /\ UNCHANGED <<process, socket, timers>>
    BY <1>16 DEF ConnectAgain
  <2>2. Done' = Done \cup {r} /\ r \notin Done
    BY <2>1 DEF Done, TypeOK
  <2>3. IsFiniteSet(Done') /\ Cardinality(Done') = Cardinality(Done) + 1
    BY <1>1, <2>2, FS_AddElement
  <2>4. Alive' = Alive
    BY <2>1 DEF Alive
  <2>5. QED
    BY <1>1, <2>1, <2>3, <2>4 DEF Counted
<1>17. ASSUME NEW s \in Sockets, ShowCode(s) \/ Change(s) PROVE Counted'
  BY <1>3, <1>17 DEF ShowCode, Change, link, Done
<1>18. ASSUME NEW u \in uploads, Store(u) \/ Lose(u) PROVE Counted'
  BY <1>3, <1>18 DEF Store, Lose, link, Done
<1>19. CASE Signal \/ Save \/ UNCHANGED vars
  BY <1>3, <1>19 DEF Signal, Save, vars, link, Done
<1>20. ASSUME NEW s \in Sockets, Unlink(s) PROVE Counted'
  BY <1>11, <1>20 DEF Unlink, Done
<1>21. QED
  BY <1>4, <1>5, <1>6, <1>7, <1>8, <1>9, <1>10, <1>13, <1>14, <1>15, <1>16, <1>17, <1>18, <1>19,
     <1>20 DEF Next, Exit, Kill

\* Every step that shows a state leaves what is behind it.
LEMMA BehindInduction == ASSUME TypeOK, Behind, [Next]_vars PROVE Behind'
<1>1. timers \in Nat /\ connecting \in Nat
  BY DEF TypeOK
<1>2. CASE UNCHANGED link
  BY <1>2 DEF link, Behind, Open, Alive
<1>3. CASE Load
  BY <1>1, <1>3 DEF Load, Behind, Open, Alive
<1>4. CASE Die
  BY <1>4 DEF Die, Behind
<1>5. CASE Connect
  <2>1. PICK s \in Free : socket' = [socket EXCEPT ![s] = [phase |-> "live", identity |-> session.identity]]
    BY <1>5, ConnectSocket
  <2>2. Alive' # {} /\ state' = "connecting"
    BY <1>5, <2>1, AliveAfter DEF Free, Connect
  <2>3. QED
    BY <2>2 DEF Behind
<1>6. CASE TimerFires
  BY <1>1, <1>6 DEF TimerFires, Retry, Behind, Open, Alive
<1>7. ASSUME NEW s \in Sockets, ShowCode(s) PROVE Behind'
  <2>1. s \in Alive /\ UNCHANGED socket /\ state' = "pairing"
    BY <1>7 DEF ShowCode, Alive
  <2>2. QED
    BY <2>1 DEF Behind, Alive
<1>8. ASSUME NEW s \in Sockets, OpenSocket(s) PROVE Behind'
  BY <1>8, AliveAfter DEF OpenSocket, Behind
<1>9. ASSUME NEW s \in Sockets, CloseSocket(s) PROVE Behind'
  BY <1>1, <1>9 DEF CloseSocket, Reconnect, Behind
<1>10. ASSUME NEW s, LoggedOut(s) PROVE Behind'
  BY <1>10 DEF LoggedOut, Behind
<1>11. ASSUME NEW r \in Resets, WipeStore(r) \/ ConnectAgain(r) PROVE Behind'
  BY <1>11 DEF WipeStore, ConnectAgain, Behind, Open, Alive
<1>12. QED
  BY <1>2, <1>3, <1>4, <1>5, <1>6, <1>7, <1>8, <1>9, <1>10, <1>11, SocketSteps

-----------------------------------------------------------------------------
(* The theorems.                                                           *)

\* The invariant holds at first.
LEMMA InitIInv == ASSUME Init PROVE IInv
<1>1. TypeOK
  <2>1. /\ identities = 1 /\ version = 0 /\ 1 \in 1 .. identities /\ 0 \in 0 .. version
        /\ 0 \in 0 .. identities /\ sequence = 0 /\ 0 \in 0 .. sequence
    BY DEF Init
  <2>2. session \in Session /\ Closed \in Socket
    BY <2>1 DEF Init, Session, Socket, Closed
  <2>3. /\ socket \in [Sockets -> Socket] /\ current \in Sockets \cup {0}
        /\ reset \in [Resets -> {"none", "logout", "wipe", "saving", "done", "gone"}]
    BY <2>2 DEF Init
  <2>4. uploads \subseteq Upload /\ stored \in Row \cup {NoRow}
    BY DEF Init
  <2>5. /\ stopping \in BOOLEAN /\ save_timer \in BOOLEAN /\ wiped \in BOOLEAN
        /\ process \in {"down", "loading", "up"}
        /\ state \in {"disconnected", "pairing", "connecting", "connected"}
    BY DEF Init
  <2>6. /\ starts \in Nat /\ identities \in Nat /\ version \in Nat /\ sequence \in Nat
        /\ uploaded \in 0 .. sequence /\ timers \in Nat /\ connecting \in Nat
    BY <2>1 DEF Init
  <2>7. QED
    BY <2>2, <2>3, <2>4, <2>5, <2>6 DEF TypeOK
<1>2. Alive = {} /\ Done = {}
  BY DEF Init, Alive, Done, Closed
<1>3. Counted
  BY <1>2, FS_EmptySet DEF Init, Counted
<1>4. Identities = {}
  BY <1>2 DEF Init, Identities
<1>5. QED
  BY <1>1, <1>2, <1>3, <1>4 DEF Init, IInv, Signed, Numbered, Latest, Resting, Kept, Behind

\* And every step keeps it.
LEMMA NextKeepsIInv == ASSUME IInv, [Next]_vars PROVE IInv'
<1>1. TypeOK' /\ Signed' /\ Numbered' /\ Latest' /\ Resting' /\ Counted' /\ Behind'
  BY TypeInduction, SignedInduction, NumberedInduction, LatestInduction, RestingInduction,
     CountedInduction, BehindInduction DEF IInv
<1>2. Kept'
  <2>1. CASE wiped'
    BY <2>1 DEF Kept
  <2>2. CASE ~ wiped'
    BY <1>1, <2>2, KeptInduction DEF IInv
  <2>3. QED
    BY <2>1, <2>2
<1>3. QED
  BY <1>1, <1>2 DEF IInv

\* The variables of the daemon have the values they are meant to have.
THEOREM DaemonTypeCorrect == Spec => []TypeOK
<1>1. IInv => TypeOK
  BY DEF IInv
<1>2. QED
  BY <1>1, InitIInv, NextKeepsIInv, PTL DEF Spec

\* models.py:298: however often the process is killed, and whatever uploads are
\* lost or reordered, there is one identity in the row, in every upload under
\* way and in every process, until somebody gives it up.
THEOREM IdentitySurvives == Spec => []OneIdentity
<1>1. ASSUME IInv PROVE OneIdentity
  <2>1. SUFFICES ASSUME ~ wiped PROVE Cardinality(Identities) <= 1
    BY DEF OneIdentity
  <2>2. \A i, j \in Identities : i = j
    BY <1>1, <2>1 DEF IInv, Kept
  <2>3. CASE Identities = {}
    BY <2>3, FS_EmptySet
  <2>4. CASE Identities # {}
    <3>1. PICK i : Identities = {i}
      BY <2>2, <2>4
    <3>2. QED
      BY <3>1, FS_Singleton
  <2>5. QED
    BY <2>3, <2>4
<1>2. IInv => OneIdentity
  BY <1>1
<1>3. QED
  BY <1>2, InitIInv, NextKeepsIInv, PTL DEF Spec

\* However sockets, reconnections and resets overlap, the state shown has a
\* socket behind it, and there is one socket, or one to come, for the start and
\* for every reset that has ended, at most.
THEOREM StateIsOfSomeSocket == Spec => []SocketsMatchState
<1>1. ASSUME IInv PROVE SocketsMatchState
  <2>1. Cardinality(Alive) + timers + connecting <= 1 + Cardinality(Done)
    <3>1. /\ Cardinality(Alive) \in Nat /\ timers \in Nat /\ connecting \in Nat
          /\ Cardinality(Done) \in Nat
      BY <1>1, AliveCount, FS_CardinalityType DEF IInv, TypeOK, Counted
    <3>2. QED
      BY <1>1, <3>1 DEF IInv, Counted
  <2>2. QED
    BY <1>1, <2>1 DEF IInv, Behind, SocketsMatchState, Done
<1>2. IInv => SocketsMatchState
  BY <1>1
<1>3. QED
  BY <1>2, InitIInv, NextKeepsIInv, PTL DEF Spec

\* authStore.ts:26: once no save is scheduled or under way, and the row is the
\* last one uploaded or loaded, it is what the process has in memory.
THEOREM QuietRowIsCurrent == Spec => []QuietMeansStored
<1>1. IInv => QuietMeansStored
  BY DEF IInv, Latest, QuietMeansStored
<1>2. QED
  BY <1>1, InitIInv, NextKeepsIInv, PTL DEF Spec
=============================================================================
