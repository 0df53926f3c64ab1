----------------------------- MODULE Newsletter -----------------------------
(***************************************************************************)
(* The newsletter of newsletter.py: subscribing, the links of the mails,   *)
(* and the digests that create_property of properties.py sends once enough *)
(* properties are new to a subscriber.                                     *)
(*                                                                         *)
(* The creation of a property is one request, which commits the property   *)
(* and then goes through the subscribers as it has loaded them; it is named*)
(* by its property.  Other requests run at every await, a mail may be lost,*)
(* and a request may end anywhere.  The two tokens of a subscriber, renewed*)
(* together, are one number.                                               *)
(***************************************************************************)
EXTENDS Integers, FiniteSets

CONSTANTS
  Properties,  \* properties, which are also the requests that create them
  Addresses,   \* email addresses
  RentedOut,   \* the properties for rent, the others being for sale
  Filters,     \* type filters subscribers choose
  threshold,   \* newsletter_digest_threshold
  MaxTime,     \* bound: the clock
  MaxTokens    \* bound: tokens made

ASSUME NewsletterAssumption ==
  /\ IsFiniteSet(Properties) /\ RentedOut \subseteq Properties
  /\ Filters \subseteq {"rent", "sale", "both"}
  /\ threshold \in Nat \ {0} /\ MaxTime \in Nat /\ MaxTokens \in Nat \ {0}

VARIABLES
  now,        \* the clock
  listing,    \* the row of every property
  subscriber, \* the row of every address, id 0 for none
  dispatch,   \* the request that creates each property
  tokens,     \* tokens made so far
  link,       \* what has become of the mails with the token of each row
  mailed,     \* history: <<token, property, dispatch>> of every digest
  accounted,  \* history: what the watermark of each row had reason to pass
  overlapped  \* history: dispatches of which one moved a watermark the other
              \* had loaded

vars == <<now, listing, subscriber, dispatch, tokens, link, mailed, accounted, overlapped>>

-----------------------------------------------------------------------------
Time == 0 .. MaxTime
Never == -1
Listing == [status : {"none", "creating", "available", "off"}, created : Time]
Subscriber == [ id : 0 .. MaxTokens, token : 0 .. MaxTokens, filter : {"rent", "sale", "both"},
                confirmed : BOOLEAN, unsubscribed : BOOLEAN, last_digest : Time \cup {Never} ]
NoSubscriber == [ id |-> 0, token |-> 0, filter |-> "both", confirmed |-> FALSE,
                  unsubscribed |-> FALSE, last_digest |-> Never ]
Dispatch == [ at : {"none", "create", "load", "next", "mark", "send", "over"},
              loaded : [Addresses -> Subscriber], todo : SUBSET Addresses,
              who : SUBSET Addresses,
              rows : SUBSET Properties, hidden : SUBSET Properties ]
Still == [ at |-> "none", loaded |-> [a \in Addresses |-> NoSubscriber], todo |-> {},
           who |-> {}, rows |-> {}, hidden |-> {} ]
Over == [Still EXCEPT !.at = "over"]

Active(row) == row.id # 0 /\ row.confirmed /\ ~ row.unsubscribed
At(d, where) == dispatch[d].at = where
Go(d, r) == dispatch' = [dispatch EXCEPT ![d] = r]

\* _matching_property_filter
Wants(row, p) == row.filter = "both" \/ (row.filter = "rent") = (p \in RentedOut)
Visible(p) == listing[p].status = "available"

-----------------------------------------------------------------------------
\* subscribe: a new row, one that is refreshed, or one that is armed again, with
\* new tokens and no watermark.  The welcome follows, except for a refresh.
Bug_Returning(row, written) == row.id = 0 \/ written.unsubscribed \/ ~ written.confirmed
Returning(row, written) == row.id = 0 \/ row.unsubscribed \/ ~ row.confirmed

Rearmed(row) ==
  IF row.unsubscribed
  THEN [row EXCEPT !.unsubscribed = FALSE, !.token = tokens + 1, !.last_digest = Never]
  ELSE row

\* subscribe, its SELECT and commit in one step.  What an overlap of two for one
\* address would add: the second to insert it is refused by the unique key, and the
\* second to renew it replaces the token once more and mails a welcome with its own.
Subscribe(a, filter) ==
  LET row == subscriber[a]
      written == IF row.id = 0
                 THEN [NoSubscriber EXCEPT !.id = tokens + 1, !.token = tokens + 1,
                                           !.filter = filter, !.confirmed = TRUE]
                 ELSE [Rearmed(row) EXCEPT !.filter = filter, !.confirmed = TRUE]
  IN /\ written.token <= MaxTokens
     /\ tokens' = IF written.token > tokens THEN written.token ELSE tokens
     /\ subscriber' = [subscriber EXCEPT ![a] = written]
     /\ link' = [link EXCEPT ![a] = (IF written.token = row.token THEN @ ELSE {})
                       \cup (IF Returning(row, written) THEN {"welcome"} ELSE {})]
     /\ accounted' = [accounted EXCEPT ![a] = IF written.token = row.token THEN @ ELSE {}]
     /\ UNCHANGED <<now, listing, dispatch, mailed, overlapped>>

\* send_email tries once: the welcome arrives, or it is lost, with its process too.
\* One with a token that is no longer the row's is no link to anything.
SendWelcome(a) ==
  /\ "welcome" \in link[a]
  /\ \E fate \in {"arrived", "lost"} :
       link' = [link EXCEPT ![a] = (@ \ {"welcome"}) \cup {fate}]
  /\ UNCHANGED <<now, listing, subscriber, dispatch, tokens, mailed, accounted, overlapped>>

\* confirm, the link of the mails of the old double opt-in.
Confirm(a) ==
  /\ "arrived" \in link[a]
  /\ subscriber[a].id # 0 /\ ~ subscriber[a].unsubscribed /\ ~ subscriber[a].confirmed
  /\ subscriber' = [subscriber EXCEPT ![a].confirmed = TRUE]
  /\ UNCHANGED <<now, listing, dispatch, tokens, link, mailed, accounted, overlapped>>

\* unsubscribe: a link with another token than the row's is no longer valid.
Unsubscribe(a) ==
  /\ "arrived" \in link[a]
  /\ subscriber[a].id # 0 /\ ~ subscriber[a].unsubscribed
  /\ subscriber' = [subscriber EXCEPT ![a].unsubscribed = TRUE]
  /\ UNCHANGED <<now, listing, dispatch, tokens, link, mailed, accounted, overlapped>>

delete_subscriber(a) ==
  /\ subscriber[a].id # 0
  /\ subscriber' = [subscriber EXCEPT ![a] = NoSubscriber]
  /\ link' = [link EXCEPT ![a] = {}]
  /\ accounted' = [accounted EXCEPT ![a] = {}]
  /\ UNCHANGED <<now, listing, dispatch, tokens, mailed, overlapped>>

-----------------------------------------------------------------------------
\* create_property: created_at is the start of the transaction, and nobody sees
\* the row before its commit.
Create(p) ==
  /\ listing[p].status = "none"
  /\ listing' = [listing EXCEPT ![p] = [status |-> "creating", created |-> now]]
  /\ Go(p, [Still EXCEPT !.at = "create"])
  /\ UNCHANGED <<now, subscriber, tokens, link, mailed, accounted, overlapped>>

\* Its commit; a property that is off the market starts no digests.
CommitCreate(p) ==
  /\ At(p, "create")
  /\ \E status \in {"available", "off"} :
       /\ listing' = [listing EXCEPT ![p].status = status]
       /\ Go(p, IF status = "available" THEN [Still EXCEPT !.at = "load"] ELSE Over)
  /\ UNCHANGED <<now, subscriber, tokens, link, mailed, accounted, overlapped>>

\* update_property takes it off the market, or puts it back; no digest follows.
ChangeStatus(p) ==
  /\ listing[p].status \in {"available", "off"}
  /\ listing' = [listing EXCEPT ![p].status = IF @ = "off" THEN "available" ELSE "off"]
  /\ UNCHANGED <<now, subscriber, dispatch, tokens, link, mailed, accounted, overlapped>>

\* dispatch_digests_after_property loads the subscribers, as they are then.
LoadSubscribers(d) ==
  /\ At(d, "load")
  /\ LET todo == { a \in Addresses : Active(subscriber[a]) }
     IN Go(d, IF todo = {} THEN Over
              ELSE [Still EXCEPT !.at = "next", !.loaded = subscriber, !.todo = todo])
  /\ UNCHANGED <<now, listing, subscriber, tokens, link, mailed, accounted, overlapped>>

\* The properties that are new to a subscriber, as it was loaded.
Matching(row) == { p \in Properties : Visible(p) /\ Wants(row, p) }
Bug_New(row) == { p \in Matching(row) : listing[p].created >= row.last_digest }
Bug_NewLimited(row) ==
  LET first == { p \in Matching(row) : listing[p].created > row.last_digest }
  IN { p \in first : p = CHOOSE q \in first : TRUE }
New(row) == { p \in Matching(row) : listing[p].created > row.last_digest }

\* What is left once a subscriber is done with; without any, the request is answered.
Done(d, a) ==
  LET todo == dispatch[d].todo \ {a}
  IN IF todo = {} THEN Over
     ELSE [Still EXCEPT !.at = "next", !.todo = todo,
                        !.loaded = [dispatch[d].loaded EXCEPT ![a] = NoSubscriber]]

\* _maybe_send_digest up to the rendering, for a subscriber whose turn it is: too
\* few new properties, or a digest of them.
Select(d) ==
  /\ At(d, "next")
  /\ \E a \in dispatch[d].todo :
       LET row == dispatch[d].loaded[a]
       IN Go(d, IF Cardinality(New(row)) < threshold THEN Done(d, a)
                ELSE [dispatch[d] EXCEPT !.at = "mark", !.who = {a}, !.rows = New(row),
                                         !.hidden = Properties \ Matching(row)])
  /\ UNCHANGED <<now, listing, subscriber, tokens, link, mailed, accounted, overlapped>>

\* The watermark is moved, in the row of that id.  When the row is gone the flush
\* fails, and with it every later statement of the session.  In a row that was
\* armed again since it was loaded the watermark passes every property, although
\* the new subscription was told of none: NothingSkipped excuses all of them.
Mark(d) ==
  /\ At(d, "mark")
  /\ \E a \in dispatch[d].who :
       LET loaded == dispatch[d].loaded[a]
           passed == IF subscriber[a].token = loaded.token THEN dispatch[d].rows \cup dispatch[d].hidden
                     ELSE Properties
           others == { e \in Properties \ {d} : a \in dispatch[e].todo }
       IN IF subscriber[a].id # loaded.id
          THEN Go(d, Over) /\ UNCHANGED <<subscriber, accounted, overlapped>>
          ELSE /\ subscriber' = [subscriber EXCEPT ![a].last_digest = now]
               /\ accounted' = [accounted EXCEPT ![a] = @ \cup passed]
               /\ overlapped' = overlapped \cup ({d} \X others) \cup (others \X {d})
               /\ Go(d, [dispatch[d] EXCEPT !.at = "send", !.todo = @ \ {a}, !.hidden = {}])
  /\ UNCHANGED <<now, listing, tokens, link, mailed>>

\* The digest goes out, with the link of the subscriber as it was loaded, or it
\* is lost.
Send(d) ==
  /\ At(d, "send")
  /\ \E a \in dispatch[d].who :
       LET token == dispatch[d].loaded[a].token
       IN /\ Go(d, Done(d, a))
          /\ \/ /\ mailed' = mailed \cup { <<token, p, d>> : p \in dispatch[d].rows }
                /\ link' = IF token = subscriber[a].token
                           THEN [link EXCEPT ![a] = @ \cup {"arrived"}] ELSE link
             \/ UNCHANGED <<mailed, link>>
  /\ UNCHANGED <<now, listing, subscriber, tokens, accounted, overlapped>>

-----------------------------------------------------------------------------
Tick ==
  /\ now < MaxTime
  /\ now' = now + 1
  /\ UNCHANGED <<listing, subscriber, dispatch, tokens, link, mailed, accounted, overlapped>>

\* The request ends where it is; what it has not committed is rolled back.
Crash(d) ==
  /\ dispatch[d].at \notin {"none", "over"}
  /\ Go(d, Over)
  /\ listing' = IF At(d, "create") THEN [listing EXCEPT ![d] = [status |-> "none", created |-> 0]] ELSE listing
  /\ UNCHANGED <<now, subscriber, tokens, link, mailed, accounted, overlapped>>

\* Nobody has subscribed, or somebody did before sign-ups were confirmed at once.
Init ==
  /\ now = 0
  /\ listing = [p \in Properties |-> [status |-> "none", created |-> 0]]
  /\ dispatch = [p \in Properties |-> Still]
  /\ tokens = 1
  /\ \E old \in {{}} \cup { {a} : a \in Addresses } :
       /\ subscriber = [a \in Addresses |-> IF a \in old THEN [NoSubscriber EXCEPT !.id = 1, !.token = 1]
                                            ELSE NoSubscriber]
       /\ link = [a \in Addresses |-> IF a \in old THEN {"arrived"} ELSE {}]
  /\ accounted = [a \in Addresses |-> {}]
  /\ mailed = {} /\ overlapped = {}

Next ==
  \/ \E a \in Addresses :
       \/ \E filter \in Filters : Subscribe(a, filter)
       \/ SendWelcome(a) \/ Confirm(a) \/ Unsubscribe(a) \/ delete_subscriber(a)
  \/ \E p \in Properties :
       \/ Create(p) \/ CommitCreate(p) \/ ChangeStatus(p)
       \/ LoadSubscribers(p) \/ Select(p) \/ Mark(p) \/ Send(p) \/ Crash(p)
  \/ Tick

Spec == Init /\ [][Next]_vars

-----------------------------------------------------------------------------
\* The types of the rows and of the requests, and tokens as they are made.
TypeOK ==
  /\ now \in Time /\ tokens \in 0 .. MaxTokens
  /\ listing \in [Properties -> Listing]
  /\ subscriber \in [Addresses -> Subscriber]
  /\ dispatch \in [Properties -> Dispatch]
  /\ \A a \in Addresses : subscriber[a].id <= tokens /\ subscriber[a].token <= tokens
  /\ link \in [Addresses -> SUBSET {"welcome", "arrived", "lost"}]
  /\ mailed \subseteq (1 .. tokens) \X Properties \X Properties
  /\ accounted \in [Addresses -> SUBSET Properties]
  /\ overlapped \subseteq Properties \X Properties

\* models.py:256, last_digest_at is "the watermark for what have we already sent
\* this person": two digests of one subscription tell of the same property only
\* when one of them had loaded the subscriber before the other moved the
\* watermark, whatever mails are lost and requests end in between.
RepeatsOnlyByOverlap ==
  \A m, n \in mailed :
    m[1] = n[1] /\ m[2] = n[2] /\ m[3] # n[3] => <<m[3], n[3]>> \in overlapped

\* models.py:257, "properties created after that timestamp count toward the next
\* digest": a property for sale or rent that a subscriber wants still counts, or
\* a digest had it, or the last ones were selected when it was hidden: not
\* committed yet, off the market, or not among what the subscriber then wanted.
NothingSkipped ==
  \A a \in Addresses, p \in Properties :
    Active(subscriber[a]) /\ Visible(p) /\ Wants(subscriber[a], p) =>
      \/ listing[p].created > subscriber[a].last_digest
      \/ p \in accounted[a]

\* newsletter.py:7: whoever is subscribed has got a mail whose link unsubscribes,
\* or the welcome that brings one is on the way, however often the tokens are
\* renewed and old mails pile up.  The one way to be without: the welcome was
\* lost, and no digest with the token of the row has gone out since.
CanUnsubscribe ==
  \A a \in Addresses : Active(subscriber[a]) =>
    \/ "arrived" \in link[a] \/ "welcome" \in link[a]
    \/ "lost" \in link[a] /\ \A digest \in mailed : digest[1] # subscriber[a].token
=============================================================================
