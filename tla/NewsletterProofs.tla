-------------------------- MODULE NewsletterProofs --------------------------
(***************************************************************************)
(* The newsletter, for any number of properties and addresses, any         *)
(* threshold, and any interleaving of dispatches, lost mails, crashes, and *)
(* subscribers that come, change their filter, leave and come back.        *)
(***************************************************************************)
EXTENDS Newsletter, TLAPS

\* The addresses a dispatch has yet to come to, and the one it is at.
Aims(d) == dispatch[d].todo \cup dispatch[d].who

\* An address has a token: it is in its row, or a dispatch has loaded it.
Has(a, t) ==
  \/ subscriber[a].token = t
  \/ \E d \in Properties : a \in Aims(d) /\ dispatch[d].loaded[a].token = t

\* A row that is there has a token.
Tokens ==
  \A a \in Addresses : IF subscriber[a].id = 0 THEN subscriber[a] = NoSubscriber
                       ELSE subscriber[a].token # 0

\* A dispatch is at one address at most, and that one is still to do until its
\* watermark is moved; what is being created is not on the market yet; a row that
\* was loaded exists.
Shape ==
  /\ \A d \in Properties :
       /\ dispatch[d].at \notin {"next", "mark", "send"} => Aims(d) = {}
       /\ At(d, "next") => dispatch[d].who = {}
       /\ At(d, "mark") => \E a \in dispatch[d].todo : dispatch[d].who = {a}
       /\ At(d, "send") => \E a \in Addresses \ dispatch[d].todo : dispatch[d].who = {a}
       /\ At(d, "create") => listing[d].status = "creating"
       /\ \A a \in Aims(d) : dispatch[d].loaded[a].id # 0
  /\ Tokens

\* A token is made for one address.
Fresh ==
  /\ \A d \in Properties : \A a \in Aims(d) : dispatch[d].loaded[a].token \in 1 .. tokens
  /\ \A t \in 1 .. tokens, a, b \in Addresses : Has(a, t) /\ Has(b, t) => a = b

\* Nothing is of the future.
Past ==
  /\ \A p \in Properties : listing[p].created <= now
  /\ \A a \in Addresses : subscriber[a].last_digest <= now

\* It is, or was, on the market, and its created_at stands.
Public(p) == listing[p].status \in {"available", "off"}

\* What a watermark has passed is accounted for, and so is what was not public
\* when it was moved.
Accounted ==
  \A a \in Addresses, p \in Properties :
    /\ subscriber[a].last_digest # Never
    /\ ~ Public(p) \/ listing[p].created <= subscriber[a].last_digest
    => p \in accounted[a]

\* A watermark only grows as long as the token is the same.
Grows ==
  \A d \in Properties : \A a \in Aims(d) :
    dispatch[d].loaded[a].token = subscriber[a].token =>
      dispatch[d].loaded[a].last_digest <= subscriber[a].last_digest

\* What a dispatch has selected for the address it is at, and why it left out the rest.
Selected ==
  \A d \in Properties : \A a \in dispatch[d].who, p \in Properties :
    /\ p \in dispatch[d].rows => Public(p)
    /\ At(d, "mark") /\ p \in dispatch[d].rows =>
         listing[p].created > dispatch[d].loaded[a].last_digest
    /\ At(d, "mark") /\ p \notin dispatch[d].rows \cup dispatch[d].hidden =>
         Public(p) /\ listing[p].created <= dispatch[d].loaded[a].last_digest

\* A digest for a token is mailed, or its watermark is moved and it is about to be.
Told(t, p, d) ==
  \/ <<t, p, d>> \in mailed
  \/ /\ At(d, "send") /\ p \in dispatch[d].rows
     /\ \E a \in dispatch[d].who : dispatch[d].loaded[a].token = t

\* What has been told is behind the watermark of the row, and behind the one that a
\* dispatch has loaded, unless it had loaded it before; so it is told again only then.
ToldOnce ==
  \A t \in 1 .. tokens, p, d \in Properties : Told(t, p, d) =>
    /\ Public(p)
    /\ \A a \in Addresses : subscriber[a].token = t => listing[p].created <= subscriber[a].last_digest
    /\ \A e \in Properties \ {d} : \A a \in dispatch[e].todo :
         dispatch[e].loaded[a].token = t =>
           \/ listing[p].created <= dispatch[e].loaded[a].last_digest
           \/ {<<d, e>>, <<e, d>>} \subseteq overlapped
    /\ \A e \in Properties \ {d} : Told(t, p, e) => <<d, e>> \in overlapped

Core == Fresh /\ Past /\ Accounted /\ Grows /\ Selected /\ ToldOnce

\* Whoever is subscribed was sent a link, or is about to be; it may be lost.
Linked == \A a \in Addresses : Active(subscriber[a]) => link[a] # {}

IInv == TypeOK /\ Shape /\ Core /\ Linked

-----------------------------------------------------------------------------
\* What the types say of a row, a listing and a dispatch.
LEMMA Typed ==
  ASSUME TypeOK
  PROVE  /\ now \in Nat /\ tokens \in Nat
         /\ \A p \in Properties : listing[p].created \in Nat
         /\ \A a \in Addresses : /\ subscriber[a].token \in 0 .. tokens
                                 /\ subscriber[a].last_digest \in Nat \cup {Never}
         /\ \A d \in Properties : /\ dispatch[d] \in Dispatch
                                  /\ dispatch[d].todo \subseteq Addresses
                                  /\ dispatch[d].who \subseteq Addresses
                                  /\ Aims(d) \subseteq Addresses
                                  /\ dispatch[d].rows \subseteq Properties
         /\ \A d \in Properties, a \in Addresses :
              /\ dispatch[d].loaded[a].token \in Nat
              /\ dispatch[d].loaded[a].last_digest \in Nat \cup {Never}
<1>0. MaxTime \in Nat /\ MaxTokens \in Nat
  BY NewsletterAssumption
<1>1. now \in Nat /\ tokens \in Nat
  BY <1>0 DEF TypeOK, Time
<1>2. \A p \in Properties : listing[p].created \in Nat
  BY <1>0 DEF TypeOK, Listing, Time
<1>3. \A s \in Subscriber : s.token \in Nat /\ s.last_digest \in Nat \cup {Never}
  BY <1>0 DEF Subscriber, Time
<1>4. \A a \in Addresses : subscriber[a] \in Subscriber /\ subscriber[a].token <= tokens
  BY DEF TypeOK
<1>5. \A d \in Properties : dispatch[d] \in Dispatch
  BY DEF TypeOK
<1>6. \A d \in Properties : /\ dispatch[d].todo \subseteq Addresses
                            /\ dispatch[d].who \subseteq Addresses
                            /\ dispatch[d].rows \subseteq Properties
                            /\ \A a \in Addresses : dispatch[d].loaded[a] \in Subscriber
  BY <1>5 DEF Dispatch
<1>7. QED
  BY <1>1, <1>2, <1>3, <1>4, <1>5, <1>6 DEF Aims

\* A dispatch does not go on, or is done with an address.
Retreats(e) ==
  /\ dispatch'[e].at \notin {"mark", "send"}
  /\ dispatch'[e].who = {} /\ dispatch'[e].todo \subseteq dispatch[e].todo
  /\ \A a \in dispatch'[e].todo : dispatch'[e].loaded[a] = dispatch[e].loaded[a]

\* A step that moves no watermark and selects nothing.
LEMMA QuietStep ==
  ASSUME IInv, TypeOK', UNCHANGED <<subscriber, tokens, accounted, overlapped>>,
         now' >= now,
         \A q \in Properties :
           /\ Public(q) => Public(q)' /\ listing'[q].created = listing[q].created
           /\ listing'[q].created <= now',
         \A e \in Properties : dispatch'[e] = dispatch[e] \/ Retreats(e),
         \A t \in 1 .. tokens, p, d \in Properties : Told(t, p, d)' => Told(t, p, d)
  PROVE  Core'
<1>0. TypeOK /\ Fresh /\ Past /\ Accounted /\ Grows /\ Selected /\ ToldOnce
  BY DEF IInv, Core
<1>1. \A e \in Properties :
        /\ dispatch'[e].todo \subseteq dispatch[e].todo
        /\ dispatch'[e].who \subseteq dispatch[e].who
        /\ Aims(e)' \subseteq Aims(e)
        /\ \A a \in Aims(e)' : dispatch'[e].loaded[a] = dispatch[e].loaded[a]
  BY DEF Retreats, Aims
<1>2. Fresh'
  <2>1. \A a \in Addresses, t \in 1 .. tokens : Has(a, t)' => Has(a, t)
    BY <1>1 DEF Has
  <2>2. \A d \in Properties : \A a \in Aims(d)' : dispatch'[d].loaded[a].token \in 1 .. tokens'
    BY <1>0, <1>1 DEF Fresh
  <2> QED BY <1>0, <2>1, <2>2 DEF Fresh
<1>3. Past'
  <2>1. now \in Nat /\ now' \in Nat
    BY <1>0, NewsletterAssumption DEF TypeOK, Time
  <2>2. \A a \in Addresses : subscriber[a].last_digest \in Nat \cup {Never}
                            /\ subscriber[a].last_digest <= now
    BY <1>0, Typed DEF Past
  <2>3. \A a \in Addresses : subscriber'[a].last_digest <= now'
    BY <2>1, <2>2 DEF Never
  <2> QED BY <2>3 DEF Past
<1>4. Accounted'
  BY <1>0 DEF Accounted
<1>5. Grows'
  BY <1>0, <1>1 DEF Grows
<1>6. Selected'
  <2> SUFFICES ASSUME NEW d \in Properties, NEW a \in dispatch'[d].who, NEW p \in Properties
               PROVE  /\ p \in dispatch'[d].rows => Public(p)'
                      /\ At(d, "mark")' /\ p \in dispatch'[d].rows =>
                           listing'[p].created > dispatch'[d].loaded[a].last_digest
                      /\ At(d, "mark")' /\ p \notin dispatch'[d].rows \cup dispatch'[d].hidden =>
                           Public(p)' /\ listing'[p].created <= dispatch'[d].loaded[a].last_digest
    BY DEF Selected
  <2>1. dispatch'[d] = dispatch[d]
    BY DEF Retreats
  <2> QED BY <1>0, <2>1 DEF Selected, At
<1>7. ToldOnce'
  <2> SUFFICES ASSUME NEW t \in 1 .. tokens, NEW p \in Properties, NEW d \in Properties, Told(t, p, d)'
               PROVE  /\ Public(p)'
                      /\ \A a \in Addresses : subscriber'[a].token = t =>
                           listing'[p].created <= subscriber'[a].last_digest
                      /\ \A e \in Properties \ {d} : \A a \in dispatch'[e].todo :
                           dispatch'[e].loaded[a].token = t =>
                             \/ listing'[p].created <= dispatch'[e].loaded[a].last_digest
                             \/ {<<d, e>>, <<e, d>>} \subseteq overlapped'
                      /\ \A e \in Properties \ {d} : Told(t, p, e)' => <<d, e>> \in overlapped'
    BY DEF ToldOnce
  <2>1. Told(t, p, d) /\ Public(p)
    BY <1>0 DEF ToldOnce
  <2>2. Public(p)' /\ listing'[p].created = listing[p].created
    BY <2>1
  <2>3. \A e \in Properties \ {d} : \A a \in dispatch'[e].todo :
          a \in dispatch[e].todo /\ dispatch'[e].loaded[a] = dispatch[e].loaded[a]
    BY <1>1 DEF Aims
  <2>4. \A e \in Properties \ {d} : Told(t, p, e)' => Told(t, p, e)
    OBVIOUS
  <2> QED BY <1>0, <2>1, <2>2, <2>3, <2>4 DEF ToldOnce
<1>8. QED
  BY <1>2, <1>3, <1>4, <1>5, <1>6, <1>7 DEF Core

\* A step of a subscriber: the row keeps its token and its watermark, or has a new
\* token and no watermark, or is gone.
LEMMA SubscriberStep ==
  ASSUME IInv, TypeOK', NEW a \in Addresses, UNCHANGED <<now, listing, dispatch, mailed, overlapped>>,
         \A b \in Addresses \ {a} : subscriber'[b] = subscriber[b] /\ accounted'[b] = accounted[b],
         \/ /\ tokens' = tokens /\ accounted'[a] = accounted[a]
            /\ subscriber'[a].token = subscriber[a].token
            /\ subscriber'[a].last_digest = subscriber[a].last_digest
         \/ /\ tokens' = tokens + 1 /\ subscriber'[a].token = tokens + 1
            /\ subscriber'[a].last_digest = Never
         \/ /\ tokens' = tokens /\ subscriber'[a].token = 0
            /\ subscriber'[a].last_digest = Never
  PROVE  Core'
<1>0. TypeOK /\ Fresh /\ Past /\ Accounted /\ Grows /\ Selected /\ ToldOnce
  BY DEF IInv, Core
<1>1. /\ tokens \in Nat /\ tokens' \in Nat /\ tokens <= tokens' /\ now \in Nat
      /\ \A b \in Addresses : subscriber[b].token \in 0 .. tokens
      /\ \A e \in Properties : Aims(e) \subseteq Addresses /\ Aims(e)' = Aims(e)
      /\ \A p \in Properties : listing[p].created \in Nat /\ Public(p)' = Public(p)
  BY <1>0, Typed DEF Aims, Public
<1>2. \A e \in Properties : \A b \in Aims(e) : dispatch[e].loaded[b].token \in 1 .. tokens
  BY <1>0 DEF Fresh
<1>3. Fresh'
  <2>1. \A b \in Addresses, t \in 1 .. tokens : Has(b, t)' => Has(b, t)
    BY <1>1 DEF Has
  <2>2. \A b \in Addresses, t \in {tokens + 1} : tokens' = tokens + 1 /\ Has(b, t)' => b = a
    BY <1>1, <1>2 DEF Has
  <2>3. \A t \in 1 .. tokens' : t \in 1 .. tokens \/ (tokens' = tokens + 1 /\ t = tokens + 1)
    BY <1>1
  <2>4. \A d \in Properties : \A b \in Aims(d)' : dispatch'[d].loaded[b].token \in 1 .. tokens'
    BY <1>1, <1>2
  <2> QED BY <1>0, <2>1, <2>2, <2>3, <2>4 DEF Fresh
<1>4. Past'
  BY <1>0, <1>1 DEF Past, Never
<1>5. Accounted'
  BY <1>0, <1>1 DEF Accounted
<1>6. Grows'
  <2> SUFFICES ASSUME NEW d \in Properties, NEW b \in Aims(d),
                      dispatch[d].loaded[b].token = subscriber'[b].token
               PROVE  dispatch[d].loaded[b].last_digest <= subscriber'[b].last_digest
    BY <1>1 DEF Grows
  <2>1. dispatch[d].loaded[b].token \in 1 .. tokens /\ b \in Addresses
    BY <1>1, <1>2
  <2>2. /\ subscriber'[b].token = subscriber[b].token
        /\ subscriber'[b].last_digest = subscriber[b].last_digest
    BY <1>1, <2>1
  <2> QED BY <1>0, <2>2 DEF Grows
<1>7. Selected'
  BY <1>0, <1>1 DEF Selected, At
<1>8. ToldOnce'
  <2> SUFFICES ASSUME NEW t \in 1 .. tokens', NEW p \in Properties, NEW d \in Properties, Told(t, p, d)'
               PROVE  /\ Public(p)'
                      /\ \A b \in Addresses : subscriber'[b].token = t =>
                           listing'[p].created <= subscriber'[b].last_digest
                      /\ \A e \in Properties \ {d} : \A b \in dispatch'[e].todo :
                           dispatch'[e].loaded[b].token = t =>
                             \/ listing'[p].created <= dispatch'[e].loaded[b].last_digest
                             \/ {<<d, e>>, <<e, d>>} \subseteq overlapped'
                      /\ \A e \in Properties \ {d} : Told(t, p, e)' => <<d, e>> \in overlapped'
    BY DEF ToldOnce
  <2>1. \A e \in Properties : Told(t, p, e)' <=> Told(t, p, e)
    BY DEF Told, At
  <2>2. t \in 1 .. tokens
    <3>1. CASE <<t, p, d>> \in mailed
      BY <1>0, <3>1 DEF TypeOK
    <3>2. CASE <<t, p, d>> \notin mailed
      BY <1>2, <2>1, <3>2 DEF Told, Aims
    <3> QED BY <3>1, <3>2
  <2>3. \A b \in Addresses : subscriber'[b].token = t =>
          /\ subscriber'[b].token = subscriber[b].token
          /\ subscriber'[b].last_digest = subscriber[b].last_digest
    BY <1>1, <2>2
  <2> QED BY <1>0, <1>1, <2>1, <2>2, <2>3 DEF ToldOnce
<1>9. QED
  BY <1>3, <1>4, <1>5, <1>6, <1>7, <1>8 DEF Core

\* A dispatch loads the subscribers.
LEMMA LoadStep ==
  ASSUME IInv, NEW d \in Properties, At(d, "load"), NEW todo \in SUBSET Addresses,
         \A a \in todo : subscriber[a].id # 0,
         Go(d, [Still EXCEPT !.at = "next", !.loaded = subscriber, !.todo = todo]),
         UNCHANGED <<now, listing, subscriber, tokens, mailed, accounted, overlapped>>
  PROVE  Core'
<1>0. TypeOK /\ Shape /\ Fresh /\ Past /\ Accounted /\ Grows /\ Selected /\ ToldOnce
  BY DEF IInv, Core
<1>1. /\ dispatch'[d].at = "next" /\ dispatch'[d].todo = todo /\ dispatch'[d].who = {}
      /\ \A a \in Addresses : dispatch'[d].loaded[a] = subscriber[a]
      /\ \A e \in Properties \ {d} : dispatch'[e] = dispatch[e]
  BY <1>0 DEF Go, Still, TypeOK
<1>2. /\ Aims(d)' = todo /\ \A e \in Properties \ {d} : Aims(e)' = Aims(e)
      /\ \A p \in Properties : Public(p)' = Public(p)
  BY <1>1 DEF Aims, Public
<1>3. /\ tokens \in Nat /\ \A b \in Addresses : subscriber[b].token \in 0 .. tokens
      /\ \A a \in todo : subscriber[a].token \in 1 .. tokens
      /\ \A a \in Addresses : subscriber[a].last_digest \in Nat \cup {Never}
  BY <1>0, Typed DEF Shape, Tokens
<1>4. Fresh'
  <2>1. \A b \in Addresses, t \in 1 .. tokens : Has(b, t)' => Has(b, t)
    BY <1>1, <1>2 DEF Has
  <2>2. \A e \in Properties : \A b \in Aims(e)' : dispatch'[e].loaded[b].token \in 1 .. tokens'
    BY <1>0, <1>1, <1>2, <1>3 DEF Fresh
  <2> QED BY <1>0, <2>1, <2>2 DEF Fresh
<1>5. Past' /\ Accounted'
  BY <1>0, <1>2 DEF Past, Accounted
<1>6. Grows'
  <2>1. \A a \in todo : subscriber[a].last_digest <= subscriber[a].last_digest
    BY <1>3 DEF Never
  <2> QED BY <1>0, <1>1, <1>2, <2>1 DEF Grows
<1>7. Selected'
  BY <1>0, <1>1, <1>2 DEF Selected, At
<1>8. ToldOnce'
  <2>1. \A t \in 1 .. tokens, p, e \in Properties : Told(t, p, e)' => Told(t, p, e)
    <3> SUFFICES ASSUME NEW t \in 1 .. tokens, NEW p \in Properties, NEW e \in Properties, Told(t, p, e)'
                 PROVE  Told(t, p, e)
      OBVIOUS
    <3>1. CASE e = d
      BY <1>1, <3>1 DEF Told, At
    <3>2. CASE e # d
      BY <1>1, <3>2 DEF Told, At
    <3> QED BY <3>1, <3>2
  <2>2. ASSUME NEW t \in 1 .. tokens, NEW p \in Properties, NEW f \in Properties, Told(t, p, f)
        PROVE  \A e \in Properties \ {f} : \A a \in dispatch'[e].todo :
                 dispatch'[e].loaded[a].token = t =>
                   \/ listing[p].created <= dispatch'[e].loaded[a].last_digest
                   \/ {<<f, e>>, <<e, f>>} \subseteq overlapped
    <3> TAKE e \in Properties \ {f}
    <3> TAKE a \in dispatch'[e].todo
    <3>1. CASE e = d
      BY <1>0, <1>1, <2>2, <3>1 DEF ToldOnce
    <3>2. CASE e # d
      BY <1>0, <1>1, <2>2, <3>2 DEF ToldOnce
    <3> QED BY <3>1, <3>2
  <2> QED BY <1>0, <1>2, <2>1, <2>2 DEF ToldOnce
<1>9. QED
  BY <1>4, <1>5, <1>6, <1>7, <1>8 DEF Core

\* A dispatch selects what is new to an address.
LEMMA SelectStep ==
  ASSUME IInv, NEW d \in Properties, At(d, "next"), NEW a \in dispatch[d].todo,
         Go(d, [dispatch[d] EXCEPT !.at = "mark", !.who = {a}, !.rows = New(dispatch[d].loaded[a]),
                                   !.hidden = Properties \ Matching(dispatch[d].loaded[a])]),
         UNCHANGED <<now, listing, subscriber, tokens, mailed, accounted, overlapped>>
  PROVE  Core'
<1> DEFINE row == dispatch[d].loaded[a]
<1>0. TypeOK /\ Shape /\ Fresh /\ Past /\ Accounted /\ Grows /\ Selected /\ ToldOnce
  BY DEF IInv, Core
<1>1. /\ dispatch'[d].at = "mark" /\ dispatch'[d].todo = dispatch[d].todo /\ dispatch'[d].who = {a}
      /\ dispatch'[d].loaded = dispatch[d].loaded
      /\ dispatch'[d].rows = New(row) /\ dispatch'[d].hidden = Properties \ Matching(row)
      /\ \A e \in Properties \ {d} : dispatch'[e] = dispatch[e]
  BY <1>0 DEF Go, Dispatch, TypeOK
<1>2. /\ \A e \in Properties : Aims(e)' = Aims(e) /\ dispatch'[e].todo = dispatch[e].todo
                               /\ dispatch'[e].loaded = dispatch[e].loaded
      /\ \A p \in Properties : Public(p)' = Public(p)
  BY <1>0, <1>1 DEF Aims, Public, Shape, Tokens
<1>3. Fresh' /\ Past' /\ Accounted' /\ Grows'
  <2>1. \A b, t : Has(b, t)' <=> Has(b, t)
    BY <1>2 DEF Has
  <2> QED BY <1>0, <1>2, <2>1 DEF Fresh, Past, Accounted, Grows
<1>4. Selected'
  <2>1. /\ \A p \in New(row) : Public(p) /\ listing[p].created > row.last_digest
        /\ \A p \in Properties : p \notin New(row) /\ p \in Matching(row) =>
             Public(p) /\ listing[p].created <= row.last_digest
    <3>1. a \in Addresses /\ row.last_digest \in Nat \cup {Never}
          /\ \A p \in Properties : listing[p].created \in Nat
      BY <1>0, Typed
    <3> HIDE DEF row
    <3> QED BY <3>1 DEF New, Matching, Visible, Public, Never
  <2> HIDE DEF row
  <2>2. ASSUME NEW e \in Properties, NEW b \in dispatch'[e].who, NEW p \in Properties
        PROVE  /\ p \in dispatch'[e].rows => Public(p)
               /\ At(e, "mark")' /\ p \in dispatch'[e].rows =>
                    listing[p].created > dispatch'[e].loaded[b].last_digest
               /\ At(e, "mark")' /\ p \notin dispatch'[e].rows \cup dispatch'[e].hidden =>
                    Public(p) /\ listing[p].created <= dispatch'[e].loaded[b].last_digest
    <3>1. CASE e = d
      <4>1. b = a /\ dispatch'[e].loaded[b] = row
        BY <1>1, <3>1 DEF row
      <4> QED BY <1>1, <2>1, <3>1, <4>1
    <3>2. CASE e # d
      BY <1>0, <1>1, <3>2 DEF Selected, At
    <3> QED BY <3>1, <3>2
  <2> QED BY <1>2, <2>2 DEF Selected
<1>5. ToldOnce'
  <2>1. \A t \in 1 .. tokens, p, e \in Properties : Told(t, p, e)' => Told(t, p, e)
    <3> SUFFICES ASSUME NEW t \in 1 .. tokens, NEW p \in Properties, NEW e \in Properties, Told(t, p, e)'
                 PROVE  Told(t, p, e)
      OBVIOUS
    <3>1. CASE e = d
      BY <1>1, <3>1 DEF Told, At
    <3>2. CASE e # d
      BY <1>1, <3>2 DEF Told, At
    <3> QED BY <3>1, <3>2
  <2> QED BY <1>0, <1>2, <2>1 DEF ToldOnce
<1>6. QED
  BY <1>3, <1>4, <1>5 DEF Core

\* A dispatch moves the watermark of an address.  What it is to tell is new to the
\* row as loaded, so whoever has told it was loaded, or has moved the watermark,
\* while the other was under way.
LEMMA MarkStep ==
  ASSUME IInv, TypeOK', NEW d \in Properties, At(d, "mark"), NEW a \in dispatch[d].who, Mark(d),
         subscriber[a].id = dispatch[d].loaded[a].id
  PROVE  Core'
<1> DEFINE row == dispatch[d].loaded[a]
           passed == IF subscriber[a].token = row.token THEN dispatch[d].rows \cup dispatch[d].hidden
                     ELSE Properties
           others == { e \in Properties \ {d} : a \in dispatch[e].todo }
<1>0. TypeOK /\ Shape /\ Fresh /\ Past /\ Accounted /\ Grows /\ Selected /\ ToldOnce
  BY DEF IInv, Core
<1>1. dispatch[d].who = {a} /\ a \in dispatch[d].todo /\ a \in Addresses
  BY <1>0, Typed DEF Shape, Tokens, At
<1>2. /\ subscriber' = [subscriber EXCEPT ![a].last_digest = now]
      /\ accounted' = [accounted EXCEPT ![a] = @ \cup passed]
      /\ overlapped' = overlapped \cup ({d} \X others) \cup (others \X {d})
      /\ Go(d, [dispatch[d] EXCEPT !.at = "send", !.todo = @ \ {a}, !.hidden = {}])
      /\ UNCHANGED <<now, listing, tokens, link, mailed>>
  BY <1>1 DEF Mark
<1>3. /\ dispatch'[d].at = "send" /\ dispatch'[d].todo = dispatch[d].todo \ {a}
      /\ dispatch'[d].who = {a} /\ dispatch'[d].loaded = dispatch[d].loaded
      /\ dispatch'[d].rows = dispatch[d].rows
      /\ \A e \in Properties \ {d} : dispatch'[e] = dispatch[e]
  BY <1>0, <1>1, <1>2 DEF Go, Dispatch, TypeOK
<1>4. /\ subscriber'[a].last_digest = now /\ subscriber'[a].token = subscriber[a].token
      /\ \A b \in Addresses \ {a} : subscriber'[b] = subscriber[b]
      /\ accounted'[a] = accounted[a] \cup passed
      /\ \A b \in Addresses \ {a} : accounted'[b] = accounted[b]
  BY <1>0, <1>1, <1>2 DEF TypeOK, Subscriber
<1> HIDE DEF others
<1>5. /\ \A e \in Properties : /\ Aims(e)' = Aims(e) /\ dispatch'[e].todo \subseteq dispatch[e].todo
                               /\ dispatch'[e].loaded = dispatch[e].loaded
      /\ \A p \in Properties : Public(p)' = Public(p)
  BY <1>1, <1>2, <1>3 DEF Aims, Public
<1>6. /\ now \in Nat /\ tokens \in Nat /\ now' = now /\ tokens' = tokens /\ listing' = listing
      /\ \A p \in Properties : listing[p].created \in Nat /\ listing[p].created <= now
      /\ \A b \in Addresses : subscriber[b].last_digest \in Nat \cup {Never}
                              /\ subscriber[b].last_digest <= now
      /\ row.last_digest \in Nat \cup {Never}
  BY <1>0, <1>1, <1>2, Typed DEF Past
<1>7. row.token \in 1 .. tokens /\ a \in Aims(d)
  BY <1>0, <1>1 DEF Fresh, Aims
<1>8. \A p \in Properties :
        /\ p \in dispatch[d].rows => Public(p) /\ listing[p].created > row.last_digest
        /\ p \notin dispatch[d].rows \cup dispatch[d].hidden =>
             Public(p) /\ listing[p].created <= row.last_digest
  BY <1>0 DEF Selected
<1>9. \A b \in Addresses, t \in 1 .. tokens : Has(b, t)' <=> Has(b, t)
  BY <1>4, <1>5 DEF Has
<1>10. Fresh'
  BY <1>0, <1>5, <1>6, <1>9 DEF Fresh
<1>11. Past'
  BY <1>4, <1>6 DEF Past
<1>12. Accounted'
  <2>1. ASSUME NEW p \in Properties PROVE p \in accounted'[a]
    <3>1. CASE p \in passed
      BY <1>4, <3>1
    <3>2. CASE p \notin passed
      <4>1. subscriber[a].token = row.token /\ p \notin dispatch[d].rows \cup dispatch[d].hidden
        BY <3>2
      <4>2. listing[p].created <= row.last_digest
        BY <1>8, <4>1
      <4>3. row.last_digest <= subscriber[a].last_digest
        BY <1>0, <1>7, <4>1 DEF Grows
      <4>4. /\ subscriber[a].last_digest # Never
            /\ listing[p].created <= subscriber[a].last_digest
        BY <1>1, <1>6, <4>2, <4>3 DEF Never
      <4>5. p \in accounted[a]
        BY <1>0, <1>1, <4>4 DEF Accounted
      <4> QED BY <1>4, <4>5
    <3> QED BY <3>1, <3>2
  <2> HIDE DEF passed
  <2> QED BY <1>0, <1>4, <1>5, <1>6, <2>1 DEF Accounted
<1> HIDE DEF passed
<1>13. Grows'
  <2> SUFFICES ASSUME NEW e \in Properties, NEW b \in Aims(e),
                      dispatch[e].loaded[b].token = subscriber'[b].token
               PROVE  dispatch[e].loaded[b].last_digest <= subscriber'[b].last_digest
    BY <1>5 DEF Grows
  <2>0. b \in Addresses
    BY <1>0, Typed
  <2>1. dispatch[e].loaded[b].last_digest <= subscriber[b].last_digest
    BY <1>0, <1>4, <2>0 DEF Grows
  <2>2. dispatch[e].loaded[b].last_digest \in Nat \cup {Never}
    BY <1>0, <2>0, Typed
  <2>3. CASE b = a
    BY <1>4, <1>6, <2>0, <2>1, <2>2, <2>3 DEF Never
  <2>4. CASE b # a
    BY <1>4, <2>0, <2>1, <2>4
  <2> QED BY <2>3, <2>4
<1>14. Selected'
  <2> SUFFICES ASSUME NEW e \in Properties, NEW b \in dispatch'[e].who, NEW p \in Properties
               PROVE  /\ p \in dispatch'[e].rows => Public(p)
                      /\ At(e, "mark")' /\ p \in dispatch'[e].rows =>
                           listing[p].created > dispatch'[e].loaded[b].last_digest
                      /\ At(e, "mark")' /\ p \notin dispatch'[e].rows \cup dispatch'[e].hidden =>
                           Public(p) /\ listing[p].created <= dispatch'[e].loaded[b].last_digest
    BY <1>5, <1>6 DEF Selected
  <2>1. CASE e = d
    BY <1>3, <1>8, <2>1 DEF At
  <2>2. CASE e # d
    BY <1>0, <1>3, <2>2 DEF Selected, At
  <2> QED BY <2>1, <2>2
<1> DEFINE Now(t, p, e) == e = d /\ t = row.token /\ p \in dispatch[d].rows
<1>15. \A t \in 1 .. tokens, p, e \in Properties : Told(t, p, e)' => Told(t, p, e) \/ Now(t, p, e)
  <2> SUFFICES ASSUME NEW t \in 1 .. tokens, NEW p \in Properties, NEW e \in Properties, Told(t, p, e)'
               PROVE  Told(t, p, e) \/ Now(t, p, e)
    OBVIOUS
  <2>1. CASE e = d
    BY <1>2, <1>3, <2>1 DEF Told, At
  <2>2. CASE e # d
    BY <1>2, <1>3, <2>2 DEF Told, At
  <2> QED BY <2>1, <2>2
<1> HIDE DEF row
<1>16. overlapped \subseteq overlapped'
       /\ \A e \in others : {<<d, e>>, <<e, d>>} \subseteq overlapped'
  BY <1>2
<1>17. \A p \in dispatch[d].rows : \A e \in Properties \ {d} :
         Told(row.token, p, e) => {<<d, e>>, <<e, d>>} \subseteq overlapped
  <2> SUFFICES ASSUME NEW p \in dispatch[d].rows, NEW e \in Properties \ {d}, Told(row.token, p, e)
               PROVE  {<<d, e>>, <<e, d>>} \subseteq overlapped
    OBVIOUS
  <2>0. p \in Properties
    BY <1>0, Typed
  <2>1. ~ (listing[p].created <= row.last_digest)
    BY <1>6, <1>8, <2>0 DEF Never
  <2>2. \/ listing[p].created <= dispatch[d].loaded[a].last_digest
        \/ {<<e, d>>, <<d, e>>} \subseteq overlapped
    BY <1>0, <1>1, <1>7, <2>0 DEF ToldOnce, row
  <2> QED BY <2>1, <2>2 DEF row
<1>18. ToldOnce'
  <2> SUFFICES ASSUME NEW t \in 1 .. tokens, NEW p \in Properties, NEW f \in Properties, Told(t, p, f)'
               PROVE  /\ Public(p)
                      /\ \A b \in Addresses : subscriber'[b].token = t =>
                           listing[p].created <= subscriber'[b].last_digest
                      /\ \A e \in Properties \ {f} : \A b \in dispatch'[e].todo :
                           dispatch'[e].loaded[b].token = t =>
                             \/ listing[p].created <= dispatch'[e].loaded[b].last_digest
                             \/ {<<f, e>>, <<e, f>>} \subseteq overlapped'
                      /\ \A e \in Properties \ {f} : Told(t, p, e)' => <<f, e>> \in overlapped'
    BY <1>5, <1>6 DEF ToldOnce
  <2>1. CASE Told(t, p, f)
    <3>1. /\ Public(p)
          /\ \A b \in Addresses : subscriber[b].token = t => listing[p].created <= subscriber[b].last_digest
          /\ \A e \in Properties \ {f} : \A b \in dispatch[e].todo :
               dispatch[e].loaded[b].token = t =>
                 \/ listing[p].created <= dispatch[e].loaded[b].last_digest
                 \/ {<<f, e>>, <<e, f>>} \subseteq overlapped
          /\ \A e \in Properties \ {f} : Told(t, p, e) => <<f, e>> \in overlapped
      BY <1>0, <2>1 DEF ToldOnce
    <3>2. \A b \in Addresses : subscriber'[b].token = t => listing[p].created <= subscriber'[b].last_digest
      <4> SUFFICES ASSUME NEW b \in Addresses, subscriber'[b].token = t
                   PROVE  listing[p].created <= subscriber'[b].last_digest
        OBVIOUS
      <4>1. CASE b = a
        BY <1>4, <1>6, <4>1
      <4>2. CASE b # a
        BY <1>4, <3>1, <4>2
      <4> QED BY <4>1, <4>2
    <3>3. \A e \in Properties \ {f} : Told(t, p, e)' => <<f, e>> \in overlapped'
      BY <1>15, <1>16, <1>17, <2>1, <3>1
    <3> QED BY <1>5, <1>16, <3>1, <3>2, <3>3
  <2>2. CASE ~ Told(t, p, f)
    <3>1. f = d /\ t = row.token /\ p \in dispatch[d].rows
      BY <1>15, <2>2
    <3>2. \A b \in Addresses : subscriber'[b].token = t => listing[p].created <= subscriber'[b].last_digest
      <4> SUFFICES ASSUME NEW b \in Addresses, subscriber'[b].token = t
                   PROVE  listing[p].created <= subscriber'[b].last_digest
        OBVIOUS
      <4>1. Has(b, t) /\ Has(a, t)
        BY <1>1, <1>4, <1>7, <3>1 DEF Has, row
      <4>2. b = a
        BY <1>0, <1>1, <4>1 DEF Fresh
      <4> QED BY <1>4, <1>6, <4>2
    <3>3. \A e \in Properties \ {d} : \A b \in dispatch'[e].todo :
            dispatch'[e].loaded[b].token = t => {<<d, e>>, <<e, d>>} \subseteq overlapped'
      <4> SUFFICES ASSUME NEW e \in Properties \ {d}, NEW b \in dispatch[e].todo,
                          dispatch[e].loaded[b].token = t
                   PROVE  {<<d, e>>, <<e, d>>} \subseteq overlapped'
        BY <1>5
      <4>1. b \in Addresses /\ Has(b, t) /\ Has(a, t)
        BY <1>0, <1>7, <3>1, Typed DEF Has, Aims, row
      <4>2. b = a
        BY <1>0, <1>1, <4>1 DEF Fresh
      <4>3. e \in others
        BY <4>2 DEF others
      <4> QED BY <1>16, <4>3
    <3>4. \A e \in Properties \ {d} : Told(t, p, e)' => <<d, e>> \in overlapped'
      BY <1>15, <1>16, <1>17, <3>1
    <3> QED BY <1>8, <3>1, <3>2, <3>3, <3>4
  <2> QED BY <2>1, <2>2
<1>19. QED
  BY <1>10, <1>11, <1>12, <1>13, <1>14, <1>18 DEF Core

-----------------------------------------------------------------------------
\* A subscription: new, refreshed, or armed again.
LEMMA SubscribeKeepsIInv ==
  ASSUME IInv, NEW a \in Addresses, NEW filter \in Filters, Subscribe(a, filter) PROVE IInv'
<1> DEFINE row == subscriber[a]
           new == [NoSubscriber EXCEPT !.id = tokens + 1, !.token = tokens + 1,
                                       !.filter = filter, !.confirmed = TRUE]
           written == IF row.id = 0 THEN new
                      ELSE [Rearmed(row) EXCEPT !.filter = filter, !.confirmed = TRUE]
<1>0. TypeOK /\ Shape /\ Linked
  BY DEF IInv
<1>1. /\ written.token <= MaxTokens
      /\ tokens' = IF written.token > tokens THEN written.token ELSE tokens
      /\ subscriber' = [subscriber EXCEPT ![a] = written]
      /\ link' = [link EXCEPT ![a] = (IF written.token = row.token THEN @ ELSE {})
                        \cup (IF Returning(row, written) THEN {"welcome"} ELSE {})]
      /\ accounted' = [accounted EXCEPT ![a] = IF written.token = row.token THEN @ ELSE {}]
      /\ UNCHANGED <<now, listing, dispatch, mailed, overlapped>>
  BY DEF Subscribe
<1>2. /\ tokens \in Nat /\ MaxTokens \in Nat /\ tokens <= MaxTokens
      /\ row \in Subscriber /\ row.token \in 0 .. tokens /\ row.id \in 0 .. tokens
      /\ filter \in {"rent", "sale", "both"}
  BY <1>0, NewsletterAssumption DEF TypeOK, Subscriber
<1>3. \/ /\ row.id = 0 \/ row.unsubscribed
         /\ written.token = tokens + 1 /\ written.last_digest = Never
      \/ /\ row.id # 0 /\ ~ row.unsubscribed
         /\ written.token = row.token /\ written.last_digest = row.last_digest
  <2>1. CASE row.id = 0
    BY <2>1 DEF NoSubscriber
  <2>2. CASE row.id # 0
    BY <1>2, <2>2 DEF Rearmed, Subscriber
  <2> QED BY <2>1, <2>2
<1>4. /\ written \in [ id : Nat, token : Nat, filter : {"rent", "sale", "both"}, confirmed : BOOLEAN,
                       unsubscribed : BOOLEAN, last_digest : Time \cup {Never} ]
      /\ written.id \in 1 .. tokens + 1 /\ written.confirmed /\ ~ written.unsubscribed
      /\ row.id # 0 => written.id = row.id
  <2>1. CASE row.id = 0
    <3>1. written = [ id |-> tokens + 1, token |-> tokens + 1, filter |-> filter, confirmed |-> TRUE,
                      unsubscribed |-> FALSE, last_digest |-> Never ]
      BY <2>1 DEF NoSubscriber
    <3> HIDE DEF written
    <3> QED BY <1>2, <2>1, <3>1
  <2>2. CASE row.id # 0 /\ row.unsubscribed
    <3>1. written = [ id |-> row.id, token |-> tokens + 1, filter |-> filter, confirmed |-> TRUE,
                      unsubscribed |-> FALSE, last_digest |-> Never ]
      BY <1>2, <2>2 DEF Rearmed, Subscriber
    <3> HIDE DEF written, row
    <3> QED BY <1>2, <2>2, <3>1
  <2>3. CASE row.id # 0 /\ ~ row.unsubscribed
    <3>1. written = [ id |-> row.id, token |-> row.token, filter |-> filter, confirmed |-> TRUE,
                      unsubscribed |-> FALSE, last_digest |-> row.last_digest ]
      BY <1>2, <2>3 DEF Rearmed, Subscriber
    <3>2. row.last_digest \in Time \cup {Never}
      BY <1>2 DEF Subscriber
    <3> HIDE DEF written, row
    <3> QED BY <1>2, <2>3, <3>1, <3>2
  <2> QED BY <2>1, <2>2, <2>3
<1>5. /\ row.id = 0 => written.id = tokens + 1 /\ written.token = tokens + 1
      /\ written.token \in 1 .. tokens'
      /\ tokens' \in 0 .. MaxTokens /\ tokens' >= tokens
      /\ written.id \in 1 .. tokens'
  BY <1>0, <1>1, <1>2, <1>3, <1>4 DEF Shape, Tokens
<1>6. written \in Subscriber
  <2> HIDE DEF written
  <2>1. written.id \in 0 .. MaxTokens /\ written.token \in 0 .. MaxTokens
    BY <1>2, <1>5
  <2> QED BY <1>4, <2>1 DEF Subscriber
<1>7. TypeOK'
  <2> HIDE DEF written
  <2>1. subscriber' \in [Addresses -> Subscriber]
    BY <1>0, <1>1, <1>6 DEF TypeOK
  <2>2. \A b \in Addresses : subscriber'[b].id <= tokens' /\ subscriber'[b].token <= tokens'
    <3> SUFFICES ASSUME NEW b \in Addresses
                 PROVE  subscriber'[b].id <= tokens' /\ subscriber'[b].token <= tokens'
      OBVIOUS
    <3>1. CASE b = a
      BY <1>0, <1>1, <1>2, <1>5, <3>1 DEF TypeOK
    <3>2. CASE b # a
      <4>1. subscriber'[b] = subscriber[b] /\ subscriber[b] \in Subscriber
            /\ subscriber[b].id <= tokens /\ subscriber[b].token <= tokens
        BY <1>0, <1>1, <3>2 DEF TypeOK
      <4>2. subscriber[b].id \in Nat /\ subscriber[b].token \in Nat
        BY <4>1 DEF Subscriber
      <4> QED BY <1>2, <1>5, <4>1, <4>2
    <3> QED BY <3>1, <3>2
  <2>3. mailed' \subseteq (1 .. tokens') \X Properties \X Properties
    BY <1>0, <1>1, <1>2, <1>5 DEF TypeOK
  <2>4. link' \in [Addresses -> SUBSET {"welcome", "arrived", "lost"}]
        /\ accounted' \in [Addresses -> SUBSET Properties]
    BY <1>0, <1>1 DEF TypeOK
  <2> QED BY <1>0, <1>1, <1>5, <2>1, <2>2, <2>3, <2>4 DEF TypeOK
<1>8. /\ subscriber'[a] = written /\ \A b \in Addresses \ {a} : subscriber'[b] = subscriber[b]
      /\ \A b \in Addresses \ {a} : accounted'[b] = accounted[b] /\ link'[b] = link[b]
      /\ written.token = row.token => accounted'[a] = accounted[a] /\ link[a] \subseteq link'[a]
      /\ Returning(row, written) => link'[a] # {}
  BY <1>0, <1>1 DEF TypeOK
<1>9. Shape'
  <2> HIDE DEF written
  <2>1. UNCHANGED <<dispatch, listing>>
    BY <1>1
  <2> QED BY <1>0, <1>2, <1>5, <1>8, <2>1 DEF Shape, Tokens, At, Aims
<1>10. Linked'
  <2>1. link'[a] # {}
    <3>1. CASE Returning(row, written)
      BY <1>8, <3>1
    <3>2. CASE ~ Returning(row, written)
      <4>1. Active(row) /\ written.token = row.token
        BY <1>3, <3>2 DEF Returning, Active
      <4> QED BY <1>0, <1>8, <4>1 DEF Linked
    <3> QED BY <3>1, <3>2
  <2> HIDE DEF written
  <2> QED BY <1>0, <1>8, <2>1 DEF Linked
<1>11. Core'
  <2> HIDE DEF written
  <2>1. CASE written.token = row.token /\ written.last_digest = row.last_digest
    <3>1. tokens' = tokens
      BY <1>1, <1>2, <2>1
    <3> QED BY <1>1, <1>7, <1>8, <2>1, <3>1, SubscriberStep
  <2>2. CASE written.token = tokens + 1 /\ written.last_digest = Never
    <3>1. tokens' = tokens + 1
      BY <1>1, <1>2, <2>2
    <3> QED BY <1>1, <1>7, <1>8, <2>2, <3>1, SubscriberStep
  <2> QED BY <1>3, <2>1, <2>2
<1>12. QED
  BY <1>7, <1>9, <1>10, <1>11 DEF IInv

\* A welcome arrives or is lost.
LEMMA SendWelcomeKeepsIInv ==
  ASSUME IInv, NEW a \in Addresses, SendWelcome(a) PROVE IInv'
<1>0. TypeOK /\ Shape /\ Linked
  BY DEF IInv
<1>1. PICK fate \in {"arrived", "lost"} : link' = [link EXCEPT ![a] = (@ \ {"welcome"}) \cup {fate}]
  BY DEF SendWelcome
<1>2. UNCHANGED <<now, listing, subscriber, dispatch, tokens, mailed, accounted, overlapped>>
  BY DEF SendWelcome
<1>3. /\ link' \in [Addresses -> SUBSET {"welcome", "arrived", "lost"}]
      /\ \A b \in Addresses : link[b] # {} => link'[b] # {}
  BY <1>0, <1>1 DEF TypeOK
<1>4. TypeOK' /\ Shape' /\ Linked'
  BY <1>0, <1>2, <1>3 DEF TypeOK, Shape, Tokens, Linked, At, Aims
<1>5. QED
  BY <1>2, <1>4, SubscriberStep DEF IInv

\* A row that is confirmed or unsubscribed keeps its token and its watermark.
LEMMA LinkKeepsIInv ==
  ASSUME IInv, NEW a \in Addresses, Confirm(a) \/ Unsubscribe(a) PROVE IInv'
<1>0. TypeOK /\ Shape /\ Linked
  BY DEF IInv
<1>1. /\ UNCHANGED <<now, listing, dispatch, tokens, link, mailed, accounted, overlapped>>
      /\ subscriber[a].id # 0 /\ link[a] # {}
      /\ \/ subscriber' = [subscriber EXCEPT ![a].confirmed = TRUE]
         \/ subscriber' = [subscriber EXCEPT ![a].unsubscribed = TRUE]
  BY DEF Confirm, Unsubscribe
<1>2. PICK r \in Subscriber : /\ subscriber' = [subscriber EXCEPT ![a] = r]
                              /\ r.id = subscriber[a].id /\ r.token = subscriber[a].token
                              /\ r.last_digest = subscriber[a].last_digest
  <2>0. subscriber[a] \in Subscriber
    BY <1>0 DEF TypeOK
  <2> DEFINE confirmed == [subscriber[a] EXCEPT !.confirmed = TRUE]
             unsubscribed == [subscriber[a] EXCEPT !.unsubscribed = TRUE]
  <2>1. \A r \in {confirmed, unsubscribed} :
          /\ r \in Subscriber /\ r.id = subscriber[a].id /\ r.token = subscriber[a].token
          /\ r.last_digest = subscriber[a].last_digest
    BY <2>0 DEF Subscriber
  <2>2. subscriber' = [subscriber EXCEPT ![a] = confirmed]
        \/ subscriber' = [subscriber EXCEPT ![a] = unsubscribed]
    BY <1>1
  <2> HIDE DEF confirmed, unsubscribed
  <2> QED BY <2>1, <2>2
<1>3. /\ subscriber' \in [Addresses -> Subscriber]
      /\ subscriber'[a].id = subscriber[a].id /\ subscriber'[a].token = subscriber[a].token
      /\ subscriber'[a].last_digest = subscriber[a].last_digest
      /\ \A b \in Addresses \ {a} : subscriber'[b] = subscriber[b]
  BY <1>0, <1>2 DEF TypeOK
<1>4. TypeOK'
  BY <1>0, <1>1, <1>3 DEF TypeOK
<1>5. Shape' /\ Linked'
  BY <1>0, <1>1, <1>3 DEF Shape, Tokens, Linked, At, Aims
<1>6. Core'
  BY <1>1, <1>3, <1>4, SubscriberStep
<1>7. QED
  BY <1>4, <1>5, <1>6 DEF IInv

\* A row is deleted.
LEMMA DeleteKeepsIInv ==
  ASSUME IInv, NEW a \in Addresses, delete_subscriber(a) PROVE IInv'
<1>0. TypeOK /\ Shape /\ Linked /\ MaxTokens \in Nat /\ tokens \in Nat
  BY NewsletterAssumption DEF IInv, TypeOK
<1>1. /\ UNCHANGED <<now, listing, dispatch, tokens, mailed, overlapped>>
      /\ subscriber' = [subscriber EXCEPT ![a] = NoSubscriber]
      /\ link' = [link EXCEPT ![a] = {}] /\ accounted' = [accounted EXCEPT ![a] = {}]
  BY DEF delete_subscriber
<1>2. /\ NoSubscriber \in Subscriber /\ NoSubscriber.id = 0 /\ NoSubscriber.token = 0
      /\ NoSubscriber.last_digest = Never /\ ~ Active(NoSubscriber)
  BY <1>0 DEF NoSubscriber, Subscriber, Active
<1>3. /\ subscriber' \in [Addresses -> Subscriber] /\ subscriber'[a] = NoSubscriber
      /\ \A b \in Addresses \ {a} : /\ subscriber'[b] = subscriber[b]
                                    /\ accounted'[b] = accounted[b] /\ link'[b] = link[b]
      /\ link' \in [Addresses -> SUBSET {"welcome", "arrived", "lost"}]
      /\ accounted' \in [Addresses -> SUBSET Properties]
  BY <1>0, <1>1, <1>2 DEF TypeOK
<1>4. TypeOK'
  BY <1>0, <1>1, <1>2, <1>3 DEF TypeOK
<1>5. Shape' /\ Linked'
  BY <1>0, <1>1, <1>2, <1>3 DEF Shape, Tokens, Linked, At, Aims
<1>6. Core'
  BY <1>1, <1>2, <1>3, <1>4, SubscriberStep
<1>7. QED
  BY <1>4, <1>5, <1>6 DEF IInv

-----------------------------------------------------------------------------
\* What a dispatch may be when it is at nothing.
LEMMA StillTyped ==
  ASSUME NewsletterAssumption
  PROVE  /\ Still \in Dispatch /\ Over \in Dispatch
         /\ Over.at = "over" /\ Over.todo = {} /\ Over.who = {}
         /\ \A at \in {"create", "load"} :
              LET s == [Still EXCEPT !.at = at]
              IN s \in Dispatch /\ s.at = at /\ s.todo = {} /\ s.who = {}
<1>1. NoSubscriber \in Subscriber
  BY DEF NoSubscriber, Subscriber
<1>2. QED
  BY <1>1 DEF Still, Over, Dispatch

\* A dispatch between two addresses.
LEMMA BetweenTyped ==
  ASSUME NEW todo \in SUBSET Addresses, NEW loaded \in [Addresses -> Subscriber]
  PROVE  LET s == [Still EXCEPT !.at = "next", !.loaded = loaded, !.todo = todo]
         IN s \in Dispatch /\ s.at = "next" /\ s.todo = todo /\ s.loaded = loaded /\ s.who = {}
BY DEF Still, Dispatch

\* The clock.
LEMMA TickKeepsIInv == ASSUME IInv, Tick PROVE IInv'
<1>0. TypeOK /\ Shape /\ Linked /\ Past
  BY DEF IInv, Core
<1>1. /\ UNCHANGED <<listing, subscriber, dispatch, tokens, link, mailed, accounted, overlapped>>
      /\ now' \in Time /\ now' >= now /\ now \in Nat /\ now' \in Nat
  BY <1>0, NewsletterAssumption DEF Tick, TypeOK, Time
<1>2. TypeOK' /\ Shape' /\ Linked'
  BY <1>0, <1>1 DEF TypeOK, Shape, Tokens, Linked, At, Aims
<1>3. \A q \in Properties : /\ Public(q) => Public(q)' /\ listing'[q].created = listing[q].created
                            /\ listing'[q].created <= now'
  BY <1>0, <1>1, Typed DEF Public, Past
<1>4. \A t \in 1 .. tokens, p, d \in Properties : Told(t, p, d)' => Told(t, p, d)
  BY <1>1 DEF Told, At
<1>5. Core'
  BY <1>1, <1>2, <1>3, <1>4, QuietStep
<1>6. QED
  BY <1>2, <1>5 DEF IInv

\* A property is created, and nobody sees it yet.
LEMMA CreateKeepsIInv == ASSUME IInv, NEW p \in Properties, Create(p) PROVE IInv'
<1> DEFINE started == [Still EXCEPT !.at = "create"]
           made == [status |-> "creating", created |-> now]
<1>0. TypeOK /\ Shape /\ Linked /\ Past
  BY DEF IInv, Core
<1>1. /\ UNCHANGED <<now, subscriber, tokens, link, mailed, accounted, overlapped>>
      /\ listing[p].status = "none" /\ listing' = [listing EXCEPT ![p] = made]
      /\ dispatch' = [dispatch EXCEPT ![p] = started]
  BY DEF Create, Go
<1>2. started \in Dispatch /\ started.at = "create" /\ started.todo = {} /\ started.who = {}
  BY NewsletterAssumption, StillTyped
<1>3. made \in Listing /\ now \in Nat
  BY <1>0, NewsletterAssumption DEF TypeOK, Listing, Time
<1> HIDE DEF started
<1>4. /\ dispatch' \in [Properties -> Dispatch] /\ dispatch'[p] = started
      /\ \A d \in Properties \ {p} : dispatch'[d] = dispatch[d]
      /\ listing' \in [Properties -> Listing] /\ listing'[p] = made
      /\ \A q \in Properties \ {p} : listing'[q] = listing[q]
  BY <1>0, <1>1, <1>2, <1>3 DEF TypeOK
<1>5. TypeOK'
  BY <1>0, <1>1, <1>4 DEF TypeOK
<1>6. Shape' /\ Linked'
  BY <1>0, <1>1, <1>2, <1>4 DEF Shape, Tokens, Linked, At, Aims
<1>7. \A q \in Properties : /\ Public(q) => Public(q)' /\ listing'[q].created = listing[q].created
                            /\ listing'[q].created <= now'
  BY <1>0, <1>1, <1>3, <1>4 DEF Public, Past
<1>8. \A d \in Properties : dispatch'[d] = dispatch[d] \/ Retreats(d)
  BY <1>2, <1>4 DEF Retreats
<1>9. \A t \in 1 .. tokens, q, d \in Properties : Told(t, q, d)' => Told(t, q, d)
  BY <1>1, <1>2, <1>4 DEF Told, At
<1>10. Core'
  <2>1. now' >= now
    BY <1>1, <1>3
  <2> QED BY <1>1, <1>5, <1>7, <1>8, <1>9, <2>1, QuietStep
<1>11. QED
  BY <1>5, <1>6, <1>10 DEF IInv

\* Its commit: what was not public was accounted for by every watermark there is.
LEMMA CommitCreateKeepsIInv == ASSUME IInv, NEW p \in Properties, CommitCreate(p) PROVE IInv'
<1>0. TypeOK /\ Shape /\ Linked /\ Past
  BY DEF IInv, Core
<1>1. PICK status \in {"available", "off"} :
        /\ listing' = [listing EXCEPT ![p].status = status]
        /\ dispatch' = [dispatch EXCEPT ![p] =
             IF status = "available" THEN [Still EXCEPT !.at = "load"] ELSE Over]
  BY DEF CommitCreate, Go
<1> DEFINE next == IF status = "available" THEN [Still EXCEPT !.at = "load"] ELSE Over
<1>2. /\ UNCHANGED <<now, subscriber, tokens, link, mailed, accounted, overlapped>>
      /\ listing[p].status = "creating"
  BY <1>0 DEF CommitCreate, Shape, Tokens
<1>3. next \in Dispatch /\ next.at \in {"load", "over"} /\ next.todo = {} /\ next.who = {}
  BY NewsletterAssumption, StillTyped
<1> HIDE DEF next
<1>4. /\ dispatch' \in [Properties -> Dispatch] /\ dispatch'[p] = next
      /\ \A d \in Properties \ {p} : dispatch'[d] = dispatch[d]
      /\ listing' \in [Properties -> Listing] /\ listing'[p].created = listing[p].created
      /\ listing'[p].status = status
      /\ \A q \in Properties \ {p} : listing'[q] = listing[q]
  BY <1>0, <1>1, <1>3 DEF TypeOK, Listing, next
<1>5. TypeOK'
  BY <1>0, <1>2, <1>4 DEF TypeOK
<1>6. Shape' /\ Linked'
  BY <1>0, <1>2, <1>3, <1>4 DEF Shape, Tokens, Linked, At, Aims
<1>7. \A q \in Properties : /\ Public(q) => Public(q)' /\ listing'[q].created = listing[q].created
                            /\ listing'[q].created <= now'
  BY <1>0, <1>2, <1>4 DEF Public, Past
<1>8. \A d \in Properties : dispatch'[d] = dispatch[d] \/ Retreats(d)
  BY <1>3, <1>4 DEF Retreats
<1>9. \A t \in 1 .. tokens, q, d \in Properties : Told(t, q, d)' => Told(t, q, d)
  BY <1>2, <1>3, <1>4 DEF Told, At
<1>10. Core'
  <2>1. now' >= now
    BY <1>0, <1>2, Typed
  <2> QED BY <1>2, <1>5, <1>7, <1>8, <1>9, <2>1, QuietStep
<1>11. QED
  BY <1>5, <1>6, <1>10 DEF IInv

\* It is taken off the market, or put back.
LEMMA ChangeStatusKeepsIInv == ASSUME IInv, NEW p \in Properties, ChangeStatus(p) PROVE IInv'
<1>0. TypeOK /\ Shape /\ Linked /\ Past
  BY DEF IInv, Core
<1>1. /\ UNCHANGED <<now, subscriber, dispatch, tokens, link, mailed, accounted, overlapped>>
      /\ listing[p].status \in {"available", "off"}
      /\ listing' = [listing EXCEPT ![p].status = IF @ = "off" THEN "available" ELSE "off"]
  BY DEF ChangeStatus
<1>2. /\ listing' \in [Properties -> Listing] /\ listing'[p].created = listing[p].created
      /\ listing'[p].status \in {"available", "off"}
      /\ \A q \in Properties \ {p} : listing'[q] = listing[q]
  BY <1>0, <1>1 DEF TypeOK, Listing
<1>3. TypeOK'
  BY <1>0, <1>1, <1>2 DEF TypeOK
<1>4. Shape' /\ Linked'
  BY <1>0, <1>1, <1>2 DEF Shape, Tokens, Linked, At, Aims
<1>5. \A q \in Properties : /\ Public(q) => Public(q)' /\ listing'[q].created = listing[q].created
                            /\ listing'[q].created <= now'
  BY <1>0, <1>1, <1>2 DEF Public, Past
<1>6. \A t \in 1 .. tokens, q, d \in Properties : Told(t, q, d)' => Told(t, q, d)
  BY <1>1 DEF Told, At
<1>7. Core'
  <2>1. now' >= now
    BY <1>0, <1>1, Typed
  <2> QED BY <1>1, <1>3, <1>5, <1>6, <2>1, QuietStep
<1>8. QED
  BY <1>3, <1>4, <1>7 DEF IInv

-----------------------------------------------------------------------------
\* What is left of a dispatch that is done with an address.
LEMMA DoneTyped ==
  ASSUME TypeOK, NEW d \in Properties, NEW a \in Addresses
  PROVE  LET next == Done(d, a)
         IN /\ next \in Dispatch /\ next.at \in {"next", "over"} /\ next.who = {}
            /\ next.at = "over" => next.todo = {}
            /\ next.todo \subseteq dispatch[d].todo
            /\ \A b \in next.todo : next.loaded[b] = dispatch[d].loaded[b]
<1> DEFINE todo == dispatch[d].todo \ {a}
           loaded == [dispatch[d].loaded EXCEPT ![a] = NoSubscriber]
           next == [Still EXCEPT !.at = "next", !.loaded = loaded, !.todo = todo]
<1>0. dispatch[d] \in Dispatch
  BY DEF TypeOK
<1>1. NoSubscriber \in Subscriber
  BY NewsletterAssumption DEF NoSubscriber, Subscriber
<1>2. loaded \in [Addresses -> Subscriber] /\ todo \subseteq Addresses
      /\ \A b \in todo : loaded[b] = dispatch[d].loaded[b]
  BY <1>0, <1>1 DEF Dispatch
<1>3. CASE todo = {}
  BY <1>3, NewsletterAssumption, StillTyped DEF Done
<1>4. CASE todo # {}
  <2>1. Done(d, a) = [Still EXCEPT !.at = "next", !.todo = todo, !.loaded = loaded]
    BY <1>4 DEF Done
  <2>2. Done(d, a) = next
    BY <2>1 DEF Still
  <2>3. todo \subseteq dispatch[d].todo
    OBVIOUS
  <2> HIDE DEF todo, loaded
  <2>4. next \in Dispatch /\ next.at = "next" /\ next.todo = todo /\ next.loaded = loaded /\ next.who = {}
    BY <1>2, BetweenTyped
  <2> HIDE DEF next
  <2> QED BY <1>2, <2>2, <2>3, <2>4
<1>5. QED
  BY <1>3, <1>4

\* A dispatch that has loaded the subscribers keeps the shape of one.
LEMMA ShapeStep ==
  ASSUME Shape, NEW d \in Properties, UNCHANGED listing,
         \A e \in Properties \ {d} : dispatch'[e] = dispatch[e],
         dispatch'[d].at \in {"next", "mark", "send"},
         At(d, "next")' => dispatch'[d].who = {},
         At(d, "mark")' => \E a \in dispatch'[d].todo : dispatch'[d].who = {a},
         At(d, "send")' => \E a \in Addresses \ dispatch'[d].todo : dispatch'[d].who = {a},
         \A a \in dispatch'[d].todo \cup dispatch'[d].who : dispatch'[d].loaded[a].id # 0,
         Tokens'
  PROVE  Shape'
<1>1. \A e \in Properties :
        /\ dispatch'[e].at \notin {"next", "mark", "send"} => Aims(e)' = {}
        /\ At(e, "next")' => dispatch'[e].who = {}
        /\ At(e, "mark")' => \E a \in dispatch'[e].todo : dispatch'[e].who = {a}
        /\ At(e, "send")' => \E a \in Addresses \ dispatch'[e].todo : dispatch'[e].who = {a}
        /\ At(e, "create")' => listing'[e].status = "creating"
        /\ \A a \in Aims(e)' : dispatch'[e].loaded[a].id # 0
  <2> TAKE e \in Properties
  <2>1. CASE e = d
    BY <2>1 DEF At, Aims
  <2>2. CASE e # d
    BY <2>2 DEF Shape, Tokens, At, Aims
  <2> QED BY <2>1, <2>2
<1>2. QED
  BY <1>1 DEF Shape, Tokens

\* A dispatch goes back, and nothing else happens in the tables.
LEMMA RetreatKeepsIInv ==
  ASSUME IInv, NEW d \in Properties, NEW next \in Dispatch, Go(d, next),
         next.at \in {"next", "over"}, next.at = "over" => next.todo = {},
         next.who = {}, next.todo \subseteq dispatch[d].todo,
         \A b \in next.todo : next.loaded[b] = dispatch[d].loaded[b],
         UNCHANGED <<now, subscriber, tokens, accounted, overlapped>>,
         link' \in [Addresses -> SUBSET {"welcome", "arrived", "lost"}],
         \A b \in Addresses : link[b] \subseteq link'[b],
         mailed \subseteq mailed', mailed' \subseteq (1 .. tokens) \X Properties \X Properties,
         \A t \in 1 .. tokens, p, e \in Properties :
           <<t, p, e>> \in mailed' => Told(t, p, e),
         listing' \in [Properties -> Listing],
         \A q \in Properties : /\ q # d => listing'[q] = listing[q]
                               /\ listing'[d] = listing[d] \/ (~ Public(d) /\ listing'[d].created = 0)
  PROVE  IInv'
<1>0. TypeOK /\ Shape /\ Linked /\ Past
  BY DEF IInv, Core
<1>1. /\ dispatch' \in [Properties -> Dispatch] /\ dispatch'[d] = next
      /\ \A e \in Properties \ {d} : dispatch'[e] = dispatch[e]
  BY <1>0 DEF Go, TypeOK
<1>2. TypeOK'
  BY <1>0, <1>1 DEF TypeOK
<1>3. Shape'
  <2>1. \A e \in Properties :
          /\ dispatch'[e].at \notin {"next", "mark", "send"} => Aims(e)' = {}
          /\ At(e, "next")' => dispatch'[e].who = {}
          /\ At(e, "mark")' => \E a \in dispatch'[e].todo : dispatch'[e].who = {a}
          /\ At(e, "send")' => \E a \in Addresses \ dispatch'[e].todo : dispatch'[e].who = {a}
          /\ At(e, "create")' => listing'[e].status = "creating"
          /\ \A a \in Aims(e)' : dispatch'[e].loaded[a].id # 0
    <3> TAKE e \in Properties
    <3>1. CASE e = d
      BY <1>0, <1>1, <3>1 DEF Shape, Tokens, At, Aims
    <3>2. CASE e # d
      BY <1>0, <1>1, <3>2 DEF Shape, Tokens, At, Aims
    <3> QED BY <3>1, <3>2
  <2> QED BY <1>0, <2>1 DEF Shape, Tokens
<1>4. Linked'
  <2>1. \A b \in Addresses : link[b] # {} => link'[b] # {}
    OBVIOUS
  <2> QED BY <1>0, <2>1 DEF Linked, Active
<1>5. \A q \in Properties : /\ Public(q) => Public(q)' /\ listing'[q].created = listing[q].created
                            /\ listing'[q].created <= now'
  BY <1>0, Typed DEF Public, Past
<1>6. \A e \in Properties : dispatch'[e] = dispatch[e] \/ Retreats(e)
  BY <1>1 DEF Retreats
<1>7. \A t \in 1 .. tokens, q, e \in Properties : Told(t, q, e)' => Told(t, q, e)
  <2> SUFFICES ASSUME NEW t \in 1 .. tokens, NEW q \in Properties, NEW e \in Properties, Told(t, q, e)'
               PROVE  Told(t, q, e)
    OBVIOUS
  <2>1. CASE <<t, q, e>> \in mailed'
    BY <2>1
  <2>2. CASE <<t, q, e>> \notin mailed'
    <3>1. e # d /\ dispatch'[e] = dispatch[e]
      BY <1>1, <2>2 DEF Told, At
    <3> QED BY <2>2, <3>1 DEF Told, At
  <2> QED BY <2>1, <2>2
<1>8. Core'
  <2>1. now' >= now
    BY <1>0, Typed
  <2> QED BY <1>2, <1>5, <1>6, <1>7, <2>1, QuietStep
<1>9. QED
  BY <1>2, <1>3, <1>4, <1>8 DEF IInv

LEMMA LoadKeepsIInv == ASSUME IInv, NEW d \in Properties, LoadSubscribers(d) PROVE IInv'
<1> DEFINE todo == { a \in Addresses : Active(subscriber[a]) }
           next == [Still EXCEPT !.at = "next", !.loaded = subscriber, !.todo = todo]
<1>0. TypeOK /\ Shape /\ Linked
  BY DEF IInv
<1>1. UNCHANGED <<now, listing, subscriber, tokens, link, mailed, accounted, overlapped>> /\ At(d, "load")
  BY DEF LoadSubscribers
<1>2. CASE todo = {}
  <2>1. Go(d, Over)
    BY <1>2 DEF LoadSubscribers
  <2>2. \A t \in 1 .. tokens, p, e \in Properties : <<t, p, e>> \in mailed' => Told(t, p, e)
    BY <1>1 DEF Told
  <2> QED BY <1>0, <1>1, <2>1, <2>2, NewsletterAssumption, StillTyped, RetreatKeepsIInv DEF TypeOK
<1>3. CASE todo # {}
  <2>1. Go(d, next)
    BY <1>3 DEF LoadSubscribers
  <2>2. \A a \in todo : a \in Addresses /\ subscriber[a].id # 0
    BY DEF Active
  <2>3. todo \in SUBSET Addresses
    OBVIOUS
  <2> HIDE DEF todo
  <2>5. next \in Dispatch /\ next.at = "next" /\ next.who = {} /\ next.todo = todo
        /\ next.loaded = subscriber
    BY <1>0, <2>3, BetweenTyped DEF TypeOK
  <2>6. Core'
    BY <1>1, <2>1, <2>2, <2>3, LoadStep
  <2> HIDE DEF next
  <2>7. /\ dispatch' \in [Properties -> Dispatch] /\ dispatch'[d] = next
        /\ \A e \in Properties \ {d} : dispatch'[e] = dispatch[e]
    BY <1>0, <2>1, <2>5 DEF Go, TypeOK
  <2>8. TypeOK'
    BY <1>0, <1>1, <2>7 DEF TypeOK
  <2>9. Shape'
    <3>1. Tokens'
      BY <1>0, <1>1 DEF Shape, Tokens
    <3> QED BY <1>0, <1>1, <2>2, <2>5, <2>7, <3>1, ShapeStep DEF At
  <2>10. Linked'
    BY <1>0, <1>1 DEF Linked
  <2> QED BY <2>6, <2>8, <2>9, <2>10 DEF IInv
<1>4. QED
  BY <1>2, <1>3

LEMMA SelectKeepsIInv == ASSUME IInv, NEW d \in Properties, Select(d) PROVE IInv'
<1>0. TypeOK /\ Shape /\ Linked
  BY DEF IInv
<1>1. UNCHANGED <<now, listing, subscriber, tokens, link, mailed, accounted, overlapped>> /\ At(d, "next")
  BY DEF Select
<1> DEFINE next(a) == [dispatch[d] EXCEPT !.at = "mark", !.who = {a}, !.rows = New(dispatch[d].loaded[a]),
                          !.hidden = Properties \ Matching(dispatch[d].loaded[a])]
<1>2. PICK a \in dispatch[d].todo : Go(d, Done(d, a)) \/ Go(d, next(a))
  BY DEF Select
<1>3. a \in Addresses /\ dispatch[d] \in Dispatch
  BY <1>0, Typed
<1>4. CASE Go(d, Done(d, a))
  <2>1. \A t \in 1 .. tokens, p, e \in Properties : <<t, p, e>> \in mailed' => Told(t, p, e)
    BY <1>1 DEF Told
  <2> QED BY <1>0, <1>1, <1>3, <1>4, <2>1, DoneTyped, RetreatKeepsIInv DEF TypeOK
<1>5. CASE Go(d, next(a))
  <2>1. Core'
    BY <1>1, <1>5, SelectStep
  <2>2. New(dispatch[d].loaded[a]) \subseteq Properties
    BY DEF New, Matching
  <2>3. next(a) \in Dispatch /\ next(a).at = "mark" /\ next(a).who = {a} /\ next(a).todo = dispatch[d].todo
    BY <1>3, <2>2 DEF Dispatch
  <2> HIDE DEF next
  <2>4. /\ dispatch' \in [Properties -> Dispatch] /\ dispatch'[d] = next(a)
        /\ \A e \in Properties \ {d} : dispatch'[e] = dispatch[e]
    BY <1>0, <1>5, <2>3 DEF Go, TypeOK
  <2>5. TypeOK'
    BY <1>0, <1>1, <2>4 DEF TypeOK
  <2>6. Shape'
    <3>1. Tokens'
      BY <1>0, <1>1 DEF Shape, Tokens
    <3>2. \A b \in dispatch[d].todo : dispatch[d].loaded[b].id # 0
      BY <1>0 DEF Shape, Tokens, Aims
    <3>3. next(a).loaded = dispatch[d].loaded
      BY <1>3 DEF next, Dispatch
    <3> QED BY <1>0, <1>1, <2>3, <2>4, <3>1, <3>2, <3>3, ShapeStep DEF At
  <2>7. Linked'
    BY <1>0, <1>1 DEF Linked
  <2> QED BY <2>1, <2>5, <2>6, <2>7 DEF IInv
<1>6. QED
  BY <1>2, <1>4, <1>5

LEMMA MarkKeepsIInv == ASSUME IInv, NEW d \in Properties, Mark(d) PROVE IInv'
<1>0. TypeOK /\ Shape /\ Linked
  BY DEF IInv
<1>1. PICK a \in dispatch[d].todo : dispatch[d].who = {a}
  BY <1>0 DEF Mark, Shape, Tokens
<1>2. At(d, "mark") /\ UNCHANGED <<now, listing, tokens, link, mailed>>
      /\ a \in Addresses /\ dispatch[d] \in Dispatch
  BY <1>0, Typed DEF Mark
<1> DEFINE next == [dispatch[d] EXCEPT !.at = "send", !.todo = @ \ {a}, !.hidden = {}]
           others == { e \in Properties \ {d} : a \in dispatch[e].todo }
           passed == IF subscriber[a].token = dispatch[d].loaded[a].token
                     THEN dispatch[d].rows \cup dispatch[d].hidden ELSE Properties
<1>3. IF subscriber[a].id # dispatch[d].loaded[a].id
      THEN Go(d, Over) /\ UNCHANGED <<subscriber, accounted, overlapped>>
      ELSE /\ subscriber' = [subscriber EXCEPT ![a].last_digest = now]
           /\ accounted' = [accounted EXCEPT ![a] = @ \cup passed]
           /\ overlapped' = overlapped \cup ({d} \X others) \cup (others \X {d})
           /\ Go(d, next)
  BY <1>1 DEF Mark
<1>4. CASE subscriber[a].id # dispatch[d].loaded[a].id
  <2>1. Go(d, Over) /\ UNCHANGED <<subscriber, accounted, overlapped>>
    BY <1>3, <1>4
  <2>2. \A t \in 1 .. tokens, p, e \in Properties : <<t, p, e>> \in mailed' => Told(t, p, e)
    BY <1>2 DEF Told
  <2> QED BY <1>0, <1>2, <2>1, <2>2, NewsletterAssumption, StillTyped, RetreatKeepsIInv DEF TypeOK
<1>5. CASE subscriber[a].id = dispatch[d].loaded[a].id
  <2>1. /\ subscriber' = [subscriber EXCEPT ![a].last_digest = now]
        /\ accounted' = [accounted EXCEPT ![a] = @ \cup passed]
        /\ overlapped' = overlapped \cup ({d} \X others) \cup (others \X {d})
        /\ dispatch' = [dispatch EXCEPT ![d] = next]
    BY <1>3, <1>5 DEF Go
  <2>2. /\ next \in Dispatch /\ next.at = "send" /\ next.who = {a} /\ a \notin next.todo
    BY <1>1, <1>2 DEF Dispatch
  <2>3. passed \subseteq Properties /\ others \subseteq Properties
    BY <1>2 DEF Dispatch
  <2> HIDE DEF next, passed, others
  <2>4. /\ dispatch' \in [Properties -> Dispatch] /\ dispatch'[d] = next
        /\ \A e \in Properties \ {d} : dispatch'[e] = dispatch[e]
    BY <1>0, <2>1, <2>2 DEF TypeOK
  <2>5. /\ subscriber' \in [Addresses -> Subscriber]
        /\ subscriber'[a].id = subscriber[a].id /\ subscriber'[a].token = subscriber[a].token
        /\ Active(subscriber'[a]) = Active(subscriber[a])
        /\ \A b \in Addresses \ {a} : subscriber'[b] = subscriber[b]
    BY <1>0, <1>2, <2>1 DEF TypeOK, Subscriber, Active
  <2>6. accounted' \in [Addresses -> SUBSET Properties] /\ overlapped' \subseteq Properties \X Properties
    BY <1>0, <2>1, <2>3 DEF TypeOK
  <2>7. TypeOK'
    BY <1>0, <1>2, <2>4, <2>5, <2>6 DEF TypeOK
  <2>8. Linked'
    BY <1>0, <1>2, <2>5 DEF Linked
  <2>9. Shape'
    <3>1. \A b \in dispatch[d].todo : dispatch[d].loaded[b].id # 0
      BY <1>0 DEF Shape, Tokens, Aims
    <3>2. subscriber[a].id # 0
      BY <1>1, <1>5, <3>1
    <3>3. Tokens'
      BY <1>0, <1>2, <2>5, <3>2 DEF Shape, Tokens
    <3>4. next.loaded = dispatch[d].loaded /\ next.todo \subseteq dispatch[d].todo
      BY <1>2 DEF next, Dispatch
    <3> QED BY <1>0, <1>1, <1>2, <2>2, <2>4, <3>1, <3>3, <3>4, ShapeStep DEF At
  <2>10. Core'
    BY <1>1, <1>2, <1>5, <2>7, MarkStep
  <2> QED BY <2>7, <2>8, <2>9, <2>10 DEF IInv
<1>6. QED
  BY <1>4, <1>5

\* The digest goes out or is lost: what it tells was told with the watermark.
LEMMA SendKeepsIInv == ASSUME IInv, NEW d \in Properties, Send(d) PROVE IInv'
<1>0. TypeOK /\ Shape /\ Fresh /\ tokens \in Nat
  BY Typed DEF IInv, Core
<1>1. PICK a \in dispatch[d].who :
        /\ Go(d, Done(d, a))
        /\ \/ /\ mailed' = mailed \cup { <<dispatch[d].loaded[a].token, p, d>> : p \in dispatch[d].rows }
              /\ link' = IF dispatch[d].loaded[a].token = subscriber[a].token
                         THEN [link EXCEPT ![a] = @ \cup {"arrived"}] ELSE link
           \/ UNCHANGED <<mailed, link>>
  BY DEF Send
<1>2. UNCHANGED <<now, listing, subscriber, tokens, accounted, overlapped>> /\ At(d, "send")
  BY DEF Send
<1>3. a \in Addresses /\ a \in Aims(d) /\ dispatch[d].rows \subseteq Properties
  BY <1>0, Typed DEF Aims
<1> DEFINE token == dispatch[d].loaded[a].token
           digest == { <<token, p, d>> : p \in dispatch[d].rows }
<1>4. token \in 1 .. tokens
  BY <1>0, <1>3 DEF Fresh
<1>5. mailed' = mailed \cup digest \/ mailed' = mailed
  BY <1>1
<1>6. \A x \in digest : \E p \in dispatch[d].rows : x = <<token, p, d>>
  OBVIOUS
<1>7. \A t, p, e : <<t, p, e>> \in digest => t = token /\ p \in dispatch[d].rows /\ e = d
  BY <1>6
<1>8. digest \subseteq (1 .. tokens) \X Properties \X Properties
  BY <1>3, <1>4
<1> HIDE DEF digest
<1>9. \A t \in 1 .. tokens, p, e \in Properties : <<t, p, e>> \in mailed' => Told(t, p, e)
  BY <1>2, <1>5, <1>7 DEF Told
<1>10. mailed \subseteq mailed' /\ mailed' \subseteq (1 .. tokens) \X Properties \X Properties
  BY <1>0, <1>5, <1>8 DEF TypeOK
<1>11. /\ link' \in [Addresses -> SUBSET {"welcome", "arrived", "lost"}]
       /\ \A b \in Addresses : link[b] \subseteq link'[b]
  <2>1. link' = link \/ link' = [link EXCEPT ![a] = @ \cup {"arrived"}]
    BY <1>1
  <2> QED BY <1>0, <1>3, <2>1 DEF TypeOK
<1>12. /\ Done(d, a) \in Dispatch /\ Done(d, a).at \in {"next", "over"}
       /\ Done(d, a).at = "over" => Done(d, a).todo = {}
       /\ Done(d, a).who = {} /\ Done(d, a).todo \subseteq dispatch[d].todo
       /\ \A b \in Done(d, a).todo : Done(d, a).loaded[b] = dispatch[d].loaded[b]
  BY <1>0, <1>3, DoneTyped
<1>13. listing' \in [Properties -> Listing] /\ \A q \in Properties : listing'[q] = listing[q]
  BY <1>0, <1>2 DEF TypeOK
<1>14. QED
  BY <1>1, <1>2, <1>9, <1>10, <1>11, <1>12, <1>13, RetreatKeepsIInv

\* A request ends where it is, and what it has not committed is gone.
LEMMA CrashKeepsIInv == ASSUME IInv, NEW d \in Properties, Crash(d) PROVE IInv'
<1>0. TypeOK /\ Shape
  BY DEF IInv
<1>1. /\ Go(d, Over) /\ UNCHANGED <<now, subscriber, tokens, link, mailed, accounted, overlapped>>
      /\ listing' = IF At(d, "create") THEN [listing EXCEPT ![d] = [status |-> "none", created |-> 0]]
                    ELSE listing
  BY DEF Crash
<1>2. [status |-> "none", created |-> 0] \in Listing
  BY NewsletterAssumption DEF Listing, Time
<1>3. /\ listing' \in [Properties -> Listing]
      /\ \A q \in Properties : /\ q # d => listing'[q] = listing[q]
                               /\ listing'[d] = listing[d] \/ (~ Public(d) /\ listing'[d].created = 0)
  <2>1. CASE At(d, "create")
    <3>1. ~ Public(d)
      BY <1>0, <2>1 DEF Shape, Public
    <3> QED BY <1>0, <1>1, <1>2, <2>1, <3>1 DEF TypeOK
  <2>2. CASE ~ At(d, "create")
    BY <1>0, <1>1, <2>2 DEF TypeOK
  <2> QED BY <2>1, <2>2
<1>4. \A t \in 1 .. tokens, p, e \in Properties : <<t, p, e>> \in mailed' => Told(t, p, e)
  BY <1>1 DEF Told
<1>5. /\ link' \in [Addresses -> SUBSET {"welcome", "arrived", "lost"}]
      /\ mailed' \subseteq (1 .. tokens) \X Properties \X Properties
  BY <1>0, <1>1 DEF TypeOK
<1>6. QED
  BY <1>1, <1>3, <1>4, <1>5, NewsletterAssumption, StillTyped, RetreatKeepsIInv

-----------------------------------------------------------------------------
\* The first state: nobody, or one row of before with the first token.
LEMMA InitIInv == Init => IInv
<1> SUFFICES ASSUME Init PROVE IInv
  OBVIOUS
<1>1. PICK old \in {{}} \cup { {a} : a \in Addresses } :
        /\ subscriber = [a \in Addresses |-> IF a \in old THEN [NoSubscriber EXCEPT !.id = 1, !.token = 1]
                                             ELSE NoSubscriber]
        /\ link = [a \in Addresses |-> IF a \in old THEN {"arrived"} ELSE {}]
  BY DEF Init
<1>2. \A a, b \in old : a = b
  OBVIOUS
<1>3. MaxTokens \in Nat /\ MaxTime \in Nat
  BY NewsletterAssumption
<1> DEFINE first == [NoSubscriber EXCEPT !.id = 1, !.token = 1]
<1>4. /\ first.id = 1 /\ first.token = 1 /\ first.last_digest = Never /\ ~ Active(first)
      /\ NoSubscriber.id = 0 /\ NoSubscriber.token = 0
      /\ NoSubscriber.last_digest = Never /\ ~ Active(NoSubscriber)
      /\ NoSubscriber \in Subscriber
  BY <1>3 DEF NoSubscriber, Active, Subscriber
<1>5. Still \in Dispatch /\ Still.at = "none" /\ Still.todo = {} /\ Still.who = {}
  BY NewsletterAssumption, StillTyped DEF Still
<1>6. \A a \in Addresses : subscriber[a] = first \/ subscriber[a] = NoSubscriber
  BY <1>1
<1>7. \A a, b \in Addresses : subscriber[a] = first /\ subscriber[b] = first => a = b
  <2>1. \A a \in Addresses : subscriber[a] = IF a \in old THEN first ELSE NoSubscriber
    BY <1>1
  <2> HIDE DEF first
  <2>2. first # NoSubscriber
    BY <1>4
  <2>3. \A a \in Addresses : subscriber[a] = first => a \in old
    BY <2>1, <2>2
  <2> QED BY <1>2, <2>3
<1>8. \A d \in Properties : dispatch[d] = Still /\ Aims(d) = {}
  BY <1>5 DEF Init, Aims
<1> HIDE DEF first
<1>9. TypeOK
  <2>1. [status |-> "none", created |-> 0] \in Listing
    BY <1>3 DEF Listing, Time
  <2>2. first \in Subscriber
    <3>1. 1 \in 0 .. MaxTokens
      BY NewsletterAssumption
    <3>2. \A r \in Subscriber : [r EXCEPT !.id = 1, !.token = 1] \in Subscriber
      BY <3>1 DEF Subscriber
    <3> QED BY <1>4, <3>2 DEF first
  <2>3. subscriber \in [Addresses -> Subscriber]
    BY <1>1, <1>4, <2>2 DEF first
  <2>4. \A a \in Addresses : subscriber[a].id <= tokens /\ subscriber[a].token <= tokens
    BY <1>4, <1>6 DEF Init
  <2>5. dispatch \in [Properties -> Dispatch]
    BY <1>5 DEF Init
  <2>6. now \in Time /\ tokens \in 0 .. MaxTokens
    BY <1>3, NewsletterAssumption DEF Init, Time
  <2>7. mailed = {} /\ overlapped = {} /\ accounted = [a \in Addresses |-> {}]
        /\ listing = [p \in Properties |-> [status |-> "none", created |-> 0]]
    BY DEF Init
  <2>8. link \in [Addresses -> SUBSET {"welcome", "arrived", "lost"}]
    BY <1>1
  <2> QED BY <2>1, <2>3, <2>4, <2>5, <2>6, <2>7, <2>8 DEF TypeOK
<1>10. Shape /\ Linked
  BY <1>4, <1>5, <1>6, <1>8 DEF Shape, Tokens, Linked, At
<1>11. Fresh
  <2>1. \A t \in 1 .. tokens, a \in Addresses : Has(a, t) => subscriber[a] = first
    <3>1. \A t \in 1 .. tokens : t # 0
      BY DEF Init
    <3> QED BY <1>4, <1>6, <1>8, <3>1 DEF Has
  <2> QED BY <1>7, <1>8, <2>1 DEF Fresh
<1>12. Past
  BY <1>4, <1>6 DEF Past, Init, Never
<1>13. Accounted /\ Grows /\ Selected
  BY <1>4, <1>5, <1>6, <1>8 DEF Accounted, Grows, Selected
<1>14. ToldOnce
  BY <1>5, <1>8 DEF ToldOnce, Told, At, Init
<1>15. QED
  BY <1>9, <1>10, <1>11, <1>12, <1>13, <1>14 DEF IInv, Core

\* Every step, and no step.
LEMMA NextKeepsIInv == IInv /\ [Next]_vars => IInv'
<1> SUFFICES ASSUME IInv, [Next]_vars PROVE IInv'
  OBVIOUS
<1>1. CASE UNCHANGED vars
  <2>1. UNCHANGED <<now, listing, subscriber, dispatch, tokens, link, mailed, accounted, overlapped>>
    BY <1>1 DEF vars
  <2>2. TypeOK' /\ Shape' /\ Linked'
    BY <2>1 DEF IInv, TypeOK, Shape, Tokens, Linked, At, Aims
  <2>3. \A t \in 1 .. tokens, q, e \in Properties : Told(t, q, e)' => Told(t, q, e)
    BY <2>1 DEF Told, At
  <2>4. \A q \in Properties : /\ Public(q) => Public(q)' /\ listing'[q].created = listing[q].created
                              /\ listing'[q].created <= now'
    BY <2>1, Typed DEF Public, Past, IInv, Core
  <2>5. now' >= now
    BY <2>1, Typed DEF IInv
  <2>6. Core'
    BY <2>1, <2>2, <2>3, <2>4, <2>5, QuietStep
  <2> QED BY <2>2, <2>6 DEF IInv
<1>2. ASSUME NEW a \in Addresses, NEW filter \in Filters, Subscribe(a, filter) PROVE IInv'
  BY <1>2, SubscribeKeepsIInv
<1>3. ASSUME NEW a \in Addresses,
             SendWelcome(a) \/ Confirm(a) \/ Unsubscribe(a) \/ delete_subscriber(a)
      PROVE  IInv'
  BY <1>3, SendWelcomeKeepsIInv, LinkKeepsIInv, DeleteKeepsIInv
<1>4. ASSUME NEW p \in Properties, Create(p) \/ CommitCreate(p) \/ ChangeStatus(p) PROVE IInv'
  BY <1>4, CreateKeepsIInv, CommitCreateKeepsIInv, ChangeStatusKeepsIInv
<1>5. ASSUME NEW p \in Properties, LoadSubscribers(p) \/ Select(p) \/ Mark(p) \/ Send(p) \/ Crash(p)
      PROVE  IInv'
  BY <1>5, LoadKeepsIInv, SelectKeepsIInv, MarkKeepsIInv, SendKeepsIInv, CrashKeepsIInv
<1>6. CASE Tick
  BY <1>6, TickKeepsIInv
<1>7. QED
  BY <1>1, <1>2, <1>3, <1>4, <1>5, <1>6 DEF Next

LEMMA SpecIInv == Spec => []IInv
BY InitIInv, NextKeepsIInv, PTL DEF Spec

-----------------------------------------------------------------------------
\* The rows, the requests and the history have their types, however long it runs.
THEOREM NewsletterTypeCorrect == Spec => []TypeOK
<1>1. IInv => TypeOK
  BY DEF IInv
<1>2. QED
  BY <1>1, SpecIInv, PTL

\* Two dispatches tell one subscription of the same property only when one had
\* loaded the subscribers before the other moved the watermark.
THEOREM RepeatsAreOverlaps == Spec => []RepeatsOnlyByOverlap
<1>1. IInv => RepeatsOnlyByOverlap
  <2> SUFFICES ASSUME IInv, NEW m \in mailed, NEW n \in mailed,
                      m[1] = n[1] /\ m[2] = n[2] /\ m[3] # n[3]
               PROVE  <<m[3], n[3]>> \in overlapped
    BY DEF RepeatsOnlyByOverlap
  <2>1. /\ m[1] \in 1 .. tokens /\ m[2] \in Properties /\ m[3] \in Properties /\ n[3] \in Properties
        /\ m = <<m[1], m[2], m[3]>> /\ n = <<m[1], m[2], n[3]>>
    BY DEF IInv, TypeOK
  <2>2. Told(m[1], m[2], m[3]) /\ Told(m[1], m[2], n[3])
    BY <2>1 DEF Told
  <2> QED BY <2>1, <2>2 DEF IInv, Core, ToldOnce
<1>2. QED
  BY <1>1, SpecIInv, PTL

\* What a subscriber wants and is to be had is still ahead of the watermark, or was
\* told, or was hidden when the watermark passed it.
THEOREM NothingIsSkipped == Spec => []NothingSkipped
<1>1. IInv => NothingSkipped
  <2> SUFFICES ASSUME IInv, NEW a \in Addresses, NEW p \in Properties,
                      ~ (listing[p].created > subscriber[a].last_digest)
               PROVE  p \in accounted[a]
    BY DEF NothingSkipped
  <2>1. /\ listing[p].created \in Nat /\ subscriber[a].last_digest \in Nat \cup {Never}
    BY Typed DEF IInv
  <2>2. subscriber[a].last_digest # Never /\ listing[p].created <= subscriber[a].last_digest
    BY <2>1 DEF Never
  <2> QED BY <2>2 DEF IInv, Core, Accounted
<1>2. QED
  BY <1>1, SpecIInv, PTL

-----------------------------------------------------------------------------
(* The way out.                                                            *)

\* A digest with the token of a row has brought its link.
Brought ==
  \A a \in Addresses : \A digest \in mailed :
    digest[1] = subscriber[a].token => "arrived" \in link[a]

\* A step that mails nothing, renews no token and takes away no link that arrived.
LEMMA QuietKeepsBrought ==
  ASSUME Brought, UNCHANGED mailed,
         \A a \in Addresses : subscriber'[a].token = subscriber[a].token,
         \A a \in Addresses : "arrived" \in link[a] => "arrived" \in link'[a]
  PROVE  Brought'
BY DEF Brought

\* A new token is none of the mailed ones.
LEMMA SubscribeKeepsBrought ==
  ASSUME IInv, Brought, NEW a \in Addresses, NEW filter \in Filters, Subscribe(a, filter)
  PROVE  Brought'
<1>1. /\ TypeOK /\ tokens \in Nat /\ UNCHANGED mailed
      /\ \A digest \in mailed : digest[1] \in 1 .. tokens
  BY Typed DEF IInv, TypeOK, Subscribe
<1>2. PICK written :
        /\ written.token = subscriber[a].token \/ written.token = tokens + 1
        /\ subscriber' = [subscriber EXCEPT ![a] = written]
        /\ link' = [link EXCEPT ![a] = (IF written.token = subscriber[a].token THEN @ ELSE {})
                           \cup (IF Returning(subscriber[a], written) THEN {"welcome"} ELSE {})]
  <2> DEFINE row == subscriber[a]
             written == IF row.id = 0
                        THEN [NoSubscriber EXCEPT !.id = tokens + 1, !.token = tokens + 1,
                                                  !.filter = filter, !.confirmed = TRUE]
                        ELSE [Rearmed(row) EXCEPT !.filter = filter, !.confirmed = TRUE]
  <2>1. row \in Subscriber
    BY <1>1 DEF TypeOK
  <2>2. written.token = row.token \/ written.token = tokens + 1
    BY <2>1 DEF Rearmed, NoSubscriber, Subscriber
  <2>3. /\ subscriber' = [subscriber EXCEPT ![a] = written]
        /\ link' = [link EXCEPT ![a] = (IF written.token = row.token THEN @ ELSE {})
                           \cup (IF Returning(row, written) THEN {"welcome"} ELSE {})]
    BY DEF Subscribe
  <2> HIDE DEF written
  <2> QED BY <2>2, <2>3
<1>3. /\ subscriber'[a] = written
      /\ \A b \in Addresses \ {a} : subscriber'[b] = subscriber[b] /\ link'[b] = link[b]
      /\ written.token = subscriber[a].token => link[a] \subseteq link'[a]
  BY <1>1, <1>2 DEF TypeOK
<1>4. \A digest \in mailed : digest[1] # tokens + 1
  BY <1>1
<1>5. QED
  BY <1>1, <1>2, <1>3, <1>4 DEF Brought

\* A digest that is mailed brings the link, unless the row has another token by now;
\* no other row has the token.
LEMMA SendKeepsBrought ==
  ASSUME IInv, Brought, NEW d \in Properties, Send(d)
  PROVE  Brought'
<1>0. TypeOK /\ Fresh
  BY DEF IInv, Core
<1>1. PICK a \in dispatch[d].who :
        \/ /\ mailed' = mailed \cup { <<dispatch[d].loaded[a].token, p, d>> : p \in dispatch[d].rows }
           /\ link' = IF dispatch[d].loaded[a].token = subscriber[a].token
                      THEN [link EXCEPT ![a] = @ \cup {"arrived"}] ELSE link
        \/ UNCHANGED <<mailed, link>>
  BY DEF Send
<1>2. UNCHANGED subscriber
  BY DEF Send
<1> DEFINE token == dispatch[d].loaded[a].token
<1>3. a \in Addresses /\ a \in Aims(d) /\ token \in 1 .. tokens
  BY <1>0, Typed DEF Aims, Fresh
<1>4. \A b \in Addresses : subscriber[b].token = token => b = a
  BY <1>0, <1>3 DEF Fresh, Has
<1>5. \A digest \in mailed' : digest \in mailed \/ digest[1] = token
  BY <1>1
<1>6. \A b \in Addresses : "arrived" \in link[b] => "arrived" \in link'[b]
  BY <1>0, <1>1 DEF TypeOK
<1>7. mailed' # mailed /\ token = subscriber[a].token => "arrived" \in link'[a]
  BY <1>0, <1>1, <1>3 DEF TypeOK
<1>8. QED
  BY <1>2, <1>4, <1>5, <1>6, <1>7 DEF Brought

LEMMA NextKeepsBrought == ASSUME IInv, Brought, [Next]_vars PROVE Brought'
<1>0. TypeOK /\ \A digest \in mailed : digest[1] # 0
  BY Typed DEF IInv, TypeOK
<1>1. ASSUME NEW a \in Addresses, SendWelcome(a) PROVE Brought'
  <2>1. \A b \in Addresses : "arrived" \in link[b] => "arrived" \in link'[b]
    BY <1>0, <1>1 DEF SendWelcome, TypeOK
  <2> QED BY <1>1, <2>1, QuietKeepsBrought DEF SendWelcome
<1>2. ASSUME NEW a \in Addresses, Confirm(a) \/ Unsubscribe(a) PROVE Brought'
  <2>1. subscriber \in [Addresses -> Subscriber] /\ subscriber[a] \in Subscriber
    BY <1>0 DEF TypeOK
  <2>2. CASE Confirm(a)
    <3>1. subscriber' = [subscriber EXCEPT ![a] = [subscriber[a] EXCEPT !.confirmed = TRUE]]
      BY <2>2 DEF Confirm
    <3>2. [subscriber[a] EXCEPT !.confirmed = TRUE].token = subscriber[a].token
      BY <2>1 DEF Subscriber
    <3>3. \A b \in Addresses : subscriber'[b].token = subscriber[b].token
      BY <2>1, <3>1, <3>2
    <3> QED BY <2>2, <3>3, QuietKeepsBrought DEF Confirm
  <2>3. CASE Unsubscribe(a)
    <3>1. subscriber' = [subscriber EXCEPT ![a] = [subscriber[a] EXCEPT !.unsubscribed = TRUE]]
      BY <2>3 DEF Unsubscribe
    <3>2. [subscriber[a] EXCEPT !.unsubscribed = TRUE].token = subscriber[a].token
      BY <2>1 DEF Subscriber
    <3>3. \A b \in Addresses : subscriber'[b].token = subscriber[b].token
      BY <2>1, <3>1, <3>2
    <3> QED BY <2>3, <3>3, QuietKeepsBrought DEF Unsubscribe
  <2> QED BY <1>2, <2>2, <2>3
<1>3. ASSUME NEW a \in Addresses, delete_subscriber(a) PROVE Brought'
  <2>1. /\ UNCHANGED mailed /\ subscriber'[a].token = 0
        /\ \A b \in Addresses \ {a} : subscriber'[b] = subscriber[b] /\ link'[b] = link[b]
    BY <1>0, <1>3 DEF delete_subscriber, TypeOK, NoSubscriber
  <2> QED BY <1>0, <2>1 DEF Brought
<1>4. ASSUME NEW d \in Properties, Mark(d) PROVE Brought'
  <2>1. \A b \in Addresses : subscriber'[b].token = subscriber[b].token
    BY <1>0, <1>4 DEF Mark, TypeOK, Subscriber
  <2> QED BY <1>4, <2>1, QuietKeepsBrought DEF Mark
<1>5. CASE UNCHANGED <<subscriber, link, mailed>>
  BY <1>5, QuietKeepsBrought
<1>6. QED
  BY <1>1, <1>2, <1>3, <1>4, <1>5, SubscribeKeepsBrought, SendKeepsBrought
     DEF Next, Create, CommitCreate, ChangeStatus, LoadSubscribers, Select, Crash, Tick, vars

\* Whoever gets digests with the token of the row, or got the welcome, can leave
\* by a link; the only subscriber who cannot, and has no welcome on the way, lost
\* the welcome and was mailed nothing with that token.
THEOREM OnlyALostWelcomeLeavesNoWayOut == Spec => []CanUnsubscribe
<1>1. ASSUME IInv, Brought PROVE CanUnsubscribe
  <2> SUFFICES ASSUME NEW a \in Addresses, Active(subscriber[a]),
                      "arrived" \notin link[a], "welcome" \notin link[a]
               PROVE  "lost" \in link[a] /\ \A digest \in mailed : digest[1] # subscriber[a].token
    BY DEF CanUnsubscribe
  <2>1. link[a] \subseteq {"welcome", "arrived", "lost"} /\ link[a] # {}
    BY <1>1 DEF IInv, TypeOK, Linked
  <2>2. \A digest \in mailed : digest[1] # subscriber[a].token
    BY <1>1 DEF Brought
  <2> QED BY <2>1, <2>2
<1>2. Init => Brought
  BY DEF Init, Brought
<1>3. IInv /\ Brought /\ [Next]_vars => Brought'
  BY NextKeepsBrought
<1>4. QED
  BY <1>1, <1>2, <1>3, SpecIInv, PTL DEF Spec
=============================================================================
