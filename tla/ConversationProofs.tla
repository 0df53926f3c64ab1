------------------------- MODULE ConversationProofs -------------------------
(***************************************************************************)
(* What is made of conversations: leads and contacts, and summaries, for   *)
(* any number of each, of requests and of runs.                            *)
(*                                                                         *)
(* A lead is in the book once because a request that has loaded it holds   *)
(* what it is, unless another has loaded it as well (Held), and because    *)
(* what an approval is going to write back of a contact's notes tells what *)
(* they tell (Recalls); two contacts have one phone only when nobody was   *)
(* looking for it (Unused).                                                *)
(*                                                                         *)
(* Of the summaries, NothingLost is not inductive: the row that has a      *)
(* message may be replaced by the upsert of another run.  The invariant    *)
(* says more: what a period has passed is in a row that ends no later      *)
(* (Told), and what a run at the model has not read is either hidden from  *)
(* it, or after its period, or before the row it begins at, which stays    *)
(* (Reading).                                                              *)
(***************************************************************************)
EXTENDS MCConversations, FiniteSetTheorems, WellFoundedInduction, TLAPS

-----------------------------------------------------------------------------
(* Leads and contacts.                                                     *)

\* The notes of contact c tell of lead l once at most, and only when it was approved
\* into c; and of its last extraction if it was.
Single(notes, c, l) ==
  \A n \in notes : n[2] = l =>
    /\ lead[l].status = "approved" /\ lead[l].contact = c
    /\ \A m \in notes : m[2] = l => m = n
Tells(notes, c, l) ==
  lead[l].status = "approved" /\ lead[l].contact = c => \E n \in notes : n[2] = l /\ n[3] = lead[l].text

\* A lead that is not in the book, or not any more.
Open(l) == ~ (lead[l].status = "approved" /\ lead[l].contact # None)

ContactOK(c) ==
  \A l \in Leads \ raced :
    Single(contact[c].notes, c, l) /\ (contact[c].kept => Tells(contact[c].notes, c, l))

\* A request has loaded the lead it is about, in the state that it needs.
Shape(q) ==
  /\ q.at \in {"edit", "match", "approve", "reject"} => q.lead # None
  /\ q.at \in {"idle", "import", "over"} => q.lead = None

\* What it has loaded of a lead that no two requests have changed is still so.
Held(q) ==
  q.lead # None /\ q.lead \notin raced =>
    /\ lead[q.lead].status = q.row.status /\ lead[q.lead].text = q.row.text
    /\ lead[q.lead].contact \in {q.row.contact, None}
    /\ q.at \in {"extract", "edit"} => q.row.status = "pending"
    /\ q.at \in {"match", "approve"} => Approvable(q.row)
    /\ q.at = "reject" => Rejectable(q.row)

\* What it is going to write back of the contact's notes tells what they tell.
Recalls(q) ==
  q.at = "approve" /\ q.contact # None =>
    \A l \in Leads \ raced :
      /\ Exists(q.contact) => Single(q.notes, q.contact, l)
      /\ contact[q.contact].kept => Tells(q.notes, q.contact, l)

\* It has found no contact of a phone, and there is none yet that a request made.
Seeks(q, phone) ==
  \/ q.at = "approve" /\ q.contact = None /\ q.row.phone = phone
  \/ q.at = "import" /\ \E i \in DOMAIN q.phones : q.phones[i] = phone
Unused(q) ==
  /\ \A p \in Phones \ raced :
       Seeks(q, p) => \A c \in Contacts : contact[c].phone = p => contact[c].by \notin Requests
  /\ q.at = "import" =>
       \A i, j \in DOMAIN q.phones : q.phones[i] = q.phones[j] /\ q.phones[i] # None => i = j

RequestOK(q) == Shape(q) /\ Held(q) /\ Recalls(q) /\ Unused(q)

IInv ==
  /\ TypeOK
  /\ \A l \in Leads : lead[l].contact # None => Exists(lead[l].contact)
  /\ \A c \in Contacts : ContactOK(c)
  /\ \A r \in Requests : RequestOK(request[r])
  /\ PhoneOnce

-----------------------------------------------------------------------------
\* Nothing is a phone, a lead, a contact or a request.
LEMMA Nothings ==
  /\ \A p \in Phones : p # None
  /\ None \notin Leads /\ None \notin Contacts /\ None \notin Requests
  /\ \A r \in Requests : r # "none" /\ r # "hand"
<1>1. \A p \in Phones : p # None
  BY DEF Phones, None
<1> QED BY <1>1, LeadsAssumption DEF None

\* The records of the model have their types.
LEMMA RecordsOK ==
  /\ NoLead \in Lead /\ NoContact \in Contact /\ Idle \in Request /\ Over \in Request
  /\ Idle.at = "idle" /\ Over.at = "over" /\ Idle.lead = None /\ Over.lead = None
  /\ Idle.contact = None /\ Over.contact = None
<1>1. NoLead \in Lead
  BY DEF NoLead, Lead, MaybePhone
<1>2. NoContact \in Contact
  BY DEF NoContact, Contact, MaybePhone
<1>3. <<>> \in PhonesOfRows
  <2>1. <<>> \in [{} -> MaybePhone]
    OBVIOUS
  <2> QED BY <2>1 DEF PhonesOfRows
<1>4. Idle \in Request
  BY <1>1, <1>3 DEF Idle, Request
<1>5. Over \in Request /\ Over.at = "over" /\ Over.lead = None /\ Over.contact = None
  BY <1>4 DEF Over, Request, Idle
<1> QED BY <1>1, <1>2, <1>4, <1>5 DEF Idle

\* A request that is over, or has not begun, needs nothing.
LEMMA RestOK == RequestOK(Idle) /\ RequestOK(Over)
BY RecordsOK DEF RequestOK, Shape, Held, Recalls, Unused, Seeks

\* A lead that a request has loaded and no other has changed is not in the book.
LEMMA HeldIsOpen ==
  ASSUME NEW q, RequestOK(q), q.at \in {"extract", "edit", "match", "approve", "reject"},
         q.lead # None, q.lead \notin raced
  PROVE  Open(q.lead) /\ lead[q.lead].status # "none"
BY DEF RequestOK, Held, Open, Approvable, Rejectable

\* No notes tell of a lead that is not in the book.
LEMMA OpenIsUntold ==
  ASSUME NEW l, Open(l), NEW c \in Contacts, NEW notes, Single(notes, c, l)
  PROVE  \A n \in notes : n[2] # l
BY Nothings DEF Open, Single

\* A step by which one request goes on and nothing else changes.
LEMMA RequestKeepsIInv ==
  ASSUME IInv, NEW r \in Requests, NEW q \in Request, Go(r, q), RequestOK(q),
         UNCHANGED <<lead, contact, raced>>
  PROVE  IInv'
<1>1. \A p \in Requests : request'[p] = IF p = r THEN q ELSE request[p]
  BY DEF Go, IInv, TypeOK
<1>2. TypeOK'
  BY DEF Go, IInv, TypeOK
<1>3. ASSUME NEW p \in Requests PROVE RequestOK(request[p])'
  <2>1. RequestOK(request'[p])
    BY <1>1 DEF IInv
  <2> QED BY <2>1 DEF RequestOK, Shape, Held, Recalls, Unused, Single, Tells, Exists
<1>4. PhoneOnce' /\ \A c \in Contacts : ContactOK(c)'
  BY DEF IInv, PhoneOnce, ContactOK, Single, Tells
<1>5. (\A l \in Leads : lead[l].contact # None => Exists(lead[l].contact))'
  BY DEF IInv, Exists
<1> QED BY <1>2, <1>3, <1>4, <1>5 DEF IInv

\* A step by which a request changes one lead that is not in the book, unless others
\* have it, and ends.
LEMMA LeadKeepsIInv ==
  ASSUME IInv, NEW r \in Requests, NEW l \in Leads, Go(r, Over), contact' = contact,
         lead' \in [Leads -> Lead], \A k \in Leads : k # l => lead'[k] = lead[k],
         lead'[l].contact \in {lead[l].contact, None},
         raced \subseteq raced', raced' \subseteq Leads \cup Phones,
         l \notin raced' => /\ Open(l) /\ Open(l)'
                            /\ \A p \in Requests : p # r => request[p].lead # l
  PROVE  IInv'
<1>1. \A p \in Requests : request'[p] = IF p = r THEN Over ELSE request[p]
  BY DEF Go, IInv, TypeOK
<1>2. TypeOK'
  BY RecordsOK DEF Go, IInv, TypeOK
<1>3. (\A k \in Leads : lead[k].contact # None => Exists(lead[k].contact))'
  BY DEF IInv, Exists
<1>4. ASSUME NEW notes, NEW c \in Contacts, NEW k \in Leads \ raced'
      PROVE  /\ Single(notes, c, k) => Single(notes, c, k)'
             /\ Tells(notes, c, k) => Tells(notes, c, k)'
  <2>1. CASE k # l
    BY <2>1 DEF Single, Tells
  <2>2. CASE k = l
    <3>1. Tells(notes, c, k)'
      BY <2>2, <1>4, Nothings DEF Open, Tells
    <3>2. Single(notes, c, k) => \A n \in notes : n[2] # k
      BY <2>2, <1>4, OpenIsUntold
    <3> QED BY <3>1, <3>2 DEF Single
  <2> QED BY <2>1, <2>2
<1>5. ASSUME NEW c \in Contacts PROVE ContactOK(c)'
  <2>1. ContactOK(c)
    BY DEF IInv
  <2> QED BY <1>4, <2>1 DEF ContactOK
<1>6. ASSUME NEW p \in Requests PROVE RequestOK(request[p])'
  <2>1. CASE p = r
    <3>1. request'[p] = Over
      BY <1>1, <2>1
    <3> QED BY <3>1, RecordsOK DEF RequestOK, Shape, Held, Recalls, Unused, Seeks
  <2>2. CASE p # r
    <3>1. request'[p] = request[p] /\ RequestOK(request[p]) /\ request[p] \in Request
      BY <1>1, <2>2 DEF IInv, TypeOK
    <3>2. Held(request[p])'
      BY <2>2, <3>1 DEF RequestOK, Held, Request
    <3>3. Recalls(request[p])'
      <4>1. request[p].contact \in Contacts \cup {None}
        BY <3>1 DEF Request
      <4> QED BY <1>4, <3>1, <4>1 DEF RequestOK, Recalls, Exists
    <3>4. Shape(request[p])' /\ Unused(request[p])'
      BY <3>1 DEF RequestOK, Shape, Unused, Seeks
    <3> QED BY <3>2, <3>3, <3>4 DEF RequestOK
  <2> QED BY <2>1, <2>2
<1>7. PhoneOnce'
  BY DEF IInv, PhoneOnce
<1> QED BY <1>2, <1>3, <1>5, <1>6, <1>7 DEF IInv

-----------------------------------------------------------------------------
\* Extraction, correction and rejection.
LEMMA ExtractKeepsIInv == ASSUME IInv, NEW r \in Requests, Extract(r) PROVE IInv'
<1>1. UNCHANGED <<lead, contact, raced>>
  BY DEF Extract
<1>2. CASE Go(r, Over)
  BY <1>1, <1>2, RecordsOK, RestOK, RequestKeepsIInv
<1>3. ASSUME NEW l \in Leads, Pending(l),
             Go(r, [Idle EXCEPT !.at = "extract", !.lead = l, !.row = lead[l]])
      PROVE  IInv'
  <2> DEFINE q == [Idle EXCEPT !.at = "extract", !.lead = l, !.row = lead[l]]
  <2>1. q \in Request /\ q.at = "extract" /\ q.lead = l /\ q.row = lead[l]
    BY RecordsOK DEF Request, IInv, TypeOK
  <2>2. Go(r, q)
    BY <1>3
  <2> HIDE DEF q
  <2>3. RequestOK(q)
    BY <1>3, <2>1 DEF RequestOK, Shape, Held, Recalls, Unused, Seeks, Pending
  <2> QED BY <1>1, <2>1, <2>2, <2>3, RequestKeepsIInv
<1>4. ASSUME Go(r, [Idle EXCEPT !.at = "extract", !.lead = None, !.row = NoLead]) PROVE IInv'
  <2> DEFINE q == [Idle EXCEPT !.at = "extract", !.lead = None, !.row = NoLead]
  <2>1. q \in Request /\ q.at = "extract" /\ q.lead = None
    BY RecordsOK DEF Request
  <2>2. Go(r, q)
    BY <1>4
  <2> HIDE DEF q
  <2>3. RequestOK(q)
    BY <2>1 DEF RequestOK, Shape, Held, Recalls, Unused, Seeks
  <2> QED BY <1>1, <2>1, <2>2, <2>3, RequestKeepsIInv
<1>5. \/ Go(r, Over)
      \/ \E l \in Leads : Pending(l) /\ Go(r, [Idle EXCEPT !.at = "extract", !.lead = l, !.row = lead[l]])
      \/ Go(r, [Idle EXCEPT !.at = "extract", !.lead = None, !.row = NoLead])
  BY Nothings DEF Extract
<1> QED BY <1>2, <1>3, <1>4, <1>5

\* What nobody else had loaded when it was written.
LEMMA NoOthers ==
  ASSUME NEW r \in Requests, NEW l \in Leads, l \notin Race(r, l)
  PROVE  \A p \in Requests : p # r => request[p].lead # l
BY DEF Race, OthersOn

LEMMA QueueKeepsIInv == ASSUME IInv, NEW r \in Requests, Queue(r) PROVE IInv'
<1>1. /\ At(r, "extract") /\ Go(r, Over) /\ contact' = contact /\ RequestOK(request[r])
  BY DEF Queue, IInv
<1>2. ASSUME NEW phone \in ExtractedPhone, NEW l \in Leads, NEW ref \in BOOLEAN, lead[l].status = "none",
             lead' = [lead EXCEPT ![l] = [ status |-> "pending", ref |-> ref, phone |-> phone,
                                           contact |-> None, text |-> r ]],
             raced' = raced
      PROVE  IInv'
  <2>1. phone \in MaybePhone
    BY DEF ExtractedPhone, MaybePhone, Phones
  <2>2. [ status |-> "pending", ref |-> ref, phone |-> phone, contact |-> None, text |-> r ] \in Lead
    BY <2>1 DEF Lead
  <2>3. lead' \in [Leads -> Lead]
    BY <1>2, <2>2 DEF IInv, TypeOK
  <2>4. lead'[l].contact = None /\ lead'[l].status = "pending"
    BY <1>2 DEF IInv, TypeOK
  <2>5. \A k \in Leads : k # l => lead'[k] = lead[k]
    BY <1>2 DEF IInv, TypeOK
  <2>6. ASSUME l \notin raced, NEW p \in Requests, request[p].lead = l PROVE FALSE
    <3>1. RequestOK(request[p]) /\ request[p] \in Request /\ request[p].lead # None
      BY <2>6, Nothings DEF IInv, TypeOK
    <3>2. request[p].at \in {"extract", "edit", "match", "approve", "reject"}
      BY <3>1 DEF RequestOK, Shape, Request
    <3> QED BY <1>2, <2>6, <3>1, <3>2, HeldIsOpen
  <2>7. Open(l) /\ Open(l)'
    BY <1>2, <2>4 DEF Open
  <2>8. raced' \subseteq Leads \cup Phones
    BY <1>2 DEF IInv, TypeOK
  <2> QED BY <1>1, <1>2, <2>3, <2>4, <2>5, <2>6, <2>7, <2>8, LeadKeepsIInv
<1>3. ASSUME NEW phone \in ExtractedPhone, NEW l \in Leads, l = request[r].lead,
             lead' = [lead EXCEPT ![l].text = r,
               ![l].phone = IF phone = None THEN @ ELSE Changed(phone, request[r].row.phone, @)],
             raced' = raced \cup Race(r, l)
      PROVE  IInv'
  <2> DEFINE ph == IF phone = None THEN lead[l].phone ELSE Changed(phone, request[r].row.phone, lead[l].phone)
  <2>1. ph \in MaybePhone /\ lead[l] \in Lead
    BY DEF ExtractedPhone, MaybePhone, Phones, Changed, IInv, TypeOK, Lead
  <2>2. lead' = [lead EXCEPT ![l] = [lead[l] EXCEPT !.text = r, !.phone = ph]]
    BY <1>3 DEF IInv, TypeOK
  <2> HIDE DEF ph
  <2>3. [lead[l] EXCEPT !.text = r, !.phone = ph] \in Lead
    BY <2>1 DEF Lead
  <2>4. lead' \in [Leads -> Lead]
    BY <2>2, <2>3 DEF IInv, TypeOK
  <2>5. lead'[l].contact = lead[l].contact /\ lead'[l].status = lead[l].status
    BY <2>1, <2>2 DEF IInv, TypeOK, Lead
  <2>6. \A k \in Leads : k # l => lead'[k] = lead[k]
    BY <2>2 DEF IInv, TypeOK
  <2>7. l \notin raced' => /\ Open(l) /\ Open(l)'
                           /\ \A p \in Requests : p # r => request[p].lead # l
    BY <1>1, <1>3, <2>5, Nothings, HeldIsOpen, NoOthers DEF Open, At
  <2>8. raced \subseteq raced' /\ raced' \subseteq Leads \cup Phones
    BY <1>3 DEF IInv, TypeOK, Race
  <2> QED BY <1>1, <2>4, <2>5, <2>6, <2>7, <2>8, LeadKeepsIInv
<1> QED BY <1>2, <1>3 DEF Queue

LEMMA UpdateKeepsIInv == ASSUME IInv, NEW r \in Requests, update_lead(r) PROVE IInv'
<1> DEFINE l == request[r].lead
<1>1. /\ At(r, "edit") /\ Go(r, Over) /\ contact' = contact /\ RequestOK(request[r])
      /\ raced' = raced \cup Race(r, l)
  BY DEF update_lead, IInv
<1>2. PICK phone \in MaybePhone :
        lead' = [lead EXCEPT ![l].text = r, ![l].phone = Changed(phone, request[r].row.phone, @)]
  BY DEF update_lead
<1>3. l \in Leads
  BY <1>1 DEF IInv, TypeOK, Request, RequestOK, Shape, At
<1> DEFINE ph == Changed(phone, request[r].row.phone, lead[l].phone)
<1>4. ph \in MaybePhone /\ lead[l] \in Lead
  BY <1>3 DEF Changed, IInv, TypeOK, Lead
<1>5. lead' = [lead EXCEPT ![l] = [lead[l] EXCEPT !.text = r, !.phone = ph]]
  BY <1>2, <1>3 DEF IInv, TypeOK
<1>6. l # None
  BY <1>3, Nothings
<1> HIDE DEF ph
<1>7. [lead[l] EXCEPT !.text = r, !.phone = ph] \in Lead
  BY <1>4 DEF Lead
<1>8. lead' \in [Leads -> Lead]
  BY <1>5, <1>7 DEF IInv, TypeOK
<1>9. lead'[l].contact = lead[l].contact /\ lead'[l].status = lead[l].status
  BY <1>3, <1>4, <1>5 DEF IInv, TypeOK, Lead
<1>10. \A k \in Leads : k # l => lead'[k] = lead[k]
  BY <1>5 DEF IInv, TypeOK
<1>11. l \notin raced' => /\ Open(l) /\ \A p \in Requests : p # r => request[p].lead # l
  BY <1>1, <1>3, <1>6, HeldIsOpen, NoOthers DEF At
<1>12. raced \subseteq raced' /\ raced' \subseteq Leads \cup Phones
  BY <1>1, <1>3 DEF IInv, TypeOK, Race
<1> HIDE DEF l
<1>13. Open(l) => lead'[l].status # "approved" \/ lead'[l].contact = None
  BY <1>9 DEF Open
<1> QED BY <1>1, <1>3, <1>8, <1>9, <1>10, <1>11, <1>12, <1>13, LeadKeepsIInv DEF Open

LEMMA RejectKeepsIInv == ASSUME IInv, NEW r \in Requests, reject(r) PROVE IInv'
<1> DEFINE l == request[r].lead
           st == Changed("rejected", request[r].row.status, lead[l].status)
<1>1. /\ At(r, "reject") /\ Go(r, Over) /\ contact' = contact /\ RequestOK(request[r])
      /\ raced' = raced \cup Race(r, l)
      /\ lead' = [lead EXCEPT ![l].status = Changed("rejected", request[r].row.status, @)]
  BY DEF reject, IInv
<1>2. l \in Leads
  BY <1>1 DEF IInv, TypeOK, Request, RequestOK, Shape, At
<1>3. l # None /\ lead[l] \in Lead
  BY <1>2, Nothings DEF IInv, TypeOK
<1>4. lead' = [lead EXCEPT ![l] = [lead[l] EXCEPT !.status = st]]
  BY <1>1, <1>2 DEF IInv, TypeOK
<1>5. l \notin raced => st # "approved"
  BY <1>1, <1>3 DEF RequestOK, Held, Rejectable, Changed, At
<1>6. st \in {"none", "pending", "approved", "rejected"}
  BY <1>3 DEF Changed, Lead
<1> HIDE DEF st
<1>7. [lead[l] EXCEPT !.status = st] \in Lead
  BY <1>3, <1>6 DEF Lead
<1>8. lead' \in [Leads -> Lead]
  BY <1>4, <1>7 DEF IInv, TypeOK
<1>9. lead'[l].contact = lead[l].contact /\ lead'[l].status = st
  BY <1>2, <1>3, <1>4 DEF IInv, TypeOK, Lead
<1>10. \A k \in Leads : k # l => lead'[k] = lead[k]
  BY <1>4 DEF IInv, TypeOK
<1>11. l \notin raced' => /\ Open(l) /\ \A p \in Requests : p # r => request[p].lead # l
  BY <1>1, <1>2, <1>3, HeldIsOpen, NoOthers DEF At
<1>12. raced \subseteq raced' /\ raced' \subseteq Leads \cup Phones
  BY <1>1, <1>2 DEF IInv, TypeOK, Race
<1> HIDE DEF l
<1>13. l \notin raced' => lead'[l].status # "approved"
  BY <1>5, <1>9, <1>12
<1> QED BY <1>1, <1>2, <1>8, <1>9, <1>10, <1>11, <1>12, <1>13, LeadKeepsIInv DEF Open

\* A request loads a lead.
LEMMA LoadKeepsIInv == ASSUME IInv, NEW r \in Requests, NEW l \in Leads, Load(r, l) PROVE IInv'
<1>1. UNCHANGED <<lead, contact, raced>>
  BY DEF Load
<1>2. ASSUME NEW at \in {"edit", "match", "reject"},
             at = "edit" => Editable(lead[l]), at = "match" => Approvable(lead[l]),
             at = "reject" => Rejectable(lead[l]),
             Go(r, [Idle EXCEPT !.at = at, !.lead = l, !.row = lead[l]])
      PROVE  IInv'
  <2> DEFINE q == [Idle EXCEPT !.at = at, !.lead = l, !.row = lead[l]]
  <2>1. q \in Request /\ q.at = at /\ q.lead = l /\ q.row = lead[l]
    BY RecordsOK DEF Request, IInv, TypeOK
  <2>2. Go(r, q)
    BY <1>2
  <2> HIDE DEF q
  <2>3. RequestOK(q)
    BY <1>2, <2>1, Nothings DEF RequestOK, Shape, Held, Recalls, Unused, Seeks, Editable
  <2> QED BY <1>1, <2>1, <2>2, <2>3, RequestKeepsIInv
<1>3. \/ Editable(lead[l]) /\ Go(r, [Idle EXCEPT !.at = "edit", !.lead = l, !.row = lead[l]])
      \/ Approvable(lead[l]) /\ Go(r, [Idle EXCEPT !.at = "match", !.lead = l, !.row = lead[l]])
      \/ Rejectable(lead[l]) /\ Go(r, [Idle EXCEPT !.at = "reject", !.lead = l, !.row = lead[l]])
  BY DEF Load
<1>4. CASE Editable(lead[l]) /\ Go(r, [Idle EXCEPT !.at = "edit", !.lead = l, !.row = lead[l]])
  BY <1>2, <1>4
<1>5. CASE Approvable(lead[l]) /\ Go(r, [Idle EXCEPT !.at = "match", !.lead = l, !.row = lead[l]])
  BY <1>2, <1>5
<1>6. CASE Rejectable(lead[l]) /\ Go(r, [Idle EXCEPT !.at = "reject", !.lead = l, !.row = lead[l]])
  BY <1>2, <1>6
<1> QED BY <1>3, <1>4, <1>5, <1>6

\* An approval finds its contact, and loads its notes.
LEMMA MatchKeepsIInv == ASSUME IInv, NEW r \in Requests, Match(r) PROVE IInv'
<1> DEFINE found == Matches(request[r].row.phone)
           Next1(c) == [request[r] EXCEPT !.at = "approve", !.contact = c,
                                          !.notes = IF c = None THEN {} ELSE contact[c].notes]
<1>1. UNCHANGED <<lead, contact, raced>> /\ At(r, "match")
  BY DEF Match
<1>2. \/ Go(r, Over)
      \/ \E c \in IF found = {} THEN {None} ELSE found : Go(r, Next1(c))
  BY DEF Match
<1>3. CASE Go(r, Over)
  BY <1>1, <1>3, RecordsOK, RestOK, RequestKeepsIInv
<1>4. request[r] \in Request /\ RequestOK(request[r])
  BY DEF IInv, TypeOK
<1>5. ASSUME NEW c \in Contacts \cup {None}
      PROVE  /\ Next1(c) \in Request /\ Next1(c).at = "approve" /\ Next1(c).contact = c
             /\ Next1(c).lead = request[r].lead /\ Next1(c).row = request[r].row
             /\ Next1(c).notes = IF c = None THEN {} ELSE contact[c].notes
  <2> DEFINE notes == IF c = None THEN {} ELSE contact[c].notes
  <2>1. notes \in SUBSET (Requests \X Leads \X (Requests \cup {None}))
    BY DEF IInv, TypeOK, Contact
  <2>2. Next1(c) = [request[r] EXCEPT !.at = "approve", !.contact = c, !.notes = notes]
    OBVIOUS
  <2> HIDE DEF notes
  <2>3. [request[r] EXCEPT !.at = "approve", !.contact = c, !.notes = notes] \in Request
    BY <1>4, <2>1 DEF Request
  <2>4. /\ Next1(c).at = "approve" /\ Next1(c).contact = c /\ Next1(c).notes = notes
        /\ Next1(c).lead = request[r].lead /\ Next1(c).row = request[r].row
    BY <1>4, <2>2 DEF Request
  <2> QED BY <2>2, <2>3, <2>4 DEF notes
<1> HIDE DEF Next1
<1>6. ASSUME NEW c \in Contacts \cup {None} PROVE Shape(Next1(c)) /\ Held(Next1(c))
  <2>1. Shape(request[r]) /\ Held(request[r]) /\ request[r].at = "match"
    BY <1>1, <1>4 DEF RequestOK, At
  <2>2. Shape(Next1(c))
    BY <1>5, <2>1 DEF Shape
  <2>3. Held(Next1(c))
    BY <1>5, <2>1 DEF Held
  <2> QED BY <2>2, <2>3
<1>7. CASE found = {} /\ Go(r, Next1(None))
  <2>1. Recalls(Next1(None))
    BY <1>5 DEF Recalls
  <2>2. ASSUME NEW p \in Phones, p = request[r].row.phone, NEW c \in Contacts, contact[c].phone = p
        PROVE  contact[c].by \notin Requests
    <3>1. p # None
      BY Nothings
    <3>2. ~ Exists(c)
      BY <1>7, <2>2, <3>1 DEF Matches
    <3> QED BY <3>2, Nothings DEF Exists
  <2>3. Unused(Next1(None))
    BY <1>5, <2>2 DEF Unused, Seeks
  <2> QED BY <1>1, <1>5, <1>6, <1>7, <2>1, <2>3, RequestKeepsIInv DEF RequestOK
<1>8. ASSUME NEW c \in found, Go(r, Next1(c)) PROVE IInv'
  <2>1. c \in Contacts /\ c # None
    BY Nothings DEF Matches
  <2>2. Recalls(Next1(c))
    BY <1>5, <2>1 DEF Recalls, IInv, ContactOK
  <2>3. Unused(Next1(c))
    BY <1>5, <2>1 DEF Unused, Seeks
  <2> QED BY <1>1, <1>5, <1>6, <1>8, <2>1, <2>2, <2>3, RequestKeepsIInv DEF RequestOK
<1> HIDE DEF found
<1> QED BY <1>2, <1>3, <1>7, <1>8

-----------------------------------------------------------------------------
\* The notes of a contact stay, or are replaced by hand, or are those of a contact that
\* is new: neither the book nor what a request recalls of it tells anything else.
LEMMA BookStays ==
  ASSUME IInv, lead' = lead, raced \subseteq raced',
         \A c \in Contacts :
           \/ /\ contact'[c].notes = contact[c].notes /\ contact'[c].kept = contact[c].kept
              /\ Exists(c) <=> Exists(c)'
           \/ /\ contact'[c].notes = {} /\ ~ contact'[c].kept /\ Exists(c) /\ Exists(c)'
           \/ /\ c \in Free /\ contact'[c].notes = {} /\ Exists(c)'
  PROVE  /\ (\A l \in Leads : lead[l].contact # None => Exists(lead[l].contact))'
         /\ \A c \in Contacts : ContactOK(c)'
         /\ \A r \in Requests : request'[r] = request[r] => Recalls(request[r])'
<1>1. (\A l \in Leads : lead[l].contact # None => Exists(lead[l].contact))'
  BY DEF IInv, TypeOK, Lead
<1>2. ASSUME NEW notes, NEW c \in Contacts, NEW l \in Leads
      PROVE  Single(notes, c, l)' <=> Single(notes, c, l)
  BY DEF Single
<1>3. ASSUME NEW notes, NEW c \in Contacts, NEW l \in Leads
      PROVE  Tells(notes, c, l)' <=> Tells(notes, c, l)
  BY DEF Tells
<1>4. ASSUME NEW c \in Contacts PROVE ContactOK(c)'
  <2>1. ContactOK(c)
    BY DEF IInv
  <2>2. CASE contact'[c].notes = contact[c].notes /\ contact'[c].kept = contact[c].kept
    BY <1>2, <1>3, <2>1, <2>2 DEF ContactOK
  <2>3. CASE contact'[c].notes = {} /\ ~ contact'[c].kept
    BY <2>3 DEF ContactOK, Single
  <2>4. CASE c \in Free /\ contact'[c].notes = {}
    <3>1. \A l \in Leads : lead[l].contact # c
      BY <2>4, Nothings DEF IInv, Free
    <3> QED BY <2>4, <3>1 DEF ContactOK, Single, Tells
  <2> QED BY <2>2, <2>3, <2>4
<1>5. ASSUME NEW r \in Requests, request'[r] = request[r]
      PROVE  Recalls(request[r])'
  <2> SUFFICES ASSUME NEW q, q = request[r], q.at = "approve", q.contact # None, NEW l \in Leads \ raced'
               PROVE  /\ Exists(q.contact)' => Single(q.notes, q.contact, l)'
                      /\ contact'[q.contact].kept => Tells(q.notes, q.contact, l)'
    BY <1>5 DEF Recalls
  <2>1. q.contact \in Contacts /\ q.contact \notin Free
    BY DEF Free, IInv, TypeOK, Request
  <2>2. /\ Exists(q.contact) => Single(q.notes, q.contact, l)
        /\ contact[q.contact].kept => Tells(q.notes, q.contact, l)
    BY DEF IInv, RequestOK, Recalls
  <2> QED BY <1>2, <1>3, <2>1, <2>2
<1> QED BY <1>1, <1>4, <1>5

\* A contact that a hand makes or changes, which the requests know nothing of.
LEMMA HandKeepsIInv ==
  ASSUME IInv, NEW c \in Contacts, UNCHANGED <<lead, request, raced>>,
         contact' \in [Contacts -> Contact],
         \A d \in Contacts : d # c => contact'[d] = contact[d],
         \/ contact'[c].by = "hand"
         \/ contact'[c].by = contact[c].by /\ contact'[c].phone = contact[c].phone,
         \/ /\ contact'[c].notes = contact[c].notes /\ contact'[c].kept = contact[c].kept
            /\ Exists(c) <=> Exists(c)'
         \/ /\ contact'[c].notes = {} /\ ~ contact'[c].kept /\ Exists(c) /\ Exists(c)'
         \/ /\ c \in Free /\ contact'[c].notes = {} /\ Exists(c)'
  PROVE  IInv'
<1>1. TypeOK'
  BY DEF IInv, TypeOK
<1>2. /\ (\A l \in Leads : lead[l].contact # None => Exists(lead[l].contact))'
      /\ \A d \in Contacts : ContactOK(d)'
      /\ \A r \in Requests : Recalls(request[r])'
  <2>1. \A d \in Contacts :
           \/ /\ contact'[d].notes = contact[d].notes /\ contact'[d].kept = contact[d].kept
              /\ Exists(d) <=> Exists(d)'
           \/ /\ contact'[d].notes = {} /\ ~ contact'[d].kept /\ Exists(d) /\ Exists(d)'
           \/ /\ d \in Free /\ contact'[d].notes = {} /\ Exists(d)'
    BY DEF Exists
  <2> QED BY <2>1, BookStays
<1>3. ASSUME NEW d \in Contacts, contact'[d].by \in Requests
      PROVE  contact'[d].by = contact[d].by /\ contact'[d].phone = contact[d].phone
  BY <1>3, Nothings
<1>4. ASSUME NEW r \in Requests PROVE RequestOK(request[r])'
  <2>1. RequestOK(request[r])
    BY DEF IInv
  <2>2. Unused(request[r])'
    BY <1>3, <2>1 DEF RequestOK, Unused, Seeks
  <2>3. Shape(request[r])' /\ Held(request[r])'
    BY <2>1 DEF RequestOK, Shape, Held
  <2> QED BY <1>2, <2>2, <2>3 DEF RequestOK
<1>5. PhoneOnce'
  BY <1>3 DEF IInv, PhoneOnce
<1> QED BY <1>1, <1>2, <1>4, <1>5 DEF IInv

LEMMA CreateKeepsIInv == ASSUME IInv, NEW c \in Contacts, create_contact(c) PROVE IInv'
<1>1. PICK phone \in MaybePhone :
        contact' = [contact EXCEPT ![c] = [phone |-> phone, notes |-> {}, by |-> "hand", kept |-> TRUE]]
  BY DEF create_contact
<1>2. [phone |-> phone, notes |-> {}, by |-> "hand", kept |-> TRUE] \in Contact
  BY DEF Contact
<1>3. contact' \in [Contacts -> Contact] /\ \A d \in Contacts : d # c => contact'[d] = contact[d]
  BY <1>1, <1>2 DEF IInv, TypeOK
<1>4. contact'[c].by = "hand" /\ contact'[c].notes = {}
  BY <1>1 DEF IInv, TypeOK
<1>5. c \in Free /\ UNCHANGED <<lead, request, raced>>
  BY DEF create_contact
<1> QED BY <1>3, <1>4, <1>5, HandKeepsIInv DEF Exists

LEMMA ChangeKeepsIInv == ASSUME IInv, NEW c \in Contacts, update_contact(c) PROVE IInv'
<1>1. contact[c] \in Contact /\ Exists(c) /\ UNCHANGED <<lead, request, raced>>
  BY DEF IInv, TypeOK, update_contact
<1>2. ASSUME NEW phone \in MaybePhone, contact' = [contact EXCEPT ![c].phone = phone, ![c].by = "hand"]
      PROVE  IInv'
  <2>1. contact' = [contact EXCEPT ![c] = [contact[c] EXCEPT !.phone = phone, !.by = "hand"]]
    BY <1>2 DEF IInv, TypeOK
  <2>2. [contact[c] EXCEPT !.phone = phone, !.by = "hand"] \in Contact
    BY <1>1 DEF Contact
  <2>3. contact' \in [Contacts -> Contact] /\ \A d \in Contacts : d # c => contact'[d] = contact[d]
    BY <2>1, <2>2 DEF IInv, TypeOK
  <2>4. contact'[c].by = "hand" /\ contact'[c].notes = contact[c].notes /\ contact'[c].kept = contact[c].kept
    BY <1>1, <2>1 DEF IInv, TypeOK, Contact
  <2> QED BY <1>1, <2>3, <2>4, HandKeepsIInv DEF Exists
<1>3. ASSUME contact' = [contact EXCEPT ![c].notes = {}, ![c].kept = FALSE] PROVE IInv'
  <2>1. contact' = [contact EXCEPT ![c] = [contact[c] EXCEPT !.notes = {}, !.kept = FALSE]]
    BY <1>3 DEF IInv, TypeOK
  <2>2. [contact[c] EXCEPT !.notes = {}, !.kept = FALSE] \in Contact
    BY <1>1 DEF Contact
  <2>3. contact' \in [Contacts -> Contact] /\ \A d \in Contacts : d # c => contact'[d] = contact[d]
    BY <2>1, <2>2 DEF IInv, TypeOK
  <2>4. /\ contact'[c].by = contact[c].by /\ contact'[c].phone = contact[c].phone
        /\ contact'[c].notes = {} /\ ~ contact'[c].kept
    BY <1>1, <2>1 DEF IInv, TypeOK, Contact
  <2> QED BY <1>1, <2>3, <2>4, HandKeepsIInv DEF Exists
<1> QED BY <1>2, <1>3 DEF update_contact

\* A contact that is gone is the contact of no lead, and nothing is written to it.
LEMMA DeleteKeepsIInv == ASSUME IInv, NEW c \in Contacts, delete_contact(c) PROVE IInv'
<1>1. /\ Exists(c) /\ contact' = [contact EXCEPT ![c] = NoContact]
      /\ lead' = [l \in Leads |-> IF lead[l].contact = c THEN [lead[l] EXCEPT !.contact = None] ELSE lead[l]]
      /\ UNCHANGED <<request, raced>>
  BY DEF delete_contact
<1>2. \A l \in Leads : lead[l] \in Lead /\ [lead[l] EXCEPT !.contact = None] \in Lead
  BY DEF IInv, TypeOK, Lead
<1>3. \A l \in Leads :
        /\ lead'[l].status = lead[l].status /\ lead'[l].text = lead[l].text
        /\ lead'[l].contact = IF lead[l].contact = c THEN None ELSE lead[l].contact
  BY <1>1, <1>2 DEF Lead
<1>4. /\ contact'[c] = NoContact /\ \A d \in Contacts : d # c => contact'[d] = contact[d]
      /\ ~ Exists(c)' /\ contact'[c].notes = {}
  BY <1>1 DEF IInv, TypeOK, Exists, NoContact
<1>5. TypeOK'
  <2>1. lead' \in [Leads -> Lead]
    BY <1>1, <1>2
  <2>2. contact' \in [Contacts -> Contact]
    BY <1>1, RecordsOK DEF IInv, TypeOK
  <2> QED BY <1>1, <2>1, <2>2 DEF IInv, TypeOK
<1>6. (\A l \in Leads : lead[l].contact # None => Exists(lead[l].contact))'
  BY <1>1, <1>2, <1>3, <1>4 DEF IInv, Exists, Lead
<1>7. ASSUME NEW d \in Contacts, d # c, NEW notes, NEW l \in Leads
      PROVE  /\ Single(notes, d, l) => Single(notes, d, l)'
             /\ Tells(notes, d, l) => Tells(notes, d, l)'
  BY <1>3, <1>7, Nothings DEF Single, Tells
<1>8. ASSUME NEW notes, NEW l \in Leads PROVE Tells(notes, c, l)'
  BY <1>3, Nothings DEF Tells
<1>9. ASSUME NEW d \in Contacts PROVE ContactOK(d)'
  <2>1. ContactOK(d)
    BY DEF IInv
  <2>2. CASE d = c
    BY <1>4, <1>8, <2>2 DEF ContactOK, Single
  <2>3. CASE d # c
    BY <1>1, <1>4, <1>7, <2>1, <2>3 DEF ContactOK
  <2> QED BY <2>2, <2>3
<1>10. ASSUME NEW r \in Requests PROVE RequestOK(request[r])'
  <2>1. RequestOK(request[r]) /\ request[r] \in Request /\ request'[r] = request[r]
    BY <1>1 DEF IInv, TypeOK
  <2>2. Held(request[r])'
    BY <1>1, <1>3, <2>1 DEF RequestOK, Held, Request
  <2>3. Recalls(request[r])'
    <3> SUFFICES ASSUME NEW q, q = request[r], q.at = "approve", q.contact # None, NEW l \in Leads \ raced
                 PROVE  /\ Exists(q.contact)' => Single(q.notes, q.contact, l)'
                        /\ contact'[q.contact].kept => Tells(q.notes, q.contact, l)'
      BY <1>1, <2>1 DEF Recalls
    <3>1. q.contact \in Contacts
      BY <2>1 DEF Request
    <3>2. /\ Exists(q.contact) => Single(q.notes, q.contact, l)
          /\ contact[q.contact].kept => Tells(q.notes, q.contact, l)
      BY <2>1 DEF RequestOK, Recalls
    <3>3. CASE q.contact = c
      BY <1>4, <1>8, <3>3
    <3>4. CASE q.contact # c
      BY <1>4, <1>7, <3>1, <3>2, <3>4 DEF Exists
    <3> QED BY <3>3, <3>4
  <2>4. Shape(request[r])'
    BY <2>1 DEF RequestOK, Shape
  <2>5. Unused(request[r])'
    <3>1. contact'[c].by \notin Requests
      BY <1>4, Nothings DEF NoContact
    <3> QED BY <1>1, <1>4, <2>1, <3>1 DEF RequestOK, Unused, Seeks
  <2> QED BY <2>2, <2>3, <2>4, <2>5 DEF RequestOK
<1>11. PhoneOnce'
  <2>1. contact'[c].by \notin Requests
    BY <1>4, Nothings DEF NoContact
  <2> QED BY <1>1, <1>4, <2>1 DEF IInv, PhoneOnce
<1> QED BY <1>5, <1>6, <1>9, <1>10, <1>11 DEF IInv

-----------------------------------------------------------------------------
\* What an import is to create: phones of the file, in their normal form, each once and
\* none of them in the book.
LEMMA ToCreateOK ==
  ASSUME NEW file \in Files, NEW known, NEW phones, phones = ToCreate(file, known)
  PROVE  /\ phones \in PhonesOfRows
         /\ \A i \in DOMAIN phones : phones[i] # None =>
              /\ phones[i] \notin known /\ Normal(phones[i]) = phones[i]
              /\ \A j \in DOMAIN phones : phones[i] = phones[j] => i = j
<1>1. PICK n \in 1 .. MaxFile : file \in [1 .. n -> MaybePhone]
  BY DEF Files
<1> DEFINE normal == [i \in DOMAIN file |-> Normal(file[i])]
           New(i) == normal[i] = None
                     \/ (normal[i] \notin known /\ \A j \in 1 .. i - 1 : normal[j] # normal[i])
           rows == { j \in DOMAIN file : New(j) }
<1>2. phones = [ i \in rows |-> normal[i] ]
  BY DEF ToCreate
<1>3. DOMAIN file = 1 .. n /\ 1 .. n \subseteq 1 .. MaxFile
  BY <1>1, LeadsAssumption
<1>4. ASSUME NEW p \in MaybePhone
      PROVE  Normal(p) \in MaybePhone /\ (Normal(p) # None => Normal(Normal(p)) = Normal(p))
  <2>1. CASE p = None
    BY <2>1 DEF Normal
  <2>2. CASE p # None
    <3>1. PICK m \in Numbers, k \in {"plain", "dashed"} : p = <<m, k>>
      BY <1>4, <2>2 DEF MaybePhone, Phones
    <3>2. Normal(p) = <<m, "plain">>
      BY <2>2, <3>1 DEF Normal
    <3>3. <<m, "plain">> \in Phones
      BY DEF Phones
    <3>4. Normal(<<m, "plain">>) = <<m, "plain">>
      BY <3>3, Nothings DEF Normal
    <3> QED BY <3>2, <3>3, <3>4 DEF MaybePhone
  <2> QED BY <2>1, <2>2
<1>5. \A i \in 1 .. n : normal[i] \in MaybePhone /\ (normal[i] # None => Normal(normal[i]) = normal[i])
  BY <1>1, <1>3, <1>4
<1>6. rows \in SUBSET (1 .. MaxFile) /\ rows \subseteq 1 .. n
  BY <1>3
<1>7. \A i \in rows : New(i)
  OBVIOUS
<1> HIDE DEF normal, rows
<1>8. DOMAIN phones = rows /\ \A i \in rows : phones[i] = normal[i]
  BY <1>2
<1>9. phones \in [rows -> MaybePhone]
  BY <1>2, <1>5, <1>6
<1>10. ASSUME NEW i \in rows, NEW j \in rows, normal[i] = normal[j], normal[i] # None PROVE i = j
  <2>1. i \in Nat /\ j \in Nat /\ i >= 1 /\ j >= 1
    BY <1>6, LeadsAssumption
  <2>2. ~ (i < j) /\ ~ (j < i)
    BY <1>7, <1>10, <2>1
  <2> QED BY <2>1, <2>2
<1>11. phones \in PhonesOfRows
  BY <1>6, <1>9 DEF PhonesOfRows
<1>12. ASSUME NEW i \in rows, normal[i] # None PROVE normal[i] \notin known
  BY <1>7, <1>12
<1>13. ASSUME NEW i \in rows, normal[i] # None
       PROVE  /\ phones[i] \notin known /\ Normal(phones[i]) = phones[i]
              /\ \A j \in rows : phones[i] = phones[j] => i = j
  BY <1>5, <1>6, <1>8, <1>10, <1>12, <1>13
<1> QED BY <1>8, <1>11, <1>13

\* An import reads the book.
LEMMA ReadKeepsIInv == ASSUME IInv, NEW r \in Requests, ReadPhones(r) PROVE IInv'
<1> PICK known : known = { Normal(contact[c].phone) : c \in { d \in Contacts : Exists(d) } }
  OBVIOUS
<1>1. UNCHANGED <<lead, contact, raced>>
  BY DEF ReadPhones
<1>2. PICK file \in Files :
        Go(r, IF DOMAIN ToCreate(file, known) = {} THEN Over
              ELSE [Idle EXCEPT !.at = "import", !.phones = ToCreate(file, known)])
  BY DEF ReadPhones
<1>3. CASE Go(r, Over)
  BY <1>1, <1>3, RecordsOK, RestOK, RequestKeepsIInv
<1>4. PICK phones : phones = ToCreate(file, known)
  OBVIOUS
<1>5. /\ phones \in PhonesOfRows
      /\ \A i \in DOMAIN phones : phones[i] # None =>
           /\ phones[i] \notin known /\ Normal(phones[i]) = phones[i]
           /\ \A j \in DOMAIN phones : phones[i] = phones[j] => i = j
  <2>1. phones \in PhonesOfRows
    BY <1>4, ToCreateOK
  <2>2. ASSUME NEW i \in DOMAIN phones, phones[i] # None
        PROVE  phones[i] \notin known /\ Normal(phones[i]) = phones[i]
    BY <1>4, <2>2, ToCreateOK
  <2>3. ASSUME NEW i \in DOMAIN phones, phones[i] # None, NEW j \in DOMAIN phones, phones[i] = phones[j]
        PROVE  i = j
    BY <1>4, <2>3, ToCreateOK
  <2> QED BY <2>1, <2>2, <2>3
<1>6. ASSUME Go(r, [Idle EXCEPT !.at = "import", !.phones = phones]) PROVE IInv'
  <2> DEFINE q == [Idle EXCEPT !.at = "import", !.phones = phones]
  <2>1. q \in Request /\ q.at = "import" /\ q.phones = phones /\ q.lead = None
    BY <1>5, RecordsOK DEF Request
  <2>2. Go(r, q)
    BY <1>6
  <2> HIDE DEF q
  <2>3. ASSUME NEW i \in DOMAIN phones, phones[i] # None, NEW c \in Contacts, contact[c].phone = phones[i]
        PROVE  contact[c].by \notin Requests
    <3>1. phones[i] \notin known /\ Normal(phones[i]) = phones[i]
      BY <1>5, <2>3
    <3>2. ~ Exists(c)
      BY <2>3, <3>1
    <3> QED BY <3>2, Nothings DEF Exists
  <2>4. Unused(q)
    <3>1. \A p \in Phones : Seeks(q, p) => \E i \in DOMAIN phones : phones[i] = p /\ phones[i] # None
      BY <2>1, Nothings DEF Seeks
    <3>2. \A i, j \in DOMAIN phones : phones[i] = phones[j] /\ phones[i] # None => i = j
      BY <1>5
    <3> QED BY <2>1, <2>3, <3>1, <3>2 DEF Unused
  <2>5. Shape(q) /\ Held(q) /\ Recalls(q)
    BY <2>1 DEF Shape, Held, Recalls
  <2> QED BY <1>1, <2>1, <2>2, <2>4, <2>5, RequestKeepsIInv DEF RequestOK
<1> QED BY <1>2, <1>3, <1>4, <1>6

\* The imported contacts have phones that nobody else in the book has, unless another
\* request was looking for one of them.
LEMMA ImportKeepsIInv == ASSUME IInv, NEW r \in Requests, Import(r) PROVE IInv'
<1>0. PICK phones : phones = request[r].phones
  OBVIOUS
<1>1. PICK ids \in [DOMAIN phones -> Free] :
          /\ \A i, j \in DOMAIN ids : ids[i] = ids[j] => i = j
          /\ contact' = [ c \in Contacts |->
               IF \E i \in DOMAIN ids : ids[i] = c
               THEN [ phone |-> phones[CHOOSE i \in DOMAIN ids : ids[i] = c], notes |-> {},
                      by |-> r, kept |-> TRUE ]
               ELSE contact[c] ]
          /\ raced' = raced \cup RacePhones(r, { phones[i] : i \in DOMAIN phones })
  <2>1. MakeContacts(r, phones)
    BY <1>0 DEF Import
  <2> QED BY <2>1 DEF MakeContacts
<1>2. /\ At(r, "import") /\ Go(r, Over) /\ lead' = lead /\ RequestOK(request[r]) /\ request[r] \in Request
  BY DEF Import, IInv, TypeOK
<1>3. /\ ids \in [DOMAIN phones -> Free] /\ \A i, j \in DOMAIN phones : ids[i] = ids[j] => i = j
      /\ \A i \in DOMAIN phones : ids[i] \in Free /\ ids[i] \in Contacts
  BY <1>1 DEF Free
<1>4. \A i \in DOMAIN phones : phones[i] \in MaybePhone
  BY <1>0, <1>2 DEF Request, PhonesOfRows
<1>5. ASSUME NEW i \in DOMAIN phones
      PROVE  /\ contact'[ids[i]] \in Contact
             /\ contact'[ids[i]].phone = phones[i] /\ contact'[ids[i]].by = r /\ contact'[ids[i]].notes = {}
  <2> DEFINE new == [phone |-> phones[i], notes |-> {}, by |-> r, kept |-> TRUE]
  <2>1. (CHOOSE j \in DOMAIN ids : ids[j] = ids[i]) = i
    BY <1>3
  <2>2. contact'[ids[i]] = new
    BY <1>1, <1>3, <2>1
  <2>3. new \in Contact
    BY <1>4 DEF Contact
  <2>4. new.phone = phones[i] /\ new.by = r /\ new.notes = {}
    OBVIOUS
  <2> HIDE DEF new
  <2> QED BY <2>2, <2>3, <2>4
<1>6. \A c \in Contacts : \/ \E i \in DOMAIN phones : c = ids[i]
                          \/ contact'[c] = contact[c]
  BY <1>1, <1>3
<1>7. /\ DOMAIN contact' = Contacts /\ contact' = [c \in Contacts |-> contact'[c]]
  BY <1>1
<1>8. raced \subseteq raced' /\ raced' \subseteq Leads \cup Phones
  <2>1. { phones[i] : i \in DOMAIN phones } \ {None} \subseteq Phones
    BY <1>4 DEF MaybePhone
  <2> QED BY <1>1, <2>1 DEF RacePhones, IInv, TypeOK
<1>9. \A p \in Requests : request'[p] = IF p = r THEN Over ELSE request[p]
  BY <1>2 DEF Go, IInv, TypeOK
<1>10. ASSUME NEW p \in Requests, p # r, NEW i \in DOMAIN phones, Seeks(request[p], phones[i]), phones[i] # None
       PROVE  phones[i] \in raced'
  BY <1>0, <1>1, <1>10 DEF RacePhones, Looking, Seeks, At
<1>11. ASSUME NEW i \in DOMAIN phones, phones[i] # None, phones[i] \notin raced
       PROVE  /\ \A c \in Contacts : contact[c].phone = phones[i] => contact[c].by \notin Requests
              /\ \A j \in DOMAIN phones : phones[i] = phones[j] => i = j
  BY <1>0, <1>2, <1>4, <1>11 DEF RequestOK, Unused, Seeks, At, MaybePhone
<1>12. TypeOK'
  <2>1. \A c \in Contacts : contact'[c] \in Contact
    <3> TAKE c \in Contacts
    <3>1. CASE contact'[c] = contact[c]
      BY <3>1 DEF IInv, TypeOK
    <3>2. ASSUME NEW i \in DOMAIN phones, c = ids[i] PROVE contact'[c] \in Contact
      BY <1>5, <3>2
    <3> QED BY <1>6, <3>1, <3>2
  <2>2. contact' \in [Contacts -> Contact]
    BY <1>7, <2>1
  <2>3. request' \in [Requests -> Request]
    BY <1>2, RecordsOK DEF Go, IInv, TypeOK
  <2> QED BY <1>2, <1>8, <2>2, <2>3 DEF IInv, TypeOK
<1>13. /\ (\A l \in Leads : lead[l].contact # None => Exists(lead[l].contact))'
       /\ \A c \in Contacts : ContactOK(c)'
       /\ \A p \in Requests : request'[p] = request[p] => Recalls(request[p])'
  <2>1. \A c \in Contacts :
           \/ /\ contact'[c].notes = contact[c].notes /\ contact'[c].kept = contact[c].kept
              /\ Exists(c) <=> Exists(c)'
           \/ /\ contact'[c].notes = {} /\ ~ contact'[c].kept /\ Exists(c) /\ Exists(c)'
           \/ /\ c \in Free /\ contact'[c].notes = {} /\ Exists(c)'
    BY <1>3, <1>5, <1>6, Nothings DEF Exists
  <2> QED BY <1>2, <1>8, <2>1, BookStays
<1>14. ASSUME NEW p \in Requests PROVE RequestOK(request[p])'
  <2>1. CASE p = r
    <3>1. request'[p] = Over
      BY <1>9, <2>1
    <3> QED BY <3>1, RecordsOK DEF RequestOK, Shape, Held, Recalls, Unused, Seeks
  <2>2. CASE p # r
    <3>1. request'[p] = request[p] /\ RequestOK(request[p])
      BY <1>9, <2>2 DEF IInv
    <3>2. Shape(request[p])' /\ Held(request[p])'
      BY <1>2, <1>8, <3>1 DEF RequestOK, Shape, Held
    <3>3. ASSUME NEW ph \in Phones \ raced', Seeks(request[p], ph), NEW c \in Contacts, contact'[c].phone = ph
          PROVE  contact'[c].by \notin Requests
      <4>1. CASE contact'[c] = contact[c]
        BY <1>8, <3>1, <3>3, <4>1 DEF RequestOK, Unused
      <4>2. ASSUME NEW i \in DOMAIN phones, c = ids[i] PROVE FALSE
        <5>1. phones[i] = ph /\ ph # None
          BY <1>5, <3>3, <4>2, Nothings
        <5> QED BY <1>10, <2>2, <3>3, <5>1
      <4> QED BY <1>6, <4>1, <4>2
    <3>4. Unused(request[p])'
      BY <3>1, <3>3 DEF RequestOK, Unused, Seeks
    <3> QED BY <1>13, <3>1, <3>2, <3>4 DEF RequestOK
  <2> QED BY <2>1, <2>2
<1>15. PhoneOnce'
  <2> SUFFICES ASSUME NEW c \in Contacts, NEW d \in Contacts, c # d, contact'[c].phone = contact'[d].phone,
                      contact'[c].phone # None, {contact'[c].by, contact'[d].by} \subseteq Requests,
                      contact'[c].phone \notin raced'
               PROVE  FALSE
    BY DEF PhoneOnce
  <2>1. ASSUME NEW a \in Contacts, NEW b \in Contacts, a # b, contact'[a].phone = contact'[b].phone,
               contact'[a].phone # None, contact'[a].phone \notin raced', contact'[b].by \in Requests,
               NEW i \in DOMAIN phones, a = ids[i]
        PROVE  FALSE
    <3>1. contact'[b].phone = phones[i] /\ phones[i] # None /\ phones[i] \notin raced
      BY <1>5, <1>8, <2>1
    <3>2. CASE contact'[b] = contact[b]
      BY <1>11, <2>1, <3>1, <3>2
    <3>3. ASSUME NEW j \in DOMAIN phones, b = ids[j] PROVE FALSE
      <4>1. phones[j] = phones[i]
        BY <1>5, <3>1, <3>3
      <4> QED BY <1>11, <2>1, <3>1, <3>3, <4>1
    <3> QED BY <1>6, <3>2, <3>3
  <2>2. CASE contact'[c] = contact[c] /\ contact'[d] = contact[d]
    BY <1>8, <2>2 DEF IInv, PhoneOnce
  <2> QED BY <1>6, <2>1, <2>2
<1> QED BY <1>12, <1>13, <1>14, <1>15 DEF IInv

-----------------------------------------------------------------------------
\* An approval writes lead l, which nobody else has loaded or which is raced, into
\* contact c: the notes it recalls of c, if it found c, and its own.
LEMMA ApprovalKeepsIInv ==
  ASSUME IInv, NEW r \in Requests, At(r, "approve"), Go(r, Over),
         NEW q, q = request[r], NEW l, l = q.lead, NEW c \in Contacts,
         NEW new, new = Written(r, c), NEW st, st = Changed("approved", q.row.status, lead[l].status),
         q.contact = None => c \in Free,
         q.contact # None => c = q.contact /\ Exists(c),
         contact' = [contact EXCEPT ![c] = new],
         lead' = [lead EXCEPT ![l].contact = c, ![l].status = st],
         raced' = raced \cup Race(r, l) \cup RaceNotes(r, q.contact)
                    \cup (IF q.contact = None THEN RacePhones(r, {q.row.phone}) ELSE {})
  PROVE  IInv'
<1> DEFINE note == <<r, l, q.row.text>>
           base == IF q.contact = None THEN {} ELSE q.notes
<1>1. /\ q \in Request /\ RequestOK(q) /\ q.at = "approve" /\ c # None /\ contact[c] \in Contact
      /\ q.contact \in Contacts \cup {None} /\ q.row \in Lead
  BY Nothings DEF At, IInv, TypeOK, Request
<1>2. l \in Leads /\ l # None /\ lead[l] \in Lead
  BY <1>1, Nothings DEF RequestOK, Shape, Request, IInv, TypeOK
<1>3. /\ new.notes = base \cup {note} /\ new \in Contact
      /\ q.contact = None => new.phone = q.row.phone /\ new.by = r /\ new.kept = TRUE
      /\ q.contact # None => new.phone = contact[c].phone /\ new.by = contact[c].by
                             /\ new.kept = contact[c].kept
  <2>1. note \in Requests \X Leads \X (Requests \cup {None}) /\ Note(r) = note
    BY <1>1, <1>2 DEF Lead, Note
  <2>2. q.row.phone \in MaybePhone
    BY <1>1 DEF Lead
  <2> HIDE DEF note
  <2>3. CASE q.contact = None
    <3>1. new = [phone |-> q.row.phone, notes |-> {note}, by |-> r, kept |-> TRUE]
      BY <2>1, <2>3 DEF Written
    <3> QED BY <2>1, <2>2, <2>3, <3>1 DEF Contact
  <2>4. CASE q.contact # None
    <3>1. q.notes \cup {note} \in SUBSET (Requests \X Leads \X (Requests \cup {None}))
      BY <1>1, <2>1 DEF Request
    <3>2. new = [contact[c] EXCEPT !.notes = q.notes \cup {note}]
      BY <2>1, <2>4 DEF Written
    <3>3. new \in Contact
      BY <1>1, <3>1, <3>2 DEF Contact
    <3>4. /\ new.notes = q.notes \cup {note} /\ new.phone = contact[c].phone /\ new.by = contact[c].by
          /\ new.kept = contact[c].kept
      BY <1>1, <3>2 DEF Contact
    <3> QED BY <2>4, <3>3, <3>4
  <2> QED BY <2>3, <2>4
<1>4. st \in {"none", "pending", "approved", "rejected"}
  BY <1>2 DEF Changed, Lead
<1>5. /\ lead' \in [Leads -> Lead]
      /\ lead'[l].contact = c /\ lead'[l].status = st /\ lead'[l].text = lead[l].text
      /\ \A k \in Leads : k # l => lead'[k] = lead[k]
  <2>1. lead' = [lead EXCEPT ![l] = [lead[l] EXCEPT !.contact = c, !.status = st]]
    BY <1>2 DEF IInv, TypeOK
  <2>2. [lead[l] EXCEPT !.contact = c, !.status = st] \in Lead
    BY <1>2, <1>4 DEF Lead
  <2>3. lead' \in [Leads -> Lead]
    BY <2>1, <2>2 DEF IInv, TypeOK
  <2>4. lead'[l].contact = c /\ lead'[l].status = st /\ lead'[l].text = lead[l].text
    BY <1>2, <2>1 DEF IInv, TypeOK, Lead
  <2> QED BY <2>1, <2>3, <2>4 DEF IInv, TypeOK
<1>6. /\ contact' \in [Contacts -> Contact] /\ contact'[c] = new
      /\ \A d \in Contacts : d # c => contact'[d] = contact[d]
  BY <1>3 DEF IInv, TypeOK
<1>7. Exists(c)' /\ \A d \in Contacts : d # c => (Exists(d)' <=> Exists(d))
  BY <1>3, <1>6, Nothings DEF Exists
<1>8. \A p \in Requests : request'[p] = IF p = r THEN Over ELSE request[p]
  BY DEF Go, IInv, TypeOK
<1>9. raced \subseteq raced' /\ raced' \subseteq Leads \cup Phones
  <2>1. Race(r, l) \subseteq Leads
    BY <1>2 DEF Race
  <2>2. ASSUME NEW p \in Requests, At(p, "approve") PROVE request[p].lead \in Leads
    BY <2>2 DEF At, IInv, TypeOK, RequestOK, Shape, Request
  <2>3. RaceNotes(r, q.contact) \subseteq Leads
    BY <1>1, <2>2 DEF RaceNotes, At
  <2>4. RacePhones(r, {q.row.phone}) \subseteq Phones
    BY <1>1 DEF RacePhones, Lead, MaybePhone
  <2> QED BY <2>1, <2>3, <2>4 DEF IInv, TypeOK
<1>10. l \notin raced' => /\ Open(l) /\ st = "approved" /\ q.row.text = lead[l].text
                          /\ \A p \in Requests : p # r => request[p].lead # l
  <2>1. l \notin raced' => l \notin raced /\ l \notin Race(r, l)
    OBVIOUS
  <2>2. l \notin raced => st = "approved" /\ q.row.text = lead[l].text
    BY <1>1, <1>2 DEF RequestOK, Held, Approvable, Changed
  <2>3. l \notin raced => Open(l)
    BY <1>1, <1>2, HeldIsOpen
  <2> QED BY <1>2, <2>1, <2>2, <2>3, NoOthers
<1> HIDE DEF note, base
<1>11. TypeOK'
  BY <1>5, <1>6, <1>9, RecordsOK DEF Go, IInv, TypeOK
<1>12. (\A k \in Leads : lead[k].contact # None => Exists(lead[k].contact))'
  <2> SUFFICES ASSUME NEW k \in Leads PROVE (lead[k].contact # None => Exists(lead[k].contact))'
    OBVIOUS
  <2>1. CASE k = l
    BY <1>5, <1>7, <2>1
  <2>2. CASE k # l
    <3>1. lead'[k] = lead[k] /\ lead[k].contact \in Contacts \cup {None}
      BY <1>5, <2>2 DEF IInv, TypeOK, Lead
    <3>2. lead[k].contact # None => Exists(lead[k].contact)
      BY DEF IInv
    <3>3. \A d \in Contacts : Exists(d) => Exists(d)'
      BY <1>7
    <3> QED BY <3>1, <3>2, <3>3 DEF Exists
  <2> QED BY <2>1, <2>2
\* What stays of other leads and of other contacts.
<1>13. ASSUME NEW notes, NEW d \in Contacts, NEW k \in Leads, k # l
       PROVE  /\ Single(notes, d, k)' <=> Single(notes, d, k)
              /\ Tells(notes, d, k)' <=> Tells(notes, d, k)
  BY <1>5, <1>13 DEF Single, Tells
<1>14. ASSUME NEW notes, NEW d \in Contacts, d # c
       PROVE  /\ l \notin raced' /\ Single(notes, d, l) => Single(notes, d, l)'
              /\ Tells(notes, d, l)'
  <2>1. Tells(notes, d, l)'
    BY <1>5, <1>14 DEF Tells
  <2>2. ASSUME l \notin raced', Single(notes, d, l) PROVE Single(notes, d, l)'
    <3>1. \A n \in notes : n[2] # l
      BY <1>2, <1>10, <2>2, OpenIsUntold
    <3> QED BY <3>1 DEF Single
  <2> QED BY <2>1, <2>2
<1>15. ASSUME NEW k \in Leads \ raced' PROVE Single(base, c, k)
  BY <1>1, <1>9, <1>15 DEF base, Single, RequestOK, Recalls
<1>16. ASSUME NEW k \in Leads \ raced' PROVE Single(new.notes, c, k)' /\ (new.kept => Tells(new.notes, c, k)')
  <2>1. CASE k = l
    <3>1. \A n \in base : n[2] # l
      BY <1>2, <1>10, <1>15, <2>1, OpenIsUntold
    <3>2. \A n \in new.notes : n[2] = l => n = note
      BY <1>3, <3>1
    <3>3. note \in new.notes /\ note[2] = l /\ note[3] = lead'[l].text
      BY <1>3, <1>5, <1>10, <2>1 DEF note
    <3>4. lead'[l].status = "approved" /\ lead'[l].contact = c
      BY <1>5, <1>10, <2>1
    <3> QED BY <2>1, <3>2, <3>3, <3>4 DEF Single, Tells
  <2>2. CASE k # l
    <3>1. \A n \in new.notes : n[2] = k => n \in base
      BY <1>3, <2>2 DEF note
    <3>2. Single(new.notes, c, k)
      BY <1>15, <3>1 DEF Single
    <3>3. ASSUME new.kept PROVE Tells(new.notes, c, k)
      <4>1. CASE q.contact = None
        <5>1. lead[k].contact # c
          BY <1>1, <4>1 DEF Free, IInv
        <5> QED BY <5>1 DEF Tells
      <4>2. CASE q.contact # None
        <5>1. Tells(q.notes, c, k)
          BY <1>1, <1>3, <1>9, <3>3, <4>2 DEF RequestOK, Recalls
        <5> QED BY <1>3, <4>2, <5>1 DEF Tells, base
      <4> QED BY <4>1, <4>2
    <3> QED BY <1>13, <2>2, <3>2, <3>3
  <2> QED BY <2>1, <2>2
<1>17. ASSUME NEW d \in Contacts PROVE ContactOK(d)'
  <2>1. CASE d = c
    BY <1>6, <1>16, <2>1 DEF ContactOK
  <2>2. CASE d # c
    <3>1. contact'[d] = contact[d] /\ ContactOK(d)
      BY <1>6, <2>2 DEF IInv
    <3>2. ASSUME NEW k \in Leads \ raced'
          PROVE  Single(contact[d].notes, d, k)' /\ (contact'[d].kept => Tells(contact[d].notes, d, k)')
      <4>1. Single(contact[d].notes, d, k) /\ (contact[d].kept => Tells(contact[d].notes, d, k))
        BY <1>9, <3>1 DEF ContactOK
      <4>2. PICK notes : notes = contact[d].notes
        OBVIOUS
      <4>3. Single(notes, d, k)' /\ (contact[d].kept => Tells(notes, d, k)')
        <5>1. Single(notes, d, k) /\ (contact[d].kept => Tells(notes, d, k))
          BY <4>1, <4>2
        <5>2. CASE k = l
          BY <1>14, <2>2, <5>1, <5>2
        <5>3. CASE k # l
          <6>1. Single(notes, d, k)'
            BY <1>13, <5>1, <5>3
          <6>2. Tells(notes, d, k) => Tells(notes, d, k)'
            BY <1>13, <5>3
          <6> QED BY <5>1, <6>1, <6>2
        <5> QED BY <5>2, <5>3
      <4>4. notes = contact'[d].notes
        BY <3>1, <4>2
      <4> QED BY <3>1, <4>3, <4>4 DEF Single, Tells
    <3> QED BY <3>1, <3>2 DEF ContactOK
  <2> QED BY <2>1, <2>2
<1>18. ASSUME NEW p \in Requests, p # r PROVE Recalls(request[p])'
  <2> SUFFICES ASSUME NEW w, w = request[p], w.at = "approve", w.contact # None, NEW k \in Leads \ raced'
               PROVE  /\ Exists(w.contact)' => Single(w.notes, w.contact, k)'
                      /\ contact'[w.contact].kept => Tells(w.notes, w.contact, k)'
    BY <1>8, <1>18 DEF Recalls
  <2>1. w.contact \in Contacts
    BY DEF IInv, TypeOK, Request
  <2>2. /\ Exists(w.contact) => Single(w.notes, w.contact, k)
        /\ contact[w.contact].kept => Tells(w.notes, w.contact, k)
    BY <1>9 DEF IInv, RequestOK, Recalls
  <2>3. CASE w.contact # c
    <3>1. contact'[w.contact] = contact[w.contact] /\ (Exists(w.contact)' <=> Exists(w.contact))
      BY <1>6, <1>7, <2>1, <2>3
    <3>2. CASE k = l
      BY <1>14, <2>1, <2>2, <2>3, <3>1, <3>2
    <3>3. CASE k # l
      BY <1>13, <2>1, <2>2, <3>1, <3>3
    <3> QED BY <3>2, <3>3
  <2>4. CASE w.contact = c
    <3>1. q.contact # None
      BY <2>4 DEF Free
    <3>2. l \in raced'
      <4>1. l \in RaceNotes(r, q.contact)
        BY <1>18, <2>4, <3>1 DEF RaceNotes, At
      <4> QED BY <4>1
    <3> QED BY <1>3, <1>6, <1>13, <2>1, <2>2, <2>4, <3>1, <3>2
  <2> QED BY <2>3, <2>4
<1>19. ASSUME NEW p \in Requests, p # r PROVE Unused(request[p])'
  <2>1. Unused(request[p]) /\ request'[p] = request[p]
    BY <1>8, <1>19 DEF IInv, RequestOK
  <2>2. ASSUME NEW ph \in Phones \ raced', Seeks(request[p], ph), NEW d \in Contacts, contact'[d].phone = ph
        PROVE  contact'[d].by \notin Requests
    <3>1. CASE contact'[d].phone = contact[d].phone /\ contact'[d].by = contact[d].by
      BY <1>9, <2>1, <2>2, <3>1 DEF Unused
    <3>2. CASE d = c /\ q.contact = None
      <4>1. ph = q.row.phone /\ ph # None
        BY <1>3, <1>6, <2>2, <3>2, Nothings
      <4>2. Looking(p, ph)
        BY <2>2 DEF Seeks, Looking, At
      <4>3. ph \in RacePhones(r, {q.row.phone})
        BY <1>19, <4>1, <4>2 DEF RacePhones
      <4> QED BY <2>2, <3>2, <4>3
    <3> QED BY <1>3, <1>6, <3>1, <3>2
  <2>3. PICK w : w = request[p]
    OBVIOUS
  <2>4. Unused(w)'
    BY <2>1, <2>2, <2>3 DEF Unused, Seeks
  <2> QED BY <2>1, <2>3, <2>4
<1>20. ASSUME NEW p \in Requests PROVE RequestOK(request[p])'
  <2>1. CASE p = r
    <3>1. request'[p] = Over
      BY <1>8, <2>1
    <3> QED BY <3>1, RecordsOK DEF RequestOK, Shape, Held, Recalls, Unused, Seeks
  <2>2. CASE p # r
    <3>1. request'[p] = request[p] /\ RequestOK(request[p]) /\ request[p] \in Request
      BY <1>8, <2>2 DEF IInv, TypeOK
    <3>2. Held(request[p])'
      <4> SUFFICES ASSUME NEW w, w = request[p], w.lead # None, w.lead \notin raced'
                   PROVE  Held(w)'
        BY <3>1 DEF Held
      <4>1. w.lead \in Leads /\ w.lead # l
        BY <1>10, <2>2, <3>1 DEF Request
      <4>2. Held(w) /\ w.lead \notin raced /\ lead'[w.lead] = lead[w.lead]
        BY <1>5, <1>9, <3>1, <4>1 DEF RequestOK
      <4> QED BY <4>2 DEF Held
    <3>3. Shape(request[p])'
      BY <3>1 DEF RequestOK, Shape
    <3> QED BY <1>18, <1>19, <2>2, <3>2, <3>3 DEF RequestOK
  <2> QED BY <2>1, <2>2
<1>21. PhoneOnce'
  <2>1. ASSUME NEW d \in Contacts, d # c, contact'[c].phone = contact[d].phone, contact'[c].phone # None,
               contact'[c].by \in Requests, contact[d].by \in Requests, contact'[c].phone \notin raced'
        PROVE  FALSE
    <3>1. CASE q.contact # None
      <4>1. contact'[c].phone = contact[c].phone /\ contact'[c].by = contact[c].by
        BY <1>3, <1>6, <3>1
      <4> QED BY <1>9, <2>1, <4>1 DEF IInv, PhoneOnce
    <3>2. CASE q.contact = None
      <4>1. contact'[c].phone = q.row.phone /\ q.row.phone \in Phones \ raced
        BY <1>1, <1>3, <1>6, <1>9, <2>1, <3>2 DEF Lead, MaybePhone
      <4> QED BY <1>1, <2>1, <3>2, <4>1 DEF RequestOK, Unused, Seeks
    <3> QED BY <3>1, <3>2
  <2>2. ASSUME NEW d \in Contacts, NEW e \in Contacts, d # e, d # c, e # c,
               contact'[d].phone = contact'[e].phone, contact'[d].phone # None,
               {contact'[d].by, contact'[e].by} \subseteq Requests
        PROVE  contact'[d].phone \in raced'
    BY <1>6, <1>9, <2>2 DEF IInv, PhoneOnce
  <2> QED BY <1>6, <2>1, <2>2 DEF PhoneOnce
<1> QED BY <1>11, <1>12, <1>17, <1>20, <1>21 DEF IInv

LEMMA ApproveKeepsIInv == ASSUME IInv, NEW r \in Requests, approve(r) PROVE IInv'
<1>1. At(r, "approve") /\ Go(r, Over)
  BY DEF approve
<1>2. CASE UNCHANGED <<lead, contact, raced>>
  BY <1>1, <1>2, RecordsOK, RestOK, RequestKeepsIInv
<1>3. PICK q : q = request[r]
  OBVIOUS
<1>4. ASSUME NEW c \in IF q.contact = None THEN Free ELSE {q.contact}, q.contact = None \/ Exists(c),
             contact' = [contact EXCEPT ![c] = Written(r, c)],
             lead' = [lead EXCEPT ![q.lead].contact = c,
                                  ![q.lead].status = Changed("approved", q.row.status, @)],
             raced' = raced \cup Race(r, q.lead) \cup RaceNotes(r, q.contact)
                        \cup (IF q.contact = None THEN RacePhones(r, {q.row.phone}) ELSE {})
      PROVE  IInv'
  <2>1. q \in Request /\ q.lead \in Leads
    BY <1>1, <1>3 DEF At, IInv, TypeOK, RequestOK, Shape, Request
  <2>2. c \in Contacts
    BY <2>1 DEF Free, Request
  <2>3. PICK st : st = Changed("approved", q.row.status, lead[q.lead].status)
    OBVIOUS
  <2>4. lead' = [lead EXCEPT ![q.lead].contact = c, ![q.lead].status = st]
    BY <1>4, <2>1, <2>3 DEF IInv, TypeOK, Lead
  <2>5. q.contact = None => c \in Free
    BY <1>4
  <2>6. q.contact # None => c = q.contact /\ Exists(c)
    BY <1>4
  <2> QED BY <1>1, <1>3, <1>4, <2>2, <2>3, <2>4, <2>5, <2>6, ApprovalKeepsIInv
<1>5. \/ UNCHANGED <<lead, contact, raced>>
      \/ \E c \in IF q.contact = None THEN Free ELSE {q.contact} :
           /\ q.contact = None \/ Exists(c)
           /\ contact' = [contact EXCEPT ![c] = Written(r, c)]
           /\ lead' = [lead EXCEPT ![q.lead].contact = c,
                                   ![q.lead].status = Changed("approved", q.row.status, @)]
           /\ raced' = raced \cup Race(r, q.lead) \cup RaceNotes(r, q.contact)
                         \cup (IF q.contact = None THEN RacePhones(r, {q.row.phone}) ELSE {})
  BY <1>3 DEF approve
<1> QED BY <1>2, <1>4, <1>5

-----------------------------------------------------------------------------
\* The first state.
LEMMA InitIInv == Init => IInv
<1> SUFFICES ASSUME Init PROVE IInv
  OBVIOUS
<1>1. PICK waiting \in SUBSET Leads, phone \in [Leads -> ExtractedPhone] :
        lead = [l \in Leads |-> IF l \in waiting
                                THEN [NoLead EXCEPT !.status = "pending", !.phone = phone[l]] ELSE NoLead]
  BY DEF Init
<1>2. /\ contact = [c \in Contacts |-> NoContact] /\ request = [r \in Requests |-> Idle] /\ raced = {}
  BY DEF Init
<1>3. \A l \in Leads : lead[l] \in Lead /\ lead[l].contact = None
  <2> TAKE l \in Leads
  <2>1. phone[l] \in MaybePhone
    BY <1>1 DEF ExtractedPhone, MaybePhone, Phones
  <2>2. /\ [NoLead EXCEPT !.status = "pending", !.phone = phone[l]] \in Lead
        /\ [NoLead EXCEPT !.status = "pending", !.phone = phone[l]].contact = None
        /\ NoLead.contact = None
    BY <2>1, RecordsOK DEF Lead, NoLead
  <2> QED BY <1>1, <2>2, RecordsOK
<1>4. TypeOK
  BY <1>1, <1>2, <1>3, RecordsOK DEF TypeOK
<1>5. \A c \in Contacts : contact[c] = NoContact /\ contact[c].notes = {} /\ contact[c].by = "none"
  BY <1>2 DEF NoContact
<1>6. ASSUME NEW c \in Contacts PROVE ContactOK(c)
  BY <1>3, <1>5, Nothings DEF ContactOK, Single, Tells
<1>7. ASSUME NEW r \in Requests PROVE RequestOK(request[r])
  BY <1>2, RestOK
<1>8. PhoneOnce
  BY <1>5, Nothings DEF PhoneOnce
<1> QED BY <1>3, <1>4, <1>6, <1>7, <1>8 DEF IInv

\* Every step keeps the invariant.
LEMMA NextIInv == IInv /\ [Next]_vars => IInv'
<1> SUFFICES ASSUME IInv, [Next]_vars PROVE IInv'
  OBVIOUS
<1>1. CASE UNCHANGED vars
  BY <1>1 DEF vars, IInv, TypeOK, ContactOK, RequestOK, Shape, Held, Recalls, Unused, Seeks, Single, Tells,
              Exists, PhoneOnce
<1>2. ASSUME NEW r \in Requests,
             \/ Extract(r) \/ Queue(r) \/ update_lead(r) \/ reject(r)
             \/ Match(r) \/ approve(r) \/ ReadPhones(r) \/ Import(r)
             \/ \E l \in Leads : Load(r, l)
      PROVE  IInv'
  BY <1>2, ExtractKeepsIInv, QueueKeepsIInv, UpdateKeepsIInv, RejectKeepsIInv, MatchKeepsIInv,
     ApproveKeepsIInv, ReadKeepsIInv, ImportKeepsIInv, LoadKeepsIInv
<1>3. ASSUME NEW c \in Contacts, create_contact(c) \/ update_contact(c) \/ delete_contact(c) PROVE IInv'
  BY <1>3, CreateKeepsIInv, ChangeKeepsIInv, DeleteKeepsIInv
<1> QED BY <1>1, <1>2, <1>3 DEF Next

\* The invariant of the specification.
LEMMA SpecIInv == Spec => []IInv
BY InitIInv, NextIInv, PTL DEF Spec

-----------------------------------------------------------------------------
\* Leads, contacts and requests keep their types.
THEOREM LeadsTypeCorrect == Spec => []TypeOK
<1>1. IInv => TypeOK
  BY DEF IInv
<1> QED BY <1>1, SpecIInv, PTL

\* However often a lead is reviewed and its contact deleted, its extraction is in
\* the book once, and not at all unless it is approved, but where two requests overlapped.
THEOREM LeadsAreReviewedOnce == Spec => []ReviewedOnce
<1>1. IInv => ReviewedOnce
  <2> SUFFICES ASSUME IInv, NEW l \in Leads \ raced
               PROVE  Cardinality(Noted(l)) <= 1 /\ (lead[l].status # "approved" => Noted(l) = {})
    BY DEF ReviewedOnce
  <2>1. ASSUME NEW n \in Noted(l)
        PROVE  lead[l].status = "approved" /\ n \in contact[lead[l].contact].notes /\ n[2] = l
               /\ lead[l].contact \in Contacts
    <3>1. PICK c \in Contacts : n \in contact[c].notes /\ n[2] = l
      BY DEF Noted
    <3>2. Single(contact[c].notes, c, l)
      BY DEF IInv, ContactOK
    <3> QED BY <3>1, <3>2 DEF Single
  <2>2. ASSUME NEW n \in Noted(l), NEW m \in Noted(l) PROVE n = m
    <3>1. Single(contact[lead[l].contact].notes, lead[l].contact, l)
      BY <2>1 DEF IInv, ContactOK
    <3> QED BY <2>1, <3>1 DEF Single
  <2>3. CASE Noted(l) = {}
    BY <2>3, FS_EmptySet
  <2>4. ASSUME NEW n \in Noted(l) PROVE Cardinality(Noted(l)) <= 1
    <3>1. Noted(l) = {n}
      BY <2>2
    <3>2. Cardinality({n}) = 1
      BY FS_Singleton
    <3> QED BY <3>1, <3>2
  <2> QED BY <2>1, <2>3, <2>4
<1> QED BY <1>1, SpecIInv, PTL

\* The contact of an approved lead tells of its last extraction.
THEOREM ContactsAgree == Spec => []BookAgrees
<1>1. IInv => BookAgrees
  BY DEF IInv, ContactOK, Tells, BookAgrees
<1> QED BY <1>1, SpecIInv, PTL

\* Two contacts of one phone come of a hand, or of two requests that looked at once.
THEOREM PhonesAreOnce == Spec => []PhoneOnce
<1>1. IInv => PhoneOnce
  BY DEF IInv
<1> QED BY <1>1, SpecIInv, PTL

-----------------------------------------------------------------------------
(* Summaries.                                                              *)

\* What row s says: its messages are of its chat and its period, what is not committed
\* is hidden from it, and a digest that was made when its transaction began was made
\* before it.
RowOK(s) ==
  /\ \A m \in s.messages :
       message[m].at = "stored" /\ message[m].chat = s.chat /\ message[m].created <= s.period_end
  /\ \A m \in Messages : message[m].at # "stored" => m \in s.hidden
  /\ s.seen <= digests.count /\ (s.seen = digests.count => s.created >= digests.last)
  /\ s.skipped # 0 => s.seen < s.skipped

\* The transaction of a run: digests made when it began are no later than that.
Begun(q) ==
  q.began # Talk!Never => q.seen <= digests.count /\ (q.seen = digests.count => q.began >= digests.last)

\* What run r, which is q, has read of chat c.
Read1(r, q, c) ==
  /\ \A m \in q.messages :
       /\ message[m].at = "stored" /\ message[m].chat = c
       /\ message[m].created > q.after /\ message[m].created <= q.until
  /\ \A m \in Messages : message[m].at # "stored" => m \in q.hidden
  /\ \A m \in Messages :
       /\ message[m].at = "stored" /\ message[m].chat = c
       /\ message[m].created > q.after /\ message[m].created <= q.until
       => m \in q.messages \cup q.hidden
  /\ q.after # Talk!Never => \E s \in summaries : s.chat = c /\ s.period_end = q.after
  /\ \A s \in summaries :
       s.chat = c /\ s.messages \cap q.messages # {} => {s.by, r} \in overlapped

Reading(r, q) ==
  q.at = "model" =>
    /\ q.began # Talk!Never /\ q.messages # {} /\ q.after < q.until
    /\ \E c \in Chats : q.chat = {c} /\ Read1(r, q, c)

\* A message that a period of its chat has passed is in a row that ends no later, or
\* was hidden from it.
Told ==
  \A m \in Messages, s \in summaries :
    message[m].at = "stored" /\ message[m].chat = s.chat /\ message[m].created <= s.period_end =>
      \E t \in summaries : /\ t.chat = s.chat /\ t.period_end <= s.period_end
                           /\ message[m].created <= t.period_end
                           /\ m \in t.messages \cup t.hidden

TalkInv ==
  /\ Talk!TypeOK
  /\ digests.last <= now
  /\ \A s \in summaries : RowOK(s)
  /\ \A r \in Runs : Begun(run[r]) /\ Reading(r, run[r])
  /\ Told
  /\ Talk!SummarisedOnce

-----------------------------------------------------------------------------
\* The least and the greatest of some times.
LEMMA LeastNatural ==
  ASSUME NEW S \in SUBSET Nat, S # {}
  PROVE  \E x \in S : \A y \in S : x <= y
<1>1. PICK x \in S : \A y \in S : ~ (<<y, x>> \in OpToRel(<, Nat))
  BY NatLessThanWellFounded, WFMin
<1>2. \A y \in S : ~ (y < x)
  BY <1>1 DEF OpToRel
<1>3. QED
  BY <1>2

LEMMA MinOfTimes == ASSUME NEW S \in SUBSET Talk!Time, S # {} PROVE Talk!Min(S) \in S
<1>1. S \in SUBSET Nat
  BY BoundsAssumption DEF Talk!SummariesAssumption, Talk!Time
<1>2. PICK x \in S : \A y \in S : x <= y
  BY <1>1, LeastNatural
<1>3. QED
  BY <1>2 DEF Talk!Min

LEMMA MaxOfTimes ==
  ASSUME NEW S \in SUBSET Talk!Time, S # {}
  PROVE  Talk!Max(S) \in S /\ \A y \in S : Talk!Max(S) >= y
<1> DEFINE T == { MaxTime - n : n \in S }
<1>1. \A n \in S : n \in Nat /\ MaxTime - n \in Nat
  BY BoundsAssumption DEF Talk!SummariesAssumption, Talk!Time
<1>2. T \in SUBSET Nat /\ T # {}
  BY <1>1
<1>3. PICK m \in T : \A n \in T : m <= n
  BY <1>2, LeastNatural
<1>4. PICK x \in S : m = MaxTime - x
  OBVIOUS
<1>5. ASSUME NEW y \in S PROVE x >= y
  <2>1. MaxTime - x <= MaxTime - y
    BY <1>3, <1>4
  <2> QED BY <1>1, <2>1, BoundsAssumption DEF Talk!SummariesAssumption
<1>6. QED
  BY <1>5 DEF Talk!Max

\* The end of the last period, which a row has, or Never.
LEMMA PreviousEnd ==
  ASSUME TalkInv,
         NEW c \in Chats
  PROVE  LET after == Talk!PreviousPeriodEnd(c)
         IN /\ after \in Talk!Time \cup {Talk!Never}
            /\ after # Talk!Never => \E s \in summaries : s.chat = c /\ s.period_end = after
            /\ \A s \in summaries : s.chat = c => s.period_end <= after
<1> DEFINE ends == { s.period_end : s \in { t \in summaries : t.chat = c } }
<1>1. ends \in SUBSET Talk!Time
  BY DEF TalkInv, Talk!TypeOK, Talk!ConversationSummary
<1>2. \A s \in summaries : s.chat = c => s.period_end \in ends
  OBVIOUS
<1>3. CASE ends = {}
  BY <1>2, <1>3 DEF Talk!PreviousPeriodEnd
<1>4. CASE ends # {}
  <2>1. Talk!PreviousPeriodEnd(c) = Talk!Max(ends)
    BY <1>4 DEF Talk!PreviousPeriodEnd
  <2>2. Talk!Max(ends) \in ends /\ \A y \in ends : Talk!Max(ends) >= y
    BY <1>1, <1>4, MaxOfTimes
  <2>3. Talk!Max(ends) \in Talk!Time /\ \A y \in ends : y \in Talk!Time
    BY <1>1, <2>2
  <2>4. \E s \in summaries : s.chat = c /\ s.period_end = Talk!Max(ends)
    BY <2>2
  <2>5. \A s \in summaries : s.chat = c => s.period_end <= Talk!Max(ends)
    BY <1>2, <2>2, <2>3, BoundsAssumption DEF Talk!SummariesAssumption, Talk!Time
  <2> HIDE DEF ends
  <2> QED BY <2>1, <2>3, <2>4, <2>5
<1> QED BY <1>3, <1>4

\* The types of rows and of runs.
LEMMA Typed ==
  ASSUME Talk!TypeOK
  PROVE  /\ now \in Nat /\ digests.count \in Nat /\ digests.last \in Nat /\ digests.count <= MaxDigests
         /\ \A m \in Messages : message[m] \in Talk!Message /\ message[m].created \in Nat
         /\ \A s \in summaries : /\ s.chat \in Chats /\ s.period_end \in Nat /\ s.created \in Nat
                                 /\ s.seen \in Nat /\ s.skipped \in Nat /\ s.by \in Runs
                                 /\ s.messages \subseteq Messages /\ s.hidden \subseteq Messages
         /\ \A r \in Runs : /\ run[r] \in Talk!Run /\ run[r].until \in Nat
                            /\ run[r].after \in Nat \cup {Talk!Never}
                            /\ run[r].began \in Nat \cup {Talk!Never} /\ run[r].seen \in Nat
                            /\ run[r].messages \subseteq Messages /\ run[r].hidden \subseteq Messages
BY BoundsAssumption DEF Talk!SummariesAssumption, Talk!TypeOK, Talk!Time, Talk!Message,
   Talk!ConversationSummary, Talk!Run

\* A run that is done with a thread is not at the model, and has its transaction or none.
LEMMA DoneOK ==
  ASSUME NEW q \in Talk!Run
  PROVE  /\ Talk!Done(q) \in Talk!Run /\ Talk!Done(q).at # "model"
         /\ Talk!Done(q).began \in {q.began, Talk!Never}
         /\ (Talk!Done(q).began # Talk!Never => Talk!Done(q).seen = q.seen)
<1>1. CASE q.todo = {}
  BY <1>1, BoundsAssumption
     DEF Talk!SummariesAssumption, Talk!Done, Talk!Over, Talk!Idle, Talk!Run, Talk!Time, Talk!Never
<1>2. CASE q.todo # {}
  <2> DEFINE d == [ Talk!Idle EXCEPT !.at = "next", !.until = q.until, !.todo = q.todo,
                                     !.began = q.began, !.seen = q.seen ]
  <2>1. Talk!Done(q) = d
    BY <1>2 DEF Talk!Done
  <2>2. d \in Talk!Run /\ d.at = "next" /\ d.began = q.began /\ d.seen = q.seen
    BY BoundsAssumption DEF Talk!SummariesAssumption, Talk!Idle, Talk!Run, Talk!Time, Talk!Never
  <2> HIDE DEF d
  <2> QED BY <2>1, <2>2
<1> QED BY <1>1, <1>2

\* A run before its start and after its end.
LEMMA IdleOK ==
  /\ Talk!Idle \in Talk!Run /\ Talk!Idle.at = "idle" /\ Talk!Idle.began = Talk!Never
         /\ Talk!Over \in Talk!Run /\ Talk!Over.at = "over" /\ Talk!Over.began = Talk!Never
BY BoundsAssumption DEF Talk!SummariesAssumption, Talk!Idle, Talk!Over, Talk!Run, Talk!Time, Talk!Never

-----------------------------------------------------------------------------
\* The first state.
LEMMA InitTalk == Talk!Init => TalkInv
<1> SUFFICES ASSUME Talk!Init PROVE TalkInv
  OBVIOUS
<1>1. Talk!TypeOK
  <2>1. 0 \in Talk!Time /\ 0 \in 0 .. MaxDigests
    BY BoundsAssumption DEF Talk!SummariesAssumption, Talk!Time
  <2>2. (CHOOSE c \in Chats : TRUE) \in Chats
    BY BoundsAssumption DEF Talk!SummariesAssumption
  <2>3. [at |-> "none", chat |-> CHOOSE c \in Chats : TRUE, created |-> 0] \in Talk!Message
    BY <2>1, <2>2 DEF Talk!Message
  <2> QED BY <2>1, <2>3, IdleOK DEF Talk!Init, Talk!TypeOK
<1>2. \A r \in Runs : Begun(run[r]) /\ Reading(r, run[r])
  BY IdleOK DEF Talk!Init, Begun, Reading
<1> QED BY <1>1, <1>2 DEF Talk!Init, TalkInv, Told, Talk!SummarisedOnce

\* A step of a run that writes nothing.
LEMMA RunKeepsTalk ==
  ASSUME TalkInv,
         NEW r \in Runs, NEW q \in Talk!Run, Talk!Go(r, q), Begun(q), Reading(r, q),
         UNCHANGED <<now, message, summaries, digests, overlapped>>, active' = active
  PROVE  TalkInv'
<1>1. \A p \in Runs : run'[p] = IF p = r THEN q ELSE run[p]
  BY DEF Talk!Go, TalkInv, Talk!TypeOK
<1>2. Talk!TypeOK'
  BY DEF Talk!Go, TalkInv, Talk!TypeOK
<1>3. \A p \in Runs : (Begun(run[p]) /\ Reading(p, run[p]))'
  <2> TAKE p \in Runs
  <2>1. CASE p = r
    BY <1>1, <2>1 DEF Begun, Reading, Read1
  <2>2. CASE p # r
    BY <1>1, <2>2 DEF TalkInv, Begun, Reading, Read1
  <2> QED BY <2>1, <2>2
<1>4. (digests.last <= now /\ Told /\ Talk!SummarisedOnce)' /\ \A s \in summaries' : RowOK(s)'
  BY DEF TalkInv, Told, Talk!SummarisedOnce, RowOK
<1> QED BY <1>2, <1>3, <1>4 DEF TalkInv

\* A run that is done with a thread, or ends.
LEMMA DoneKeepsTalk ==
  ASSUME TalkInv,
         NEW r \in Runs, NEW q \in Talk!Run, Begun(q), Talk!Go(r, Talk!Done(q)) \/ Talk!Go(r, Talk!Over),
         UNCHANGED <<now, message, summaries, digests, overlapped>>, active' = active
  PROVE  TalkInv'
<1>1. Begun(Talk!Done(q)) /\ Begun(Talk!Over) /\ Reading(r, Talk!Done(q)) /\ Reading(r, Talk!Over)
  BY DoneOK, IdleOK DEF Begun, Reading
<1> QED BY <1>1, DoneOK, IdleOK, RunKeepsTalk

-----------------------------------------------------------------------------
\* A message that was not stored is hidden from every row and every run, so
\* receiving it and storing it change nothing they say.
LEMMA MessageKeepsTalk ==
  ASSUME TalkInv,
         NEW m \in Messages, message[m].at # "stored",
         message' \in [Messages -> Talk!Message],
         \A n \in Messages : n # m => message'[n] = message[n],
         UNCHANGED <<now, active, summaries, run, digests, overlapped>>
  PROVE  TalkInv'
<1>1. Talk!TypeOK'
  BY DEF TalkInv, Talk!TypeOK
<1>2. ASSUME NEW s \in summaries PROVE RowOK(s)'
  <2>1. RowOK(s) /\ s.messages \subseteq Messages
    BY Typed DEF TalkInv
  <2> QED BY <2>1 DEF RowOK
<1>3. ASSUME NEW r \in Runs PROVE (Begun(run[r]) /\ Reading(r, run[r]))'
  <2>1. Begun(run[r]) /\ Reading(r, run[r]) /\ run[r].messages \subseteq Messages
    BY Typed DEF TalkInv
  <2>2. Begun(run[r])'
    BY <2>1 DEF Begun
  <2>3. ASSUME NEW c \in Chats, Read1(r, run[r], c) PROVE Read1(r, run[r], c)'
    BY <2>1, <2>3 DEF Read1
  <2>4. Reading(r, run[r])'
    BY <2>1, <2>3 DEF Reading
  <2> QED BY <2>2, <2>4
<1>4. Told'
  <2> SUFFICES ASSUME NEW n \in Messages, NEW s \in summaries,
                      message'[n].at = "stored", message'[n].chat = s.chat,
                      message'[n].created <= s.period_end
               PROVE  \E t \in summaries : /\ t.chat = s.chat /\ t.period_end <= s.period_end
                                           /\ message'[n].created <= t.period_end
                                           /\ n \in t.messages \cup t.hidden
    BY DEF Told
  <2>1. CASE n = m
    <3>1. n \in s.hidden /\ s.period_end \in Nat
      BY <2>1, Typed DEF TalkInv, RowOK
    <3> QED BY <3>1
  <2>2. CASE n # m
    BY <2>2 DEF TalkInv, Told
  <2> QED BY <2>1, <2>2
<1>5. (digests.last <= now /\ Talk!SummarisedOnce)'
  BY DEF TalkInv, Talk!SummarisedOnce
<1> QED BY <1>1, <1>2, <1>3, <1>4, <1>5 DEF TalkInv

\* A run begins: its transaction is the latest.
LEMMA StartKeepsTalk ==
  ASSUME TalkInv,
         NEW r \in Runs, NEW threads \in SUBSET Chats,
         Talk!Go(r, Talk!Done([Talk!Idle EXCEPT !.until = now, !.todo = threads, !.began = now,
                                         !.seen = digests.count])),
         UNCHANGED <<now, message, active, summaries, digests, overlapped>>
  PROVE  TalkInv'
<1> DEFINE q == [Talk!Idle EXCEPT !.until = now, !.todo = threads, !.began = now, !.seen = digests.count]
<1>1. q \in Talk!Run /\ q.began = now /\ q.seen = digests.count
  BY BoundsAssumption DEF Talk!SummariesAssumption, TalkInv, Talk!TypeOK, Talk!Idle, Talk!Run, Talk!Time, Talk!Never
<1>2. Begun(q)
  BY <1>1, Typed DEF TalkInv, Begun
<1>3. Talk!Go(r, Talk!Done(q))
  OBVIOUS
<1> HIDE DEF q
<1> QED BY <1>1, <1>2, <1>3, DoneKeepsTalk

\* A run reads a thread: what it finds is after the last period, and no row has it.
LEMMA ReadKeepsTalk ==
  ASSUME TalkInv,
         NEW r \in Runs, Talk!Read(r)
  PROVE  TalkInv'
<1> PICK c \in run[r].todo :
      LET q == [ run[r] EXCEPT !.todo = @ \ {c},
                    !.began = IF @ = Talk!Never THEN now ELSE @,
                    !.seen = IF run[r].began = Talk!Never THEN digests.count ELSE @ ]
          after == Talk!PreviousPeriodEnd(c)
          messages == Talk!Period(c, after, q.until)
      IN Talk!Go(r, IF after >= q.until \/ messages = {} THEN Talk!Done(q)
               ELSE [ q EXCEPT !.at = "model", !.chat = {c}, !.after = after,
                               !.messages = messages, !.hidden = Messages \ Talk!Stored ])
  BY DEF Talk!Read
<1> DEFINE q == [ run[r] EXCEPT !.todo = @ \ {c},
                    !.began = IF @ = Talk!Never THEN now ELSE @,
                    !.seen = IF run[r].began = Talk!Never THEN digests.count ELSE @ ]
           after == Talk!PreviousPeriodEnd(c)
           messages == Talk!Period(c, after, q.until)
           d == [ q EXCEPT !.at = "model", !.chat = {c}, !.after = after,
                           !.messages = messages, !.hidden = Messages \ Talk!Stored ]
<1>1. run[r] \in Talk!Run /\ c \in Chats /\ now \in Talk!Time /\ digests.count \in 0 .. MaxDigests
  BY DEF TalkInv, Talk!TypeOK, Talk!Run
<1>2. q \in Talk!Run /\ q.began # Talk!Never /\ q.until = run[r].until
  <2>1. /\ q.until = run[r].until /\ q.seen = IF run[r].began = Talk!Never THEN digests.count ELSE run[r].seen
        /\ q.began = IF run[r].began = Talk!Never THEN now ELSE run[r].began
        /\ q = [ run[r] EXCEPT !.todo = run[r].todo \ {c}, !.began = q.began, !.seen = q.seen ]
    BY <1>1 DEF Talk!Run
  <2>2. /\ run[r].began \in Talk!Time \cup {Talk!Never} /\ run[r].seen \in 0 .. MaxDigests
        /\ run[r].todo \in SUBSET Chats
    BY <1>1 DEF Talk!Run
  <2>3. q.began \in Talk!Time /\ q.seen \in 0 .. MaxDigests /\ run[r].todo \ {c} \in SUBSET Chats
    BY <1>1, <2>1, <2>2
  <2>4. q \in Talk!Run
    <3> DEFINE b == q.began
               e == q.seen
    <3>1. q = [ run[r] EXCEPT !.todo = run[r].todo \ {c}, !.began = b, !.seen = e ]
      BY <2>1
    <3>2. b \in Talk!Time /\ e \in 0 .. MaxDigests
      BY <2>3
    <3> HIDE DEF b, e, q
    <3> QED BY <1>1, <2>3, <3>1, <3>2 DEF Talk!Run
  <2>5. q.began # Talk!Never
    BY <2>3, BoundsAssumption DEF Talk!SummariesAssumption, Talk!Time, Talk!Never
  <2> QED BY <2>1, <2>4, <2>5
<1>3. Begun(q)
  <2>1. CASE run[r].began = Talk!Never
    <3>1. q.began = now /\ q.seen = digests.count
      BY <1>1, <2>1 DEF Talk!Run
    <3> QED BY <3>1, Typed DEF TalkInv, Begun
  <2>2. CASE run[r].began # Talk!Never
    <3>1. q.began = run[r].began /\ q.seen = run[r].seen
      BY <1>1, <2>2 DEF Talk!Run
    <3> QED BY <3>1, <2>2 DEF TalkInv, Begun
  <2> QED BY <2>1, <2>2
<1>4. Talk!Go(r, IF after >= q.until \/ messages = {} THEN Talk!Done(q) ELSE d)
  OBVIOUS
<1>5. UNCHANGED <<now, message, active, summaries, digests, overlapped>>
  BY DEF Talk!Read
<1>6. CASE after >= q.until \/ messages = {}
  <2>1. Talk!Go(r, Talk!Done(q))
    BY <1>4, <1>6
  <2> HIDE DEF q
  <2> QED BY <1>2, <1>3, <1>5, <2>1, DoneKeepsTalk
<1>7. CASE ~ (after >= q.until \/ messages = {})
  <2>1. /\ after \in Talk!Time \cup {Talk!Never}
        /\ after # Talk!Never => \E s \in summaries : s.chat = c /\ s.period_end = after
        /\ \A s \in summaries : s.chat = c => s.period_end <= after
    BY <1>1, PreviousEnd
  <2>2. q.until \in Nat /\ after \in Int
    BY <1>1, <1>2, <2>1, BoundsAssumption DEF Talk!SummariesAssumption, Talk!Run, Talk!Time, Talk!Never
  <2>3. messages \subseteq Messages
    BY DEF Talk!Period, Talk!Stored
  <2>4. /\ d.at = "model" /\ d.chat = {c} /\ d.after = after /\ d.messages = messages
        /\ d.hidden = Messages \ Talk!Stored /\ d.began = q.began /\ d.seen = q.seen /\ d.until = q.until
        /\ d \in Talk!Run
    <3> HIDE DEF q, messages, after
    <3> QED BY <1>1, <1>2, <2>1, <2>3 DEF Talk!Run
  <2>5. Talk!Go(r, d)
    BY <1>4, <1>7
  <2> HIDE DEF d, q, after
  <2>6. Read1(r, d, c)
    <3>1. \A m \in messages :
            /\ message[m].at = "stored" /\ message[m].chat = c
            /\ message[m].created > after /\ message[m].created <= q.until
      BY DEF Talk!Period, Talk!Stored
    <3>2. \A m \in Messages : message[m].at # "stored" => m \in Messages \ Talk!Stored
      BY DEF Talk!Stored
    <3>3. \A m \in Messages :
            /\ message[m].at = "stored" /\ message[m].chat = c
            /\ message[m].created > after /\ message[m].created <= q.until
            => m \in messages
      BY DEF Talk!Period, Talk!Stored
    <3>4. ASSUME NEW s \in summaries, s.chat = c, NEW m \in s.messages \cap messages PROVE FALSE
      <4>1. message[m].created <= s.period_end /\ s.period_end <= after /\ message[m].created > after
        BY <2>1, <3>1, <3>4 DEF TalkInv, RowOK
      <4>2. message[m].created \in Nat /\ s.period_end \in Nat
        BY <2>3, <3>4, Typed DEF TalkInv
      <4> QED BY <2>2, <4>1, <4>2
    <3> HIDE DEF messages
    <3> QED BY <2>1, <2>4, <3>1, <3>2, <3>3, <3>4 DEF Read1
  <2>7. Reading(r, d)
    BY <1>1, <1>2, <1>7, <2>2, <2>4, <2>6 DEF Reading
  <2>8. Begun(d)
    BY <1>3, <2>4 DEF Begun
  <2> QED BY <1>5, <2>4, <2>5, <2>7, <2>8, RunKeepsTalk
<1> QED BY <1>6, <1>7

-----------------------------------------------------------------------------
\* The row a run writes: of its chat and period, with what it has read; the times of
\* an old row of this end stay.
LEMMA WrittenRow ==
  ASSUME TalkInv,
         NEW r \in Runs, NEW c \in Chats, Talk!At(r, "model"), run[r].chat = {c}
  PROVE  LET row == Talk!Row(r, c)
         IN /\ row \in Talk!ConversationSummary
            /\ row.chat = c /\ row.period_end = run[r].until /\ row.by = r
            /\ row.messages = run[r].messages /\ row.hidden = run[r].hidden
            /\ RowOK(row)
<1> DEFINE q == run[r]
           old == { s \in summaries : s.chat = c /\ s.period_end = q.until }
           start == IF q.after # Talk!Never THEN q.after
                    ELSE Talk!Min({ message[m].created : m \in q.messages })
           new == [ chat |-> c, period_end |-> q.until, messages |-> q.messages, hidden |-> q.hidden,
                    period_start |-> start,
                    created |-> q.began, by |-> r, seen |-> q.seen, shown |-> FALSE, skipped |-> 0 ]
<1>1. /\ q \in Talk!Run /\ q.began # Talk!Never /\ q.messages # {}
      /\ Read1(r, q, c) /\ Begun(q)
  BY Typed DEF TalkInv, Reading, Talk!At
<1>2. start \in Talk!Time
  <2>1. { message[m].created : m \in q.messages } \in SUBSET Talk!Time
    BY <1>1 DEF TalkInv, Talk!TypeOK, Talk!Message, Talk!Run
  <2>2. { message[m].created : m \in q.messages } # {}
    BY <1>1
  <2>3. Talk!Min({ message[m].created : m \in q.messages }) \in Talk!Time
    BY <2>1, <2>2, MinOfTimes
  <2>4. q.after \in Talk!Time \cup {Talk!Never}
    BY <1>1 DEF Talk!Run
  <2> QED BY <2>3, <2>4
<1>3. 0 \in 0 .. MaxDigests
  BY BoundsAssumption DEF Talk!SummariesAssumption
<1> HIDE DEF start
<1>4. new \in Talk!ConversationSummary
  BY <1>1, <1>2, <1>3 DEF Talk!Run, Talk!ConversationSummary
<1>5. q.messages \subseteq Messages
  BY <1>1 DEF Talk!Run
<1>6. \A m \in q.messages :
        message[m].at = "stored" /\ message[m].chat = c /\ message[m].created <= q.until
  BY <1>1 DEF Read1
<1>7. \A m \in Messages : message[m].at # "stored" => m \in q.hidden
  BY <1>1 DEF Read1
<1>8. q.seen <= digests.count /\ (q.seen = digests.count => q.began >= digests.last)
  BY <1>1 DEF Begun
<1>9. CASE old = {}
  <2>1. Talk!Row(r, c) = new
    BY <1>9 DEF Talk!Row, start
  <2>2. RowOK(new)
    BY <1>6, <1>7, <1>8 DEF RowOK
  <2> HIDE DEF q
  <2>3. /\ new.chat = c /\ new.period_end = q.until /\ new.by = r
        /\ new.messages = q.messages /\ new.hidden = q.hidden
    OBVIOUS
  <2> HIDE DEF new
  <2> QED BY <1>4, <2>1, <2>2, <2>3 DEF q
<1>10. CASE old # {}
  <2> DEFINE o == CHOOSE s \in old : TRUE
             row == [ new EXCEPT !.created = o.created, !.seen = o.seen, !.shown = o.shown, !.skipped = o.skipped ]
  <2>1. o \in old
    BY <1>10
  <2>2. Talk!Row(r, c) = row
    BY <1>10 DEF Talk!Row, start
  <2>3. o \in Talk!ConversationSummary /\ RowOK(o)
    BY <2>1 DEF TalkInv, Talk!TypeOK
  <2> HIDE DEF o
  <2>4. /\ row.chat = c /\ row.period_end = q.until /\ row.by = r
        /\ row.messages = q.messages /\ row.hidden = q.hidden
        /\ row.seen = o.seen /\ row.created = o.created /\ row.skipped = o.skipped
    OBVIOUS
  <2>5. row \in Talk!ConversationSummary
    <3> HIDE DEF new
    <3> QED BY <1>4, <2>3 DEF Talk!ConversationSummary
  <2> HIDE DEF row, q
  <2>6. RowOK(row)
    <3>1. \A m \in row.messages :
            message[m].at = "stored" /\ message[m].chat = row.chat /\ message[m].created <= row.period_end
      BY <1>6, <2>4
    <3>2. \A m \in Messages : message[m].at # "stored" => m \in row.hidden
      BY <1>7, <2>4
    <3>3. /\ row.seen <= digests.count /\ (row.seen = digests.count => row.created >= digests.last)
          /\ row.skipped # 0 => row.seen < row.skipped
      BY <2>3, <2>4 DEF RowOK
    <3> QED BY <3>1, <3>2, <3>3 DEF RowOK
  <2> QED BY <2>2, <2>4, <2>5, <2>6 DEF q
<1> QED BY <1>9, <1>10

\* A message of a chat that a run's period has passed is in the row that the run
\* writes or in one that ended before it and stays.
LEMMA Passed ==
  ASSUME TalkInv,
         NEW r \in Runs, NEW c \in Chats, Talk!At(r, "model"), run[r].chat = {c},
         NEW m \in Messages, message[m].at = "stored", message[m].chat = c,
         message[m].created <= run[r].until
  PROVE  \/ m \in run[r].messages \cup run[r].hidden
         \/ \E t \in summaries : /\ t.chat = c /\ t.period_end < run[r].until
                                 /\ message[m].created <= t.period_end
                                 /\ m \in t.messages \cup t.hidden
<1>1. Read1(r, run[r], c) /\ run[r].after < run[r].until
  BY DEF TalkInv, Reading, Talk!At
<1>2. /\ message[m].created \in Nat /\ run[r].until \in Nat /\ run[r].after \in Nat \cup {Talk!Never}
  BY Typed DEF TalkInv
<1>3. CASE message[m].created > run[r].after
  BY <1>1, <1>3 DEF Read1
<1>4. CASE ~ (message[m].created > run[r].after)
  <2>1. run[r].after # Talk!Never /\ message[m].created <= run[r].after
    BY <1>2, <1>4 DEF Talk!Never
  <2>2. PICK s \in summaries : s.chat = c /\ s.period_end = run[r].after
    BY <1>1, <2>1 DEF Read1
  <2>3. PICK t \in summaries : /\ t.chat = c /\ t.period_end <= run[r].after
                              /\ message[m].created <= t.period_end
                              /\ m \in t.messages \cup t.hidden
    BY <2>1, <2>2 DEF TalkInv, Told
  <2>4. t.period_end \in Nat
    BY Typed DEF TalkInv
  <2>5. t.period_end < run[r].until
    BY <1>1, <1>2, <2>1, <2>3, <2>4 DEF Talk!Never
  <2> QED BY <2>3, <2>5
<1> QED BY <1>3, <1>4

\* A run writes its row.
LEMMA WriteKeepsTalk ==
  ASSUME TalkInv,
         NEW r \in Runs, Talk!Write(r)
  PROVE  TalkInv'
<1>1. PICK c \in run[r].chat :
        /\ summaries' = { s \in summaries : s.chat # c \/ s.period_end # run[r].until } \cup {Talk!Row(r, c)}
        /\ overlapped' = overlapped \cup
             { {r, q} : q \in { p \in Runs \ {r} : Talk!At(p, "model") /\ run[p].chat = {c} } }
  BY DEF Talk!Write
<1>2. Talk!At(r, "model") /\ Reading(r, run[r]) /\ run[r] \in Talk!Run /\ c \in Chats
  BY Typed DEF Talk!Write, TalkInv, Talk!Run
<1>3. run[r].chat = {c} /\ Read1(r, run[r], c)
  BY <1>2 DEF Reading, Talk!At
<1> DEFINE row == Talk!Row(r, c)
           others == { s \in summaries : s.chat # c \/ s.period_end # run[r].until }
           d == Talk!Done([run[r] EXCEPT !.began = Talk!Never])
<1>4. /\ row \in Talk!ConversationSummary
      /\ row.chat = c /\ row.period_end = run[r].until /\ row.by = r
      /\ row.messages = run[r].messages /\ row.hidden = run[r].hidden
      /\ RowOK(row)
  BY <1>2, <1>3, WrittenRow
<1>5. summaries' = others \cup {row} /\ others \subseteq summaries
  BY <1>1
<1>6. \A s \in summaries : s \in others \/ (s.chat = c /\ s.period_end = run[r].until)
  OBVIOUS
<1>7. \A s \in others : s.chat # c \/ s.period_end # run[r].until
  OBVIOUS
<1>8. d \in Talk!Run /\ d.at # "model" /\ d.began = Talk!Never
  <2> DEFINE e == [run[r] EXCEPT !.began = Talk!Never]
  <2>1. e \in Talk!Run /\ e.began = Talk!Never
    BY <1>2 DEF Talk!Run
  <2> HIDE DEF e
  <2>2. Talk!Done(e) \in Talk!Run /\ Talk!Done(e).at # "model" /\ Talk!Done(e).began \in {e.began, Talk!Never}
    BY <2>1, DoneOK
  <2>3. d = Talk!Done(e)
    BY DEF e
  <2> QED BY <2>1, <2>2, <2>3
<1>9. UNCHANGED <<now, message, active, digests>> /\ run' = [run EXCEPT ![r] = d]
  BY DEF Talk!Write, Talk!Go
<1> HIDE DEF row, others, d
<1>10. \A p \in Runs : run'[p] = IF p = r THEN d ELSE run[p]
  BY <1>9 DEF TalkInv, Talk!TypeOK
<1>11. overlapped \subseteq overlapped' /\ overlapped' \subseteq SUBSET Runs
       /\ \A p \in Runs : p # r /\ Talk!At(p, "model") /\ run[p].chat = {c} => {r, p} \in overlapped'
  BY <1>1 DEF TalkInv, Talk!TypeOK
<1>12. Talk!TypeOK'
  <2>1. run' \in [Runs -> Talk!Run]
    BY <1>8, <1>9 DEF TalkInv, Talk!TypeOK
  <2>2. summaries' \subseteq Talk!ConversationSummary
    BY <1>4, <1>5 DEF TalkInv, Talk!TypeOK
  <2>3. \A s, t \in summaries' : s.chat = t.chat /\ s.period_end = t.period_end => s = t
    BY <1>4, <1>5, <1>7 DEF TalkInv, Talk!TypeOK
  <2> QED BY <1>9, <1>11, <2>1, <2>2, <2>3 DEF TalkInv, Talk!TypeOK
<1>13. ASSUME NEW s \in summaries' PROVE RowOK(s)'
  <2>1. RowOK(s)
    BY <1>4, <1>5 DEF TalkInv
  <2> QED BY <1>9, <2>1 DEF RowOK
<1>14. ASSUME NEW p \in Runs PROVE (Begun(run[p]) /\ Reading(p, run[p]))'
  <2>1. CASE p = r
    BY <1>8, <1>10, <2>1 DEF Begun, Reading
  <2>2. CASE p # r
    <3>1. run'[p] = run[p]
      BY <1>10, <2>2
    <3>2. Begun(run[p])'
      BY <1>9, <3>1 DEF TalkInv, Begun
    <3>3. SUFFICES ASSUME run[p].at = "model" PROVE Reading(p, run[p])'
      BY <3>1, <3>2 DEF Reading
    <3>4. PICK b \in Chats : run[p].chat = {b} /\ Read1(p, run[p], b)
      BY <3>3 DEF TalkInv, Reading
    <3>5. ASSUME run[p].after # Talk!Never
          PROVE  \E s \in summaries' : s.chat = b /\ s.period_end = run[p].after
      <4>1. PICK s \in summaries : s.chat = b /\ s.period_end = run[p].after
        BY <3>4, <3>5 DEF Read1
      <4> QED BY <1>4, <1>5, <1>6, <4>1
    <3>6. ASSUME NEW s \in summaries', s.chat = b, s.messages \cap run[p].messages # {}
          PROVE  {s.by, p} \in overlapped'
      <4>1. CASE s \in others
        BY <1>5, <1>11, <3>4, <3>6, <4>1 DEF Read1
      <4>2. CASE s = row
        <5>1. b = c /\ s.by = r
          BY <1>4, <3>6, <4>2
        <5> QED BY <1>11, <2>2, <3>3, <3>4, <5>1 DEF Talk!At
      <4> QED BY <1>5, <3>6, <4>1, <4>2
    <3>7. Read1(p, run[p], b)'
      BY <1>9, <3>1, <3>4, <3>5, <3>6 DEF Read1
    <3> QED BY <3>1, <3>3, <3>4, <3>7 DEF TalkInv, Reading
  <2> QED BY <2>1, <2>2
<1>15. Told'
  <2> SUFFICES ASSUME NEW m \in Messages, NEW s \in summaries',
                      message[m].at = "stored", message[m].chat = s.chat,
                      message[m].created <= s.period_end
               PROVE  \E t \in summaries' : /\ t.chat = s.chat /\ t.period_end <= s.period_end
                                            /\ message[m].created <= t.period_end
                                            /\ m \in t.messages \cup t.hidden
    BY <1>9 DEF Told
  <2>1. /\ \A t \in summaries : t.period_end \in Nat
        /\ run[r].until \in Nat /\ s.period_end \in Nat /\ message[m].created \in Nat
    BY <1>4, <1>5, Typed DEF TalkInv
  <2>2. ASSUME s.chat = c, run[r].until <= s.period_end, message[m].created <= run[r].until
        PROVE  \E t \in summaries' : /\ t.chat = s.chat /\ t.period_end <= s.period_end
                                     /\ message[m].created <= t.period_end
                                     /\ m \in t.messages \cup t.hidden
    <3>1. CASE m \in run[r].messages \cup run[r].hidden
      BY <1>4, <1>5, <2>2, <3>1
    <3>2. CASE m \notin run[r].messages \cup run[r].hidden
      <4>1. PICK t \in summaries : /\ t.chat = c /\ t.period_end < run[r].until
                                  /\ message[m].created <= t.period_end
                                  /\ m \in t.messages \cup t.hidden
        BY <1>2, <1>3, <2>2, <3>2, Passed
      <4>2. t \in summaries'
        BY <1>5, <1>6, <2>1, <4>1
      <4>3. t.period_end <= s.period_end
        BY <2>1, <2>2, <4>1
      <4> QED BY <2>2, <4>1, <4>2, <4>3
    <3> QED BY <3>1, <3>2
  <2>3. CASE s = row
    <3>1. s.chat = c /\ run[r].until <= s.period_end /\ message[m].created <= run[r].until
      BY <1>4, <2>1, <2>3
    <3> QED BY <2>2, <3>1
  <2>4. CASE s \in others
    <3>1. PICK t \in summaries : /\ t.chat = s.chat /\ t.period_end <= s.period_end
                                /\ message[m].created <= t.period_end
                                /\ m \in t.messages \cup t.hidden
      BY <1>5, <2>4 DEF TalkInv, Told
    <3>2. CASE t \in others
      BY <1>5, <3>1, <3>2
    <3>3. CASE t \notin others
      <4>1. s.chat = c /\ run[r].until <= s.period_end /\ message[m].created <= run[r].until
        BY <1>6, <3>1, <3>3
      <4> QED BY <2>2, <4>1
    <3> QED BY <3>2, <3>3
  <2> QED BY <1>5, <2>3, <2>4
<1>16. Talk!SummarisedOnce'
  <2>1. ASSUME NEW s \in others, s.messages \cap row.messages # {}
        PROVE  {s.by, row.by} \in overlapped'
    <3>1. PICK m \in s.messages : m \in run[r].messages
      BY <1>4, <2>1
    <3>2. message[m].chat = s.chat
      BY <1>5, <2>1, <3>1 DEF TalkInv, RowOK
    <3>3. message[m].chat = c
      BY <1>3, <3>1 DEF Read1
    <3>4. {s.by, r} \in overlapped
      BY <1>3, <1>4, <1>5, <2>1, <3>2, <3>3 DEF Read1
    <3> QED BY <1>4, <1>11, <3>4
  <2>2. ASSUME NEW s \in summaries', NEW t \in summaries', s # t, s.messages \cap t.messages # {}
        PROVE  {s.by, t.by} \in overlapped'
    <3>1. CASE s \in others /\ t \in others
      BY <1>5, <1>11, <2>2, <3>1 DEF TalkInv, Talk!SummarisedOnce
    <3>2. CASE s \in others /\ t = row
      BY <2>1, <2>2, <3>2
    <3>3. CASE s = row /\ t \in others
      <4>1. t.messages \cap row.messages # {} /\ {s.by, t.by} = {t.by, row.by}
        BY <2>2, <3>3
      <4> QED BY <2>1, <3>3, <4>1
    <3> QED BY <1>5, <2>2, <3>1, <3>2, <3>3
  <2> QED BY <2>2 DEF Talk!SummarisedOnce
<1>17. (digests.last <= now)'
  BY <1>9 DEF TalkInv
<1> QED BY <1>12, <1>13, <1>14, <1>15, <1>16, <1>17 DEF TalkInv

-----------------------------------------------------------------------------
\* A digest marks the rows and changes nothing else of them; one it is the first to
\* leave out was not there at the last, or its transaction had begun before.
LEMMA DigestKeepsTalk ==
  ASSUME TalkInv, Talk!send_daily_digest
  PROVE  TalkInv'
<1> DEFINE onTime == digests.count > 0 /\ now - digests.last <= Window
           Marked(s) == [ s EXCEPT !.shown = s.shown \/ Talk!InWindow(s),
                            !.skipped = IF onTime /\ s.skipped = 0 /\ ~ s.shown /\ ~ Talk!InWindow(s)
                                        THEN digests.count ELSE s.skipped ]
<1>1. summaries' = { Marked(s) : s \in summaries }
  BY DEF Talk!send_daily_digest
<1>2. /\ digests.count < MaxDigests /\ digests' = [count |-> digests.count + 1, last |-> now]
      /\ UNCHANGED <<now, message, active, run, overlapped>>
  BY DEF Talk!send_daily_digest
<1>3. ASSUME NEW s \in summaries
      PROVE  /\ Marked(s) \in Talk!ConversationSummary
             /\ Marked(s).chat = s.chat /\ Marked(s).period_end = s.period_end
             /\ Marked(s).messages = s.messages /\ Marked(s).hidden = s.hidden /\ Marked(s).by = s.by
             /\ Marked(s).seen = s.seen /\ Marked(s).created = s.created
             /\ Marked(s).skipped = IF onTime /\ s.skipped = 0 /\ ~ s.shown /\ ~ Talk!InWindow(s)
                                    THEN digests.count ELSE s.skipped
  <2> DEFINE k == IF onTime /\ s.skipped = 0 /\ ~ s.shown /\ ~ Talk!InWindow(s)
                  THEN digests.count ELSE s.skipped
             b == s.shown \/ Talk!InWindow(s)
  <2>1. s \in Talk!ConversationSummary /\ k \in 0 .. MaxDigests /\ b \in BOOLEAN
    <3>1. s \in Talk!ConversationSummary /\ digests.count \in 0 .. MaxDigests
      BY DEF TalkInv, Talk!TypeOK
    <3> QED BY <3>1 DEF Talk!ConversationSummary
  <2>2. Marked(s) = [ s EXCEPT !.shown = b, !.skipped = k ]
    OBVIOUS
  <2> HIDE DEF k, b, Marked
  <2>3. /\ Marked(s) \in Talk!ConversationSummary
        /\ Marked(s).chat = s.chat /\ Marked(s).period_end = s.period_end
        /\ Marked(s).messages = s.messages /\ Marked(s).hidden = s.hidden /\ Marked(s).by = s.by
        /\ Marked(s).seen = s.seen /\ Marked(s).created = s.created
        /\ Marked(s).skipped = k
    BY <2>1, <2>2 DEF Talk!ConversationSummary
  <2> QED BY <2>3 DEF k
<1> HIDE DEF Marked
<1>4. digests'.count = digests.count + 1 /\ digests'.last = now
  BY <1>2
<1>5. Talk!TypeOK'
  <2>1. digests' \in [count : 0 .. MaxDigests, last : Talk!Time]
    <3>1. digests.count + 1 \in 0 .. MaxDigests
      BY <1>2, Typed, BoundsAssumption DEF Talk!SummariesAssumption, TalkInv
    <3> QED BY <1>2, <3>1 DEF TalkInv, Talk!TypeOK
  <2>2. summaries' \subseteq Talk!ConversationSummary
    BY <1>1, <1>3
  <2>3. \A s, t \in summaries' : s.chat = t.chat /\ s.period_end = t.period_end => s = t
    BY <1>1, <1>3 DEF TalkInv, Talk!TypeOK
  <2> QED BY <1>2, <2>1, <2>2, <2>3 DEF TalkInv, Talk!TypeOK
<1>6. ASSUME NEW s \in summaries, NEW t \in summaries', t = Marked(s) PROVE RowOK(t)'
  <2>1. /\ RowOK(s) /\ s.seen \in Nat /\ s.created \in Nat /\ s.skipped \in Nat
        /\ now \in Nat /\ digests.last \in Nat /\ digests.count \in Nat
    BY Typed DEF TalkInv
  <2>2. s.seen <= digests'.count /\ s.seen # digests'.count
    BY <1>4, <2>1 DEF RowOK
  <2>3. Marked(s).skipped # 0 => s.seen < Marked(s).skipped
    <3>1. CASE onTime /\ s.skipped = 0 /\ ~ s.shown /\ ~ Talk!InWindow(s)
      <4>1. s.created < digests.last
        BY <2>1, <3>1, BoundsAssumption DEF Talk!SummariesAssumption, Talk!InWindow
      <4>2. s.seen < digests.count
        BY <2>1, <4>1 DEF RowOK
      <4> QED BY <1>3, <3>1, <4>2
    <3>2. CASE ~ (onTime /\ s.skipped = 0 /\ ~ s.shown /\ ~ Talk!InWindow(s))
      BY <1>3, <2>1, <3>2 DEF RowOK
    <3> QED BY <3>1, <3>2
  <2>4. /\ t.chat = s.chat /\ t.period_end = s.period_end
        /\ t.messages = s.messages /\ t.hidden = s.hidden /\ t.seen = s.seen
    BY <1>3, <1>6
  <2>5. t.skipped # 0 => t.seen < t.skipped
    BY <1>6, <2>3, <2>4
  <2>6. message' = message
    BY <1>2
  <2>7. /\ \A m \in t.messages :
             message'[m].at = "stored" /\ message'[m].chat = t.chat /\ message'[m].created <= t.period_end
        /\ \A m \in Messages : message'[m].at # "stored" => m \in t.hidden
    BY <2>1, <2>4, <2>6 DEF RowOK
  <2>8. t.seen <= digests'.count /\ t.seen # digests'.count
    BY <2>2, <2>4
  <2> QED BY <2>5, <2>7, <2>8 DEF RowOK
<1>7. ASSUME NEW r \in Runs PROVE (Begun(run[r]) /\ Reading(r, run[r]))'
  <2>1. Begun(run[r]) /\ Reading(r, run[r]) /\ run[r].seen \in Nat /\ digests.count \in Nat
    BY Typed DEF TalkInv
  <2>2. run'[r] = run[r]
    BY <1>2
  <2>3. Begun(run[r])'
    BY <1>4, <2>1, <2>2 DEF Begun
  <2>4. ASSUME NEW c \in Chats, Read1(r, run[r], c) PROVE Read1(r, run[r], c)'
    <3>1. run[r].after # Talk!Never => \E s \in summaries' : s.chat = c /\ s.period_end = run[r].after
      BY <1>1, <1>3, <2>4 DEF Read1
    <3>2. \A s \in summaries' :
            s.chat = c /\ s.messages \cap run[r].messages # {} => {s.by, r} \in overlapped
      BY <1>1, <1>3, <2>4 DEF Read1
    <3> QED BY <1>2, <2>4, <3>1, <3>2 DEF Read1
  <2>5. Reading(r, run[r])'
    BY <2>1, <2>2, <2>4 DEF Reading
  <2> QED BY <2>3, <2>5
<1>8. Told'
  <2> SUFFICES ASSUME NEW m \in Messages, NEW s \in summaries,
                      message[m].at = "stored", message[m].chat = Marked(s).chat,
                      message[m].created <= Marked(s).period_end
               PROVE  \E t \in summaries' : /\ t.chat = Marked(s).chat /\ t.period_end <= Marked(s).period_end
                                            /\ message[m].created <= t.period_end
                                            /\ m \in t.messages \cup t.hidden
    BY <1>1, <1>2 DEF Told
  <2>1. PICK t \in summaries : /\ t.chat = s.chat /\ t.period_end <= s.period_end
                              /\ message[m].created <= t.period_end
                              /\ m \in t.messages \cup t.hidden
    BY <1>3 DEF TalkInv, Told
  <2>2. Marked(t) \in summaries'
    BY <1>1
  <2> QED BY <1>3, <2>1, <2>2
<1>9. Talk!SummarisedOnce'
  <2> SUFFICES ASSUME NEW s \in summaries, NEW t \in summaries, Marked(s) # Marked(t),
                      Marked(s).messages \cap Marked(t).messages # {}
               PROVE  {Marked(s).by, Marked(t).by} \in overlapped
    BY <1>1, <1>2 DEF Talk!SummarisedOnce
  <2> QED BY <1>3 DEF TalkInv, Talk!SummarisedOnce
<1>10. (digests.last <= now)'
  BY <1>2, Typed DEF TalkInv
<1>11. \A s \in summaries' : RowOK(s)'
  BY <1>1, <1>6
<1> QED BY <1>5, <1>7, <1>8, <1>9, <1>10, <1>11 DEF TalkInv

\* Nothing else that the rows and the runs say depends on the clock or on activity.
LEMMA RestKeepsTalk ==
  ASSUME TalkInv,
         now' \in Talk!Time, now' >= now, active' \in [Chats -> Talk!Time \cup {Talk!Never}],
         UNCHANGED <<message, summaries, run, digests, overlapped>>
  PROVE  TalkInv'
<1>1. Talk!TypeOK'
  BY DEF TalkInv, Talk!TypeOK
<1>2. (digests.last <= now)'
  BY Typed, BoundsAssumption DEF Talk!SummariesAssumption, TalkInv, Talk!Time
<1>3. \A s \in summaries' : RowOK(s)'
  BY DEF TalkInv, RowOK
<1>4. ASSUME NEW r \in Runs PROVE (Begun(run[r]) /\ Reading(r, run[r]))'
  <2>1. PICK q : q = run[r] /\ q = run'[r]
    OBVIOUS
  <2>2. Begun(q) /\ Reading(r, q)
    BY <2>1 DEF TalkInv
  <2>3. Begun(q)'
    BY <2>2 DEF Begun
  <2>4. ASSUME NEW c \in Chats, Read1(r, q, c) PROVE Read1(r, q, c)'
    BY <2>4 DEF Read1
  <2>5. Reading(r, q)'
    BY <2>2, <2>4 DEF Reading
  <2> QED BY <2>1, <2>3, <2>5
<1>5. (Told /\ Talk!SummarisedOnce)'
  BY DEF TalkInv, Told, Talk!SummarisedOnce
<1> QED BY <1>1, <1>2, <1>3, <1>4, <1>5 DEF TalkInv

\* Every step keeps the invariant.
LEMMA NextKeepsTalk ==
  TalkInv /\ [Talk!Next]_(Talk!vars) => TalkInv'
<1> SUFFICES ASSUME TalkInv, [Talk!Next]_(Talk!vars) PROVE TalkInv'
  OBVIOUS
<1> USE DEF TalkInv
<1>1. ASSUME NEW m \in Messages, NEW c \in Chats, Talk!Receive(m, c) PROVE TalkInv'
  <2>1. [at |-> "storing", chat |-> c, created |-> now] \in Talk!Message
    BY <1>1 DEF Talk!TypeOK, Talk!Message
  <2>2. message' \in [Messages -> Talk!Message]
    BY <1>1, <2>1 DEF Talk!TypeOK, Talk!Receive
  <2> QED BY <1>1, <2>2, MessageKeepsTalk DEF Talk!Receive, Talk!TypeOK
<1>2. ASSUME NEW m \in Messages, Talk!Store(m) PROVE TalkInv'
  <2>1. [message[m] EXCEPT !.at = "stored"] \in Talk!Message
    BY <1>2 DEF Talk!TypeOK, Talk!Message
  <2>2. message' \in [Messages -> Talk!Message]
    BY <1>2, <2>1 DEF Talk!TypeOK, Talk!Store
  <2> QED BY <1>2, <2>2, MessageKeepsTalk DEF Talk!Store, Talk!TypeOK
<1>3. ASSUME NEW c \in Chats, Talk!Process(c) PROVE TalkInv'
  BY <1>3, Typed, RestKeepsTalk DEF Talk!Process, Talk!TypeOK
<1>4. ASSUME NEW r \in Runs, Talk!summarize_all_threads(r) PROVE TalkInv'
  <2> DEFINE threads == { c \in Chats : active[c] # Talk!Never /\ active[c] >= now - Activity }
  <2>1. threads \in SUBSET Chats
    OBVIOUS
  <2>2. Talk!Go(r, Talk!Done([Talk!Idle EXCEPT !.until = now, !.todo = threads, !.began = now,
                                         !.seen = digests.count]))
        /\ UNCHANGED <<now, message, active, summaries, digests, overlapped>>
    BY <1>4 DEF Talk!summarize_all_threads
  <2> HIDE DEF threads, TalkInv
  <2> QED BY <2>1, <2>2, StartKeepsTalk
<1>5. ASSUME NEW r \in Runs, NEW c \in Chats, Talk!summarize_one_thread(r, c) PROVE TalkInv'
  <2>1. Talk!Go(r, Talk!Done([Talk!Idle EXCEPT !.until = now, !.todo = {c}, !.began = now,
                                         !.seen = digests.count]))
        /\ UNCHANGED <<now, message, active, summaries, digests, overlapped>>
    BY <1>5 DEF Talk!summarize_one_thread
  <2> HIDE DEF TalkInv
  <2> QED BY <2>1, StartKeepsTalk
<1>6. ASSUME NEW r \in Runs, Talk!Read(r) PROVE TalkInv'
  BY <1>6, ReadKeepsTalk
<1>7. ASSUME NEW r \in Runs, Talk!Skip(r) \/ Talk!Fail(r) PROVE TalkInv'
  <2>1. run[r] \in Talk!Run /\ Begun(run[r])
    BY Typed
  <2> HIDE DEF TalkInv
  <2> QED BY <1>7, <2>1, DoneKeepsTalk DEF Talk!Skip, Talk!Fail
<1>8. ASSUME NEW r \in Runs, Talk!Write(r) PROVE TalkInv'
  BY <1>8, WriteKeepsTalk
<1>9. ASSUME Talk!send_daily_digest PROVE TalkInv'
  BY <1>9, DigestKeepsTalk
<1>10. ASSUME Talk!Tick PROVE TalkInv'
  <2>1. now' \in Talk!Time /\ now' >= now
    BY <1>10, BoundsAssumption DEF Talk!SummariesAssumption, Talk!Tick, Talk!TypeOK, Talk!Time
  <2> QED BY <1>10, <2>1, RestKeepsTalk DEF Talk!Tick, Talk!TypeOK
<1>11. ASSUME UNCHANGED Talk!vars PROVE TalkInv'
  <2>1. now' \in Talk!Time /\ now' >= now
    BY <1>11, Typed DEF Talk!vars, Talk!TypeOK
  <2> QED BY <1>11, <2>1, RestKeepsTalk DEF Talk!vars, Talk!TypeOK
<1> QED BY <1>1, <1>2, <1>3, <1>4, <1>5, <1>6, <1>7, <1>8, <1>9, <1>10, <1>11 DEF Talk!Next

\* The invariant of the specification.
LEMMA SpecTalk == Talk!Spec => []TalkInv
<1>1. Talk!Init => TalkInv
  BY InitTalk
<1>2. TalkInv /\ [Talk!Next]_(Talk!vars) => TalkInv'
  BY NextKeepsTalk
<1> QED BY <1>1, <1>2, PTL DEF Talk!Spec

-----------------------------------------------------------------------------
\* The rows and the runs have their types, and a chat has one summary of an end.
THEOREM SummariesTypeCorrect == Talk!Spec => []Talk!TypeOK
<1>1. TalkInv => Talk!TypeOK
  BY DEF TalkInv
<1> QED BY <1>1, SpecTalk, PTL

\* However runs overlap, skip threads and fail: a stored message is in a summary of
\* its chat, or after every period, or was committed after its period had been read.
THEOREM NothingIsLost == Talk!Spec => []NothingLost
<1>1. TalkInv => NothingLost
  <2> SUFFICES ASSUME TalkInv, NEW m \in Talk!Stored,
                      NEW s \in summaries, s.chat = message[m].chat, ~ (s.period_end < message[m].created)
               PROVE  \E t \in summaries : /\ t.chat = message[m].chat
                                           /\ \/ m \in t.messages
                                              \/ m \in t.hidden /\ message[m].created <= t.period_end
    BY DEF NothingLost, Talk!NothingLost
  <2>1. m \in Messages /\ message[m].at = "stored" /\ message[m].created \in Nat /\ s.period_end \in Nat
    BY Typed DEF Talk!Stored, TalkInv
  <2>2. message[m].created <= s.period_end
    BY <2>1
  <2> QED BY <2>1, <2>2 DEF TalkInv, Told
<1> QED BY <1>1, SpecTalk, PTL

\* A message is in two summaries only when one of their runs committed its summary
\* while the other had read the chat.
THEOREM SummarisedAtMostOnce == Talk!Spec => []SummarisedOnce
<1>1. TalkInv => SummarisedOnce
  BY DEF TalkInv, SummarisedOnce
<1> QED BY <1>1, SpecTalk, PTL

\* Of two digests no further apart than the window, the second has every summary the
\* first could not have, except one whose transaction had begun before the first.
THEOREM DigestsAreComplete == Talk!Spec => []DigestsComplete
<1>1. TalkInv => DigestsComplete
  BY DEF TalkInv, RowOK, DigestsComplete, Talk!DigestsComplete
<1> QED BY <1>1, SpecTalk, PTL

-----------------------------------------------------------------------------
\* Leads and summaries together: neither changes what the other keeps.
THEOREM ConversationsAreKept ==
  ConversationsSpec => /\ [](ReviewedOnce /\ BookAgrees /\ PhoneOnce)
                       /\ [](NothingLost /\ SummarisedOnce /\ DigestsComplete)
<1>1. [ConversationsNext]_<<vars, talk>> => [Next]_vars /\ [Talk!Next]_(Talk!vars)
  BY DEF ConversationsNext, talk, Talk!vars
<1>2. ConversationsSpec => Spec /\ Talk!Spec
  BY <1>1, PTL DEF ConversationsSpec, ConversationsInit, Spec, Talk!Spec
<1> QED BY <1>2, LeadsAreReviewedOnce, ContactsAgree, PhonesAreOnce, NothingIsLost, SummarisedAtMostOnce,
           DigestsAreComplete, PTL
=============================================================================
