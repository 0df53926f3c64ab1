-------------------------------- MODULE Leads --------------------------------
(***************************************************************************)
(* The address book of contacts.py and the queue of extracted leads that   *)
(* lead_extraction.py fills and leads_routes.py empties into it.           *)
(*                                                                         *)
(* A request reads rows, awaits, and writes what it has read changed: an   *)
(* UPDATE has the columns that differ from what was loaded, and does not   *)
(* look at the row again.  A request that fails leaves nothing.  The       *)
(* extraction is called by nothing in the backend yet, so its caller, who  *)
(* commits, is external.                                                   *)
(***************************************************************************)
EXTENDS Integers, FiniteSets

CONSTANTS
  Requests,  \* requests that read before they write; each is made once
  Leads,     \* rows of leads
  Contacts,  \* rows of contacts, an id being used again once it is forgotten
  Numbers,   \* telephone numbers
  MaxFile    \* bound: rows of an imported file

\* None, "none" and "hand" below are no row and no request.
ASSUME LeadsAssumption ==
  /\ IsFiniteSet(Contacts) /\ MaxFile \in Nat
  /\ <<>> \notin Leads \cup Contacts \cup Requests /\ {"none", "hand"} \cap Requests = {}

VARIABLES
  lead,     \* the table of leads
  contact,  \* the table of contacts
  request,  \* what every request has read
  raced     \* history: the leads, and the phones of new contacts, on which two
            \* requests overlapped

vars == <<lead, contact, request, raced>>

-----------------------------------------------------------------------------
\* A number is written with or without the characters _normalize_phone strips.
None == <<>>
Phones == Numbers \X {"plain", "dashed"}
MaybePhone == Phones \cup {None}
\* A phone that comes with a conversation is that of a WhatsApp id, digits only.
ExtractedPhone == Numbers \X {"plain"} \cup {None}
Normal(phone) == IF phone = None THEN None ELSE <<phone[1], "plain">>

\* ref    whether there is a source_ref, that of one conversation
\* text   the request that wrote the extraction last, none for the first
\* by     the one that reviewed it last
Lead == [ status : {"none", "pending", "approved", "rejected"}, ref : BOOLEAN, phone : MaybePhone,
          contact : Contacts \cup {None}, text : Requests \cup {None} ]
NoLead == [status |-> "none", ref |-> FALSE, phone |-> None, contact |-> None, text |-> None]

\* notes  <<request, lead, text>> for every extraction written into the notes
\* by     the request that made it or "hand", which also sets its phone
\* kept   no hand has replaced the notes
Contact == [ phone : MaybePhone, notes : SUBSET (Requests \X Leads \X (Requests \cup {None})),
             by : Requests \cup {"none", "hand"}, kept : BOOLEAN ]
NoContact == [phone |-> None, notes |-> {}, by |-> "none", kept |-> TRUE]

\* The phones of some of the rows of a file.
PhonesOfRows == UNION { [rows -> MaybePhone] : rows \in SUBSET (1 .. MaxFile) }

\* lead, row      the lead it is about, as loaded
\* contact, notes the contact it matched, as loaded
\* phones         the phones of the rows it is to import
Request == [ at : {"idle", "extract", "edit", "match", "approve", "reject", "import", "over"},
             lead : Leads \cup {None}, row : Lead, contact : Contacts \cup {None},
             notes : SUBSET (Requests \X Leads \X (Requests \cup {None})), phones : PhonesOfRows ]
Idle == [ at |-> "idle", lead |-> None, row |-> NoLead, contact |-> None, notes |-> {}, phones |-> <<>> ]
Over == [Idle EXCEPT !.at = "over"]

At(r, where) == request[r].at = where
Go(r, q) == request' = [request EXCEPT ![r] = q]
Exists(c) == contact[c].by # "none"
Pending(l) == lead[l].status = "pending"
\* An id that nothing refers to any more.
Free == { c \in Contacts : ~ Exists(c) /\ \A r \in Requests : request[r].contact # c }

\* The other requests that have read a lead, or have found no contact of a phone.
OthersOn(r, l) == { q \in Requests \ {r} : request[q].lead = l }
Looking(q, phone) ==
  \/ At(q, "approve") /\ request[q].contact = None /\ request[q].row.phone = phone
  \/ At(q, "import") /\ \E i \in DOMAIN request[q].phones : request[q].phones[i] = phone
Race(r, l) == IF OthersOn(r, l) = {} THEN {} ELSE {l}
RacePhones(r, phones) == { p \in phones \ {None} : \E q \in Requests \ {r} : Looking(q, p) }
\* Approvals into one contact, of which one overwrites the notes of the other.
RaceNotes(r, c) ==
  LET others == { q \in Requests \ {r} : At(q, "approve") /\ request[q].contact = c }
  IN IF c = None \/ others = {} THEN {} ELSE { request[q].lead : q \in others \cup {r} }

-----------------------------------------------------------------------------
\* What the model makes of a conversation: nothing, without a key, an answer or JSON
\* of the right shape, or a summary and requirements, of which those with a value
\* count, either of them empty or not.
Answers == {None} \cup [summary : BOOLEAN, requirements : BOOLEAN]
has_content(answer) == answer.summary \/ answer.requirements

\* extract_lead: of an answer worth queueing, the pending row of the conversation is
\* loaded; two such rows fail it.
Extract(r) ==
  /\ At(r, "idle")
  /\ \E answer \in Answers :
       LET found == { l \in Leads : Pending(l) /\ lead[l].ref }
       IN IF answer = None \/ ~ has_content(answer) \/ Cardinality(found) > 1
          THEN Go(r, Over)
          ELSE \E l \in IF found = {} THEN {None} ELSE found :
                 Go(r, [Idle EXCEPT !.at = "extract", !.lead = l,
                                    !.row = IF l = None THEN NoLead ELSE lead[l]])
  /\ UNCHANGED <<lead, contact, raced>>

\* A changed column is written whatever the row has become.
Changed(new, loaded, current) == IF new = loaded THEN current ELSE new

\* It is updated, or a new one is queued.  A conversation without a reference is
\* always new.
Queue(r) ==
  /\ At(r, "extract")
  /\ \E phone \in ExtractedPhone :
       \/ \E l \in Leads, ref \in BOOLEAN :
            /\ request[r].lead = None \/ ~ ref
            /\ lead[l].status = "none"
            /\ lead' = [lead EXCEPT ![l] = [ status |-> "pending", ref |-> ref, phone |-> phone,
                                             contact |-> None, text |-> r ]]
            /\ raced' = raced
       \/ \E l \in Leads \cap {request[r].lead} :
            /\ lead' = [lead EXCEPT ![l].text = r,
                 ![l].phone = IF phone = None THEN @ ELSE Changed(phone, request[r].row.phone, @)]
            /\ raced' = raced \cup Race(r, l)
  /\ Go(r, Over)
  /\ UNCHANGED contact

\* update_lead, approve and reject load the lead; a reviewed one is refused, or an
\* approved one answered as it is, unless its contact is gone.
Editable(row) == row.status = "pending"
Bug_Approvable(row) == row.status = "pending" \/ row.status = "approved"
Approvable(row) == row.status = "pending" \/ (row.status = "approved" /\ row.contact = None)
Rejectable(row) == row.status \in {"pending", "rejected"}

Load(r, l) ==
  /\ At(r, "idle")
  /\ \/ Editable(lead[l]) /\ Go(r, [Idle EXCEPT !.at = "edit", !.lead = l, !.row = lead[l]])
     \/ Approvable(lead[l]) /\ Go(r, [Idle EXCEPT !.at = "match", !.lead = l, !.row = lead[l]])
     \/ Rejectable(lead[l]) /\ Go(r, [Idle EXCEPT !.at = "reject", !.lead = l, !.row = lead[l]])
  /\ UNCHANGED <<lead, contact, raced>>

update_lead(r) ==
  /\ At(r, "edit")
  /\ LET l == request[r].lead
     IN /\ \E phone \in MaybePhone :
             lead' = [lead EXCEPT ![l].text = r, ![l].phone = Changed(phone, request[r].row.phone, @)]
        /\ raced' = raced \cup Race(r, l)
  /\ Go(r, Over)
  /\ UNCHANGED contact

reject(r) ==
  /\ At(r, "reject")
  /\ LET l == request[r].lead
     IN /\ lead' = [lead EXCEPT ![l].status = Changed("rejected", request[r].row.status, @)]
        /\ raced' = raced \cup Race(r, l)
  /\ Go(r, Over)
  /\ UNCHANGED contact

\* approve_lead looks for the contact of the very phone; two of them fail it.
Matches(phone) == IF phone = None THEN {} ELSE { c \in Contacts : Exists(c) /\ contact[c].phone = phone }
Match(r) ==
  /\ At(r, "match")
  /\ LET found == Matches(request[r].row.phone)
     IN IF Cardinality(found) > 1 THEN Go(r, Over)
        ELSE \E c \in IF found = {} THEN {None} ELSE found :
               Go(r, [request[r] EXCEPT !.at = "approve", !.contact = c,
                                        !.notes = IF c = None THEN {} ELSE contact[c].notes])
  /\ UNCHANGED <<lead, contact, raced>>

\* Its notes are appended, or a contact is made of it, and both are committed
\* with the review.  The update of a contact that is gone fails.
Note(r) == <<r, request[r].lead, request[r].row.text>>
Bug_Written(r, c) ==
  IF request[r].contact = None
  THEN [phone |-> request[r].row.phone, notes |-> {Note(r)}, by |-> r, kept |-> TRUE]
  ELSE [contact[c] EXCEPT !.notes = {Note(r)}]
Written(r, c) ==
  IF request[r].contact = None
  THEN [phone |-> request[r].row.phone, notes |-> {Note(r)}, by |-> r, kept |-> TRUE]
  ELSE [contact[c] EXCEPT !.notes = request[r].notes \cup {Note(r)}]

approve(r) ==
  /\ At(r, "approve")
  /\ LET q == request[r]
     IN \E c \in IF q.contact = None THEN Free ELSE {q.contact} :
          IF q.contact = None \/ Exists(c)
          THEN /\ contact' = [contact EXCEPT ![c] = Written(r, c)]
               /\ lead' = [lead EXCEPT ![q.lead].contact = c,
                                       ![q.lead].status = Changed("approved", q.row.status, @)]
               /\ raced' = raced \cup Race(r, q.lead) \cup RaceNotes(r, q.contact)
                             \cup (IF q.contact = None THEN RacePhones(r, {q.row.phone}) ELSE {})
          ELSE UNCHANGED <<lead, contact, raced>>
  /\ Go(r, Over)

-----------------------------------------------------------------------------
\* create_contact looks for no other contact of the phone.
create_contact(c) ==
  /\ c \in Free
  /\ \E phone \in MaybePhone :
       contact' = [contact EXCEPT ![c] = [phone |-> phone, notes |-> {}, by |-> "hand", kept |-> TRUE]]
  /\ UNCHANGED <<lead, request, raced>>

\* update_contact gives it another phone, or other notes.
update_contact(c) ==
  /\ Exists(c)
  /\ \/ \E phone \in MaybePhone : contact' = [contact EXCEPT ![c].phone = phone, ![c].by = "hand"]
     \/ contact' = [contact EXCEPT ![c].notes = {}, ![c].kept = FALSE]
  /\ UNCHANGED <<lead, request, raced>>

\* ON DELETE SET NULL
delete_contact(c) ==
  /\ Exists(c)
  /\ contact' = [contact EXCEPT ![c] = NoContact]
  /\ lead' = [l \in Leads |-> IF lead[l].contact = c THEN [lead[l] EXCEPT !.contact = None] ELSE lead[l]]
  /\ UNCHANGED <<request, raced>>

\* import_contacts_csv: the rows of a file that are to be created, given the phones
\* in the book; a row without a name is an error, and is as good as not there.
Bug_ToCreate(file, known) ==
  LET rows == { i \in DOMAIN file : Normal(file[i]) \notin known \ {None} }
  IN [ i \in rows |-> Normal(file[i]) ]
ToCreate(file, known) ==
  LET normal == [i \in DOMAIN file |-> Normal(file[i])]
      New(i) == normal[i] = None
                \/ (normal[i] \notin known /\ \A j \in 1 .. i - 1 : normal[j] # normal[i])
  IN [ i \in { j \in DOMAIN file : New(j) } |-> normal[i] ]

Files == UNION { [1 .. n -> MaybePhone] : n \in 1 .. MaxFile }

ReadPhones(r) ==
  /\ At(r, "idle")
  /\ \E file \in Files :
       LET known == { Normal(contact[c].phone) : c \in { d \in Contacts : Exists(d) } }
           phones == ToCreate(file, known)
       IN Go(r, IF DOMAIN phones = {} THEN Over ELSE [Idle EXCEPT !.at = "import", !.phones = phones])
  /\ UNCHANGED <<lead, contact, raced>>

\* One commit for all of them; a dry run ends without.
MakeContacts(r, phones) ==
  \E ids \in [DOMAIN phones -> Free] :
    /\ \A i, j \in DOMAIN ids : ids[i] = ids[j] => i = j
    /\ contact' = [ c \in Contacts |->
         IF \E i \in DOMAIN ids : ids[i] = c
         THEN [ phone |-> phones[CHOOSE i \in DOMAIN ids : ids[i] = c], notes |-> {},
                by |-> r, kept |-> TRUE ]
         ELSE contact[c] ]
    /\ raced' = raced \cup RacePhones(r, { phones[i] : i \in DOMAIN phones })

Import(r) ==
  /\ At(r, "import")
  /\ MakeContacts(r, request[r].phones)
  /\ Go(r, Over)
  /\ UNCHANGED lead

-----------------------------------------------------------------------------
\* Some leads of calls and conversations await a review; the book is empty.
Init ==
  /\ \E waiting \in SUBSET Leads, phone \in [Leads -> ExtractedPhone] :
       lead = [l \in Leads |-> IF l \in waiting
                               THEN [NoLead EXCEPT !.status = "pending", !.phone = phone[l]] ELSE NoLead]
  /\ contact = [c \in Contacts |-> NoContact]
  /\ request = [r \in Requests |-> Idle]
  /\ raced = {}

Next ==
  \/ \E r \in Requests :
       \/ Extract(r) \/ Queue(r) \/ update_lead(r) \/ reject(r)
       \/ Match(r) \/ approve(r) \/ ReadPhones(r) \/ Import(r)
       \/ \E l \in Leads : Load(r, l)
  \/ \E c \in Contacts : create_contact(c) \/ update_contact(c) \/ delete_contact(c)

Spec == Init /\ [][Next]_vars

-----------------------------------------------------------------------------
\* The types of the rows and of what the requests have read.
TypeOK ==
  /\ lead \in [Leads -> Lead]
  /\ contact \in [Contacts -> Contact]
  /\ request \in [Requests -> Request]
  /\ raced \subseteq Leads \cup Phones

Noted(l) == { n \in UNION { contact[c].notes : c \in Contacts } : n[2] = l }

\* leads_routes.py:142, "a double-click in the admin cannot duplicate a contact's
\* notes", and :164, a rejected lead writes nothing to contacts: both hold, however
\* often a lead is reviewed and its contact deleted, unless two requests for the
\* lead overlapped.
ReviewedOnce ==
  \A l \in Leads \ raced :
    /\ Cardinality(Noted(l)) <= 1
    /\ lead[l].status # "approved" => Noted(l) = {}

\* leads_routes.py:117, "once approved the Contact is the record of truth" with
\* which the lead may not silently disagree: the notes of an approved lead's
\* contact tell of its last extraction, unless a hand has replaced them or two
\* requests for the lead, or approvals into the contact, overlapped.
BookAgrees ==
  \A l \in Leads \ raced, c \in Contacts :
    lead[l].status = "approved" /\ lead[l].contact = c /\ contact[c].kept =>
      \E n \in contact[c].notes : n[2] = l /\ n[3] = lead[l].text

\* lead_extraction.py:264, "a repeat caller accumulates notes instead of spawning
\* duplicates", and the import skips the phones it finds: two contacts of one
\* phone come of a hand, or of two requests that looked for it at once.
PhoneOnce ==
  \A c, d \in Contacts :
    c # d /\ contact[c].phone = contact[d].phone /\ contact[c].phone # None
          /\ {contact[c].by, contact[d].by} \subseteq Requests
      => contact[c].phone \in raced
=============================================================================
