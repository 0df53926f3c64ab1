--------------------------- MODULE MCConversations ---------------------------
(***************************************************************************)
(* What the backend makes of conversations: the leads and contacts of      *)
(* Leads, and the summaries of Summaries.  They share no row and no        *)
(* variable, so a behaviour of both is any interleaving of one of each.    *)
(* Each of the two runs gives one of them its rows and requests, and the   *)
(* other none.                                                             *)
(***************************************************************************)
EXTENDS Leads, TLC

CONSTANTS Chats, Messages, Runs, Activity, Window, MaxTime, MaxDigests

VARIABLES now, message, active, summaries, run, digests, overlapped

talk == <<now, message, active, summaries, run, digests, overlapped>>

Talk == INSTANCE Summaries

ASSUME BoundsAssumption == Talk!SummariesAssumption

ConversationsInit == Init /\ Talk!Init

ConversationsNext ==
  \/ Next /\ UNCHANGED talk
  \/ Talk!Next /\ UNCHANGED vars

ConversationsSpec == ConversationsInit /\ [][ConversationsNext]_<<vars, talk>>

\* Summaries states and explains these: every message is in a summary unless it was
\* committed too late, in one unless runs overlapped, and every summary in a digest.
NothingLost == Talk!NothingLost
SummarisedOnce == Talk!SummarisedOnce
DigestsComplete == Talk!DigestsComplete

\* Requests, rows and ids, messages and runs are interchangeable.
Symmetry == UNION { Permutations(S) : S \in { Requests, Leads, Contacts, Messages, Runs } }
=============================================================================
