----------------------------- MODULE MCChatbot -----------------------------
(***************************************************************************)
(* Chatbot on small instances.                                             *)
(***************************************************************************)
EXTENDS Chatbot, TLC

Symmetry == Permutations(Messages)

\* Bound of the runs about replies: switched off, the chatbot sends none.
SwitchedOn == chatbot_enabled
=============================================================================
