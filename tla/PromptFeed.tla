------------------------------ MODULE PromptFeed ------------------------------
(***************************************************************************)
(* What a chat session promises about the messages it is given: each one   *)
(* reaches the model's context at least once.  Messages are numbered from  *)
(* 1 in the order they were handed over.  A message is "fed" once the      *)
(* model has evaluated it and "acked" once the session will never send it  *)
(* again; until then it may be sent any number of times.                   *)
(***************************************************************************)
EXTENDS Naturals

VARIABLES sent,   \* how many messages the session was given
          fed,    \* the messages the model has evaluated
          acked   \* messages 1..acked are never sent again

feedVars == <<sent, fed, acked>>

-----------------------------------------------------------------------------

\* The session starts with one message, the system prompt.
FeedInit == sent = 1 /\ fed = {} /\ acked = 0

\* A new message arrives and waits to be evaluated.
Submit ==
  /\ sent' = sent + 1
  /\ UNCHANGED <<fed, acked>>

\* Everything submitted is evaluated.  The model's own answer, evaluated as it
\* was produced, may become a message in the same step.
Feed ==
  /\ sent' \in {sent, sent + 1}
  /\ fed' = 1..sent'
  /\ UNCHANGED acked

\* The turn is over.  Only a fully evaluated history may be acknowledged; an
\* answer may be added to it.
Ack ==
  /\ fed = 1..sent
  /\ sent' \in {sent, sent + 1}
  /\ fed' = 1..sent'
  /\ acked' = sent'

FeedNext == Submit \/ Feed \/ Ack

FeedSpec == FeedInit /\ [][FeedNext]_feedVars

-----------------------------------------------------------------------------

\* Every acknowledged message has been evaluated: none is ever lost.
AckedIsFed == 1..acked \subseteq fed

=============================================================================
