------------------------------ MODULE MCServer ------------------------------
(***************************************************************************)
(* Four parts of the server that share no state, in one instance for TLC:  *)
(* the process, the limiter, the conversation list and the messages of a   *)
(* conversation.  A behaviour is one of the part chosen at the beginning;  *)
(* the others rest in an initial state in which nothing has been asked of  *)
(* them, so that their fairness asks for nothing either.                   *)
(***************************************************************************)
EXTENDS Lifecycle, RateLimit, ConversationPages, MessagePages

VARIABLE part

Parts == {"lifecycle", "limiter", "conversations", "messages"}

Rests(p) == part # p

ServerInit ==
    /\ part \in Parts
    /\ LifecycleInit
    /\ Init
    /\ PagesInit /\ (Rests("conversations") => Rows = {})
    /\ MessagePagesInit /\ (Rests("messages") => \A i \in MessageIds : row[i] = "free")

OthersRest ==
    /\ IF Rests("lifecycle") THEN UNCHANGED lifecycleVars ELSE TRUE
    /\ IF Rests("limiter") THEN UNCHANGED vars ELSE TRUE
    /\ IF Rests("conversations") THEN UNCHANGED pagesVars ELSE TRUE
    /\ IF Rests("messages") THEN UNCHANGED messagePagesVars ELSE TRUE

ServerNext ==
    /\ UNCHANGED part
    /\ \/ part = "lifecycle" /\ LifecycleNext
       \/ part = "limiter" /\ Next
       \/ part = "conversations" /\ PagesNext
       \/ part = "messages" /\ MessagePagesNext
    /\ OthersRest

serverVars == <<part, lifecycleVars, vars, pagesVars, messagePagesVars>>

ServerSpec ==
    /\ ServerInit /\ [][ServerNext]_serverVars
    /\ LifecycleFairness
    /\ PagesFairness
=============================================================================
