------------------------------ MODULE MCParts ------------------------------
(***************************************************************************)
(* The parts of the system that share no state with the chat and none with *)
(* each other, in one instance for TLC: a behaviour is one of the part     *)
(* chosen at the beginning, the others rest in an initial state.           *)
(***************************************************************************)
EXTENDS Notifications, Monitoring, Schema, Accounts, Configuration, Versions,
        BrowserSession, ConversationList, MessageHistory, Chunking

VARIABLE part

Parts == {"notifications", "monitoring", "schema", "accounts", "configuration",
          "versions", "browser", "list", "history", "chunking"}

\* A host with load, an idle one and one without a number.
MCSeriesSets ==
    {<<[scope |-> "a", points |-> <<20, 80>>], [scope |-> "b", points |-> <<Null, 20>>]>>,
     <<[scope |-> "a", points |-> <<Null>>]>>}

Rests(p) == part # p

PartsInit ==
    /\ part \in Parts
    /\ NotificationsInit /\ (Rests("notifications") => ~configured)
    /\ MonitoringInit
    /\ SchemaInit /\ (Rests("schema") => schema = {})
    /\ AccountsInit /\ (Rests("accounts") => ~fixed)
    /\ BrowserInit /\ (Rests("browser") => stored = 0)
    /\ ListInit /\ (Rests("list") => rows = [c \in Chats |-> 0])
    /\ HistoryInit /\ (Rests("history") => table = [i \in Store!MessageIds |-> "free"])
    /\ VersionsInit /\ (Rests("versions") => source = 1 /\ state.source = 1)
    /\ IF Rests("configuration")
       THEN env = Example /\ process = "down" /\ config = NoConfig /\ served = NoHeaders
       ELSE ConfigurationInit
    /\ IF Rests("chunking")
       THEN /\ size = 1 /\ chunkSize = 1 /\ overlap = 0
            /\ start = 0 /\ chunks = {} /\ split = FALSE
            /\ text = [p \in {0} |-> "letter"]
       ELSE ChunkingInit


\* The parts whose turn it is not rest.
OthersRest ==
    /\ IF Rests("notifications") THEN UNCHANGED notificationVars ELSE TRUE
    /\ IF Rests("monitoring") THEN UNCHANGED monitoringVars ELSE TRUE
    /\ IF Rests("schema") THEN UNCHANGED schemaVars ELSE TRUE
    /\ IF Rests("accounts") THEN UNCHANGED accountVars ELSE TRUE
    /\ IF Rests("configuration") THEN UNCHANGED configurationVars ELSE TRUE
    /\ IF Rests("versions") THEN UNCHANGED versionVars ELSE TRUE
    /\ IF Rests("browser") THEN UNCHANGED browserVars ELSE TRUE
    /\ IF Rests("list") THEN UNCHANGED listVars ELSE TRUE
    /\ IF Rests("history") THEN UNCHANGED historyVars ELSE TRUE
    /\ IF Rests("chunking") THEN UNCHANGED chunkVars ELSE TRUE

PartsNext ==
    /\ UNCHANGED part
    /\ \/ part = "notifications" /\ NotificationsNext
       \/ part = "monitoring" /\ MonitoringNext
       \/ part = "schema" /\ SchemaNext
       \/ part = "accounts" /\ AccountsNext
       \/ part = "configuration" /\ ConfigurationNext
       \/ part = "versions" /\ VersionsNext
       \/ part = "browser" /\ BrowserNext
       \/ part = "list" /\ ListNext
       \/ part = "history" /\ HistoryNext
       \/ part = "chunking" /\ ChunkingNext
    /\ OthersRest

partsVars == <<part, notificationVars, monitoringVars, schemaVars, accountVars,
               configurationVars, versionVars, browserVars, listVars, historyVars,
               chunkVars>>

PartsSpec == PartsInit /\ [][PartsNext]_partsVars

\* Only the part whose turn it is tells states apart.
PartsView ==
    CASE part = "notifications" -> <<part, notificationVars>>
      [] part = "monitoring" -> <<part, monitoringVars>>
      [] part = "schema" -> <<part, schemaVars>>
      [] part = "accounts" -> <<part, accountVars>>
      [] part = "configuration" -> <<part, configurationVars>>
      [] part = "versions" -> <<part, versionVars>>
      [] part = "browser" -> <<part, browserVars>>
      [] part = "list" -> <<part, listVars>>
      [] part = "history" -> <<part, historyVars>>
      [] part = "chunking" -> <<part, chunkVars>>
=============================================================================
