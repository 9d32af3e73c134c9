---------------------------- MODULE BrowserSession ----------------------------
(***************************************************************************)
(* The versions of the application in the tabs of one browser              *)
(* (initializeObservability, main.jsx): a tab that finds another version   *)
(* than the last one in localStorage ends the monitoring session and       *)
(* reloads, once, which it notes in its own sessionStorage.  Tabs opened   *)
(* before and after a release share localStorage.                          *)
(***************************************************************************)
EXTENDS Integers

CONSTANTS
    Windows,        \* the tabs
    MaxReleases,    \* bound: releases after the first
    MaxOpens        \* bound: how often a tab is opened or reloaded by the user

VARIABLES
    live,       \* the version that is served
    stored,     \* VERSION_KEY in localStorage, 0 if there is none
    win,        \* the tabs
    opens       \* per tab: how often the user opened or reloaded it

browserVars == <<live, stored, win, opens>>

Closed == [stage |-> "closed", version |-> 0, reloadKey |-> 0, reloads |-> 0, since |-> 0]

BrowserInit ==
    /\ live = 1
    /\ stored \in {0, 1}
    /\ win = [w \in Windows |-> Closed]
    /\ opens = [w \in Windows |-> 0]
-----------------------------------------------------------------------------
\* The user opens or reloads the tab; its sessionStorage stays.
Open(w) ==
    /\ win[w].stage \in {"closed", "rendered"}
    /\ opens[w] < MaxOpens
    /\ opens' = [opens EXCEPT ![w] = @ + 1]
    /\ win' = [win EXCEPT ![w].stage = "loading", ![w].reloads = 0, ![w].since = live]
    /\ UNCHANGED <<live, stored>>

\* The bundle arrives, with the version it was built with.
Fetch(w) ==
    /\ win[w].stage = "loading"
    /\ win' = [win EXCEPT ![w].stage = "fetched", ![w].version = live]
    /\ UNCHANGED <<live, stored, opens>>

\* Mutant: only localStorage tells that the tab has been reloaded.
ReloadRequiredAgain(w) == stored # 0 /\ stored # win[w].version

ReloadRequired(w) ==
    /\ stored # 0
    /\ stored # win[w].version
    /\ win[w].reloadKey # win[w].version

\* initializeObservability: both keys are written, and either the page is
\* loaded again or App is rendered.
Initialize(w) ==
    /\ win[w].stage = "fetched"
    /\ stored' = win[w].version
    /\ win' = IF ReloadRequired(w)
              THEN [win EXCEPT ![w].stage = "loading", ![w].reloadKey = win[w].version,
                               ![w].reloads = @ + 1]
              ELSE [win EXCEPT ![w].stage = "rendered", ![w].reloadKey = 0]
    /\ UNCHANGED <<live, opens>>

\* A new version is served from now on.
Deploy ==
    /\ live <= MaxReleases
    /\ live' = live + 1
    /\ UNCHANGED <<stored, win, opens>>

BrowserNext ==
    \/ \E w \in Windows : Open(w) \/ Fetch(w) \/ Initialize(w)
    \/ Deploy

BrowserSpec == BrowserInit /\ [][BrowserNext]_browserVars
-----------------------------------------------------------------------------
\* A tab reloads itself at most once for the version it was opened with and
\* once for each version released since, whatever the other tabs write into
\* the localStorage they share: tabs of two versions do not reload each other
\* for ever.
ReloadsOncePerVersion ==
    \A w \in Windows : win[w].reloads <= 1 + live - win[w].since
=============================================================================
