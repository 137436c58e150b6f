---------------------------- MODULE TerminalTabs ----------------------------
(***************************************************************************)
(* The tabs of the terminal panel (useTerminalTabs.js, WindowTerminal.jsx) *)
(* and what they leave in localStorage: the list of tabs, the active one,  *)
(* and for each tab its output and history, written by an effect that runs *)
(* some time after the render that shows them. The title of a tab is its   *)
(* position; how its session is doing is whatever the gateway says.        *)
(***************************************************************************)
EXTENDS SequencesExt

CONSTANTS Tabs,     \* identities of tabs, never given twice by generateTabId
          MaxTabs,  \* MAX_TABS
          None      \* nothing

\* connectionState, as far as the panel asks for it.
ConnectionStates == {"connected", "session_limit", "other"}

ASSUME TabsAssumption == /\ None \notin Tabs \cup ConnectionStates
                         /\ IsFiniteSet(Tabs) /\ MaxTabs \in 1..Cardinality(Tabs)

VARIABLES tabs,       \* the list, empty while another panel is open
          active,     \* activeTabId
          activated,  \* the tabs that were active once since the panel was opened
          conn,       \* tab -> connectionState, or None: no content
          limit,      \* sessionLimitReached, which hides the button for a new tab
          stored,     \* the list and the active tab in localStorage
          keys,       \* tabs whose output or history is in localStorage
          unsaved,    \* tabs whose output is rendered, with the effect that stores it to come
          raced       \* history: tabs closed in between
tabVars == <<tabs, active, activated, conn, limit, stored, keys, unsaved, raced>>

Listed == ToSet(tabs)
\* A tab that no list, key or effect knows.
Fresh == Tabs \ (Listed \cup activated \cup ToSet(stored.tabs) \cup keys \cup raced)
NothingStored == [tabs |-> <<>>, active |-> None]

\* Effects that are due run before anything is rendered again.
Flush == keys \cup unsaved

\* No panel, an empty localStorage.
TabsInit == /\ tabs = <<>> /\ active = None /\ activated = {} /\ limit = FALSE
            /\ conn = [t \in Tabs |-> None]
            /\ stored = NothingStored /\ keys = {} /\ unsaved = {} /\ raced = {}

\* The effect on tabs and activeTabId.
StoreTabs == stored' = [tabs |-> tabs', active |-> active']

\* The effect of the content that has become the active one: it tells the panel
\* how its session is doing.
Notified(t, flag) == IF conn[t] = "session_limit" THEN TRUE ELSE IF conn[t] = "connected" THEN FALSE ELSE flag

\* readStoredTabs, readStoredActiveTab, then the first effects. No list longer
\* than MAX_TABS was ever stored.
OpenTabs ==
  \E list \in IF stored.tabs = <<>> THEN {<<t>> : t \in Fresh} ELSE {stored.tabs} :
    LET first == IF stored.active \in ToSet(list) THEN stored.active ELSE list[1]
    IN  /\ tabs' = list /\ active' = first /\ activated' = {first} /\ limit' = FALSE
        /\ conn' = [t \in Tabs |-> IF t = first THEN "other" ELSE None]
        /\ unsaved' = {first}
        /\ StoreTabs
        /\ UNCHANGED <<keys, raced>>

\* The panel is left, its due effects run; a reload of the page drops them.
LeaveTabs(reload) ==
  /\ tabs' = <<>> /\ active' = None /\ activated' = {} /\ limit' = FALSE
  /\ conn' = [t \in Tabs |-> None]
  /\ keys' = (IF reload THEN keys ELSE Flush) /\ unsaved' = {}
  /\ UNCHANGED <<stored, raced>>

\* addTab. The effect on tabs.length takes the flag down.
AddTab ==
  /\ Len(tabs) \in 1..(MaxTabs - 1) /\ ~limit
  /\ \E t \in Fresh : /\ tabs' = Append(tabs, t) /\ active' = t /\ activated' = activated \cup {t}
                      /\ conn' = [conn EXCEPT ![t] = "other"]
                      /\ unsaved' = {t}
  /\ limit' = FALSE
  /\ keys' = Flush
  /\ StoreTabs
  /\ UNCHANGED raced

\* Mutant: the content of the newly active tab does not tell how its session is doing.
SelectTab_Silent(t) ==
  /\ t \in Listed \ {active}
  /\ active' = t /\ activated' = activated \cup {t} /\ limit' = limit
  /\ conn' = [conn EXCEPT ![t] = IF @ = None THEN "other" ELSE @]
  /\ keys' = Flush /\ unsaved' = {t} \ activated
  /\ UNCHANGED <<tabs, raced>>
  /\ StoreTabs

\* A tab's button. Its content is rendered from then on.
SelectTab(t) ==
  /\ t \in Listed \ {active}
  /\ active' = t /\ activated' = activated \cup {t} /\ limit' = Notified(t, limit)
  /\ conn' = [conn EXCEPT ![t] = IF @ = None THEN "other" ELSE @]
  /\ keys' = Flush /\ unsaved' = {t} \ activated
  /\ UNCHANGED <<tabs, raced>>
  /\ StoreTabs

\* Mutant: another tab is made active only if the first one is closed.
NextActive_First(t) == IF t = active /\ t = tabs[1] THEN tabs[2] ELSE active

\* closedIndex, and the tabs without the one that is closed: no tab is listed twice.
Position(t) == CHOOSE i \in DOMAIN tabs : tabs[i] = t
NextTabs(t) == RemoveAt(tabs, Position(t))

\* The tab before the one that is closed, or the new first one.
NextActive(t) ==
  IF t # active THEN active ELSE NextTabs(t)[IF Position(t) = 1 THEN 1 ELSE Position(t) - 1]

\* Mutant: what the tab left in localStorage stays there.
CleanUp_Nothing(t) == keys' = Flush /\ raced' = raced

\* closeTab removes what the tab stored, either at the click, before the effects
\* that are due, or while it renders, after them.
CleanUp(t) == \/ keys' = (keys \ {t}) \cup unsaved /\ raced' = raced \cup ({t} \cap unsaved)
              \/ keys' = Flush \ {t} /\ raced' = raced

\* closeTab, on one of several tabs.
CloseTab(t) ==
  /\ Len(tabs) > 1 /\ t \in Listed
  /\ tabs' = NextTabs(t)
  /\ active' = NextActive(t)
  /\ activated' = activated \cup {active'}
  /\ conn' = [conn EXCEPT ![t] = None, ![active'] = IF @ = None THEN "other" ELSE @]
  /\ limit' = FALSE
  /\ unsaved' = {active'} \ activated
  /\ CleanUp(t)
  /\ StoreTabs

\* The state of a tab's session changes; the active tab tells the panel.
SessionState(t, state) ==
  /\ conn[t] \notin {None, state}
  /\ conn' = [conn EXCEPT ![t] = state]
  /\ limit' = CASE t = active /\ state = "session_limit" -> TRUE
                [] t = active /\ state = "connected" -> FALSE
                [] OTHER -> limit
  /\ keys' = Flush /\ unsaved' = {}
  /\ UNCHANGED <<tabs, active, activated, stored, raced>>

\* Output or history of a tab is rendered.
Output(t) ==
  /\ conn[t] # None
  /\ keys' = Flush /\ unsaved' = {t}
  /\ UNCHANGED <<tabs, active, activated, conn, limit, stored, raced>>

\* The effects that are due run.
Save == unsaved # {} /\ keys' = Flush /\ unsaved' = {}
        /\ UNCHANGED <<tabs, active, activated, conn, limit, stored, raced>>

TabsNext == \/ AddTab \/ Save
            \/ \E t \in Tabs : SelectTab(t) \/ CloseTab(t) \/ Output(t)
            \/ \E t \in Tabs, state \in ConnectionStates : SessionState(t, state)

-----------------------------------------------------------------------------
\* Ranges; no tab is listed twice, none beyond MAX_TABS.
TabsTypeOK ==
  /\ tabs \in BoundedSeq(Tabs, MaxTabs) /\ IsInjective(tabs)
  /\ active \in Tabs \cup {None} /\ activated \subseteq Tabs /\ limit \in BOOLEAN
  /\ conn \in [Tabs -> ConnectionStates \cup {None}]
  /\ stored.tabs \in BoundedSeq(Tabs, MaxTabs) /\ stored.active \in Tabs \cup {None}
  /\ keys \subseteq Tabs /\ unsaved \subseteq Tabs /\ raced \subseteq Tabs

\* While the panel is open exactly one tab shows its content, whatever was
\* added, closed, selected or restored (useTerminalTabs): the active tab is in
\* the list, its content is rendered, and localStorage holds the same choice.
OneTabShown == tabs # <<>> => active \in Listed /\ conn[active] # None
                              /\ stored = [tabs |-> tabs, active |-> active]

\* The button for a new tab is never withheld for a session limit while the
\* tab the user looks at is connected (the effect of TerminalTabContent, the
\* effect on tabs.length).
LimitNotStale == limit => conn[active] # "connected"

\* "Clean up localStorage for deleted tab" (closeTab): output and history are kept
\* only for tabs that can come back. The exception is a tab whose output was
\* rendered but not stored when it was closed: the effect that stores it runs
\* after the removal, and nothing removes it again.
NothingLeftBehind == keys \subseteq ToSet(stored.tabs) \cup raced
=============================================================================
