--------------------------- MODULE AppShellProofs ---------------------------
(* Machine-checked theorems about AppShell.                                *)
EXTENDS AppShell, FiniteSetTheorems, TLAPS

\* The stored copies are those of the page, or were cleared: the settings are cleared
\* together with a return to the defaults, and stored again by the next change.
IInv == /\ settings \in Settings /\ panel \in AllPanels
        /\ storedPanel \in {panel, None}
        /\ \/ storedSettings = settings
           \/ storedSettings = None /\ settings = DefaultSettings

\* Values that normalizeSettings accepts stay as they are, others become defaults.
LEMMA NormalizeFacts ==
    /\ DefaultSettings \in Settings
    /\ \A s \in Files : Normalize(s) \in Settings
    /\ \A s \in Settings : Normalize(s) = s
BY PanelsAssumption DEF Normalize, Settings, Files, Values, DefaultSettings

\* updateSetting, for a value of the setting or an invalid one.
LEMMA UpdateFacts ==
    ASSUME NEW s \in Settings, NEW key \in DOMAIN DefaultSettings, NEW value \in Values[key] \cup {Bad}
    PROVE  UpdateSetting(s, key, value) \in Settings
<1>1. [s EXCEPT ![key] = value] \in Files
  BY DEF Settings, Files, Values, DefaultSettings
<1> QED
  BY <1>1, NormalizeFacts DEF UpdateSetting

\* What the effects make of new settings.
LEMMA SettleFacts ==
    ASSUME IInv, NEW s \in Settings, NEW cleared \in BOOLEAN, Settle(s, cleared)
    PROVE  settings' = s /\ panel' \in AllPanels /\ storedPanel' \in {panel', None}
<1>1. settings' = s /\ panel' \in AllPanels
  BY DEF Settle, OpenDefault, IInv, Settings, Values
<1>2. storedPanel' \in {panel', None}
  BY DEF Settle, StorePanel, IInv
<1> QED
  BY <1>1, <1>2

\* A page that is loaded again has its settings, and chooses as they say.
LEMMA ReloadFacts ==
    ASSUME IInv, Reload
    PROVE  /\ settings' = settings /\ storedSettings' = settings /\ storedPanel' = panel'
           /\ panel' = IF settings.autoOpen = "on" /\ storedPanel # None THEN panel
                       ELSE settings.defaultPanel
<1>1. ReadSettings = settings
  BY PanelsAssumption, NormalizeFacts DEF ReadSettings, IInv
<1>2. settings.autoOpen \in {"on", "off"} /\ settings.defaultPanel \in AllPanels
  BY DEF IInv, Settings, Values
<1> QED
  BY <1>1, <1>2, PanelsAssumption DEF Reload, ResolvePanel, IInv

LEMMA InvInit == Init => IInv
BY PanelsAssumption, NormalizeFacts DEF Init, IInv

LEMMA InvNext == IInv /\ [Next]_vars => IInv'
<1> SUFFICES ASSUME IInv, [Next]_vars PROVE IInv'
  OBVIOUS
<1>1. ASSUME NEW p \in AllPanels, SetActivePanel(p) PROVE IInv'
  BY <1>1 DEF SetActivePanel, IInv
<1>2. CASE Swap \/ Terminal \/ ChooseFile \/ UNCHANGED vars
  BY <1>2 DEF Swap, Terminal, ChooseFile, vars, shellVars, IInv
<1>3. ASSUME NEW key \in DOMAIN DefaultSettings, ChangeSetting(key) PROVE IInv'
  <2>1. PICK value \in Values[key] :
          LET s == UpdateSetting(settings, key, value) IN storedSettings' = s /\ Settle(s, FALSE)
    BY <1>3 DEF ChangeSetting
  <2>2. PICK s \in Settings : s = UpdateSetting(settings, key, value)
    BY UpdateFacts DEF IInv
  <2>3. storedSettings' = s /\ Settle(s, FALSE)
    BY <2>1, <2>2
  <2>4. settings' = s /\ panel' \in AllPanels /\ storedPanel' \in {panel', None}
    BY <2>3, SettleFacts
  <2> QED
    BY <2>3, <2>4 DEF IInv
<1>8. CASE ChangeGeneral \/ ChangeLooks \/ ChangeAdvanced
  <2>1. {"defaultPanel", "autoOpen", "looks"} \subseteq DOMAIN DefaultSettings
    BY DEF DefaultSettings
  <2> QED
    BY <1>3, <1>8, <2>1 DEF ChangeGeneral, ChangeLooks, ChangeAdvanced
<1>4. CASE ResetSettings
  BY <1>4, NormalizeFacts, SettleFacts DEF ResetSettings, IInv
<1>5. CASE ClearLocalPreferences
  BY <1>5, NormalizeFacts, SettleFacts DEF ClearLocalPreferences, IInv
<1>6. CASE ImportSettings
  <2>1. CASE UNCHANGED <<panel, shown, settings, storedPanel, storedSettings, tabVars>>
    BY <2>1 DEF IInv
  <2>2. CASE \E file \in Files :
               LET s == UpdateSetting(UpdateSetting(UpdateSetting(settings, "defaultPanel", file.defaultPanel),
                                                    "autoOpen", file.autoOpen), "looks", file.looks)
               IN  storedSettings' = s /\ Settle(s, FALSE)
    <3>1. PICK file \in Files :
            LET s == UpdateSetting(UpdateSetting(UpdateSetting(settings, "defaultPanel", file.defaultPanel),
                                                 "autoOpen", file.autoOpen), "looks", file.looks)
            IN  storedSettings' = s /\ Settle(s, FALSE)
      BY <2>2
    <3>2. /\ file.defaultPanel \in Values["defaultPanel"] \cup {Bad}
          /\ file.autoOpen \in Values["autoOpen"] \cup {Bad} /\ file.looks \in Values["looks"] \cup {Bad}
          /\ {"defaultPanel", "autoOpen", "looks"} \subseteq DOMAIN DefaultSettings
      BY DEF Files, Values, DefaultSettings
    <3>3. PICK s1 \in Settings : s1 = UpdateSetting(settings, "defaultPanel", file.defaultPanel)
      BY <3>2, UpdateFacts DEF IInv
    <3>4. PICK s2 \in Settings : s2 = UpdateSetting(s1, "autoOpen", file.autoOpen)
      BY <3>2, UpdateFacts
    <3>5. PICK s \in Settings : s = UpdateSetting(s2, "looks", file.looks)
      BY <3>2, UpdateFacts
    <3>6. storedSettings' = s /\ Settle(s, FALSE)
      BY <3>1, <3>3, <3>4, <3>5
    <3>7. settings' = s /\ panel' \in AllPanels /\ storedPanel' \in {panel', None}
      BY <3>6, SettleFacts
    <3> QED
      BY <3>6, <3>7 DEF IInv
  <2> QED
    BY <1>6, <2>1, <2>2 DEF ImportSettings
<1>7. CASE Reload
  <2>1. panel' \in AllPanels
    BY <1>7, ReloadFacts DEF IInv, Settings, Values
  <2> QED
    BY <1>7, <2>1, ReloadFacts DEF IInv
<1> QED
  BY <1>1, <1>2, <1>4, <1>5, <1>6, <1>7, <1>8 DEF Next

\* The panel in localStorage is the chosen one or none, whether a click, a setting,
\* an imported file or a reload of the page chose it.
THEOREM PanelIsRemembered == Spec => []RememberedPanel
<1>1. IInv => RememberedPanel
  BY DEF IInv, RememberedPanel
<1> QED
  BY <1>1, InvInit, InvNext, PTL DEF Spec

\* A reload keeps the settings and opens the panel that they ask for.
THEOREM ReloadOpensAsConfigured == Spec => OpensAsConfigured
<1>1. IInv /\ [Next]_vars => [Reload => /\ settings' = settings
                                        /\ panel' = IF settings.autoOpen = "on" /\ storedPanel # None
                                                    THEN panel ELSE settings.defaultPanel]_vars
  BY ReloadFacts
<1> QED
  BY <1>1, InvInit, InvNext, PTL DEF Spec, OpensAsConfigured

-----------------------------------------------------------------------------
(* The session limit *)

States == ConnectionStates \cup {None}

\* The flag is up only for a tab that is there and not connected.
LimitInv == /\ conn \in [Tabs -> States]
            /\ limit => active \in Tabs
            /\ LimitNotStale

\* What opens and what leaves the panel takes the flag down.
LEMMA LimitPanel ==
    ASSUME OpenTabs \/ \E reload \in BOOLEAN : LeaveTabs(reload)
    PROVE  LimitInv'
<1>1. conn' \in [Tabs -> States] /\ ~limit'
  BY DEF OpenTabs, LeaveTabs, States, ConnectionStates
<1> QED
  BY <1>1 DEF LimitInv, LimitNotStale

LEMMA LimitTabs ==
    ASSUME LimitInv, TabsNext
    PROVE  LimitInv'
<1>1. CASE AddTab
  <2>1. conn' \in [Tabs -> States] /\ ~limit'
    BY <1>1 DEF AddTab, Fresh, LimitInv, States, ConnectionStates
  <2> QED
    BY <2>1 DEF LimitInv, LimitNotStale
<1>2. ASSUME NEW t \in Tabs, SelectTab(t)
      PROVE  LimitInv'
  <2>1. /\ conn' = [conn EXCEPT ![t] = IF @ = None THEN "other" ELSE @]
        /\ active' = t /\ limit' = Notified(t, limit)
    BY <1>2 DEF SelectTab
  <2>2. conn' \in [Tabs -> States] /\ conn'[t] \in {"other", conn[t]}
    BY <2>1 DEF LimitInv, States, ConnectionStates
  <2>3. limit' => conn'[t] # "connected"
    <3>1. CASE conn[t] = "connected"
      BY <2>1, <3>1 DEF Notified
    <3>2. CASE conn[t] # "connected"
      BY <2>2, <3>2
    <3> QED
      BY <3>1, <3>2
  <2> QED
    BY <2>1, <2>2, <2>3 DEF LimitInv, LimitNotStale
<1>3. ASSUME NEW t \in Tabs, CloseTab(t)
      PROVE  LimitInv'
  <2>1. conn' \in [Tabs -> States] /\ ~limit'
    BY <1>3 DEF CloseTab, LimitInv, States, ConnectionStates
  <2> QED
    BY <2>1 DEF LimitInv, LimitNotStale
<1>4. ASSUME NEW t \in Tabs, NEW state \in ConnectionStates, SessionState(t, state)
      PROVE  LimitInv'
  <2>1. conn' = [conn EXCEPT ![t] = state] /\ active' = active
    BY <1>4 DEF SessionState
  <2>2. conn' \in [Tabs -> States] /\ conn'[t] = state
    BY <2>1 DEF LimitInv, States, ConnectionStates
  <2>3. CASE t = active
    <3>1. limit' => state # "connected"
      BY <1>4, <2>3 DEF SessionState
    <3> QED
      BY <2>1, <2>2, <2>3, <3>1 DEF LimitInv, LimitNotStale
  <2>4. CASE t # active
    <3>1. limit' = limit
      BY <1>4, <2>4 DEF SessionState
    <3> QED
      BY <2>1, <2>2, <2>4, <3>1 DEF LimitInv, LimitNotStale
  <2> QED
    BY <2>3, <2>4
<1>5. ASSUME NEW t \in Tabs, Output(t)
      PROVE  LimitInv'
  BY <1>5 DEF Output, LimitInv, LimitNotStale
<1>6. CASE Save
  BY <1>6 DEF Save, LimitInv, LimitNotStale
<1> QED
  BY <1>1, <1>2, <1>3, <1>4, <1>5, <1>6 DEF TabsNext

LEMMA LimitStep == LimitInv /\ [Next]_vars => LimitInv'
<1> SUFFICES ASSUME LimitInv, [Next]_vars PROVE LimitInv'
  OBVIOUS
<1>1. CASE UNCHANGED tabVars
  BY <1>1 DEF tabVars, LimitInv, LimitNotStale
<1>2. CASE OpenTabs \/ LeaveTabs(TRUE) \/ LeaveTabs(FALSE)
  BY <1>2, LimitPanel
<1>3. CASE TabsNext
  BY <1>3, LimitTabs
<1>4. \/ UNCHANGED tabVars \/ TabsNext
      \/ OpenTabs \/ LeaveTabs(TRUE) \/ LeaveTabs(FALSE)
  BY DEF Next, vars, SetActivePanel, Swap, Reload, ChangeGeneral, ChangeLooks, ChangeAdvanced, ChangeSetting,
         ResetSettings, ClearLocalPreferences, ChooseFile, ImportSettings, Terminal, Settle
<1> QED
  BY <1>1, <1>2, <1>3, <1>4

\* However tabs are added, selected and closed while their sessions come and go, the
\* button for a new tab is not withheld from the user of a connected tab.
THEOREM LimitNeverStale == Spec => []LimitNotStale
<1>1. Init => LimitInv
  BY DEF Init, TabsInit, LimitInv, LimitNotStale, States, ConnectionStates
<1>2. LimitInv => LimitNotStale
  BY DEF LimitInv
<1> QED
  BY <1>1, <1>2, LimitStep, PTL DEF Spec

-----------------------------------------------------------------------------
(* The tabs and what they leave in localStorage *)

\* Lists of at most MAX_TABS tabs, none of them twice.
Lists == {s \in Seq(Tabs) : Len(s) <= MaxTabs /\ IsInjective(s)}

\* A tab that has content or output to be stored is in the list; so an effect writes
\* only keys of tabs that are listed when it runs, or of tabs closed before it ran.
TabInv == /\ tabs \in Lists /\ stored \in [tabs : Lists, active : Tabs \cup {None}]
          /\ active \in Tabs \cup {None} /\ activated \subseteq Tabs
          /\ conn \in [Tabs -> States] /\ limit \in BOOLEAN
          /\ keys \subseteq Tabs /\ unsaved \subseteq Listed /\ raced \subseteq Tabs
          /\ \A t \in Tabs : conn[t] # None => t \in Listed
          /\ OneTabShown /\ NothingLeftBehind

LEMMA BoundIsNat == MaxTabs \in Nat /\ MaxTabs >= 1
BY TabsAssumption, FS_CardinalityType

\* A list of the bounded kind is one that TLC enumerates.
LEMMA ListBounded ==
    ASSUME NEW s \in Lists
    PROVE  s \in BoundedSeq(Tabs, MaxTabs) /\ IsInjective(s) /\ ToSet(s) \subseteq Tabs
<1>1. s \in Seq(Tabs) /\ Len(s) \in 0..MaxTabs /\ IsInjective(s)
  BY BoundIsNat DEF Lists
<1>2. s \in [1..Len(s) -> Tabs]
  BY <1>1
<1> QED
  BY <1>1, <1>2 DEF BoundedSeq, SeqOf, ToSet

\* A new tab at the end of a list that has room.
LEMMA ListAppend ==
    ASSUME NEW s \in Lists, NEW t \in Tabs, t \notin ToSet(s), Len(s) < MaxTabs
    PROVE  /\ Append(s, t) \in Lists /\ Append(s, t) # <<>>
           /\ ToSet(Append(s, t)) = ToSet(s) \cup {t}
<1>1. s \in Seq(Tabs) /\ IsInjective(s)
  BY DEF Lists
<1>2. /\ Append(s, t) \in Seq(Tabs) /\ Len(Append(s, t)) = Len(s) + 1
      /\ DOMAIN Append(s, t) = 1..(Len(s) + 1)
      /\ \A i \in 1..Len(s) : Append(s, t)[i] = s[i]
      /\ Append(s, t)[Len(s) + 1] = t
      /\ DOMAIN s = 1..Len(s) /\ Len(s) \in Nat
  BY <1>1
<1>3. IsInjective(Append(s, t))
  BY <1>1, <1>2 DEF IsInjective, ToSet
<1>4. ToSet(Append(s, t)) = ToSet(s) \cup {t}
  BY <1>1, <1>2 DEF ToSet
<1>5. Len(s) + 1 <= MaxTabs
  BY <1>2, BoundIsNat
<1> QED
  BY <1>1, <1>2, <1>3, <1>4, <1>5 DEF Lists

\* A list without one of its tabs.
LEMMA ListRemove ==
    ASSUME NEW s \in Lists, NEW i \in DOMAIN s
    PROVE  /\ RemoveAt(s, i) \in Lists /\ Len(RemoveAt(s, i)) = Len(s) - 1
           /\ ToSet(RemoveAt(s, i)) = ToSet(s) \ {s[i]}
<1> DEFINE r == RemoveAt(s, i)
<1>1. s \in Seq(Tabs) /\ IsInjective(s) /\ Len(s) \in Nat /\ DOMAIN s = 1..Len(s) /\ i \in 1..Len(s)
  BY DEF Lists
<1>2. /\ SubSeq(s, 1, i - 1) \in Seq(Tabs) /\ Len(SubSeq(s, 1, i - 1)) = i - 1
      /\ \A j \in 1..(i - 1) : SubSeq(s, 1, i - 1)[j] = s[j]
  BY <1>1
<1>3. /\ SubSeq(s, i + 1, Len(s)) \in Seq(Tabs) /\ Len(SubSeq(s, i + 1, Len(s))) = Len(s) - i
      /\ \A j \in 1..(Len(s) - i) : SubSeq(s, i + 1, Len(s))[j] = s[i + j]
  BY <1>1
<1>4. /\ r \in Seq(Tabs) /\ Len(r) = Len(s) - 1 /\ DOMAIN r = 1..(Len(s) - 1)
      /\ \A j \in 1..(Len(s) - 1) : r[j] = IF j < i THEN s[j] ELSE s[j + 1]
  <2>1. PICK a \in Seq(Tabs) : a = SubSeq(s, 1, i - 1)
    BY <1>2
  <2>2. PICK b \in Seq(Tabs) : b = SubSeq(s, i + 1, Len(s))
    BY <1>3
  <2>3. r = a \o b
    BY <2>1, <2>2 DEF RemoveAt
  <2>4. Len(a) = i - 1 /\ \A j \in 1..(i - 1) : a[j] = s[j]
    BY <1>2, <2>1
  <2>5. Len(b) = Len(s) - i /\ \A j \in 1..(Len(s) - i) : b[j] = s[i + j]
    BY <1>3, <2>2
  <2>6. r \in Seq(Tabs) /\ Len(r) = Len(s) - 1 /\ DOMAIN r = 1..(Len(s) - 1)
    <3>1. r \in Seq(Tabs) /\ Len(r) = Len(a) + Len(b) /\ DOMAIN r = 1..Len(r)
      BY <2>3
    <3>2. Len(a) + Len(b) = Len(s) - 1
      BY <1>1, <2>4, <2>5
    <3> QED
      BY <3>1, <3>2
  <2>7. ASSUME NEW j \in 1..(Len(s) - 1), j < i PROVE r[j] = s[j]
    BY <1>1, <2>3, <2>4, <2>5, <2>7
  <2>8. ASSUME NEW j \in 1..(Len(s) - 1), ~(j < i) PROVE r[j] = s[j + 1]
    <3>1. r[j] = b[j - (i - 1)] /\ j - (i - 1) \in 1..(Len(s) - i)
      BY <1>1, <2>3, <2>4, <2>5, <2>8
    <3>2. i + (j - (i - 1)) = j + 1
      BY <1>1
    <3> QED
      BY <2>5, <3>1, <3>2
  <2> QED
    BY <2>6, <2>7, <2>8
<1> HIDE DEF r
<1>5. IsInjective(r)
  <2>1. ASSUME NEW j \in 1..(Len(s) - 1), NEW k \in 1..(Len(s) - 1), r[j] = r[k]
        PROVE  j = k
    <3> DEFINE before(n) == IF n < i THEN n ELSE n + 1
    <3>1. /\ before(j) \in DOMAIN s /\ before(k) \in DOMAIN s
          /\ r[j] = s[before(j)] /\ r[k] = s[before(k)]
      BY <1>1, <1>4
    <3>2. before(j) = before(k)
      BY <1>1, <2>1, <3>1 DEF IsInjective
    <3> QED
      BY <1>1, <3>2
  <2> QED
    BY <1>4, <2>1 DEF IsInjective
<1>6. ToSet(r) \subseteq ToSet(s) \ {s[i]}
  BY <1>1, <1>4 DEF IsInjective, ToSet
<1>7. ASSUME NEW k \in 1..Len(s), k # i PROVE s[k] \in ToSet(r)
  <2>1. CASE k < i
    BY <2>1, <1>1, <1>4, <1>7 DEF ToSet
  <2>2. CASE k > i
    <3>1. k - 1 \in 1..(Len(s) - 1) /\ r[k - 1] = s[k]
      BY <2>2, <1>1, <1>4, <1>7
    <3> QED
      BY <3>1, <1>4 DEF ToSet
  <2> QED
    BY <2>1, <2>2, <1>1, <1>7
<1>8. ToSet(s) \ {s[i]} \subseteq ToSet(r)
  BY <1>1, <1>7 DEF ToSet
<1>9. Len(s) - 1 <= MaxTabs
  BY <1>1, BoundIsNat DEF Lists
<1> QED
  BY <1>4, <1>5, <1>6, <1>8, <1>9 DEF Lists, r

\* The effects that are due write nothing that the list does not know.
LEMMA FlushFacts ==
    ASSUME TabInv
    PROVE  /\ Flush \subseteq ToSet(stored.tabs) \cup raced /\ Flush \subseteq Tabs
           /\ Listed \subseteq Tabs /\ unsaved \subseteq Tabs /\ ToSet(stored.tabs) \subseteq Tabs
           /\ tabs # <<>> => stored.tabs = tabs /\ active \in Listed
           /\ tabs = <<>> => unsaved = {}
<1>1. Listed \subseteq Tabs /\ ToSet(stored.tabs) \subseteq Tabs
  BY ListBounded DEF TabInv, Listed
<1>2. tabs # <<>> => stored.tabs = tabs /\ active \in Listed
  BY DEF TabInv, OneTabShown
<1>3. tabs = <<>> => unsaved = {}
  BY DEF TabInv, Listed, ToSet
<1> QED
  BY <1>1, <1>2, <1>3 DEF TabInv, NothingLeftBehind, Flush, Listed

\* A list that TLC can show, or its first tab: what the panel opens with.
LEMMA OpenStep ==
    ASSUME TabInv, OpenTabs
    PROVE  TabInv' /\ tabs' # <<>>
<1>1. PICK list \in IF stored.tabs = <<>> THEN {<<t>> : t \in Fresh} ELSE {stored.tabs} :
        LET first == IF stored.active \in ToSet(list) THEN stored.active ELSE list[1]
        IN  /\ tabs' = list /\ active' = first /\ activated' = {first} /\ limit' = FALSE
            /\ conn' = [t \in Tabs |-> IF t = first THEN "other" ELSE None]
            /\ unsaved' = {first}
            /\ StoreTabs
            /\ UNCHANGED <<keys, raced>>
  BY DEF OpenTabs
<1>2. list \in Lists /\ list # <<>> /\ ToSet(stored.tabs) \subseteq ToSet(list)
  <2>1. CASE stored.tabs = <<>>
    <3>1. PICK t \in Tabs : list = <<t>>
      BY <1>1, <2>1 DEF Fresh
    <3>2. list \in Seq(Tabs) /\ Len(list) <= MaxTabs /\ IsInjective(list)
      BY <3>1, BoundIsNat DEF IsInjective
    <3>3. ToSet(stored.tabs) = {}
      BY <2>1 DEF ToSet
    <3> QED
      BY <3>1, <3>2, <3>3 DEF Lists
  <2>2. CASE stored.tabs # <<>>
    BY <1>1, <2>2 DEF TabInv
  <2> QED
    BY <2>1, <2>2
<1>3. list[1] \in ToSet(list) /\ ToSet(list) \subseteq Tabs
  <2>1. 1 \in DOMAIN list
    BY <1>2 DEF Lists
  <2> QED
    BY <1>2, <2>1, ListBounded DEF ToSet
<1>4. PICK first \in ToSet(list) : first = IF stored.active \in ToSet(list) THEN stored.active ELSE list[1]
  BY <1>3
<1>5. /\ tabs' = list /\ active' = first /\ activated' = {first} /\ limit' = FALSE
      /\ conn' = [t \in Tabs |-> IF t = first THEN "other" ELSE None]
      /\ unsaved' = {first} /\ stored' = [tabs |-> list, active |-> first]
      /\ keys' = keys /\ raced' = raced
  BY <1>1, <1>4 DEF StoreTabs
<1>6. Listed' = ToSet(list)
  BY <1>5 DEF Listed
<1>7. /\ tabs' \in Lists /\ stored' \in [tabs : Lists, active : Tabs \cup {None}]
      /\ active' \in Tabs \cup {None} /\ activated' \subseteq Tabs
      /\ conn' \in [Tabs -> States] /\ limit' \in BOOLEAN
  BY <1>2, <1>3, <1>5 DEF States, ConnectionStates
<1>8. /\ keys' \subseteq Tabs /\ unsaved' \subseteq Listed' /\ raced' \subseteq Tabs
      /\ \A t \in Tabs : conn'[t] # None => t \in Listed'
  BY <1>5, <1>6 DEF TabInv
<1>9. OneTabShown'
  <2>1. conn'[first] = "other" /\ "other" # None
    BY <1>3, <1>5, TabsAssumption DEF ConnectionStates
  <2> QED
    BY <1>3, <1>5, <1>6, <2>1 DEF OneTabShown
<1>10. NothingLeftBehind'
  BY <1>2, <1>5 DEF TabInv, NothingLeftBehind
<1> QED
  BY <1>2, <1>5, <1>7, <1>8, <1>9, <1>10 DEF TabInv

LEMMA LeaveStep ==
    ASSUME TabInv, NEW reload \in BOOLEAN, LeaveTabs(reload)
    PROVE  TabInv' /\ tabs' = <<>>
<1>1. /\ tabs' = <<>> /\ active' = None /\ activated' = {} /\ limit' = FALSE
      /\ conn' = [t \in Tabs |-> None]
      /\ keys' \subseteq Flush /\ unsaved' = {} /\ stored' = stored /\ raced' = raced
  BY DEF LeaveTabs, Flush
<1>2. tabs' \in Lists
  BY <1>1, BoundIsNat DEF Lists, IsInjective
<1>3. /\ stored' \in [tabs : Lists, active : Tabs \cup {None}]
      /\ active' \in Tabs \cup {None} /\ activated' \subseteq Tabs
      /\ conn' \in [Tabs -> States] /\ limit' \in BOOLEAN
  BY <1>1 DEF TabInv, States
<1>4. keys' \subseteq Tabs /\ unsaved' \subseteq Listed' /\ raced' \subseteq Tabs
  BY <1>1, FlushFacts DEF TabInv
<1>5. \A t \in Tabs : conn'[t] # None => t \in Listed'
  BY <1>1
<1>6. OneTabShown' /\ NothingLeftBehind'
  BY <1>1, FlushFacts DEF OneTabShown, NothingLeftBehind
<1> QED
  BY <1>1, <1>2, <1>3, <1>4, <1>5, <1>6 DEF TabInv

LEMMA AddStep ==
    ASSUME TabInv, AddTab
    PROVE  TabInv' /\ tabs' # <<>>
<1>1. PICK t \in Tabs \ Listed :
        /\ tabs' = Append(tabs, t) /\ active' = t /\ activated' = activated \cup {t}
        /\ conn' = [conn EXCEPT ![t] = "other"] /\ unsaved' = {t}
  BY DEF AddTab, Fresh
<1>2. /\ limit' = FALSE /\ keys' = Flush /\ raced' = raced
      /\ stored' = [tabs |-> tabs', active |-> active']
      /\ Len(tabs) < MaxTabs /\ tabs # <<>>
  BY BoundIsNat DEF AddTab, StoreTabs
<1>3. tabs' \in Lists /\ tabs' # <<>> /\ Listed' = Listed \cup {t}
  BY <1>1, <1>2, ListAppend DEF Listed, TabInv
<1>4. stored' \in [tabs : Lists, active : Tabs \cup {None}]
  BY <1>1, <1>2, <1>3
<1>5. /\ active' \in Tabs \cup {None} /\ activated' \subseteq Tabs
      /\ conn' \in [Tabs -> States] /\ limit' \in BOOLEAN
  BY <1>1, <1>2 DEF TabInv, States, ConnectionStates
<1>6. keys' \subseteq Tabs /\ unsaved' \subseteq Listed' /\ raced' \subseteq Tabs
  BY <1>1, <1>2, <1>3, FlushFacts DEF TabInv
<1>7. \A u \in Tabs : conn'[u] # None => u \in Listed'
  BY <1>1, <1>3 DEF TabInv
<1>8. OneTabShown'
  BY <1>1, <1>2, <1>3, TabsAssumption DEF OneTabShown, TabInv, ConnectionStates
<1>9. NothingLeftBehind'
  <2>1. ToSet(stored'.tabs) = ToSet(stored.tabs) \cup {t}
    BY <1>2, <1>3, FlushFacts DEF Listed
  <2> QED
    BY <1>2, <2>1, FlushFacts DEF NothingLeftBehind
<1> QED
  BY <1>3, <1>4, <1>5, <1>6, <1>7, <1>8, <1>9 DEF TabInv

LEMMA SelectStep ==
    ASSUME TabInv, NEW t \in Tabs, SelectTab(t)
    PROVE  TabInv' /\ (tabs # <<>> => tabs' # <<>>)
<1>1. /\ t \in Listed /\ tabs' = tabs /\ active' = t /\ activated' = activated \cup {t}
      /\ conn' = [conn EXCEPT ![t] = IF @ = None THEN "other" ELSE @]
      /\ keys' = Flush /\ unsaved' \subseteq {t} /\ raced' = raced
      /\ stored' = [tabs |-> tabs', active |-> active']
  BY DEF SelectTab, StoreTabs
<1>2. limit' \in BOOLEAN
  BY DEF SelectTab, Notified, TabInv
<1>3. tabs' \in Lists /\ stored' \in [tabs : Lists, active : Tabs \cup {None}]
  BY <1>1 DEF TabInv
<1>4. active' \in Tabs \cup {None} /\ activated' \subseteq Tabs /\ conn' \in [Tabs -> States]
  BY <1>1 DEF TabInv, States, ConnectionStates
<1>5. Listed' = Listed
  BY <1>1 DEF Listed
<1>6. keys' \subseteq Tabs /\ unsaved' \subseteq Listed' /\ raced' \subseteq Tabs
  BY <1>1, <1>5, FlushFacts DEF TabInv
<1>7. \A u \in Tabs : conn'[u] # None => u \in Listed'
  BY <1>1, <1>5 DEF TabInv
<1>8. conn'[t] # None
  BY <1>1, TabsAssumption DEF TabInv, ConnectionStates
<1>9. OneTabShown'
  BY <1>1, <1>5, <1>8 DEF OneTabShown
<1>10. NothingLeftBehind'
  <2>1. tabs # <<>>
    BY <1>1 DEF Listed, ToSet
  <2>2. stored'.tabs = stored.tabs
    BY <1>1, <2>1, FlushFacts
  <2> QED
    BY <1>1, <2>2, FlushFacts DEF NothingLeftBehind
<1> QED
  BY <1>1, <1>2, <1>3, <1>4, <1>6, <1>7, <1>9, <1>10 DEF TabInv

\* The tab that takes the place of the closed one is one of those that are left.
LEMMA NextFacts ==
    ASSUME TabInv, NEW t \in Listed, Len(tabs) > 1
    PROVE  /\ NextTabs(t) \in Lists /\ NextTabs(t) # <<>>
           /\ ToSet(NextTabs(t)) = Listed \ {t}
           /\ NextActive(t) \in Listed \ {t}
<1>1. Position(t) \in DOMAIN tabs /\ tabs[Position(t)] = t
  BY DEF Position, Listed, ToSet
<1>2. PICK i \in DOMAIN tabs : i = Position(t) /\ tabs[i] = t
  BY <1>1
<1>3. tabs \in Lists /\ Len(tabs) \in Nat /\ DOMAIN tabs = 1..Len(tabs)
  BY DEF TabInv, Lists
<1>4. /\ NextTabs(t) \in Lists /\ Len(NextTabs(t)) = Len(tabs) - 1
      /\ ToSet(NextTabs(t)) = Listed \ {t}
  BY <1>2, <1>3, ListRemove DEF NextTabs, Listed
<1>5. NextTabs(t) # <<>>
  BY <1>3, <1>4
<1>6. NextActive(t) \in Listed \ {t}
  <2>1. CASE t = active
    <3>1. PICK j \in DOMAIN NextTabs(t) : j = IF i = 1 THEN 1 ELSE i - 1
      BY <1>2, <1>3, <1>4 DEF Lists
    <3>2. NextActive(t) = NextTabs(t)[j]
      BY <1>2, <2>1, <3>1 DEF NextActive
    <3> QED
      BY <1>4, <3>2 DEF ToSet
  <2>2. CASE t # active
    <3>1. active \in Listed
      BY <1>3, FlushFacts
    <3> QED
      BY <2>2, <3>1 DEF NextActive
  <2> QED
    BY <2>1, <2>2
<1> QED
  BY <1>4, <1>5, <1>6

LEMMA CloseStep ==
    ASSUME TabInv, NEW t \in Tabs, CloseTab(t)
    PROVE  TabInv' /\ tabs' # <<>>
<1>1. /\ t \in Listed /\ Len(tabs) > 1 /\ tabs' = NextTabs(t) /\ active' = NextActive(t)
      /\ activated' = activated \cup {active'} /\ limit' = FALSE
      /\ conn' = [conn EXCEPT ![t] = None, ![active'] = IF @ = None THEN "other" ELSE @]
      /\ unsaved' \subseteq {active'}
      /\ stored' = [tabs |-> tabs', active |-> active']
  BY DEF CloseTab, StoreTabs
<1>2. /\ tabs' \in Lists /\ tabs' # <<>> /\ Listed' = Listed \ {t} /\ active' \in Listed'
  BY <1>1, NextFacts DEF Listed
<1>3. PICK u \in Tabs \ {t} : u = active'
  BY <1>2, FlushFacts
<1>4. stored' \in [tabs : Lists, active : Tabs \cup {None}]
  BY <1>1, <1>2, <1>3
<1>5. conn' = [conn EXCEPT ![t] = None, ![u] = IF @ = None THEN "other" ELSE @]
  BY <1>1, <1>3
<1>6. /\ active' \in Tabs \cup {None} /\ activated' \subseteq Tabs /\ limit' \in BOOLEAN
      /\ conn' \in [Tabs -> States]
  BY <1>1, <1>3, <1>5 DEF TabInv, States, ConnectionStates
<1>7. /\ conn'[u] # None
      /\ \A v \in Tabs : conn'[v] # None => v \in Listed'
  <2>1. conn'[t] = None /\ \A v \in Tabs \ {t, u} : conn'[v] = conn[v]
    BY <1>3, <1>5 DEF TabInv
  <2>2. conn'[u] # None
    BY <1>3, <1>5, TabsAssumption DEF TabInv, ConnectionStates
  <2> QED
    BY <1>2, <1>3, <2>1, <2>2 DEF TabInv
<1>8. /\ keys' \subseteq Tabs /\ raced' \subseteq Tabs
      /\ keys' \subseteq Listed' \cup raced'
  <2>1. tabs # <<>>
    BY <1>1 DEF Listed, ToSet
  <2>2. keys \subseteq Listed \cup raced /\ unsaved \subseteq Listed /\ Listed \subseteq Tabs
    BY <2>1, FlushFacts DEF Flush, Listed, TabInv
  <2>3. CASE keys' = (keys \ {t}) \cup unsaved /\ raced' = raced \cup ({t} \cap unsaved)
    BY <1>2, <2>2, <2>3 DEF TabInv
  <2>4. CASE keys' = Flush \ {t} /\ raced' = raced
    BY <1>2, <2>2, <2>4 DEF TabInv, Flush
  <2> QED
    BY <2>3, <2>4 DEF CloseTab, CleanUp
<1>9. NothingLeftBehind'
  BY <1>1, <1>8 DEF NothingLeftBehind, Listed
<1>10. OneTabShown'
  BY <1>1, <1>2, <1>3, <1>7 DEF OneTabShown
<1>11. unsaved' \subseteq Listed'
  BY <1>1, <1>2
<1> QED
  BY <1>2, <1>4, <1>6, <1>7, <1>8, <1>9, <1>10, <1>11 DEF TabInv

\* A session changes its state, output is rendered, effects run: the list stays.
LEMMA EffectStep ==
    ASSUME TabInv,
           \/ \E t \in Tabs, state \in ConnectionStates : SessionState(t, state)
           \/ \E t \in Tabs : Output(t)
           \/ Save
    PROVE  TabInv' /\ tabs' = tabs
<1>1. /\ tabs' = tabs /\ active' = active /\ activated' = activated /\ stored' = stored
      /\ keys' = Flush /\ raced' = raced
  BY DEF SessionState, Output, Save
<1>2. /\ conn' \in [Tabs -> States] /\ limit' \in BOOLEAN
      /\ \A u \in Tabs : conn'[u] # None <=> conn[u] # None
  <2>1. ASSUME NEW t \in Tabs, NEW state \in ConnectionStates, SessionState(t, state)
        PROVE  /\ conn' \in [Tabs -> States] /\ limit' \in BOOLEAN
               /\ \A u \in Tabs : conn'[u] # None <=> conn[u] # None
    <3>1. conn' = [conn EXCEPT ![t] = state] /\ conn[t] # None /\ state # None
      BY <2>1, TabsAssumption DEF SessionState
    <3>2. limit' \in BOOLEAN
      <4>1. CASE t = active /\ state = "session_limit"
        BY <2>1, <4>1 DEF SessionState
      <4>2. CASE t = active /\ state = "connected"
        BY <2>1, <4>2 DEF SessionState
      <4>3. CASE ~(t = active /\ state = "session_limit") /\ ~(t = active /\ state = "connected")
        BY <2>1, <4>3 DEF SessionState, TabInv
      <4> QED
        BY <4>1, <4>2, <4>3
    <3>3. conn' \in [Tabs -> States]
      BY <3>1 DEF TabInv, States
    <3>4. \A u \in Tabs : conn'[u] # None <=> conn[u] # None
      BY <3>1 DEF TabInv
    <3> QED
      BY <3>2, <3>3, <3>4
  <2>2. CASE (\E t \in Tabs : Output(t)) \/ Save
    BY <2>2 DEF Output, Save, TabInv
  <2> QED
    BY <2>1, <2>2
<1>3. Listed' = Listed
  BY <1>1 DEF Listed
<1>4. unsaved' \subseteq Listed'
  BY <1>3 DEF SessionState, Output, Save, TabInv
<1>5. keys' \subseteq Tabs /\ NothingLeftBehind'
  BY <1>1, FlushFacts DEF NothingLeftBehind
<1>6. OneTabShown'
  BY <1>1, <1>2, <1>3, FlushFacts DEF OneTabShown, TabInv
<1> QED
  BY <1>1, <1>2, <1>3, <1>4, <1>5, <1>6 DEF TabInv

\* The page and its tabs together.
ShellInv == /\ IInv /\ TabInv
            /\ shown \in AllPanels /\ reading \in BOOLEAN
            /\ tabs # <<>> <=> shown = "commands"

LEMMA ShellStep == ShellInv /\ [Next]_vars => ShellInv'
<1> SUFFICES ASSUME ShellInv, [Next]_vars PROVE ShellInv'
  OBVIOUS
<1>0. IInv'
  BY InvNext DEF ShellInv
<1>1. CASE UNCHANGED vars
  BY <1>0, <1>1 DEF ShellInv, vars, shellVars, tabVars, TabInv, Listed, OneTabShown, NothingLeftBehind
<1>2. CASE Terminal
  <2>1. shown' = shown /\ reading' = reading /\ tabs # <<>> /\ TabsNext
    BY <1>2 DEF Terminal, shellVars, ShellInv
  <2>2. TabInv' /\ tabs' # <<>>
    BY <2>1, AddStep, SelectStep, CloseStep, EffectStep DEF TabsNext, ShellInv
  <2> QED
    BY <1>0, <2>1, <2>2 DEF ShellInv
<1>3. CASE Swap
  <2>1. shown' = panel /\ shown # panel /\ reading' = reading
    BY <1>3 DEF Swap
  <2>2. CASE panel = "commands"
    BY <1>0, <1>3, <2>1, <2>2, OpenStep DEF Swap, ShellInv, IInv
  <2>3. CASE panel # "commands" /\ shown = "commands"
    BY <1>0, <1>3, <2>1, <2>3, LeaveStep DEF Swap, ShellInv, IInv
  <2>4. CASE panel # "commands" /\ shown # "commands"
    <3>1. UNCHANGED tabVars
      BY <1>3, <2>4 DEF Swap
    <3> QED
      BY <1>0, <2>1, <2>4, <3>1
      DEF ShellInv, IInv, tabVars, TabInv, Listed, OneTabShown, NothingLeftBehind
  <2> QED
    BY <2>2, <2>3, <2>4
<1>4. CASE Reload
  <2>1. shown' \in AllPanels /\ reading' = FALSE
    BY <1>0, <1>4 DEF Reload, ResolvePanel, IInv, Settings, Values
  <2>2. CASE shown' = "commands"
    BY <1>0, <1>4, <2>1, <2>2, OpenStep DEF Reload, ShellInv
  <2>3. CASE shown' # "commands"
    BY <1>0, <1>4, <2>1, <2>3, LeaveStep DEF Reload, ShellInv
  <2> QED
    BY <2>2, <2>3
<1>5. CASE \/ \E p \in AllPanels : SetActivePanel(p)
           \/ ChangeGeneral \/ ChangeLooks \/ ChangeAdvanced \/ ResetSettings \/ ClearLocalPreferences
           \/ ChooseFile \/ ImportSettings
  <2>1. shown' = shown /\ reading' \in BOOLEAN /\ UNCHANGED tabVars
    BY <1>5 DEF SetActivePanel, ChangeGeneral, ChangeLooks, ChangeAdvanced, ChangeSetting, ResetSettings,
                ClearLocalPreferences, ChooseFile, ImportSettings, Settle, ShellInv
  <2> QED
    BY <1>0, <2>1 DEF ShellInv, tabVars, TabInv, Listed, OneTabShown, NothingLeftBehind
<1> QED
  BY <1>1, <1>2, <1>3, <1>4, <1>5 DEF Next

LEMMA ShellInit == Init => ShellInv
<1> SUFFICES ASSUME Init PROVE ShellInv
  OBVIOUS
<1>1. IInv
  BY InvInit
<1>2. <<>> \in Lists
  BY BoundIsNat DEF Lists, IsInjective
<1>3. TabInv
  BY <1>2 DEF Init, TabsInit, NothingStored, TabInv, States, Listed, ToSet, OneTabShown, NothingLeftBehind
<1>4. shown \in AllPanels /\ reading \in BOOLEAN
  BY PanelsAssumption DEF Init
<1>5. tabs # <<>> <=> shown = "commands"
  BY PanelsAssumption DEF Init, TabsInit
<1> QED
  BY <1>1, <1>3, <1>4, <1>5 DEF ShellInv

\* Whatever a file or localStorage holds, the settings stay among the values the
\* panels understand; the terminal's tabs are there only while it is rendered, none
\* twice and none beyond MAX_TABS.
THEOREM TypeCorrect == Spec => []TypeOK
<1>1. ShellInv => TypeOK
  <2> SUFFICES ASSUME ShellInv PROVE TypeOK
    OBVIOUS
  <2>1. TabsTypeOK
    <3>1. /\ tabs \in BoundedSeq(Tabs, MaxTabs) /\ IsInjective(tabs)
          /\ stored.tabs \in BoundedSeq(Tabs, MaxTabs)
      BY ListBounded DEF ShellInv, TabInv
    <3>2. unsaved \subseteq Tabs
      BY FlushFacts DEF ShellInv
    <3> QED
      BY <3>1, <3>2 DEF ShellInv, TabInv, TabsTypeOK, States
  <2>2. /\ panel \in AllPanels /\ settings \in Settings
        /\ storedPanel \in AllPanels \cup {None} /\ storedSettings \in Settings \cup {None}
    BY DEF ShellInv, IInv
  <2> QED
    BY <2>1, <2>2 DEF ShellInv, TypeOK
<1> QED
  BY <1>1, ShellInit, ShellStep, PTL DEF Spec

\* However tabs are added, closed, selected, restored after a reload or left with their
\* panel: one of the listed tabs shows its content, and localStorage says the same.
THEOREM OneTabIsShown == Spec => []OneTabShown
<1>1. ShellInv => OneTabShown
  BY DEF ShellInv, TabInv
<1> QED
  BY <1>1, ShellInit, ShellStep, PTL DEF Spec

\* The output and history that localStorage keeps are those of tabs that can come back,
\* but for tabs closed between a render of their output and its effect.
THEOREM NothingIsLeftBehind == Spec => []NothingLeftBehind
<1>1. ShellInv => NothingLeftBehind
  BY DEF ShellInv, TabInv
<1> QED
  BY <1>1, ShellInit, ShellStep, PTL DEF Spec
=============================================================================
