------------------------------ MODULE AppShell ------------------------------
(***************************************************************************)
(* The page around the panels (App.jsx, SettingsContext.jsx,               *)
(* SettingsPanel.jsx): which panel is chosen and which one is rendered,    *)
(* the settings that decide it and the copies of both in localStorage,     *)
(* composed with the terminal's tabs, whose state lives as long as their   *)
(* panel is rendered. Effects run before the user's next click, so a       *)
(* handler and the effects of its render are one step. localStorage        *)
(* accepts every write. The settings that choose no panel are one setting, *)
(* looks, which is at its default or not.                                  *)
(***************************************************************************)
EXTENDS TerminalTabs

CONSTANTS Panels,   \* the panels of the navigation besides commands and settings
          Default   \* DEFAULT_SETTINGS.defaultPanel, overview

AllPanels == Panels \cup {"commands", "settings"}
VARIABLES panel,           \* activePanel
          shown,           \* the panel that is rendered: the old one until its exit animation ends
          settings,        \* defaultPanel, autoOpenLastVisitedTab, all the others
          reading,         \* a settings file is being read
          storedPanel,     \* devcontrol.activePanel, or None
          storedSettings   \* devcontrol.settings.v1, or None
shellVars == <<panel, shown, settings, reading, storedPanel, storedSettings>>
vars == <<shellVars, tabVars>>

\* A value that no select offers, in a file or in localStorage.
Bad == "bad"
Values == [defaultPanel |-> AllPanels, autoOpen |-> {"on", "off"}, looks |-> {"default", "changed"}]
Settings == [defaultPanel : Values.defaultPanel, autoOpen : Values.autoOpen, looks : Values.looks]
Files == [defaultPanel : Values.defaultPanel \cup {Bad}, autoOpen : Values.autoOpen \cup {Bad},
          looks : Values.looks \cup {Bad}]
DefaultSettings == [defaultPanel |-> Default, autoOpen |-> "off", looks |-> "default"]
\* The terminal is not the default panel.
ASSUME PanelsAssumption == Default \in AllPanels \ {"commands"} /\ None \notin AllPanels \cup Settings

\* Mutant: values are taken as they are.
Normalize_Trusts(s) == s

\* normalizeSettings.
Normalize(s) == [key \in DOMAIN DefaultSettings |->
                   IF s[key] \in Values[key] THEN s[key] ELSE DefaultSettings[key]]

\* updateSetting.
UpdateSetting(s, key, value) == Normalize([s EXCEPT ![key] = value])

\* readStoredSettings.
ReadSettings == IF storedSettings = None THEN DefaultSettings ELSE Normalize(storedSettings)

\* resolveStoredPanel.
ResolvePanel(default) == IF storedPanel \in AllPanels THEN storedPanel ELSE default

\* Mutant: only a click stores the panel, the effect of the settings does not.
StorePanel_OnClick(cleared) == storedPanel' = IF cleared THEN None ELSE storedPanel

\* The effect on activePanel.
StorePanel(cleared) ==
  storedPanel' = IF panel' # panel THEN panel' ELSE IF cleared THEN None ELSE storedPanel

\* The effect on the two settings that choose a panel.
OpenDefault(s) ==
  panel' = IF /\ <<s.autoOpen, s.defaultPanel>> # <<settings.autoOpen, settings.defaultPanel>>
              /\ s.autoOpen = "off" THEN s.defaultPanel ELSE panel

\* The new settings are rendered.
Settle(s, cleared) ==
  /\ settings' = s
  /\ OpenDefault(s)
  /\ StorePanel(cleared)
  /\ UNCHANGED <<shown, tabVars>>

-----------------------------------------------------------------------------
Init == /\ panel = Default /\ shown = Default /\ settings = DefaultSettings /\ reading = FALSE
        /\ storedPanel = Default /\ storedSettings = DefaultSettings
        /\ TabsInit

\* A tab of the navigation, a card of the overview.
SetActivePanel(p) ==
  /\ p # panel
  /\ panel' = p /\ storedPanel' = p
  /\ UNCHANGED <<shown, settings, reading, storedSettings, tabVars>>

\* AnimatePresence, mode wait: the exit animation has ended, and the chosen panel
\* is rendered. Until then the old one is there and can be used.
Swap ==
  /\ shown # panel /\ shown' = panel
  /\ IF panel = "commands" THEN OpenTabs
     ELSE IF shown = "commands" THEN LeaveTabs(FALSE) ELSE UNCHANGED tabVars
  /\ UNCHANGED <<panel, settings, reading, storedPanel, storedSettings>>

\* A select or a switch of the settings panel; its categories, privacy, terminal and
\* appearance in one.
ChangeSetting(key) ==
  /\ shown = "settings"
  /\ \E value \in Values[key] :
       LET s == UpdateSetting(settings, key, value) IN storedSettings' = s /\ Settle(s, FALSE)
  /\ UNCHANGED reading
ChangeGeneral == \E key \in {"defaultPanel", "looks"} : ChangeSetting(key)
ChangeLooks == ChangeSetting("looks")
ChangeAdvanced == \E key \in {"autoOpen", "looks"} : ChangeSetting(key)

\* Reset to Defaults.
ResetSettings ==
  /\ shown = "settings"
  /\ storedSettings' \in {DefaultSettings} \cup IF settings = DefaultSettings THEN {storedSettings} ELSE {}
  /\ Settle(DefaultSettings, FALSE)
  /\ UNCHANGED reading

\* A file is chosen. One is read at a time.
ChooseFile == /\ shown = "settings" /\ ~reading /\ reading' = TRUE
              /\ UNCHANGED <<panel, shown, settings, storedPanel, storedSettings, tabVars>>

\* importSettings, the file is read, whatever panel is rendered by now: updateSetting
\* for every key of the defaults, overlaid with the file's. A file that is not
\* JSON changes nothing.
ImportSettings ==
  /\ reading /\ reading' = FALSE
  /\ \/ \E s \in {UpdateSetting(UpdateSetting(UpdateSetting(settings, "defaultPanel", file.defaultPanel),
                     "autoOpen", file.autoOpen), "looks", file.looks) : file \in Files} :
          storedSettings' = s /\ Settle(s, FALSE)
     \/ UNCHANGED <<panel, shown, settings, storedPanel, storedSettings, tabVars>>

\* clearLocalPreferences. Nothing is stored again while the settings are the
\* object DEFAULT_SETTINGS already.
ClearLocalPreferences ==
  /\ shown = "settings"
  /\ storedSettings' \in IF settings = DefaultSettings THEN {None, DefaultSettings} ELSE {DefaultSettings}
  /\ Settle(DefaultSettings, TRUE)
  /\ UNCHANGED reading

\* The page is loaded again. The remembered panel is rendered, and the effect of
\* the settings may choose the default panel in its place.
Reload ==
  /\ settings' = ReadSettings /\ storedSettings' = settings' /\ reading' = FALSE
  /\ shown' = ResolvePanel(settings'.defaultPanel)
  /\ panel' = IF settings'.autoOpen = "off" THEN settings'.defaultPanel ELSE shown'
  /\ storedPanel' = panel'
  /\ IF shown' = "commands" THEN OpenTabs ELSE LeaveTabs(TRUE)

Terminal == shown = "commands" /\ TabsNext /\ UNCHANGED shellVars

Next == \/ \E p \in AllPanels : SetActivePanel(p)
        \/ Swap \/ Reload
        \/ ChangeGeneral \/ ChangeLooks \/ ChangeAdvanced \/ ResetSettings \/ ClearLocalPreferences
        \/ ChooseFile \/ ImportSettings
        \/ Terminal
Spec == Init /\ [][Next]_vars

-----------------------------------------------------------------------------
\* Ranges: whatever a file or localStorage holds, the settings stay among the
\* values the panels understand; tabs exist only while their panel is rendered.
TypeOK ==
  /\ panel \in AllPanels /\ shown \in AllPanels /\ settings \in Settings /\ reading \in BOOLEAN
  /\ storedPanel \in AllPanels \cup {None} /\ storedSettings \in Settings \cup {None}
  /\ TabsTypeOK /\ (tabs # <<>> <=> shown = "commands")

\* What is remembered is the chosen panel, also when a setting and not a click
\* chose it, until the local preferences are cleared (the effect on activePanel).
RememberedPanel == storedPanel \in {panel, None}

\* "When disabled, DevControl opens the selected default startup page."
\* (SettingsPanel.jsx): a page that is loaded again has the settings it had, and
\* chooses the panel that was chosen last or the default one as they say; after
\* the local preferences were cleared there is none to reopen until another
\* panel is chosen.
OpensAsConfigured ==
  [][Reload => /\ settings' = settings
               /\ panel' = IF settings.autoOpen = "on" /\ storedPanel # None THEN panel
                           ELSE settings.defaultPanel]_vars
=============================================================================
