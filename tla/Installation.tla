----------------------------- MODULE Installation -----------------------------
(***************************************************************************)
(* The installer (install/install.py) and the wizard in the browser        *)
(* (install/ui_server.py), which calls the installer's functions in a      *)
(* process of its own.  Both merge an env file, write hook scripts and     *)
(* register them in settings.json, which Claude Code and the user change   *)
(* too.  A file that is rewritten is first empty and then whole, so that a *)
(* process killed in between leaves it empty.  Each writes from the start  *)
(* of the file: of two that had both opened it, the second writes over     *)
(* what the first wrote, and where its text ends the other one goes on.    *)
(* The lines of the env file are a key and a value; a comment is a line    *)
(* without a key.                                                          *)
(***************************************************************************)
EXTENDS Integers, Sequences, FiniteSets, SequencesExt, FiniteSetsExt, Functions

CONSTANTS
    Installers,   \* "cli", a run of the installer, and "ui", the wizard's process
    InstallModes, \* modes to install, of DOMAIN EnvLinesOf
    Events,       \* of Claude Code that get a hook, in the order of registration
    AtFirst,      \* env files there may be before: sequences of lines, or NoEnv
    MaxInstalls,  \* bound: runs of the installer and saves of the wizard
    MaxRetouches, \* bound: changes of settings.json by others
    MaxKills      \* bound: processes killed

ASSUME InstallationBounds ==
    /\ Installers \subseteq {"cli", "ui"}
    /\ {MaxInstalls, MaxRetouches, MaxKills} \subseteq Nat
    /\ InstallModes \subseteq {"local", "vps_cpu", "mac_mlx"}
    /\ Events \in Seq(STRING) /\ IsInjective(Events)

\* A file of the user says nothing twice.  (A key that it has twice is changed twice.)
ASSUME FilesAtFirst ==
    \A file \in AtFirst :
       /\ file \in Seq([key : STRING, value : STRING])
       /\ \A j, k \in DOMAIN file : file[j].key = file[k].key /\ file[j].key # "#" => j = k

VARIABLES
    env,        \* depthfusion.env: its lines, or NoEnv
    settings,   \* settings.json: [text, hooks, others], or NoSettings
    scripts,    \* hook scripts: event -> "none", "torn" or "whole"
    installer,  \* where each process is
    wizard,     \* _state: the mode chosen in the browser, or NoMode
    authored,   \* history: the lines of the user that env had first
    settled,    \* history: the mode of a run that ended with nothing beside it, or NoMode
    retouched,  \* history: changes of settings.json by others
    overlapped, \* history: files that two merged at once
    overlaid,   \* history: files that were left with the end of another's text
    cut,        \* history: files that a process was killed over
    installs, kills

historyOfInstalls == <<authored, retouched, overlapped, overlaid, cut, kills>>
installVars == <<env, settings, scripts, installer, wizard, settled, installs,
                 historyOfInstalls>>

NoEnv == <<[key |-> "no file", value |-> ""]>>
NoMode == "none"
NoSettings == [text |-> "none", hooks |-> <<>>, others |-> 0]
Line(key, value) == [key |-> key, value |-> value]

\* Lines that no installer ever writes, each at its place.
UserLines(lines) ==
    Restrict(lines, {n \in DOMAIN lines : lines[n].key \in {"#", "TOKEN"}})

\* _LOCAL_ENV_LINES and the others; mac-mlx adds the address of its server.
EnvLinesOf ==
    [local   |-> <<Line("MODE", "local"), Line("GRAPH", "true")>>,
     vps_cpu |-> <<Line("MODE", "vps_cpu"), Line("RERANKER", "true"),
                   Line("GRAPH", "true")>>,
     mac_mlx |-> <<Line("MODE", "mac_mlx"), Line("RERANKER", "true"), Line("GRAPH", "true"),
                   Line("URL", "8000")>>]

Installed == [pc |-> "idle"]

InstallationInit ==
    /\ env \in AtFirst
    /\ settings \in {NoSettings, [text |-> "whole", hooks |-> <<>>, others |-> 0]}
    /\ scripts = [e \in ToSet(Events) |-> "none"]
    /\ installer = [p \in Installers |-> Installed] /\ wizard = NoMode
    /\ authored = UserLines(env)
    /\ settled = NoMode /\ retouched = 0 /\ overlapped = {} /\ overlaid = {} /\ cut = {}
    /\ installs = 0 /\ kills = 0

-----------------------------------------------------------------------------
\* What s has at these places, in its order.
Picked(s, places) ==
    LET rank(n) == Cardinality({m \in places : m <= n})
    IN  [k \in 1..Cardinality(places) |-> s[CHOOSE n \in places : rank(n) = k]]

\* The keys of the lines; and the values that a merge places.
Keys(lines) == {lines[n].key : n \in DOMAIN lines} \ {"#"}
ValueIn(lines, key) == lines[Max({n \in DOMAIN lines : lines[n].key = key})].value

\* The merge of _write_env_config and write_env_from_dict: the lines of the file in their
\* order, those with a new value changed in place, and the other new keys at the end.
\* Mutant: only lines with a key are taken over.
MergedBare(old, new) ==
    Picked(old, {n \in DOMAIN old : old[n].key \notin Keys(new) \union {"#"}}) \o new
Merged(old, new) ==
    LET kept(n) == IF old[n].key \notin Keys(new) THEN old[n]
                   ELSE Line(old[n].key, ValueIn(new, old[n].key))
    IN [n \in DOMAIN old |-> kept(n)]
         \o Picked(new, {n \in DOMAIN new : new[n].key \notin Keys(old)})

\* A file is between its opening for writing and its last byte in a process of these.
Writing(p, file) == installer[p].pc = file /\ installer[p].open
Reads(p, file) == installer[p].pc = file /\ "copy" \in DOMAIN installer[p]

\* Two have read the same file, or one reads what another has emptied.
Meets(p, file) == \E q \in Installers \ {p} : Reads(q, file)

GoesTo(p, next) == installer' = [installer EXCEPT ![p] = next]

\* A run begins with the lines that it merges.  It is alone if no other one overlaps it.
StartsRun(p, lines, mode) ==
    /\ installs < MaxInstalls /\ installs' = installs + 1
    /\ installer' = [q \in Installers |->
          IF q = p THEN [pc |-> "env", open |-> FALSE, lines |-> lines, mode |-> mode,
                         alone |-> \A o \in Installers : installer[o] = Installed]
          ELSE IF installer[q] = Installed THEN Installed
          ELSE [installer[q] EXCEPT !.alone = FALSE]]
    /\ settled' = NoMode

\* main with a mode, or the wizard: install_finish takes the mode chosen last, by whichever
\* tab.  vps-gpu and mac-mlx may be refused before anything is written.
Begin(p, mode) ==
    /\ installer[p] = Installed /\ (p = "ui" => mode = wizard)
    /\ StartsRun(p, EnvLinesOf[mode], mode)
    /\ UNCHANGED <<env, settings, scripts, wizard, historyOfInstalls>>

\* post_step 1.
Choose(mode) ==
    /\ "ui" \in Installers /\ wizard # mode /\ wizard' = mode
    /\ UNCHANGED <<env, settings, scripts, installer, settled, installs, historyOfInstalls>>

\* post_step 4: the values typed and the mode are merged into the file, and no more.
SaveValues(values) ==
    /\ "ui" \in Installers /\ installer["ui"] = Installed
    /\ LET lines == values \o IF wizard = NoMode THEN <<>> ELSE <<Line("MODE", wizard)>>
       IN lines # <<>> /\ StartsRun("ui", lines, NoMode)
    /\ UNCHANGED <<env, settings, scripts, wizard, historyOfInstalls>>

ReadEnv(p) ==
    LET run == installer[p] IN
    /\ run.pc = "env" /\ ~Reads(p, "env") /\ ~run.open
    /\ GoesTo(p, [pc |-> "env", open |-> FALSE, mode |-> run.mode, alone |-> run.alone,
                  copy |-> IF env = NoEnv THEN run.lines ELSE Merged(env, run.lines)])
    /\ overlapped' = IF Meets(p, "env") THEN overlapped \union {"env"} ELSE overlapped
    /\ UNCHANGED <<env, settings, scripts, wizard, settled, installs, authored,
                   retouched, overlaid, cut, kills>>

OpenEnv(p) ==
    /\ Reads(p, "env") /\ ~installer[p].open
    /\ env' = <<>> /\ GoesTo(p, [installer[p] EXCEPT !.open = TRUE])
    /\ UNCHANGED <<settings, scripts, wizard, settled, installs, historyOfInstalls>>

\* What is in the env file when these lines are written over those: the new ones, and
\* behind them what is left of the old text, from within one of its lines.
Overlay(old, new) ==
    {new} \union IF old = new THEN {}
                 ELSE {new \o <<Line("cut", "")>> \o SubSeq(old, k + 1, Len(old)) :
                          k \in DOMAIN old}

\* Only an installation goes on to the hooks.
WriteEnv(p) ==
    LET run == installer[p] IN
    /\ Writing(p, "env") /\ env' \in Overlay(env, run.copy)
    /\ overlaid' = IF env' = run.copy THEN overlaid ELSE overlaid \union {"env"}
    /\ GoesTo(p, IF run.mode = NoMode THEN Installed
               ELSE [pc |-> "scripts", open |-> FALSE,
                     mode |-> run.mode, alone |-> run.alone])
    /\ UNCHANGED <<settings, scripts, wizard, settled, installs, authored, retouched,
                   overlapped, cut, kills>>

\* _register_hooks: without settings.json nothing is written; a script that exists stays.
NextScript == {e \in ToSet(Events) : scripts[e] = "none"}

SkipHooks(p) ==
    /\ installer[p].pc = "scripts" /\ ~installer[p].open /\ settings = NoSettings
    /\ GoesTo(p, [installer[p] EXCEPT !.pc = "mcp"])
    /\ UNCHANGED <<env, settings, scripts, wizard, settled, installs, historyOfInstalls>>

OpenScript(p) ==
    /\ installer[p].pc = "scripts" /\ ~installer[p].open /\ settings # NoSettings
    /\ NextScript # {}
    /\ LET e == Events[Min({n \in DOMAIN Events : Events[n] \in NextScript})] IN
       scripts' = [scripts EXCEPT ![e] = "torn"]
         /\ GoesTo(p, [installer[p] EXCEPT !.open = TRUE, !.mode = <<@, e>>])
    /\ UNCHANGED <<env, settings, wizard, settled, installs, historyOfInstalls>>

WriteScript(p) ==
    /\ Writing(p, "scripts")
    /\ scripts' = [scripts EXCEPT ![installer[p].mode[2]] = "whole"]
    /\ GoesTo(p, [installer[p] EXCEPT !.open = FALSE, !.mode = @[1]])
    /\ UNCHANGED <<env, settings, wizard, settled, installs, historyOfInstalls>>

\* json.load: a file that is empty or torn ends the run, after the env file was written.
ReadSettings(p) ==
    LET run == installer[p] IN
    /\ run.pc = "scripts" /\ ~run.open /\ NextScript = {} /\ settings # NoSettings
    /\ GoesTo(p, IF settings.text # "whole" THEN Installed
               ELSE [pc |-> "settings", open |-> FALSE, mode |-> run.mode,
                     alone |-> run.alone, copy |-> settings])
    /\ overlapped' = IF Meets(p, "settings") THEN overlapped \union {"settings"}
                     ELSE overlapped
    /\ UNCHANGED <<env, settings, scripts, wizard, settled, installs, authored,
                   retouched, overlaid, cut, kills>>

OpenSettings(p) ==
    /\ Reads(p, "settings") /\ ~installer[p].open
    /\ settings' = [settings EXCEPT !.text = "empty"]
    /\ GoesTo(p, [installer[p] EXCEPT !.open = TRUE])
    /\ UNCHANGED <<env, scripts, wizard, settled, installs, historyOfInstalls>>

\* The hooks that are not registered yet.
Absent(hooks) == Picked(Events, {n \in DOMAIN Events : Events[n] \notin ToSet(hooks)})

\* What another wrote since the file was opened may be the longer text.
WriteSettings(p) ==
    LET new == [installer[p].copy EXCEPT !.hooks = @ \o Absent(@)] IN
    /\ Writing(p, "settings")
    /\ settings' \in {new} \union
          IF settings.text = "empty" \/ settings = new THEN {} ELSE {[new EXCEPT !.text = "torn"]}
    /\ overlaid' = IF settings'.text = "torn" THEN overlaid \union {"settings"} ELSE overlaid
    /\ GoesTo(p, [pc |-> "mcp", open |-> FALSE, mode |-> installer[p].mode,
                alone |-> installer[p].alone])
    /\ UNCHANGED <<env, scripts, wizard, settled, installs, authored, retouched,
                   overlapped, cut, kills>>

\* _register_mcp_server only calls the client, which keeps its own file; no failure of it
\* ends the run.
EndInstall(p) ==
    /\ installer[p].pc = "mcp" /\ GoesTo(p, Installed)
    /\ settled' = IF installer[p].alone THEN installer[p].mode ELSE settled
    /\ UNCHANGED <<env, settings, scripts, wizard, installs, historyOfInstalls>>

\* Claude Code or the user changes settings.json, as a whole.
Retouch ==
    /\ retouched < MaxRetouches /\ retouched' = retouched + 1
    /\ settings.text = "whole" /\ settings' = [settings EXCEPT !.others = @ + 1]
    /\ overlapped' = IF \E p \in Installers : Reads(p, "settings")
                  THEN overlapped \union {"settings"} ELSE overlapped
    /\ UNCHANGED <<env, scripts, installer, wizard, settled, installs, authored, overlaid,
                   cut, kills>>

InstallerKilled(p) ==
    /\ installer[p] # Installed /\ kills < MaxKills /\ kills' = kills + 1
    /\ GoesTo(p, Installed)
    /\ cut' = IF installer[p].open THEN cut \union {installer[p].pc} ELSE cut
    /\ wizard' = IF p = "ui" THEN NoMode ELSE wizard
    /\ UNCHANGED <<env, settings, scripts, settled, installs, authored, retouched,
                   overlapped, overlaid>>

InstallationNext ==
    \/ \E p \in Installers :
          \/ \E mode \in InstallModes : Begin(p, mode)
          \/ ReadEnv(p) \/ OpenEnv(p) \/ WriteEnv(p)
          \/ SkipHooks(p) \/ OpenScript(p) \/ WriteScript(p)
          \/ ReadSettings(p) \/ OpenSettings(p) \/ WriteSettings(p)
          \/ EndInstall(p) \/ InstallerKilled(p)
    \/ \E mode \in InstallModes : Choose(mode)
    \/ \E values \in {<<>>, <<Line("API_KEY", "k")>>} : SaveValues(values)
    \/ Retouch
InstallationSpec == InstallationInit /\ [][InstallationNext]_installVars

-----------------------------------------------------------------------------
(* Properties.                                                             *)

InstallationTypeOK ==
    /\ settings.text \in {"none", "whole", "empty", "torn"}
    /\ ToSet(settings.hooks) \subseteq ToSet(Events)
    /\ \A e \in DOMAIN scripts : scripts[e] \in {"none", "torn", "whole"}
    /\ \A p \in Installers :
          installer[p].pc \in {"idle", "env", "scripts", "settings", "mcp"}
    /\ wizard \in InstallModes \union {NoMode} /\ settled \in InstallModes \union {NoMode}

\* The lines that the user wrote into the env file stay as they are and in their order,
\* through any number of installations in any modes, as long as no process was killed
\* while it wrote the file and no two merged it at once (_write_env_config,
\* write_env_from_dict).
UserLinesStay ==
    "env" \notin overlapped \union cut /\ (\A p \in Installers : ~Writing(p, "env")) =>
        UserLines(env) = authored

\* When a run has ended that no other one overlapped, the env file says each thing of its
\* mode, and once unless it had been left with the end of another's text before; and
\* settings.json is whole and has every hook, whatever had been cut off before.  A script is
\* torn only after a kill (_register_hooks).
RunsSettle ==
    /\ settled # NoMode =>
          /\ \A line \in ToSet(EnvLinesOf[settled]) :
                /\ line \in ToSet(env)
                /\ "env" \notin overlaid =>
                      Cardinality({k \in DOMAIN env : env[k].key = line.key}) = 1
          /\ settings # NoSettings =>
                settings.text = "whole" /\ ToSet(settings.hooks) = ToSet(Events)
    /\ \A e \in DOMAIN scripts : scripts[e] = "torn" =>
          "scripts" \in cut \/ \E p \in Installers : Writing(p, "scripts")

\* However often and in whatever overlap the hooks are registered, each is there once and
\* has a script.  settings.json is empty only while it is written, or after a kill; it is no
\* JSON only after an overlap of two, of whom one wrote over what the other had written.
\* What others wrote into it is lost only if it was written while an installer held a copy.
HooksRegisteredOnce ==
    /\ IsInjective(settings.hooks) /\ \A e \in ToSet(settings.hooks) : scripts[e] # "none"
    /\ settings.text = "empty" =>
          "settings" \in cut \/ \E p \in Installers : Writing(p, "settings")
    /\ settings.text = "torn" => "settings" \in overlapped \intersect overlaid
    /\ settings.text = "whole" /\ "settings" \notin overlapped =>
          settings.others = retouched

InstallationSound == UserLinesStay /\ RunsSettle /\ HooksRegisteredOnce
=============================================================================
