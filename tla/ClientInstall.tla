--------------------------- MODULE ClientInstall ---------------------------
(***************************************************************************)
(* How the configuration client keeps the installation up to date          *)
(* (hack_touchid_client.c): start-up, updates, deployment of the daemon,   *)
(* the menu-bar application and the preference pane, and uninstallation.   *)
(* The menu and the runs the menu-bar application starts in a Terminal     *)
(* window are separate processes that change the same files.  A version    *)
(* stands for a version and build in the order remote_is_newer() gives.    *)
(***************************************************************************)
EXTENDS Naturals, Sequences, FiniteSets

CONSTANTS
    MaxVersion,     \* versions that are ever published
    MaxRuns,        \* processes that start
    MaxChoices,     \* entries chosen from the menu
    MaxGlitches     \* scripts and file operations that fail, processes killed

ASSUME InstallAssumption ==
    MaxVersion \in Nat \ {0} /\ MaxRuns \in Nat /\ MaxChoices \in Nat /\ MaxGlitches \in Nat

VARIABLES
    remote,     \* the version each branch of the repository holds (TRUE is the beta branch)
    exec,       \* the client's directory: version of its tree, and what VERSION.txt says
    svc,        \* the daemon as installed: binary, agent plist, running version, and the rest
    bar,        \* the menu-bar application
    panes,      \* the preference pane: the bundle in the tree, the installed one
    live,       \* live update check, as saved
    at,         \* where each process is
    me,         \* its variables
    told,       \* the last uninstallation: none, complete or with problems
    dirty,      \* something was deployed since its survey
    fuel        \* budgets

ivars == <<remote, exec, svc, bar, panes, live, at, me, told, dirty, fuel>>

Menu == "menu"          \* the interactive client
Terminal == "terminal"  \* --menu-updater, --check-updates or --deploy-agent
Process == {Menu, Terminal}
NoFile == [ver |-> 0, beta |-> FALSE]

\* A process that has just been started (again) from the tree.
Newborn(what) ==
    [ver |-> exec.bin, what |-> what, loaded |-> FALSE, local |-> NoFile, found |-> 0, tree |-> 0,
     redeploy |-> FALSE, seen |-> 0, live |-> FALSE, back |-> "off", notice |-> FALSE,
     step |-> 0, snap |-> {}, bad |-> 0]

InstallInit ==
    /\ remote = [b \in BOOLEAN |-> 1]
    /\ exec = [bin |-> 1, file |-> [ver |-> 1, beta |-> FALSE]]
    /\ svc = [bin |-> 0, plist |-> FALSE, run |-> 0, rule |-> FALSE, log |-> FALSE, grant |-> FALSE]
    /\ bar = [app |-> 0, run |-> 0] /\ panes = [built |-> 0, inst |-> 0] /\ live = TRUE
    /\ at = [p \in Process |-> "off"] /\ me = [p \in Process |-> Newborn("menu")]
    /\ told = "none" /\ dirty = FALSE
    /\ fuel = [runs |-> MaxRuns, choices |-> MaxChoices, glitches |-> MaxGlitches]

Move(p, l) == at' = [at EXCEPT ![p] = l]
Note(p, r) == me' = [me EXCEPT ![p] = r]
Glitch == fuel.glitches > 0 /\ fuel' = [fuel EXCEPT !.glitches = @ - 1]

(***************************************************************************)
(* Start-up                                                                *)
(***************************************************************************)

\* A new version is pushed to a branch.
Publish(b) ==
    /\ remote[b] < MaxVersion /\ remote' = [remote EXCEPT ![b] = @ + 1]
    /\ UNCHANGED <<exec, svc, bar, panes, live, at, me, told, dirty, fuel>>

\* main(): the interactive client first looks after the preference pane; the runs in a
\* Terminal window go straight to their work.
Launch(p, what) ==
    /\ at[p] = "off" /\ fuel.runs > 0 /\ exec.bin # 0
    /\ what \in (IF p = Menu THEN {"menu"} ELSE {"updater", "check", "deploy"})
    /\ fuel' = [fuel EXCEPT !.runs = @ - 1]
    /\ Note(p, [Newborn(what) EXCEPT !.back = IF p = Menu THEN "sensor" ELSE "off"])
    /\ Move(p, CASE what = "menu" -> "pane" [] what = "deploy" -> "deploy" [] OTHER -> "check")
    /\ UNCHANGED <<remote, exec, svc, bar, panes, live, told, dirty>>

\* The bundle to install after the build that ensure_pane_installed() may run: the source
\* hash decides whether the bundle in the tree is that of this source.
BuiltAfter(b) == IF b THEN [panes EXCEPT !.built = exec.bin] ELSE panes

\* do_install_pane(): the old pane is removed before the new one is copied.
PaneCopied(q) == [q EXCEPT !.inst = q.built]
PaneLost(q) == [q EXCEPT !.inst = 0]

\* ensure_pane_installed(): build when the bundle is missing or stale (240 s at most), and
\* install when the installed one differs.
EnsurePane(p) ==
    /\ at[p] = "pane"
    /\ LET have == panes.built # 0
           fine == IF have THEN panes.built = exec.bin ELSE panes.inst = exec.bin
           After(q) == IF q.built \in {0, q.inst} THEN q ELSE PaneCopied(q)
       IN \/ fine /\ panes' = After(panes) /\ UNCHANGED fuel
          \/ ~fine /\ panes' = After(BuiltAfter(TRUE)) /\ UNCHANGED fuel
          \/ ~fine /\ Glitch /\ panes' = After(panes)
          \/ Glitch /\ BuiltAfter(~fine).built # 0 /\ panes' = PaneLost(BuiltAfter(~fine))
    /\ Move(p, "offer")
    /\ UNCHANGED <<remote, exec, svc, bar, live, me, told, dirty>>

\* offer_pane_instead_of_cli(): the person may open the installed pane instead.  Without a
\* recognised OpenCore the client ends here too (check_opencore_version_requirement()).
OfferPane(p) ==
    /\ at[p] = "offer"
    /\ \/ Move(p, "check") /\ Note(p, [me[p] EXCEPT !.live = live])
       \/ Move(p, "off") /\ UNCHANGED me
    /\ UNCHANGED <<remote, exec, svc, bar, panes, live, told, dirty, fuel>>

\* check_sensor_presence_gate(), check_sensor_dependencies() (which never stops) and
\* check_daemon_version_gate(), which can end the client: an installed daemon must be of
\* the client's own version.
Gates(p) ==
    /\ at[p] = "sensor"
    /\ \/ svc.bin \in {0, me[p].ver} /\ Move(p, "menu")
       \/ Move(p, "off")
    /\ UNCHANGED <<remote, exec, svc, bar, panes, live, me, told, dirty, fuel>>

(***************************************************************************)
(* Updating                                                                *)
(***************************************************************************)

\* check_for_client_update(), headless_find_update(), do_settings_check_updates() and
\* update_watch_check_now(): VERSION.txt is read once per process; no answer from the
\* network, no file, and nothing newer all mean no update.  The live check does not offer
\* a version twice.
CheckUpdate(p) ==
    /\ at[p] \in {"check", "watch"}
    /\ LET loaded == me[p].loaded \/ exec.file.ver # 0
           local == IF me[p].loaded THEN me[p].local ELSE exec.file
           found == remote[local.beta]
           r == [me[p] EXCEPT !.loaded = loaded, !.local = local]
           new == loaded /\ found > local.ver /\ ~(at[p] = "watch" /\ found = r.seen)
       IN \/ /\ new /\ Note(p, [r EXCEPT !.found = found, !.seen = found, !.redeploy = (r.what = "updater")])
             /\ Move(p, IF r.what = "updater" THEN "download" ELSE "prompt")
          \/ Note(p, r) /\ Move(p, r.back)
    /\ UNCHANGED <<remote, exec, svc, bar, panes, live, told, dirty, fuel>>

\* run_update_prompt(): no; yes; or update and re-deploy.  (The change log is only shown.)
Prompt(p) ==
    /\ at[p] = "prompt"
    /\ \/ Move(p, me[p].back) /\ UNCHANGED me
       \/ \E x \in BOOLEAN : Move(p, "download") /\ Note(p, [me[p] EXCEPT !.redeploy = x])
    /\ UNCHANGED <<remote, exec, svc, bar, panes, live, told, dirty, fuel>>

\* download_build_and_swap_update(), first part: the branch as it is now is downloaded,
\* extracted and built in a directory of its own; any failure leaves everything as it was.
Download(p) ==
    /\ at[p] = "download"
    /\ \/ Move(p, "swap") /\ Note(p, [me[p] EXCEPT !.tree = remote[me[p].local.beta]])
       \/ Move(p, me[p].back) /\ UNCHANGED me
    /\ UNCHANGED <<remote, exec, svc, bar, panes, live, told, dirty, fuel>>

\* Then the client's directory is emptied and the new tree copied into it.  The status of
\* the command is ignored: when the copy fails there is no client left.
Swap(p) ==
    /\ at[p] = "swap"
    /\ \/ /\ exec' = [bin |-> me[p].tree, file |-> [ver |-> me[p].tree, beta |-> me[p].local.beta]]
          /\ UNCHANGED fuel
       \/ Glitch /\ exec' = [bin |-> 0, file |-> NoFile]
    /\ panes' = [panes EXCEPT !.built = 0]
    /\ Move(p, "remove")
    /\ UNCHANGED <<remote, svc, bar, live, me, told, dirty>>

\* Mutant: only a running daemon is removed.
Removed_IfRunning == IF svc.run # 0 THEN [svc EXCEPT !.bin = 0, !.plist = FALSE, !.run = 0, !.grant = FALSE] ELSE svc

\* remove_daemon_for_update() when all of it works: agent, plist, grant and binary; the
\* log and the sudo rule stay.
Removed == [svc EXCEPT !.bin = 0, !.plist = FALSE, !.run = 0, !.grant = FALSE]

\* Something was there to be removed, whether or not the removal worked.
RemoveDaemon(p) ==
    /\ at[p] = "remove"
    /\ \/ svc' = Removed /\ UNCHANGED fuel
       \/ Glitch /\ svc' \in {[Removed EXCEPT !.run = svc.run], [Removed EXCEPT !.plist = svc.plist],
                              [Removed EXCEPT !.bin = svc.bin]}
    /\ Note(p, [me[p] EXCEPT !.notice = svc.bin # 0 \/ svc.plist \/ svc.run # 0])
    /\ Move(p, IF me[p].redeploy THEN "redeploy" ELSE IF p = Menu THEN "relaunch" ELSE "off")
    /\ UNCHANGED <<remote, exec, bar, panes, live, told, dirty>>

\* redeploy_daemon_with_new_client(): the new binary with --deploy-agent; where there is
\* none the command fails.
Redeploy(p) ==
    /\ at[p] = "redeploy"
    /\ IF exec.bin # 0 THEN Move(p, "deploy") /\ UNCHANGED me
       ELSE Move(p, IF p = Menu THEN "relaunch" ELSE "off") /\ Note(p, [me[p] EXCEPT !.notice = TRUE])
    /\ UNCHANGED <<remote, exec, svc, bar, panes, live, told, dirty, fuel>>

\* execv() of the new client with --post-update, which skips the pane; it is told to show
\* its notice with --daemon-removed.
Relaunch(p) ==
    /\ at[p] = "relaunch"
    /\ IF exec.bin = 0 THEN Move(p, "off") /\ UNCHANGED me
       ELSE /\ Move(p, "check")
            /\ Note(p, [Newborn("menu") EXCEPT !.back = "sensor", !.live = live, !.notice = me[p].notice])
    /\ UNCHANGED <<remote, exec, svc, bar, panes, live, told, dirty, fuel>>

(***************************************************************************)
(* Deploying                                                               *)
(***************************************************************************)

\* Where do_deploy() returns to.  As a process of its own (--deploy-agent) main() returns
\* 0 whether or not it worked, so a re-deploying updater goes on as if it had.
DeployReturns(p) ==
    CASE me[p].redeploy /\ p = Menu -> "relaunch"
      [] p = Menu /\ ~me[p].redeploy -> "menu"
      [] OTHER -> "off"

\* Mutant: the position in the script is not reset.
EndDeploy_KeepsStep(p) ==
    Move(p, DeployReturns(p)) /\ Note(p, [me[p] EXCEPT !.notice = @ /\ ~me[p].redeploy])

\* The deployment is over, whichever step ended it.
EndDeploy(p) ==
    Move(p, DeployReturns(p)) /\ Note(p, [me[p] EXCEPT !.step = 0, !.notice = @ /\ ~me[p].redeploy])

\* The sensor must be there, have a backend and a volume (see ClientPrints); then the
\* install script builds the daemon.
Deploy(p) ==
    /\ at[p] = "deploy"
    /\ \/ exec.bin # 0 /\ Move(p, "script") /\ UNCHANGED me
       \/ EndDeploy(p)
    /\ UNCHANGED <<remote, exec, svc, bar, panes, live, told, dirty, fuel>>

\* The steps of the install script, each of which may end it: the binary and its
\* Accessibility grant, the old agent's end, the sudo rule, the log, the plist, and the
\* start of the agent, which needs binary and plist.
ScriptSteps == 6
ScriptDoes(i) ==
    CASE i = 0 -> [svc EXCEPT !.bin = exec.bin, !.grant = TRUE]
      [] i = 1 -> [svc EXCEPT !.run = 0]
      [] i = 2 -> [svc EXCEPT !.rule = TRUE]
      [] i = 3 -> [svc EXCEPT !.log = TRUE]
      [] i = 4 -> [svc EXCEPT !.plist = TRUE]
      [] i = 5 -> [svc EXCEPT !.run = IF svc.plist THEN svc.bin ELSE 0]
Script(p) ==
    /\ at[p] = "script"
    /\ LET i == me[p].step
       IN \/ /\ i = 0 => exec.bin # 0
             /\ svc' = ScriptDoes(i) /\ dirty' = TRUE /\ UNCHANGED fuel
             /\ IF i + 1 < ScriptSteps
                THEN Move(p, "script") /\ Note(p, [me[p] EXCEPT !.step = i + 1])
                ELSE Move(p, "bar") /\ UNCHANGED me
          \/ i = 0 /\ exec.bin = 0 /\ EndDeploy(p) /\ UNCHANGED <<svc, dirty, fuel>>
          \/ Glitch /\ EndDeploy(p) /\ UNCHANGED <<svc, dirty>>
    /\ UNCHANGED <<remote, exec, bar, panes, live, told>>

\* do_install_menubar(): an identical application is kept; otherwise it is quit, replaced
\* and started again.  After a deployment the pane is offered next,
\* unless it was part of an update.
InstallBar(p) ==
    /\ at[p] = "bar"
    /\ \/ /\ exec.bin # 0 /\ bar' = [app |-> exec.bin, run |-> exec.bin] /\ UNCHANGED fuel
       \/ Glitch /\ bar' \in {[app |-> exec.bin, run |-> 0], [app |-> 0, run |-> 0]}
       \/ exec.bin = 0 /\ UNCHANGED <<bar, fuel>>
    /\ dirty' = TRUE
    /\ IF me[p].step > 0 /\ ~me[p].redeploy /\ panes.built # 0
       THEN Move(p, "askpane") /\ UNCHANGED me ELSE EndDeploy(p)
    /\ UNCHANGED <<remote, exec, svc, panes, live, told>>

\* do_install_pane() from the menu or at the end of a deployment.
InstallPane(p) ==
    /\ at[p] = "askpane"
    /\ \/ UNCHANGED <<panes, fuel>>
       \/ panes.built # 0 /\ panes' = PaneCopied(panes) /\ UNCHANGED fuel
       \/ panes.built # 0 /\ Glitch /\ panes' = PaneLost(panes)
    /\ EndDeploy(p)
    /\ UNCHANGED <<remote, exec, svc, bar, live, told, dirty>>

(***************************************************************************)
(* Uninstalling                                                            *)
(***************************************************************************)

Parts == {"run", "plist", "bin", "rule", "log", "bar"}
Present(x) ==
    CASE x = "run" -> svc.run # 0 [] x = "plist" -> svc.plist [] x = "bin" -> svc.bin # 0
      [] x = "rule" -> svc.rule [] x = "log" -> svc.log [] x = "bar" -> bar.app # 0

\* The order of removal; the agent and its plist go first so that it does not come back.
RemovalOrder == <<"run", "plist", "bin", "rule", "log", "bar">>

\* do_uninstall() surveys what is there, names it and asks.
Survey(p) ==
    /\ at[p] = "survey"
    /\ LET snap == {x \in Parts \ {"rule"} : Present(x)}
       IN /\ \/ Move(p, "menu") /\ UNCHANGED <<me, dirty, told>>
             \/ /\ snap # {} /\ Move(p, "uninstall") /\ dirty' = FALSE /\ told' = "none"
                /\ Note(p, [me[p] EXCEPT !.snap = snap, !.bad = 0, !.step = 1])
    /\ UNCHANGED <<remote, exec, svc, bar, panes, live, fuel>>

\* Mutant: a part that could not be removed is not counted.
Counted_Not(p, failed) == me[p].bad

\* problems.
Counted(p, failed) == me[p].bad + (IF failed THEN 1 ELSE 0)

\* One part after the other: what the survey found, and whatever sudo rule names the
\* install directory now.  The running agent is stopped in any case and looked for
\* afterwards.  A failure is counted and the rest still done.
Uninstall(p) ==
    /\ at[p] = "uninstall"
    /\ LET x == RemovalOrder[me[p].step]
           act == Present(x) /\ (x \in {"run", "rule"} \/ x \in me[p].snap)
           last == me[p].step = Len(RemovalOrder)
           Report(failed) ==
               IF last THEN /\ Move(p, "menu") /\ Note(p, [me[p] EXCEPT !.snap = {}, !.bad = 0, !.step = 0])
                            /\ told' = IF Counted(p, failed) = 0 THEN "complete" ELSE "problems"
               ELSE /\ Note(p, [me[p] EXCEPT !.bad = Counted(p, failed), !.step = @ + 1])
                    /\ UNCHANGED <<at, told>>
       IN \/ /\ act /\ UNCHANGED fuel /\ Report(FALSE)
             /\ svc' = (CASE x = "run" -> [svc EXCEPT !.run = 0]
                          [] x = "plist" -> [svc EXCEPT !.plist = FALSE]
                          [] x = "bin" -> [svc EXCEPT !.bin = 0, !.grant = FALSE]
                          [] x = "rule" -> [svc EXCEPT !.rule = FALSE]
                          [] x = "log" -> [svc EXCEPT !.log = FALSE]
                          [] OTHER -> svc)
             /\ bar' = IF x = "bar" THEN [app |-> 0, run |-> 0] ELSE bar
          \/ act /\ Glitch /\ Report(TRUE) /\ UNCHANGED <<svc, bar>>
          \/ ~act /\ Report(FALSE) /\ UNCHANGED <<svc, bar, fuel>>
    /\ UNCHANGED <<remote, exec, panes, live, dirty>>

(***************************************************************************)
(* The menu and its settings                                               *)
(***************************************************************************)

\* What the person chooses: [3], [M], [I], [X], Settings [CU], or [Q]; the live check comes
\* by itself while the menu waits.
Choices == {"deploy", "bar", "askpane", "survey", "check", "off"}
Choose(p, c) ==
    /\ at[p] = "menu" /\ fuel.choices > 0 /\ fuel' = [fuel EXCEPT !.choices = @ - 1]
    /\ Move(p, c) /\ Note(p, [me[p] EXCEPT !.back = "menu", !.redeploy = FALSE, !.step = 0])
    /\ UNCHANGED <<remote, exec, svc, bar, panes, live, told, dirty>>
Watch(p) ==
    /\ at[p] = "menu" /\ me[p].live /\ fuel.choices > 0
    /\ fuel' = [fuel EXCEPT !.choices = @ - 1]
    /\ Move(p, "watch") /\ Note(p, [me[p] EXCEPT !.back = "menu"])
    /\ UNCHANGED <<remote, exec, svc, bar, panes, live, told, dirty>>

\* do_settings_toggle_beta() writes the version this process read at first, with the other
\* branch; do_settings_toggle_live_update(); do_settings_grant_accessibility() with a
\* daemon installed.
ToggleBeta(p) ==
    LET local == IF me[p].loaded THEN me[p].local ELSE exec.file
        new == [local EXCEPT !.beta = ~@]
    IN /\ local.ver # 0 /\ Note(p, [me[p] EXCEPT !.loaded = TRUE, !.local = new])
       /\ exec' = [exec EXCEPT !.file = new] /\ UNCHANGED <<svc, live>>
ToggleLive(p) ==
    live' = ~me[p].live /\ Note(p, [me[p] EXCEPT !.live = ~@]) /\ UNCHANGED <<exec, svc>>
Grant(p) ==
    svc.bin # 0 /\ svc' = [svc EXCEPT !.grant = TRUE] /\ UNCHANGED <<exec, live, me>>
Setting(p) ==
    /\ at[p] = "menu" /\ fuel.choices > 0 /\ fuel' = [fuel EXCEPT !.choices = @ - 1]
    /\ ToggleBeta(p) \/ ToggleLive(p) \/ Grant(p)
    /\ UNCHANGED <<remote, bar, panes, at, told, dirty>>

\* A process is killed wherever it is.
Dies(p) ==
    /\ at[p] # "off" /\ Glitch /\ Move(p, "off")
    /\ UNCHANGED <<remote, exec, svc, bar, panes, live, me, told, dirty>>

InstallNext ==
    \/ \E b \in BOOLEAN : Publish(b)
    \/ \E p \in Process :
          \/ \E w \in {"menu", "updater", "check", "deploy"} : Launch(p, w)
          \/ EnsurePane(p) \/ OfferPane(p) \/ Gates(p)
          \/ CheckUpdate(p) \/ Prompt(p) \/ Download(p) \/ Swap(p) \/ RemoveDaemon(p)
          \/ Redeploy(p) \/ Relaunch(p)
          \/ Deploy(p) \/ Script(p) \/ InstallBar(p) \/ InstallPane(p)
          \/ Survey(p) \/ Uninstall(p)
          \/ \E c \in Choices : Choose(p, c)
          \/ Watch(p) \/ Setting(p) \/ Dies(p)
=============================================================================
