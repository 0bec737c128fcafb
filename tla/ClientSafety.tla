---------------------------- MODULE ClientSafety ----------------------------
(***************************************************************************)
(* The configuration client as a whole and what it promises.  Its work on  *)
(* fingers (ClientPrints) and on the installation (ClientInstall) share    *)
(* no variable, so each behaviour is of the one or of the other.           *)
(***************************************************************************)
EXTENDS ClientPrints, ClientInstall

VARIABLE half   \* which of the two a behaviour is about
vars == <<half, pvars, ivars>>

Init ==
    /\ half \in {"prints", "install"} /\ PrintsInit /\ InstallInit
    /\ half = "install" => chip = {} /\ kit = [sensor |-> "files", shared |-> FALSE, foreign |-> FALSE]
Next ==
    \/ half = "prints" /\ PrintsNext /\ UNCHANGED <<half, ivars>>
    \/ half = "install" /\ InstallNext /\ UNCHANGED <<half, pvars>>
Spec == Init /\ [][Next]_vars

Quiet == \A p \in Client : pc[p] \in {"idle", "off"}
NoFault == left.faults = MaxFaults
NoGlitch == fuel.glitches = MaxGlitches

\* Every variable keeps its type, and a process is at a step of a script only while it runs
\* one.
TypeOK ==
    /\ kit \in [sensor : {"files", "metallica"}, shared : BOOLEAN, foreign : BOOLEAN]
    /\ vol.files \subseteq Names /\ DOMAIN vol.names \subseteq Slots \cup Foreign
    /\ Range(vol.names) \subseteq Names /\ vol.mounted \in BOOLEAN /\ vol.pw \in BOOLEAN
    /\ chip \subseteq Slots \cup Foreign /\ conf \in {"none", "real", "wrong"} /\ yielding \in BOOLEAN
    /\ \A p \in Proc : DOMAIN mem[p].names \subseteq Slots \cup Foreign /\ mem[p].labels \subseteq Names
    /\ exec.bin \in 0..MaxVersion /\ exec.file.ver \in 0..MaxVersion
    /\ svc.bin \in 0..MaxVersion /\ svc.run \in 0..MaxVersion /\ bar.app \in 0..MaxVersion
    /\ panes.built \in 0..MaxVersion /\ panes.inst \in 0..MaxVersion
    /\ \A p \in Process :
          /\ me[p].step \in 0..ScriptSteps /\ me[p].tree \in 0..MaxVersion
          /\ me[p].step > 0 => at[p] \in {"script", "bar", "askpane", "uninstall", "off"}

\* No two prints on the sensor have the same name in the file of names, whichever of the
\* menu and the pane wrote it last and whatever the write left of it: a name is compared
\* with those of the listed prints, and names of prints that are gone are dropped first
\* (mmis_alias_taken(), mmis_alias_prune()).
NamesUnique == \A s, t \in DOMAIN vol.names : vol.names[s] = vol.names[t] => s = t

\* An operation leaves nothing behind, on any path, declined questions and failed saves
\* included (unless a script failed or a process was killed).  When nobody is using the store
\* it is not mounted: every mount_template_volume() that succeeds is followed by an unmount.
\* No daemon is kept off the sensor by a client that has finished: every yield begun is
\* ended.  And an identity the sensor refused, saved before it was tried, is removed
\* (mmis_run_with_host_identity()).
NothingLeftBehind ==
    NoFault =>
        /\ Quiet /\ pc[Loader] = "idle" => ~vol.mounted
        /\ Quiet => ~yielding
        /\ pc[Cli] \in {"idle", "off"} => conf \in {"none", Accepted}

\* Once no removal of an update is pending, the installed daemon is of the version of the
\* client's tree and so is the running agent, in the middle of a deployment too, and even
\* when the menu and a Terminal run updated or deployed it at the same time.  (An
\* uninstallation that removes the binary while a deployment starts the agent leaves it
\* running without one.)
DaemonMatchesClient ==
    (NoGlitch /\ \A p \in Process : at[p] # "remove")
        => svc.bin = 0 \/ (svc.bin = exec.bin /\ svc.run \in {0, svc.bin})

\* "Uninstall complete." is true: unless something was deployed since its survey, nothing
\* of the daemon, its agent, its log, its sudo rule or the menu-bar application is left,
\* whichever removals failed on the way.
UninstallComplete ==
    (told = "complete" /\ ~dirty) => \A x \in Parts : ~Present(x)
=============================================================================
