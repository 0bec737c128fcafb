---------------------------- MODULE ClientProofs ----------------------------
(***************************************************************************)
(* The configuration client keeps its promises, for every number of names, *)
(* slots, operations, faults, versions and runs.                           *)
(***************************************************************************)
EXTENDS ClientSafety, TLAPS

(***************************************************************************)
(* The invariant of the work on fingers                                    *)
(***************************************************************************)

\* Where a function is between its mount and its unmount, where it goes on after the
\* unmount or without a volume, and the rest of it.
Using == {"list", "save", "score", "file", "clearpw", "setpw", "read", "write"}
Resumes == {"end", "chosen", "ask"}
Places == Using \cup Resumes \cup
          {"off", "idle", "mount", "unmount", "setup", "enroll", "deploy", "swipe", "verify", "capture",
           "session", "identity", "again", "wipe", "names", "touches"}

\* Places that ask nothing of the memory a client comes with.
Plain == Places \ {"mount", "unmount", "setup", "swipe", "save", "touches", "identity", "again"}

Operations == {"none", "start", "enroll", "verify", "delete", "setpw", "clearpw", "setup", "deploy",
               "capture", "rename", "calibrate", "list", "wipe"}

AllSlots == Slots \cup Foreign
NameFiles == UNION {[s -> Names] : s \in SUBSET AllSlots}
Unique(f) == \A s, t \in DOMAIN f : f[s] = f[t] => s = t

Memory == [known : BOOLEAN, labels : SUBSET Names, loaded : BOOLEAN, names : NameFiles,
           asked : BOOLEAN, declined : BOOLEAN, ident : {"own", "real", "wrong"},
           yielded : BOOLEAN, label : Names \cup {"none"}, slot : Slots \cup {0},
           replace : BOOLEAN, seen : SUBSET AllSlots, ret : Places, err : Places]

Volume == [configured : BOOLEAN, mounted : BOOLEAN, files : SUBSET Names, names : NameFiles,
           pw : BOOLEAN]

PrintsShape ==
    /\ kit \in [sensor : {"files", "metallica"}, shared : BOOLEAN, foreign : BOOLEAN]
    /\ vol \in Volume /\ chip \in SUBSET AllSlots /\ conf \in {"none", "real", "wrong"}
    /\ yielding \in BOOLEAN
    /\ pc \in [Proc -> Places] /\ op \in [Proc -> Operations] /\ mem \in [Proc -> Memory]
    /\ left \in [ops : 0..MaxOps, faults : 0..MaxFaults]

\* A client at l with memory m: mount, unmount and setup come back to where they were
\* called, only the menu asks for an identity, what is to be saved has a label, its names
\* differ, and so does the name a print is about to be given.
Sound(p, l, m) ==
    /\ l \in Places
    /\ l = "mount" => m.ret \in Using /\ m.err \in Resumes /\ (m.ret = "save" => m.label \in Names)
    /\ l \in {"swipe", "save"} => m.label \in Names
    /\ l = "unmount" => m.ret \in Resumes
    /\ l = "setup" => m.ret \in {"end", "deploy", "enroll"}
    /\ p = Pane => l \notin {"identity", "again"}
    /\ Unique(m.names)
    /\ l = "touches" => m.slot \in Slots /\ (m.label # "none" => ~Taken(m, m.seen, 0, m.label))

SoundLoader ==
    /\ pc[Loader] \in {"idle", "mount", "read", "unmount"}
    /\ pc[Loader] = "mount" => mem[Loader].ret = "read" /\ mem[Loader].err = "idle"
    /\ pc[Loader] = "unmount" => mem[Loader].ret = "idle"

PrintsSound ==
    /\ Unique(vol.names) /\ SoundLoader
    /\ \A p \in Client : Sound(p, pc[p], mem[p])

\* Unless something failed: whoever left the volume mounted is about to unmount it, ...
Holding == Using \cup {"unmount"}
VolumeHeld == NoFault /\ vol.mounted => \E p \in Proc : pc[p] \in Holding

\* ... whoever keeps the daemon off the sensor is about to end that, ...
Idle == {"idle", "off"}
SensorHeld == NoFault /\ yielding => \E p \in Client : pc[p] \notin Idle /\ mem[p].yielded

\* ... and an identity that has been saved is the accepted one or about to be tried.
IdentityTried ==
    NoFault => IF pc[Cli] = "again" THEN conf = mem[Cli].ident ELSE conf \in {"none", Accepted}

PrintsInv == PrintsShape /\ PrintsSound /\ VolumeHeld /\ SensorHeld /\ IdentityTried

(***************************************************************************)
(* The invariant of the installation                                       *)
(***************************************************************************)

Versions == 0..MaxVersion
Files == [ver : Versions, beta : BOOLEAN]
Stations == {"off", "pane", "offer", "check", "sensor", "menu", "watch", "prompt", "download", "swap",
             "remove", "redeploy", "relaunch", "deploy", "script", "bar", "askpane", "survey",
             "uninstall"}
Own == [ver : Versions, what : {"menu", "updater", "check", "deploy"}, loaded : BOOLEAN,
        local : Files, found : Versions, tree : Versions, redeploy : BOOLEAN, seen : Versions,
        live : BOOLEAN, back : {"off", "sensor", "menu"}, notice : BOOLEAN,
        step : 0..ScriptSteps, snap : SUBSET Parts, bad : Nat]

InstallShape ==
    /\ remote \in [BOOLEAN -> Versions]
    /\ exec \in [bin : Versions, file : Files]
    /\ svc \in [bin : Versions, plist : BOOLEAN, run : Versions, rule : BOOLEAN, log : BOOLEAN,
                grant : BOOLEAN]
    /\ bar \in [app : Versions, run : Versions] /\ panes \in [built : Versions, inst : Versions]
    /\ live \in BOOLEAN /\ told \in {"none", "complete", "problems"} /\ dirty \in BOOLEAN
    /\ at \in [Process -> Stations] /\ me \in [Process -> Own]
    /\ fuel \in [runs : 0..MaxRuns, choices : 0..MaxChoices, glitches : 0..MaxGlitches]

\* A process at a with variables r: only the menu has choices, surveys and uninstalls, and
\* the position in a script is that of the script it runs.
Fit(p, a, r) ==
    /\ p = Terminal => r.back = "off" /\ a \notin {"sensor", "menu", "survey", "uninstall", "relaunch"}
    /\ a = "script" => r.step \in 0..ScriptSteps - 1
    /\ a = "uninstall" => r.step \in 1..Len(RemovalOrder)
    /\ r.step > 0 => a \in {"script", "bar", "askpane", "uninstall", "off"}

\* Unless something failed, a daemon of another version than the client's is about to be
\* removed.
DaemonFollows ==
    NoGlitch => \/ \E p \in Process : at[p] = "remove"
                \/ svc.bin \in {0, exec.bin} /\ svc.run \in {0, exec.bin}

\* As long as nothing is deployed, what the survey did not find is not there, and without
\* a problem what has had its turn is gone.
Removing(r) ==
    /\ \A x \in Parts \ {"run", "rule"} : Present(x) => x \in r.snap
    /\ r.bad = 0 => \A i \in 1..r.step - 1 : ~Present(RemovalOrder[i])
UninstallTrue ==
    ~dirty => /\ at[Menu] = "uninstall" => Removing(me[Menu])
              /\ told = "complete" => \A x \in Parts : ~Present(x)

InstallInv ==
    /\ InstallShape /\ \A p \in Process : Fit(p, at[p], me[p])
    /\ DaemonFollows /\ UninstallTrue

-----------------------------------------------------------------------------
(***************************************************************************)
(* Names                                                                   *)
(***************************************************************************)

LEMMA NameFile ==
  ASSUME NEW f \in NameFiles
  PROVE  /\ DOMAIN f \in SUBSET AllSlots /\ \A s \in DOMAIN f : f[s] \in Names
         /\ Range(f) \subseteq Names
BY DEF NameFiles, Range

LEMMA NoNamesIsNameFile == NoNames \in NameFiles /\ Unique(NoNames)
<1>1. NoNames \in [{} -> Names]
  BY DEF NoNames
<1> QED BY <1>1 DEF NameFiles, Unique, NoNames

LEMMA RestrictedNames ==
  ASSUME NEW f \in NameFiles, NEW S \in SUBSET DOMAIN f
  PROVE  Restrict(f, S) \in NameFiles /\ (Unique(f) => Unique(Restrict(f, S)))
<1>1. Restrict(f, S) \in [S -> Names]
  BY NameFile DEF Restrict
<1>2. S \in SUBSET AllSlots
  BY NameFile
<1> QED BY <1>1, <1>2 DEF NameFiles, Unique, Restrict

\* A name no other kept print has leaves the names apart.
LEMMA NamesWith ==
  ASSUME NEW m \in Memory, NEW kept \in SUBSET AllSlots, NEW s \in AllSlots, NEW nm \in Names
  PROVE  LET f == WithName(m, kept, s, nm)
         IN /\ f \in NameFiles
            /\ Unique(m.names) /\ ~Taken(m, kept, s, nm) => Unique(f)
<1> DEFINE f == WithName(m, kept, s, nm)
           dom == (DOMAIN m.names \cap kept) \cup {s}
<1>1. m.names \in NameFiles
  BY DEF Memory
<1>2. f \in [dom -> Names] /\ dom \in SUBSET AllSlots
  BY <1>1, NameFile DEF WithName
<1>3. f \in NameFiles
  BY <1>2 DEF NameFiles
<1>4. ASSUME Unique(m.names), ~Taken(m, kept, s, nm), NEW x \in dom, NEW y \in dom, f[x] = f[y]
      PROVE  x = y
  <2>1. \A z \in dom \ {s} : f[z] = m.names[z] /\ z \in (kept \cap DOMAIN m.names) \ {s}
    BY DEF WithName
  <2>2. f[s] = nm
    BY DEF WithName
  <2> QED BY <1>4, <2>1, <2>2 DEF Taken, Unique
<1> QED BY <1>2, <1>3, <1>4 DEF Unique

-----------------------------------------------------------------------------
(***************************************************************************)
(* A step of a client                                                      *)
(***************************************************************************)

LEMMA Labels ==
    /\ "list" \in Using /\ "save" \in Using /\ "score" \in Using /\ "file" \in Using
    /\ "clearpw" \in Using /\ "setpw" \in Using /\ "read" \in Using /\ "write" \in Using
    /\ "end" \in Resumes /\ "chosen" \in Resumes /\ "ask" \in Resumes
    /\ Using \ {"save"} \subseteq Plain /\ Resumes \subseteq Plain /\ Plain \subseteq Places
    /\ "end" \in Plain /\ "chosen" \in Plain /\ "ask" \in Plain /\ "idle" \in Plain
    /\ "off" \in Plain /\ "enroll" \in Plain /\ "deploy" \in Plain
    /\ "verify" \in Plain /\ "capture" \in Plain /\ "session" \in Plain /\ "wipe" \in Plain
    /\ "names" \in Plain
    /\ "mount" \in Places /\ "unmount" \in Places /\ "setup" \in Places
    /\ "swipe" \in Places /\ "save" \in Places
    /\ "touches" \in Places /\ "identity" \in Places /\ "again" \in Places
BY DEF Using, Resumes, Places, Plain

\* One client goes on, soundly.
StepsTo(p, l, m) ==
    /\ l \in Places /\ m \in Memory /\ Sound(p, l, m)
    /\ pc' = [pc EXCEPT ![p] = l] /\ mem' = [mem EXCEPT ![p] = m]
Steps(p) == \E l, m : StepsTo(p, l, m)

LEMMA Goes ==
  ASSUME PrintsShape, NEW p \in Client, Sound(p, pc[p], mem[p]),
         NEW l \in Plain,
         Goto(p, l)
  PROVE  /\ UNCHANGED mem => Steps(p)
         /\ \A m \in Memory : Set(p, m) /\ Unique(m.names) => Steps(p)
<1>1. mem[p] \in Memory /\ mem = [mem EXCEPT ![p] = mem[p]]
  BY DEF PrintsShape, Proc
<1>2. ASSUME NEW m \in Memory, Unique(m.names), mem' = [mem EXCEPT ![p] = m]
      PROVE  Steps(p)
  <2>1. StepsTo(p, l, m)
    BY <1>2 DEF StepsTo, Sound, Goto, Plain
  <2> QED BY <2>1 DEF Steps
<1>3. Unique(mem[p].names)
  BY DEF Sound
<1> QED BY <1>1, <1>2, <1>3 DEF Set

LEMMA GoesLabelled ==
  ASSUME PrintsShape, NEW p \in Client, NEW m \in Memory, Unique(m.names), m.label \in Names,
         NEW l \in {"swipe", "save"}, Goto(p, l), Set(p, m)
  PROVE  Steps(p)
<1>1. StepsTo(p, l, m)
  BY Labels DEF StepsTo, Sound, Goto, Set
<1> QED BY <1>1 DEF Steps

LEMMA GoesToMount ==
  ASSUME PrintsShape, NEW p \in Client, NEW m \in Memory, Unique(m.names),
         NEW ret \in Using, NEW err \in Resumes, ret = "save" => m.label \in Names,
         CallMount(p, m, ret, err)
  PROVE  Steps(p)
<1> DEFINE k == [m EXCEPT !.ret = ret, !.err = err]
<1>1. k \in Memory /\ k.names = m.names /\ k.label = m.label /\ k.ret = ret /\ k.err = err
  BY DEF Memory, Places
<1>2. StepsTo(p, "mount", k)
  BY <1>1 DEF StepsTo, Sound, CallMount, Goto, Set, Places
<1> QED BY <1>2 DEF Steps

LEMMA GoesToUnmount ==
  ASSUME PrintsShape, NEW p \in Client, NEW m \in Memory, Unique(m.names),
         NEW ret \in Resumes, CallUnmount(p, m, ret)
  PROVE  Steps(p)
<1> DEFINE k == [m EXCEPT !.ret = ret]
<1>1. k \in Memory /\ k.names = m.names /\ k.ret = ret
  BY DEF Memory, Places
<1>2. StepsTo(p, "unmount", k)
  BY <1>1 DEF StepsTo, Sound, CallUnmount, Goto, Set, Places
<1> QED BY <1>2 DEF Steps

\* How a client at any place goes on soundly.
CanGo(p) ==
    /\ \A l \in Plain : Goto(p, l) /\ UNCHANGED mem => Steps(p)
    /\ \A l \in Plain, m \in Memory : Goto(p, l) /\ Set(p, m) /\ Unique(m.names) => Steps(p)
    /\ \A l \in {"swipe", "save"}, m \in Memory :
          Goto(p, l) /\ Set(p, m) /\ Unique(m.names) /\ m.label \in Names => Steps(p)
    /\ \A m \in Memory, ret \in Using, err \in Resumes :
          /\ Unique(m.names) /\ (ret = "save" => m.label \in Names)
          /\ CallMount(p, m, ret, err)
          => Steps(p)
    /\ \A m \in Memory, ret \in Resumes :
          Unique(m.names) /\ CallUnmount(p, m, ret) => Steps(p)

LEMMA GoesOn ==
  ASSUME PrintsShape, NEW p \in Client, Sound(p, pc[p], mem[p])
  PROVE  CanGo(p)
<1>1. \A l \in Plain : Goto(p, l) /\ UNCHANGED mem => Steps(p)
  BY Goes
<1>2. \A l \in Plain, m \in Memory : Goto(p, l) /\ Set(p, m) /\ Unique(m.names) => Steps(p)
  BY Goes
<1>3. \A m \in Memory, ret \in Using, err \in Resumes :
         /\ Unique(m.names) /\ (ret = "save" => m.label \in Names)
         /\ CallMount(p, m, ret, err)
         => Steps(p)
  BY GoesToMount
<1>4. \A m \in Memory, ret \in Resumes : Unique(m.names) /\ CallUnmount(p, m, ret) => Steps(p)
  BY GoesToUnmount
<1>5. \A l \in {"swipe", "save"}, m \in Memory :
         Goto(p, l) /\ Set(p, m) /\ Unique(m.names) /\ m.label \in Names => Steps(p)
  BY GoesLabelled
<1> QED BY <1>1, <1>2, <1>3, <1>4, <1>5 DEF CanGo

LEMMA FreshMemory ==
  ASSUME NEW c \in {"none", "real", "wrong"}
  PROVE  Fresh(c) \in Memory /\ Unique(Fresh(c).names)
BY NoNamesIsNameFile DEF Fresh, Memory, Places

\* The volume, starting and ending.
LEMMA VolumeSteps ==
  ASSUME PrintsShape, NEW p \in Client, Sound(p, pc[p], mem[p]),
         Mount(p) \/ Unmount(p) \/ SetupVolume(p) \/ End(p)
  PROVE  Steps(p)
<1> DEFINE m == mem[p]
<1>0. m \in Memory /\ Unique(m.names) /\ m.ret \in Places /\ m.err \in Places
  BY DEF PrintsShape, Proc, Sound, Memory
<1>g. CanGo(p)
  BY GoesOn
<1>1. CASE Mount(p)
  <2>1. m.ret \in Using /\ m.err \in Resumes /\ (m.ret = "save" => m.label \in Names)
    BY <1>1 DEF Mount, Sound
  <2>2. PICK l \in {m.ret, m.err}, x, y \in BOOLEAN :
           Goto(p, l) /\ (Set(p, [m EXCEPT !.asked = x, !.declined = y]) \/ Set(p, [m EXCEPT !.asked = x]))
    BY <1>1 DEF Mount
  <2>3. \A k \in {[m EXCEPT !.asked = x, !.declined = y], [m EXCEPT !.asked = x]} :
           k \in Memory /\ Unique(k.names) /\ k.label = m.label
    BY <1>0 DEF Memory
  <2> QED BY <2>1, <2>2, <2>3, <1>g, Labels DEF CanGo
<1>2. CASE Unmount(p)
  <2>1. m.ret \in Resumes /\ Goto(p, m.ret) /\ UNCHANGED mem
    BY <1>2 DEF Unmount, Sound
  <2> QED BY <2>1, <1>g, Labels DEF CanGo
<1>3. CASE SetupVolume(p)
  <2>1. m.ret \in {"end", "deploy", "enroll"} /\ UNCHANGED mem /\ \E l \in {m.ret, "end"} : Goto(p, l)
    BY <1>3 DEF SetupVolume, Sound
  <2> QED BY <2>1, <1>g, Labels DEF CanGo, Places
<1>4. CASE End(p)
  <2> DEFINE k == [m EXCEPT !.yielded = FALSE, !.label = "none", !.slot = 0, !.replace = FALSE,
                            !.seen = {}, !.ret = "idle", !.err = "idle"]
  <2>1. k \in Memory /\ k.names = m.names
    BY <1>0 DEF Memory, Places
  <2>2. Goto(p, "idle") /\ Set(p, k)
    BY <1>4 DEF End
  <2> QED BY <1>0, <2>1, <2>2, <1>g, Labels DEF CanGo, Places
<1> QED BY <1>1, <1>2, <1>3, <1>4

\* Fingers as files, and the password.
LEMMA FileSteps ==
  ASSUME PrintsShape, NEW p \in Client, Sound(p, pc[p], mem[p]),
         \/ Enroll(p) \/ RefreshCache(p) \/ ChooseLabel(p) \/ CaptureSwipes(p) \/ SaveOrRemove(p)
         \/ Verify(p) \/ Score(p) \/ CaptureOnly(p) \/ HeadlessFile(p)
         \/ ClearPassword(p) \/ SetPassword(p) \/ DeployPassword(p)
  PROVE  Steps(p)
<1> DEFINE m == mem[p]
<1>0. m \in Memory /\ Unique(m.names) /\ Listed \in SUBSET Names
  BY DEF PrintsShape, Proc, Sound, Listed, Volume
<1>g. CanGo(p)
  BY GoesOn
<1>1. CASE Enroll(p)
  BY <1>0, <1>1, <1>g, Labels DEF CanGo, Enroll
<1>2. CASE RefreshCache(p) \/ Score(p)
  <2> DEFINE k == [m EXCEPT !.known = TRUE, !.labels = Listed]
  <2>1. k \in Memory /\ k.names = m.names
    BY <1>0 DEF Memory
  <2>2. \E r \in {"end", "chosen"} : CallUnmount(p, k, r)
    BY <1>2 DEF RefreshCache, Score
  <2> QED BY <1>0, <2>1, <2>2, <1>g, Labels DEF CanGo
<1>3. CASE ChooseLabel(p)
  <2>1. \A l \in Names : LET k == [m EXCEPT !.label = l]
                        IN k \in Memory /\ k.names = m.names /\ k.label = l
    BY <1>0 DEF Memory
  <2>2. \/ Goto(p, "end") /\ UNCHANGED mem
        \/ \E l \in Names : \/ Goto(p, "swipe") /\ Set(p, [m EXCEPT !.label = l])
                            \/ CallMount(p, [m EXCEPT !.label = l], "save", "end")
    BY <1>3 DEF ChooseLabel
  <2> QED BY <1>0, <2>1, <2>2, <1>g, Labels DEF CanGo
<1>4. CASE SaveOrRemove(p)
  <2>1. [m EXCEPT !.known = FALSE] \in Memory /\ [m EXCEPT !.known = FALSE].names = m.names
    BY <1>0 DEF Memory
  <2>2. CallUnmount(p, [m EXCEPT !.known = FALSE], "end") \/ CallUnmount(p, m, "end")
    BY <1>4 DEF SaveOrRemove
  <2> QED BY <1>0, <2>1, <2>2, <1>g, Labels DEF CanGo
<1>5. CASE CaptureSwipes(p)
  <2>1. m.label \in Names
    BY <1>5 DEF CaptureSwipes, Sound
  <2> QED BY <1>0, <1>5, <1>g, <2>1, Labels DEF CanGo, CaptureSwipes
<1>7. CASE Verify(p) \/ CaptureOnly(p) \/ DeployPassword(p)
  BY <1>0, <1>7, <1>g, Labels DEF CanGo, Verify, CaptureOnly, DeployPassword
<1>6. CASE HeadlessFile(p) \/ ClearPassword(p) \/ SetPassword(p)
  <2>1. CallUnmount(p, m, "end")
    BY <1>6 DEF HeadlessFile, ClearPassword, SetPassword, ClearReturns
  <2> QED BY <1>0, <2>1, <1>g, Labels DEF CanGo
<1> QED BY <1>1, <1>2, <1>3, <1>4, <1>5, <1>6, <1>7

\* A session, the host identity and the names of prints.
LEMMA SessionSteps ==
  ASSUME PrintsShape, NEW p \in Client, Sound(p, pc[p], mem[p]), Unique(vol.names),
         \/ Session(p) \/ AskIdentity(p) \/ SessionAgain(p) \/ WipeRecords(p)
         \/ EnsureNames(p) \/ ReadNames(p) \/ AskRename(p)
  PROVE  Steps(p)
<1> DEFINE m == mem[p]
<1>0. m \in Memory /\ Unique(m.names) /\ chip \in SUBSET AllSlots
  BY DEF PrintsShape, Proc, Sound
<1>g. CanGo(p)
  BY GoesOn
<1>1. CASE Session(p) \/ SessionAgain(p)
  <2> DEFINE k == [m EXCEPT !.seen = chip]
  <2>1. k \in Memory /\ k.names = m.names
    BY <1>0 DEF Memory
  <2>2. AfterSession(p) \in {"names", "wipe", "end"}
    BY DEF AfterSession
  <2>3. \/ Goto(p, AfterSession(p)) /\ Set(p, k)
        \/ Goto(p, "end") /\ UNCHANGED mem
        \/ Goto(p, "identity") /\ UNCHANGED mem /\ p = Cli
    BY <1>1 DEF Session, SessionAgain
  <2>4. CASE Goto(p, "identity") /\ UNCHANGED mem /\ p = Cli
    <3>1. StepsTo(p, "identity", m)
      BY <1>0, <2>4, Labels DEF StepsTo, Sound, Goto, PrintsShape, Proc, Cli, Pane
    <3> QED BY <3>1 DEF Steps
  <2> QED BY <1>0, <2>1, <2>2, <2>3, <2>4, <1>g, Labels DEF CanGo
<1>2. CASE AskIdentity(p)
  <2>1. CASE Goto(p, "end") /\ UNCHANGED mem
    BY <2>1, <1>0, <1>g, Labels DEF CanGo
  <2>2. CASE \E v \in {"real", "wrong"} : Set(p, [m EXCEPT !.ident = v]) /\ Goto(p, "again")
    <3>1. PICK v \in {"real", "wrong"} : Set(p, [m EXCEPT !.ident = v]) /\ Goto(p, "again")
      BY <2>2
    <3> DEFINE k == [m EXCEPT !.ident = v]
    <3>2. k \in Memory /\ k.names = m.names
      BY <1>0 DEF Memory
    <3>3. p # Pane
      BY <1>2 DEF AskIdentity, Sound
    <3>4. StepsTo(p, "again", k)
      BY <1>0, <3>1, <3>2, <3>3, Labels DEF StepsTo, Sound, Goto, Set
    <3> QED BY <3>4 DEF Steps
  <2> QED BY <1>2, <2>1, <2>2 DEF AskIdentity
<1>3. CASE WipeRecords(p) \/ EnsureNames(p)
  BY <1>0, <1>3, <1>g, Labels DEF CanGo, WipeRecords, EnsureNames
<1>4. CASE ReadNames(p)
  <2> DEFINE f == IF vol.mounted THEN Restrict(vol.names, DOMAIN vol.names \cap Slots) ELSE NoNames
             k == [m EXCEPT !.loaded = TRUE, !.names = f]
  <2>1. f \in NameFiles /\ Unique(f)
    BY RestrictedNames, NoNamesIsNameFile DEF PrintsShape, Volume
  <2>2. k \in Memory /\ k.names = f
    BY <1>0, <2>1 DEF Memory
  <2>3. CallUnmount(p, k, "ask")
    BY <1>4 DEF ReadNames
  <2> QED BY <2>1, <2>2, <2>3, <1>g, Labels DEF CanGo
<1>5. CASE AskRename(p)
  <2>1. CASE Goto(p, "end") /\ UNCHANGED mem
    BY <2>1, <1>0, <1>g, Labels DEF CanGo
  <2>2. ASSUME NEW s \in m.seen, NEW nm \in Names, ~Taken(m, m.seen, s, nm),
               CallMount(p, [m EXCEPT !.names = WithName(m, PrunedTo(m, m.seen), s, nm)], "write", "end")
        PROVE  Steps(p)
    <3> DEFINE f == WithName(m, m.seen, s, nm)
    <3>1. m.seen \in SUBSET AllSlots /\ s \in AllSlots
      BY <1>0, <2>2 DEF Memory
    <3>2. f \in NameFiles /\ Unique(f)
      BY <1>0, <2>2, <3>1, NamesWith
    <3>3. [m EXCEPT !.names = f] \in Memory /\ [m EXCEPT !.names = f].names = f
      BY <1>0, <3>2 DEF Memory
    <3> QED BY <2>2, <3>2, <3>3, <1>g, Labels DEF CanGo, PrunedTo
  <2> QED BY <1>5, <2>1, <2>2 DEF AskRename
<1> QED BY <1>1, <1>2, <1>3, <1>4, <1>5

\* An enrolment on the sensor, and the names written at the end.
LEMMA EnrolSteps ==
  ASSUME PrintsShape, NEW p \in Client, Sound(p, pc[p], mem[p]),
         AskEnroll(p) \/ EnrollOnSensor(p) \/ WriteNames(p)
  PROVE  Steps(p)
<1> DEFINE m == mem[p]
<1>0. m \in Memory /\ Unique(m.names) /\ m.seen \in SUBSET AllSlots
  BY DEF PrintsShape, Proc, Sound, Memory
<1>g. CanGo(p)
  BY GoesOn
<1>1. CASE AskEnroll(p)
  <2>1. CASE Goto(p, "end") /\ UNCHANGED mem
    BY <2>1, <1>0, <1>g, Labels DEF CanGo
  <2>2. ASSUME NEW replace \in BOOLEAN, NEW s \in Slots, Goto(p, "touches"),
               LET kept == IF replace THEN {} ELSE m.seen
                   new == [m EXCEPT !.slot = s, !.seen = kept, !.replace = replace, !.label = "none"]
               IN \/ /\ m.loaded
                     /\ \E nm \in Names : ~Taken(m, kept, 0, nm) /\ Set(p, [new EXCEPT !.label = nm])
                  \/ ~m.loaded /\ Set(p, new)
        PROVE  Steps(p)
    <3> DEFINE kept == IF replace THEN {} ELSE m.seen
               new == [m EXCEPT !.slot = s, !.seen = kept, !.replace = replace, !.label = "none"]
    <3>1. kept \in SUBSET AllSlots
      BY <1>0
    <3>2. new \in Memory /\ new.names = m.names /\ new.seen = kept /\ new.slot = s /\ new.label = "none"
      BY <1>0, <3>1 DEF Memory
    <3> HIDE DEF new
    <3>3. CASE \E nm \in Names : ~Taken(m, kept, 0, nm) /\ Set(p, [new EXCEPT !.label = nm])
      <4>1. PICK nm \in Names : ~Taken(m, kept, 0, nm) /\ Set(p, [new EXCEPT !.label = nm])
        BY <3>3
      <4> DEFINE k == [new EXCEPT !.label = nm]
      <4>2. k \in Memory /\ k.names = m.names /\ k.seen = kept /\ k.slot = s /\ k.label = nm
        BY <3>2 DEF Memory
      <4>3. StepsTo(p, "touches", k)
        BY <1>0, <2>2, <4>1, <4>2, Labels DEF StepsTo, Sound, Goto, Set, Taken
      <4> QED BY <4>3 DEF Steps
    <3>4. CASE Set(p, new) /\ ~m.loaded
      <4>1. StepsTo(p, "touches", new)
        BY <1>0, <2>2, <3>2, <3>4, Labels DEF StepsTo, Sound, Goto, Set, Taken
      <4> QED BY <4>1 DEF Steps
    <3> QED BY <2>2, <3>3, <3>4 DEF new
  <2> QED BY <1>1, <2>1, <2>2 DEF AskEnroll
<1>2. CASE EnrollOnSensor(p)
  <2>1. CASE Goto(p, "end") /\ UNCHANGED mem
    BY <2>1, <1>0, <1>g, Labels DEF CanGo
  <2>2. CASE /\ m.label # "none"
             /\ CallMount(p, [m EXCEPT !.names = WithName(m, PrunedTo(m, m.seen), m.slot, m.label)],
                          "write", "end")
    <3> DEFINE f == WithName(m, m.seen, m.slot, m.label)
    <3>1. m.slot \in Slots /\ m.slot \in AllSlots /\ m.label \in Names /\ ~Taken(m, m.seen, 0, m.label)
      BY <1>0, <1>2, <2>2 DEF EnrollOnSensor, Sound, Memory, AllSlots
    <3>2. ~Taken(m, m.seen, m.slot, m.label)
      BY <1>0, <3>1, PrintsAssumption DEF Taken, AllSlots
    <3>3. f \in NameFiles /\ Unique(f)
      BY <1>0, <3>1, <3>2, NamesWith
    <3>4. [m EXCEPT !.names = f] \in Memory /\ [m EXCEPT !.names = f].names = f
      BY <1>0, <3>3 DEF Memory
    <3> QED BY <2>2, <3>3, <3>4, <1>g, Labels DEF CanGo, PrunedTo
  <2> QED BY <1>2, <2>1, <2>2 DEF EnrollOnSensor
<1>3. CASE WriteNames(p)
  <2>1. CallUnmount(p, m, "end")
    BY <1>3 DEF WriteNames
  <2> QED BY <1>0, <2>1, <1>g, Labels DEF CanGo
<1> QED BY <1>1, <1>2, <1>3

LEMMA StepMoves ==
  ASSUME PrintsShape, PrintsSound, NEW p \in Client, Step(p)
  PROVE  Steps(p)
<1>1. Sound(p, pc[p], mem[p]) /\ Unique(vol.names)
  BY DEF PrintsSound
<1> QED BY <1>1, VolumeSteps, FileSteps, SessionSteps, EnrolSteps DEF Step

\* An operation begins.
LEMMA BeginMoves ==
  ASSUME PrintsShape, PrintsSound, NEW p \in Client, NEW o \in CliOps \cup PaneOps, Begin(p, o)
  PROVE  Steps(p)
<1> DEFINE b == IF p = Pane THEN Fresh(conf) ELSE mem[p]
           y == o \in YieldOps
           m == [b EXCEPT !.yielded = y]
<1>1. b \in Memory /\ Unique(b.names) /\ y \in BOOLEAN
  BY FreshMemory DEF PrintsShape, PrintsSound, Sound, Proc
<1>2. Entry(p, o, m)
  BY DEF Begin
<1> HIDE DEF b, y
<1>3. m \in Memory /\ Unique(m.names)
  BY <1>1 DEF Memory
<1> HIDE DEF m
<1>g. CanGo(p)
  BY GoesOn DEF PrintsSound
<1>4. ASSUME NEW r \in {"end", "deploy", "enroll"}, Goto(p, "setup"), Set(p, [m EXCEPT !.ret = r])
      PROVE  Steps(p)
  <2> DEFINE k == [m EXCEPT !.ret = r]
  <2>1. k \in Memory /\ k.names = m.names /\ k.ret = r
    BY <1>3, Labels DEF Memory
  <2>2. StepsTo(p, "setup", k)
    BY <1>3, <1>4, <2>1, Labels DEF StepsTo, Sound, Goto, Set
  <2> QED BY <2>2 DEF Steps
<1>5. [m EXCEPT !.ret = "end"] \in Memory /\ [m EXCEPT !.ret = "deploy"] \in Memory
  BY <1>3, Labels DEF Memory
<1>6. /\ Unique([m EXCEPT !.ret = "end"].names) /\ Unique([m EXCEPT !.ret = "deploy"].names)
  BY <1>3 DEF Memory
<1>7. CASE o \in {"setup", "deploy"}
  BY <1>2, <1>4, <1>5, <1>6, <1>7, <1>g, Labels DEF Entry, CanGo
<1>8. CASE o \notin {"setup", "deploy"}
  BY <1>2, <1>3, <1>4, <1>8, <1>g, Labels DEF Entry, CanGo
<1> QED BY <1>7, <1>8

\* A client starts, quits or is killed.
LEMMA ProcessMoves ==
  ASSUME PrintsShape, PrintsSound,
         StartClient \/ Quit \/ \E p \in Client : Killed(p)
  PROVE  \E p \in Client : Steps(p)
<1>1. ASSUME NEW p \in Client PROVE CanGo(p)
  BY GoesOn DEF PrintsSound
<1>2. Fresh("none") \in Memory /\ Unique(Fresh("none").names) /\ Cli \in Client
  BY FreshMemory DEF Client
<1>3. Fresh(conf) \in Memory /\ Unique(Fresh(conf).names)
  BY FreshMemory DEF PrintsShape
<1>4. CASE StartClient
  BY <1>1, <1>2, <1>3, <1>4, Labels DEF StartClient, CanGo
<1>5. CASE Quit
  BY <1>1, <1>2, <1>5, Labels DEF Quit, CanGo
<1>6. CASE \E p \in Client : Killed(p)
  BY <1>1, <1>2, <1>6, Labels DEF Killed, CanGo
<1> QED BY <1>4, <1>5, <1>6

\* What the loader does to its own variables.
LoaderSteps ==
    /\ \E l \in {"idle", "mount", "read", "unmount"} : Goto(Loader, l)
    /\ mem' \in [Proc -> Memory] /\ \A p \in Client : mem'[p] = mem[p]
    /\ SoundLoader'

LEMMA LoaderMoves ==
  ASSUME PrintsShape, PrintsSound,
         Mount(Loader) \/ Unmount(Loader) \/ LoaderStarts \/ LoaderReads
  PROVE  LoaderSteps
<1> DEFINE m == mem[Loader]
<1>0. /\ m \in Memory /\ Loader \in Proc /\ Loader \notin Client /\ Client \subseteq Proc
      /\ mem \in [Proc -> Memory] /\ pc \in [Proc -> Places] /\ SoundLoader
  BY DEF PrintsShape, PrintsSound, Proc, Client, Cli, Pane, Loader
<1>1. CASE Mount(Loader)
  <2>1. PICK l \in {m.ret, m.err} : Goto(Loader, l)
    BY <1>1 DEF Mount
  <2>2. PICK x \in BOOLEAN : mem' = [mem EXCEPT ![Loader] = [m EXCEPT !.asked = x]]
    BY <1>1 DEF Mount, Set
  <2>3. [m EXCEPT !.asked = x] \in Memory
    BY <1>0 DEF Memory
  <2>4. l \in {"read", "idle"}
    BY <1>0, <1>1, <2>1 DEF Mount, SoundLoader
  <2> QED BY <1>0, <2>1, <2>2, <2>3, <2>4 DEF LoaderSteps, SoundLoader, Goto
<1>2. CASE Unmount(Loader)
  BY <1>0, <1>2 DEF Unmount, LoaderSteps, SoundLoader, Goto
<1>3. CASE LoaderStarts
  <2> DEFINE k == [m EXCEPT !.ret = "read", !.err = "idle"]
  <2>1. k \in Memory /\ k.ret = "read" /\ k.err = "idle"
    BY <1>0, Labels DEF Memory
  <2>2. Goto(Loader, "mount") /\ Set(Loader, k)
    BY <1>3 DEF LoaderStarts, CallMount
  <2> QED BY <1>0, <2>1, <2>2 DEF LoaderSteps, SoundLoader, Goto, Set
<1>4. CASE LoaderReads
  <2> DEFINE k == [m EXCEPT !.ret = "idle"]
  <2>1. k \in Memory /\ k.ret = "idle"
    BY <1>0, Labels DEF Memory
  <2>2. Goto(Loader, "unmount") /\ Set(Loader, k)
    BY <1>4 DEF LoaderReads, CallUnmount
  <2> QED BY <1>0, <2>1, <2>2 DEF LoaderSteps, SoundLoader, Goto, Set
<1> QED BY <1>1, <1>2, <1>3, <1>4

\* What all of them are.
LEMMA Moves ==
  ASSUME PrintsShape, PrintsSound, PrintsNext
  PROVE  \/ \E p \in Client : Steps(p)
         \/ LoaderSteps
         \/ UNCHANGED <<pc, mem>>
BY StepMoves, BeginMoves, ProcessMoves, LoaderMoves DEF PrintsNext, YieldExpires

\* Positions and memories stay sound.
LEMMA MovesAreSound ==
  ASSUME PrintsShape, PrintsSound, PrintsNext
  PROVE  /\ pc' \in [Proc -> Places] /\ mem' \in [Proc -> Memory] /\ SoundLoader'
         /\ \A p \in Client : Sound(p, pc[p], mem[p])'
<1>0. /\ Loader \in Proc /\ Loader \notin Client /\ Client \subseteq Proc
      /\ mem \in [Proc -> Memory] /\ pc \in [Proc -> Places] /\ SoundLoader
      /\ \A p \in Client : Sound(p, pc[p], mem[p])
  BY DEF PrintsShape, PrintsSound, Proc, Client, Cli, Pane, Loader
<1>1. CASE \E p \in Client : Steps(p)
  <2>0. PICK p \in Client : Steps(p)
    BY <1>1
  <2>1. PICK l, m : StepsTo(p, l, m)
    BY <2>0 DEF Steps
  <2>2. l \in Places
    BY <2>1 DEF StepsTo
  <2>3. /\ \A q \in Client \ {p} : pc'[q] = pc[q] /\ mem'[q] = mem[q]
        /\ pc'[p] = l /\ mem'[p] = m /\ pc'[Loader] = pc[Loader] /\ mem'[Loader] = mem[Loader]
    BY <1>0, <2>1 DEF StepsTo
  <2>4. \A q \in Client : Sound(q, pc'[q], mem'[q])
    BY <1>0, <2>1, <2>3 DEF StepsTo
  <2>5. \A q \in Client : Sound(q, pc[q], mem[q])'
    BY <2>4 DEF Sound, Taken
  <2>6. SoundLoader'
    BY <1>0, <2>3 DEF SoundLoader
  <2> QED BY <1>0, <2>1, <2>2, <2>5, <2>6 DEF StepsTo
<1>2. CASE LoaderSteps
  <2>1. pc' \in [Proc -> Places] /\ \A p \in Client : pc'[p] = pc[p] /\ mem'[p] = mem[p]
    BY <1>0, <1>2, Labels DEF LoaderSteps, Goto
  <2>2. \A q \in Client : Sound(q, pc[q], mem[q])'
    BY <1>0, <2>1 DEF Sound, Taken
  <2> QED BY <1>2, <2>1, <2>2 DEF LoaderSteps
<1>3. CASE UNCHANGED <<pc, mem>>
  BY <1>0, <1>3 DEF SoundLoader, Sound, Taken
<1> QED BY <1>1, <1>2, <1>3, Moves

-----------------------------------------------------------------------------
(***************************************************************************)
(* What the steps do to the rest                                           *)
(***************************************************************************)

\* Budgets only shrink.
LEMMA BudgetsShrink ==
  ASSUME PrintsShape,
         UNCHANGED left \/ Fault \/ (left.ops > 0 /\ left' = [left EXCEPT !.ops = @ - 1])
  PROVE  left' \in [ops : 0..MaxOps, faults : 0..MaxFaults] /\ (NoFault' => NoFault /\ ~Fault)
<1>1. left \in [ops : 0..MaxOps, faults : 0..MaxFaults] /\ MaxOps \in Nat /\ MaxFaults \in Nat
  BY PrintsAssumption DEF PrintsShape
<1>2. CASE UNCHANGED left
  BY <1>1, <1>2 DEF NoFault, Fault
<1>3. CASE Fault
  BY <1>1, <1>3 DEF NoFault, Fault
<1>4. CASE left.ops > 0 /\ left' = [left EXCEPT !.ops = @ - 1]
  BY <1>1, <1>4 DEF NoFault, Fault
<1> QED BY <1>2, <1>3, <1>4

\* What changes on the volume.
VolumeChanges ==
    \/ UNCHANGED vol
    \/ \E x \in BOOLEAN : vol' = [vol EXCEPT !.mounted = x]
    \/ vol' = [vol EXCEPT !.configured = TRUE]
    \/ \E f \in SUBSET Names : vol' = [vol EXCEPT !.files = f]
    \/ \E x \in BOOLEAN : vol' = [vol EXCEPT !.pw = x]
    \/ \E f \in NameFiles : Unique(f) /\ vol' = [vol EXCEPT !.names = f]

LEMMA VolumeKept ==
  ASSUME PrintsShape, PrintsSound, VolumeChanges
  PROVE  vol' \in Volume /\ Unique(vol'.names)
<1>1. vol \in Volume /\ Unique(vol.names)
  BY DEF PrintsShape, PrintsSound
<1> QED BY <1>1 DEF VolumeChanges, Volume

\* What a step leaves alone or changes within its type.
Keeps ==
    /\ kit' = kit /\ VolumeChanges
    /\ chip' \in SUBSET AllSlots /\ conf' \in {"none", "real", "wrong"} /\ yielding' \in BOOLEAN
    /\ op' \in [Proc -> Operations]
    /\ UNCHANGED left \/ Fault \/ (left.ops > 0 /\ left' = [left EXCEPT !.ops = @ - 1])

LEMMA StepKeeps ==
  ASSUME PrintsShape, PrintsSound, NEW p \in Client, Step(p)
  PROVE  Keeps
<1> DEFINE m == mem[p]
<1>0. /\ m \in Memory /\ Sound(p, pc[p], m) /\ p \in Proc /\ m.names \in NameFiles
      /\ chip \in SUBSET AllSlots /\ conf \in {"none", "real", "wrong"} /\ yielding \in BOOLEAN
      /\ op \in [Proc -> Operations] /\ vol.files \in SUBSET Names
      /\ "none" \in Operations
  BY DEF PrintsShape, PrintsSound, Proc, Memory, Volume, Operations
<1>1. CASE Mount(p) \/ Unmount(p) \/ SetupVolume(p)
  BY <1>0, <1>1 DEF Mount, Unmount, SetupVolume, Keeps, VolumeChanges
<1>2. CASE End(p)
  BY <1>0, <1>2 DEF End, YieldEnd, Keeps, VolumeChanges
<1>3. CASE Enroll(p) \/ RefreshCache(p) \/ ChooseLabel(p) \/ CaptureSwipes(p)
  BY <1>0, <1>3 DEF Enroll, RefreshCache, ChooseLabel, CaptureSwipes, Keeps, VolumeChanges
<1>4. CASE SaveOrRemove(p)
  <2>1. VolumeChanges
    <3>1. m.label \in Names
      BY <1>0, <1>4 DEF SaveOrRemove, Sound
    <3>2. vol.files \cup {m.label} \in SUBSET Names /\ vol.files \ {m.label} \in SUBSET Names
      BY <1>0, <3>1
    <3> QED BY <1>4, <3>2 DEF SaveOrRemove, VolumeChanges
  <2> QED BY <1>0, <1>4, <2>1 DEF SaveOrRemove, Keeps
<1>5. CASE Verify(p) \/ Score(p) \/ CaptureOnly(p) \/ DeployPassword(p) \/ EnsureNames(p) \/ ReadNames(p)
  BY <1>0, <1>5 DEF Verify, Score, CaptureOnly, DeployPassword, EnsureNames, ReadNames, Keeps, VolumeChanges
<1>6. CASE HeadlessFile(p)
  <2>1. VolumeChanges
    <3>1. \A a, b \in Names : /\ vol.files \ {a} \in SUBSET Names
                              /\ (vol.files \ {a}) \cup {b} \in SUBSET Names
      BY <1>0
    <3> QED BY <1>6, <3>1 DEF HeadlessFile, VolumeChanges
  <2> QED BY <1>0, <1>6, <2>1 DEF HeadlessFile, Keeps
<1>7. CASE ClearPassword(p) \/ SetPassword(p)
  BY <1>0, <1>7 DEF ClearPassword, SetPassword, Keeps, VolumeChanges
<1>8. CASE Session(p) \/ AskIdentity(p) \/ SessionAgain(p) \/ WipeRecords(p)
  BY <1>0, <1>8 DEF Session, AskIdentity, SessionAgain, AfterRefusal, WipeRecords, Keeps, VolumeChanges
<1>9. CASE AskEnroll(p) \/ AskRename(p)
  BY <1>0, <1>9 DEF AskEnroll, AskRename, Keeps, VolumeChanges
<1>10. CASE EnrollOnSensor(p)
  <2>1. m.slot \in Slots
    BY <1>0, <1>10 DEF EnrollOnSensor, Sound
  <2>2. chip' \in SUBSET AllSlots
    BY <1>0, <1>10, <2>1 DEF EnrollOnSensor, AllSlots
  <2> QED BY <1>0, <1>10, <2>2 DEF EnrollOnSensor, Keeps, VolumeChanges
<1>11. CASE WriteNames(p)
  <2>1. \A s \in SUBSET DOMAIN m.names : Restrict(m.names, s) \in NameFiles /\ Unique(Restrict(m.names, s))
    BY <1>0, RestrictedNames DEF Sound
  <2>2. VolumeChanges
    BY <1>0, <1>11, <2>1 DEF WriteNames, VolumeChanges, Sound
  <2> QED BY <1>0, <1>11, <2>2 DEF WriteNames, Keeps
<1> QED BY <1>1, <1>2, <1>3, <1>4, <1>5, <1>6, <1>7, <1>8, <1>9, <1>10, <1>11 DEF Step

LEMMA OtherKeeps ==
  ASSUME PrintsShape, PrintsSound,
         \/ \E p \in Client : Killed(p) \/ \E o \in CliOps \cup PaneOps : Begin(p, o)
         \/ Mount(Loader) \/ Unmount(Loader) \/ LoaderStarts \/ LoaderReads
         \/ StartClient \/ Quit \/ YieldExpires
  PROVE  Keeps
<1>0. /\ chip \in SUBSET AllSlots /\ conf \in {"none", "real", "wrong"} /\ yielding \in BOOLEAN
      /\ op \in [Proc -> Operations] /\ Client \subseteq Proc
      /\ "none" \in Operations /\ "start" \in Operations /\ CliOps \cup PaneOps \subseteq Operations
  BY DEF PrintsShape, Proc, Operations, CliOps, PaneOps
<1>1. CASE \E p \in Client : Killed(p)
  BY <1>0, <1>1 DEF Killed, Keeps, VolumeChanges
<1>2. CASE \E p \in Client, o \in CliOps \cup PaneOps : Begin(p, o)
  BY <1>0, <1>2 DEF Begin, Keeps, VolumeChanges
<1>3. CASE Mount(Loader) \/ Unmount(Loader)
  BY <1>0, <1>3 DEF Mount, Unmount, Keeps, VolumeChanges
<1>4. CASE LoaderStarts \/ LoaderReads \/ StartClient \/ Quit \/ YieldExpires
  BY <1>0, <1>4 DEF LoaderStarts, LoaderReads, StartClient, Quit, YieldExpires, Keeps, VolumeChanges
<1> QED BY <1>1, <1>2, <1>3, <1>4

-----------------------------------------------------------------------------
(***************************************************************************)
(* Nothing is left behind                                                  *)
(***************************************************************************)

\* What a step of p does about the volume, the sensor and the saved identity.
VolumeOn(p) == vol'.mounted => pc'[p] \in Holding \/ (vol.mounted /\ pc[p] \notin Holding)
SensorOn(p) == pc'[p] \notin Idle /\ yielding' = yielding /\ mem'[p].yielded = mem[p].yielded
IdentityOn(p) == pc'[p] # "again" /\ pc[p] # "again" /\ conf' = conf

\* Only p moves.
OnlyMoves(p) == \A q \in Proc \ {p} : pc'[q] = pc[q] /\ mem'[q] = mem[q]

LEMMA StepLeaves ==
  ASSUME PrintsShape, PrintsSound, NEW p \in Client, Step(p), ~Fault
  PROVE  /\ VolumeOn(p) /\ OnlyMoves(p)
         /\ End(p) \/ SensorOn(p)
         /\ AskIdentity(p) \/ SessionAgain(p) \/ IdentityOn(p)
<1> DEFINE m == mem[p]
<1>0. /\ pc \in [Proc -> Places] /\ mem \in [Proc -> Memory] /\ m \in Memory /\ p \in Proc /\ vol \in Volume
      /\ Sound(p, pc[p], m)
  BY DEF PrintsShape, PrintsSound, Proc
<1>1. ASSUME NEW l, Goto(p, l) PROVE pc'[p] = l /\ \A q \in Proc \ {p} : pc'[q] = pc[q]
  BY <1>0, <1>1 DEF Goto
<1>2. ASSUME NEW k, Set(p, k) PROVE mem'[p] = k /\ \A q \in Proc \ {p} : mem'[q] = mem[q]
  BY <1>0, <1>2 DEF Set
<1>3. ASSUME NEW k \in Memory, NEW r \in Resumes, CallUnmount(p, k, r)
      PROVE  pc'[p] = "unmount" /\ OnlyMoves(p) /\ mem'[p].yielded = k.yielded
  BY <1>1, <1>2, <1>3 DEF CallUnmount, OnlyMoves, Memory
<1>4. ASSUME NEW k \in Memory, NEW r \in Using, NEW e \in Resumes, CallMount(p, k, r, e)
      PROVE  pc'[p] = "mount" /\ OnlyMoves(p) /\ mem'[p].yielded = k.yielded
  <2>1. [k EXCEPT !.ret = r, !.err = e].yielded = k.yielded
    BY <1>4 DEF Memory
  <2> QED BY <1>1, <1>2, <1>4, <2>1 DEF CallMount, OnlyMoves
<1> USE DEF VolumeOn, SensorOn, IdentityOn
<1>5. CASE Mount(p)
  <2>1. /\ pc[p] = "mount" /\ m.ret \in Using /\ m.err \in Resumes
        /\ vol'.mounted => vol.mounted \/ Goto(p, m.ret)
        /\ Goto(p, m.ret) \/ Goto(p, m.err)
        /\ yielding' = yielding /\ conf' = conf
    BY <1>0, <1>5 DEF Mount, Sound, Volume
  <2>2. \E k \in Memory : Set(p, k) /\ k.yielded = m.yielded
    <3>1. \A x, y \in BOOLEAN : /\ [m EXCEPT !.asked = x, !.declined = y] \in Memory
                                /\ [m EXCEPT !.asked = x] \in Memory
                                /\ [m EXCEPT !.asked = x, !.declined = y].yielded = m.yielded
                                /\ [m EXCEPT !.asked = x].yielded = m.yielded
      BY <1>0 DEF Memory
    <3> QED BY <1>5, <3>1 DEF Mount
  <2> QED BY <1>1, <1>2, <2>1, <2>2 DEF OnlyMoves, Using, Resumes, Holding, Idle
<1>6. CASE Unmount(p)
  <2>1. pc[p] = "unmount" /\ m.ret \in Resumes /\ Goto(p, m.ret) /\ mem' = mem
    BY <1>0, <1>6 DEF Unmount, Sound
  <2>2. vol'.mounted = FALSE /\ yielding' = yielding /\ conf' = conf
    BY <1>0, <1>6 DEF Unmount, Volume
  <2> QED BY <1>1, <2>1, <2>2 DEF OnlyMoves, Resumes, Idle
<1>7. CASE SetupVolume(p)
  <2>1. pc[p] = "setup" /\ m.ret \in {"end", "deploy", "enroll"} /\ mem' = mem
    BY <1>0, <1>7 DEF SetupVolume, Sound
  <2>2. vol'.mounted = vol.mounted /\ yielding' = yielding /\ conf' = conf /\ Goto(p, m.ret)
    BY <1>0, <1>7 DEF SetupVolume, Volume
  <2> QED BY <1>1, <2>1, <2>2 DEF OnlyMoves, Using, Holding, Idle
<1>8. CASE End(p)
  BY <1>1, <1>2, <1>8 DEF End, OnlyMoves, Using, Holding, Idle
<1>9. CASE RefreshCache(p) \/ Score(p)
  <2> DEFINE k == [m EXCEPT !.known = TRUE, !.labels = Listed]
  <2>1. k \in Memory /\ k.yielded = m.yielded
    BY <1>0 DEF Memory, Listed, Volume
  <2>2. /\ \E r \in Resumes : CallUnmount(p, k, r)
        /\ pc[p] \in {"list", "score"} /\ yielding' = yielding /\ conf' = conf
    BY <1>9, Labels DEF RefreshCache, Score
  <2> QED BY <1>3, <2>1, <2>2 DEF Holding, Idle
<1>10. CASE ReadNames(p)
  <2> DEFINE f == IF vol.mounted THEN Restrict(vol.names, DOMAIN vol.names \cap Slots) ELSE NoNames
             k == [m EXCEPT !.loaded = TRUE, !.names = f]
  <2>1. f \in NameFiles
    BY RestrictedNames, NoNamesIsNameFile DEF PrintsShape, Volume
  <2>2. k \in Memory /\ k.yielded = m.yielded
    BY <1>0, <2>1 DEF Memory
  <2>3. CallUnmount(p, k, "ask") /\ pc[p] = "read" /\ yielding' = yielding /\ conf' = conf
    BY <1>10 DEF ReadNames
  <2> QED BY <1>3, <2>2, <2>3, Labels DEF Holding, Idle
<1>11. CASE SaveOrRemove(p)
  <2>1. [m EXCEPT !.known = FALSE] \in Memory /\ [m EXCEPT !.known = FALSE].yielded = m.yielded
    BY <1>0 DEF Memory
  <2>2. /\ CallUnmount(p, [m EXCEPT !.known = FALSE], "end") \/ CallUnmount(p, m, "end")
        /\ pc[p] = "save" /\ yielding' = yielding /\ conf' = conf
    BY <1>11 DEF SaveOrRemove
  <2> QED BY <1>0, <1>3, <2>1, <2>2, Labels DEF Holding, Idle
<1>12. CASE HeadlessFile(p) \/ ClearPassword(p) \/ SetPassword(p) \/ WriteNames(p)
  <2>1. /\ CallUnmount(p, m, "end") /\ pc[p] \in {"file", "clearpw", "setpw", "write"}
        /\ yielding' = yielding /\ conf' = conf
    BY <1>12 DEF HeadlessFile, ClearPassword, SetPassword, ClearReturns, WriteNames
  <2> QED BY <1>0, <1>3, <2>1, Labels DEF Holding, Idle
<1>13. CASE Enroll(p) \/ CaptureSwipes(p) \/ Verify(p) \/ CaptureOnly(p) \/ DeployPassword(p) \/ EnsureNames(p)
  <2>1. /\ pc[p] \in {"enroll", "swipe", "verify", "capture", "deploy", "names"}
        /\ vol' = vol /\ yielding' = yielding /\ conf' = conf
        /\ \/ \E r \in Using, e \in Resumes : CallMount(p, m, r, e)
           \/ mem' = mem /\ \E l \in {"chosen", "end", "ask"} : Goto(p, l)
    BY <1>13, Labels DEF Enroll, CaptureSwipes, Verify, CaptureOnly, DeployPassword, EnsureNames
  <2> QED BY <1>0, <1>1, <1>4, <2>1 DEF OnlyMoves, Using, Holding, Idle
<1>14. CASE ChooseLabel(p)
  <2>1. /\ pc[p] = "chosen" /\ vol' = vol /\ yielding' = yielding /\ conf' = conf
        /\ \/ Goto(p, "end") /\ UNCHANGED mem
           \/ \E l \in Names : \/ Goto(p, "swipe") /\ Set(p, [m EXCEPT !.label = l])
                               \/ CallMount(p, [m EXCEPT !.label = l], "save", "end")
    BY <1>14 DEF ChooseLabel
  <2>2. \A l \in Names : LET k == [m EXCEPT !.label = l] IN k \in Memory /\ k.yielded = m.yielded
    BY <1>0 DEF Memory
  <2>3. ASSUME NEW l \in Names, Goto(p, "swipe"), Set(p, [m EXCEPT !.label = l])
        PROVE  pc'[p] = "swipe" /\ OnlyMoves(p) /\ mem'[p].yielded = m.yielded
    BY <1>1, <1>2, <2>2, <2>3 DEF OnlyMoves
  <2>4. ASSUME NEW l \in Names, CallMount(p, [m EXCEPT !.label = l], "save", "end")
        PROVE  pc'[p] = "mount" /\ OnlyMoves(p) /\ mem'[p].yielded = m.yielded
    BY <1>4, <2>2, <2>4, Labels
  <2>5. CASE Goto(p, "end") /\ UNCHANGED mem
    BY <1>1, <2>1, <2>5 DEF OnlyMoves, Using, Holding, Idle
  <2> QED BY <2>1, <2>3, <2>4, <2>5 DEF Using, Holding, Idle
<1>15. CASE Session(p) \/ SessionAgain(p)
  <2>1. [m EXCEPT !.seen = chip].yielded = m.yielded
    BY <1>0 DEF Memory
  <2>2. /\ pc[p] \in {"session", "again"} /\ vol' = vol /\ yielding' = yielding
        /\ Session(p) => conf' = conf /\ pc[p] = "session"
        /\ \/ Goto(p, AfterSession(p)) /\ Set(p, [m EXCEPT !.seen = chip])
           \/ mem' = mem /\ \E l \in {"identity", "end"} : Goto(p, l)
    BY <1>15 DEF Session, SessionAgain
  <2>3. AfterSession(p) \in {"names", "wipe", "end"}
    BY DEF AfterSession
  <2> QED BY <1>1, <1>2, <1>15, <2>1, <2>2, <2>3 DEF OnlyMoves, Using, Holding, Idle
<1>16. CASE AskIdentity(p)
  <2>1. /\ pc[p] = "identity" /\ vol' = vol /\ yielding' = yielding
        /\ \/ Goto(p, "end") /\ mem' = mem
           \/ \E v \in {"real", "wrong"} : Goto(p, "again") /\ Set(p, [m EXCEPT !.ident = v])
    BY <1>16 DEF AskIdentity
  <2>2. ASSUME NEW v \in {"real", "wrong"}, Goto(p, "again"), Set(p, [m EXCEPT !.ident = v])
        PROVE  pc'[p] = "again" /\ OnlyMoves(p) /\ mem'[p].yielded = m.yielded
    <3>1. [m EXCEPT !.ident = v].yielded = m.yielded
      BY <1>0 DEF Memory
    <3> QED BY <1>1, <1>2, <2>2, <3>1 DEF OnlyMoves
  <2>3. CASE Goto(p, "end") /\ mem' = mem
    BY <1>1, <1>16, <2>1, <2>3 DEF OnlyMoves, Using, Holding, Idle
  <2> QED BY <1>16, <2>1, <2>2, <2>3 DEF Using, Holding, Idle
<1>17. CASE WipeRecords(p)
  BY <1>1, <1>17 DEF WipeRecords, OnlyMoves, Using, Holding, Idle
<1>18. CASE AskEnroll(p)
  <2>1. pc[p] = "ask" /\ vol' = vol /\ yielding' = yielding /\ conf' = conf
    BY <1>18 DEF AskEnroll
  <2>2. CASE Goto(p, "end") /\ UNCHANGED mem
    BY <1>1, <2>1, <2>2 DEF OnlyMoves, Using, Holding, Idle
  <2>3. ASSUME NEW replace \in BOOLEAN, NEW s \in Slots, Goto(p, "touches"),
               LET kept == IF replace THEN {} ELSE m.seen
                   new == [m EXCEPT !.slot = s, !.seen = kept, !.replace = replace, !.label = "none"]
               IN \/ /\ m.loaded
                     /\ \E nm \in Names : ~Taken(m, kept, 0, nm) /\ Set(p, [new EXCEPT !.label = nm])
                  \/ ~m.loaded /\ Set(p, new)
        PROVE  pc'[p] = "touches" /\ OnlyMoves(p) /\ mem'[p].yielded = m.yielded
    <3> DEFINE kept == IF replace THEN {} ELSE m.seen
               new == [m EXCEPT !.slot = s, !.seen = kept, !.replace = replace, !.label = "none"]
    <3>1. new \in Memory /\ new.yielded = m.yielded
      BY <1>0 DEF Memory
    <3> HIDE DEF new
    <3>2. \A nm : [new EXCEPT !.label = nm].yielded = m.yielded
      BY <3>1 DEF Memory
    <3>3. Set(p, new) \/ \E nm \in Names : Set(p, [new EXCEPT !.label = nm])
      BY <2>3 DEF new
    <3>4. pc'[p] = "touches" /\ \A q \in Proc \ {p} : pc'[q] = pc[q]
      BY <1>1, <2>3
    <3>5. PICK k : Set(p, k) /\ k.yielded = m.yielded
      BY <3>1, <3>2, <3>3
    <3>6. mem'[p] = k /\ \A q \in Proc \ {p} : mem'[q] = mem[q]
      BY <1>2, <3>5
    <3> QED BY <3>4, <3>5, <3>6 DEF OnlyMoves
  <2>4. \/ Goto(p, "end") /\ UNCHANGED mem
        \/ pc'[p] = "touches" /\ OnlyMoves(p) /\ mem'[p].yielded = m.yielded
    BY <1>18, <2>3 DEF AskEnroll
  <2> QED BY <2>1, <2>2, <2>4 DEF Using, Holding, Idle
<1>19. CASE EnrollOnSensor(p) \/ AskRename(p)
  <2>1. /\ pc[p] \in {"touches", "ask"} /\ vol' = vol /\ yielding' = yielding /\ conf' = conf
        /\ \/ Goto(p, "end") /\ mem' = mem
           \/ \E f : CallMount(p, [m EXCEPT !.names = f], "write", "end")
    BY <1>19 DEF EnrollOnSensor, AskRename
  <2>2. ASSUME NEW f, CallMount(p, [m EXCEPT !.names = f], "write", "end")
        PROVE  pc'[p] = "mount" /\ OnlyMoves(p) /\ mem'[p].yielded = m.yielded
    <3>1. [[m EXCEPT !.names = f] EXCEPT !.ret = "write", !.err = "end"].yielded = m.yielded
      BY <1>0 DEF Memory
    <3> QED BY <1>1, <1>2, <2>2, <3>1 DEF CallMount, OnlyMoves
  <2>3. CASE Goto(p, "end") /\ mem' = mem
    BY <1>1, <2>1, <2>3 DEF OnlyMoves, Using, Holding, Idle
  <2> QED BY <2>1, <2>2, <2>3 DEF Using, Holding, Idle
<1> QED BY <1>5, <1>6, <1>7, <1>8, <1>9, <1>10, <1>11, <1>12, <1>13, <1>14, <1>15, <1>16, <1>17, <1>18, <1>19
        DEF Step

LEMMA BeginLeaves ==
  ASSUME PrintsShape, NEW p \in Client, NEW o \in CliOps \cup PaneOps, Begin(p, o)
  PROVE  /\ VolumeOn(p) /\ OnlyMoves(p) /\ IdentityOn(p)
         /\ pc[p] \in Idle /\ pc'[p] \notin Idle /\ yielding' = (yielding \/ mem'[p].yielded)
<1> DEFINE b == IF p = Pane THEN Fresh(conf) ELSE mem[p]
           y == o \in YieldOps
           m == [b EXCEPT !.yielded = y]
<1>0. pc \in [Proc -> Places] /\ mem \in [Proc -> Memory] /\ p \in Proc
  BY DEF PrintsShape, Proc
<1>1. b \in Memory /\ y \in BOOLEAN
  BY <1>0, FreshMemory DEF PrintsShape
<1>2. /\ Entry(p, o, m) /\ pc[p] = "idle" /\ vol' = vol /\ conf' = conf /\ yielding' = (yielding \/ y)
  BY DEF Begin
<1> HIDE DEF b, y
<1>3. m \in Memory /\ m.yielded = y
  BY <1>1 DEF Memory
<1> HIDE DEF m
<1>4. \A r, e : [m EXCEPT !.ret = r, !.err = e].yielded = y /\ [m EXCEPT !.ret = r].yielded = y
  BY <1>3 DEF Memory
<1>5. /\ \E l \in {"mount", "end", "setup", "deploy", "session", "enroll", "verify", "capture"} : Goto(p, l)
      /\ \E k : Set(p, k) /\ k.yielded = y
  <2>1. CASE o \in {"setpw", "clearpw"}
    BY <1>2, <1>3, <1>4, <2>1 DEF Entry, CallMount
  <2>2. CASE o \in {"setup", "deploy"}
    BY <1>2, <1>3, <1>4, <2>2 DEF Entry, CallMount
  <2>3. CASE o \notin {"setpw", "clearpw", "setup", "deploy"}
    BY <1>2, <1>3, <1>4, <2>3 DEF Entry, CallMount
  <2> QED BY <2>1, <2>2, <2>3
<1>6. PICK l \in {"mount", "end", "setup", "deploy", "session", "enroll", "verify", "capture"} : Goto(p, l)
  BY <1>5
<1>7. PICK k : Set(p, k) /\ k.yielded = y
  BY <1>5
<1>8. pc'[p] = l /\ mem'[p] = k /\ OnlyMoves(p)
  BY <1>0, <1>6, <1>7 DEF Goto, Set, OnlyMoves
<1> QED BY <1>2, <1>6, <1>7, <1>8 DEF VolumeOn, IdentityOn, Idle, Holding, Using

LEMMA ClientLeaves ==
  ASSUME PrintsShape, StartClient \/ Quit
  PROVE  /\ VolumeOn(Cli) /\ OnlyMoves(Cli) /\ IdentityOn(Cli)
         /\ pc[Cli] \in Idle /\ yielding' = yielding
<1>0. pc \in [Proc -> Places] /\ mem \in [Proc -> Memory] /\ Cli \in Proc
  BY DEF PrintsShape, Proc, Client
<1>1. CASE StartClient
  BY <1>0, <1>1 DEF StartClient, CallMount, Goto, Set, VolumeOn, OnlyMoves, IdentityOn, Idle, Holding, Using
<1>2. CASE Quit
  BY <1>0, <1>2 DEF Quit, Goto, Set, VolumeOn, OnlyMoves, IdentityOn, Idle, Holding, Using
<1> QED BY <1>1, <1>2

LEMMA LoaderLeaves ==
  ASSUME PrintsShape, PrintsSound, ~Fault,
         Mount(Loader) \/ Unmount(Loader) \/ LoaderStarts \/ LoaderReads
  PROVE  VolumeOn(Loader) /\ OnlyMoves(Loader) /\ UNCHANGED <<yielding, conf>>
<1>0. /\ pc \in [Proc -> Places] /\ mem \in [Proc -> Memory] /\ Loader \in Proc /\ SoundLoader
      /\ vol \in Volume
  BY DEF PrintsShape, PrintsSound, Proc
<1>1. CASE Mount(Loader)
  BY <1>0, <1>1 DEF Mount, Goto, Set, SoundLoader, VolumeOn, OnlyMoves, Holding, Using, Volume
<1>2. CASE Unmount(Loader)
  BY <1>0, <1>2 DEF Unmount, Goto, Set, SoundLoader, VolumeOn, OnlyMoves, Holding, Using, Volume
<1>3. CASE LoaderStarts
  BY <1>0, <1>3 DEF LoaderStarts, CallMount, Goto, Set, VolumeOn, OnlyMoves, Holding, Using
<1>4. CASE LoaderReads
  BY <1>0, <1>4 DEF LoaderReads, CallUnmount, Goto, Set, VolumeOn, OnlyMoves, Holding, Using
<1> QED BY <1>1, <1>2, <1>3, <1>4

LEMMA HeldKept ==
  ASSUME PrintsShape, PrintsSound, VolumeHeld, SensorHeld, IdentityTried, PrintsNext, Keeps, NoFault'
  PROVE  VolumeHeld' /\ SensorHeld' /\ IdentityTried'
<1>0. /\ NoFault /\ ~Fault /\ kit' = kit /\ Accepted' = Accepted /\ Client \subseteq Proc /\ Loader \in Proc
      /\ Cli \in Client /\ Loader \notin Client /\ Pane # Cli
  BY BudgetsShrink DEF Keeps, Accepted, Proc, Client, Cli, Pane, Loader
<1>1. ASSUME NEW p \in Proc, VolumeOn(p), OnlyMoves(p)
      PROVE  VolumeHeld'
  BY <1>0, <1>1 DEF VolumeOn, OnlyMoves, VolumeHeld
<1>2. ASSUME NEW p \in Client, OnlyMoves(p), p = Pane \/ IdentityOn(p), conf' = conf
      PROVE  IdentityTried'
  BY <1>0, <1>2 DEF OnlyMoves, IdentityOn, IdentityTried
<1>3. ASSUME NEW p \in Client, Step(p)
      PROVE  VolumeHeld' /\ SensorHeld' /\ IdentityTried'
  <2>0. Sound(p, pc[p], mem[p]) /\ mem \in [Proc -> Memory] /\ pc \in [Proc -> Places] /\ p \in Proc
    BY DEF PrintsShape, PrintsSound, Proc
  <2>1. /\ VolumeOn(p) /\ OnlyMoves(p) /\ (End(p) \/ SensorOn(p))
        /\ AskIdentity(p) \/ SessionAgain(p) \/ IdentityOn(p)
    BY <1>0, <1>3, StepLeaves
  <2>2. SensorHeld'
    <3>1. CASE End(p)
      BY <1>0, <2>1, <3>1 DEF End, YieldEnd, OnlyMoves, SensorHeld
    <3>2. CASE SensorOn(p)
      BY <1>0, <2>1, <3>2 DEF SensorOn, OnlyMoves, SensorHeld
    <3> QED BY <2>1, <3>1, <3>2
  <2>3. CASE IdentityOn(p)
    BY <1>1, <1>2, <2>0, <2>1, <2>2, <2>3 DEF IdentityOn
  <2>4. ASSUME AskIdentity(p) \/ SessionAgain(p)
        PROVE  IdentityTried'
    <3>1. p = Cli
      BY <2>0, <2>4 DEF AskIdentity, SessionAgain, Sound, Client
    <3>2. CASE AskIdentity(p)
      <4>1. pc[Cli] # "again" /\ conf \in {"none", Accepted}
        BY <1>0, <3>1, <3>2 DEF AskIdentity, IdentityTried
      <4>2. CASE Goto(p, "end") /\ UNCHANGED <<conf, mem>>
        BY <1>0, <2>0, <3>1, <4>1, <4>2 DEF Goto, IdentityTried
      <4>3. CASE \E v \in {"real", "wrong"} :
                   conf' = v /\ Set(p, [mem[p] EXCEPT !.ident = v]) /\ Goto(p, "again")
        BY <1>0, <2>0, <3>1, <4>1, <4>3 DEF Goto, Set, IdentityTried, Memory
      <4> QED BY <3>2, <4>2, <4>3 DEF AskIdentity
    <3>3. CASE SessionAgain(p)
      <4>1. conf = mem[Cli].ident
        BY <1>0, <3>1, <3>3 DEF SessionAgain, IdentityTried
      <4>2. pc'[Cli] # "again"
        BY <2>0, <3>1, <3>3 DEF SessionAgain, Goto, AfterSession
      <4>3. conf' \in {"none", Accepted}
        BY <1>0, <3>1, <3>3, <4>1 DEF SessionAgain, AfterRefusal
      <4> QED BY <1>0, <4>2, <4>3 DEF IdentityTried
    <3> QED BY <2>4, <3>2, <3>3
  <2> QED BY <1>1, <2>0, <2>1, <2>2, <2>3, <2>4
<1>4. ASSUME NEW p \in Client, NEW o \in CliOps \cup PaneOps, Begin(p, o)
      PROVE  VolumeHeld' /\ SensorHeld' /\ IdentityTried'
  <2>1. /\ VolumeOn(p) /\ OnlyMoves(p) /\ IdentityOn(p)
        /\ pc[p] \in Idle /\ pc'[p] \notin Idle /\ yielding' = (yielding \/ mem'[p].yielded)
    BY <1>4, BeginLeaves
  <2>2. SensorHeld'
    BY <1>0, <2>1 DEF OnlyMoves, SensorHeld
  <2> QED BY <1>0, <1>1, <1>2, <2>1, <2>2 DEF IdentityOn
<1>5. ASSUME StartClient \/ Quit
      PROVE  VolumeHeld' /\ SensorHeld' /\ IdentityTried'
  <2>1. /\ VolumeOn(Cli) /\ OnlyMoves(Cli) /\ IdentityOn(Cli)
        /\ pc[Cli] \in Idle /\ yielding' = yielding
    BY <1>5, ClientLeaves
  <2>2. SensorHeld'
    BY <1>0, <2>1 DEF OnlyMoves, SensorHeld
  <2> QED BY <1>0, <1>1, <1>2, <2>1, <2>2 DEF IdentityOn
<1>6. ASSUME Mount(Loader) \/ Unmount(Loader) \/ LoaderStarts \/ LoaderReads
      PROVE  VolumeHeld' /\ SensorHeld' /\ IdentityTried'
  <2>1. VolumeOn(Loader) /\ OnlyMoves(Loader) /\ UNCHANGED <<yielding, conf>>
    BY <1>0, <1>6, LoaderLeaves
  <2>2. \A q \in Client : pc'[q] = pc[q] /\ mem'[q] = mem[q]
    BY <1>0, <2>1 DEF OnlyMoves
  <2>3. SensorHeld' /\ IdentityTried'
    BY <1>0, <2>1, <2>2 DEF SensorHeld, IdentityTried
  <2> QED BY <1>0, <1>1, <2>1, <2>3
<1>7. CASE YieldExpires
  BY <1>0, <1>7 DEF YieldExpires, VolumeHeld, SensorHeld, IdentityTried
<1> QED BY <1>0, <1>3, <1>4, <1>5, <1>6, <1>7 DEF PrintsNext, Killed

\* A step of the one half keeps its invariant ...
LEMMA PrintsStep ==
  ASSUME PrintsInv, PrintsNext
  PROVE  PrintsInv'
<1>1. Keeps
  BY StepKeeps, OtherKeeps DEF PrintsInv, PrintsNext
<1>2. vol' \in Volume /\ Unique(vol'.names)
  BY <1>1, VolumeKept DEF PrintsInv, Keeps
<1>3. left' \in [ops : 0..MaxOps, faults : 0..MaxFaults]
  BY <1>1, BudgetsShrink DEF PrintsInv, Keeps
<1>4. /\ pc' \in [Proc -> Places] /\ mem' \in [Proc -> Memory] /\ SoundLoader'
      /\ \A p \in Client : Sound(p, pc[p], mem[p])'
  BY MovesAreSound DEF PrintsInv
<1>5. PrintsShape'
  BY <1>1, <1>2, <1>3, <1>4 DEF PrintsInv, PrintsShape, Keeps
<1>6. PrintsSound'
  BY <1>2, <1>4 DEF PrintsSound
<1>7. VolumeHeld' /\ SensorHeld' /\ IdentityTried'
  <2>1. CASE NoFault'
    BY <1>1, <2>1, HeldKept DEF PrintsInv
  <2>2. CASE ~NoFault'
    BY <2>2 DEF VolumeHeld, SensorHeld, IdentityTried
  <2> QED BY <2>1, <2>2
<1> QED BY <1>5, <1>6, <1>7 DEF PrintsInv

LEMMA PrintsStart ==
  ASSUME PrintsInit
  PROVE  PrintsInv
<1>1. Fresh("none") \in Memory /\ Unique(Fresh("none").names)
  BY FreshMemory
<1>2. Fresh("none").yielded = FALSE
  BY DEF Fresh
<1>3. vol \in Volume /\ Unique(vol.names) /\ vol.mounted = FALSE
  BY NoNamesIsNameFile DEF PrintsInit, Volume
<1>4. chip \in SUBSET AllSlots
  BY DEF PrintsInit, AllSlots
<1>5. left \in [ops : 0..MaxOps, faults : 0..MaxFaults]
  BY PrintsAssumption DEF PrintsInit
<1>6. /\ pc \in [Proc -> Places] /\ op \in [Proc -> Operations] /\ mem \in [Proc -> Memory]
      /\ \A p \in Proc : pc[p] \in {"idle", "off"} /\ mem[p] = Fresh("none")
      /\ pc[Loader] = "idle"
  BY <1>1, Labels DEF PrintsInit, Operations, Proc, Cli, Loader
<1>7. PrintsShape
  BY <1>3, <1>4, <1>5, <1>6 DEF PrintsInit, PrintsShape
<1>8. PrintsSound
  BY <1>1, <1>3, <1>6, Labels DEF PrintsSound, SoundLoader, Sound, Proc
<1>9. VolumeHeld /\ SensorHeld /\ IdentityTried
  BY <1>3, <1>6 DEF PrintsInit, VolumeHeld, SensorHeld, IdentityTried, Proc, Client
<1> QED BY <1>7, <1>8, <1>9 DEF PrintsInv

-----------------------------------------------------------------------------
(***************************************************************************)
(* A step of the installation                                              *)
(***************************************************************************)

\* A process goes on and fits; ...
MovesTo(p, l, r) ==
    /\ l \in Stations /\ r \in Own /\ Fit(p, l, r)
    /\ at' = [at EXCEPT ![p] = l] /\ me' = [me EXCEPT ![p] = r]
Moved(p) == \E l, r : MovesTo(p, l, r)

\* ... the rest keeps its types; ...
Rest ==
    /\ remote \in [BOOLEAN -> Versions]
    /\ exec \in [bin : Versions, file : Files]
    /\ svc \in [bin : Versions, plist : BOOLEAN, run : Versions, rule : BOOLEAN, log : BOOLEAN,
                grant : BOOLEAN]
    /\ bar \in [app : Versions, run : Versions] /\ panes \in [built : Versions, inst : Versions]
    /\ live \in BOOLEAN /\ told \in {"none", "complete", "problems"} /\ dirty \in BOOLEAN
Spends ==
    \/ UNCHANGED fuel \/ Glitch
    \/ fuel.runs > 0 /\ fuel' = [fuel EXCEPT !.runs = @ - 1]
    \/ fuel.choices > 0 /\ fuel' = [fuel EXCEPT !.choices = @ - 1]

\* ... a daemon of another version appears only with its removal ahead; ...
Follows(p) ==
    \/ Glitch \/ at'[p] = "remove"
    \/ svc'.bin = 0 /\ svc'.run = 0
    \/ /\ at[p] # "remove" /\ exec'.bin = exec.bin
       /\ svc'.bin \in {0, svc.bin, exec.bin} /\ svc'.run \in {0, svc.run, svc.bin, exec.bin}

\* ... and parts appear only with a deployment.
Shrinks ==
    /\ svc'.run \in {0, svc.run} /\ (svc'.plist => svc.plist) /\ svc'.bin \in {0, svc.bin}
    /\ (svc'.rule => svc.rule) /\ (svc'.log => svc.log) /\ bar'.app \in {0, bar.app}
Cleans(p) == dirty' \/ (UNCHANGED <<dirty, told>> /\ Shrinks /\ at'[p] # "uninstall")

Fine(p) == Moved(p) /\ Rest' /\ Spends /\ Follows(p) /\ Cleans(p)

LEMMA NewbornFits ==
  ASSUME InstallShape, NEW p \in Process, NEW what \in {"menu", "updater", "check", "deploy"}
  PROVE  Newborn(what) \in Own /\ Newborn(what).step = 0 /\ Newborn(what).back = "off"
<1>1. 0 \in Versions /\ exec.bin \in Versions /\ NoFile \in Files /\ 0 \in 0..ScriptSteps
  BY InstallAssumption DEF InstallShape, Versions, NoFile, Files, ScriptSteps
<1> QED BY <1>1 DEF Newborn, Own

\* A step that moves p and leaves installation and survey alone.
LEMMA OnlyGoes ==
  ASSUME InstallShape, NEW p \in Process, NEW l \in Stations \ {"uninstall"}, NEW r \in Own,
         Fit(p, l, r), Move(p, l), Note(p, r) \/ (UNCHANGED me /\ r = me[p]),
         at[p] # "remove" \/ Glitch, Spends, Rest',
         UNCHANGED <<svc, bar, told, dirty>>, exec'.bin = exec.bin \/ l = "remove"
  PROVE  Fine(p)
<1>0. at \in [Process -> Stations] /\ me \in [Process -> Own]
  BY DEF InstallShape
<1>1. at' = [at EXCEPT ![p] = l] /\ me' = [me EXCEPT ![p] = r] /\ at'[p] = l
  BY <1>0 DEF Move, Note
<1>2. Moved(p)
  BY <1>1 DEF Moved, MovesTo
<1>3. Follows(p)
  BY <1>1 DEF Follows
<1>4. Cleans(p)
  BY <1>1 DEF Cleans, Shrinks
<1> QED BY <1>2, <1>3, <1>4 DEF Fine

\* Starting, the pane, the gates.
LEMMA StartingSteps ==
  ASSUME InstallShape, NEW p \in Process, Fit(p, at[p], me[p]),
         \/ \E w \in {"menu", "updater", "check", "deploy"} : Launch(p, w)
         \/ EnsurePane(p) \/ OfferPane(p) \/ Gates(p) \/ Relaunch(p) \/ Dies(p)
  PROVE  Fine(p)
<1> DEFINE r == me[p]
<1>0. at[p] \in Stations /\ r \in Own /\ Rest /\ exec.bin \in Versions /\ (p = Menu \/ p = Terminal)
      /\ live \in BOOLEAN
  BY DEF InstallShape, Rest, Process
<1>1. UNCHANGED <<remote, exec, svc, bar, live, told, dirty>> /\ (panes' = panes \/ EnsurePane(p))
  BY DEF Launch, EnsurePane, OfferPane, Gates, Relaunch, Dies
<1>2. Rest'
  <2>1. panes' \in [built : Versions, inst : Versions]
    <3> DEFINE P == [built : Versions, inst : Versions]
    <3>1. panes \in P /\ 0 \in Versions
      BY <1>0, InstallAssumption DEF Rest, Versions
    <3>2. [panes EXCEPT !.built = exec.bin] \in P
      BY <1>0, <3>1
    <3>3. \A q \in P : PaneCopied(q) \in P /\ PaneLost(q) \in P
      BY <3>1 DEF PaneCopied, PaneLost
    <3> HIDE DEF P
    <3>4. CASE EnsurePane(p)
      <4> DEFINE After(q) == IF q.built \in {0, q.inst} THEN q ELSE PaneCopied(q)
                 new == [panes EXCEPT !.built = exec.bin]
      <4>1. \A q \in P : After(q) \in P
        BY <3>3
      <4>2. panes' \in {After(panes), After(new), PaneLost(panes), PaneLost(new)}
        BY <3>4 DEF EnsurePane, BuiltAfter
      <4> HIDE DEF After, new
      <4>3. new \in P
        BY <3>2 DEF new
      <4> QED BY <3>1, <3>3, <4>1, <4>2, <4>3 DEF P
    <3> QED BY <1>1, <3>1, <3>4 DEF P
  <2> QED BY <1>0, <1>1, <2>1 DEF Rest
<1>3. CASE \E w \in {"menu", "updater", "check", "deploy"} : Launch(p, w)
  <2>1. PICK w \in {"menu", "updater", "check", "deploy"} : Launch(p, w)
    BY <1>3
  <2> DEFINE k == [Newborn(w) EXCEPT !.back = IF p = Menu THEN "sensor" ELSE "off"]
  <2>2. k \in Own /\ k.step = 0 /\ (p = Terminal => k.back = "off")
    BY <1>0, NewbornFits DEF Own, Menu, Terminal
  <2>3. PICK l \in {"pane", "deploy", "check"} : Move(p, l)
    BY <2>1 DEF Launch
  <2>4. /\ Note(p, k) /\ at[p] # "remove" /\ Spends
    BY <2>1 DEF Launch, Spends
  <2>5. l \in Stations \ {"uninstall"} /\ Fit(p, l, k)
    BY <2>2, <2>3 DEF Stations, Fit
  <2> QED BY <1>1, <1>2, <2>2, <2>3, <2>4, <2>5, OnlyGoes
<1>4. CASE EnsurePane(p) \/ Gates(p)
  <2>1. PICK l \in {"offer", "menu", "off"} : Move(p, l) /\ (l = "menu" => Gates(p))
    BY <1>4 DEF EnsurePane, Gates
  <2>2. UNCHANGED me /\ at[p] \in {"pane", "sensor"} /\ Spends /\ (Gates(p) => at[p] = "sensor")
    BY <1>4 DEF EnsurePane, Gates, Spends
  <2>3. l \in Stations \ {"uninstall"} /\ Fit(p, l, r)
    BY <1>0, <2>1, <2>2 DEF Stations, Fit, Own
  <2> QED BY <1>0, <1>1, <1>2, <2>1, <2>2, <2>3, OnlyGoes
<1>5. CASE OfferPane(p)
  <2> DEFINE k == [r EXCEPT !.live = live]
  <2>1. k \in Own /\ k.step = r.step /\ k.back = r.back
    BY <1>0 DEF Own
  <2>2. \/ Move(p, "check") /\ Note(p, k)
        \/ Move(p, "off") /\ UNCHANGED me
    BY <1>5 DEF OfferPane
  <2>3. at[p] = "offer" /\ Spends
    BY <1>5 DEF OfferPane, Spends
  <2>4. /\ "check" \in Stations \ {"uninstall"} /\ "off" \in Stations \ {"uninstall"}
        /\ Fit(p, "check", k) /\ Fit(p, "off", r)
    BY <1>0, <2>1, <2>3 DEF Stations, Fit, Own
  <2> HIDE DEF k
  <2> QED BY <1>0, <1>1, <1>2, <2>1, <2>2, <2>3, <2>4, OnlyGoes
<1>6. CASE Relaunch(p)
  <2> DEFINE k == [Newborn("menu") EXCEPT !.back = "sensor", !.live = live, !.notice = me[p].notice]
  <2>1. k \in Own /\ k.step = 0
    BY <1>0, NewbornFits DEF Own
  <2>2. at[p] = "relaunch" /\ p # Terminal /\ Spends
    BY <1>6 DEF Relaunch, Fit, Spends
  <2>3. \/ Move(p, "check") /\ Note(p, k)
        \/ Move(p, "off") /\ UNCHANGED me
    BY <1>6 DEF Relaunch
  <2>4. /\ "check" \in Stations \ {"uninstall"} /\ "off" \in Stations \ {"uninstall"}
        /\ Fit(p, "check", k) /\ Fit(p, "off", r)
    BY <1>0, <2>1, <2>2 DEF Stations, Fit, Own
  <2> HIDE DEF k
  <2> QED BY <1>0, <1>1, <1>2, <2>1, <2>2, <2>3, <2>4, OnlyGoes
<1>7. CASE Dies(p)
  <2>1. Move(p, "off") /\ UNCHANGED me /\ Glitch /\ Spends
    BY <1>7 DEF Dies, Spends
  <2>2. "off" \in Stations \ {"uninstall"} /\ Fit(p, "off", r)
    BY <1>0 DEF Stations, Fit, Own
  <2> QED BY <1>0, <1>1, <1>2, <2>1, <2>2, OnlyGoes
<1> QED BY <1>3, <1>4, <1>5, <1>6, <1>7

\* Updating, as far as the download.
LEMMA UpdatingSteps ==
  ASSUME InstallShape, NEW p \in Process, Fit(p, at[p], me[p]),
         CheckUpdate(p) \/ Prompt(p) \/ Download(p)
  PROVE  Fine(p)
<1> DEFINE r == me[p]
<1>0. /\ at[p] \in Stations /\ r \in Own /\ Rest /\ exec.file \in Files /\ remote \in [BOOLEAN -> Versions]
      /\ r.step = 0 /\ r.back \in {"off", "sensor", "menu"} /\ (p = Terminal => r.back = "off")
      /\ r.local \in Files /\ r.loaded \in BOOLEAN /\ at[p] \in {"check", "watch", "prompt", "download"}
  <2>1. at[p] \in {"check", "watch", "prompt", "download"}
    BY DEF CheckUpdate, Prompt, Download
  <2> QED BY <2>1 DEF InstallShape, Rest, Fit, Own
<1>1. UNCHANGED <<remote, exec, svc, bar, panes, live, told, dirty, fuel>>
  BY DEF CheckUpdate, Prompt, Download
<1>2. Rest' /\ Spends
  BY <1>0, <1>1 DEF Rest, Spends
<1>3. ASSUME NEW k \in Own, k.step = 0, k.back = r.back,
             NEW l \in {"download", "prompt", "swap", r.back}, Move(p, l),
             Note(p, k) \/ (UNCHANGED me /\ k = r)
      PROVE  Fine(p)
  <2>1. l \in Stations \ {"uninstall"} /\ Fit(p, l, k)
    BY <1>0, <1>3 DEF Stations, Fit
  <2> QED BY <1>0, <1>1, <1>2, <1>3, <2>1, OnlyGoes
<1>4. CASE CheckUpdate(p)
  <2> DEFINE loaded == r.loaded \/ exec.file.ver # 0
             local == IF r.loaded THEN r.local ELSE exec.file
             found == remote[local.beta]
             k == [r EXCEPT !.loaded = loaded, !.local = local]
             y == k.what = "updater"
             n == [k EXCEPT !.found = found, !.seen = found, !.redeploy = y]
  <2>1. \/ Note(p, n) /\ \E l \in {"download", "prompt"} : Move(p, l)
        \/ Note(p, k) /\ Move(p, k.back)
    BY <1>4 DEF CheckUpdate
  <2>2. loaded \in BOOLEAN /\ local \in Files /\ local.beta \in BOOLEAN /\ found \in Versions
    BY <1>0 DEF Files
  <2> HIDE DEF loaded, local, found
  <2>3. k \in Own /\ k.step = 0 /\ k.back = r.back
    BY <1>0, <2>2 DEF Own
  <2>4. y \in BOOLEAN
    OBVIOUS
  <2> HIDE DEF k, y
  <2>5. n \in Own /\ n.step = 0 /\ n.back = r.back
    BY <2>2, <2>3, <2>4 DEF Own
  <2> HIDE DEF n
  <2> QED BY <1>3, <2>1, <2>3, <2>5
<1>5. CASE Prompt(p)
  <2>1. \A x \in BOOLEAN : LET k == [r EXCEPT !.redeploy = x] IN k \in Own /\ k.step = 0 /\ k.back = r.back
    BY <1>0 DEF Own
  <2>2. \/ Move(p, r.back) /\ UNCHANGED me
        \/ \E x \in BOOLEAN : Move(p, "download") /\ Note(p, [r EXCEPT !.redeploy = x])
    BY <1>5 DEF Prompt
  <2>3. CASE Move(p, r.back) /\ UNCHANGED me
    BY <1>0, <1>3, <2>3
  <2>4. CASE \E x \in BOOLEAN : Move(p, "download") /\ Note(p, [r EXCEPT !.redeploy = x])
    BY <1>3, <2>1, <2>4
  <2> QED BY <2>2, <2>3, <2>4
<1>6. CASE Download(p)
  <2> DEFINE v == remote[r.local.beta]
             k == [r EXCEPT !.tree = v]
  <2>1. v \in Versions
    BY <1>0 DEF Files
  <2> HIDE DEF v
  <2>2. k \in Own /\ k.step = 0 /\ k.back = r.back
    BY <1>0, <2>1 DEF Own
  <2>3. \/ Move(p, r.back) /\ UNCHANGED me
        \/ Move(p, "swap") /\ Note(p, k)
    BY <1>6 DEF Download, v
  <2> HIDE DEF k
  <2> QED BY <1>0, <1>3, <2>2, <2>3
<1> QED BY <1>4, <1>5, <1>6

\* The end of a deployment.
LEMMA EndsFine ==
  ASSUME InstallShape, NEW p \in Process, Fit(p, at[p], me[p]), EndDeploy(p)
  PROVE  /\ Moved(p) /\ at'[p] \notin {"uninstall", "remove"}
<1> DEFINE r == me[p]
           y == r.notice /\ ~r.redeploy
           k == [r EXCEPT !.step = 0, !.notice = y]
           l == DeployReturns(p)
<1>0. at \in [Process -> Stations] /\ me \in [Process -> Own] /\ r \in Own /\ (p = Menu \/ p = Terminal)
  BY DEF InstallShape, Process
<1>1. Move(p, l) /\ Note(p, k)
  BY <1>0 DEF EndDeploy
<1>2. y \in BOOLEAN /\ 0 \in 0..ScriptSteps
  BY <1>0 DEF Own, ScriptSteps
<1> HIDE DEF y
<1>3. k \in Own /\ k.step = 0 /\ k.back = r.back
  BY <1>0, <1>2 DEF Own
<1> HIDE DEF k
<1>4. l \in {"relaunch", "menu", "off"} /\ (p = Terminal => l = "off")
  BY <1>0 DEF DeployReturns, Menu, Terminal
<1> HIDE DEF l
<1>5. Fit(p, l, k) /\ l \in Stations
  BY <1>3, <1>4 DEF Fit, Stations
<1>6. MovesTo(p, l, k)
  BY <1>1, <1>3, <1>5 DEF MovesTo, Move, Note
<1>7. at'[p] = l
  BY <1>0, <1>1 DEF Move
<1> QED BY <1>4, <1>6, <1>7 DEF Moved

\* The swap, and deploying again or not.
LEMMA SwappingSteps ==
  ASSUME InstallShape, NEW p \in Process, Fit(p, at[p], me[p]),
         Swap(p) \/ RemoveDaemon(p) \/ Redeploy(p)
  PROVE  Fine(p)
<1> DEFINE r == me[p]
<1>0. /\ at \in [Process -> Stations] /\ me \in [Process -> Own]
      /\ at[p] \in {"swap", "remove", "redeploy"} /\ r \in Own /\ Rest /\ r.step = 0
      /\ p = Menu \/ p = Terminal
      /\ p = Terminal => r.back = "off"
      /\ 0 \in Versions
  <2>1. at[p] \in {"swap", "remove", "redeploy"}
    BY DEF Swap, RemoveDaemon, Redeploy
  <2>2. r \in Own /\ Rest /\ at \in [Process -> Stations] /\ me \in [Process -> Own]
    BY DEF InstallShape, Rest
  <2>3. r.step = 0 /\ (p = Terminal => r.back = "off")
    BY <2>1, <2>2 DEF Fit, Own, ScriptSteps
  <2> QED BY <2>1, <2>2, <2>3, InstallAssumption DEF Versions, Process
<1>1. CASE Swap(p)
  <2>1. exec' \in [bin : Versions, file : Files]
    <3>1. NoFile \in Files /\ r.tree \in Versions /\ r.local.beta \in BOOLEAN
      BY <1>0 DEF NoFile, Files, Own
    <3> QED BY <1>0, <1>1, <3>1 DEF Swap, Files
  <2>2. panes' \in [built : Versions, inst : Versions]
    BY <1>0, <1>1 DEF Swap, Rest
  <2>3. Rest' /\ Spends /\ UNCHANGED <<svc, bar, told, dirty, me>> /\ Move(p, "remove") /\ at[p] = "swap"
    BY <1>0, <1>1, <2>1, <2>2 DEF Swap, Rest, Spends
  <2>4. "remove" \in Stations \ {"uninstall"} /\ Fit(p, "remove", r)
    BY <1>0 DEF Stations, Fit
  <2> QED BY <1>0, <2>3, <2>4, OnlyGoes
<1>2. CASE RemoveDaemon(p)
  <2> DEFINE y == svc.bin # 0 \/ svc.plist \/ svc.run # 0
             k == [r EXCEPT !.notice = y]
             l == IF r.redeploy THEN "redeploy" ELSE IF p = Menu THEN "relaunch" ELSE "off"
  <2>1. y \in BOOLEAN
    BY <1>0 DEF Rest
  <2>2. Move(p, l) /\ Note(p, k)
    BY <1>2 DEF RemoveDaemon
  <2> HIDE DEF y
  <2>3. k \in Own /\ k.step = 0 /\ k.back = r.back
    BY <1>0, <2>1 DEF Own
  <2> HIDE DEF k
  <2>4. l \in {"redeploy", "relaunch", "off"} /\ (p = Terminal => l # "relaunch")
    BY <1>0 DEF Menu, Terminal
  <2> HIDE DEF l
  <2>5. MovesTo(p, l, k) /\ at'[p] = l
    BY <1>0, <2>2, <2>3, <2>4 DEF MovesTo, Fit, Stations, Move, Note
  <2>6. /\ svc' \in [bin : Versions, plist : BOOLEAN, run : Versions, rule : BOOLEAN, log : BOOLEAN,
                     grant : BOOLEAN]
        /\ Shrinks /\ (Glitch \/ (svc'.bin = 0 /\ svc'.run = 0))
    <3>1. /\ Removed \in [bin : Versions, plist : BOOLEAN, run : Versions, rule : BOOLEAN,
                          log : BOOLEAN, grant : BOOLEAN]
          /\ Removed.bin = 0 /\ Removed.run = 0 /\ Removed.plist = FALSE
          /\ Removed.rule = svc.rule /\ Removed.log = svc.log
      BY <1>0 DEF Removed, Rest
    <3>2. CASE svc' = Removed
      BY <1>0, <1>2, <3>1, <3>2 DEF RemoveDaemon, Rest, Shrinks
    <3>3. CASE Glitch /\ svc' = [Removed EXCEPT !.run = svc.run]
      BY <1>0, <1>2, <3>1, <3>3 DEF RemoveDaemon, Rest, Shrinks
    <3>4. CASE Glitch /\ svc' = [Removed EXCEPT !.plist = svc.plist]
      BY <1>0, <1>2, <3>1, <3>4 DEF RemoveDaemon, Rest, Shrinks
    <3>5. CASE Glitch /\ svc' = [Removed EXCEPT !.bin = svc.bin]
      BY <1>0, <1>2, <3>1, <3>5 DEF RemoveDaemon, Rest, Shrinks
    <3> QED BY <1>2, <3>2, <3>3, <3>4, <3>5 DEF RemoveDaemon
  <2>7. UNCHANGED <<remote, exec, bar, panes, live, told, dirty>> /\ Spends
    BY <1>2 DEF RemoveDaemon, Spends
  <2>8. Rest'
    BY <1>0, <2>6, <2>7 DEF Rest
  <2> QED BY <2>4, <2>5, <2>6, <2>7, <2>8 DEF Fine, Moved, Follows, Cleans
<1>3. CASE Redeploy(p)
  <2> DEFINE k == [r EXCEPT !.notice = TRUE]
             l == IF p = Menu THEN "relaunch" ELSE "off"
  <2>1. k \in Own /\ k.step = 0 /\ k.back = r.back
    BY <1>0 DEF Own
  <2>2. \/ Move(p, "deploy") /\ UNCHANGED me
        \/ Move(p, l) /\ Note(p, k)
    BY <1>3 DEF Redeploy
  <2> HIDE DEF k
  <2>3. l \in {"relaunch", "off"} /\ (p = Terminal => l = "off")
    BY <1>0 DEF Menu, Terminal
  <2> HIDE DEF l
  <2>4. /\ l \in Stations \ {"uninstall"} /\ "deploy" \in Stations \ {"uninstall"}
        /\ Fit(p, l, k) /\ Fit(p, "deploy", r)
    BY <1>0, <2>1, <2>3 DEF Stations, Fit
  <2>5. UNCHANGED <<remote, exec, svc, bar, panes, live, told, dirty, fuel>> /\ at[p] = "redeploy"
    BY <1>3 DEF Redeploy
  <2>6. Rest' /\ Spends
    BY <1>0, <2>5 DEF Rest, Spends
  <2> QED BY <1>0, <2>1, <2>2, <2>4, <2>5, <2>6, OnlyGoes
<1> QED BY <1>1, <1>2, <1>3

\* Deploying.
LEMMA DeployingSteps ==
  ASSUME InstallShape, NEW p \in Process, Fit(p, at[p], me[p]),
         Deploy(p) \/ Script(p) \/ InstallBar(p) \/ InstallPane(p)
  PROVE  Fine(p)
<1> DEFINE r == me[p]
<1>0. /\ at \in [Process -> Stations] /\ me \in [Process -> Own] /\ r \in Own /\ Rest /\ 0 \in Versions
      /\ p = Terminal => r.back = "off"
      /\ exec.bin \in Versions /\ svc.bin \in Versions /\ at[p] # "remove"
  <2>1. at[p] \in {"deploy", "script", "bar", "askpane"}
    BY DEF Deploy, Script, InstallBar, InstallPane
  <2>2. r \in Own /\ Rest /\ at \in [Process -> Stations] /\ me \in [Process -> Own]
    BY DEF InstallShape, Rest
  <2>3. p = Terminal => r.back = "off"
    BY DEF Fit
  <2> QED BY <2>1, <2>2, <2>3, InstallAssumption DEF Rest, Versions
<1>1. CASE Deploy(p)
  <2>1. /\ UNCHANGED <<remote, exec, svc, bar, panes, live, told, dirty, fuel>> /\ at[p] = "deploy"
        /\ (Move(p, "script") /\ UNCHANGED me) \/ EndDeploy(p)
    BY <1>1 DEF Deploy
  <2>2. Rest' /\ Spends /\ Shrinks
    BY <1>0, <2>1 DEF Rest, Spends, Shrinks
  <2>3. CASE Move(p, "script") /\ UNCHANGED me
    <3>1. r.step = 0 /\ Fit(p, "script", r) /\ "script" \in Stations \ {"uninstall"}
      BY <1>0, <2>1 DEF Fit, Own, Stations, ScriptSteps
    <3> QED BY <1>0, <2>1, <2>2, <2>3, <3>1, OnlyGoes
  <2>4. CASE EndDeploy(p)
    BY <1>0, <2>1, <2>2, <2>4, EndsFine DEF Fine, Follows, Cleans
  <2> QED BY <2>1, <2>3, <2>4
<1>2. CASE Script(p)
  <2>1. at[p] = "script" /\ r.step \in 0..5 /\ UNCHANGED <<remote, exec, bar, panes, live, told>>
    BY <1>0, <1>2 DEF Script, Fit, ScriptSteps
  <2>2. CASE EndDeploy(p) /\ UNCHANGED <<svc, dirty>>
    <3>1. Spends
      BY <1>2 DEF Script, Spends, Glitch
    <3>2. Rest' /\ Shrinks
      BY <1>0, <2>1, <2>2 DEF Rest, Shrinks
    <3> QED BY <1>0, <2>1, <2>2, <3>1, <3>2, EndsFine DEF Fine, Follows, Cleans
  <2>3. CASE /\ svc' = ScriptDoes(r.step) /\ dirty' = TRUE /\ UNCHANGED fuel
             /\ IF r.step + 1 < ScriptSteps
                THEN Move(p, "script") /\ Note(p, [r EXCEPT !.step = r.step + 1])
                ELSE Move(p, "bar") /\ UNCHANGED me
    <3>1. /\ svc' \in [bin : Versions, plist : BOOLEAN, run : Versions, rule : BOOLEAN, log : BOOLEAN,
                       grant : BOOLEAN]
          /\ svc'.bin \in {0, svc.bin, exec.bin} /\ svc'.run \in {0, svc.run, svc.bin, exec.bin}
      <4>1. \/ svc' = [svc EXCEPT !.bin = exec.bin, !.grant = TRUE]
            \/ svc' = [svc EXCEPT !.run = 0]
            \/ svc' = [svc EXCEPT !.rule = TRUE]
            \/ svc' = [svc EXCEPT !.log = TRUE]
            \/ svc' = [svc EXCEPT !.plist = TRUE]
            \/ svc' = [svc EXCEPT !.run = IF svc.plist THEN svc.bin ELSE 0]
        BY <2>1, <2>3 DEF ScriptDoes
      <4> QED BY <1>0, <4>1 DEF Rest
    <3>2. Rest' /\ Spends
      BY <1>0, <2>1, <2>3, <3>1 DEF Rest, Spends
    <3>3. Moved(p)
      <4>1. CASE r.step + 1 < ScriptSteps /\ Move(p, "script") /\ Note(p, [r EXCEPT !.step = r.step + 1])
        <5> DEFINE k == [r EXCEPT !.step = r.step + 1]
        <5>1. r.step + 1 \in 0..5 /\ r.step + 1 \in 0..6
          BY <2>1, <4>1 DEF ScriptSteps
        <5>2. k \in Own /\ k.step \in 0..5 /\ k.back = r.back
          BY <1>0, <5>1 DEF Own, ScriptSteps
        <5>3. MovesTo(p, "script", k)
          BY <1>0, <4>1, <5>2 DEF MovesTo, Move, Note, Fit, Stations, ScriptSteps
        <5> QED BY <5>3 DEF Moved
      <4>2. CASE Move(p, "bar") /\ UNCHANGED me
        <5>1. MovesTo(p, "bar", r)
          BY <1>0, <4>2 DEF MovesTo, Move, Fit, Stations
        <5> QED BY <5>1 DEF Moved
      <4> QED BY <2>3, <4>1, <4>2
    <3> QED BY <1>0, <2>1, <2>3, <3>1, <3>2, <3>3 DEF Fine, Follows, Cleans
  <2> QED BY <1>2, <2>1, <2>2, <2>3 DEF Script
<1>3. CASE InstallBar(p)
  <2>1. /\ at[p] = "bar" /\ UNCHANGED <<remote, exec, svc, panes, live, told>> /\ dirty' = TRUE
        /\ (Move(p, "askpane") /\ UNCHANGED me) \/ EndDeploy(p)
    BY <1>3 DEF InstallBar
  <2>2. bar' \in [app : Versions, run : Versions]
    BY <1>0, <1>3 DEF InstallBar, Rest
  <2>3. Rest' /\ Spends
    BY <1>0, <1>3, <2>1, <2>2 DEF InstallBar, Rest, Spends
  <2>4. Moved(p)
    <3>1. CASE Move(p, "askpane") /\ UNCHANGED me
      <4>1. MovesTo(p, "askpane", r)
        BY <1>0, <3>1 DEF MovesTo, Move, Fit, Stations
      <4> QED BY <4>1 DEF Moved
    <3> QED BY <2>1, <3>1, EndsFine
  <2> QED BY <1>0, <2>1, <2>3, <2>4 DEF Fine, Follows, Cleans
<1>4. CASE InstallPane(p)
  <2>1. UNCHANGED <<remote, exec, svc, bar, live, told, dirty>> /\ EndDeploy(p)
    BY <1>4 DEF InstallPane
  <2>2. panes' \in [built : Versions, inst : Versions]
    BY <1>0, <1>4 DEF InstallPane, PaneCopied, PaneLost, Rest
  <2>3. Rest' /\ Spends /\ Shrinks
    BY <1>0, <1>4, <2>1, <2>2 DEF InstallPane, Rest, Spends, Shrinks
  <2> QED BY <1>0, <2>1, <2>3, EndsFine DEF Fine, Follows, Cleans
<1> QED BY <1>1, <1>2, <1>3, <1>4

\* The menu's choices and settings.
LEMMA MenuSteps ==
  ASSUME InstallShape, NEW p \in Process, Fit(p, at[p], me[p]),
         (\E c \in Choices : Choose(p, c)) \/ Watch(p) \/ Setting(p)
  PROVE  Fine(p)
<1> DEFINE r == me[p]
<1>0. /\ at \in [Process -> Stations] /\ me \in [Process -> Own] /\ r \in Own /\ Rest /\ at[p] = "menu"
      /\ p # Terminal /\ r.step = 0 /\ exec.bin \in Versions /\ exec.file \in Files
      /\ 0 \in 0..ScriptSteps
  <2>1. at[p] = "menu"
    BY DEF Choose, Watch, Setting
  <2>2. r \in Own /\ Rest /\ at \in [Process -> Stations] /\ me \in [Process -> Own]
    BY DEF InstallShape, Rest
  <2>3. r.step = 0 /\ p # Terminal
    BY <2>1, <2>2 DEF Fit, Own, ScriptSteps
  <2> QED BY <2>1, <2>2, <2>3 DEF Rest, ScriptSteps
<1>1. Spends
  BY DEF Choose, Watch, Setting, Spends
<1>2. CASE \E c \in Choices : Choose(p, c)
  <2>1. PICK c \in Choices : Choose(p, c)
    BY <1>2
  <2> DEFINE k == [r EXCEPT !.back = "menu", !.redeploy = FALSE, !.step = 0]
  <2>2. k \in Own /\ k.step = 0
    BY <1>0 DEF Own
  <2>3. Move(p, c) /\ Note(p, k) /\ UNCHANGED <<remote, exec, svc, bar, panes, live, told, dirty>>
    BY <2>1 DEF Choose
  <2>4. Rest' /\ c \in Stations \ {"uninstall"} /\ Fit(p, c, k)
    BY <1>0, <2>2, <2>3 DEF Rest, Choices, Stations, Fit
  <2> QED BY <1>0, <1>1, <2>2, <2>3, <2>4, OnlyGoes
<1>3. CASE Watch(p)
  <2> DEFINE k == [r EXCEPT !.back = "menu"]
  <2>1. k \in Own /\ k.step = 0
    BY <1>0 DEF Own
  <2>2. Move(p, "watch") /\ Note(p, k) /\ UNCHANGED <<remote, exec, svc, bar, panes, live, told, dirty>>
    BY <1>3 DEF Watch
  <2>3. Rest' /\ "watch" \in Stations \ {"uninstall"} /\ Fit(p, "watch", k)
    BY <1>0, <2>1, <2>2 DEF Rest, Stations, Fit
  <2> QED BY <1>0, <1>1, <2>1, <2>2, <2>3, OnlyGoes
<1>4. CASE Setting(p)
  <2>1. UNCHANGED <<remote, bar, panes, at, told, dirty>>
    BY <1>4 DEF Setting
  <2>2. ASSUME NEW k \in Own, k.step = 0, Note(p, k) PROVE Moved(p)
    <3>1. MovesTo(p, "menu", k)
      BY <1>0, <2>1, <2>2 DEF MovesTo, Note, Fit, Stations
    <3> QED BY <3>1 DEF Moved
  <2>3. CASE ToggleBeta(p)
    <3> DEFINE local == IF r.loaded THEN r.local ELSE exec.file
               b == ~local.beta
               new == [local EXCEPT !.beta = b]
               k == [r EXCEPT !.loaded = TRUE, !.local = new]
    <3>1. local \in Files /\ b \in BOOLEAN
      BY <1>0 DEF Own
    <3>2. Note(p, k) /\ exec' = [exec EXCEPT !.file = new] /\ UNCHANGED <<svc, live>>
      BY <2>3, <3>1 DEF ToggleBeta, Files
    <3> HIDE DEF local, b
    <3>3. new \in Files
      BY <3>1 DEF Files
    <3> HIDE DEF new
    <3>4. k \in Own /\ k.step = 0
      BY <1>0, <3>3 DEF Own
    <3>5. Rest' /\ exec'.bin = exec.bin
      BY <1>0, <2>1, <3>2, <3>3 DEF Rest
    <3> QED BY <1>0, <1>1, <2>1, <2>2, <3>2, <3>4, <3>5 DEF Fine, Follows, Cleans, Shrinks
  <2>4. CASE ToggleLive(p)
    <3> DEFINE y == ~r.live
               k == [r EXCEPT !.live = y]
    <3>1. y \in BOOLEAN
      BY <1>0 DEF Own
    <3>2. Note(p, k) /\ live' = y /\ UNCHANGED <<exec, svc>>
      BY <1>0, <2>4 DEF ToggleLive, Own
    <3> HIDE DEF y
    <3>3. k \in Own /\ k.step = 0
      BY <1>0, <3>1 DEF Own
    <3>4. Rest'
      BY <1>0, <2>1, <3>1, <3>2 DEF Rest
    <3> QED BY <1>0, <1>1, <2>1, <2>2, <3>2, <3>3, <3>4 DEF Fine, Follows, Cleans, Shrinks
  <2>5. CASE Grant(p)
    <3>1. svc' = [svc EXCEPT !.grant = TRUE] /\ UNCHANGED <<exec, live, me>>
      BY <2>5 DEF Grant
    <3>2. Note(p, r)
      BY <1>0, <3>1 DEF Note
    <3>3. Rest' /\ Shrinks /\ svc'.bin = svc.bin /\ svc'.run = svc.run
      BY <1>0, <2>1, <3>1 DEF Rest, Shrinks
    <3> QED BY <1>0, <1>1, <2>1, <2>2, <3>1, <3>2, <3>3 DEF Fine, Follows, Cleans
  <2> QED BY <1>4, <2>3, <2>4, <2>5 DEF Setting
<1> QED BY <1>2, <1>3, <1>4

-----------------------------------------------------------------------------
(***************************************************************************)
(* Uninstalling                                                            *)
(***************************************************************************)

LEMMA Order ==
    /\ Len(RemovalOrder) = 6 /\ ScriptSteps = 6
    /\ \A i \in 1..6 : RemovalOrder[i] \in Parts
    /\ \A x \in Parts : \E i \in 1..6 : RemovalOrder[i] = x
BY DEF RemovalOrder, Parts, ScriptSteps

\* Removing a part takes no other away.
Removes(x) ==
    /\ svc' = (CASE x = "run" -> [svc EXCEPT !.run = 0]
                 [] x = "plist" -> [svc EXCEPT !.plist = FALSE]
                 [] x = "bin" -> [svc EXCEPT !.bin = 0, !.grant = FALSE]
                 [] x = "rule" -> [svc EXCEPT !.rule = FALSE]
                 [] x = "log" -> [svc EXCEPT !.log = FALSE]
                 [] OTHER -> svc)
    /\ bar' = IF x = "bar" THEN [app |-> 0, run |-> 0] ELSE bar

LEMMA RemovesOnly ==
  ASSUME Rest, NEW x \in Parts, Removes(x)
  PROVE  /\ svc' \in [bin : Versions, plist : BOOLEAN, run : Versions, rule : BOOLEAN, log : BOOLEAN,
                      grant : BOOLEAN]
         /\ bar' \in [app : Versions, run : Versions] /\ Shrinks
         /\ ~Present(x)'
<1>0. 0 \in Versions
  BY InstallAssumption DEF Versions
<1>1. CASE x = "run"
  BY <1>0, <1>1 DEF Removes, Rest, Shrinks, Present
<1>2. CASE x = "plist"
  BY <1>0, <1>2 DEF Removes, Rest, Shrinks, Present
<1>3. CASE x = "bin"
  BY <1>0, <1>3 DEF Removes, Rest, Shrinks, Present
<1>4. CASE x = "rule"
  BY <1>0, <1>4 DEF Removes, Rest, Shrinks, Present
<1>5. CASE x = "log"
  BY <1>0, <1>5 DEF Removes, Rest, Shrinks, Present
<1>6. CASE x = "bar"
  BY <1>0, <1>6 DEF Removes, Rest, Shrinks, Present
<1> QED BY <1>1, <1>2, <1>3, <1>4, <1>5, <1>6 DEF Parts

LEMMA ShrinksParts ==
  ASSUME Rest, Shrinks, NEW x \in Parts, Present(x)'
  PROVE  Present(x)
BY DEF Rest, Shrinks, Parts, Present

LEMMA SurveyStep ==
  ASSUME InstallShape, NEW p \in Process, Fit(p, at[p], me[p]), Survey(p)
  PROVE  /\ Moved(p) /\ Rest' /\ Spends /\ Follows(p)
         /\ \/ Cleans(p)
            \/ p = Menu /\ told' = "none" /\ Removing(me[Menu])'
<1> DEFINE r == me[p]
           snap == {x \in Parts \ {"rule"} : Present(x)}
           k == [r EXCEPT !.snap = snap, !.bad = 0, !.step = 1]
<1>0. /\ at \in [Process -> Stations] /\ me \in [Process -> Own] /\ r \in Own /\ Rest /\ at[p] = "survey"
      /\ p = Menu /\ snap \in SUBSET Parts /\ 1 \in 0..ScriptSteps
  <2>1. at[p] = "survey"
    BY DEF Survey
  <2>2. p = Menu
    BY <2>1 DEF Fit, Process
  <2> QED BY <2>1, <2>2 DEF InstallShape, Rest, ScriptSteps
<1>1. UNCHANGED <<remote, exec, svc, bar, panes, live, fuel>>
  BY DEF Survey
<1>2. CASE Move(p, "menu") /\ UNCHANGED <<me, dirty, told>>
  <2>1. Rest' /\ Spends
    BY <1>0, <1>1, <1>2 DEF Rest, Spends
  <2>2. "menu" \in Stations \ {"uninstall"} /\ Fit(p, "menu", r)
    BY <1>0 DEF Stations, Fit, Menu, Terminal, Own
  <2>3. Fine(p)
    BY <1>0, <1>1, <1>2, <2>1, <2>2, OnlyGoes
  <2> QED BY <2>3 DEF Fine
<1>3. CASE Move(p, "uninstall") /\ dirty' = FALSE /\ told' = "none" /\ Note(p, k)
  <2> HIDE DEF snap
  <2>1. k \in Own /\ k.step = 1 /\ k.snap = snap /\ k.bad = 0
    BY <1>0 DEF Own
  <2>2. MovesTo(p, "uninstall", k) /\ me'[Menu] = k
    BY <1>0, <1>3, <2>1, Order DEF MovesTo, Move, Note, Fit, Stations, Menu, Terminal
  <2>3. Rest' /\ Spends /\ Follows(p)
    BY <1>0, <1>1, <1>3 DEF Rest, Spends, Follows
  <2>4. \A x \in Parts : Present(x)' = Present(x)
    BY <1>1 DEF Present
  <2>5. \A x \in Parts \ {"run", "rule"} : Present(x)' => x \in k.snap
    BY <2>1, <2>4 DEF snap
  <2>6. \A i \in 1..k.step - 1 : FALSE
    BY <2>1
  <2>7. Removing(me[Menu])'
    BY <2>2, <2>5, <2>6 DEF Removing
  <2> QED BY <1>0, <1>3, <2>2, <2>3, <2>7 DEF Moved
<1> QED BY <1>2, <1>3 DEF Survey

LEMMA UninstallStep ==
  ASSUME InstallShape, NEW p \in Process, Fit(p, at[p], me[p]), Uninstall(p)
  PROVE  /\ p = Menu /\ at[p] = "uninstall"
         /\ Moved(p) /\ Rest' /\ Spends /\ Follows(p) /\ Shrinks /\ dirty' = dirty
         /\ Removing(me[Menu]) =>
               \/ at'[Menu] = "uninstall" /\ told' = told /\ Removing(me[Menu])'
               \/ at'[Menu] = "menu" /\ (told' = "complete" => \A x \in Parts : ~Present(x)')
<1> DEFINE r == me[p]
<1>a. /\ at \in [Process -> Stations] /\ me \in [Process -> Own] /\ r \in Own /\ Rest /\ at[p] = "uninstall"
      /\ p = Menu /\ r.step \in 1..6 /\ r.bad \in Nat
  <2>1. at[p] = "uninstall"
    BY DEF Uninstall
  <2>2. p = Menu
    BY <2>1 DEF Fit, Process
  <2>3. r.step \in 1..6
    BY <2>1, Order DEF Fit
  <2> QED BY <2>1, <2>2, <2>3, Order DEF InstallShape, Rest, Own
<1>b. PICK j \in 1..6 : j = r.step
  BY <1>a
<1> DEFINE x == RemovalOrder[j]
           act == Present(x) /\ (x \in {"run", "rule"} \/ x \in r.snap)
           last == j = 6
           fin == [r EXCEPT !.snap = {}, !.bad = 0, !.step = 0]
           nxt(c) == [r EXCEPT !.bad = c, !.step = j + 1]
           Report(c) ==
               IF last THEN /\ Move(p, "menu") /\ Note(p, fin)
                            /\ told' = IF c = 0 THEN "complete" ELSE "problems"
               ELSE Note(p, nxt(c)) /\ UNCHANGED <<at, told>>
<1>0. x \in Parts
  BY Order
<1>1. UNCHANGED <<remote, exec, panes, live, dirty>> /\ Spends
  BY DEF Uninstall, Spends
<1>2. \/ act /\ Removes(x) /\ Report(Counted(p, FALSE))
      \/ Report(Counted(p, TRUE)) /\ UNCHANGED <<svc, bar>>
      \/ ~act /\ Report(Counted(p, FALSE)) /\ UNCHANGED <<svc, bar>>
  BY <1>b, Order DEF Uninstall, Removes
<1> HIDE DEF Report
<1>3. /\ svc' \in [bin : Versions, plist : BOOLEAN, run : Versions, rule : BOOLEAN, log : BOOLEAN,
                   grant : BOOLEAN]
      /\ bar' \in [app : Versions, run : Versions] /\ Shrinks
  <2>1. CASE Removes(x)
    BY <1>a, <1>b, <1>0, <2>1, RemovesOnly
  <2>2. CASE UNCHANGED <<svc, bar>>
    BY <1>a, <1>b, <1>0, <2>2 DEF Rest, Shrinks
  <2> QED BY <1>2, <2>1, <2>2
<1>4. PICK c \in Nat : /\ Report(c)
                      /\ \/ act /\ Removes(x) /\ c = r.bad
                         \/ c = r.bad + 1 /\ UNCHANGED <<svc, bar>>
                         \/ ~act /\ c = r.bad /\ UNCHANGED <<svc, bar>>
  <2>1. Counted(p, FALSE) = r.bad /\ Counted(p, TRUE) = r.bad + 1
    BY <1>a, <1>b, <1>0 DEF Counted
  <2>2. r.bad + 1 \in Nat
    BY <1>a, <1>b, <1>0
  <2> QED BY <1>a, <1>b, <1>0, <1>2, <2>1, <2>2
<1>5. /\ fin \in Own /\ fin.step = 0
      /\ ~last => /\ nxt(c) \in Own /\ nxt(c).step = j + 1 /\ nxt(c).bad = c
                  /\ nxt(c).snap = r.snap
  <2>1. 0 \in 0..ScriptSteps /\ (~last => j + 1 \in 0..ScriptSteps)
    BY <1>a, <1>b, <1>0, Order
  <2> QED BY <1>a, <1>b, <1>0, <2>1 DEF Own
<1>6. \/ last /\ Move(p, "menu") /\ Note(p, fin) /\ told' = IF c = 0 THEN "complete" ELSE "problems"
      \/ ~last /\ UNCHANGED <<at, told>> /\ Note(p, nxt(c))
  BY <1>4 DEF Report
<1> HIDE DEF fin, nxt, act, x
<1>7. Moved(p)
  <2>1. CASE last /\ Move(p, "menu") /\ Note(p, fin)
    <3>1. MovesTo(p, "menu", fin)
      BY <1>a, <1>b, <1>0, <1>5, <2>1 DEF MovesTo, Move, Note, Fit, Stations, Menu, Terminal
    <3> QED BY <3>1 DEF Moved
  <2>2. CASE ~last /\ UNCHANGED at /\ Note(p, nxt(c))
    <3>1. j + 1 \in 1..6 /\ p # Terminal
      BY <1>a, <1>b, <1>0, <2>2 DEF Menu, Terminal
    <3>2. Fit(p, "uninstall", nxt(c)) /\ "uninstall" \in Stations
      BY <1>5, <2>2, <3>1, Order DEF Fit, Stations
    <3>3. at' = [at EXCEPT ![p] = "uninstall"]
      BY <1>a, <1>b, <1>0, <2>2
    <3>4. MovesTo(p, "uninstall", nxt(c))
      BY <1>5, <2>2, <3>2, <3>3 DEF MovesTo, Note
    <3> QED BY <3>4 DEF Moved
  <2> QED BY <1>6, <2>1, <2>2
<1>8. Rest'
  BY <1>a, <1>b, <1>0, <1>1, <1>3, <1>6 DEF Rest
<1>9. Follows(p)
  BY <1>a, <1>b, <1>0, <1>1, <1>3 DEF Follows, Shrinks
<1>10. ASSUME Removing(r)
       PROVE  \/ at'[Menu] = "uninstall" /\ told' = told /\ Removing(me[Menu])'
              \/ at'[Menu] = "menu" /\ (told' = "complete" => \A y \in Parts : ~Present(y)')
  <2>1. \A y \in Parts : Present(y)' => Present(y)
    BY <1>a, <1>b, <1>0, <1>3, ShrinksParts
  <2>2. c = 0 => r.bad = 0 /\ ~Present(x)'
    <3>1. CASE act /\ Removes(x) /\ c = r.bad
      BY <1>a, <1>b, <1>0, <3>1, RemovesOnly
    <3>2. CASE ~act /\ c = r.bad
      BY <1>a, <1>b, <1>0, <1>10, <2>1, <3>2 DEF Removing, act
    <3>3. CASE c = r.bad + 1
      BY <1>a, <1>b, <1>0, <3>3
    <3> QED BY <1>4, <3>1, <3>2, <3>3
  <2>3. ASSUME c = 0
        PROVE  \A i \in 1..j : ~Present(RemovalOrder[i])'
    <3>1. \A i \in 1..j - 1 : ~Present(RemovalOrder[i]) /\ RemovalOrder[i] \in Parts
      BY <1>a, <1>b, <1>0, <1>10, <2>2, <2>3, Order DEF Removing
    <3>2. \A i \in 1..j - 1 : ~Present(RemovalOrder[i])'
      BY <2>1, <3>1
    <3>3. \A i \in 1..j : i \in 1..j - 1 \/ i = j
      BY <1>a, <1>b, <1>0
    <3>4. ~Present(RemovalOrder[j])'
      BY <2>2, <2>3 DEF x
    <3> QED BY <3>2, <3>3, <3>4
  <2>4. CASE last
    <3>1. at'[Menu] = "menu" /\ (told' = "complete" => c = 0)
      BY <1>a, <1>b, <1>0, <1>6, <2>4 DEF Move
    <3>2. told' = "complete" => \A y \in Parts : ~Present(y)'
      BY <2>3, <2>4, <3>1, Order
    <3> QED BY <3>1, <3>2
  <2>5. CASE ~last
    <3>1. Note(p, nxt(c)) /\ UNCHANGED <<at, told>>
      BY <1>6, <2>5
    <3>2. me'[Menu] = nxt(c)
      BY <1>a, <1>b, <1>0, <3>1 DEF Note
    <3>3. \A y \in Parts \ {"run", "rule"} : Present(y)' => y \in nxt(c).snap
      BY <1>5, <1>10, <2>1, <2>5 DEF Removing
    <3>4. nxt(c).bad = 0 => \A i \in 1..nxt(c).step - 1 : ~Present(RemovalOrder[i])'
      <4>1. nxt(c).bad = c /\ nxt(c).step - 1 = j
        BY <1>a, <1>b, <1>0, <1>5, <2>5
      <4> QED BY <2>3, <4>1
    <3>5. Removing(me[Menu])'
      BY <3>2, <3>3, <3>4 DEF Removing
    <3> QED BY <1>a, <1>b, <1>0, <3>1, <3>5
  <2> QED BY <2>4, <2>5
<1> QED BY <1>a, <1>b, <1>0, <1>1, <1>3, <1>7, <1>8, <1>9, <1>10

-----------------------------------------------------------------------------
(***************************************************************************)
(* The invariant of the installation is kept                               *)
(***************************************************************************)

LEMMA FuelShrinks ==
  ASSUME InstallShape, Spends
  PROVE  /\ fuel' \in [runs : 0..MaxRuns, choices : 0..MaxChoices, glitches : 0..MaxGlitches]
         /\ NoGlitch' => NoGlitch /\ ~Glitch
<1>0. /\ fuel \in [runs : 0..MaxRuns, choices : 0..MaxChoices, glitches : 0..MaxGlitches]
      /\ MaxRuns \in Nat /\ MaxChoices \in Nat /\ MaxGlitches \in Nat
  BY InstallAssumption DEF InstallShape
<1>1. CASE UNCHANGED fuel
  BY <1>0, <1>1 DEF NoGlitch, Glitch
<1>2. CASE Glitch
  BY <1>0, <1>2 DEF NoGlitch, Glitch
<1>3. CASE fuel.runs > 0 /\ fuel' = [fuel EXCEPT !.runs = @ - 1]
  BY <1>0, <1>3 DEF NoGlitch, Glitch
<1>4. CASE fuel.choices > 0 /\ fuel' = [fuel EXCEPT !.choices = @ - 1]
  BY <1>0, <1>4 DEF NoGlitch, Glitch
<1> QED BY <1>1, <1>2, <1>3, <1>4 DEF Spends

LEMMA MovedShape ==
  ASSUME InstallInv, NEW p \in Process, Moved(p), Rest', Spends
  PROVE  /\ InstallShape' /\ \A q \in Process : Fit(q, at[q], me[q])'
         /\ \A q \in Process \ {p} : at'[q] = at[q] /\ me'[q] = me[q]
<1>0. /\ at \in [Process -> Stations] /\ me \in [Process -> Own]
      /\ \A q \in Process : Fit(q, at[q], me[q])
  BY DEF InstallInv, InstallShape
<1>1. PICK l, r : MovesTo(p, l, r)
  BY DEF Moved
<1>2. /\ at' \in [Process -> Stations] /\ me' \in [Process -> Own]
      /\ at'[p] = l /\ me'[p] = r /\ \A q \in Process \ {p} : at'[q] = at[q] /\ me'[q] = me[q]
  BY <1>0, <1>1 DEF MovesTo
<1>3. \A q \in Process : Fit(q, at'[q], me'[q])
  BY <1>0, <1>1, <1>2 DEF MovesTo
<1>4. \A q \in Process : Fit(q, at[q], me[q])'
  BY <1>3 DEF Fit
<1>5. InstallShape'
  BY <1>2, FuelShrinks DEF InstallInv, InstallShape, Rest
<1> QED BY <1>2, <1>4, <1>5

LEMMA FollowsKept ==
  ASSUME InstallInv, NEW p \in Process, Moved(p), Rest', Spends, Follows(p)
  PROVE  DaemonFollows'
<1>1. \A q \in Process \ {p} : at'[q] = at[q]
  BY MovedShape
<1>2. ASSUME NoGlitch' PROVE NoGlitch /\ ~Glitch
  BY <1>2, FuelShrinks DEF InstallInv
<1>3. CASE at'[p] = "remove"
  BY <1>3 DEF DaemonFollows
<1>4. CASE svc'.bin = 0 /\ svc'.run = 0
  BY <1>4 DEF DaemonFollows
<1>5. CASE /\ at[p] # "remove" /\ exec'.bin = exec.bin
           /\ svc'.bin \in {0, svc.bin, exec.bin} /\ svc'.run \in {0, svc.run, svc.bin, exec.bin}
  BY <1>1, <1>2, <1>5 DEF InstallInv, DaemonFollows
<1>6. CASE Glitch
  BY <1>2, <1>6 DEF DaemonFollows
<1> QED BY <1>3, <1>4, <1>5, <1>6 DEF Follows

LEMMA CleansKept ==
  ASSUME InstallInv, NEW p \in Process, Moved(p), Rest', Spends, Cleans(p)
  PROVE  UninstallTrue'
<1>1. \A q \in Process \ {p} : at'[q] = at[q] /\ me'[q] = me[q]
  BY MovedShape
<1>2. CASE dirty'
  BY <1>2 DEF UninstallTrue
<1>3. CASE UNCHANGED <<dirty, told>> /\ Shrinks /\ at'[p] # "uninstall" /\ ~dirty
  <2>1. \A x \in Parts : Present(x)' => Present(x)
    BY <1>3, ShrinksParts DEF InstallInv, InstallShape, Rest
  <2>2. told' = "complete" => \A x \in Parts : ~Present(x)'
    BY <1>3, <2>1 DEF InstallInv, UninstallTrue
  <2>3. ASSUME at'[Menu] = "uninstall"
        PROVE  Removing(me[Menu])'
    <3>1. Menu \in Process /\ Menu # p
      BY <1>3, <2>3 DEF Process
    <3>2. me'[Menu] = me[Menu] /\ Removing(me[Menu])
      BY <1>1, <1>3, <2>3, <3>1 DEF InstallInv, UninstallTrue
    <3>3. me[Menu].step \in 1..6
      BY <1>1, <2>3, <3>1, Order DEF InstallInv, Fit
    <3>4. \A i \in 1..me[Menu].step - 1 : RemovalOrder[i] \in Parts
      BY <3>3, Order
    <3> QED BY <2>1, <3>2, <3>4 DEF Removing
  <2> QED BY <2>2, <2>3 DEF UninstallTrue
<1>4. CASE ~dirty' /\ dirty
  BY <1>2, <1>4 DEF Cleans
<1> QED BY <1>2, <1>3, <1>4 DEF Cleans

LEMMA InstallStep ==
  ASSUME InstallInv, InstallNext
  PROVE  InstallInv'
<1>1. ASSUME NEW b \in BOOLEAN, Publish(b)
      PROVE  InstallInv'
  <2>1. /\ UNCHANGED <<exec, svc, bar, panes, live, at, me, told, dirty, fuel>>
        /\ remote' = [remote EXCEPT ![b] = @ + 1] /\ remote[b] < MaxVersion
    BY <1>1 DEF Publish
  <2>2. remote' \in [BOOLEAN -> Versions]
    BY <2>1, InstallAssumption DEF InstallInv, InstallShape, Versions
  <2>3. InstallShape'
    BY <2>1, <2>2 DEF InstallInv, InstallShape
  <2>4. \A q \in Process : Fit(q, at[q], me[q])'
    BY <2>1 DEF InstallInv, Fit
  <2>5. DaemonFollows'
    BY <2>1 DEF InstallInv, DaemonFollows, NoGlitch
  <2>6. \A x \in Parts : Present(x)' = Present(x)
    BY <2>1 DEF Present
  <2>7. UninstallTrue'
    BY <2>1, <2>6 DEF InstallInv, UninstallTrue, Removing, Present
  <2> QED BY <2>3, <2>4, <2>5, <2>7 DEF InstallInv
<1>2. ASSUME NEW p \in Process, Moved(p), Rest', Spends, Follows(p), UninstallTrue'
      PROVE  InstallInv'
  BY <1>2, MovedShape, FollowsKept DEF InstallInv
<1>3. ASSUME NEW p \in Process, Fine(p)
      PROVE  InstallInv'
  BY <1>2, <1>3, CleansKept DEF Fine
<1>4. ASSUME NEW p \in Process, Survey(p)
      PROVE  InstallInv'
  <2>1. /\ Moved(p) /\ Rest' /\ Spends /\ Follows(p)
        /\ Cleans(p) \/ (p = Menu /\ told' = "none" /\ Removing(me[Menu])')
    BY <1>4, SurveyStep DEF InstallInv
  <2>2. CASE told' = "none" /\ Removing(me[Menu])'
    BY <1>2, <2>1, <2>2 DEF UninstallTrue
  <2> QED BY <1>3, <2>1, <2>2 DEF Fine
<1>5. ASSUME NEW p \in Process, Uninstall(p)
      PROVE  InstallInv'
  <2>1. /\ p = Menu /\ at[p] = "uninstall"
        /\ Moved(p) /\ Rest' /\ Spends /\ Follows(p) /\ Shrinks /\ dirty' = dirty
        /\ Removing(me[Menu]) =>
              \/ at'[Menu] = "uninstall" /\ told' = told /\ Removing(me[Menu])'
              \/ at'[Menu] = "menu" /\ (told' = "complete" => \A x \in Parts : ~Present(x)')
    BY <1>5, UninstallStep DEF InstallInv
  <2>2. \A x \in Parts : Present(x)' => Present(x)
    BY <2>1, ShrinksParts DEF InstallInv, InstallShape, Rest
  <2>3. UninstallTrue'
    BY <2>1, <2>2 DEF InstallInv, UninstallTrue
  <2> QED BY <1>2, <2>1, <2>3
<1> QED BY <1>1, <1>3, <1>4, <1>5, StartingSteps, UpdatingSteps, SwappingSteps, DeployingSteps, MenuSteps
        DEF InstallNext, InstallInv

LEMMA InstallStart ==
  ASSUME InstallInit
  PROVE  InstallInv
<1>1. 0 \in Versions /\ 1 \in Versions /\ 0 \in 0..ScriptSteps
  BY InstallAssumption DEF Versions, ScriptSteps
<1>2. Newborn("menu") \in Own /\ Newborn("menu").step = 0 /\ Newborn("menu").back = "off"
  BY <1>1 DEF InstallInit, Newborn, NoFile, Own, Files
<1>3. /\ at \in [Process -> Stations] /\ me \in [Process -> Own]
      /\ \A p \in Process : at[p] = "off" /\ me[p] = Newborn("menu")
  BY <1>2 DEF InstallInit, Stations
<1>4. fuel \in [runs : 0..MaxRuns, choices : 0..MaxChoices, glitches : 0..MaxGlitches]
  BY InstallAssumption DEF InstallInit
<1>5. InstallShape
  BY <1>1, <1>3, <1>4 DEF InstallInit, InstallShape, Files
<1>6. \A p \in Process : Fit(p, at[p], me[p])
  BY <1>2, <1>3 DEF Fit
<1>7. DaemonFollows
  BY DEF InstallInit, DaemonFollows
<1>8. UninstallTrue
  BY <1>3 DEF InstallInit, UninstallTrue, Process
<1> QED BY <1>5, <1>6, <1>7, <1>8 DEF InstallInv

-----------------------------------------------------------------------------
(***************************************************************************)
(* What the client promises                                                *)
(***************************************************************************)

\* Both halves keep their invariants, in every behaviour: whoever mounted the volume
\* unmounts it, whoever took the sensor gives it back, names stay apart, and an update, a
\* deployment and an uninstallation keep track of what they left.
THEOREM ClientCorrect == Spec => [](PrintsInv /\ InstallInv)
<1>1. Init => PrintsInv /\ InstallInv
  BY PrintsStart, InstallStart DEF Init
<1>2. PrintsInv /\ InstallInv /\ [Next]_vars => (PrintsInv /\ InstallInv)'
  <2> SUFFICES ASSUME PrintsInv, InstallInv, [Next]_vars
               PROVE  PrintsInv' /\ InstallInv'
    OBVIOUS
  <2>1. ASSUME UNCHANGED pvars PROVE PrintsInv'
    BY <2>1 DEF pvars, PrintsInv, PrintsShape, PrintsSound, Sound, SoundLoader, Taken, VolumeHeld,
                SensorHeld, IdentityTried, NoFault, Accepted
  <2>2. ASSUME UNCHANGED ivars PROVE InstallInv'
    <3>1. UNCHANGED <<remote, exec, svc, bar, panes, live, at, me, told, dirty, fuel>>
      BY <2>2 DEF ivars
    <3>2. \A x \in Parts : Present(x)' = Present(x)
      BY <3>1 DEF Present
    <3>3. UninstallTrue'
      BY <3>1, <3>2 DEF InstallInv, UninstallTrue, Removing, Present
    <3> QED BY <3>1, <3>3 DEF InstallInv, InstallShape, Fit, DaemonFollows, NoGlitch
  <2> QED BY <2>1, <2>2, PrintsStep, InstallStep DEF Next, vars
<1> QED BY <1>1, <1>2, PTL DEF Spec

\* Type correctness: whatever the menu, the pane, the loader, two updates and a person do,
\* every variable keeps its type and a process is in the middle of a script only while it
\* runs one.
THEOREM TypeCorrect == Spec => []TypeOK
<1>1. PrintsInv /\ InstallInv => TypeOK
  <2> SUFFICES ASSUME PrintsInv, InstallInv PROVE TypeOK
    OBVIOUS
  <2>1. DOMAIN vol.names \subseteq AllSlots /\ Range(vol.names) \subseteq Names
    BY NameFile DEF PrintsInv, PrintsShape, Volume
  <2>2. \A p \in Proc : DOMAIN mem[p].names \subseteq AllSlots /\ mem[p].labels \subseteq Names
    BY NameFile DEF PrintsInv, PrintsShape, Memory
  <2>3. \A p \in Process : /\ me[p].step \in 0..ScriptSteps /\ me[p].tree \in 0..MaxVersion
                           /\ me[p].step > 0 => at[p] \in {"script", "bar", "askpane", "uninstall", "off"}
    BY DEF InstallInv, InstallShape, Own, Fit, Versions
  <2> QED BY <2>1, <2>2, <2>3
          DEF TypeOK, PrintsInv, PrintsShape, Volume, AllSlots, InstallInv, InstallShape, Files, Versions
<1> QED BY <1>1, ClientCorrect, PTL

\* No two prints have the same name in the file of names, for any number of names and
\* slots, whichever of the menu and the pane wrote it last and whatever a failed write
\* left of it.
THEOREM NamesStayApart == Spec => []NamesUnique
<1>1. PrintsInv => NamesUnique
  BY DEF PrintsInv, PrintsSound, Unique, NamesUnique
<1> QED BY <1>1, ClientCorrect, PTL

\* Every mount that succeeded is followed by an unmount, every yield is ended and every
\* refused identity is removed, by every path through every operation of the menu, of the
\* pane and of the daemon's loader, as long as nothing failed.
THEOREM NothingStays == Spec => []NothingLeftBehind
<1>1. PrintsInv => NothingLeftBehind
  <2> SUFFICES ASSUME PrintsInv, NoFault PROVE NothingLeftBehind
    BY DEF NothingLeftBehind
  <2>1. Quiet /\ pc[Loader] = "idle" => \A p \in Proc : pc[p] \notin Holding
    BY DEF Quiet, Proc, Holding, Using
  <2>2. Quiet => \A p \in Client : pc[p] \in Idle
    BY DEF Quiet, Idle
  <2> QED BY <2>1, <2>2 DEF PrintsInv, VolumeHeld, SensorHeld, IdentityTried, NothingLeftBehind
<1> QED BY <1>1, ClientCorrect, PTL

\* As long as no command fails, a daemon of another version than the client's has its
\* removal ahead, also when the menu and a Terminal run update and deploy at the same time.
THEOREM DaemonFollowsClient == Spec => []DaemonMatchesClient
<1>1. InstallInv => DaemonMatchesClient
  BY DEF InstallInv, DaemonFollows, DaemonMatchesClient
<1> QED BY <1>1, ClientCorrect, PTL

\* "Uninstall complete." is true whatever fails on the way and whatever another process
\* does meanwhile short of deploying.
THEOREM UninstallTellsTruth == Spec => []UninstallComplete
<1>1. InstallInv => UninstallComplete
  BY DEF InstallInv, UninstallTrue, UninstallComplete
<1> QED BY <1>1, ClientCorrect, PTL
=============================================================================
