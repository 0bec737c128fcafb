---------------------------- MODULE ClientPrints ----------------------------
(***************************************************************************)
(* What the configuration client does with fingers, names, the password    *)
(* and the sensor (hack_touchid_client.c): the interactive menu, and the   *)
(* headless calls the preference pane makes of the same program, running   *)
(* at the same time and sharing the encrypted volume with the daemon's     *)
(* loader.  Nothing counts the users of the volume: whoever unmounts it    *)
(* takes it from everybody.                                                *)
(***************************************************************************)
EXTENDS Naturals, FiniteSets, Functions

CONSTANTS
    Names,          \* labels of finger files, and names of prints on the sensor
    Slots,          \* finger numbers the client gives to prints (1..10)
    Foreign,        \* slots of prints made by another operating system (245..254)
    MaxFingers,     \* MAX_ENROLLED_FINGERS
    MaxOps,         \* operations that start
    MaxFaults       \* scripts, sessions and writes that may fail, and processes killed

ASSUME PrintsAssumption ==
    /\ Slots \cap Foreign = {} /\ Slots \cup Foreign \subseteq Nat \ {0}
    /\ IsFiniteSet(Names) /\ Names # {}
    /\ MaxFingers \in Nat \ {0} /\ MaxOps \in Nat /\ MaxFaults \in Nat

VARIABLES
    kit,        \* the machine: kind of sensor, whether several systems share the volume's
                \* container, whether the sensor is paired under another host identity
    vol,        \* the encrypted volume
    chip,       \* slots of the prints on a Metallica sensor
    conf,       \* the saved host identity: "none", "real" or "wrong"
    yielding,   \* a daemon has been asked to keep off the sensor
    pc,         \* where each process is
    op,         \* the operation it performs
    mem,        \* its own variables
    left        \* budgets: operations, faults

pvars == <<kit, vol, chip, conf, yielding, pc, op, mem, left>>

Cli == "cli"        \* the menu
Pane == "pane"      \* a headless call: a new process every time
Loader == "loader"  \* the daemon reading templates and password
Client == {Cli, Pane}
Proc == Client \cup {Loader}

NoNames == [s \in {} |-> "none"]

\* A process's variables when it starts: nothing cached (g_finger_count is -1), no question asked, the saved
\* host identity loaded.
Fresh(c) ==
    [known |-> FALSE, labels |-> {}, loaded |-> FALSE, names |-> NoNames,
     asked |-> FALSE, declined |-> FALSE, ident |-> (IF c = "none" THEN "own" ELSE c),
     yielded |-> FALSE, label |-> "none", slot |-> 0, replace |-> FALSE, seen |-> {},
     ret |-> "idle", err |-> "idle"]

\* What the sensor accepts: the identity it was paired under.
Accepted == IF kit.foreign THEN "real" ELSE "own"

PrintsInit ==
    /\ kit \in [sensor : {"files", "metallica"}, shared : BOOLEAN, foreign : BOOLEAN]
    /\ vol = [configured |-> FALSE, mounted |-> FALSE, files |-> {}, names |-> NoNames, pw |-> FALSE]
    /\ chip \in {{}} \cup {{f} : f \in Foreign}
    /\ conf = "none" /\ yielding = FALSE
    /\ pc = [p \in Proc |-> IF p = Cli THEN "off" ELSE "idle"] /\ op = [p \in Proc |-> "none"]
    /\ mem = [p \in Proc |-> Fresh("none")]
    /\ left = [ops |-> MaxOps, faults |-> MaxFaults]

Goto(p, l) == pc' = [pc EXCEPT ![p] = l]
Set(p, m) == mem' = [mem EXCEPT ![p] = m]
Fault == left.faults > 0 /\ left' = [left EXCEPT !.faults = @ - 1]

(***************************************************************************)
(* The volume                                                              *)
(***************************************************************************)

\* mount_template_volume(): before the first mount of a process, and only then, the
\* person is asked whether a store several systems share may be used.  The script then
\* mounts the volume or finds it mounted; the callers go on at ret or err.
Mount(p) ==
    /\ pc[p] = "mount"
    /\ LET m == mem[p]
           ask == p # Loader /\ ~m.asked /\ vol.configured /\ kit.shared
       IN \/ /\ ask /\ Set(p, [m EXCEPT !.asked = TRUE, !.declined = TRUE])
             /\ Goto(p, m.err) /\ UNCHANGED <<vol, left>>
          \/ /\ vol.configured /\ vol' = [vol EXCEPT !.mounted = TRUE]
             /\ Set(p, [m EXCEPT !.asked = TRUE]) /\ Goto(p, m.ret) /\ UNCHANGED left
          \/ /\ \/ ~vol.configured /\ UNCHANGED left
                \/ vol.configured /\ Fault
             /\ Set(p, [m EXCEPT !.asked = TRUE]) /\ Goto(p, m.err) /\ UNCHANGED vol
    /\ UNCHANGED <<kit, chip, conf, yielding, op>>

\* unmount_template_volume(): the script unmounts whoever mounted; a failure is only
\* reported.
Unmount(p) ==
    /\ pc[p] = "unmount"
    /\ \/ vol' = [vol EXCEPT !.mounted = FALSE] /\ UNCHANGED left
       \/ vol.mounted /\ Fault /\ UNCHANGED vol
    /\ Goto(p, mem[p].ret)
    /\ UNCHANGED <<kit, chip, conf, yielding, op, mem>>

\* Calling the two: m is the process's new memory.
CallMount(p, m, ret, err) == Goto(p, "mount") /\ Set(p, [m EXCEPT !.ret = ret, !.err = err])
CallUnmount(p, m, ret) == Goto(p, "unmount") /\ Set(p, [m EXCEPT !.ret = ret])

\* do_run_volume_setup(): the script creates the volume, empty.
SetupVolume(p) ==
    /\ pc[p] = "setup"
    /\ \/ /\ ~vol.configured /\ vol' = [vol EXCEPT !.configured = TRUE]
          /\ Goto(p, mem[p].ret) /\ UNCHANGED left
       \/ Fault /\ Goto(p, "end") /\ UNCHANGED vol
    /\ UNCHANGED <<kit, chip, conf, yielding, op, mem>>

\* list_enrolled_fingers() on a volume someone else has just unmounted finds nothing.
Listed == IF vol.mounted THEN vol.files ELSE {}

(***************************************************************************)
(* Starting and ending                                                     *)
(***************************************************************************)

CliOps ==
    IF kit.sensor = "files"
    THEN {"enroll", "verify", "delete", "setpw", "clearpw", "setup", "deploy", "capture"}
    ELSE {"enroll", "verify", "rename", "setpw", "clearpw", "setup", "deploy", "calibrate"}
PaneOps ==
    IF kit.sensor = "files" THEN {"rename", "delete", "list"} ELSE {"rename", "list", "wipe"}

\* Operations for which main() asks the daemon to yield.
YieldOps ==
    {"enroll", "verify", "capture"} \cup (IF kit.sensor = "metallica" THEN {"rename", "list"} ELSE {})

\* The first step of an operation.
Entry(p, o, m) ==
    \/ o \in {"setpw", "clearpw"} /\ CallMount(p, m, o, "end")
    \/ /\ o = "setup" /\ Set(p, [m EXCEPT !.ret = "end"])
       /\ Goto(p, IF vol.configured THEN "end" ELSE "setup")
    \/ /\ o = "deploy" /\ Set(p, [m EXCEPT !.ret = "deploy"])
       /\ Goto(p, IF vol.configured THEN "deploy" ELSE "setup")
    \/ /\ kit.sensor = "metallica" /\ o \notin {"setpw", "clearpw", "setup", "deploy"}
       /\ Goto(p, "session") /\ Set(p, m)
    \/ /\ kit.sensor = "files"
       /\ \/ o = "delete" /\ p = Cli /\ CallMount(p, m, "list", "chosen")
          \/ o \in {"rename", "delete", "list"} /\ p = Pane /\ CallMount(p, m, "file", "end")
          \/ o = "enroll" /\ ~vol.configured /\ Goto(p, "setup") /\ Set(p, [m EXCEPT !.ret = "enroll"])
          \/ o = "enroll" /\ vol.configured /\ Goto(p, "enroll") /\ Set(p, m)
          \/ o \in {"verify", "capture"} /\ Goto(p, o) /\ Set(p, m)

\* The person picks a menu entry, or the pane runs the client; sensor_yield_begin()
\* comes first where main() says so.
Begin(p, o) ==
    /\ pc[p] = "idle" /\ left.ops > 0 /\ p \in Client
    /\ o \in (IF p = Cli THEN CliOps ELSE PaneOps)
    /\ left' = [left EXCEPT !.ops = @ - 1]
    /\ op' = [op EXCEPT ![p] = o]
    /\ LET m == IF p = Pane THEN Fresh(conf) ELSE mem[p]
           y == o \in YieldOps
       IN /\ Entry(p, o, [m EXCEPT !.yielded = y])
          /\ yielding' = (yielding \/ y)
    /\ UNCHANGED <<kit, vol, chip, conf>>

\* sensor_yield_end(): the daemon may have the sensor back.
YieldEnd(p) == IF mem[p].yielded THEN FALSE ELSE yielding

\* The operation returns to the menu, or the headless process ends.
End(p) ==
    /\ pc[p] = "end" /\ p \in Client
    /\ yielding' = YieldEnd(p)
    /\ Goto(p, "idle") /\ op' = [op EXCEPT ![p] = "none"]
    /\ Set(p, [mem[p] EXCEPT !.yielded = FALSE, !.label = "none", !.slot = 0, !.replace = FALSE,
                             !.seen = {}, !.ret = "idle", !.err = "idle"])
    /\ UNCHANGED <<kit, vol, chip, conf, left>>

\* A process is killed: nothing of it is cleaned up.
Killed(p) ==
    /\ p \in Client /\ pc[p] \notin {"idle", "off"} /\ Fault
    /\ Goto(p, IF p = Cli THEN "off" ELSE "idle")
    /\ op' = [op EXCEPT ![p] = "none"] /\ Set(p, Fresh("none"))
    /\ UNCHANGED <<kit, vol, chip, conf, yielding>>

\* The client starts: it loads the saved identity and, where fingers are files, lists
\* them once.
StartClient ==
    /\ pc[Cli] = "off" /\ op' = [op EXCEPT ![Cli] = "start"]
    /\ IF kit.sensor = "files" THEN CallMount(Cli, Fresh(conf), "list", "end")
       ELSE Goto(Cli, "end") /\ Set(Cli, Fresh(conf))
    /\ UNCHANGED <<kit, vol, chip, conf, yielding, left>>

\* The person quits; the daemon drops a yield nobody ended after its timeout.
Quit ==
    /\ pc[Cli] = "idle" /\ left.ops > 0 /\ Goto(Cli, "off") /\ Set(Cli, Fresh("none"))
    /\ UNCHANGED <<kit, vol, chip, conf, yielding, op, left>>
YieldExpires ==
    /\ yielding /\ left.faults < MaxFaults /\ \A p \in Client : ~mem[p].yielded
    /\ yielding' = FALSE /\ UNCHANGED <<kit, vol, chip, conf, pc, op, mem, left>>

(***************************************************************************)
(* Fingers as files (VFS5011, UPEK)                                        *)
(***************************************************************************)

\* do_enroll(): a stale cache is refreshed first.
Enroll(p) ==
    /\ pc[p] = "enroll"
    /\ IF ~mem[p].known THEN CallMount(p, mem[p], "list", "chosen")
       ELSE Goto(p, "chosen") /\ UNCHANGED mem
    /\ UNCHANGED <<kit, vol, chip, conf, yielding, op, left>>

\* refresh_finger_cache().
RefreshCache(p) ==
    /\ pc[p] = "list"
    /\ CallUnmount(p, [mem[p] EXCEPT !.known = TRUE, !.labels = Listed], IF op[p] = "start" THEN "end" ELSE "chosen")
    /\ UNCHANGED <<kit, vol, chip, conf, yielding, op, left>>

\* The person names the finger: an existing label wants a confirmation, a new one room;
\* to delete, the finger must be in the list.  They may also give up.
ChooseLabel(p) ==
    /\ pc[p] = "chosen"
    /\ LET m == mem[p]
           known == IF m.known THEN m.labels ELSE {}
       IN \/ Goto(p, "end") /\ UNCHANGED mem
          \/ \E l \in Names :
                /\ IF op[p] = "enroll"
                   THEN /\ l \in known \/ Cardinality(known) < MaxFingers
                        /\ Goto(p, "swipe") /\ Set(p, [m EXCEPT !.label = l])
                   ELSE /\ l \in known
                        /\ CallMount(p, [m EXCEPT !.label = l], "save", "end")
    /\ UNCHANGED <<kit, vol, chip, conf, yielding, op, left>>

\* The swipes, with the volume unmounted; without a usable one nothing is saved.
CaptureSwipes(p) ==
    /\ pc[p] = "swipe"
    /\ \/ CallMount(p, mem[p], "save", "end")
       \/ Goto(p, "end") /\ UNCHANGED mem
    /\ UNCHANGED <<kit, vol, chip, conf, yielding, op, left>>

\* vfs5011_save_templates() or remove(): both fail when the volume has gone.  A failed
\* save leaves the cache as it is; otherwise the next use lists again.
SaveOrRemove(p) ==
    /\ pc[p] = "save"
    /\ LET m == mem[p]
       IN IF op[p] = "enroll"
          THEN \/ /\ vol.mounted /\ vol' = [vol EXCEPT !.files = @ \cup {m.label}]
                  /\ CallUnmount(p, [m EXCEPT !.known = FALSE], "end") /\ UNCHANGED left
               \/ /\ CallUnmount(p, m, "end") /\ UNCHANGED vol
                  /\ IF vol.mounted THEN Fault ELSE UNCHANGED left
          ELSE /\ vol' = IF vol.mounted THEN [vol EXCEPT !.files = @ \ {m.label}] ELSE vol
               /\ CallUnmount(p, [m EXCEPT !.known = FALSE], "end") /\ UNCHANGED left
    /\ UNCHANGED <<kit, chip, conf, yielding, op>>

\* verify_once(): capture, then mount and score; it also sets the cache.
Verify(p) ==
    /\ pc[p] = "verify"
    /\ \/ CallMount(p, mem[p], "score", "end")
       \/ Goto(p, "end") /\ UNCHANGED mem
    /\ UNCHANGED <<kit, vol, chip, conf, yielding, op, left>>
Score(p) ==
    /\ pc[p] = "score" /\ CallUnmount(p, [mem[p] EXCEPT !.known = TRUE, !.labels = Listed], "end")
    /\ UNCHANGED <<kit, vol, chip, conf, yielding, op, left>>

\* do_view_fingerprint(), do_sensor_test(): only the sensor.
CaptureOnly(p) ==
    /\ pc[p] = "capture" /\ Goto(p, "end")
    /\ UNCHANGED <<kit, vol, chip, conf, yielding, op, mem, left>>

\* ht_collect_files(), ht_rename_files(), ht_delete_files(): the pane's calls look at the
\* volume itself; a rename to a label in use is refused.
HeadlessFile(p) ==
    /\ pc[p] = "file"
    /\ \/ op[p] = "list" /\ UNCHANGED vol
       \/ op[p] = "delete" /\ \E l \in Names :
             vol' = IF vol.mounted THEN [vol EXCEPT !.files = @ \ {l}] ELSE vol
       \/ op[p] = "rename" /\ \E a, b \in Names :
             vol' = IF vol.mounted /\ a \in vol.files /\ b \notin vol.files
                    THEN [vol EXCEPT !.files = (@ \ {a}) \cup {b}] ELSE vol
    /\ CallUnmount(p, mem[p], "end")
    /\ UNCHANGED <<kit, chip, conf, yielding, op, left>>

(***************************************************************************)
(* The password                                                            *)
(***************************************************************************)

\* Mutant: declining to clear the password leaves the volume mounted.
ClearReturns_Early(p) == Goto(p, "end") /\ UNCHANGED mem

\* do_settings_clear_password_cache() gives up: no password, or no confirmation.
ClearReturns(p) == CallUnmount(p, mem[p], "end")

ClearPassword(p) ==
    /\ pc[p] = "clearpw"
    /\ \/ ClearReturns(p) /\ UNCHANGED vol
       \/ vol.mounted /\ vol.pw /\ vol' = [vol EXCEPT !.pw = FALSE] /\ CallUnmount(p, mem[p], "end")
    /\ UNCHANGED <<kit, chip, conf, yielding, op, left>>

\* prompt_and_store_password(): read twice without echo; nothing is written unless the
\* two agree and the file can be opened.
SetPassword(p) ==
    /\ pc[p] = "setpw"
    /\ \/ vol.mounted /\ ~(op[p] = "deploy" /\ vol.pw) /\ vol' = [vol EXCEPT !.pw = TRUE]
       \/ UNCHANGED vol
    /\ CallUnmount(p, mem[p], "end")
    /\ UNCHANGED <<kit, chip, conf, yielding, op, left>>

\* do_deploy(), as far as the volume goes: where no password is stored yet it asks for one.
DeployPassword(p) ==
    /\ pc[p] = "deploy" /\ CallMount(p, mem[p], "setpw", "end")
    /\ UNCHANGED <<kit, vol, chip, conf, yielding, op, left>>

(***************************************************************************)
(* A Metallica session and the host identity                               *)
(***************************************************************************)

\* Where an operation goes once its session has listed the prints.
AfterSession(p) ==
    CASE op[p] \in {"enroll", "rename", "list"} -> "names"
      [] op[p] = "wipe" -> "wipe"
      [] OTHER -> "end"

\* mmis_run_with_host_identity(): the action is tried (again after a refused handshake,
\* and up to three times by the headless modes); an identity the sensor refuses is asked
\* for in the menu and reported by the headless modes.
Session(p) ==
    /\ pc[p] = "session"
    /\ LET good == mem[p].ident = Accepted
       IN \/ /\ good /\ Goto(p, AfterSession(p))
             /\ Set(p, [mem[p] EXCEPT !.seen = chip]) /\ UNCHANGED left
          \/ ~good /\ Goto(p, IF p = Cli THEN "identity" ELSE "end") /\ UNCHANGED <<mem, left>>
          \/ Fault /\ Goto(p, "end") /\ UNCHANGED mem
    /\ UNCHANGED <<kit, vol, chip, conf, yielding, op>>

\* mmis_host_identity_prompt(): what the person types is saved before it is tried.
AskIdentity(p) ==
    /\ pc[p] = "identity"
    /\ \/ Goto(p, "end") /\ UNCHANGED <<conf, mem>>
       \/ \E v \in {"real", "wrong"} :
             conf' = v /\ Set(p, [mem[p] EXCEPT !.ident = v]) /\ Goto(p, "again")
    /\ UNCHANGED <<kit, vol, chip, yielding, op, left>>

\* The file is removed when the identity in it was refused.
AfterRefusal == "none"

\* The action once more with that identity.
SessionAgain(p) ==
    /\ pc[p] = "again"
    /\ LET good == mem[p].ident = Accepted
       IN \/ good /\ Goto(p, AfterSession(p)) /\ Set(p, [mem[p] EXCEPT !.seen = chip]) /\ UNCHANGED <<conf, left>>
          \/ ~good /\ conf' = AfterRefusal /\ Goto(p, "end") /\ UNCHANGED <<mem, left>>
          \/ Fault /\ Goto(p, "end") /\ UNCHANGED <<conf, mem>>
    /\ UNCHANGED <<kit, vol, chip, yielding, op>>

\* --wipe-records, confirmed.
WipeRecords(p) ==
    /\ pc[p] = "wipe" /\ Goto(p, "end")
    /\ \/ chip' = {} /\ UNCHANGED left
       \/ Fault /\ UNCHANGED chip
    /\ UNCHANGED <<kit, vol, conf, yielding, op, mem>>

(***************************************************************************)
(* Names of prints on the sensor                                           *)
(***************************************************************************)

\* mmis_alias_ensure_loaded(): once per process.
EnsureNames(p) ==
    /\ pc[p] = "names"
    /\ IF mem[p].loaded \/ ~vol.configured THEN Goto(p, "ask") /\ UNCHANGED mem
       ELSE CallMount(p, mem[p], "read", "ask")
    /\ UNCHANGED <<kit, vol, chip, conf, yielding, op, left>>

\* mmis_alias_read() keeps only the client's own slots; a file that cannot be opened is
\* an empty one.
ReadNames(p) ==
    /\ pc[p] = "read"
    /\ CallUnmount(p, [mem[p] EXCEPT !.loaded = TRUE,
                          !.names = IF vol.mounted
                                    THEN Restrict(vol.names, DOMAIN vol.names \cap Slots) ELSE NoNames],
                   "ask")
    /\ UNCHANGED <<kit, vol, chip, conf, yielding, op, left>>

\* mmis_alias_taken(): another listed print has the name.
Taken(m, kept, except, nm) ==
    \E s \in (kept \cap DOMAIN m.names) \ {except} : m.names[s] = nm

\* The names after mmis_alias_prune() to the slots kept and mmis_alias_set().
WithName(m, kept, slot, nm) ==
    [s \in (DOMAIN m.names \cap kept) \cup {slot} |-> IF s = slot THEN nm ELSE m.names[s]]

\* Mutant: names of slots that are gone are not dropped.
PrunedTo_All(m, kept) == DOMAIN m.names

\* Which names are kept: those of prints on the sensor.
PrunedTo(m, kept) == kept

\* mmis_prints_prompt(): cancel, add under the first free slot, or replace everything;
\* with names, one that no other kept print has.  A print made without names keeps
\* whatever name its slot has on the volume.  Without a volume the person picks the
\* finger's number and old prints can only be replaced (mmis_choose_finger(),
\* mmis_replace_prompt()).
AskEnroll(p) ==
    /\ pc[p] = "ask" /\ op[p] = "enroll"
    /\ LET m == mem[p]
       IN \/ Goto(p, "end") /\ UNCHANGED mem
          \/ \E replace \in BOOLEAN, s \in Slots :
                LET kept == IF replace THEN {} ELSE m.seen
                    new == [m EXCEPT !.slot = s, !.seen = kept, !.replace = replace, !.label = "none"]
                IN /\ IF vol.configured
                      THEN /\ replace => m.seen # {}
                           /\ s \notin kept /\ \A t \in Slots : t < s => t \in kept
                      ELSE replace = (m.seen # {})
                   /\ \/ /\ m.loaded
                         /\ \E nm \in Names : ~Taken(m, kept, 0, nm) /\ Set(p, [new EXCEPT !.label = nm])
                      \/ ~m.loaded /\ Set(p, new)
                   /\ Goto(p, "touches")
    /\ UNCHANGED <<kit, vol, chip, conf, yielding, op, left>>

\* metallica_mis_do_enroll_guided() (see MetallicaPrints): a replacement removes the old
\* prints first, and may then fail.
EnrollOnSensor(p) ==
    /\ pc[p] = "touches"
    /\ LET m == mem[p]
           base == IF m.replace THEN {} ELSE chip
       IN \/ /\ chip' = base \cup {m.slot} /\ UNCHANGED left
             /\ IF m.label = "none" THEN Goto(p, "end") /\ UNCHANGED mem
                ELSE CallMount(p, [m EXCEPT !.names = WithName(m, PrunedTo(m, m.seen), m.slot, m.label)],
                               "write", "end")
          \/ Fault /\ chip' \in {chip, base} /\ Goto(p, "end") /\ UNCHANGED mem
    /\ UNCHANGED <<kit, vol, conf, yielding, op>>

\* do_rename_metallica() and ht_rename_metallica(): the menu lets the person pick any
\* listed print, the pane only one of the client's own.
AskRename(p) ==
    /\ pc[p] = "ask" /\ op[p] \in {"rename", "list"}
    /\ LET m == mem[p]
       IN \/ Goto(p, "end") /\ UNCHANGED mem
          \/ /\ m.loaded /\ op[p] = "rename"
             /\ \E s \in m.seen \cap (IF p = Cli THEN Slots \cup Foreign ELSE Slots), nm \in Names :
                   /\ ~Taken(m, m.seen, s, nm)
                   /\ CallMount(p, [m EXCEPT !.names = WithName(m, PrunedTo(m, m.seen), s, nm)],
                                "write", "end")
    /\ UNCHANGED <<kit, vol, chip, conf, yielding, op, left>>

\* mmis_alias_write(): the whole file from the process's own names; a write that fails
\* may leave part of it.
WriteNames(p) ==
    /\ pc[p] = "write"
    /\ LET nm == mem[p].names
       IN \/ vol.mounted /\ vol' = [vol EXCEPT !.names = nm] /\ UNCHANGED left
          \/ vol.mounted /\ Fault /\ \E s \in SUBSET DOMAIN nm : vol' = [vol EXCEPT !.names = Restrict(nm, s)]
          \/ ~vol.mounted /\ UNCHANGED <<vol, left>>
    /\ CallUnmount(p, mem[p], "end")
    /\ UNCHANGED <<kit, chip, conf, yielding, op>>

(***************************************************************************)
(* The daemon's loader and the system                                      *)
(***************************************************************************)

\* A load mounts, reads and unmounts (see Daemon).
LoaderStarts ==
    /\ pc[Loader] = "idle" /\ left.ops > 0
    /\ left' = [left EXCEPT !.ops = @ - 1]
    /\ CallMount(Loader, mem[Loader], "read", "idle")
    /\ UNCHANGED <<kit, vol, chip, conf, yielding, op>>
LoaderReads ==
    /\ pc[Loader] = "read" /\ CallUnmount(Loader, mem[Loader], "idle")
    /\ UNCHANGED <<kit, vol, chip, conf, yielding, op, left>>

Step(p) ==
    \/ Mount(p) \/ Unmount(p) \/ SetupVolume(p) \/ End(p)
    \/ Enroll(p) \/ RefreshCache(p) \/ ChooseLabel(p) \/ CaptureSwipes(p) \/ SaveOrRemove(p)
    \/ Verify(p) \/ Score(p) \/ CaptureOnly(p) \/ HeadlessFile(p)
    \/ ClearPassword(p) \/ SetPassword(p) \/ DeployPassword(p)
    \/ Session(p) \/ AskIdentity(p) \/ SessionAgain(p) \/ WipeRecords(p)
    \/ EnsureNames(p) \/ ReadNames(p) \/ AskEnroll(p) \/ EnrollOnSensor(p) \/ AskRename(p) \/ WriteNames(p)

PrintsNext ==
    \/ \E p \in Client : Step(p) \/ Killed(p) \/ \E o \in CliOps \cup PaneOps : Begin(p, o)
    \/ Mount(Loader) \/ Unmount(Loader) \/ LoaderStarts \/ LoaderReads
    \/ StartClient \/ Quit \/ YieldExpires
=============================================================================
