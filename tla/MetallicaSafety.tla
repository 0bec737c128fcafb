-------------------------- MODULE MetallicaSafety --------------------------
(***************************************************************************)
(* What the Metallica operations promise, however often a command is lost, *)
(* the process dies or the sensor is unplugged in between.                 *)
(***************************************************************************)
EXTENDS MetallicaPrints

Store == INSTANCE PrintStore
    WITH owner <- flash.cert, prints <- db.prints, Owners <- Idents, NoOwner <- Blank

\* The chip's prints always belong to the pairing whose identity the chip holds: no
\* interruption of init_flash() leaves an older pairing's prints under a new identity,
\* and no record is added under an identity that is not the chip's.
PrintsFollowPairing == Store!Spec

\* Every variable keeps its type.
TypeOK ==
    /\ flash \in [parts : BOOLEAN, cert : Idents \cup {Blank},
                  fw : {"none", "body", "loaded"}, slate : BOOLEAN]
    /\ db.storage \in BOOLEAN /\ db.users \subseteq Users /\ db.prints \subseteq Store!StoredPrint
    /\ wire \in {"plain", "tls"} /\ armed \in BOOLEAN
    /\ fwfile \in {"absent", "partial", "good"} /\ hnd \in {"none", "live", "dead"}
    /\ mode \in PairModes \cup SessionModes /\ host \in Hosts
    /\ sec \in BOOLEAN /\ ident \in Idents \cup {Empty}
    /\ n \in Nat /\ m \in Nat /\ rc \in Codes
    /\ last \in [mode : {"none"} \cup PairModes \cup SessionModes, rc : Codes]
    /\ faults \in 0..MaxFaults /\ runs \in 0..MaxRuns /\ gen \in 0..MaxRuns
    /\ todo \subseteq Users /\ cap \in Caps /\ calibrated \in BOOLEAN

\* An operation that reports success has done what it reports, and the chip still shows
\* it: an enrolment's print is stored under this pairing (and is the only one after a
\* replacement), a wipe left no record, a verification matched a stored print, and a
\* pairing left a chip with its firmware loaded, under a new identity when it was forced.
ResultsAreTrue ==
    (last.rc = "ok" /\ pc = "menu") =>
        CASE last.mode = "enroll" ->
                \E p \in db.prints : p.user = HtidUser /\ p.owner = flash.cert
          [] last.mode = "replace" -> 
                /\ db.users = {HtidUser} /\ Cardinality(db.prints) = 1
          [] last.mode = "wipe" -> db.users = {} /\ db.prints = {}
          [] last.mode = "verify" -> db.prints # {}
          [] last.mode = "pair" -> flash.fw = "loaded"
          [] last.mode = "force" -> flash.fw = "loaded" /\ flash.cert = [host |-> host, gen |-> gen]
          [] OTHER -> TRUE

\* While nothing has failed, the chip waits for a finger only during a capture:
\* capture_mode() sends its stop command on every path out, the agent's abort and the
\* timeout included.
CaptureStopped == (faults = MaxFaults /\ armed) => pc \in CapturePcs

\* A session's own identity is the one on the chip, so what is read, stored or matched in
\* it is of the pairing in force: sec is set only by a handshake with this chip's pairing,
\* and between the erasure of partition 1 and its rewriting no record is touched.
SessionIsOurs ==
    (sec /\ pc \in {"delete", "record", "commit", "match"}) =>
        flash.cert = ident /\ ident.host = host

\* Every operation ends, whatever is lost: busy answers, resets of a stuck session,
\* partition attempts and capture attempts are all bounded.  (An open agent session waits
\* for the agent.)
Terminates == (pc \notin {"menu", "ready"}) ~> (pc \in {"menu", "ready"})

\* A forced pairing is a way out of every state of the chip an interrupted operation can
\* leave: if nothing fails any more, it ends with this host's identity and the firmware
\* loaded (unless a partial firmware file is in the way).
ForceRecovers ==
    (mode = "force" /\ pc = "open" /\ faults = 0 /\ hnd # "dead" /\ fwfile # "partial")
        ~> (last = [mode |-> "force", rc |-> "ok"] /\ flash.cert.host = host)
=============================================================================
