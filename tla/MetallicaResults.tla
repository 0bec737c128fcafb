-------------------------- MODULE MetallicaResults --------------------------
(***************************************************************************)
(* What a Metallica operation reports is what the chip shows, and every    *)
(* variable keeps its type, for every number of hosts, fingers, runs,      *)
(* retries and faults.                                                     *)
(***************************************************************************)
EXTENDS MetallicaProofs, FiniteSetTheorems

-----------------------------------------------------------------------------
\* The types the storage argument does not need.
Types ==
    /\ wire \in {"plain", "tls"} /\ armed \in BOOLEAN
    /\ fwfile \in {"absent", "partial", "good"} /\ hnd \in {"none", "live", "dead"}
    /\ mode \in PairModes \cup SessionModes /\ sec \in BOOLEAN
    /\ m \in Nat /\ rc \in Codes
    /\ last \in [mode : {"none"} \cup PairModes \cup SessionModes, rc : Codes]
    /\ cap \in Caps /\ calibrated \in BOOLEAN

LEMMA TypesInit == MInit => Types
<1> SUFFICES ASSUME MInit PROVE Types
  OBVIOUS
<1>1. mode = "list" /\ rc = "ok" /\ last = [mode |-> "none", rc |-> "ok"]
  BY DEF MInit, Init
<1>2. mode \in SessionModes /\ rc \in Codes
      /\ last \in [mode : {"none"} \cup PairModes \cup SessionModes, rc : Codes]
  BY <1>1 DEF SessionModes, Codes
<1> QED BY <1>2 DEF MInit, Init, Types, Caps

LEMMA TypesOutside ==
  ASSUME Types, OpenDevice \/ CloseDevice \/ RomInfo \/ Cmd19 \/ FwInfo \/ InitHardcoded
                \/ CleanSlateBlob \/ GetFlashInfo \/ ResetBlob \/ PartitionFlash \/ ReadEcdh
                \/ TlsOpen \/ EraseFlash \/ WriteTlsFlash, UNCHANGED pvars
  PROVE  Types'
<1> USE DEF Types, chip, sess, loop, budget, pvars, Send, SendOr, Fail, Codes
<1>1. CASE OpenDevice
  BY <1>1 DEF OpenDevice
<1>2. CASE CloseDevice
  BY <1>2 DEF CloseDevice
<1>3. CASE RomInfo
  <2>1. rc' \in {rc, "fail"} /\ m' \in {0, m, m + 1}
    BY <1>3 DEF RomInfo
  <2>2. wire' \in {wire, "plain", "tls"} /\ hnd' \in {hnd, "live", "none"} /\ armed' \in BOOLEAN
    BY <1>3 DEF RomInfo
  <2>3. UNCHANGED <<fwfile, mode, sec, last>>
    BY <1>3 DEF RomInfo
  <2> QED BY <2>1, <2>2, <2>3
<1>4. CASE Cmd19 \/ FwInfo \/ InitHardcoded \/ CleanSlateBlob
  BY <1>4 DEF Cmd19, FwInfo, InitHardcoded, CleanSlateBlob
<1>5. CASE GetFlashInfo \/ ResetBlob \/ ReadEcdh
  <2>1. rc' \in {rc, "fail"} /\ m' \in {0, m} /\ sec' \in BOOLEAN
    BY <1>5 DEF GetFlashInfo, ResetBlob, ReadEcdh
  <2>2. UNCHANGED <<wire, hnd, armed, fwfile, mode, last>>
    BY <1>5 DEF GetFlashInfo, ResetBlob, ReadEcdh
  <2> QED BY <2>1, <2>2
<1>6. CASE PartitionFlash
  BY <1>6 DEF PartitionFlash
<1>7. CASE TlsOpen
  <2>1. rc' \in {rc, "fail", "handshake"} /\ sec' \in BOOLEAN
    BY <1>7 DEF TlsOpen
  <2>2. wire' \in {wire, "tls"} /\ hnd' \in {hnd, "none"}
        /\ last' \in {last, [mode |-> "none", rc |-> "ok"]}
    BY <1>7 DEF TlsOpen
  <2>3. UNCHANGED <<armed, fwfile, mode, m>>
    BY <1>7 DEF TlsOpen
  <2> QED BY <2>1, <2>2, <2>3
<1>8. CASE EraseFlash \/ WriteTlsFlash
  BY <1>8 DEF EraseFlash, WriteTlsFlash
<1> QED BY <1>1, <1>2, <1>3, <1>4, <1>5, <1>6, <1>7, <1>8

LEMMA TypesUpload ==
  ASSUME Types, GetFwInfo \/ HwRegs \/ FirmwareFile \/ WriteFirmware \/ WriteSignature
                \/ CheckFirmware \/ Reboot \/ Reopen \/ ReadTlsFlash, UNCHANGED pvars
  PROVE  Types'
<1> USE DEF Types, chip, sess, loop, budget, pvars, Send, SendOr, Fail, Codes
<1>1. CASE GetFwInfo \/ HwRegs \/ FirmwareFile
  BY <1>1 DEF GetFwInfo, HwRegs, FirmwareFile
<1>2. CASE WriteFirmware \/ WriteSignature \/ CheckFirmware
  BY <1>2 DEF WriteFirmware, WriteSignature, CheckFirmware
<1>3. CASE Reboot \/ Reopen
  BY <1>3 DEF Reboot, Reopen
<1>4. CASE ReadTlsFlash
  BY <1>4 DEF ReadTlsFlash
<1> QED BY <1>1, <1>2, <1>3, <1>4

LEMMA TypesSession ==
  ASSUME Types, ListRecords \/ WipeRead \/ DeleteUser \/ WipeVerify \/ FactoryBits \/ Calibrate
                \/ EraseSlate \/ WriteSlate \/ CreateEnrollment \/ CaptureStart \/ StartInterrupt
                \/ FingerInterrupt \/ CompleteInterrupt \/ CaptureStatus \/ CaptureStop
                \/ UpdateEnrollment \/ StageRecord \/ CommitRecord \/ MatchFinger
  PROVE  Types'
<1> USE DEF Types, chip, sess, loop, budget, pvars, Send, SendOr, Fail, Finish, Codes, Caps
<1>1. CASE ListRecords
  BY <1>1 DEF ListRecords
<1>2. CASE WipeRead \/ DeleteUser \/ WipeVerify
  <2>1. rc' \in {rc, "ok", "fail"}
    BY <1>2 DEF WipeRead, DeleteUser, WipeVerify
  <2>2. UNCHANGED <<wire, armed, fwfile, hnd, mode, sec, m, last, cap, calibrated>>
    BY <1>2 DEF WipeRead, DeleteUser, WipeVerify
  <2> QED BY <2>1, <2>2
<1>3. CASE FactoryBits \/ Calibrate \/ EraseSlate
  BY <1>3 DEF FactoryBits, Calibrate, EraseSlate
<1>4. CASE WriteSlate
  BY <1>4 DEF WriteSlate
<1>5. CASE CreateEnrollment
  BY <1>5 DEF CreateEnrollment
<1>6. CASE CaptureStart
  <2>1. rc' \in {rc, "fail"} /\ cap' \in {cap, "bad"}
    BY <1>6 DEF CaptureStart
  <2>2. armed' \in BOOLEAN
    BY <1>6 DEF CaptureStart
  <2>3. UNCHANGED <<wire, fwfile, hnd, mode, sec, m, last, calibrated>>
    BY <1>6 DEF CaptureStart
  <2> QED BY <2>1, <2>2, <2>3
<1>7. CASE StartInterrupt \/ FingerInterrupt \/ CompleteInterrupt \/ CaptureStatus
  BY <1>7 DEF StartInterrupt, FingerInterrupt, CompleteInterrupt, CaptureStatus
<1>8. CASE CaptureStop
  <2>1. rc' \in {rc, "fail"} /\ m' \in {m, m + 1}
    BY <1>8 DEF CaptureStop
  <2>2. armed' \in BOOLEAN
    BY <1>8 DEF CaptureStop
  <2>3. UNCHANGED <<wire, fwfile, hnd, mode, sec, last, cap, calibrated>>
    BY <1>8 DEF CaptureStop
  <2> QED BY <2>1, <2>2, <2>3
<1>9. CASE UpdateEnrollment \/ MatchFinger
  BY <1>9 DEF UpdateEnrollment, MatchFinger
<1>10. CASE StageRecord
  BY <1>10 DEF StageRecord
<1>11. CASE CommitRecord
  BY <1>11 DEF CommitRecord
<1> QED BY <1>1, <1>2, <1>3, <1>4, <1>5, <1>6, <1>7, <1>8, <1>9, <1>10, <1>11

LEMMA TypesStep ==
  ASSUME Types, [MNext]_allVars
  PROVE  Types'
<1>1. CASE UNCHANGED allVars
  BY <1>1 DEF allVars, vars, pvars, Types
<1>2. CASE EnvNext
  <2> USE DEF Types, chip, sess, loop, budget, pvars, Codes
  <2>1. CASE (\E md \in PairModes \cup SessionModes, h \in Hosts : Start(md, h)) /\ UNCHANGED pvars
    BY <2>1 DEF Start
  <2>2. CASE Die /\ UNCHANGED <<todo, cap>> /\ calibrated' = FALSE
    BY <2>2 DEF Die
  <2>3. CASE Replug /\ UNCHANGED pvars
    BY <2>3 DEF Replug
  <2>4. CASE AgentIdentify \/ AgentClose
    BY <2>4 DEF AgentIdentify, AgentClose, Finish, Fail
  <2>5. CASE OtherEnrols
    BY <2>5 DEF OtherEnrols
  <2> QED BY <1>2, <2>1, <2>2, <2>3, <2>4, <2>5 DEF EnvNext
<1>3. CASE HostNext
  BY <1>3, TypesOutside, TypesUpload, TypesSession DEF HostNext
<1> QED BY <1>1, <1>2, <1>3 DEF MNext

\* Every variable of the sensor and of the operation keeps its type, whatever is lost or
\* interrupted: the counters of a function never run below zero, and no more key pairs are
\* made than operations are started.
THEOREM TypeCorrect == MSpec => []TypeOK
<1>1. MInit => Types /\ CaptureInv
  BY TypesInit, BoundsAssumption DEF MInit, Init, CaptureInv
<1>2. Types /\ [MNext]_allVars => Types'
  BY TypesStep
<1>3. CaptureInv /\ [MNext]_allVars => CaptureInv'
  BY CaptureStep
<1>4. StorageInv /\ CaptureInv /\ Types => TypeOK
  BY BoundsAssumption DEF StorageInv, Shape, KeysLeft, Partitions, Database, CaptureInv, Types, TypeOK
<1> QED BY <1>1, <1>2, <1>3, <1>4, StorageCorrect, PTL DEF MSpec

-----------------------------------------------------------------------------
\* Where an operation is after its records are wiped or listed, up to the stored print.
Calibrating == {"factory", "calib", "erase6", "write6"}
Touching == {"touch", "start", "finger", "complete", "status", "stop"}
Recording == {"create", "update", "record", "commit"}
Clear == Calibrating \cup Touching \cup Recording
Uploading == {"fwext", "fwreg", "fwfile", "fwbody", "fwsig", "fwcheck", "reboot", "reopen"}

\* Which operations reach which part of the code.
Route ==
    /\ pc \in InSession \cup {"readtls"} => mode \in SessionModes
    /\ pc = "handshake" /\ n = 0 => mode \in SessionModes
    /\ pc \in {"wipe", "delete", "wiped"} => mode \in {"wipe", "replace"}
    /\ pc \in Recording => mode \in {"enroll", "replace"}
    /\ pc = "match" => mode \in {"verify", "agent"}
    /\ pc = "ready" => mode = "agent"
    /\ pc = "reopen" => mode \in PairModes

\* A print has its user's record; the chip holds a record back only from its staging to
\* its commit in a session; and a finger is held back only under HTID's user.
Linked ==
    /\ \A p \in db.prints : p.user \in db.users
    /\ pc \in InSession \ {"commit"} => db.staged = NoRecord
    /\ db.staged.kind = "finger" => HtidUser \in db.users

\* From the end of its wipe a replacement finds no record but those it makes.
Emptied ==
    (mode = "replace" /\ pc \in Clear)
        => db.prints = {} /\ db.users \subseteq {HtidUser}

\* A pairing reboots or reopens the device only with the firmware loaded, and a forced one
\* carries its new identity to the chip.
Paired ==
    /\ pc \in {"reboot", "reopen"} => flash.fw = "loaded"
    /\ mode = "force" /\ pc \in {"handshake", "erase", "write1"}
          => ident = [host |-> host, gen |-> gen]
    /\ mode = "force" /\ pc \in Uploading => flash.cert = [host |-> host, gen |-> gen]

\* What the success of an operation says of the chip.
Kept(md) ==
    /\ md = "enroll" => \E p \in db.prints : p.user = HtidUser /\ p.owner = flash.cert
    /\ md = "replace" => db.users = {HtidUser} /\ Cardinality(db.prints) = 1
    /\ md = "wipe" => db.users = {} /\ db.prints = {}
    /\ md = "verify" => db.prints # {}
    /\ md \in PairModes => flash.fw = "loaded"
    /\ md = "force" => flash.cert = [host |-> host, gen |-> gen]

\* A result is a success only when the operation is over.
Reported ==
    /\ rc = "ok" => pc \in {"close", "menu"}
    /\ pc = "close" /\ rc = "ok" => Kept(mode)
    /\ pc = "menu" /\ last.rc = "ok" => Kept(last.mode)

ResultsInv == Route /\ Linked /\ Emptied /\ Paired /\ Reported

LEMMA ResultsInit == MInit => ResultsInv
BY DEF MInit, Init, ResultsInv, Route, Linked, Emptied, Paired, Reported, Kept, InSession, Clear, Calibrating,
   Touching, Recording, Uploading, NoRecord, PairModes

\* An operation that fails, or has yet to make its key pair, promises nothing.
LEMMA Unfinished ==
  ASSUME ResultsInv, UNCHANGED <<db.users, db.prints>>, db'.staged \in {db.staged, NoRecord},
         rc' # "ok", pc' \in BeforeKeys \cup {"partition", "ecdh", "close"}
  PROVE  ResultsInv'
BY DEF ResultsInv, Route, Linked, Emptied, Paired, Reported, BeforeKeys, InSession, Clear, Calibrating,
   Touching, Recording, Uploading, NoRecord

\* An operation that ends without a result promises nothing either.
LEMMA Abandoned ==
  ASSUME ResultsInv, UNCHANGED <<db.users, db.prints>>, db'.staged \in {db.staged, NoRecord},
         pc' = "menu", last'.rc = "ok" => last'.mode = "none"
  PROVE  ResultsInv'
BY DEF ResultsInv, Route, Linked, Emptied, Paired, Reported, Kept, InSession, Clear, Calibrating,
   Touching, Recording, Uploading, NoRecord, PairModes

LEMMA ResultsBootstrap ==
  ASSUME ResultsInv, OpenDevice \/ CloseDevice \/ RomInfo \/ Cmd19 \/ FwInfo \/ InitHardcoded
                     \/ CleanSlateBlob
  PROVE  ResultsInv'
<1> USE DEF chip, sess, loop, budget
<1>1. CASE OpenDevice
  <2>1. db' = db /\ rc' = rc /\ pc = "open"
        /\ (pc' = "rominfo" \/ (pc' = "menu" /\ last' = [mode |-> mode, rc |-> "fail"]))
    BY <1>1 DEF OpenDevice
  <2>2. rc # "ok"
    BY <2>1 DEF ResultsInv, Reported
  <2> QED BY <2>1, <2>2, Unfinished, Abandoned DEF BeforeKeys
<1>2. CASE CloseDevice
  <2>1. UNCHANGED <<db, flash, mode, host, rc, gen>> /\ pc = "close" /\ pc' = "menu"
        /\ last' = [mode |-> mode, rc |-> rc]
    BY <1>2 DEF CloseDevice
  <2>2. rc = "ok" => Kept(mode)
    BY <2>1 DEF ResultsInv, Reported
  <2>3. last'.rc = "ok" => Kept(mode)' /\ last'.mode = mode /\ mode' = mode
    BY <2>1, <2>2 DEF Kept
  <2> QED BY <2>1, <2>3 DEF ResultsInv, Route, Linked, Emptied, Paired, Reported, Kept, InSession,
             Clear, Calibrating, Touching, Recording, Uploading
<1>3. CASE RomInfo
  <2>1. db' = db /\ pc = "rominfo" /\ rc' \in {rc, "fail"} /\ pc' \in {"rominfo", "cmd19", "close"}
    BY <1>3 DEF RomInfo, Send, SendOr, Fail
  <2>2. rc # "ok"
    BY <2>1 DEF ResultsInv, Reported
  <2> QED BY <2>1, <2>2, Unfinished DEF BeforeKeys
<1>4. CASE Cmd19 \/ FwInfo \/ InitHardcoded \/ CleanSlateBlob
  <2>1. db' = db /\ pc \in BeforeKeys /\ rc' \in {rc, "fail"} /\ pc' \in BeforeKeys \cup {"close"}
    BY <1>4 DEF Cmd19, FwInfo, InitHardcoded, CleanSlateBlob, Send, SendOr, Fail, BeforeKeys
  <2>2. rc # "ok"
    BY <2>1 DEF ResultsInv, Reported, BeforeKeys
  <2> QED BY <2>1, <2>2, Unfinished
<1> QED BY <1>1, <1>2, <1>3, <1>4

LEMMA ResultsPairing ==
  ASSUME StorageInv, ResultsInv, Types,
         GetFlashInfo \/ ResetBlob \/ PartitionFlash \/ ReadEcdh \/ TlsOpen
  PROVE  ResultsInv'
<1> USE DEF chip, sess, loop, budget
<1>1. CASE GetFlashInfo
  <2>1. UNCHANGED <<flash, db, mode, host, gen>> /\ pc = "tlsinit" /\ rc' \in {rc, "fail"}
        /\ \/ pc' \in {"resetblob", "close"}
           \/ pc' = "fwext" /\ mode # "force" /\ rc' = rc
    BY <1>1 DEF GetFlashInfo, Send, SendOr, Fail
  <2>2. rc # "ok"
    BY <2>1 DEF ResultsInv, Reported
  <2>3. CASE pc' \in {"resetblob", "close"}
    BY <2>1, <2>2, <2>3, Unfinished DEF BeforeKeys
  <2>4. CASE pc' = "fwext" /\ mode # "force"
    BY <2>1, <2>2, <2>4 DEF ResultsInv, Route, Linked, Emptied, Paired, Reported, InSession,
       Clear, Calibrating, Touching, Recording, Uploading
  <2> QED BY <2>1, <2>3, <2>4
<1>2. CASE ResetBlob \/ PartitionFlash
  <2>1. db' = db /\ pc \in {"resetblob", "partition"} /\ rc' \in {rc, "fail"}
        /\ pc' \in {"partition", "ecdh", "close"}
    BY <1>2 DEF ResetBlob, PartitionFlash, Send, SendOr, Fail
  <2>2. rc # "ok"
    BY <2>1 DEF ResultsInv, Reported
  <2> QED BY <2>1, <2>2, Unfinished
<1>3. CASE ReadEcdh
  <2>1. UNCHANGED <<db, flash, mode, host, gen, n>> /\ pc = "ecdh" /\ rc' \in {rc, "fail"}
        /\ (pc' = "close" \/ (pc' = "handshake" /\ ident' = [host |-> host, gen |-> gen] /\ rc' = rc))
    BY <1>3 DEF ReadEcdh, Send, SendOr, Fail
  <2>2. rc # "ok" /\ n > 0
    BY <2>1 DEF ResultsInv, Reported, StorageInv, KeysLeft
  <2>3. CASE pc' = "close"
    BY <2>1, <2>2, <2>3, Unfinished
  <2>4. CASE pc' = "handshake" /\ ident' = [host |-> host, gen |-> gen] /\ rc' = rc
    BY <2>1, <2>2, <2>4 DEF ResultsInv, Route, Linked, Emptied, Paired, Reported, InSession,
       Clear, Calibrating, Touching, Recording, Uploading
  <2> QED BY <2>1, <2>3, <2>4
<1>4. CASE TlsOpen
  <2>1. UNCHANGED <<flash, mode, host, gen>> /\ pc = "handshake"
    BY <1>4 DEF TlsOpen
  <2>2. db' \in {db, [db EXCEPT !.staged = NoRecord]}
    BY <1>4 DEF TlsOpen
  <2>3. \/ pc' = "menu" /\ last' = [mode |-> "none", rc |-> "ok"]
        \/ pc' = "close" /\ rc' \in {"fail", "handshake"}
        \/ /\ rc' = rc /\ db'.staged = NoRecord /\ ident' = ident
           /\ pc' = (IF n > 0 THEN "erase" ELSE "list")
    BY <1>4 DEF TlsOpen, Send, SendOr, Fail, Transfer, Results, Done, StorageInv, Shape, Database
  <2>4. UNCHANGED <<db.users, db.prints>> /\ db'.staged \in {db.staged, NoRecord}
    BY <2>2 DEF StorageInv, Shape, Database
  <2>5. CASE pc' = "menu" /\ last' = [mode |-> "none", rc |-> "ok"]
    BY <2>4, <2>5, Abandoned
  <2>6. CASE pc' = "close" /\ rc' \in {"fail", "handshake"}
    BY <2>4, <2>6, Unfinished
  <2>7. CASE rc' = rc /\ db'.staged = NoRecord /\ ident' = ident /\ pc' = (IF n > 0 THEN "erase" ELSE "list")
    <3>1. rc # "ok" /\ n \in Nat /\ (n = 0 => mode \in SessionModes)
      BY <2>1 DEF ResultsInv, Reported, Route, StorageInv, Shape
    <3> QED BY <2>1, <2>4, <2>7, <3>1 DEF ResultsInv, Route, Linked, Emptied, Paired, Reported, InSession,
           Clear, Calibrating, Touching, Recording, Uploading, NoRecord
  <2> QED BY <2>3, <2>5, <2>6, <2>7
<1> QED BY <1>1, <1>2, <1>3, <1>4

LEMMA ResultsErase ==
  ASSUME StorageInv, ResultsInv, EraseFlash \/ WriteTlsFlash
  PROVE  ResultsInv'
<1> USE DEF chip, sess, loop, budget
<1>1. CASE EraseFlash
  <2>1. UNCHANGED <<mode, host, gen, ident>> /\ pc = "erase" /\ pc' \in {"erase", "write1", "close"}
        /\ rc' \in {rc, "fail"}
    BY <1>1 DEF EraseFlash, Send, SendOr, Fail
  <2>2. db' = db \/ db' = [storage |-> FALSE, users |-> {}, prints |-> {}, staged |-> NoRecord]
    BY <1>1 DEF EraseFlash
  <2>3. rc # "ok"
    BY <2>1 DEF ResultsInv, Reported
  <2>4. Linked'
    <3>1. CASE db' = db
      BY <2>1, <3>1 DEF ResultsInv, Linked, InSession
    <3>2. CASE db' = [storage |-> FALSE, users |-> {}, prints |-> {}, staged |-> NoRecord]
      BY <2>1, <3>2 DEF Linked, InSession, NoRecord
    <3> QED BY <2>2, <3>1, <3>2
  <2> QED BY <2>1, <2>3, <2>4 DEF ResultsInv, Route, Emptied, Paired, Reported, InSession,
             Clear, Calibrating, Touching, Recording, Uploading
<1>2. CASE WriteTlsFlash
  <2>1. UNCHANGED <<db, mode, host, gen, ident>> /\ pc = "write1"
        /\ (\/ pc' = "close" /\ rc' = "fail"
            \/ pc' = "fwext" /\ rc' = rc /\ flash' = [flash EXCEPT !.cert = ident])
    BY <1>2 DEF WriteTlsFlash, Send, SendOr, Fail, Transfer, Results, Done
  <2>2. rc # "ok"
    BY <2>1 DEF ResultsInv, Reported
  <2>3. CASE pc' = "close" /\ rc' = "fail"
    BY <2>1, <2>3, Unfinished
  <2>4. CASE pc' = "fwext" /\ rc' = rc /\ flash' = [flash EXCEPT !.cert = ident]
    <3>1. flash'.cert = ident
      BY <2>4 DEF StorageInv, Shape, Partitions
    <3> QED BY <2>1, <2>2, <2>4, <3>1 DEF ResultsInv, Route, Linked, Emptied, Paired, Reported, InSession,
       Clear, Calibrating, Touching, Recording, Uploading
  <2> QED BY <2>1, <2>3, <2>4
<1> QED BY <1>1, <1>2

LEMMA ResultsUpload ==
  ASSUME StorageInv, ResultsInv, Types, GetFwInfo \/ HwRegs \/ FirmwareFile \/ WriteFirmware
                     \/ WriteSignature \/ CheckFirmware \/ Reboot \/ Reopen \/ ReadTlsFlash
  PROVE  ResultsInv'
<1> USE DEF chip, sess, loop, budget
<1>1. CASE GetFwInfo
  <2>1. UNCHANGED <<flash, db, mode, host, gen>> /\ pc = "fwext"
        /\ (\/ pc' = "close" /\ rc' = "fail"
            \/ pc' = "fwreg" /\ rc' = rc
            \/ pc' = AfterFwext /\ rc' = rc /\ flash.fw = "loaded")
    BY <1>1 DEF GetFwInfo, Send, SendOr, Fail
  <2>2. rc # "ok"
    BY <2>1 DEF ResultsInv, Reported
  <2>3. CASE pc' = "close" /\ rc' = "fail"
    BY <2>1, <2>3, Unfinished
  <2>4. CASE pc' = "fwreg" /\ rc' = rc
    BY <2>1, <2>2, <2>4 DEF ResultsInv, Route, Linked, Emptied, Paired, Reported, InSession,
       Clear, Calibrating, Touching, Recording, Uploading
  <2>5. CASE pc' = AfterFwext /\ rc' = rc /\ flash.fw = "loaded"
    BY <2>1, <2>2, <2>5 DEF ResultsInv, Route, Linked, Emptied, Paired, Reported, InSession,
       Clear, Calibrating, Touching, Recording, Uploading, AfterFwext, Types, PairModes
  <2> QED BY <2>1, <2>3, <2>4, <2>5
<1>2. CASE HwRegs \/ FirmwareFile \/ WriteFirmware \/ WriteSignature
  <2>1. UNCHANGED <<db, mode, host, gen>> /\ flash'.cert = flash.cert
        /\ pc \in {"fwreg", "fwfile", "fwbody", "fwsig"}
    BY <1>2 DEF HwRegs, FirmwareFile, WriteFirmware, WriteSignature, StorageInv, Shape, Partitions
  <2>2. \/ pc' = "close" /\ rc' = "fail"
        \/ pc' \in {"fwfile", "fwbody", "fwsig", "fwcheck"} /\ rc' = rc
    BY <1>2 DEF HwRegs, FirmwareFile, WriteFirmware, WriteSignature, Send, SendOr, Fail
  <2>3. rc # "ok"
    BY <2>1 DEF ResultsInv, Reported
  <2>4. CASE pc' = "close" /\ rc' = "fail"
    BY <2>1, <2>4, Unfinished
  <2>5. CASE pc' \in {"fwfile", "fwbody", "fwsig", "fwcheck"} /\ rc' = rc
    BY <2>1, <2>3, <2>5 DEF ResultsInv, Route, Linked, Emptied, Paired, Reported, InSession,
       Clear, Calibrating, Touching, Recording, Uploading
  <2> QED BY <2>2, <2>4, <2>5
<1>3. CASE CheckFirmware \/ Reboot
  <2>1. UNCHANGED <<flash, db, mode, host, gen>> /\ pc \in {"fwcheck", "reboot"}
    BY <1>3 DEF CheckFirmware, Reboot
  <2>2. \/ pc' = "close" /\ rc' \in {rc, "fail"}
        \/ pc' = "reboot" /\ rc' = rc /\ flash.fw = "loaded"
        \/ pc' = "reopen" /\ rc' = rc /\ pc = "reboot" /\ mode \in PairModes
    BY <1>3 DEF CheckFirmware, Reboot, Send, SendOr, Fail
  <2>3. rc # "ok"
    BY <2>1 DEF ResultsInv, Reported
  <2>4. CASE pc' = "close" /\ rc' \in {rc, "fail"}
    BY <2>1, <2>3, <2>4, Unfinished
  <2>5. CASE pc' \in {"reboot", "reopen"} /\ rc' = rc /\ (pc' = "reopen" => mode \in PairModes)
             /\ (flash.fw = "loaded" \/ pc = "reboot")
    BY <2>1, <2>3, <2>5 DEF ResultsInv, Route, Linked, Emptied, Paired, Reported, InSession,
       Clear, Calibrating, Touching, Recording, Uploading
  <2> QED BY <2>2, <2>4, <2>5
<1>4. CASE Reopen
  <2>1. UNCHANGED <<flash, db, mode, host, gen>> /\ pc = "reopen" /\ pc' = "close" /\ rc' \in {"ok", "fail"}
    BY <1>4 DEF Reopen, Fail
  <2>2. Kept(mode)' /\ mode' = mode
    BY <2>1 DEF ResultsInv, Route, Paired, Kept, PairModes, Uploading
  <2> QED BY <2>1, <2>2 DEF ResultsInv, Route, Linked, Emptied, Paired, Reported, Kept, InSession,
             Clear, Calibrating, Touching, Recording, Uploading
<1>5. CASE ReadTlsFlash
  <2>1. UNCHANGED <<flash, db, mode, host, gen>> /\ pc = "readtls" /\ n' = 0
        /\ (\/ pc' = "close" /\ rc' \in {"fail", "identity"}
            \/ pc' = "handshake" /\ rc' = rc)
    BY <1>5 DEF ReadTlsFlash, Send, SendOr, Fail
  <2>2. rc # "ok" /\ mode \in SessionModes
    BY <2>1 DEF ResultsInv, Reported, Route
  <2>3. CASE pc' = "close" /\ rc' \in {"fail", "identity"}
    BY <2>1, <2>3, Unfinished
  <2>4. CASE pc' = "handshake" /\ rc' = rc
    BY <2>1, <2>2, <2>4 DEF ResultsInv, Route, Linked, Emptied, Paired, Reported, InSession,
       Clear, Calibrating, Touching, Recording, Uploading, SessionModes
  <2> QED BY <2>1, <2>3, <2>4
<1> QED BY <1>1, <1>2, <1>3, <1>4, <1>5

\* A step of a session that only moves on.
LEMMA Within ==
  ASSUME ResultsInv, pc \in InSession \ {"commit"}, pc' \in InSession \ {"commit"},
         UNCHANGED <<db, mode, rc>>, Route', Emptied'
  PROVE  ResultsInv'
BY DEF ResultsInv, Linked, Paired, Reported, InSession, Uploading

\* One that fails.
LEMMA GivenUp ==
  ASSUME ResultsInv, UNCHANGED <<db.users, db.prints>>, db'.staged \in {db.staged, NoRecord},
         pc' = "close", rc' # "ok"
  PROVE  ResultsInv'
BY Unfinished

\* One that reports a success.
LEMMA Finished ==
  ASSUME ResultsInv, Linked', pc' = "close", Kept(mode)', mode' = mode
  PROVE  ResultsInv'
BY DEF ResultsInv, Route, Emptied, Paired, Reported, Kept, InSession, Clear, Calibrating, Touching,
   Recording, Uploading

LEMMA ResultsRecords ==
  ASSUME StorageInv, ResultsInv, Types, ListRecords \/ WipeRead \/ DeleteUser \/ WipeVerify
  PROVE  ResultsInv'
<1> USE DEF chip, sess, loop, budget, pvars
<1>1. CASE ListRecords
  <2>1. UNCHANGED <<flash, db, mode, host, gen>> /\ pc = "list"
    BY <1>1 DEF ListRecords
  <2>2. rc # "ok"
    BY <2>1 DEF ResultsInv, Reported
  <2>3. \/ pc' = "close" /\ rc' \in {"fail", "cancelled"}
        \/ pc' = "close" /\ mode = "list"
        \/ pc' = "wipe" /\ mode \in {"wipe", "replace"} /\ rc' = rc
        \/ pc' = "factory" /\ mode \in {"replace", "verify", "enroll", "calibrate", "agent"} /\ rc' = rc
           /\ (mode = "replace" => db.users = {})
        \/ pc' = "ready" /\ mode = "agent" /\ rc' = rc
    BY <1>1 DEF ListRecords, Send, SendOr, Fail, Finish, Transfer, AfterRecords
  <2>4. CASE pc' = "close" /\ rc' \in {"fail", "cancelled"}
    BY <2>1, <2>4, GivenUp
  <2>5. CASE pc' = "close" /\ mode = "list"
    <3>1. Kept(mode)' /\ Linked'
      BY <2>1, <2>5 DEF Kept, PairModes, ResultsInv, Linked, InSession
    <3> QED BY <2>1, <2>5, <3>1, Finished
  <2>6. CASE pc' = "wipe" /\ mode \in {"wipe", "replace"} /\ rc' = rc
    BY <2>1, <2>6, Within DEF Route, Emptied, InSession, Recording, Clear, Calibrating, Touching, SessionModes
  <2>7. CASE pc' = "factory" /\ mode \in {"replace", "verify", "enroll", "calibrate", "agent"} /\ rc' = rc
             /\ (mode = "replace" => db.users = {})
    <3>1. mode = "replace" => db.prints = {} /\ db.users \subseteq {HtidUser}
      BY <2>7 DEF ResultsInv, Linked
    <3> QED BY <2>1, <2>7, <3>1, Within DEF Route, Emptied, InSession, Recording, SessionModes
  <2>8. CASE pc' = "ready" /\ mode = "agent" /\ rc' = rc
    BY <2>1, <2>8, Within DEF Route, Emptied, InSession, Recording, Clear, Calibrating, Touching, SessionModes
  <2> QED BY <2>3, <2>4, <2>5, <2>6, <2>7, <2>8
<1>2. CASE WipeRead
  <2>1. UNCHANGED <<flash, db, mode, host, gen>> /\ pc = "wipe"
        /\ (\/ pc' = "close" /\ rc' = "fail"
            \/ pc' \in {"wiped", "delete"} /\ rc' = rc)
    BY <1>2 DEF WipeRead, Send, SendOr, Fail
  <2>2. CASE pc' = "close" /\ rc' = "fail"
    BY <2>1, <2>2, GivenUp
  <2>3. CASE pc' \in {"wiped", "delete"} /\ rc' = rc
    BY <2>1, <2>3, Within DEF ResultsInv, Route, Emptied, InSession, Recording, Clear, Calibrating, Touching
  <2> QED BY <2>1, <2>2, <2>3
<1>3. CASE DeleteUser
  <2>1. UNCHANGED <<flash, mode, host, gen>> /\ pc = "delete"
        /\ (\/ pc' = "close" /\ rc' = "fail"
            \/ pc' \in {"wiped", "delete"} /\ rc' = rc)
    BY <1>3 DEF DeleteUser, Send, SendOr, Fail
  <2>2. PICK u \in todo : \/ db' = db
                          \/ db' = [db EXCEPT !.users = @ \ {u}, !.prints = {p \in @ : p.user # u}]
    BY <1>3 DEF DeleteUser
  <2>3. /\ db'.staged = NoRecord
        /\ \A p \in db'.prints : p.user \in db'.users
    BY <2>1, <2>2 DEF ResultsInv, Linked, InSession, StorageInv, Shape, Database
  <2>4. rc # "ok" /\ mode \in {"wipe", "replace"}
    BY <2>1 DEF ResultsInv, Reported, Route
  <2> QED BY <2>1, <2>3, <2>4 DEF ResultsInv, Route, Linked, Emptied, Paired, Reported, InSession,
             Clear, Calibrating, Touching, Recording, Uploading, NoRecord, SessionModes
<1>4. CASE WipeVerify
  <2>1. UNCHANGED <<flash, db, mode, host, gen>> /\ pc = "wiped"
    BY <1>4 DEF WipeVerify
  <2>2. \/ pc' = "close" /\ rc' = "fail"
        \/ pc' = "close" /\ db.users = {} /\ mode = "wipe"
        \/ pc' = "factory" /\ db.users = {} /\ mode = "replace" /\ rc' = rc
    BY <1>4 DEF WipeVerify, Send, SendOr, Fail, Finish, Transfer
  <2>3. db.users = {} => db.prints = {}
    BY DEF ResultsInv, Linked
  <2>4. CASE pc' = "close" /\ rc' = "fail"
    BY <2>1, <2>4, GivenUp
  <2>5. CASE pc' = "close" /\ db.users = {} /\ mode = "wipe"
    <3>1. Kept(mode)' /\ Linked'
      BY <2>1, <2>3, <2>5 DEF Kept, PairModes, ResultsInv, Linked, InSession
    <3> QED BY <2>1, <2>5, <3>1, Finished
  <2>6. CASE pc' = "factory" /\ db.users = {} /\ mode = "replace" /\ rc' = rc
    BY <2>1, <2>3, <2>6, Within DEF Route, Emptied, InSession, Recording, SessionModes
  <2> QED BY <2>2, <2>4, <2>5, <2>6
<1> QED BY <1>1, <1>2, <1>3, <1>4

LEMMA ResultsCalibration ==
  ASSUME ResultsInv, FactoryBits \/ Calibrate \/ EraseSlate \/ WriteSlate
  PROVE  ResultsInv'
<1> USE DEF chip, sess, loop, budget, pvars
<1>1. CASE FactoryBits \/ Calibrate \/ EraseSlate
  <2>1. UNCHANGED <<db, mode, host, gen>> /\ pc \in Calibrating
        /\ (\/ pc' = "close" /\ rc' = "fail"
            \/ pc' \in Calibrating /\ rc' = rc)
    BY <1>1 DEF FactoryBits, Calibrate, EraseSlate, Send, SendOr, Fail, Calibrating
  <2>2. CASE pc' = "close" /\ rc' = "fail"
    BY <2>1, <2>2, GivenUp
  <2>3. CASE pc' \in Calibrating /\ rc' = rc
    BY <2>1, <2>3, Within DEF ResultsInv, Route, Emptied, InSession, Recording, Clear, Calibrating
  <2> QED BY <2>1, <2>2, <2>3
<1>2. CASE WriteSlate
  <2>1. UNCHANGED <<db, mode, host, gen>> /\ pc = "write6"
    BY <1>2 DEF WriteSlate
  <2>2. \/ pc' = "close" /\ rc' = "fail"
        \/ pc' = "close" /\ mode = "calibrate"
        \/ pc' = "create" /\ mode \in {"enroll", "replace"} /\ rc' = rc
        \/ pc' = "touch" /\ mode = "verify" /\ rc' = rc
        \/ pc' = "ready" /\ mode = "agent" /\ rc' = rc
    BY <1>2 DEF WriteSlate, Send, SendOr, Fail, Finish, Transfer
  <2>3. CASE pc' = "close" /\ rc' = "fail"
    BY <2>1, <2>3, GivenUp
  <2>4. CASE pc' = "close" /\ mode = "calibrate"
    <3>1. Kept(mode)' /\ Linked'
      BY <2>1, <2>4 DEF Kept, PairModes, ResultsInv, Linked, InSession
    <3> QED BY <2>1, <2>4, <3>1, Finished
  <2>5. CASE \/ pc' = "create" /\ mode \in {"enroll", "replace"} /\ rc' = rc
             \/ pc' = "touch" /\ mode = "verify" /\ rc' = rc
             \/ pc' = "ready" /\ mode = "agent" /\ rc' = rc
    BY <2>1, <2>5, Within DEF ResultsInv, Route, Emptied, InSession, Recording, Clear, Calibrating, SessionModes
  <2> QED BY <2>2, <2>3, <2>4, <2>5
<1> QED BY <1>1, <1>2

LEMMA ResultsCapture ==
  ASSUME StorageInv, ResultsInv, CreateEnrollment \/ CaptureStart \/ StartInterrupt \/ FingerInterrupt
                     \/ CompleteInterrupt \/ CaptureStatus \/ CaptureStop \/ UpdateEnrollment \/ MatchFinger
  PROVE  ResultsInv'
<1> USE DEF chip, sess, loop, budget, pvars
<1>1. CASE CreateEnrollment \/ CaptureStart
  <2>1. UNCHANGED <<db, mode, host, gen>> /\ pc \in {"create", "touch"}
        /\ (\/ pc' = "close" /\ rc' = "fail"
            \/ pc' \in Touching /\ rc' = rc)
    BY <1>1 DEF CreateEnrollment, CaptureStart, Send, SendOr, Fail, Touching
  <2>2. CASE pc' = "close" /\ rc' = "fail"
    BY <2>1, <2>2, GivenUp
  <2>3. CASE pc' \in Touching /\ rc' = rc
    BY <2>1, <2>3, Within DEF ResultsInv, Route, Emptied, InSession, Recording, Clear, Calibrating, Touching
  <2> QED BY <2>1, <2>2, <2>3
<1>2. CASE StartInterrupt \/ FingerInterrupt \/ CompleteInterrupt \/ CaptureStatus
  <2>1. UNCHANGED <<db, mode, rc>> /\ pc \in Touching /\ pc' \in Touching
    BY <1>2 DEF StartInterrupt, FingerInterrupt, CompleteInterrupt, CaptureStatus, Touching
  <2> QED BY <2>1, Within DEF ResultsInv, Route, Emptied, InSession, Recording, Clear, Calibrating, Touching
<1>3. CASE CaptureStop
  <2>1. UNCHANGED <<db, mode, host, gen>> /\ pc = "stop"
    BY <1>3 DEF CaptureStop
  <2>2. \/ pc' = "close" /\ rc' = "fail"
        \/ pc' = "update" /\ mode \in {"enroll", "replace"} /\ rc' = rc
        \/ pc' = "match" /\ mode \in {"verify", "agent"} /\ rc' = rc
        \/ pc' = "touch" /\ rc' = rc
        \/ pc' = "ready" /\ mode = "agent" /\ rc' = rc
    BY <1>3 DEF CaptureStop, Fail
  <2>3. CASE pc' = "close" /\ rc' = "fail"
    BY <2>1, <2>3, GivenUp
  <2>4. CASE pc' # "close"
    BY <2>1, <2>2, <2>4, Within DEF ResultsInv, Route, Emptied, InSession, Recording, Clear, Calibrating, Touching
  <2> QED BY <2>3, <2>4, <2>2
<1>4. CASE UpdateEnrollment
  <2>1. UNCHANGED <<db, mode, rc>> /\ pc = "update" /\ pc' \in {"touch", "record"}
    BY <1>4 DEF UpdateEnrollment
  <2> QED BY <2>1, Within DEF ResultsInv, Route, Emptied, InSession, Recording, Clear, Calibrating, Touching
<1>5. CASE MatchFinger
  <2>1. UNCHANGED <<flash, db, mode, host, gen>> /\ pc = "match"
    BY <1>5 DEF MatchFinger
  <2>2. mode \in {"verify", "agent"}
    BY <2>1 DEF ResultsInv, Route
  <2>3. \/ pc' = "close" /\ rc' \in {"fail", "nomatch"}
        \/ pc' = "close" /\ mode = "verify" /\ db.prints # {}
        \/ pc' = "ready" /\ mode = "agent" /\ rc' = rc
        \/ pc' = "touch" /\ mode = "verify" /\ rc' = rc
    BY <1>5, <2>2 DEF MatchFinger, Fail, Finish
  <2>4. CASE pc' = "close" /\ rc' \in {"fail", "nomatch"}
    BY <2>1, <2>4, GivenUp
  <2>5. CASE pc' = "close" /\ mode = "verify" /\ db.prints # {}
    <3>1. Kept(mode)' /\ Linked'
      BY <2>1, <2>5 DEF Kept, PairModes, ResultsInv, Linked, InSession
    <3> QED BY <2>1, <2>5, <3>1, Finished
  <2>6. CASE pc' # "close"
    BY <2>1, <2>2, <2>3, <2>6, Within DEF ResultsInv, Route, Emptied, InSession, Recording, Clear,
       Calibrating, Touching
  <2> QED BY <2>3, <2>4, <2>5, <2>6
<1> QED BY <1>1, <1>2, <1>3, <1>4, <1>5

LEMMA ResultsStage ==
  ASSUME StorageInv, ResultsInv, StageRecord
  PROVE  ResultsInv'
<1> USE DEF chip, sess, loop, budget, pvars
<1>1. UNCHANGED <<flash, mode, host, gen>> /\ pc = "record"
  BY DEF StageRecord
<1>2. rc # "ok" /\ mode \in {"enroll", "replace"} /\ db.staged = NoRecord
  BY <1>1 DEF ResultsInv, Reported, Route, Linked, Recording, InSession
<1>3. \/ pc' = "close" /\ rc' = "fail" /\ db' = db
      \/ pc' = "commit" /\ rc' = rc /\ db' = db
      \/ /\ pc' = "commit" /\ rc' = rc
         /\ \E f \in Fingers :
               db' = [db EXCEPT !.staged = [kind |-> NextRecord, finger |-> f, owner |-> ident]]
  BY DEF StageRecord, Send, SendOr, Fail, Transfer
<1>4. CASE pc' = "close" /\ rc' = "fail" /\ db' = db
  BY <1>1, <1>4, GivenUp
<1>5. ASSUME pc' = "commit", rc' = rc, UNCHANGED <<db.users, db.prints>>,
             db'.staged.kind = "finger" => HtidUser \in db.users
      PROVE  ResultsInv'
  BY <1>1, <1>2, <1>5 DEF ResultsInv, Route, Linked, Emptied, Paired, Reported, InSession, Clear,
     Calibrating, Touching, Recording, Uploading
<1>6. CASE pc' = "commit" /\ rc' = rc /\ db' = db
  BY <1>5, <1>6 DEF ResultsInv, Linked
<1>7. ASSUME pc' = "commit", rc' = rc, NEW f \in Fingers,
             db' = [db EXCEPT !.staged = [kind |-> NextRecord, finger |-> f, owner |-> ident]]
      PROVE  ResultsInv'
  <2> DEFINE held == [kind |-> NextRecord, finger |-> f, owner |-> ident]
  <2>1. held.kind = "finger" => HtidUser \in db.users
    BY DEF NextRecord
  <2>2. db' = [db EXCEPT !.staged = held]
    BY <1>7
  <2> HIDE DEF held
  <2>3. UNCHANGED <<db.users, db.prints>> /\ db'.staged = held
    BY <2>2 DEF StorageInv, Shape, Database
  <2> QED BY <1>5, <1>7, <2>1, <2>3
<1> QED BY <1>3, <1>4, <1>6, <1>7

LEMMA ResultsCommit ==
  ASSUME StorageInv, ResultsInv, CommitRecord
  PROVE  ResultsInv'
<1> USE DEF chip, sess, loop, budget, pvars
<1>1. UNCHANGED <<flash, mode, host, gen>> /\ pc = "commit"
  BY DEF CommitRecord
<1>2. rc # "ok" /\ mode \in {"enroll", "replace"}
  BY <1>1 DEF ResultsInv, Reported, Route, Recording, InSession
<1>3. \/ pc' = "close" /\ rc' = "fail" /\ db' \in {db, Committed}
      \/ pc' = "close" /\ db' = Committed /\ db.staged.kind = "finger"
      \/ pc' = "record" /\ rc' = rc /\ db' = Committed /\ db.staged.kind # "finger"
  BY DEF CommitRecord, Fail, Finish, Transfer, Done
<1> DEFINE print == [user |-> HtidUser, finger |-> db.staged.finger, owner |-> db.staged.owner]
<1>4. /\ Committed.staged = NoRecord
      /\ Committed.users = db.users \/ Committed.users = db.users \cup {HtidUser}
      /\ Committed.prints = IF db.staged.kind = "finger" THEN db.prints \cup {print} ELSE db.prints
  <2> DEFINE st == db.storage \/ (db.staged.kind = "storage")
             us == db.users \cup (IF db.staged.kind = "user" THEN {HtidUser} ELSE {})
             pr == db.prints \cup (IF db.staged.kind = "finger" THEN {print} ELSE {})
  <2>1. Committed = [db EXCEPT !.staged = NoRecord, !.storage = st, !.users = us, !.prints = pr]
    BY DEF Committed
  <2>2. us = db.users \/ us = db.users \cup {HtidUser}
    OBVIOUS
  <2>3. pr = IF db.staged.kind = "finger" THEN db.prints \cup {print} ELSE db.prints
    OBVIOUS
  <2> HIDE DEF st, us, pr, print
  <2>4. Committed.staged = NoRecord /\ Committed.users = us /\ Committed.prints = pr
    BY <2>1 DEF StorageInv, Shape, Database
  <2> QED BY <2>2, <2>3, <2>4
<1>5. print.user = HtidUser /\ print.owner = db.staged.owner
  OBVIOUS
<1>6. db.staged.kind = "finger" => HtidUser \in db.users /\ db.staged.owner = flash.cert
  <2>1. db.staged.kind = "finger" => db.staged # NoRecord
    BY DEF NoRecord
  <2> QED BY <2>1 DEF ResultsInv, Linked, StorageInv, Ours
<1> HIDE DEF print
<1>7. (\A p \in Committed.prints : p.user \in Committed.users)
      /\ (mode = "replace" => Committed.users \subseteq {HtidUser} /\ db.prints = {})
  BY <1>1, <1>4, <1>5, <1>6 DEF ResultsInv, Linked, Emptied, Clear, Recording
<1>8. NoRecord.kind # "finger"
  BY DEF NoRecord
<1>9. db' \in {db, Committed} => (\A p \in db'.prints : p.user \in db'.users)
                                 /\ (db'.staged.kind = "finger" => HtidUser \in db'.users)
  BY <1>4, <1>7, <1>8 DEF ResultsInv, Linked
<1>10. CASE pc' = "close" /\ rc' = "fail" /\ db' \in {db, Committed}
  BY <1>1, <1>9, <1>10 DEF ResultsInv, Route, Linked, Emptied, Paired, Reported, InSession, Clear,
     Calibrating, Touching, Recording, Uploading
<1>11. CASE pc' = "close" /\ db' = Committed /\ db.staged.kind = "finger"
  <2>1. print \in db'.prints /\ (mode = "replace" => db'.prints = {print} /\ db'.users = {HtidUser})
    BY <1>4, <1>6, <1>7, <1>11
  <2>2. Cardinality({print}) = 1
    BY FS_Singleton
  <2>3. Kept(mode)'
    BY <1>1, <1>2, <1>5, <1>6, <1>11, <2>1, <2>2 DEF Kept, PairModes
  <2>4. Linked'
    BY <1>9, <1>11 DEF Linked, InSession
  <2> QED BY <1>1, <1>11, <2>3, <2>4, Finished
<1>12. CASE pc' = "record" /\ rc' = rc /\ db' = Committed /\ db.staged.kind # "finger"
  BY <1>1, <1>2, <1>4, <1>7, <1>9, <1>12 DEF ResultsInv, Route, Linked, Emptied, Paired, Reported,
     InSession, Clear, Calibrating, Touching, Recording, Uploading, SessionModes
<1> QED BY <1>3, <1>10, <1>11, <1>12

LEMMA ResultsEnv ==
  ASSUME StorageInv, ResultsInv, EnvNext
  PROVE  ResultsInv'
<1> USE DEF chip, sess, loop, budget, pvars
<1>1. CASE (\E md \in PairModes \cup SessionModes, h \in Hosts : Start(md, h)) /\ UNCHANGED pvars
  <2>1. db' = db /\ pc' = "open" /\ rc' = "fail"
    BY <1>1 DEF Start
  <2> QED BY <2>1, Unfinished DEF BeforeKeys
<1>2. CASE Die
  <2>1. db' = db /\ pc' = "menu" /\ last' = [mode |-> "none", rc |-> "ok"]
    BY <1>2 DEF Die
  <2> QED BY <2>1, Abandoned
<1>3. CASE Replug
  <2>1. UNCHANGED <<flash, pc, mode, host, ident, n, rc, last, gen>>
        /\ db' = [db EXCEPT !.staged = NoRecord]
    BY <1>3 DEF Replug
  <2>2. UNCHANGED <<db.users, db.prints>> /\ db'.staged = NoRecord /\ NoRecord.kind # "finger"
    BY <2>1 DEF StorageInv, Shape, Database, NoRecord
  <2>3. Route' /\ Linked' /\ Emptied' /\ Paired'
    BY <2>1, <2>2 DEF ResultsInv, Route, Linked, Emptied, Paired
  <2>4. Reported'
    BY <2>1, <2>2 DEF ResultsInv, Reported, Kept
  <2> QED BY <2>3, <2>4 DEF ResultsInv
<1>4. CASE AgentIdentify
  <2>1. UNCHANGED <<db, mode, rc>> /\ pc = "ready" /\ pc' = "touch"
    BY <1>4 DEF AgentIdentify
  <2> QED BY <2>1, Within DEF ResultsInv, Route, Emptied, InSession, Recording, Clear, Calibrating, Touching
<1>5. CASE AgentClose
  <2>1. UNCHANGED <<flash, db, mode, host, gen>> /\ pc = "ready" /\ pc' = "close"
    BY <1>5 DEF AgentClose, Finish, Fail
  <2>2. mode = "agent"
    BY <2>1 DEF ResultsInv, Route
  <2>3. Kept(mode)' /\ Linked'
    BY <2>1, <2>2 DEF Kept, PairModes, ResultsInv, Linked, InSession
  <2> QED BY <2>1, <2>3, Finished
<1>6. CASE OtherEnrols
  <2>1. pc = "menu" /\ pc' = "menu" /\ last' = [mode |-> "none", rc |-> "ok"]
    BY <1>6 DEF OtherEnrols
  <2>2. PICK f \in Fingers :
           db' = [db EXCEPT !.storage = TRUE, !.users = @ \cup {OtherUser},
                            !.prints = @ \cup {OtherPrint(f)}]
    BY <1>6 DEF OtherEnrols, OtherPrint
  <2>3. OtherPrint(f).user = OtherUser
    BY DEF OtherPrint
  <2>4. /\ db'.users = db.users \cup {OtherUser} /\ db'.prints = db.prints \cup {OtherPrint(f)}
        /\ db'.staged = db.staged
    BY <2>2 DEF StorageInv, Shape, Database
  <2> QED BY <2>1, <2>3, <2>4 DEF ResultsInv, Route, Linked, Emptied, Paired, Reported, Kept, InSession, Clear,
             Calibrating, Touching, Recording, Uploading, PairModes
<1> QED BY <1>1, <1>2, <1>3, <1>4, <1>5, <1>6 DEF EnvNext

LEMMA ResultsStep ==
  ASSUME StorageInv, Types, ResultsInv, [MNext]_allVars
  PROVE  ResultsInv'
<1>1. CASE UNCHANGED allVars
  BY <1>1 DEF allVars, vars, pvars, ResultsInv, Route, Linked, Emptied, Paired, Reported, Kept
<1>2. CASE EnvNext
  BY <1>2, ResultsEnv
<1>3. CASE HostNext
  BY <1>3, ResultsBootstrap, ResultsPairing, ResultsErase, ResultsUpload, ResultsRecords, ResultsCalibration,
     ResultsCapture, ResultsStage, ResultsCommit DEF HostNext
<1> QED BY <1>1, <1>2, <1>3 DEF MNext

\* What an operation reports is what the chip shows: an enrolment's print is stored under
\* the pairing in force and is the only one after a replacement, a wipe left no record, a
\* verification had a print to match, and a pairing left the firmware loaded, under the new
\* identity when it was forced; lost commands, lost answers, crashes and unplugging included.
THEOREM SuccessIsTrue == MSpec => []ResultsAreTrue
<1>1. StorageInv /\ Types /\ ResultsInv /\ [MNext]_allVars => ResultsInv'
  BY ResultsStep
<1>2. MInit => Types
  BY TypesInit
<1>3. Types /\ [MNext]_allVars => Types'
  BY TypesStep
<1>4. ResultsInv => ResultsAreTrue
  BY DEF ResultsInv, Reported, Kept, ResultsAreTrue, PairModes
<1> QED BY <1>1, <1>2, <1>3, <1>4, ResultsInit, StorageCorrect, PTL DEF MSpec
=============================================================================
