--------------------------- MODULE MetallicaProofs ---------------------------
(***************************************************************************)
(* The Metallica storage implements PrintStore, and a session's identity   *)
(* is the chip's, for every number of hosts, fingers, runs and faults.     *)
(***************************************************************************)
EXTENDS MetallicaSafety, TLAPS

\* Where an operation is before it makes its key pair.
BeforeKeys == {"open", "rominfo", "cmd19", "fwinfo", "hardcoded", "cleanslate", "tlsinit",
               "resetblob"}

\* Where it has a session with the chip.
InSession == {"list", "wipe", "delete", "wiped", "factory", "calib", "erase6", "write6",
              "create", "touch", "start", "finger", "complete", "status", "stop", "update",
              "record", "commit", "match", "ready"}

\* A record the chip holds back.
Records == {NoRecord} \cup [kind : {"storage", "user", "finger"}, finger : Fingers,
                            owner : Idents]

Partitions == [parts : BOOLEAN, cert : Idents \cup {Blank}, fw : {"none", "body", "loaded"},
               slate : BOOLEAN]
Database == [storage : BOOLEAN, users : SUBSET Users, prints : SUBSET Store!StoredPrint,
             staged : Records]

\* The types the argument needs.
Shape ==
    /\ flash \in Partitions
    /\ db \in Database
    /\ host \in Hosts /\ ident \in Idents \cup {Empty}
    /\ n \in Nat /\ todo \in SUBSET Users
    /\ gen \in Nat /\ runs \in Nat

\* There is a generation left for the key pair an operation may still make.
KeysLeft ==
    /\ gen + runs <= MaxRuns
    /\ pc \in BeforeKeys => gen + runs < MaxRuns
    /\ pc \in {"partition", "ecdh"} => gen > 0 /\ n > 0

\* A session is on the chip's own identity, and so is a record the chip holds back.
Ours ==
    /\ pc = "handshake" /\ n = 0 /\ ident # Empty => ident = flash.cert /\ ident.host = host
    /\ pc \in InSession => ident \in Idents /\ ident = flash.cert /\ ident.host = host
    /\ db.staged # NoRecord => db.staged.owner = flash.cert

\* Partition 1 is the first to be erased and the last to be written, and the prints are
\* gone before it is.
WriteOrder ==
    /\ pc \in {"erase", "write1"} => ident \in Idents /\ db.staged = NoRecord
    /\ pc = "erase" => n \in 1..5 /\ (n > 1 => flash.cert = Blank)
    /\ pc = "write1" => flash.cert = Blank /\ db.prints = {}

StorageInv == Shape /\ KeysLeft /\ Ours /\ WriteOrder

-----------------------------------------------------------------------------
LEMMA BlankIsNoIdentity == Blank \notin Idents /\ Empty \notin Idents /\ Blank # Empty
BY DEF Blank, Empty, Idents

LEMMA StorageInit == MInit => StorageInv
BY BoundsAssumption DEF MInit, Init, StorageInv, Shape, Partitions, Database, KeysLeft, Ours, WriteOrder, BeforeKeys,
   InSession, Records

\* Steps that neither change what is stored nor the session's identity.
LEMMA Elsewhere ==
  ASSUME StorageInv,
         UNCHANGED <<flash.cert, db, host, gen, runs>>,
         todo' \in SUBSET Users,
         flash' \in Partitions,
         n' \in Nat,
         ident' = ident \/ (ident' = Empty /\ pc' \notin InSession),
         pc' \notin {"erase", "write1", "handshake"},
         pc' \in BeforeKeys => pc \in BeforeKeys,
         pc' \in {"partition", "ecdh"} => pc \in {"partition", "ecdh"} /\ n' >= n,
         pc' \in InSession => pc \in InSession
  PROVE  StorageInv'
BY DEF StorageInv, Shape, KeysLeft, Ours, WriteOrder

LEMMA BootstrapKeeps ==
  ASSUME StorageInv, OpenDevice \/ CloseDevice \/ RomInfo \/ Cmd19 \/ FwInfo \/ InitHardcoded
                     \/ CleanSlateBlob, UNCHANGED pvars
  PROVE  StorageInv'
<1> USE DEF Shape, Database, StorageInv, chip, sess, loop, budget, pvars
<1>1. CASE OpenDevice
  BY <1>1, Elsewhere DEF OpenDevice, BeforeKeys, InSession
<1>2. CASE CloseDevice
  BY <1>2, Elsewhere DEF CloseDevice, BeforeKeys, InSession
<1>3. CASE RomInfo
  <2>1. UNCHANGED <<flash, host, todo, gen, runs, ident>> /\ n' \in Nat
    BY <1>3 DEF RomInfo
  <2>2. db' = db
    BY <1>3 DEF RomInfo
  <2>3. pc = "rominfo" /\ pc' \in {"rominfo", "cmd19", "close"}
    BY <1>3 DEF RomInfo, Send, SendOr, Fail
  <2> QED BY <2>1, <2>2, <2>3, Elsewhere DEF BeforeKeys, InSession
<1>4. CASE Cmd19
  BY <1>4, Elsewhere DEF Cmd19, Send, SendOr, Fail, BeforeKeys, InSession
<1>5. CASE FwInfo
  BY <1>5, Elsewhere DEF FwInfo, Send, SendOr, Fail, BeforeKeys, InSession
<1>6. CASE InitHardcoded
  BY <1>6, Elsewhere DEF InitHardcoded, Send, SendOr, Fail, BeforeKeys, InSession
<1>7. CASE CleanSlateBlob
  BY <1>7, Elsewhere DEF CleanSlateBlob, Send, SendOr, Fail, BeforeKeys, InSession
<1> QED BY <1>1, <1>2, <1>3, <1>4, <1>5, <1>6, <1>7

LEMMA PairingKeeps ==
  ASSUME StorageInv, GetFlashInfo \/ ResetBlob \/ PartitionFlash \/ ReadEcdh \/ TlsOpen
                     \/ EraseFlash \/ WriteTlsFlash, UNCHANGED pvars
  PROVE  StorageInv'
<1> USE DEF Shape, Database, StorageInv, chip, sess, loop, budget, pvars
<1>1. CASE GetFlashInfo
  BY <1>1, Elsewhere DEF GetFlashInfo, Send, SendOr, Fail, BeforeKeys, InSession
<1>2. CASE ResetBlob
  <2>0. PICK r \in Results : Send(r, "partition") /\ gen' = IF r = "ok" THEN gen + 1 ELSE gen
    BY <1>2 DEF ResetBlob
  <2>1. \/ pc' = "close" /\ gen' = gen
        \/ pc' = "partition" /\ gen' = gen + 1
    BY <2>0 DEF Send, SendOr, Fail
  <2>2. pc = "resetblob" /\ UNCHANGED <<flash, db, host, ident, todo, runs>> /\ n' = 1
    BY <1>2 DEF ResetBlob
  <2> QED BY <2>1, <2>2, BoundsAssumption DEF KeysLeft, Ours, WriteOrder, BeforeKeys, InSession
<1>3. CASE PartitionFlash
  <2>1. pc = "partition" /\ pc' \in {"partition", "ecdh", "close"}
    BY <1>3 DEF PartitionFlash, Send, SendOr, Fail
  <2>2. UNCHANGED <<db, host, ident, todo, runs, gen>> /\ n' \in {n, n + 1}
    BY <1>3 DEF PartitionFlash
  <2>3. flash' \in Partitions /\ flash'.cert = flash.cert
    <3>1. PICK b \in BOOLEAN : flash' = [flash EXCEPT !.parts = b]
      <4>1. PICK r \in Results : flash' = [flash EXCEPT !.parts = @ \/ (Done(r) /\ hnd = "live")]
        BY <1>3 DEF PartitionFlash
      <4> DEFINE b == flash.parts \/ (Done(r) /\ hnd = "live")
      <4>2. b \in BOOLEAN
        OBVIOUS
      <4>3. flash' = [flash EXCEPT !.parts = b]
        BY <4>1
      <4> QED BY <4>2, <4>3
    <3> QED BY <3>1 DEF Partitions
  <2> QED BY <2>1, <2>2, <2>3, Elsewhere DEF BeforeKeys, InSession
<1>4. CASE ReadEcdh
  <2>0. PICK r \in Results : /\ Send(r, "handshake")
                             /\ ident' = IF r = "ok" THEN [host |-> host, gen |-> gen] ELSE ident
    BY <1>4 DEF ReadEcdh
  <2>1. \/ pc' = "close" /\ ident' = ident
        \/ pc' = "handshake" /\ ident' = [host |-> host, gen |-> gen]
    BY <2>0 DEF Send, SendOr, Fail
  <2>2. pc = "ecdh" /\ UNCHANGED <<flash, db, host, todo, runs, gen, n>>
    BY <1>4 DEF ReadEcdh
  <2>3. [host |-> host, gen |-> gen] \in Idents
    BY <2>2, BoundsAssumption DEF KeysLeft, Idents
  <2> QED BY <2>1, <2>2, <2>3 DEF KeysLeft, Ours, WriteOrder, BeforeKeys, InSession
<1>5. CASE TlsOpen
  <2>1. pc = "handshake" /\ UNCHANGED <<flash, host, todo, runs, gen>> /\ n' \in {0, 1}
    BY <1>5 DEF TlsOpen
  <2>2. db' \in {db, [db EXCEPT !.staged = NoRecord]}
    BY <1>5 DEF TlsOpen
  <2>3. UNCHANGED ident
    BY <1>5 DEF TlsOpen
  <2>4. \/ pc' \in {"menu", "close"}
        \/ /\ ident # Empty /\ db'.staged = NoRecord
           /\ pc' = IF n > 0 THEN "erase" ELSE "list"
           /\ n' = IF n > 0 THEN 1 ELSE 0
    BY <1>5 DEF TlsOpen, Send, SendOr, Fail, Transfer, Results, Done
  <2> QED BY <2>1, <2>2, <2>3, <2>4 DEF KeysLeft, Ours, WriteOrder, BeforeKeys, InSession, Records
<1>6. CASE EraseFlash
  <2>1. pc = "erase" /\ UNCHANGED <<host, todo, runs, gen, ident>> /\ n' = n + 1
    BY <1>6 DEF EraseFlash
  <2>2. PICK r \in Results :
           /\ Send(r, IF n < 5 THEN "erase" ELSE "write1")
           /\ IF Done(r) /\ hnd = "live"
              THEN /\ flash' = [flash EXCEPT
                           !.cert = IF EraseOrder[n] = 1 THEN Blank ELSE @,
                           !.fw = IF EraseOrder[n] = 2 THEN "none" ELSE @,
                           !.slate = IF EraseOrder[n] = 6 THEN FALSE ELSE @]
                   /\ db' = IF EraseOrder[n] = 4
                            THEN [storage |-> FALSE, users |-> {}, prints |-> {}, staged |-> NoRecord]
                            ELSE db
              ELSE UNCHANGED <<flash, db>>
    <3>1. Len(EraseOrder) = 5
      BY DEF EraseOrder
    <3> QED BY <1>6, <3>1 DEF EraseFlash
  <2>3. (n = 1 => EraseOrder[n] = 1) /\ (n \in 2..5 => EraseOrder[n] # 1) /\ (n = 5 => EraseOrder[n] = 4)
    BY DEF EraseOrder
  <2>4. n \in 1..5
    BY <2>1 DEF WriteOrder
  <2>5. /\ flash' \in Partitions /\ flash'.cert \in {flash.cert, Blank}
        /\ Done(r) /\ hnd = "live" /\ n = 1 => flash'.cert = Blank
    <3>1. CASE ~(Done(r) /\ hnd = "live")
      BY <2>2, <3>1
    <3>2. CASE Done(r) /\ hnd = "live"
      <4> DEFINE c == IF EraseOrder[n] = 1 THEN Blank ELSE flash.cert
                 f == IF EraseOrder[n] = 2 THEN "none" ELSE flash.fw
                 l == IF EraseOrder[n] = 6 THEN FALSE ELSE flash.slate
      <4>1. flash' = [flash EXCEPT !.cert = c, !.fw = f, !.slate = l]
        BY <2>2, <3>2
      <4>2. /\ c \in Idents \cup {Blank} /\ f \in {"none", "body", "loaded"} /\ l \in BOOLEAN
            /\ c \in {flash.cert, Blank} /\ (n = 1 => c = Blank)
        BY <2>3 DEF Partitions
      <4> HIDE DEF c, f, l
      <4> QED BY <4>1, <4>2 DEF Partitions
    <3> QED BY <3>1, <3>2
  <2>6. db' = db \/ db' = [storage |-> FALSE, users |-> {}, prints |-> {}, staged |-> NoRecord]
    BY <2>2
  <2>7. pc' = "close" \/ (pc' = (IF n < 5 THEN "erase" ELSE "write1") /\ hnd = "live" /\ r = "ok")
    BY <2>2 DEF Send, SendOr, Fail, Transfer, Results
  <2>8. pc' # "close" => flash'.cert = Blank /\ (n = 5 => db'.prints = {})
    <3>1. n > 1 => flash.cert = Blank
      BY <2>1 DEF WriteOrder
    <3>2. n = 5 /\ Done(r) /\ hnd = "live" => db' = [storage |-> FALSE, users |-> {}, prints |-> {},
                                                    staged |-> NoRecord]
      BY <2>2, <2>3
    <3> QED BY <2>4, <2>5, <2>7, <3>1, <3>2 DEF Done
  <2>9. db.staged = NoRecord /\ ident \in Idents
    BY <2>1 DEF WriteOrder
  <2>10. Shape' /\ db'.staged = NoRecord
    <3>1. CASE db' = db
      BY <2>1, <2>5, <2>9, <3>1
    <3>2. CASE db' = [storage |-> FALSE, users |-> {}, prints |-> {}, staged |-> NoRecord]
      BY <2>1, <2>5, <3>2 DEF Records
    <3> QED BY <2>6, <3>1, <3>2
  <2> QED BY <2>1, <2>4, <2>7, <2>8, <2>9, <2>10
          DEF KeysLeft, Ours, WriteOrder, BeforeKeys, InSession
<1>7. CASE WriteTlsFlash
  <2>1. pc = "write1" /\ pc' \in {"fwext", "close"}
        /\ UNCHANGED <<db, host, todo, runs, gen, ident, n>>
    BY <1>7 DEF WriteTlsFlash, Send, SendOr, Fail
  <2>2. flash' \in Partitions
    BY <1>7, <2>1 DEF WriteTlsFlash, WriteOrder, Partitions
  <2> QED BY <2>1, <2>2 DEF KeysLeft, Ours, WriteOrder, BeforeKeys, InSession
<1> QED BY <1>1, <1>2, <1>3, <1>4, <1>5, <1>6, <1>7

LEMMA UploadKeeps ==
  ASSUME StorageInv, GetFwInfo \/ HwRegs \/ FirmwareFile \/ WriteFirmware \/ WriteSignature
                     \/ CheckFirmware \/ Reboot \/ Reopen \/ ReadTlsFlash, UNCHANGED pvars
  PROVE  StorageInv'
<1> USE DEF Shape, Database, StorageInv, chip, sess, loop, budget, pvars
<1>1. CASE GetFwInfo
  <2>1. UNCHANGED <<flash, db, host, ident, gen, runs>> /\ n' = 0
    BY <1>1 DEF GetFwInfo
  <2>2. pc' \in {"fwreg", "reopen", "readtls", "close"}
    BY <1>1 DEF GetFwInfo, Send, SendOr, Fail, AfterFwext
  <2> QED BY <2>1, <2>2, Elsewhere DEF BeforeKeys, InSession
<1>2. CASE HwRegs
  BY <1>2, Elsewhere DEF HwRegs, Send, SendOr, Fail, BeforeKeys, InSession
<1>3. CASE FirmwareFile
  BY <1>3, Elsewhere DEF FirmwareFile, Fail, BeforeKeys, InSession
<1>4. CASE WriteFirmware
  <2>1. UNCHANGED <<db, host, ident, gen, runs>> /\ n' \in Nat
    BY <1>4 DEF WriteFirmware
  <2>2. pc' \in {"fwbody", "fwsig", "close"}
    BY <1>4 DEF WriteFirmware, Send, SendOr, Fail
  <2>3. flash' \in Partitions /\ flash'.cert = flash.cert
    BY <1>4 DEF WriteFirmware, Partitions
  <2> QED BY <2>1, <2>2, <2>3, Elsewhere DEF BeforeKeys, InSession
<1>5. CASE WriteSignature
  <2>1. UNCHANGED <<db, host, ident, gen, runs, n>> /\ pc' \in {"fwcheck", "close"}
    BY <1>5 DEF WriteSignature, Send, SendOr, Fail
  <2>2. flash' \in Partitions /\ flash'.cert = flash.cert
    BY <1>5 DEF WriteSignature, Partitions
  <2> QED BY <2>1, <2>2, Elsewhere DEF BeforeKeys, InSession
<1>6. CASE CheckFirmware
  BY <1>6, Elsewhere DEF CheckFirmware, Send, SendOr, Fail, BeforeKeys, InSession
<1>7. CASE Reboot
  <2>1. UNCHANGED <<flash, db, host, ident, gen, runs, n>>
    BY <1>7 DEF Reboot
  <2>2. pc' \in {"reopen", "close"}
    BY <1>7 DEF Reboot, SendOr, Fail
  <2> QED BY <2>1, <2>2, Elsewhere DEF BeforeKeys, InSession
<1>8. CASE Reopen
  BY <1>8, Elsewhere DEF Reopen, Fail, BeforeKeys, InSession
<1>9. CASE ReadTlsFlash
  <2>1. UNCHANGED <<flash, db, host, gen, runs>> /\ n' = 0
    BY <1>9 DEF ReadTlsFlash
  <2>2. \/ pc' = "close" /\ ident' = ident
        \/ pc' = "handshake" /\ ident' = Parsed /\ ~ParseFails
    BY <1>9 DEF ReadTlsFlash, Send, SendOr, Fail
  <2>3. ident' = Parsed /\ ~ParseFails =>
           ident' \in Idents \cup {Empty} /\ (ident' # Empty => ident' = flash.cert /\ ident'.host = host)
    BY DEF Parsed, ParseFails, Partitions
  <2> QED BY <2>1, <2>2, <2>3 DEF KeysLeft, Ours, WriteOrder, BeforeKeys, InSession
<1> QED BY <1>1, <1>2, <1>3, <1>4, <1>5, <1>6, <1>7, <1>8, <1>9

-----------------------------------------------------------------------------
\* A step of a session that leaves the pairing alone and holds back no record but its own.
LEMMA InsideSession ==
  ASSUME StorageInv, pc \in InSession, pc' \in InSession \cup {"close", "menu"},
         UNCHANGED <<flash.cert, ident, host, gen, runs>>,
         flash' \in Partitions, db' \in Database, n' \in Nat, todo' \in SUBSET Users,
         db'.staged = db.staged \/ db'.staged = NoRecord \/ db'.staged.owner = ident
  PROVE  StorageInv'
BY DEF StorageInv, Shape, KeysLeft, Ours, WriteOrder, BeforeKeys, InSession

LEMMA RecordsKeep ==
  ASSUME StorageInv, ListRecords \/ WipeRead \/ DeleteUser \/ WipeVerify
  PROVE  StorageInv'
<1> USE DEF Shape, StorageInv, chip, sess, loop, budget, pvars
<1>1. CASE ListRecords
  <2>1. pc = "list" /\ UNCHANGED <<flash, db, ident, host, gen, runs, todo>> /\ n' = 0
    BY <1>1 DEF ListRecords
  <2>2. pc' \in {"list", "wipe", "factory", "ready", "close"}
    BY <1>1 DEF ListRecords, Finish, Fail, AfterRecords, Send, SendOr
  <2> QED BY <2>1, <2>2, InsideSession DEF InSession
<1>2. CASE WipeRead
  <2>1. pc = "wipe" /\ UNCHANGED <<flash, db, ident, host, gen, runs, n>> /\ todo' \in SUBSET db.users
    BY <1>2 DEF WipeRead
  <2>2. pc' \in {"wiped", "delete", "close"}
    BY <1>2 DEF WipeRead, Fail, Send, SendOr
  <2> QED BY <2>1, <2>2, InsideSession DEF InSession, Database
<1>3. CASE DeleteUser
  <2>1. pc = "delete" /\ UNCHANGED <<flash, ident, host, gen, runs, n>>
    BY <1>3 DEF DeleteUser
  <2>2. pc' \in {"wiped", "delete", "close"}
    BY <1>3 DEF DeleteUser, Fail, Send, SendOr
  <2>3. PICK u \in todo :
           /\ todo' = todo \ {u}
           /\ \/ UNCHANGED db
              \/ db' = [db EXCEPT !.users = @ \ {u}, !.prints = {p \in @ : p.user # u}]
    BY <1>3 DEF DeleteUser
  <2>4. db' \in Database /\ db'.staged = db.staged
    BY <2>3 DEF Database
  <2> QED BY <2>1, <2>2, <2>3, <2>4, InsideSession DEF InSession
<1>4. CASE WipeVerify
  <2>1. pc = "wiped" /\ UNCHANGED <<flash, db, ident, host, gen, runs, n, todo>>
    BY <1>4 DEF WipeVerify
  <2>2. pc' \in {"wiped", "factory", "close"}
    BY <1>4 DEF WipeVerify, Finish, Fail, Send, SendOr
  <2> QED BY <2>1, <2>2, InsideSession DEF InSession
<1> QED BY <1>1, <1>2, <1>3, <1>4

LEMMA CalibrationKeeps ==
  ASSUME StorageInv, FactoryBits \/ Calibrate \/ EraseSlate \/ WriteSlate
  PROVE  StorageInv'
<1> USE DEF Shape, StorageInv, chip, sess, loop, budget, pvars
<1>1. CASE FactoryBits
  <2>1. pc = "factory" /\ pc' \in {"calib", "close"}
    BY <1>1 DEF FactoryBits, Send, SendOr, Fail
  <2>2. UNCHANGED <<flash, db, ident, host, gen, runs, todo>> /\ n' = 0
    BY <1>1 DEF FactoryBits
  <2> QED BY <2>1, <2>2, InsideSession DEF InSession
<1>2. CASE Calibrate
  <2>1. pc = "calib" /\ pc' \in {"calib", "erase6", "close"}
    BY <1>2 DEF Calibrate, Send, SendOr, Fail
  <2>2. UNCHANGED <<flash, db, ident, host, gen, runs, todo>> /\ n' = n + 1
    BY <1>2 DEF Calibrate
  <2> QED BY <2>1, <2>2, InsideSession DEF InSession
<1>3. CASE EraseSlate
  <2>1. pc = "erase6" /\ pc' \in {"write6", "close"}
    BY <1>3 DEF EraseSlate, Send, SendOr, Fail
  <2>2. UNCHANGED <<db, ident, host, gen, runs, todo, n>>
    BY <1>3 DEF EraseSlate
  <2>3. flash' \in Partitions /\ flash'.cert = flash.cert
    BY <1>3 DEF EraseSlate, Partitions
  <2> QED BY <2>1, <2>2, <2>3, InsideSession DEF InSession
<1>4. CASE WriteSlate
  <2>1. pc = "write6" /\ pc' \in {"create", "touch", "ready", "close"}
    BY <1>4 DEF WriteSlate, Send, SendOr, Fail, Finish
  <2>2. UNCHANGED <<db, ident, host, gen, runs, todo>> /\ n' = 0
    BY <1>4 DEF WriteSlate
  <2>3. flash' \in Partitions /\ flash'.cert = flash.cert
    BY <1>4 DEF WriteSlate, Partitions
  <2> QED BY <2>1, <2>2, <2>3, InsideSession DEF InSession
<1> QED BY <1>1, <1>2, <1>3, <1>4

LEMMA CaptureKeeps ==
  ASSUME StorageInv, CreateEnrollment \/ CaptureStart \/ StartInterrupt \/ FingerInterrupt
                     \/ CompleteInterrupt \/ CaptureStatus \/ CaptureStop \/ MatchFinger
  PROVE  StorageInv'
<1> USE DEF Shape, StorageInv, chip, sess, loop, budget, pvars
<1>1. UNCHANGED <<flash, db, ident, host, gen, runs, todo>>
  BY DEF CreateEnrollment, CaptureStart, StartInterrupt, FingerInterrupt, CompleteInterrupt,
         CaptureStatus, CaptureStop, MatchFinger
<1>2. pc \in {"create", "touch", "start", "finger", "complete", "status", "stop", "match"}
  BY DEF CreateEnrollment, CaptureStart, StartInterrupt, FingerInterrupt, CompleteInterrupt,
         CaptureStatus, CaptureStop, MatchFinger
<1>3. pc' \in InSession \cup {"close"}
  BY DEF CreateEnrollment, CaptureStart, StartInterrupt, FingerInterrupt, CompleteInterrupt,
         CaptureStatus, CaptureStop, MatchFinger, Send, SendOr, Fail, Finish, InSession
<1>4. n' \in {0, n, n + 1}
  BY DEF CreateEnrollment, CaptureStart, StartInterrupt, FingerInterrupt, CompleteInterrupt,
         CaptureStatus, CaptureStop, MatchFinger, NextAttempt
<1> QED BY <1>1, <1>2, <1>3, <1>4, InsideSession DEF InSession

\* What a commit makes of the prints: those there were and, when a finger was held back,
\* its print, owned by the identity of the session that made it.
LEMMA CommittedPrints ==
  ASSUME Shape
  PROVE  /\ Committed \in Database /\ Committed.staged = NoRecord
         /\ \/ Committed.prints = db.prints
            \/ /\ db.staged # NoRecord
               /\ \E p \in Store!StoredPrint :
                     p.owner = db.staged.owner /\ Committed.prints = db.prints \cup {p}
<1> DEFINE print == [user |-> HtidUser, finger |-> db.staged.finger, owner |-> db.staged.owner]
           st == db.storage \/ (db.staged.kind = "storage")
           us == db.users \cup (IF db.staged.kind = "user" THEN {HtidUser} ELSE {})
           pr == db.prints \cup (IF db.staged.kind = "finger" THEN {print} ELSE {})
<1>1. Committed = [db EXCEPT !.staged = NoRecord, !.storage = st, !.users = us, !.prints = pr]
  BY DEF Committed
<1>2. db \in Database
  BY DEF Shape
<1>3. us \in SUBSET Users
  BY <1>2 DEF Database, Users
<1>4. db.staged.kind = "finger" => db.staged # NoRecord /\ print \in Store!StoredPrint
  BY <1>2 DEF Database, Records, NoRecord, Users, Store!StoredPrint
<1>5. pr \in SUBSET Store!StoredPrint
  BY <1>2, <1>4 DEF Database
<1>6. st \in BOOLEAN /\ NoRecord \in Records
  BY <1>2 DEF Database, Records
<1>7. pr = db.prints \/ (db.staged.kind = "finger" /\ pr = db.prints \cup {print})
  OBVIOUS
<1>8. print.owner = db.staged.owner
  OBVIOUS
<1> HIDE DEF print, st, us, pr
<1>9. Committed \in Database /\ Committed.staged = NoRecord /\ Committed.prints = pr
  BY <1>1, <1>2, <1>3, <1>5, <1>6 DEF Database
<1> QED BY <1>4, <1>7, <1>8, <1>9

LEMMA EnrolKeeps ==
  ASSUME StorageInv, UpdateEnrollment \/ StageRecord \/ CommitRecord
  PROVE  StorageInv'
<1> USE DEF StorageInv, chip, sess, loop, budget, pvars
<1>1. CASE UpdateEnrollment
  <2>1. UNCHANGED <<flash, db, ident, host, gen, runs, todo, n>> /\ pc = "update"
    BY <1>1 DEF UpdateEnrollment
  <2>2. pc' \in {"touch", "record"}
    BY <1>1 DEF UpdateEnrollment
  <2> QED BY <2>1, <2>2, InsideSession DEF InSession, Shape
<1>2. CASE StageRecord
  <2>1. UNCHANGED <<flash, ident, host, gen, runs, todo, n>> /\ pc = "record"
    BY <1>2 DEF StageRecord
  <2>2. pc' \in {"commit", "close"}
    BY <1>2 DEF StageRecord, Send, SendOr, Fail
  <2>3. ident \in Idents
    BY <2>1 DEF Ours, InSession
  <2>4. \/ db' = db
        \/ \E f \in Fingers :
              db' = [db EXCEPT !.staged = [kind |-> NextRecord, finger |-> f, owner |-> ident]]
    BY <1>2 DEF StageRecord
  <2>5. NextRecord \in {"storage", "user", "finger"}
    BY DEF NextRecord
  <2>6. db' \in Database /\ (db'.staged = db.staged \/ db'.staged.owner = ident)
    <3>1. CASE db' = db
      BY <3>1 DEF Shape
    <3>2. ASSUME NEW f \in Fingers,
                 db' = [db EXCEPT !.staged = [kind |-> NextRecord, finger |-> f, owner |-> ident]]
          PROVE  db' \in Database /\ db'.staged.owner = ident
      <4> DEFINE rec == [kind |-> NextRecord, finger |-> f, owner |-> ident]
      <4>1. rec \in Records /\ rec.owner = ident
        BY <2>3, <2>5 DEF Records
      <4>2. db' = [db EXCEPT !.staged = rec]
        BY <3>2
      <4> HIDE DEF rec
      <4> QED BY <4>1, <4>2 DEF Shape, Database
    <3> QED BY <2>4, <3>1, <3>2
  <2> QED BY <2>1, <2>2, <2>6, InsideSession DEF InSession, Shape
<1>3. CASE CommitRecord
  <2>1. UNCHANGED <<flash, ident, host, gen, runs, todo, n>> /\ pc = "commit"
    BY <1>3 DEF CommitRecord
  <2>2. pc' \in {"record", "close"}
    BY <1>3 DEF CommitRecord, Fail, Finish
  <2>3. db' \in {db, Committed}
    BY <1>3 DEF CommitRecord
  <2> QED BY <2>1, <2>2, <2>3, CommittedPrints, InsideSession DEF InSession, Shape
<1> QED BY <1>1, <1>2, <1>3

\* The print another program stores under the same pairing.
OtherPrint(f) == [user |-> OtherUser, finger |-> f, owner |-> flash.cert]

LEMMA EnvKeeps ==
  ASSUME StorageInv, EnvNext
  PROVE  StorageInv'
<1> USE DEF StorageInv, chip, sess, loop, budget, pvars
<1>1. CASE (\E md \in PairModes \cup SessionModes, h \in Hosts : Start(md, h)) /\ UNCHANGED pvars
  <2>1. UNCHANGED <<flash, db, ident, gen, todo>> /\ host' \in Hosts /\ n' = 0
        /\ pc = "menu" /\ pc' = "open" /\ runs > 0 /\ runs' = runs - 1
    BY <1>1 DEF Start
  <2>2. Shape'
    BY <2>1 DEF Shape
  <2>3. KeysLeft'
    BY <2>1, BoundsAssumption DEF Shape, KeysLeft
  <2>4. Ours' /\ WriteOrder'
    BY <2>1 DEF Ours, WriteOrder, InSession
  <2> QED BY <2>2, <2>3, <2>4
<1>2. CASE Die /\ UNCHANGED <<todo, cap>> /\ calibrated' = FALSE
  BY <1>2, Elsewhere DEF Die, Shape, BeforeKeys, InSession
<1>3. CASE Replug /\ UNCHANGED pvars
  <2>1. UNCHANGED <<flash, pc, host, ident, n, gen, runs, todo>>
        /\ db' = [db EXCEPT !.staged = NoRecord]
    BY <1>3 DEF Replug
  <2>2. db' \in Database /\ db'.staged = NoRecord /\ db'.prints = db.prints
    BY <2>1 DEF Shape, Database, Records
  <2> QED BY <2>1, <2>2 DEF Shape, KeysLeft, Ours, WriteOrder
<1>4. CASE AgentIdentify
  BY <1>4, InsideSession DEF AgentIdentify, InSession, Shape
<1>5. CASE AgentClose
  BY <1>5, InsideSession DEF AgentClose, Finish, Fail, InSession, Shape
<1>6. CASE OtherEnrols
  <2>1. UNCHANGED <<flash, pc, host, ident, n, gen, todo>> /\ pc = "menu"
        /\ runs > 0 /\ runs' = runs - 1 /\ flash.cert # Blank
    BY <1>6 DEF OtherEnrols
  <2>2. PICK f \in Fingers :
           db' = [db EXCEPT !.storage = TRUE, !.users = @ \cup {OtherUser},
                            !.prints = @ \cup {OtherPrint(f)}]
    BY <1>6 DEF OtherEnrols, OtherPrint
  <2>3. OtherPrint(f) \in Store!StoredPrint /\ OtherUser \in Users
    BY <2>1 DEF OtherPrint, Shape, Partitions, Users, Store!StoredPrint
  <2>4. db' \in Database /\ db'.staged = db.staged
    BY <2>2, <2>3 DEF Shape, Database
  <2>5. Shape'
    BY <2>1, <2>4 DEF Shape
  <2>6. KeysLeft'
    BY <2>1, BoundsAssumption DEF Shape, KeysLeft, BeforeKeys
  <2>7. Ours' /\ WriteOrder'
    BY <2>1, <2>4 DEF Ours, WriteOrder, InSession
  <2> QED BY <2>5, <2>6, <2>7
<1> QED BY <1>1, <1>2, <1>3, <1>4, <1>5, <1>6 DEF EnvNext

LEMMA StorageStep ==
  ASSUME StorageInv, [MNext]_allVars
  PROVE  StorageInv'
<1>1. CASE UNCHANGED allVars
  BY <1>1 DEF allVars, vars, pvars, StorageInv, Shape, KeysLeft, Ours, WriteOrder
<1>2. CASE EnvNext
  BY <1>2, EnvKeeps
<1>3. CASE HostNext
  BY <1>3, BootstrapKeeps, PairingKeeps, UploadKeeps, RecordsKeep, CalibrationKeeps,
     CaptureKeeps, EnrolKeeps DEF HostNext
<1> QED BY <1>1, <1>2, <1>3 DEF MNext

\* The inductive invariant of the storage: whatever is lost or interrupted, a session is
\* on the chip's own identity, partition 1 is blank from its erasure to its rewriting, and
\* the prints are gone before it is written again.
THEOREM StorageCorrect == MSpec => []StorageInv
<1>1. MInit => StorageInv
  BY StorageInit
<1>2. StorageInv /\ [MNext]_allVars => StorageInv'
  BY StorageStep
<1> QED BY <1>1, <1>2, PTL DEF MSpec

-----------------------------------------------------------------------------
\* The steps that leave the abstract storage as it is.
LEMMA Stutters ==
  ASSUME StorageInv,
         \/ HostNext /\ ~((EraseFlash \/ WriteTlsFlash) /\ UNCHANGED pvars)
                     /\ ~DeleteUser /\ ~CommitRecord
         \/ EnvNext /\ ~OtherEnrols
         \/ UNCHANGED allVars
  PROVE  UNCHANGED <<flash.cert, db.prints>>
<1> USE DEF StorageInv, Shape, Partitions, Database, chip, sess, loop, budget, pvars
<1>1. CASE UNCHANGED allVars
  BY <1>1 DEF allVars, vars
<1>2. CASE EnvNext /\ ~OtherEnrols
  BY <1>2 DEF EnvNext, Start, Die, Replug, AgentIdentify, AgentClose
<1>3. CASE OpenDevice \/ CloseDevice \/ RomInfo \/ Cmd19 \/ FwInfo \/ InitHardcoded
           \/ CleanSlateBlob \/ GetFlashInfo \/ ResetBlob
  BY <1>3 DEF OpenDevice, CloseDevice, RomInfo, Cmd19, FwInfo, InitHardcoded, CleanSlateBlob,
     GetFlashInfo, ResetBlob
<1>4. CASE PartitionFlash \/ ReadEcdh \/ TlsOpen
  BY <1>4 DEF PartitionFlash, ReadEcdh, TlsOpen
<1>5. CASE GetFwInfo \/ HwRegs \/ FirmwareFile \/ WriteFirmware \/ WriteSignature
           \/ CheckFirmware \/ Reboot \/ Reopen \/ ReadTlsFlash
  BY <1>5 DEF GetFwInfo, HwRegs, FirmwareFile, WriteFirmware, WriteSignature, CheckFirmware,
     Reboot, Reopen, ReadTlsFlash
<1>6. CASE ListRecords \/ WipeRead \/ WipeVerify \/ FactoryBits \/ Calibrate \/ EraseSlate
           \/ WriteSlate
  BY <1>6 DEF ListRecords, WipeRead, WipeVerify, FactoryBits, Calibrate, EraseSlate, WriteSlate
<1>7. CASE CreateEnrollment \/ CaptureStart \/ StartInterrupt \/ FingerInterrupt
           \/ CompleteInterrupt \/ CaptureStatus \/ CaptureStop \/ MatchFinger
  BY <1>7 DEF CreateEnrollment, CaptureStart, StartInterrupt, FingerInterrupt,
     CompleteInterrupt, CaptureStatus, CaptureStop, MatchFinger
<1>8. CASE UpdateEnrollment \/ StageRecord
  BY <1>8 DEF UpdateEnrollment, StageRecord
<1> QED BY <1>1, <1>2, <1>3, <1>4, <1>5, <1>6, <1>7, <1>8 DEF HostNext

\* The steps of the storage: the erasures forget, writing partition 1 adopts, deleting a
\* user removes, and a committed finger or another program's print enrols.
LEMMA StoreStep ==
  ASSUME StorageInv, [MNext]_allVars
  PROVE  [Store!Next]_<<flash.cert, db.prints>>
<1> USE DEF StorageInv
<1>1. CASE EraseFlash /\ UNCHANGED pvars
  <2>1. pc = "erase" /\ n \in 1..5 /\ (n > 1 => flash.cert = Blank)
    BY <1>1 DEF EraseFlash, WriteOrder
  <2>2. (n = 1 => EraseOrder[n] = 1) /\ (n \in 2..5 => EraseOrder[n] # 1)
        /\ (EraseOrder[n] = 4 => n > 1)
    BY <2>1 DEF EraseOrder
  <2> DEFINE c == IF EraseOrder[n] = 1 THEN Blank ELSE flash.cert
             w == IF EraseOrder[n] = 2 THEN "none" ELSE flash.fw
             l == IF EraseOrder[n] = 6 THEN FALSE ELSE flash.slate
             d == IF EraseOrder[n] = 4
                  THEN [storage |-> FALSE, users |-> {}, prints |-> {}, staged |-> NoRecord]
                  ELSE db
  <2>5. \/ flash' = flash /\ db' = db
        \/ flash' = [flash EXCEPT !.cert = c, !.fw = w, !.slate = l] /\ db' = d
    BY <1>1 DEF EraseFlash
  <2>6. d.prints = (IF EraseOrder[n] = 4 THEN {} ELSE db.prints)
    OBVIOUS
  <2>7. [flash EXCEPT !.cert = c, !.fw = w, !.slate = l].cert = c
    BY DEF Shape, Partitions
  <2>3. \/ flash' = flash /\ db' = db
        \/ /\ flash'.cert = (IF EraseOrder[n] = 1 THEN Blank ELSE flash.cert)
           /\ db'.prints = (IF EraseOrder[n] = 4 THEN {} ELSE db.prints)
    <3>1. c = (IF EraseOrder[n] = 1 THEN Blank ELSE flash.cert)
      OBVIOUS
    <3> HIDE DEF c, w, l, d
    <3>2. ASSUME flash' = [flash EXCEPT !.cert = c, !.fw = w, !.slate = l], db' = d
          PROVE  flash'.cert = c /\ db'.prints = d.prints
      BY <2>7, <3>2
    <3> QED BY <2>5, <2>6, <3>1, <3>2
  <2> HIDE DEF c, w, l, d
  <2>4. \/ UNCHANGED <<flash.cert, db.prints>>
        \/ flash'.cert = Blank /\ db'.prints \in {{}, db.prints}
    BY <2>1, <2>2, <2>3
  <2> QED BY <2>4 DEF Store!Next, Store!Forget
<1>2. CASE WriteTlsFlash /\ UNCHANGED pvars
  <2>1. pc = "write1" /\ flash.cert = Blank /\ db.prints = {} /\ ident \in Idents
    BY <1>2 DEF WriteTlsFlash, WriteOrder
  <2>2. db' = db /\ (flash' = flash \/ flash'.cert = ident)
    BY <1>2 DEF WriteTlsFlash, Shape, Partitions
  <2>3. UNCHANGED <<flash.cert, db.prints>> \/ Store!Adopt(ident)
    BY <2>1, <2>2 DEF Store!Adopt
  <2> QED BY <2>1, <2>3 DEF Store!Next
<1>3. CASE DeleteUser
  <2>1. flash' = flash /\ pc = "delete"
    BY <1>3 DEF DeleteUser
  <2>2. PICK u \in todo :
           \/ db' = db
           \/ db' = [db EXCEPT !.users = @ \ {u}, !.prints = {p \in @ : p.user # u}]
    BY <1>3 DEF DeleteUser
  <2>3. u \in Users /\ flash.cert # Blank
    BY <2>1, <2>2, BlankIsNoIdentity DEF Shape, Ours, InSession
  <2>4. UNCHANGED <<flash.cert, db.prints>> \/ Store!Remove(u)
    BY <2>1, <2>2, <2>3 DEF Store!Remove, Shape, Database
  <2> QED BY <2>3, <2>4 DEF Store!Next
<1>4. CASE CommitRecord
  <2>1. flash' = flash /\ pc = "commit" /\ db' \in {db, Committed}
    BY <1>4 DEF CommitRecord
  <2>2. flash.cert # Blank /\ (db.staged # NoRecord => db.staged.owner = flash.cert)
    BY <2>1, BlankIsNoIdentity DEF Ours, InSession
  <2>3. \/ UNCHANGED <<flash.cert, db.prints>>
        \/ \E p \in Store!StoredPrint : Store!Enrol(p)
    BY <2>1, <2>2, CommittedPrints DEF Store!Enrol
  <2> QED BY <2>3 DEF Store!Next
<1>5. CASE OtherEnrols
  <2>1. flash' = flash /\ flash.cert # Blank
    BY <1>5 DEF OtherEnrols
  <2>2. PICK f \in Fingers :
           db' = [db EXCEPT !.storage = TRUE, !.users = @ \cup {OtherUser},
                            !.prints = @ \cup {OtherPrint(f)}]
    BY <1>5 DEF OtherEnrols, OtherPrint
  <2>3. OtherPrint(f) \in Store!StoredPrint /\ OtherPrint(f).owner = flash.cert
    BY <2>1 DEF OtherPrint, Shape, Partitions, Users, Store!StoredPrint
  <2>4. db'.prints = db.prints \cup {OtherPrint(f)}
    BY <2>2 DEF Shape, Database
  <2> QED BY <2>1, <2>3, <2>4 DEF Store!Next, Store!Enrol
<1> QED BY <1>1, <1>2, <1>3, <1>4, <1>5, Stutters DEF MNext

\* The operations implement the storage: no interruption of a pairing leaves prints under
\* an identity they were not made with, and no record is added under one that is not the
\* chip's.
THEOREM StorageImplementsStore == MSpec => PrintsFollowPairing
<1>1. MInit => Store!Init
  BY DEF MInit, Init, Store!Init
<1>2. StorageInv /\ [MNext]_allVars => [Store!Next]_<<flash.cert, db.prints>>
  BY StoreStep
<1> QED BY <1>1, <1>2, StorageCorrect, PTL DEF MSpec, PrintsFollowPairing, Store!Spec

\* What is read, stored or matched in a session is of the pairing in force: in every
\* session the identity is the one on the chip, and of this host.
THEOREM SessionsAreOurs == MSpec => []SessionIsOurs
<1>1. StorageInv => SessionIsOurs
  BY DEF StorageInv, Ours, SessionIsOurs, InSession
<1> QED BY <1>1, StorageCorrect, PTL

-----------------------------------------------------------------------------
\* While nothing has failed, an operation has a usable handle and the chip waits for a
\* finger only during a capture.
CaptureInv ==
    /\ faults \in 0..MaxFaults
    /\ faults = MaxFaults =>
          /\ pc \notin {"menu", "open", "close", "reopen"} => hnd = "live"
          /\ armed => pc \in CapturePcs

LEMMA TransferCosts ==
  ASSUME faults \in 0..MaxFaults, NEW r, Transfer(r)
  PROVE  faults' \in 0..MaxFaults /\ (faults' = MaxFaults => faults = MaxFaults)
         /\ (faults' = MaxFaults /\ hnd = "live" => r = "ok")
BY BoundsAssumption DEF Transfer

LEMMA CaptureOutside ==
  ASSUME CaptureInv, faults' \in 0..MaxFaults, faults' = MaxFaults => faults = MaxFaults,
         faults' = MaxFaults =>
            /\ armed' => armed
            /\ hnd' = hnd \/ pc' \in {"menu", "close", "reopen"}
            /\ pc \notin CapturePcs
            /\ pc \notin {"menu", "open", "close", "reopen"} \/ pc' \in {"menu", "open", "close", "reopen"}
  PROVE  CaptureInv'
BY DEF CaptureInv

LEMMA CaptureBootstrap ==
  ASSUME CaptureInv, OpenDevice \/ CloseDevice \/ RomInfo \/ Cmd19 \/ FwInfo \/ InitHardcoded
                     \/ CleanSlateBlob \/ GetFlashInfo \/ ResetBlob
  PROVE  CaptureInv'
<1> USE DEF CaptureInv, chip, sess, loop, budget, CapturePcs
<1>1. CASE OpenDevice
  BY <1>1, BoundsAssumption DEF OpenDevice
<1>2. CASE CloseDevice
  BY <1>2 DEF CloseDevice
<1>3. CASE RomInfo
  <2>1. pc = "rominfo" /\ (armed' => armed)
    BY <1>3 DEF RomInfo
  <2>2. \/ \E r \in Results : Transfer(r) /\ hnd' = hnd
        \/ UNCHANGED faults /\ (hnd' = hnd \/ pc' = "close" \/ hnd' = "live")
        \/ faults > 0 /\ faults' = faults - 1
    BY <1>3 DEF RomInfo, Send, SendOr
  <2> QED BY <2>1, <2>2, TransferCosts, BoundsAssumption
<1>4. CASE Cmd19 \/ FwInfo \/ InitHardcoded \/ CleanSlateBlob \/ GetFlashInfo \/ ResetBlob
  <2>1. UNCHANGED <<hnd, armed>> /\ pc \in {"cmd19", "fwinfo", "hardcoded", "cleanslate", "tlsinit", "resetblob"}
    BY <1>4 DEF Cmd19, FwInfo, InitHardcoded, CleanSlateBlob, GetFlashInfo, ResetBlob
  <2>2. UNCHANGED faults \/ \E r \in Results : Transfer(r)
    BY <1>4 DEF Cmd19, FwInfo, InitHardcoded, CleanSlateBlob, GetFlashInfo, ResetBlob, Send, SendOr
  <2> QED BY <2>1, <2>2, TransferCosts, CaptureOutside
<1> QED BY <1>1, <1>2, <1>3, <1>4

LEMMA CapturePairing ==
  ASSUME CaptureInv, PartitionFlash \/ ReadEcdh \/ TlsOpen \/ EraseFlash \/ WriteTlsFlash
                     \/ GetFwInfo \/ HwRegs \/ FirmwareFile \/ WriteFirmware \/ WriteSignature
                     \/ CheckFirmware \/ Reboot \/ Reopen \/ ReadTlsFlash
  PROVE  CaptureInv'
<1> USE DEF chip, sess, loop, budget
<1>1. CASE TlsOpen
  <2>1. pc = "handshake" /\ armed' = armed
    BY <1>1 DEF TlsOpen
  <2>2. \/ hnd' = hnd /\ \E r \in Results : Transfer(r)
        \/ pc' = "menu" /\ UNCHANGED faults
    BY <1>1 DEF TlsOpen, Send, SendOr
  <2> QED BY <2>1, <2>2, TransferCosts, CaptureOutside DEF CaptureInv, CapturePcs
<1>2. CASE Reboot
  <2>1. pc = "reboot" /\ (armed' => armed) /\ pc' \in {"reopen", "close"}
    BY <1>2 DEF Reboot, SendOr, Fail
  <2>2. \E r \in Results : Transfer(r)
    BY <1>2 DEF Reboot, SendOr
  <2> QED BY <2>1, <2>2, TransferCosts, CaptureOutside DEF CaptureInv, CapturePcs
<1>3. CASE Reopen
  BY <1>3, BoundsAssumption DEF Reopen, Fail, CaptureInv, CapturePcs
<1>4. CASE PartitionFlash \/ ReadEcdh \/ EraseFlash \/ WriteTlsFlash \/ WriteSignature \/ ReadTlsFlash
  <2>1. UNCHANGED <<hnd, armed>>
        /\ pc \in {"partition", "ecdh", "erase", "write1", "fwsig", "readtls"}
    BY <1>4 DEF PartitionFlash, ReadEcdh, EraseFlash, WriteTlsFlash, WriteSignature, ReadTlsFlash
  <2>2. \E r \in Results : Transfer(r)
    BY <1>4 DEF PartitionFlash, ReadEcdh, EraseFlash, WriteTlsFlash, WriteSignature, ReadTlsFlash, Send, SendOr
  <2> QED BY <2>1, <2>2, TransferCosts, CaptureOutside DEF CaptureInv, CapturePcs
<1>5. CASE GetFwInfo \/ HwRegs \/ FirmwareFile \/ WriteFirmware \/ CheckFirmware
  <2>1. UNCHANGED <<hnd, armed>>
        /\ pc \in {"fwext", "fwreg", "fwfile", "fwbody", "fwcheck"}
    BY <1>5 DEF GetFwInfo, HwRegs, FirmwareFile, WriteFirmware, CheckFirmware
  <2>2. \/ UNCHANGED faults
        \/ faults > 0 /\ faults' = faults - 1
        \/ \E r \in Results : Transfer(r)
    BY <1>5 DEF GetFwInfo, HwRegs, FirmwareFile, WriteFirmware, CheckFirmware, Send, SendOr
  <2>3. faults' \in 0..MaxFaults /\ (faults' = MaxFaults => faults = MaxFaults)
    BY <2>2, TransferCosts, BoundsAssumption DEF CaptureInv
  <2> QED BY <2>1, <2>3, CaptureOutside DEF CapturePcs
<1> QED BY <1>1, <1>2, <1>3, <1>4, <1>5

LEMMA CaptureRecords ==
  ASSUME CaptureInv, ListRecords \/ WipeRead \/ DeleteUser \/ WipeVerify \/ FactoryBits \/ Calibrate
                     \/ EraseSlate \/ WriteSlate \/ CreateEnrollment \/ UpdateEnrollment
                     \/ StageRecord \/ CommitRecord \/ MatchFinger
  PROVE  CaptureInv'
<1> USE DEF chip, sess, loop, budget, pvars
<1>1. UNCHANGED <<hnd, armed>>
      /\ pc \in {"list", "wipe", "delete", "wiped", "factory", "calib", "erase6", "write6", "create",
                 "update", "record", "commit", "match"}
  BY DEF ListRecords, WipeRead, DeleteUser, WipeVerify, FactoryBits, Calibrate, EraseSlate, WriteSlate,
     CreateEnrollment, UpdateEnrollment, StageRecord, CommitRecord, MatchFinger
<1>2. UNCHANGED faults \/ \E r \in Results : Transfer(r)
  <2>1. CASE ListRecords \/ WipeRead \/ DeleteUser \/ WipeVerify
    BY <2>1 DEF ListRecords, WipeRead, DeleteUser, WipeVerify, Send, SendOr, Results
  <2>2. CASE FactoryBits \/ Calibrate \/ EraseSlate \/ WriteSlate \/ CreateEnrollment
    BY <2>2 DEF FactoryBits, Calibrate, EraseSlate, WriteSlate, CreateEnrollment, Send, SendOr
  <2>3. CASE UpdateEnrollment \/ StageRecord \/ CommitRecord \/ MatchFinger
    BY <2>3 DEF UpdateEnrollment, StageRecord, CommitRecord, MatchFinger, Send, SendOr, Results
  <2> QED BY <2>1, <2>2, <2>3
<1> QED BY <1>1, <1>2, TransferCosts, CaptureOutside DEF CaptureInv, CapturePcs

LEMMA CaptureItself ==
  ASSUME CaptureInv, CaptureStart \/ StartInterrupt \/ FingerInterrupt \/ CompleteInterrupt
                     \/ CaptureStatus \/ CaptureStop
  PROVE  CaptureInv'
<1> USE DEF CaptureInv, chip, sess, loop, budget, pvars, CapturePcs
<1>1. CASE CaptureStart
  <2>1. pc = "touch" /\ hnd' = hnd
    BY <1>1 DEF CaptureStart
  <2>2. \/ \E r \in Results : /\ Transfer(r) /\ pc' \in {"start", "stop"}
        \/ UNCHANGED <<armed, faults>>
    BY <1>1 DEF CaptureStart
  <2> QED BY <2>1, <2>2, TransferCosts
<1>2. CASE StartInterrupt \/ FingerInterrupt \/ CompleteInterrupt \/ CaptureStatus
  BY <1>2 DEF StartInterrupt, FingerInterrupt, CompleteInterrupt, CaptureStatus
<1>3. CASE CaptureStop
  <2>1. pc = "stop" /\ hnd' = hnd
    BY <1>3 DEF CaptureStop
  <2>2. PICK r \in Results :
           Transfer(r) /\ armed' = (IF StopSent /\ Done(r) /\ hnd = "live" THEN FALSE ELSE armed)
    BY <1>3 DEF CaptureStop
  <2>3. faults' = MaxFaults => armed' = FALSE
    BY <2>1, <2>2, TransferCosts DEF StopSent, Done
  <2>4. faults' \in 0..MaxFaults /\ (faults' = MaxFaults => faults = MaxFaults)
    BY <2>2, TransferCosts
  <2> QED BY <2>1, <2>3, <2>4
<1> QED BY <1>1, <1>2, <1>3

LEMMA CaptureStep ==
  ASSUME CaptureInv, [MNext]_allVars
  PROVE  CaptureInv'
<1>1. CASE UNCHANGED allVars
  BY <1>1 DEF allVars, vars, CaptureInv
<1>2. CASE EnvNext
  <2> USE DEF CaptureInv, CapturePcs, chip, sess, loop, budget
  <2>1. CASE (\E md \in PairModes \cup SessionModes, h \in Hosts : Start(md, h)) /\ UNCHANGED pvars
    <3>1. UNCHANGED <<armed, faults, hnd>> /\ pc = "menu" /\ pc' = "open"
      BY <2>1 DEF Start
    <3> QED BY <3>1
  <2>2. CASE Die \/ Replug
    <3>1. \/ faults > 0 /\ faults' = faults - 1
          \/ pc' = "menu" /\ pc = "menu" /\ UNCHANGED <<armed, faults>>
      BY <2>2 DEF Die, Replug
    <3> QED BY <3>1, BoundsAssumption
  <2>3. CASE AgentIdentify \/ AgentClose \/ OtherEnrols
    <3>1. UNCHANGED <<armed, faults, hnd>> /\ pc \in {"menu", "ready"}
          /\ pc' \in {pc, "touch", "close"} /\ (pc' = "touch" => pc = "ready")
      BY <2>3 DEF AgentIdentify, AgentClose, OtherEnrols, Finish, Fail
    <3> QED BY <3>1
  <2> QED BY <1>2, <2>1, <2>2, <2>3 DEF EnvNext
<1>3. CASE HostNext
  BY <1>3, CaptureBootstrap, CapturePairing, CaptureRecords, CaptureItself DEF HostNext
<1> QED BY <1>1, <1>2, <1>3 DEF MNext

\* capture_mode() sends its stop command by every path: as long as nothing has failed, the
\* chip waits for a finger only during a capture.
THEOREM CapturesEnd == MSpec => []CaptureStopped
<1>1. MInit => CaptureInv
  BY BoundsAssumption DEF MInit, Init, CaptureInv
<1>2. CaptureInv /\ [MNext]_allVars => CaptureInv'
  BY CaptureStep
<1>3. CaptureInv => CaptureStopped
  BY DEF CaptureInv, CaptureStopped
<1> QED BY <1>1, <1>2, <1>3, PTL DEF MSpec
=============================================================================
