-------------------------- MODULE MetallicaPrints --------------------------
(***************************************************************************)
(* What is done inside a Metallica session: the record database            *)
(* (metallica_mis_db.c), calibration (metallica_mis_daemon.c,              *)
(* mmis_calibrate.c, mmis_factory_bits.c), enrolment, verification and the *)
(* agent's identification (metallica_mis_enroll.c), and the whole system.  *)
(***************************************************************************)
EXTENDS Metallica

CONSTANTS
    Fingers,        \* subtypes a print is stored under
    OtherUser,      \* a user record another program made under the same pairing
    MaxTracked,     \* MMIS_DB_MAX_USERS
    Iterations,     \* calibration captures before the blank image (3)
    MaxAttempts,    \* ENROLL_MAX_ATTEMPTS (30)
    MaxBad          \* ENROLL_MAX_BAD_IN_A_ROW (4)

ASSUME LimitsAssumption ==
    /\ MaxTracked \in Nat \ {0} /\ Iterations \in Nat
    /\ MaxAttempts \in Nat \ {0} /\ MaxBad \in Nat \ {0}

VARIABLES
    todo,       \* wipe_users(): the tracked records still to delete
    cap,        \* what capture_mode() will return
    calibrated  \* s_agent_calibrated

pvars == <<todo, cap, calibrated>>
allVars == <<vars, pvars>>

HtidUser == "htid"
Users == {HtidUser, OtherUser}
Caps == {"ok", "bad", "nofinger", "aborted"}

\* The operation has its result: glow_end_scan() or nothing, then close.
Finish == Fail("ok")

(***************************************************************************)
(* The record database                                                     *)
(***************************************************************************)

\* Where an operation goes once its records are listed and, for a wipe, deleted.
AfterRecords ==
    IF mode = "agent" /\ calibrated THEN "ready" ELSE "factory"

\* mmis_db_list() at the start of every session, and what each caller makes of it:
\* list is done, wipe and replace go on to delete, verify needs a record to match, the
\* guided enrolment may be cancelled by the person.
ListRecords ==
    /\ pc = "list"
    /\ \/ \E r \in {"lost"} : Send(r, "list")
       \/ /\ Transfer("ok")
          /\ \/ mode = "list" /\ Finish
             \/ mode = "wipe" /\ pc' = "wipe" /\ UNCHANGED rc
             \/ mode = "replace" /\ pc' = (IF db.users = {} THEN "factory" ELSE "wipe") /\ UNCHANGED rc
             \/ mode \in {"enroll", "replace"} /\ Fail("cancelled")
             \/ mode = "verify" /\ db.users = {} /\ Fail("fail")
             \/ mode = "verify" /\ db.users # {} /\ pc' = "factory" /\ UNCHANGED rc
             \/ mode \in {"enroll", "calibrate", "agent"} /\ pc' = AfterRecords /\ UNCHANGED rc
    /\ n' = 0 /\ m' = 0
    /\ UNCHANGED <<chip, fwfile, hnd, mode, host, sess, last, budget, pvars>>

\* mmis_db_wipe_users(): read the storage, remember the users that fit the table.
WipeRead ==
    /\ pc = "wipe"
    /\ \/ /\ \E r \in Results \ {"late"} : Send(r, IF db.users = {} THEN "wiped" ELSE "delete")
          /\ \E s \in SUBSET db.users :
                /\ Cardinality(s) = (IF Cardinality(db.users) < MaxTracked
                                     THEN Cardinality(db.users) ELSE MaxTracked)
                /\ todo' = s
    /\ UNCHANGED <<chip, fwfile, hnd, mode, host, sess, loop, last, budget, cap, calibrated>>

\* mmis_db_del_record() of one user; its prints go with it.  A failure stops the wipe.
DeleteUser ==
    /\ pc = "delete"
    /\ \E u \in todo, r \in Results :
          /\ Send(r, IF todo = {u} THEN "wiped" ELSE "delete")
          /\ todo' = todo \ {u}
          /\ db' = IF Done(r) /\ hnd = "live"
                   THEN [db EXCEPT !.users = @ \ {u}, !.prints = {p \in @ : p.user # u}]
                   ELSE db
    /\ UNCHANGED <<flash, wire, armed, fwfile, hnd, mode, host, sess, loop, last, budget, cap,
                   calibrated>>

\* Mutant: the deletions are trusted and nothing is read back.
WipeVerify_Trusting ==
    /\ pc = "wiped" /\ Transfer("ok")
    /\ IF mode = "wipe" THEN Finish ELSE pc' = "factory" /\ UNCHANGED rc
    /\ UNCHANGED <<chip, fwfile, hnd, mode, host, sess, loop, last, budget, pvars>>

\* The storage is read back: only an empty one is a success.
WipeVerify ==
    /\ pc = "wiped"
    /\ \/ \E r \in {"lost"} : Send(r, "wiped")
       \/ /\ Transfer("ok")
          /\ \/ db.users # {} /\ Fail("fail")
             \/ db.users = {} /\ mode = "wipe" /\ Finish
             \/ db.users = {} /\ mode = "replace" /\ pc' = "factory" /\ UNCHANGED rc
    /\ UNCHANGED <<chip, fwfile, hnd, mode, host, sess, loop, last, budget, pvars>>

(***************************************************************************)
(* Calibration                                                             *)
(***************************************************************************)

\* get_factory_calibration_values().
FactoryBits ==
    /\ pc = "factory" /\ \E r \in Results \ {"late"} : Send(r, "calib")
    /\ n' = 0
    /\ UNCHANGED <<chip, fwfile, hnd, mode, host, sess, m, last, budget, pvars>>

\* metallica_mis_do_calibrate_ex(): the captures that refine the calibration, and one
\* more for the blank image.
Calibrate ==
    /\ pc = "calib" /\ \E r \in Results \ {"late"} : Send(r, IF n < Iterations THEN "calib" ELSE "erase6")
    /\ n' = n + 1
    /\ UNCHANGED <<chip, fwfile, hnd, mode, host, sess, m, last, budget, pvars>>

\* mmis_persist_clean_slate(): erase partition 6, then write the blob to it.
EraseSlate ==
    /\ pc = "erase6"
    /\ \E r \in Results :
          /\ Send(r, "write6")
          /\ flash' = IF Done(r) /\ hnd = "live" THEN [flash EXCEPT !.slate = FALSE] ELSE flash
    /\ UNCHANGED <<db, wire, armed, fwfile, hnd, mode, host, sess, loop, last, budget, pvars>>

WriteSlate ==
    /\ pc = "write6"
    /\ \E r \in Results :
          /\ \/ r # "ok" /\ Send(r, "close")
             \/ /\ r = "ok" /\ Transfer(r)
                /\ \/ mode = "calibrate" /\ Finish
                   \/ mode \in {"enroll", "replace"} /\ pc' = "create" /\ UNCHANGED rc
                   \/ mode = "verify" /\ pc' = "touch" /\ UNCHANGED rc
                   \/ mode = "agent" /\ pc' = "ready" /\ UNCHANGED rc
          /\ flash' = IF Done(r) /\ hnd = "live" THEN [flash EXCEPT !.slate = TRUE] ELSE flash
          /\ calibrated' = (calibrated \/ (mode = "agent" /\ r = "ok"))
    /\ n' = 0 /\ m' = 0
    /\ UNCHANGED <<db, wire, armed, fwfile, hnd, mode, host, sess, last, budget, todo, cap>>

(***************************************************************************)
(* capture_mode()                                                          *)
(***************************************************************************)

CapturePcs == {"start", "finger", "complete", "status", "stop"}

\* create_enrollment.
CreateEnrollment ==
    /\ pc = "create" /\ \E r \in Results \ {"late"} : Send(r, "touch")
    /\ n' = 0 /\ m' = 0
    /\ UNCHANGED <<chip, fwfile, hnd, mode, host, sess, last, budget, pvars>>

\* Mutant: an attempt is not counted.
NextAttempt_Uncounted == n

\* attempts++ of the enrolment and verification loops; the agent's capture is one attempt.
NextAttempt == IF mode = "agent" THEN n ELSE n + 1

\* The next attempt while the limits allow one: the light, then cmd_02 in ENROLL or
\* IDENTIFY mode.  A cmd_02 that fails still goes to the stop command.
CaptureStart ==
    /\ pc = "touch"
    /\ IF n < MaxAttempts /\ m < MaxBad
       THEN /\ n' = NextAttempt
            /\ \E r \in Results :
                  /\ Transfer(r)
                  /\ pc' = (IF r = "ok" THEN "start" ELSE "stop")
                  /\ cap' = "bad"
                  /\ armed' = (armed \/ (Done(r) /\ hnd = "live"))
            /\ UNCHANGED rc
       ELSE Fail("fail") /\ UNCHANGED <<n, cap, armed, faults>>
    /\ UNCHANGED <<flash, db, wire, fwfile, hnd, mode, host, sess, m, last, budget, todo,
                   calibrated>>

\* wait_interrupt() for the start interrupt: type 0, or the capture ends.
StartInterrupt ==
    /\ pc = "start"
    /\ \/ hnd = "live" /\ pc' = "finger" /\ UNCHANGED cap
       \/ pc' = "stop" /\ cap' \in (IF hnd = "live" THEN {"nofinger", "bad"} ELSE {"bad"})
    /\ UNCHANGED <<chip, fwfile, hnd, mode, host, sess, loop, rc, last, faults, budget, todo,
                   calibrated>>

\* wait_finger_interrupt(): interrupts of other types are skipped; the agent's callback
\* can abort the wait.
FingerInterrupt ==
    /\ pc = "finger"
    /\ \/ hnd = "live" /\ pc' = "complete" /\ UNCHANGED cap
       \/ /\ pc' = "stop"
          /\ cap' \in {"bad"} \cup (IF hnd = "live" THEN {"nofinger"} ELSE {})
                      \cup (IF mode = "agent" THEN {"aborted"} ELSE {})
    /\ UNCHANGED <<chip, fwfile, hnd, mode, host, sess, loop, rc, last, faults, budget, todo,
                   calibrated>>

\* The capture-complete interrupts, type 3, until the one that carries the bit.
CompleteInterrupt ==
    /\ pc = "complete"
    /\ \/ hnd = "live" /\ pc' = "status" /\ UNCHANGED cap
       \/ pc' = "stop" /\ cap' = "bad"
    /\ UNCHANGED <<chip, fwfile, hnd, mode, host, sess, loop, rc, last, faults, budget, todo,
                   calibrated>>

\* get_prg_status2(): a scanning problem makes the touch unusable.
CaptureStatus ==
    /\ pc = "status" /\ pc' = "stop"
    /\ cap' \in (IF hnd = "live" THEN {"ok", "bad"} ELSE {"bad"})
    /\ UNCHANGED <<chip, fwfile, hnd, mode, host, sess, loop, rc, last, faults, budget, todo,
                   calibrated>>

\* Mutant: a wait that was given up returns without the stop command.
StopSent_NotAborted == cap # "aborted"

\* capture_mode() reaches its stop command by every path.
StopSent == TRUE

\* The stop command, sent on every path, its answer ignored; then each caller's use of
\* the result.  verify never takes a bad attempt back; enrol does on a good touch.
CaptureStop ==
    /\ pc = "stop"
    /\ \E r \in Results :
          Transfer(r) /\ armed' = (IF StopSent /\ Done(r) /\ hnd = "live" THEN FALSE ELSE armed)
    /\ \/ cap = "ok" /\ mode \in {"enroll", "replace"} /\ pc' = "update" /\ UNCHANGED <<rc, m>>
       \/ cap = "ok" /\ mode \in {"verify", "agent"} /\ pc' = "match" /\ UNCHANGED <<rc, m>>
       \/ cap # "ok" /\ mode # "agent" /\ pc' = "touch" /\ m' = m + 1 /\ UNCHANGED rc
       \/ cap = "nofinger" /\ mode = "agent" /\ pc' = "ready" /\ UNCHANGED <<rc, m>>
       \/ cap \in {"bad", "aborted"} /\ mode = "agent" /\ Fail("fail") /\ UNCHANGED m
    /\ UNCHANGED <<flash, db, wire, fwfile, hnd, mode, host, sess, n, last, budget, pvars>>

(***************************************************************************)
(* Enrolment                                                               *)
(***************************************************************************)

\* enrollment_update_start() and append_new_image(), then enrollment_update_end(): the
\* touch is refused, taken, or completes the template (the reply carries a template id).
UpdateEnrollment ==
    /\ pc = "update"
    /\ \/ pc' = "touch" /\ m' = m + 1
       \/ hnd = "live" /\ pc' = "touch" /\ m' = 0
       \/ hnd = "live" /\ pc' = "record" /\ m' = 0
    /\ UNCHANGED <<chip, fwfile, hnd, mode, host, sess, n, rc, last, faults, budget, pvars>>

\* The record that is missing next: the storage (ensure_storage), HTID's user
\* (lookup_user, new_user), or the finger (new_finger).
NextRecord ==
    IF ~db.storage THEN "storage" ELSE IF HtidUser \notin db.users THEN "user" ELSE "finger"

\* mmis_db_new_record(): db_info, write_enable, then the record, which the chip holds
\* back until the clean-up.  A write_enable that fails returns at once; after that the
\* clean-up runs whatever became of the record.  The chip may refuse a finger it already
\* has (status 0x04c3).
StageRecord ==
    /\ pc = "record"
    /\ \/ Send("lost", "close") /\ UNCHANGED <<db, m>>
       \/ /\ \E r \in Results, f \in Fingers :
                /\ Transfer(r)
                /\ m' = (IF r = "ok" THEN 0 ELSE 1)
                /\ db' = IF Done(r) /\ hnd = "live"
                         THEN [db EXCEPT !.staged =
                                  [kind |-> NextRecord, finger |-> f, owner |-> ident]]
                         ELSE db
          /\ pc' = "commit" /\ UNCHANGED rc
       \/ /\ NextRecord = "finger" /\ db.prints # {} /\ hnd = "live"
          /\ m' = 1 /\ pc' = "commit" /\ UNCHANGED <<db, rc, faults>>
    /\ UNCHANGED <<flash, wire, armed, fwfile, hnd, mode, host, sess, n, last, budget, pvars>>

\* call_cleanups() after a new record: the chip commits what it holds.
Committed ==
    LET s == db.staged
    IN [db EXCEPT !.staged = NoRecord,
                  !.storage = @ \/ (s.kind = "storage"),
                  !.users = @ \cup (IF s.kind = "user" THEN {HtidUser} ELSE {}),
                  !.prints = @ \cup (IF s.kind = "finger"
                                     THEN {[user |-> HtidUser, finger |-> s.finger,
                                            owner |-> s.owner]} ELSE {})]

CommitRecord ==
    /\ pc = "commit"
    /\ \E r \in Results :
          /\ Transfer(r)
          /\ db' = IF Done(r) /\ hnd = "live" THEN Committed ELSE db
          /\ \/ (r # "ok" \/ m = 1) /\ Fail("fail")
             \/ r = "ok" /\ m = 0 /\ db.staged.kind = "finger" /\ Finish
             \/ r = "ok" /\ m = 0 /\ db.staged.kind # "finger"
                /\ pc' = "record" /\ UNCHANGED rc
    /\ UNCHANGED <<flash, wire, armed, fwfile, hnd, mode, host, sess, loop, last, budget, pvars>>

(***************************************************************************)
(* Verification and the agent                                              *)
(***************************************************************************)

\* match_finger(): recognised, not recognised, or a step of it failed.  The chip can
\* only recognise a print it has (external).
MatchFinger ==
    /\ pc = "match"
    /\ \/ /\ hnd = "live" /\ db.prints # {}
          /\ IF mode = "verify" THEN Finish ELSE pc' = "ready" /\ UNCHANGED rc
          /\ UNCHANGED m
       \/ /\ hnd = "live"
          /\ IF mode = "verify" THEN Fail("nomatch") ELSE pc' = "ready" /\ UNCHANGED rc
          /\ UNCHANGED m
       \/ mode = "verify" /\ pc' = "touch" /\ m' = m + 1 /\ UNCHANGED rc
       \/ mode = "agent" /\ Fail("fail") /\ UNCHANGED m
    /\ UNCHANGED <<chip, fwfile, hnd, mode, host, sess, n, last, faults, budget, pvars>>

\* metallica_mis_agent_identify() and metallica_mis_agent_close().
AgentIdentify ==
    /\ pc = "ready" /\ pc' = "touch" /\ n' = 0 /\ m' = 0
    /\ UNCHANGED <<chip, fwfile, hnd, mode, host, sess, rc, last, faults, budget, pvars>>
AgentClose ==
    /\ pc = "ready" /\ Finish
    /\ UNCHANGED <<chip, fwfile, hnd, mode, host, sess, loop, last, faults, budget, pvars>>

\* Another program that shares the pairing stores a print of its own (external).
OtherEnrols ==
    /\ pc = "menu" /\ runs > 0 /\ runs' = runs - 1
    /\ flash.cert # Blank /\ wire = "plain"
    /\ \E f \in Fingers :
          db' = [db EXCEPT !.storage = TRUE, !.users = @ \cup {OtherUser},
                           !.prints = @ \cup {[user |-> OtherUser, finger |-> f,
                                               owner |-> flash.cert]}]
    /\ last' = [mode |-> "none", rc |-> "ok"]
    /\ UNCHANGED <<flash, wire, armed, fwfile, hnd, pc, mode, host, sess, loop, rc, faults, gen,
                   pvars>>

(***************************************************************************)
(* The system                                                              *)
(***************************************************************************)

MInit == Init /\ todo = {} /\ cap = "bad" /\ calibrated = FALSE

\* The steps of the host's own code.
HostNext ==
    \/ (OpenDevice \/ CloseDevice \/ RomInfo \/ Cmd19 \/ FwInfo \/ InitHardcoded
        \/ CleanSlateBlob \/ GetFlashInfo \/ ResetBlob \/ PartitionFlash \/ ReadEcdh \/ TlsOpen
        \/ EraseFlash \/ WriteTlsFlash \/ GetFwInfo \/ HwRegs \/ FirmwareFile \/ WriteFirmware
        \/ WriteSignature \/ CheckFirmware \/ Reboot \/ Reopen \/ ReadTlsFlash)
       /\ UNCHANGED pvars
    \/ ListRecords \/ WipeRead \/ DeleteUser \/ WipeVerify
    \/ FactoryBits \/ Calibrate \/ EraseSlate \/ WriteSlate
    \/ CreateEnrollment \/ CaptureStart \/ StartInterrupt \/ FingerInterrupt
    \/ CompleteInterrupt \/ CaptureStatus \/ CaptureStop
    \/ UpdateEnrollment \/ StageRecord \/ CommitRecord \/ MatchFinger

EnvNext ==
    \/ (\E md \in PairModes \cup SessionModes, h \in Hosts : Start(md, h)) /\ UNCHANGED pvars
    \/ Die /\ UNCHANGED <<todo, cap>> /\ calibrated' = FALSE
    \/ Replug /\ UNCHANGED pvars
    \/ AgentIdentify \/ AgentClose \/ OtherEnrols

MNext == HostNext \/ EnvNext
MSpec == MInit /\ [][MNext]_allVars

\* Every function ends in a command, a bounded wait or a return: the host's code runs on.
FairSpec == MSpec /\ WF_allVars(HostNext)
=============================================================================
