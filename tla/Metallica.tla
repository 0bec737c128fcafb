----------------------------- MODULE Metallica -----------------------------
(***************************************************************************)
(* Pairing, firmware upload and the secure session of the Metallica MIS    *)
(* sensor: metallica_mis_daemon.c, _init_flash.c, _flash.c, _tls.c,        *)
(* _upload_fwext.c and _firmware.c.                                        *)
(*                                                                         *)
(* One host process runs one operation at a time (a menu action of the     *)
(* client, a command-line run, or the agent's session).  An operation is a *)
(* sequence of commands to the chip; every command may be lost, or carried *)
(* out with its answer lost; the process may die and the sensor may be     *)
(* unplugged between any two commands.  What is on the chip's flash stays. *)
(***************************************************************************)
EXTENDS Naturals, Sequences, FiniteSets

CONSTANTS
    Hosts,              \* product name and serial number: what the PSK is derived from
    MaxFaults,          \* how many commands, processes or plugs may fail
    MaxRuns,            \* how many operations are started
    MaxBusy,            \* busy answers send_init() accepts for one command (20)
    MaxStaleResets,     \* resets of a sensor stuck in a session (2)
    PartitionTries,     \* attempts at the partition table (3)
    Chunks              \* blocks of 0x1000 bytes in the firmware body

ASSUME BoundsAssumption ==
    /\ MaxFaults \in Nat /\ MaxRuns \in Nat
    /\ MaxBusy \in Nat /\ MaxStaleResets \in Nat
    /\ PartitionTries \in Nat \ {0} /\ Chunks \in Nat \ {0}

VARIABLES
    flash,      \* the chip's partitions: table, 1 (cert), 2 (firmware), 6 (clean slate)
    db,         \* partition 4: the record database
    wire,       \* "plain", or "tls" when the chip is inside a session
    armed,      \* the chip waits for a finger (cmd_02 without its stop)
    fwfile,     \* the firmware file under ~/.hack-touchid/firmware
    hnd,        \* g_handle: NULL, usable, or of a device that has gone
    pc, mode, host,     \* the operation in progress and the host's identity
    sec,        \* tls->secure_rx && tls->secure_tx
    ident,      \* tls->identity
    n, m,       \* loop counters of the current function
    rc,         \* the operation's result so far
    last,       \* the last operation and its result (history)
    faults, runs, gen   \* budgets: faults left, operations left, key pairs made

chip == <<flash, db, wire, armed>>
sess == <<sec, ident>>
loop == <<n, m>>
budget == <<runs, gen>>
vars == <<flash, db, wire, armed, fwfile, hnd, pc, mode, host, sec, ident, n, m, rc,
          last, faults, runs, gen>>

Blank == [host |-> "blank", gen |-> 0]      \* an erased partition 1: every byte 0xff
Empty == [host |-> "empty", gen |-> 0]      \* an identity with no key, certificate or ECDH key
Idents == [host : Hosts, gen : 1..MaxRuns]
NoRecord == [kind |-> "none"]

PairModes == {"pair", "force"}
SessionModes == {"list", "wipe", "enroll", "replace", "verify", "calibrate", "agent"}
Codes == {"ok", "fail", "identity", "handshake", "cancelled", "nomatch"}

(***************************************************************************)
(* Commands                                                                *)
(***************************************************************************)

\* What can become of a command: answered, lost on the way, or carried out with
\* the answer (or the clean-up that follows it) lost.
Results == {"ok", "lost", "late"}
Done(r) == r \in {"ok", "late"}

\* The transport's part: a handle of a device that has gone only fails.
Transfer(r) ==
    \/ hnd = "live" /\ r = "ok" /\ UNCHANGED faults
    \/ hnd = "live" /\ r # "ok" /\ faults > 0 /\ faults' = faults - 1
    \/ hnd = "dead" /\ r = "lost" /\ UNCHANGED faults

\* The operation is given up: its caller closes the device and returns the code.
Fail(code) == pc' = "close" /\ rc' = code

\* metallica_mis_tls_cmd() or cmd() with the status check the caller makes: go on at
\* p, or give the operation up.
SendOr(r, p, code) ==
    /\ Transfer(r)
    /\ IF r = "ok" THEN pc' = p /\ UNCHANGED rc ELSE Fail(code)
Send(r, p) == SendOr(r, p, "fail")

(***************************************************************************)
(* Starting and ending an operation                                        *)
(***************************************************************************)

Init ==
    /\ flash = [parts |-> FALSE, cert |-> Blank, fw |-> "none", slate |-> FALSE]
    /\ db = [storage |-> FALSE, users |-> {}, prints |-> {}, staged |-> NoRecord]
    /\ wire = "plain" /\ armed = FALSE
    /\ fwfile = "absent" /\ hnd = "none"
    /\ pc = "menu" /\ mode = "list" /\ host \in Hosts
    /\ sec = FALSE /\ ident = Empty /\ n = 0 /\ m = 0
    /\ rc = "ok" /\ last = [mode |-> "none", rc |-> "ok"]
    /\ faults = MaxFaults /\ runs = MaxRuns /\ gen = 0

\* The user starts an operation, under the host's own identity or an overridden one.
Start(md, h) ==
    /\ pc = "menu" /\ runs > 0
    /\ runs' = runs - 1 /\ mode' = md /\ host' = h
    /\ pc' = "open" /\ rc' = "fail" /\ n' = 0 /\ m' = 0
    /\ last' = [mode |-> "none", rc |-> "ok"]
    /\ UNCHANGED <<chip, fwfile, hnd, sess, faults, gen>>

\* metallica_mis_open_device(): a handle left by an earlier failed claim is used as
\* it is; otherwise the known identities are tried.  A claim that fails is retried, and
\* once more after a reset of the device (which ends a session the chip was in).  If the
\* claim never succeeds the handle stays open, and the callers return at once.
OpenDevice ==
    /\ pc = "open"
    /\ \/ /\ hnd \in {"none", "live"}
          /\ hnd' = "live" /\ wire' \in {wire, "plain"}
          /\ pc' = "rominfo" /\ UNCHANGED <<last, faults>>
       \/ /\ faults > 0 /\ faults' = faults - 1
          /\ hnd' \in (IF hnd = "none" THEN {"none", "live"} ELSE {hnd})
          /\ wire' \in {wire, "plain"}
          /\ pc' = "menu" /\ last' = [mode |-> mode, rc |-> "fail"]
       \/ /\ hnd = "dead" /\ UNCHANGED <<hnd, wire, faults>>
          /\ pc' = "menu" /\ last' = [mode |-> mode, rc |-> "fail"]
    /\ n' = 0 /\ m' = 0
    /\ UNCHANGED <<flash, db, armed, fwfile, mode, host, sess, rc, budget>>

\* metallica_mis_close_device(): release and close; no command ends the session.
CloseDevice ==
    /\ pc = "close"
    /\ hnd' = "none" /\ pc' = "menu" /\ sec' = FALSE /\ ident' = Empty
    /\ last' = [mode |-> mode, rc |-> rc]
    /\ UNCHANGED <<chip, fwfile, mode, host, loop, rc, faults, budget>>

\* The process dies, or the person quits the client: its handle goes, the chip keeps
\* its state.
Die ==
    /\ \/ pc # "menu" /\ faults > 0 /\ faults' = faults - 1
       \/ pc = "menu" /\ hnd # "none" /\ UNCHANGED faults
    /\ pc' = "menu" /\ hnd' = "none" /\ sec' = FALSE /\ ident' = Empty
    /\ last' = [mode |-> "none", rc |-> "ok"]
    /\ UNCHANGED <<chip, fwfile, mode, host, loop, rc, budget>>

\* The sensor is unplugged and plugged in again, or loses power: its session, a record
\* not yet committed and a pending capture are gone.
Replug ==
    /\ faults > 0 /\ faults' = faults - 1
    /\ wire' = "plain" /\ armed' = FALSE /\ db' = [db EXCEPT !.staged = NoRecord]
    /\ hnd' = IF hnd = "live" THEN "dead" ELSE hnd
    /\ UNCHANGED <<flash, fwfile, pc, mode, host, sess, loop, rc, last, budget>>

(***************************************************************************)
(* send_init(): the plaintext bootstrap                                    *)
(***************************************************************************)

\* Mutant: a sensor stuck in a session is never reset.
MayReset_Never == FALSE

\* recover_stale_session() is tried while this holds.
MayReset == n < MaxStaleResets

\* RomInfo.get().  A chip still inside a session answers with a TLS alert: reset it,
\* close, reopen, and begin counting busy answers afresh, at most MaxStaleResets times.
RomInfo ==
    /\ pc = "rominfo"
    /\ \/ /\ wire = "plain" /\ \E r \in Results \ {"late"} : Send(r, "cmd19")
          /\ n' = 0 /\ m' = 0 /\ UNCHANGED <<chip, hnd>>
       \/ /\ wire = "plain" /\ hnd = "live" /\ m < MaxBusy
          /\ m' = m + 1 /\ UNCHANGED <<chip, hnd, pc, rc, n, faults>>
       \/ /\ wire = "tls" /\ hnd = "live" /\ MayReset
          /\ n' = n + 1 /\ m' = 0
          /\ armed' = FALSE /\ UNCHANGED <<flash, db>>
          /\ \/ wire' = "plain" /\ hnd' = "live" /\ UNCHANGED <<pc, rc, faults>>
             \/ /\ faults > 0 /\ faults' = faults - 1
                /\ \/ wire' = "tls" /\ hnd' = "live" /\ UNCHANGED <<pc, rc>>
                   \/ wire' = "plain" /\ hnd' = "none" /\ Fail("fail")
       \/ /\ wire = "tls" /\ (hnd = "dead" \/ ~MayReset) /\ Fail("fail")
          /\ UNCHANGED <<chip, hnd, loop, faults>>
    /\ UNCHANGED <<fwfile, mode, host, sess, last, budget>>

\* cmd_19, whose status is not checked.
Cmd19 ==
    /\ pc = "cmd19" /\ \E r \in Results \ {"late"} : Send(r, "fwinfo")
    /\ UNCHANGED <<chip, fwfile, hnd, mode, host, sess, loop, last, budget>>

\* get_fw_info() with the same busy retry.
FwInfo ==
    /\ pc = "fwinfo"
    /\ \/ /\ \E r \in Results \ {"late"} : Send(r, "hardcoded") /\ m' = 0
       \/ hnd = "live" /\ m < MaxBusy /\ m' = m + 1 /\ UNCHANGED <<pc, rc, faults>>
    /\ UNCHANGED <<chip, fwfile, hnd, mode, host, sess, n, last, budget>>

\* The init blob, checked; then the clean-slate blob when no firmware is loaded, whose
\* status is not checked, though a transport error is.
InitHardcoded ==
    /\ pc = "hardcoded"
    /\ \E r \in Results \ {"late"} : Send(r, IF flash.fw = "loaded" THEN "tlsinit" ELSE "cleanslate")
    /\ UNCHANGED <<chip, fwfile, hnd, mode, host, sess, loop, last, budget>>

CleanSlateBlob ==
    /\ pc = "cleanslate" /\ \E r \in Results \ {"late"} : Send(r, "tlsinit")
    /\ UNCHANGED <<chip, fwfile, hnd, mode, host, sess, loop, last, budget>>

(***************************************************************************)
(* init_flash()                                                            *)
(***************************************************************************)

\* tls_init() clears the session; step 1 reads the partition table.  A table that is
\* there ends init_flash() with success unless --force-pair was given: no handshake.
GetFlashInfo ==
    /\ pc = "tlsinit"
    /\ \E r \in Results \ {"late"} :
          Send(r, IF flash.parts /\ mode # "force" THEN "fwext" ELSE "resetblob")
    /\ sec' = FALSE /\ ident' = Empty /\ n' = 0 /\ m' = 0
    /\ UNCHANGED <<chip, fwfile, hnd, mode, host, last, budget>>

\* Steps 2 to 4: reset_blob, a fresh key pair, the layout for the USB id.
ResetBlob ==
    /\ pc = "resetblob"
    /\ \E r \in Results \ {"late"} :
          /\ Send(r, "partition")
          /\ gen' = IF r = "ok" THEN gen + 1 ELSE gen
    /\ n' = 1
    /\ UNCHANGED <<chip, fwfile, hnd, mode, host, sess, m, last, runs>>

\* Step 5, partition_flash(): the same command up to PartitionTries times.  An answer
\* that is lost does not undo the table that was written.
PartitionFlash ==
    /\ pc = "partition"
    /\ \E r \in Results :
          /\ flash' = [flash EXCEPT !.parts = @ \/ (Done(r) /\ hnd = "live")]
          /\ IF r # "ok" /\ n < PartitionTries
             THEN Transfer(r) /\ n' = n + 1 /\ UNCHANGED <<pc, rc>>
             ELSE Send(r, "ecdh") /\ UNCHANGED n
    /\ UNCHANGED <<db, wire, armed, fwfile, hnd, mode, host, sess, m, last, budget>>

\* Steps 6 and 7: the chip's ECDH key, the clean-up that always follows, then the
\* private key wrapped and unwrapped again under this host's PSK.
ReadEcdh ==
    /\ pc = "ecdh"
    /\ \E r \in Results \ {"late"} :
          /\ Send(r, "handshake")
          /\ ident' = IF r = "ok" THEN [host |-> host, gen |-> gen] ELSE ident
    /\ UNCHANGED <<chip, fwfile, hnd, mode, host, sec, loop, last, budget>>

\* metallica_mis_tls_open(): the flags are cleared first and the session is up only if
\* the chip's ChangeCipherSpec and Finished were accepted.  init_flash() runs it as step
\* 8 (n > 0), open_calibration_session() on the identity it read back (n = 0).
\* make_keys() takes the chip's ECDH key from the identity without a test: with an empty
\* identity the process dies.  A record held back by an earlier session is dropped with it.
TlsOpen ==
    /\ pc = "handshake"
    /\ \/ /\ ident # Empty
          /\ \E r \in Results :
                /\ IF n > 0 THEN Send(r, "erase") ELSE SendOr(r, "list", "handshake")
                /\ sec' = (r = "ok")
                /\ IF Done(r) /\ hnd = "live"
                   THEN wire' = "tls" /\ db' = [db EXCEPT !.staged = NoRecord]
                   ELSE UNCHANGED <<wire, db>>
          /\ n' = (IF n > 0 THEN 1 ELSE 0)
          /\ UNCHANGED <<hnd, ident, last>>
       \/ /\ ident = Empty
          /\ hnd' = "none" /\ pc' = "menu" /\ sec' = FALSE /\ n' = 0
          /\ last' = [mode |-> "none", rc |-> "ok"]
          /\ UNCHANGED <<ident, rc, faults, wire, db>>
    /\ UNCHANGED <<flash, armed, fwfile, mode, host, m, budget>>

\* Mutant: the record database is not erased.
EraseOrder_KeepsPrints == <<1, 2, 5, 6>>

\* Step 9: the partitions in the order they are wiped.
EraseOrder == <<1, 2, 5, 6, 4>>

\* erase_flash() of one partition: 1 holds the identity, 2 the firmware, 6 the clean
\* slate, 4 the prints; the clean-up that follows commits it.
EraseFlash ==
    /\ pc = "erase"
    /\ LET p == EraseOrder[n]
       IN \E r \in Results :
             /\ Send(r, IF n < Len(EraseOrder) THEN "erase" ELSE "write1")
             /\ IF Done(r) /\ hnd = "live"
                THEN /\ flash' = [flash EXCEPT
                             !.cert = IF p = 1 THEN Blank ELSE @,
                             !.fw = IF p = 2 THEN "none" ELSE @,
                             !.slate = IF p = 6 THEN FALSE ELSE @]
                     /\ db' = IF p = 4 THEN [storage |-> FALSE, users |-> {}, prints |-> {},
                                             staged |-> NoRecord] ELSE db
                ELSE UNCHANGED <<flash, db>>
    /\ n' = n + 1
    /\ UNCHANGED <<wire, armed, fwfile, hnd, mode, host, sess, m, last, budget>>

\* Step 10: make_tls_flash() and write_flash() of partition 1.  The read-back after it
\* is a diagnostic and never fails the function.
WriteTlsFlash ==
    /\ pc = "write1"
    /\ \E r \in Results :
          /\ Send(r, "fwext")
          /\ flash' = IF Done(r) /\ hnd = "live" THEN [flash EXCEPT !.cert = ident] ELSE flash
    /\ UNCHANGED <<db, wire, armed, fwfile, hnd, mode, host, sess, loop, last, budget>>

(***************************************************************************)
(* upload_fwext()                                                          *)
(***************************************************************************)

\* What follows upload_fwext(): do_pairing() reopens the device, the others read the
\* identity back.
AfterFwext == IF mode \in PairModes THEN "reopen" ELSE "readtls"

\* get_fw_info(2): firmware that is there ends the upload with success, and no reboot.
GetFwInfo ==
    /\ pc = "fwext"
    /\ \E r \in Results \ {"late"} : Send(r, IF flash.fw = "loaded" THEN AfterFwext ELSE "fwreg")
    /\ n' = 0
    /\ UNCHANGED <<chip, fwfile, hnd, mode, host, sess, m, last, budget>>

\* The two register accesses before an upload.
HwRegs ==
    /\ pc = "fwreg" /\ \E r \in Results \ {"late"} : Send(r, "fwfile")
    /\ UNCHANGED <<chip, fwfile, hnd, mode, host, sess, loop, last, budget>>

\* metallica_mis_firmware_is_present() asks only for a size above zero; otherwise the
\* file is fetched, extracted and copied into place.  A copy that fails half-way leaves
\* a partial file behind.
FirmwareFile ==
    /\ pc = "fwfile"
    /\ \/ fwfile # "absent" /\ pc' = "fwbody" /\ UNCHANGED <<rc, faults, fwfile>>
       \/ fwfile = "absent" /\ fwfile' = "good" /\ pc' = "fwbody" /\ UNCHANGED <<rc, faults>>
       \/ /\ fwfile = "absent" /\ faults > 0 /\ faults' = faults - 1
          /\ fwfile' \in {"absent", "partial"} /\ Fail("fail")
    /\ UNCHANGED <<chip, hnd, mode, host, sess, loop, last, budget>>

\* write_flash_all(2, 0, body), a block of 0x1000 bytes at a time; a partial file may
\* have no marker or no signature and is then refused before anything is sent.  The chip
\* refuses flash writes outside a session (external).
WriteFirmware ==
    /\ pc = "fwbody"
    /\ \/ /\ fwfile = "partial" /\ Fail("fail") /\ UNCHANGED <<flash, n, faults>>
       \/ /\ ~sec /\ hnd = "live" /\ Fail("fail") /\ UNCHANGED <<flash, n, faults>>
       \/ /\ sec \/ hnd = "dead"
          /\ n' = n + 1
          /\ \E r \in Results :
                /\ Send(r, IF n + 1 < Chunks THEN "fwbody" ELSE "fwsig")
                /\ flash' = IF Done(r) /\ hnd = "live" THEN [flash EXCEPT !.fw = "body"] ELSE flash
    /\ UNCHANGED <<db, wire, armed, fwfile, hnd, mode, host, sess, m, last, budget>>

\* write_fw_signature(2): the chip takes the firmware over when the signature fits.
WriteSignature ==
    /\ pc = "fwsig"
    /\ \E r \in Results :
          /\ Send(r, "fwcheck")
          /\ flash' = IF Done(r) /\ hnd = "live" /\ fwfile = "good"
                      THEN [flash EXCEPT !.fw = "loaded"] ELSE flash
    /\ UNCHANGED <<db, wire, armed, fwfile, hnd, mode, host, sess, loop, last, budget>>

\* get_fw_info(2) again: no firmware after the upload is a failure.
CheckFirmware ==
    /\ pc = "fwcheck"
    /\ \/ flash.fw = "loaded" /\ \E r \in Results \ {"late"} : Send(r, "reboot")
       \/ flash.fw # "loaded" /\ Fail("fail") /\ UNCHANGED faults
    /\ UNCHANGED <<chip, fwfile, hnd, mode, host, sess, loop, last, budget>>

\* metallica_mis_reboot(): the chip leaves the bus, so the handle and the session are
\* gone; open_calibration_session() then reports failure although the upload succeeded.
Reboot ==
    /\ pc = "reboot"
    /\ \E r \in Results :
          /\ SendOr(r, IF mode \in PairModes THEN "reopen" ELSE "close", "fail")
          /\ IF Done(r) /\ hnd = "live"
             THEN wire' = "plain" /\ armed' = FALSE /\ hnd' = "dead"
             ELSE UNCHANGED <<wire, armed, hnd>>
    /\ UNCHANGED <<flash, db, fwfile, mode, host, sess, loop, last, budget>>

\* do_pairing()'s end: close, wait, and poll for the device to come back, closing after
\* every failed attempt.
Reopen ==
    /\ pc = "reopen"
    /\ \/ hnd' = "live" /\ Fail("ok") /\ UNCHANGED faults
       \/ hnd' = "none" /\ Fail("fail") /\ faults > 0 /\ faults' = faults - 1
    /\ UNCHANGED <<chip, fwfile, mode, host, sess, loop, last, budget>>

(***************************************************************************)
(* open_calibration_session(), after init_flash() and upload_fwext()       *)
(***************************************************************************)

\* Mutants: an erased partition is taken for an identity; the key block's HMAC is not
\* checked.
Parsed_Raw == flash.cert
ParseFails_Never == FALSE

\* metallica_mis_parse_tls_flash() on what partition 1 holds: an erased partition reads
\* as the end marker, so nothing is restored and the parse succeeds; the key block of
\* another host fails its HMAC.
Parsed == IF flash.cert = Blank THEN Empty ELSE flash.cert
ParseFails == flash.cert # Blank /\ flash.cert.host # host

ReadTlsFlash ==
    /\ pc = "readtls"
    /\ \E r \in Results \ {"late"} :
          IF r = "ok" /\ ParseFails
          THEN Transfer(r) /\ Fail("identity") /\ UNCHANGED ident
          ELSE Send(r, "handshake") /\ ident' = (IF r = "ok" THEN Parsed ELSE ident)
    /\ n' = 0
    /\ UNCHANGED <<chip, fwfile, hnd, mode, host, sec, m, last, budget>>
=============================================================================
