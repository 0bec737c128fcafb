---------------------------- MODULE DaemonClaims ----------------------------
(***************************************************************************)
(* What a comment of the daemon says of it and the code does not do.       *)
(***************************************************************************)
EXTENDS MCDaemon

\* g_trigger_target_pid: "we abort instead of typing into whatever now has focus":
\* the match branch decides to type only while a password field has the focus.
NeverTypesIntoOtherApp ==
  [][pc["poll"] = "matched" /\ pc'["poll"] = "type" => Focus # NoPid]_vars

=============================================================================
