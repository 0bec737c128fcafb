------------------------------ MODULE MCDaemon ------------------------------
(* Small instances of Daemon: which external events may happen, and how often. *)
EXTENDS Daemon, TLC

Events(lock, lost, prompts, swipe, plug, toggle, yield, fault) ==
  [e \in EnvEvents |-> CASE e = "lock" -> lock [] e = "lost" -> lost
                         [] e = "prompt" -> prompts [] e = "swipe" -> swipe
                         [] e = "plug" -> plug [] e = "toggle" -> toggle
                         [] e = "yield" -> yield [] e = "fault" -> fault]

\*                          lock lost prompt swipe plug toggle yield fault
AuthBudget      == Events(   1,   0,    1,     2,   0,    0,    0,    0)
LockBudget      == Events(   1,   1,    0,     1,   1,    1,    0,    0)
LiveLockBudget  == Events(   1,   1,    0,     1,   0,    1,    0,    0)
LiveYieldBudget == Events(   0,   0,    0,     1,   0,    0,    1,    1)
LockoutBudget   == Events(   1,   0,    0,     2,   0,    0,    0,    0)

\* What swipes and volumes can be: everything, or one good and one bad of each.
FewSwipes  == {[finger |-> "owner", good |-> TRUE, tall |-> TRUE],
               [finger |-> "stranger", good |-> FALSE, tall |-> FALSE]}
FewVolumes == {[n |-> 1, pw |-> TRUE], Empty}

LoaderSymmetry == Permutations(Loader)

\* The flag files at start: swipe-to-lock on; off.
Armed      == [present |-> TRUE, scanning |-> TRUE, lockswipe |-> TRUE]
ArmedBoot  == {Armed}
PlainBoot  == {[Armed EXCEPT !.lockswipe = FALSE]}

=============================================================================
