------------------------------ MODULE MCAgent ------------------------------
(* Small instances of Agent: which external events may happen, and how often. *)
EXTENDS Agent, TLC

Events(lock, lost, prompts, touch, plug, toggle, yield, fault) ==
  [e \in EnvEvents |-> CASE e = "lock" -> lock [] e = "lost" -> lost
                         [] e = "prompt" -> prompts [] e = "touch" -> touch
                         [] e = "plug" -> plug [] e = "toggle" -> toggle
                         [] e = "yield" -> yield [] e = "fault" -> fault]

\*                     lock lost prompt touch plug toggle yield fault
SafeBudget == Events(   1,   1,    0,     3,   1,    1,    0,    0)
LiveBudget == Events(   0,   0,    1,     0,   0,    0,    1,    1)

Armed      == [present |-> TRUE, scanning |-> TRUE, lockswipe |-> TRUE]
ArmedBoot  == {Armed}

=============================================================================
