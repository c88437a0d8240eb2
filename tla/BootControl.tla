---------------------------- MODULE BootControl ----------------------------
(***************************************************************************)
(* What the boot state promises a client, whatever the flash does: an      *)
(* application is started only after a successful boot request, at the     *)
(* partition selected last, and with no reply outstanding.  Only a reset   *)
(* forgets a selection or takes a started application away.                *)
(***************************************************************************)
CONSTANTS Partition, None

VARIABLES
  selected,  \* the partition selected, or None
  armed,     \* a boot has been accepted
  owed,      \* a reply is outstanding
  running    \* the partition that was started, or None

bootControlVars == <<selected, armed, owed, running>>

Init == selected = None /\ ~armed /\ ~owed /\ running = None

Select(p) == selected' = p /\ UNCHANGED armed
Arm == selected # None /\ armed' = TRUE /\ UNCHANGED selected
Nothing == UNCHANGED <<selected, armed>>

Handle ==
  /\ ~owed /\ ~armed /\ running = None
  /\ (\E p \in Partition : Select(p)) \/ Arm \/ Nothing
  /\ owed' = TRUE
  /\ UNCHANGED running

Reply == owed /\ owed' = FALSE /\ UNCHANGED <<selected, armed, running>>

Start ==
  /\ armed /\ ~owed /\ running = None
  /\ running' = selected
  /\ UNCHANGED <<selected, armed, owed>>

Reset == selected' = None /\ armed' = FALSE /\ owed' = FALSE /\ running' = None

Next == Handle \/ Reply \/ Start \/ Reset

Spec == Init /\ [][Next]_bootControlVars /\ WF_bootControlVars(Start)
=============================================================================
