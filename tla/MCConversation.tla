--------------------------- MODULE MCConversation ---------------------------
(***************************************************************************)
(* One conversation: the loop that serves its prompts (ConversationLoop),  *)
(* and the guards that stop an agent which makes no progress               *)
(* (StallGuards).  `focus` says which of them a behaviour is about.        *)
(***************************************************************************)
EXTENDS ConversationLoop, StallGuards

VARIABLE focus

allVars == <<focus, talkVars, guardVars>>

Init ==
  /\ focus \in {"loop", "guards"}
  /\ ConversationInit /\ GuardInit
  /\ focus = "guards" => mode = "unattended"

OnLoop   == focus = "loop" /\ UNCHANGED <<focus, guardVars>>
OnGuards == focus = "guards" /\ UNCHANGED <<focus, talkVars>>

Next ==
  \/ ConversationNext /\ OnLoop
  \/ GuardNext /\ OnGuards

\* That of ConversationFairSpec.
Spec == Init /\ [][Next]_allVars /\ WF_allVars(LoopStep /\ OnLoop)

-----------------------------------------------------------------------------
\* The types of the two.
TalkTypeOK == ConversationTypeOK /\ GuardTypeOK
=============================================================================
