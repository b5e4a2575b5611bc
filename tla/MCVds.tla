-------------------------------- MODULE MCVds --------------------------------
(***************************************************************************)
(* The threads of the user interface for TLC: ServerControl, Notice and    *)
(* Bulletin, which share no state, so that a run explores one of them.     *)
(***************************************************************************)
EXTENDS ServerControl, Notice, Bulletin

VARIABLE part   \* the machine this run is of

\* Those the run is not of have one initial state only.
VdsInit == /\ Init /\ NoticeInit /\ BulletinInit
           /\ part \in {"control", "notice", "bulletin"}
           /\ part # "control" => mPort = 0
           /\ part # "bulletin" => ison

VdsNext ==
  \/ part = "control" /\ Next /\ UNCHANGED <<part, noticeVars, bulletinVars>>
  \/ part = "notice" /\ NoticeNext /\ UNCHANGED <<part, vars, bulletinVars>>
  \/ part = "bulletin" /\ BulletinNext /\ UNCHANGED <<part, vars, noticeVars>>

\* NoticeFairness and the fairness of FairSpec; where the run is of another
\* part it asks for nothing.
VdsSpec ==
  /\ VdsInit /\ [][VdsNext]_<<part, vars, noticeVars, bulletinVars>>
  /\ \A n \in Threads : WF_noticeVars(part = "notice" /\ NoticeThread(n))
  /\ WF_vars(part = "control" /\ UiStep)
  /\ \A i \in Servers :
       /\ WF_vars(part = "control" /\ OwnStep(i))
       /\ WF_vars(part = "control" /\ SelectReturns(i) /\ woken[i])
       /\ SF_vars(part = "control" /\ RoundEnds(i))

\* Types of all three.
VdsTypeOK == TypeOK /\ NoticeTypeOK /\ BulletinTypeOK
=============================================================================
