-------------------------------- MODULE Notice --------------------------------
(***************************************************************************)
(* The windows that show a notice for some time: NoticeDialog.java and     *)
(* KeepNoticeDialog.java.  Every notice is a thread of its own that shows  *)
(* the window, sleeps and hides it again; KeepNoticeDialog adds up, in     *)
(* mstime, the times of the notices still to be shown.                     *)
(*                                                                         *)
(* The text and how it is painted are left out, and fading, which nobody   *)
(* calls.  Sleeping threads wake up in any order: whoever shows a notice   *)
(* chooses its time, and the system may be late.                           *)
(***************************************************************************)
EXTENDS Integers

CONSTANTS Times,        \* times a notice may be shown for
          MaxNotices    \* bound: notices in a run

ASSUME TimesAssumption == Times \subseteq Nat
ASSUME MaxNoticesAssumption == MaxNotices \in Nat

VARIABLES
  notices,   \* notices[n]: the window of the n-th thread, its time, where it is
  visible,   \* visible[w]: window w is on the screen
  mstime,    \* of KeepNoticeDialog
  closed     \* the windows whose owner has been closed

noticeVars == <<notices, visible, mstime, closed>>

Windows == {"NoticeDialog", "KeepNoticeDialog"}
Threads == 1..MaxNotices
NoticeStates == {"none", "started", "asleep", "ended"}

NoticeAt(n, window, here) == /\ notices[n].window = window /\ notices[n].at = here
                             /\ UNCHANGED closed
NoticeGoto(n, there) == notices' = [notices EXCEPT ![n].at = there]

\* keepShow(time): a thread for it.
keepShow(window, time) ==
  /\ \E n \in Threads :
       /\ \A k \in Threads : notices[k].at = "none" <=> k >= n
       /\ notices' = [notices EXCEPT ![n] =
                        [window |-> window, time |-> time, at |-> "started"]]
  /\ UNCHANGED <<visible, mstime, closed>>

-----------------------------------------------------------------------------
(* nofading of NoticeDialog.                                               *)

Show(n) ==
  /\ NoticeAt(n, "NoticeDialog", "started") /\ NoticeGoto(n, "asleep")
  /\ visible' = [visible EXCEPT !["NoticeDialog"] = TRUE]
  /\ UNCHANGED mstime

Dispose(n) ==
  /\ NoticeAt(n, "NoticeDialog", "asleep") /\ NoticeGoto(n, "ended")
  /\ visible' = [visible EXCEPT !["NoticeDialog"] = FALSE]
  /\ UNCHANGED mstime

-----------------------------------------------------------------------------
(* nofading of KeepNoticeDialog: what is synchronized is one step.         *)

\* Mutant: mstime = time.
KeepRestarted(n) ==
  /\ NoticeAt(n, "KeepNoticeDialog", "started") /\ NoticeGoto(n, "asleep")
  /\ visible' = [visible EXCEPT !["KeepNoticeDialog"] = TRUE]
  /\ mstime' = notices[n].time

Keep(n) ==
  /\ NoticeAt(n, "KeepNoticeDialog", "started") /\ NoticeGoto(n, "asleep")
  /\ visible' = [visible EXCEPT !["KeepNoticeDialog"] = TRUE]
  /\ mstime' = mstime + notices[n].time

\* Mutant: mstime < 0.
ReleaseBelowZero(n) ==
  LET left == mstime - notices[n].time IN
  /\ NoticeAt(n, "KeepNoticeDialog", "asleep") /\ NoticeGoto(n, "ended")
  /\ IF left < 0
     THEN visible' = [visible EXCEPT !["KeepNoticeDialog"] = FALSE]
            /\ mstime' = 0
     ELSE mstime' = left /\ UNCHANGED visible

Release(n) ==
  LET left == mstime - notices[n].time IN
  /\ NoticeAt(n, "KeepNoticeDialog", "asleep") /\ NoticeGoto(n, "ended")
  /\ IF left <= 0
     THEN visible' = [visible EXCEPT !["KeepNoticeDialog"] = FALSE]
            /\ mstime' = 0
     ELSE mstime' = left /\ UNCHANGED visible

\* The window's owner is closed: the window is disposed of, but a notice that
\* starts later shows it again.
windowClosed(window) ==
  /\ visible' = [visible EXCEPT ![window] = FALSE]
  /\ closed' = closed \cup {window}
  /\ UNCHANGED <<notices, mstime>>

-----------------------------------------------------------------------------
NoticeInit ==
  /\ notices = [n \in Threads |->
                  [window |-> "NoticeDialog", time |-> 0, at |-> "none"]]
  /\ visible = [w \in Windows |-> FALSE]
  /\ mstime = 0 /\ closed = {}

NoticeThread(n) == Show(n) \/ Dispose(n) \/ Keep(n) \/ Release(n)

NoticeNext ==
  \/ \E w \in Windows : windowClosed(w) \/ \E t \in Times : keepShow(w, t)
  \/ \E n \in Threads : NoticeThread(n)

\* Every thread that was started runs, and its sleep ends.
NoticeFairness == \A n \in Threads : WF_noticeVars(NoticeThread(n))

NoticeSpec == NoticeInit /\ [][NoticeNext]_noticeVars /\ NoticeFairness

-----------------------------------------------------------------------------
\* Types; the time left is never negative.
NoticeTypeOK ==
  /\ notices \in [Threads -> [window : Windows, time : Times \cup {0},
                               at : NoticeStates]]
  /\ visible \in [Windows -> BOOLEAN]
  /\ mstime \in Nat
  /\ closed \subseteq Windows

\* A KeepNoticeDialog stays on the screen for the whole time of each of its
\* notices, whatever notices begin and end meanwhile: only when its owner is
\* closed is it taken away.
KeptShown ==
  "KeepNoticeDialog" \notin closed =>
    \A n \in Threads :
      /\ notices[n].window = "KeepNoticeDialog"
      /\ notices[n].at = "asleep" /\ notices[n].time > 0
      => visible["KeepNoticeDialog"]

\* No notice stays on the screen: once no more are asked for, each window is
\* hidden for good, in whatever order the threads wake up.
NoticesEnd == \A w \in Windows : <>[]~visible[w]
=============================================================================
