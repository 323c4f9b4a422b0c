------------------------------ MODULE UpdateFlow ------------------------------
(***************************************************************************)
(* From a release on GitHub to its installer: the thread that checks every *)
(* six hours, the toast and the menu entry it leads to (ui/tray_win32.c),  *)
(* and the download a click starts (platform/win32/update_win32.c): in a   *)
(* thread of the tray from the menu, in the process of the toast's COM     *)
(* activator from its body (activation_win32.c), in a process of its own   *)
(* from its button, through the linkpulse: protocol (cli/tray_main.c).     *)
(*                                                                         *)
(* Versions are compared by rank, and told apart by tag: v1.0.0 and 1.0.0  *)
(* are two tags of one rank.                                               *)
(***************************************************************************)
EXTENDS Integers

CONSTANTS
    Tags,            \* tags a release may have
    LP_VERSION,      \* the version that is running
    Zero,            \* 0.0.0
    Rank,            \* of each of these; NoRank if it is not MAJOR.MINOR.PATCH
    NoRank,
    None,            \* no tag
    MaxPending       \* bound: messages the UI thread may leave unread

Versions == Tags \cup {LP_VERSION, Zero}

ASSUME UpdateFlowAssumption ==
    /\ None \notin Versions
    /\ Rank \in [Versions -> Nat \cup {NoRank}] /\ NoRank \notin Nat
    /\ MaxPending \in Nat \ {0}

VARIABLES
    latest,             \* the tag of GitHub's latest release
    tray,               \* "running" or "ended"
    thread,             \* where the update thread is
    latest_version,     \* its local variables
    notify,
    update_available, update_version,
    pending,            \* WM_LP_UPDATE_RESULT messages that ask for a toast
    toasted,            \* the version of the last toast
    download,           \* where each download is
    installer           \* the file it writes: "none", "partial" or "whole"

checker == <<thread, latest_version, notify, update_available, update_version>>
downloads == <<download, installer>>
vars == <<latest, tray, checker, pending, toasted, downloads>>

\* A click on the menu, on the body of the toast, on its button.
Downloads == {"menu", "body", "button"}
Active == {"resolve", "get", "launch"}
Through == {"none", "launched", "failed", "killed"}

Init ==
    /\ latest \in Tags \cup {None}
    /\ tray = "running"
    /\ thread = "check" /\ latest_version = None /\ notify = FALSE
    /\ update_available = FALSE /\ update_version = None
    /\ pending = 0
    /\ toasted = None
    /\ download = [d \in Downloads |-> "none"]
    /\ installer = [d \in Downloads |-> "none"]

-----------------------------------------------------------------------------
version_is_newer(current, candidate) ==
    /\ Rank[current] # NoRank /\ Rank[candidate] # NoRank
    /\ Rank[candidate] > Rank[current]

\* lp_update_check_latest says LP_OK.
UpdateFor(current) == latest # None /\ version_is_newer(current, latest)

\* A release is published, or withdrawn: then an older one is the latest.
Releases ==
    /\ latest' \in (Tags \cup {None}) \ {latest}
    /\ UNCHANGED <<tray, checker, pending, toasted, downloads>>

CheckFinds ==
    /\ thread = "check"
    /\ UpdateFor(LP_VERSION)
    /\ latest_version' = latest
    /\ thread' = "found"
    /\ UNCHANGED <<latest, tray, notify, update_available, update_version, pending, toasted,
                   downloads>>

\* Nothing newer, or the request failed: an update found before stays available.
CheckEnds ==
    /\ thread = "check"
    /\ thread' = "wait"
    /\ UNCHANGED <<latest, tray, latest_version, notify, update_available, update_version,
                   pending, toasted, downloads>>

\* Mistake: only the first update is announced.
Publishes_FirstOnly ==
    /\ thread = "found"
    /\ notify' = ~update_available
    /\ update_available' = TRUE
    /\ update_version' = latest_version
    /\ thread' = "post"
    /\ UNCHANGED <<latest, tray, latest_version, pending, toasted, downloads>>

\* Under the lock.
Publishes ==
    /\ thread = "found"
    /\ notify' = (~update_available \/ update_version # latest_version)
    /\ update_available' = TRUE
    /\ update_version' = latest_version
    /\ thread' = "post"
    /\ UNCHANGED <<latest, tray, latest_version, pending, toasted, downloads>>

\* A message that asks for no toast only refreshes the icon.
Posts ==
    /\ thread = "post"
    /\ pending < MaxPending
    /\ pending' = IF notify THEN pending + 1 ELSE pending
    /\ thread' = "wait"
    /\ UNCHANGED <<latest, tray, latest_version, notify, update_available, update_version,
                   toasted, downloads>>

ChecksAgain ==
    /\ thread = "wait"
    /\ thread' = "check"
    /\ UNCHANGED <<latest, tray, latest_version, notify, update_available, update_version,
                   pending, toasted, downloads>>

\* The UI thread shows the version that is current when it gets the message.
show_update_notification ==
    /\ pending > 0
    /\ pending' = pending - 1
    /\ toasted' = update_version
    /\ UNCHANGED <<latest, tray, checker, downloads>>

-----------------------------------------------------------------------------
Goes(d, label, file) ==
    /\ download' = [download EXCEPT ![d] = label]
    /\ installer' = [installer EXCEPT ![d] = file]

\* start_update_download, unless the last one is still under way, and the
\* activations, which may be any number of times (one is enough here).
Clicks(d) ==
    /\ download[d] \in Through
    /\ IF d = "menu" THEN tray = "running" /\ update_available ELSE toasted # None
    /\ Goes(d, "resolve", "none")
    /\ UNCHANGED <<latest, tray, checker, pending, toasted>>

\* lp_update_download_latest looks the latest release up again, whatever the
\* version that is running, and creates a file for its installer.
Resolves(d) ==
    /\ download[d] = "resolve"
    /\ \/ UpdateFor(Zero) /\ Goes(d, "get", "partial")
       \/ Goes(d, "failed", "none")
    /\ UNCHANGED <<latest, tray, checker, pending, toasted>>

\* The body is read to its end, or not.
Gets(d) ==
    /\ download[d] = "get"
    /\ Goes(d, "launch", "whole") \/ Goes(d, "failed", "none")
    /\ UNCHANGED <<latest, tray, checker, pending, toasted>>

\* Mistake: an installer that does not start is downloaded again.
Launches_Retried(d) ==
    /\ download[d] = "launch"
    /\ Goes(d, "launched", "whole") \/ Goes(d, "resolve", "none")
    /\ UNCHANGED <<latest, tray, checker, pending, toasted>>

Launches(d) ==
    /\ download[d] = "launch"
    /\ Goes(d, "launched", "whole") \/ Goes(d, "failed", "none")
    /\ UNCHANGED <<latest, tray, checker, pending, toasted>>

Downloading(d) == Resolves(d) \/ Gets(d) \/ Launches(d)

Stops(d) == Goes(d, IF download[d] \in Active THEN "killed" ELSE download[d], installer[d])

\* The callback of the COM activator starts a thread for the download, lets go
\* of it and has its process end.
ActivatorEnds ==
    /\ download["body"] \in Active
    /\ Stops("body")
    /\ UNCHANGED <<latest, tray, checker, pending, toasted>>

\* Exit waits a second for the download; then the process ends.
TrayEnds ==
    /\ tray = "running"
    /\ tray' = "ended"
    /\ thread' = "stopped"
    /\ pending' = 0
    /\ Stops("menu")
    /\ UNCHANGED <<latest, latest_version, notify, update_available, update_version, toasted>>

Checks == CheckFinds \/ CheckEnds \/ Publishes \/ Posts \/ ChecksAgain

Next ==
    \/ Releases
    \/ Checks \/ show_update_notification
    \/ \E d \in Downloads : Clicks(d) \/ Downloading(d)
    \/ ActivatorEnds \/ TrayEnds

Spec == Init /\ [][Next]_vars

\* Threads are scheduled, and every request of a download comes to an end: its
\* timeouts are 5 to 30 seconds.
FairSpec == Spec /\ \A d \in Downloads : WF_vars(Downloading(d))

-----------------------------------------------------------------------------
TypeOK ==
    /\ latest \in Tags \cup {None}
    /\ tray \in {"running", "ended"}
    /\ thread \in {"check", "found", "post", "wait", "stopped"}
    /\ latest_version \in Tags \cup {None} /\ notify \in BOOLEAN
    /\ update_available \in BOOLEAN /\ update_version \in Tags \cup {None}
    /\ pending \in 0 .. MaxPending
    /\ toasted \in Tags \cup {None}
    /\ download \in [Downloads -> Active \cup Through]
    /\ installer \in [Downloads -> {"none", "partial", "whole"}]

\* The toasts still to be shown, the one about to be asked for included.
Coming == pending + IF thread = "post" /\ notify THEN 1 ELSE 0

\* Once the UI thread has caught up, the last toast names the version that the
\* menu offers, however checks, messages and releases overlapped; and that is a
\* newer one than the one running (tray_win32.c:262-266, 484-494).
ToastMatchesMenu ==
    /\ tray = "running" /\ Coming = 0 => toasted = update_version
    /\ update_available => version_is_newer(LP_VERSION, update_version)

\* A download that failed leaves no installer behind, whichever step failed
\* (update_win32.c:224, 277, and the callers after ShellExecute).
FailedLeavesNothing == \A d \in Downloads : download[d] = "failed" => installer[d] = "none"

Settled(d) ==
    \/ download[d] = "launched" /\ installer[d] = "whole"
    \/ download[d] = "failed" /\ installer[d] = "none"

\* A click in the menu or on the button of the toast starts the installer, or
\* tells the user that it could not and leaves nothing of it behind, unless the
\* tray is closed meanwhile.
ClicksSettle ==
    \A d \in {"menu", "button"} :
        download[d] \in Active ~> (Settled(d) \/ (d = "menu" /\ tray = "ended"))

\* README.md:118-120: clicking the notification body downloads and launches the
\* installer, if the download does not fail.
BodyClickInstalls ==
    download["body"] = "resolve" ~> download["body"] \in {"launched", "failed"}
=============================================================================
