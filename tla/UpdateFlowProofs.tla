--------------------------- MODULE UpdateFlowProofs ---------------------------
(***************************************************************************)
(* The safety of UpdateFlow.tla for any set of tags, any order of them and *)
(* any number of messages the UI thread may leave unread.                  *)
(***************************************************************************)
EXTENDS UpdateFlow, TLAPS

\* What the update thread found and is about to publish is newer than the version
\* that is running (update_win32.c:98-176).
FoundIsNewer == thread = "found" => version_is_newer(LP_VERSION, latest_version)

IInv == TypeOK /\ FoundIsNewer /\ ToastMatchesMenu /\ FailedLeavesNothing

\* Where a download is, for the steps that only concern downloads.
Downloaded == download \in [Downloads -> Active \cup Through]
                 /\ installer \in [Downloads -> {"none", "partial", "whole"}]
                 /\ FailedLeavesNothing

\* A step of the checks, the messages or the user that leaves the downloads alone.
Elsewhere == UNCHANGED downloads

\* Before the first check nothing has been found, and nothing downloaded.
LEMMA InitIInv == Init => IInv
<1> SUFFICES ASSUME Init PROVE IInv
  OBVIOUS
<1>1. TypeOK
  <2>1. pending \in 0 .. MaxPending
    BY UpdateFlowAssumption DEF Init
  <2>2. /\ download \in [Downloads -> Active \cup Through]
        /\ installer \in [Downloads -> {"none", "partial", "whole"}]
    BY DEF Init, Active, Through
  <2> QED
    BY <2>1, <2>2, Zenon DEF Init, TypeOK
<1>2. FoundIsNewer /\ ToastMatchesMenu
  BY DEF Init, FoundIsNewer, ToastMatchesMenu
<1>3. FailedLeavesNothing
  BY DEF Init, FailedLeavesNothing
<1> QED
  BY <1>1, <1>2, <1>3 DEF IInv

-----------------------------------------------------------------------------
(* The checks and their announcements.                                     *)

\* Every step of the update thread, and the UI thread's answer to its message,
\* keep the menu and the toasts together.
LEMMA ChecksPreserve ==
    ASSUME IInv, Checks \/ show_update_notification \/ Releases
    PROVE  IInv'
<1> USE DEF IInv, TypeOK, FoundIsNewer, ToastMatchesMenu, Coming
<1>1. FailedLeavesNothing' /\ Elsewhere
  BY DEF Checks, CheckFinds, CheckEnds, Publishes, Posts, ChecksAgain,
         show_update_notification, Releases, FailedLeavesNothing, Elsewhere, downloads
<1>2. CASE Releases
  BY <1>1, <1>2 DEF Releases, Elsewhere, downloads, checker
<1>3. CASE CheckFinds
  <2>1. latest_version' \in Tags /\ version_is_newer(LP_VERSION, latest_version')
    BY <1>3 DEF CheckFinds, UpdateFor
  <2>2. \A v : version_is_newer(LP_VERSION, v)' = version_is_newer(LP_VERSION, v)
    BY DEF version_is_newer
  <2> QED
    BY <1>1, <1>3, <2>1 DEF CheckFinds, Elsewhere, downloads, version_is_newer
<1>4. CASE CheckEnds
  BY <1>1, <1>4 DEF CheckEnds, Elsewhere, downloads
<1>5. CASE Publishes
  <2>1. /\ thread = "found" /\ thread' = "post" /\ tray' = tray /\ pending' = pending
        /\ toasted' = toasted /\ update_version' = latest_version /\ update_available' = TRUE
        /\ notify' = (~update_available \/ update_version # latest_version)
        /\ latest' = latest /\ latest_version' = latest_version
    BY <1>5 DEF Publishes
  <2>2. TypeOK'
    BY <1>1, <2>1 DEF Elsewhere, downloads
  <2>3. FoundIsNewer'
    BY <2>1
  <2>4. CASE notify'
    <3>1. Coming' = pending + 1 /\ Coming' # 0
      BY <2>1, <2>4
    <3> QED
      BY <1>1, <2>1, <2>2, <2>3, <3>1 DEF version_is_newer
  <2>5. CASE ~notify'
    <3>1. update_version = latest_version
      BY <2>1, <2>5, Zenon
    <3>2. pending \in Nat /\ ~(thread = "post" /\ notify)
      BY <2>1
    <3>3. Coming = pending
      BY <3>2
    <3>4. Coming' = pending
      BY <2>1, <2>5, <3>2
    <3> QED
      BY <1>1, <2>1, <2>2, <2>3, <3>1, <3>3, <3>4 DEF version_is_newer
  <2> QED
    BY <2>4, <2>5
<1>6. CASE Posts
  <2>1. TypeOK' /\ FoundIsNewer'
    BY <1>1, <1>6, UpdateFlowAssumption DEF Posts, Elsewhere, downloads
  <2>2. Coming' = Coming
    <3>1. pending' = (IF notify THEN pending + 1 ELSE pending) /\ thread' # "post" /\ thread = "post"
      BY <1>6 DEF Posts
    <3>2. CASE notify
      BY <3>1, <3>2
    <3>3. CASE ~notify
      BY <3>1, <3>3
    <3> QED
      BY <3>2, <3>3
  <2> QED
    BY <1>1, <1>6, <2>1, <2>2 DEF Posts, version_is_newer
<1>7. CASE ChecksAgain
  BY <1>1, <1>7 DEF ChecksAgain, Elsewhere, downloads
<1>8. CASE show_update_notification
  <2>1. pending' \in 0 .. MaxPending
    BY <1>8, UpdateFlowAssumption DEF show_update_notification
  <2>2. TypeOK' /\ FoundIsNewer'
    BY <1>1, <1>8, <2>1 DEF show_update_notification, Elsewhere, downloads, checker,
                            version_is_newer
  <2>3. toasted' = update_version'
    BY <1>8 DEF show_update_notification, checker
  <2> QED
    BY <1>1, <1>8, <2>2, <2>3 DEF show_update_notification, checker, version_is_newer
<1> QED
  BY <1>2, <1>3, <1>4, <1>5, <1>6, <1>7, <1>8 DEF Checks

-----------------------------------------------------------------------------
(* The downloads.                                                          *)

\* A download may go anywhere, as long as failing takes its file along.
LEMMA GoingKeepsDownloads ==
    ASSUME Downloaded, NEW d \in Downloads, NEW label \in Active \cup Through,
           NEW image \in {"none", "partial", "whole"}, label = "failed" => image = "none",
           Goes(d, label, image)
    PROVE  Downloaded'
  BY DEF Downloaded, Goes, FailedLeavesNothing

\* Being killed leaves the file as it is, and does not count as failing.
LEMMA StoppingKeepsDownloads ==
    ASSUME Downloaded, NEW d \in Downloads, Stops(d)
    PROVE  Downloaded'
<1>1. PICK label \in Active \cup Through :
          label = (IF download[d] \in Active THEN "killed" ELSE download[d])
  BY DEF Downloaded, Through
<1>2. label = "failed" => installer[d] = "none"
  BY <1>1 DEF Downloaded, FailedLeavesNothing
<1>3. installer[d] \in {"none", "partial", "whole"}
  BY DEF Downloaded
<1> QED
  BY <1>1, <1>2, <1>3, GoingKeepsDownloads DEF Stops

\* A step that touches downloads only keeps the rest of the invariant.
LEMMA DownloadsAreApart ==
    ASSUME IInv, Downloaded', UNCHANGED <<latest, tray, checker, pending, toasted>>
    PROVE  IInv'
  BY DEF IInv, TypeOK, FoundIsNewer, ToastMatchesMenu, Coming, Downloaded, checker,
         version_is_newer

\* A step of a download keeps the invariant, of whichever process.
LEMMA DownloadPreserves ==
    ASSUME IInv, NEW d \in Downloads, Clicks(d) \/ Downloading(d)
    PROVE  IInv'
<1>1. Downloaded
  BY DEF IInv, TypeOK, Downloaded
<1> USE DEF Active, Through
<1>2. CASE Clicks(d)
  BY <1>1, <1>2, GoingKeepsDownloads, DownloadsAreApart DEF Clicks
<1>3. CASE Resolves(d)
  BY <1>1, <1>3, GoingKeepsDownloads, DownloadsAreApart DEF Resolves
<1>4. CASE Gets(d)
  BY <1>1, <1>4, GoingKeepsDownloads, DownloadsAreApart DEF Gets
<1>5. CASE Launches(d)
  BY <1>1, <1>5, GoingKeepsDownloads, DownloadsAreApart DEF Launches
<1> QED
  BY <1>2, <1>3, <1>4, <1>5 DEF Downloading

\* The process a toast started may end at any time.
LEMMA ActivatorEndsPreserves ==
    ASSUME IInv, ActivatorEnds
    PROVE  IInv'
<1>1. Downloaded
  BY DEF IInv, TypeOK, Downloaded
<1>2. Downloaded'
  BY <1>1, StoppingKeepsDownloads DEF ActivatorEnds, Downloads
<1> QED
  BY <1>2, DownloadsAreApart DEF ActivatorEnds

\* So may the tray.
LEMMA TrayEndsPreserves ==
    ASSUME IInv, TrayEnds
    PROVE  IInv'
<1>1. Downloaded
  BY DEF IInv, TypeOK, Downloaded
<1>2. Downloaded'
  BY <1>1, StoppingKeepsDownloads DEF TrayEnds, Downloads
<1> QED
  BY <1>2, UpdateFlowAssumption
  DEF IInv, TypeOK, FoundIsNewer, ToastMatchesMenu, Coming, Downloaded, TrayEnds, version_is_newer

\* Every step keeps the invariant.
LEMMA NextIInv == IInv /\ [Next]_vars => IInv'
<1>1. ASSUME IInv, UNCHANGED vars PROVE IInv'
  <2>1. Downloaded'
    BY <1>1 DEF IInv, TypeOK, Downloaded, FailedLeavesNothing, vars, downloads
  <2> QED
    BY <1>1, <2>1, DownloadsAreApart DEF vars
<1> QED
  BY <1>1, ChecksPreserve, DownloadPreserves, ActivatorEndsPreserves, TrayEndsPreserves DEF Next

\* It holds of every state of the update flow.
LEMMA Invariance == Spec => []IInv
  BY InitIInv, NextIInv, PTL DEF Spec

-----------------------------------------------------------------------------
\* Threads, messages, downloads and files are where they can be.
THEOREM TypeCorrect == Spec => []TypeOK
<1>1. IInv => TypeOK
  BY DEF IInv
<1> QED
  BY <1>1, Invariance, PTL

\* However checks, messages and releases overlap, the last toast names what the
\* menu offers, which is newer than what is running (tray_win32.c:258-270).
THEOREM ToastAndMenuAgree == Spec => []ToastMatchesMenu
<1>1. IInv => ToastMatchesMenu
  BY DEF IInv
<1> QED
  BY <1>1, Invariance, PTL

\* No download that failed leaves a file behind (update_win32.c:224, 277).
THEOREM FailuresLeaveNothing == Spec => []FailedLeavesNothing
<1>1. IInv => FailedLeavesNothing
  BY DEF IInv
<1> QED
  BY <1>1, Invariance, PTL
=============================================================================
