--------------------------------- MODULE Gate ---------------------------------
(***************************************************************************)
(* The page of the people at the door: a camera that reads codes frame by  *)
(* frame, a field for typing one, and one answer on the screen at a time.  *)
(* validate() lets one code through: a reference says that one is being    *)
(* validated, because the frames keep calling it.  The server marks a      *)
(* ticket as used once; another device may have done so before.            *)
(***************************************************************************)
EXTENDS Integers, FiniteSets

CONSTANTS
  Tickets,      \* tickets whose codes come to the door
  Issued,       \* those the person may let in
  MaxReaders,   \* readers starting or reading at once, a bound for TLC
  MaxScans      \* codes sent, a bound for TLC

VARIABLES
  screen,    \* React state and the validating reference
  camera,    \* readers of @zxing/browser: starting, reading, the one held
  posted,    \* codes whose validation is under way
  used,      \* tickets the server has marked as used
  scans      \* codes sent so far

vars == <<screen, camera, posted, used, scans>>

Opened == [loading |-> TRUE, assigned |-> FALSE, busy |-> FALSE, scanning |-> FALSE,
           validating |-> FALSE, result |-> "none", shown |-> "none", sent |-> "none"]
Dark == [starting |-> 0, reading |-> 0, held |-> FALSE]

Init ==
  /\ screen = Opened
  /\ camera = Dark
  /\ posted = {}
  /\ used = {}
  /\ scans = 0

\* load(): the events assigned to the person; without one there is no reader.
Loaded ==
  /\ screen.loading
  /\ \E some \in BOOLEAN :
       screen' = [screen EXCEPT !.loading = FALSE, !.assigned = some]
  /\ UNCHANGED <<camera, posted, used, scans>>

\* The page is reloaded and its readers end with it; what it posted may still
\* reach the server.
Reload ==
  /\ screen' = Opened
  /\ camera' = Dark
  /\ posted' = {}
  /\ used' \in {used, used \cup (posted \cap Issued)}
  /\ UNCHANGED scans

------------------------------------------------------------------------------
(* The camera *)

Cleared(s) == [s EXCEPT !.result = "none", !.shown = "none"]

\* The held reader stops; stopping it again does nothing.
Stopped(c) == IF c.held THEN [c EXCEPT !.held = FALSE, !.reading = @ - 1] ELSE c

StartCamera ==
  /\ screen.assigned /\ ~screen.scanning /\ ~screen.busy
  /\ camera.starting + camera.reading < MaxReaders
  /\ screen' = [Cleared(screen) EXCEPT !.scanning = TRUE]
  /\ camera' = [camera EXCEPT !.starting = @ + 1]
  /\ UNCHANGED <<posted, used, scans>>

\* decodeFromVideoDevice() resolves: the reader is held, whatever was pressed
\* meanwhile, and the one held before is lost sight of.
CameraReady ==
  /\ camera.starting > 0
  /\ camera' = [starting |-> camera.starting - 1, reading |-> camera.reading + 1,
                held |-> TRUE]
  /\ UNCHANGED <<screen, posted, used, scans>>

CameraRefused ==
  /\ camera.starting > 0
  /\ camera' = [camera EXCEPT !.starting = @ - 1]
  /\ screen' = [screen EXCEPT !.scanning = FALSE]
  /\ UNCHANGED <<posted, used, scans>>

StopCamera ==
  /\ screen.scanning
  /\ camera' = Stopped(camera)
  /\ screen' = [screen EXCEPT !.scanning = FALSE]
  /\ UNCHANGED <<posted, used, scans>>

------------------------------------------------------------------------------
(* Validating *)

\* Mutant: every call posts its code.
Free_Always == TRUE

Free == ~screen.validating

\* validate(payload)
Post(t) ==
  /\ Free /\ scans < MaxScans
  /\ screen' = [Cleared(screen) EXCEPT !.validating = TRUE, !.busy = TRUE, !.sent = t]
  /\ posted' = posted \cup {t}
  /\ scans' = scans + 1
  /\ UNCHANGED <<camera, used>>

\* A frame with a code: any reader that reads calls validate(), held or not.
Frame(t) == camera.reading > 0 /\ Post(t)

\* The button of the form is disabled while busy.
SubmitManual(t) == screen.assigned /\ ~screen.busy /\ Post(t)

\* OrdersService.validate(): the ticket is used from now on.
Accepted(t) ==
  /\ t \in posted /\ t \in Issued \ used
  /\ used' = used \cup {t}
  /\ posted' = posted \ {t}
  /\ screen' = [screen EXCEPT !.result = "accepted", !.shown = t, !.scanning = FALSE,
                              !.busy = FALSE, !.validating = FALSE]
  /\ camera' = Stopped(camera)
  /\ UNCHANGED scans

\* Already used, of another event, unknown: the camera goes on.  An error of the
\* server looks the same, before its transaction or after it (the audit entry).
Rejected(t) ==
  /\ t \in posted
  /\ posted' = posted \ {t}
  /\ used' \in {used, used \cup ({t} \cap Issued)}
  /\ screen' = [screen EXCEPT !.result = "rejected", !.shown = t,
                              !.busy = FALSE, !.validating = FALSE]
  /\ UNCHANGED <<camera, scans>>

\* The request fails on the way, before or after the server: its promise rejects
\* and the page goes on waiting until it is reloaded.
Lost(t) ==
  /\ t \in posted
  /\ posted' = posted \ {t}
  /\ used' \in {used, used \cup ({t} \cap Issued)}
  /\ UNCHANGED <<screen, camera, scans>>

\* reset(), the button of an answer.
Reset ==
  /\ ~screen.busy /\ screen.result # "none"
  /\ screen' = [Cleared(screen) EXCEPT !.validating = FALSE]
  /\ UNCHANGED <<camera, posted, used, scans>>

\* Another person lets the ticket in.
Elsewhere ==
  /\ \E t \in Issued \ used : used' = used \cup {t}
  /\ UNCHANGED <<screen, camera, posted, scans>>

Next ==
  \/ Loaded \/ Reload \/ StartCamera \/ CameraReady \/ CameraRefused \/ StopCamera
  \/ \E t \in Tickets : \/ Frame(t) \/ SubmitManual(t)
                        \/ Accepted(t) \/ Rejected(t) \/ Lost(t)
  \/ Reset \/ Elsewhere

Spec == Init /\ [][Next]_vars

------------------------------------------------------------------------------
(* Properties *)

\* The answer on the screen is that of the last code sent, not of one a frame or
\* a finger sent before it, and nobody is let in on a code whose ticket the
\* server has not marked.
AnswerFitsCode ==
  screen.result # "none" =>
    /\ screen.shown = screen.sent
    /\ screen.result = "accepted" => screen.shown \in used
    /\ posted = {}

------------------------------------------------------------------------------
(* The inductive invariant behind the theorem of PagesProofs *)

Screen == [loading : BOOLEAN, assigned : BOOLEAN, busy : BOOLEAN, scanning : BOOLEAN,
           validating : BOOLEAN, result : {"none", "accepted", "rejected"},
           shown : Tickets \cup {"none"}, sent : Tickets \cup {"none"}]

\* One code is under way at most, the one sent last, and none once the reference
\* lets another through.
GateInv ==
  /\ screen \in Screen
  /\ posted \subseteq {screen.sent}
  /\ ~screen.validating => posted = {}
  /\ AnswerFitsCode
===============================================================================
