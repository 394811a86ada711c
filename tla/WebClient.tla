------------------------------ MODULE WebClient ------------------------------
(***************************************************************************)
(* The page of include/WebUi.hpp in front of the service: browsers that    *)
(* poll the status, upload a file, show the review dialog and send the     *)
(* authorised commands.  Their requests are the handlers of FlashService;  *)
(* everything the service does by itself happens in between.               *)
(*                                                                         *)
(* A dialog stops the scripts of its page: what it shows and what it       *)
(* confirms belong to the status that was fetched before it opened.  An    *)
(* upload that was under way continues.                                    *)
(***************************************************************************)
EXTENDS FlashService

CONSTANTS Browsers

VARIABLES
  reply,    \* a status on its way to a browser (bound: one per page)
  last,     \* the last status a browser received (lastStatus)
  dialog,   \* the status a browser is reviewing
  poller,   \* the browser whose status request is being answered
  reviewed  \* history: the status that was reviewed for the last flash request

clientVars == <<reply, last, dialog, poller, reviewed>>
allVars == <<vars, clientVars>>

-----------------------------------------------------------------------------
\* What a page makes of a status: may Flash be pressed, the controller and the
\* image it describes, and (history) whether that image is still the uploaded one.
Status == [ready: BOOLEAN, uid: Targets \cup {NoTarget}, image: File, current: BOOLEAN]
Nothing == [ready |-> FALSE, uid |-> NoTarget, image |-> NoFile, current |-> FALSE]

\* Mutant: the comparison is not looked at, nor the state.
ReadyByTarget(state) == gStatus.uid # NoTarget
ReadyFor(state) == state = "Ready" /\ gStatus.complete /\ ~gStatus.identical

ClientInit ==
  /\ Init
  /\ reply = [b \in Browsers |-> Nothing]
  /\ last = [b \in Browsers |-> Nothing]
  /\ dialog = [b \in Browsers |-> Nothing]
  /\ poller \in Browsers
  /\ reviewed = Nothing

Open(b) == dialog[b] # Nothing

\* poll: fetch('/api/status').
Poll(b) ==
  /\ ~Open(b) /\ reply[b] = Nothing
  /\ StatusBegin
  /\ poller' = b
  /\ UNCHANGED <<reply, last, dialog, reviewed>>

Answer ==
  /\ StatusEnd
  /\ reply' = [reply EXCEPT ![poller] =
       [ready |-> ReadyFor(http.seen), uid |-> gStatus.uid, image |-> firmware,
        current |-> TRUE]]
  /\ UNCHANGED <<last, dialog, poller, reviewed>>

\* The rest of poll: lastStatus, ready and the texts of the page are set.
Receive(b) ==
  /\ ~Open(b) /\ reply[b] # Nothing
  /\ last' = [last EXCEPT ![b] = reply[b]]
  /\ reply' = [reply EXCEPT ![b] = Nothing]
  /\ UNCHANGED <<vars, dialog, poller, reviewed>>

Aged(pages) == [b \in Browsers |-> [pages[b] EXCEPT !.current = FALSE]]

\* An upload that is taken in makes every status an old one.
Age ==
  /\ reply' = Aged(reply) /\ last' = Aged(last) /\ dialog' = Aged(dialog)
  /\ UNCHANGED <<poller, reviewed>>

\* The Upload button, of any page.
Upload(b, body) ==
  /\ ~Open(b)
  /\ UploadStart(body)
  /\ IF UploadsIgnored THEN UNCHANGED clientVars ELSE Age

\* The end of an upload, the stored file probed anew: of one that was not stored
\* (it began while a job ran) as well.
Accepted == FinishAccepted /\ Age

\* The Flash button opens the review of lastStatus.
Review(b) ==
  /\ ~Open(b) /\ last[b].ready
  /\ dialog' = [dialog EXCEPT ![b] = last[b]]
  /\ UNCHANGED <<vars, reply, last, poller, reviewed>>

\* Confirmed, the phrase typed: POST /api/flash.
Confirm(b) ==
  /\ Open(b)
  /\ FlashRequest
  /\ reviewed' = dialog[b]
  /\ dialog' = [dialog EXCEPT ![b] = Nothing]
  /\ UNCHANGED <<reply, last, poller>>

\* Not confirmed, a phrase that does not match, or a request that is refused.
Dismiss(b) ==
  /\ Open(b)
  /\ dialog' = [dialog EXCEPT ![b] = Nothing]
  /\ UNCHANGED <<vars, reply, last, poller, reviewed>>

\* What the pages do not take part in.
Service ==
  /\ \/ UploadWrite \/ UploadEnd \/ UploadAbort
     \/ FinishBusy \/ FinishRejected \/ RestoreRequest
     \/ JobStep \/ Environment
  /\ UNCHANGED clientVars

ClientNext ==
  \/ \E b \in Browsers :
       \/ Poll(b) \/ Receive(b) \/ Review(b) \/ Confirm(b) \/ Dismiss(b)
       \/ \E body \in Uploads : Upload(b, body)
  \/ Answer
  \/ Accepted
  \/ Service

ClientSpec == ClientInit /\ [][ClientNext]_allVars

-----------------------------------------------------------------------------
ClientTypeOK ==
  /\ reply \in [Browsers -> Status]
  /\ last \in [Browsers -> Status]
  /\ dialog \in [Browsers -> Status]
  /\ poller \in Browsers
  /\ reviewed \in Status

(* Flash is offered by a page only for an image that passed its preflight  *)
(* on the controller that is shown with it (ready in poll), however late   *)
(* the reply arrives: the dialog never shows half of another upload.       *)
OfferedIsAcceptable ==
  \A b \in Browsers : last[b].ready =>
    /\ last[b].uid \in Targets
    /\ Acceptable(last[b].image) /\ ~NamesForeign(last[b].image)
    /\ Offset + Len(last[b].image) <= Capacity[last[b].uid]

Writing == job.kind = "Flash" /\ job.pc \in {"unlock", "erase", "write"}
           /\ job.source = "firmware"

IsReviewed == job.target = reviewed.uid /\ firmware = reviewed.image

(* As long as no upload is stored or probed after the status a page        *)
(* reviews, its confirmation programs that image into that controller,     *)
(* however late it comes and whatever restores, exchanges and restarts it  *)
(* meets (POST /api/flash names neither).                                  *)
ReviewHolds == Writing /\ reviewed.current => IsReviewed
=============================================================================
