------------------------------- MODULE Upload -------------------------------
(***************************************************************************)
(* One upload of the fetcher (crates/ostrya-fetch/src/lib.rs).  Three      *)
(* parties share the slot of an Exchange: the UploadWriter that fills a    *)
(* streamed body, the connection of hyper that polls the body, and the     *)
(* upload that waits for the response.  The upload tries its destinations  *)
(* in rounds while the request is unsent, and follows the redirects of a   *)
(* body given whole.                                                       *)
(*                                                                         *)
(* A step is one hold of the mutex of the slot.  A party that the hold     *)
(* wakes leaves the set wakers, and polls again at a later step.  A frame  *)
(* is a unit; a write fills one.  hyper is external: it can stop polling,  *)
(* fail or answer at any time, and it gives a request back only before it  *)
(* writes a part of it.                                                    *)
(***************************************************************************)
EXTENDS Naturals, FiniteSets

CONSTANTS
  Frames,        \* the frames of a body
  Mirrors,       \* the destinations of a route by path; a URL has one
  MaxRetries,    \* FetcherOptions::max_retries
  MaxRedirects   \* FetcherOptions::max_redirects

VARIABLES
  whole,    \* the body was given whole, so it has no writer
  slot,     \* Exchange::slot, without its wakers
  wakers,   \* the parties whose waker is in the slot
  writer,   \* UploadWriter and the call that its caller runs
  hyper,    \* what the connection does with the request
  head,     \* what the future of try_send_request resolves to
  rounds,   \* the locals of upload_rounds
  upload,   \* the locals of upload, upload_attempt, upload_send and answer
  sent      \* how often hyper began to write the request

vars == <<whole, slot, wakers, writer, hyper, head, rounds, upload, sent>>

(***************************************************************************)
(* ripe: the frame in the slot waited the whole stall window.  gone and    *)
(* the rest are fields of Slot; frame counts frames, which is one at most  *)
(* for a writer, and the remaining part for a body given whole.            *)
(***************************************************************************)
SlotType ==
  [frame : 0..Frames, closed : BOOLEAN, aborted : BOOLEAN, gone : BOOLEAN,
   ended : BOOLEAN, polled : BOOLEAN, empty : BOOLEAN, stall : BOOLEAN,
   ripe : BOOLEAN]

WriterType ==
  [pc : {"none", "idle", "write", "hand", "taken", "close", "check", "parked",
         "failed", "closed", "dropped"},
   call : {"none", "write", "flush", "close"},
   buffer : {0, 1}, timer : BOOLEAN, written : 0..Frames]

HyperType ==
  [at : {"none", "queued", "polling", "asking", "parked", "finished", "failed"},
   got : 0..Frames, complete : BOOLEAN]

HeadType == {"none", "answer", "withheld", "redirect", "refused", "error", "returned"}

RoundsType ==
  [count : {1, Mirrors}, position : 1..Mirrors, settled : SUBSET (1..Mirrors),
   retryable : BOOLEAN, round : 0..MaxRetries]

UploadType ==
  [at : {"idle", "attempt", "connect", "ready", "backoff", "poll", "watch", "check",
         "parked", "headwait", "returned", "response", "over"},
   conn : {"idle", "shared", "new"}, timer : BOOLEAN, followed : 0..MaxRedirects,
   handed : BOOLEAN,
   outcome : {"none", "answered", "interrupted", "unsent", "dropped"}]

TypeOK ==
  /\ whole \in BOOLEAN
  /\ slot \in SlotType
  /\ wakers \subseteq {"writer", "reader", "upload"}
  /\ writer \in WriterType
  /\ hyper \in HyperType
  /\ head \in HeadType
  /\ rounds \in RoundsType
  /\ upload \in UploadType
  /\ sent \in Nat

\* Slot::default, and the slot of Exchange::whole for a body of n frames.
EmptySlot ==
  [frame |-> 0, closed |-> FALSE, aborted |-> FALSE, gone |-> FALSE, ended |-> FALSE,
   polled |-> FALSE, empty |-> FALSE, stall |-> FALSE, ripe |-> FALSE]
WholeSlot(n) == [EmptySlot EXCEPT !.frame = n, !.closed = TRUE]

Unasked == [at |-> "none", got |-> 0, complete |-> FALSE]

\* An UploadBody before its upload: a streamed body or one given whole, to a URL or
\* to the mirrors.
Init ==
  /\ \E n \in {0, Frames} :
       \/ /\ whole = TRUE /\ slot = WholeSlot(n)
          /\ writer = [pc |-> "none", call |-> "none", buffer |-> 0, timer |-> FALSE,
                       written |-> n]
       \/ /\ whole = FALSE /\ slot = EmptySlot
          /\ writer = [pc |-> "idle", call |-> "none", buffer |-> 0, timer |-> FALSE,
                       written |-> 0]
  /\ wakers = {}
  /\ hyper = Unasked
  /\ head = "none"
  /\ \E n \in {1, Mirrors} :
       rounds = [count |-> n, position |-> 1, settled |-> {},
                 retryable |-> FALSE, round |-> 0]
  /\ upload = [at |-> "idle", conn |-> "new", timer |-> FALSE, followed |-> 0,
               handed |-> FALSE, outcome |-> "none"]
  /\ sent = 0

-----------------------------------------------------------------------------
\* Slot and Exchange.

\* A mutant of EndWakers: the end wakes the writer alone.
EndWakersWriter == {"writer"}

\* A mutant of HandOverWakers: the hand-over wakes nobody.
HandOverWakersNone == {}

\* The parties that the end, a failure and the hand-over wake.
EndWakers == {"writer", "upload"}
AbortWakers == {"reader", "upload", "writer"}
HandOverWakers == {"writer"}

AtEnd(s) == s.closed /\ s.frame = 0 /\ ~s.aborted

\* Slot::stall_end is an instant, and not None.
WindowRuns(s) == s.stall /\ s.frame > 0 /\ ~s.aborted

EndSlot(s) == [s EXCEPT !.ended = TRUE]
AbortSlot(s) == [s EXCEPT !.aborted = TRUE]
HandOverSlot(s) == [s EXCEPT !.stall = TRUE, !.ripe = FALSE, !.empty = AtEnd(s)]
WithdrawSlot(s) == [s EXCEPT !.stall = FALSE, !.ripe = FALSE, !.empty = FALSE]

\* Exchange::cut.
Cut ==
  IF slot.ended
  THEN UNCHANGED <<slot, wakers>>
  ELSE slot' = AbortSlot(slot) /\ wakers' = wakers \ AbortWakers

\* Drop for BodyEnd.
DropBody == slot' = [slot EXCEPT !.gone = TRUE] /\ wakers' = wakers \ {"writer"}

\* BodyEnd::is_end_stream.
SaysEnd(s) == s.ended \/ (AtEnd(s) /\ (s.polled \/ s.empty))

\* The stall window of the frame in the slot passes.
Tick ==
  /\ WindowRuns(slot) /\ ~slot.ripe
  /\ slot' = [slot EXCEPT !.ripe = TRUE]
  /\ UNCHANGED <<whole, wakers, writer, hyper, head, rounds, upload, sent>>

-----------------------------------------------------------------------------
\* The writer.  A poll of a call starts at the same place each time.

Returned(at) == [writer EXCEPT !.pc = at, !.call = "none", !.timer = FALSE]
WriterFails == writer' = Returned("failed")

Broken(s) == s.gone \/ s.aborted

PollOf(c) ==
  CASE c = "write" -> "write"
    [] c # "write" /\ writer.buffer > 0 -> "hand"
    [] c = "flush" /\ writer.buffer = 0 -> "taken"
    [] c = "close" /\ writer.buffer = 0 -> "close"

\* The caller starts a write, a flush or a close.
Call(c) ==
  /\ writer.pc = "idle"
  /\ c = "write" => writer.written < Frames
  /\ writer' = [writer EXCEPT !.call = c, !.pc = PollOf(c)]
  /\ UNCHANGED <<whole, slot, wakers, hyper, head, rounds, upload, sent>>

Filled(w) == [w EXCEPT !.pc = "idle", !.call = "none", !.buffer = 1, !.written = @ + 1]

\* UploadWriter::poll_write, up to its poll_hand_over.
PollWrite ==
  /\ writer.pc = "write"
  /\ IF Broken(slot) \/ slot.closed
     THEN WriterFails
     ELSE writer' = IF writer.buffer = 1 THEN [writer EXCEPT !.pc = "hand"] ELSE Filled(writer)
  /\ UNCHANGED <<whole, slot, wakers, hyper, head, rounds, upload, sent>>

\* The waker of the writer is kept, and poll_stall reads the window.
WriterParks(s) ==
  /\ wakers' = (IF s.closed /\ ~slot.closed THEN wakers \ {"reader"} ELSE wakers) \cup {"writer"}
  /\ writer' = [writer EXCEPT !.pc = IF WindowRuns(s) /\ s.ripe THEN "check" ELSE "parked",
                              !.timer = WindowRuns(s)]

\* UploadWriter::poll_hand_over, and the rest of poll_write.
PollHandOver ==
  /\ writer.pc = "hand"
  /\ \/ Broken(slot) /\ WriterFails /\ UNCHANGED <<slot, wakers>>
     \/ ~Broken(slot) /\ slot.frame > 0 /\ WriterParks(slot) /\ UNCHANGED slot
     \/ /\ ~Broken(slot) /\ slot.frame = 0
        /\ slot' = [slot EXCEPT !.frame = 1, !.ripe = FALSE]
        /\ wakers' = wakers \ {"reader"}
        /\ writer' = CASE writer.call = "write" -> Filled(writer)
                       [] writer.call = "flush" -> [writer EXCEPT !.buffer = 0, !.pc = "taken"]
                       [] writer.call = "close" -> [writer EXCEPT !.buffer = 0, !.pc = "close"]
  /\ UNCHANGED <<whole, hyper, head, rounds, upload, sent>>

\* UploadWriter::poll_taken.
PollTaken ==
  /\ writer.pc = "taken"
  /\ \/ Broken(slot) /\ WriterFails /\ UNCHANGED wakers
     \/ ~Broken(slot) /\ slot.frame = 0 /\ writer' = Returned("idle") /\ UNCHANGED wakers
     \/ ~Broken(slot) /\ slot.frame > 0 /\ WriterParks(slot)
  /\ UNCHANGED <<whole, slot, hyper, head, rounds, upload, sent>>

\* The last part of UploadWriter::poll_close.
PollClose ==
  /\ writer.pc = "close"
  /\ slot' = [slot EXCEPT !.closed = TRUE]
  /\ \/ /\ slot.ended
        /\ writer' = Returned("closed")
        /\ wakers' = IF slot.closed THEN wakers ELSE wakers \ {"reader"}
     \/ /\ ~slot.ended /\ Broken(slot) /\ WriterFails
        /\ wakers' = IF slot.closed THEN wakers ELSE wakers \ {"reader"}
     \/ ~slot.ended /\ ~Broken(slot) /\ WriterParks(slot')
  /\ UNCHANGED <<whole, hyper, head, rounds, upload, sent>>

\* Exchange::check_stall, called by UploadWriter::poll_stall.
WriterChecksStall ==
  /\ writer.pc = "check"
  /\ IF WindowRuns(slot) /\ slot.ripe
     THEN slot' = AbortSlot(slot) /\ wakers' = wakers \ AbortWakers /\ WriterFails
     ELSE /\ writer' = [writer EXCEPT !.pc = "parked", !.timer = WindowRuns(slot)]
          /\ UNCHANGED <<slot, wakers>>
  /\ UNCHANGED <<whole, hyper, head, rounds, upload, sent>>

\* The executor polls the call again, after a wake or at the end of its timer.
WriterWakes ==
  /\ writer.pc = "parked"
  /\ "writer" \notin wakers \/ (writer.timer /\ slot.ripe)
  /\ writer' = [writer EXCEPT !.pc = PollOf(writer.call), !.timer = FALSE]
  /\ UNCHANGED <<whole, slot, wakers, hyper, head, rounds, upload, sent>>

\* The caller drops the future of a call that is pending.
CancelCall ==
  /\ writer.pc = "parked"
  /\ writer' = Returned("idle")
  /\ UNCHANGED <<whole, slot, wakers, hyper, head, rounds, upload, sent>>

\* A mutant of Abandoned: the drop of the writer closes the body.
AbandonedClosing(s) == [s EXCEPT !.closed = TRUE]

\* Drop for UploadWriter.
Abandoned(s) == IF s.closed THEN s ELSE AbortSlot(s)

DropWriter ==
  /\ writer.pc \in {"idle", "parked", "failed", "closed"}
  /\ slot' = Abandoned(slot)
  /\ wakers' = IF slot.closed THEN wakers ELSE wakers \ AbortWakers
  /\ writer' = Returned("dropped")
  /\ UNCHANGED <<whole, hyper, head, rounds, upload, sent>>

WriterStep ==
  PollWrite \/ PollHandOver \/ PollTaken \/ PollClose \/ WriterChecksStall \/ WriterWakes

-----------------------------------------------------------------------------
\* The connection of hyper, and the body that it polls.

Holds == hyper.at \in {"queued", "polling", "asking", "parked"}

\* hyper asks is_end_stream.  At the end, it drops the body.
AsksEnd ==
  IF SaysEnd(slot)
  THEN /\ slot' = [EndSlot(slot) EXCEPT !.gone = TRUE]
       /\ wakers' = wakers \ EndWakers
       /\ hyper' = [hyper EXCEPT !.at = "finished", !.complete = TRUE]
  ELSE /\ hyper' = [hyper EXCEPT !.at = "polling"]
       /\ UNCHANGED <<slot, wakers>>

\* hyper begins to write the request, and frames it from the first answer.
HyperFrames ==
  /\ hyper.at = "queued"
  /\ sent' = sent + 1
  /\ AsksEnd
  /\ UNCHANGED <<whole, writer, head, rounds, upload>>

HyperAsks ==
  /\ hyper.at = "asking"
  /\ AsksEnd
  /\ UNCHANGED <<whole, writer, head, rounds, upload, sent>>

ConnectionFails ==
  /\ hyper' = [hyper EXCEPT !.at = "failed"]
  /\ head' = IF head = "none" THEN "error" ELSE head

\* BodyEnd::poll_frame of a failed body: hyper ends the request unfinished.
PollFailed ==
  /\ hyper.at = "polling" /\ slot.aborted
  /\ slot' = [slot EXCEPT !.polled = TRUE, !.gone = TRUE]
  /\ wakers' = wakers \ {"writer"}
  /\ ConnectionFails
  /\ UNCHANGED <<whole, writer, rounds, upload, sent>>

\* BodyEnd::poll_frame with a frame in the slot: a part of a body given
\* whole, or the frame, which is also the end of a closed body.
PollFrame ==
  /\ hyper.at = "polling" /\ ~slot.aborted /\ slot.frame > 0
  /\ hyper' = [hyper EXCEPT !.at = "asking", !.got = @ + 1]
  /\ LET rest == [slot EXCEPT !.polled = TRUE, !.frame = @ - 1, !.ripe = FALSE]
     IN  IF slot.frame > 1
         THEN slot' = rest /\ UNCHANGED wakers
         ELSE /\ slot' = IF slot.closed THEN EndSlot(rest) ELSE rest
              /\ wakers' = wakers \ (IF slot.closed THEN EndWakers ELSE {"writer"})
  /\ UNCHANGED <<whole, writer, head, rounds, upload, sent>>

\* BodyEnd::poll_frame with an empty slot.
PollEnd ==
  /\ hyper.at = "polling" /\ ~slot.aborted /\ slot.frame = 0
  /\ IF slot.closed
     THEN /\ slot' = [EndSlot(slot) EXCEPT !.polled = TRUE, !.gone = TRUE]
          /\ wakers' = wakers \ EndWakers
          /\ hyper' = [hyper EXCEPT !.at = "finished", !.complete = TRUE]
     ELSE /\ slot' = [slot EXCEPT !.polled = TRUE]
          /\ wakers' = wakers \cup {"reader"}
          /\ hyper' = [hyper EXCEPT !.at = "parked"]
  /\ UNCHANGED <<whole, writer, head, rounds, upload, sent>>

HyperWakes ==
  /\ hyper.at = "parked" /\ "reader" \notin wakers
  /\ hyper' = [hyper EXCEPT !.at = "polling"]
  /\ UNCHANGED <<whole, slot, wakers, writer, head, rounds, upload, sent>>

\* The connection fails, or drops the body.
HyperFails ==
  /\ Holds \/ (hyper.at = "finished" /\ head = "none")
  /\ DropBody /\ ConnectionFails
  /\ UNCHANGED <<whole, writer, rounds, upload, sent>>

\* The connection fails before hyper writes a part of the request.
GivesBack ==
  /\ hyper.at = "queued" /\ head = "none"
  /\ upload.outcome = "none"
  /\ hyper' = [hyper EXCEPT !.at = "none"]
  /\ head' = "returned"
  /\ UNCHANGED <<whole, slot, wakers, writer, rounds, upload, sent>>

\* The server answers, perhaps before the end of the body.
Responds ==
  /\ hyper.at \in {"polling", "asking", "parked", "finished"}
  /\ head = "none" /\ upload.outcome = "none"
  /\ head' \in {"answer", "withheld", "redirect", "refused"}
  /\ UNCHANGED <<whole, slot, wakers, writer, hyper, rounds, upload, sent>>

HyperStep ==
  \/ HyperFrames \/ HyperAsks \/ PollFailed \/ PollFrame \/ PollEnd
  \/ HyperWakes \/ HyperFails \/ GivesBack \/ Responds

-----------------------------------------------------------------------------
\* The upload.

UploadGoes(at) == upload' = [upload EXCEPT !.at = at]

Over(o) == upload' = [upload EXCEPT !.at = "over", !.outcome = o, !.timer = FALSE, !.conn = "new"]

\* The upload ends, and drops the body if it has it.
Ends(o) ==
  /\ Over(o)
  /\ IF hyper.at = "none" THEN DropBody ELSE UNCHANGED <<slot, wakers>>

\* The destinations that the round still asks after this one.
Ahead(settled) == {i \in 1..rounds.count : i > rounds.position /\ i \notin settled}
First(S) == CHOOSE i \in S : \A j \in S : i <= j

\* UploadFailure::Unsent in upload_attempt and upload_rounds.
Unsent(failure) ==
  LET settled == IF failure = "fatal" THEN rounds.settled \cup {rounds.position}
                                      ELSE rounds.settled
      retryable == rounds.retryable \/ failure = "retry"
  IN  \/ upload.followed > 0 /\ Ends("interrupted") /\ UNCHANGED rounds
      \/ upload.followed = 0 /\ failure = "final" /\ Ends("unsent") /\ UNCHANGED rounds
      \/ /\ upload.followed = 0 /\ failure # "final" /\ Ahead(settled) # {}
         /\ rounds' = [rounds EXCEPT !.settled = settled, !.retryable = retryable,
                                     !.position = First(Ahead(settled))]
         /\ UploadGoes("attempt") /\ UNCHANGED <<slot, wakers>>
      \/ /\ upload.followed = 0 /\ failure # "final" /\ Ahead(settled) = {}
         /\ rounds' = [rounds EXCEPT !.settled = settled, !.retryable = retryable]
         /\ IF ~retryable \/ rounds.round >= MaxRetries
            THEN Ends("unsent")
            ELSE UploadGoes("backoff") /\ UNCHANGED <<slot, wakers>>

\* The caller starts the upload, and the gate admits it.
Begin ==
  /\ upload.at = "idle"
  /\ UploadGoes("attempt")
  /\ UNCHANGED <<whole, slot, wakers, writer, hyper, head, rounds, sent>>

\* The next round of upload_rounds.
Backoff ==
  /\ upload.at = "backoff"
  /\ rounds' = [rounds EXCEPT !.round = @ + 1, !.retryable = FALSE,
                              !.position = First((1..rounds.count) \ rounds.settled)]
  /\ UploadGoes("attempt")
  /\ UNCHANGED <<whole, slot, wakers, writer, hyper, head, sent>>

\* The start of upload_send: a connection of the pool, or a new one.
Attempt ==
  /\ upload.at = "attempt"
  /\ \/ slot.aborted /\ Unsent("fatal")
     \/ /\ ~slot.aborted
        /\ \/ UploadGoes("connect")
           \/ \E c \in {"idle", "shared"} :
                upload' = [upload EXCEPT !.at = "ready", !.conn = c]
        /\ UNCHANGED <<slot, wakers, rounds>>
  /\ UNCHANGED <<whole, writer, hyper, head, sent>>

\* The open of a connection, within connect_timeout.
Connect ==
  /\ upload.at = "connect"
  /\ \/ /\ upload' = [upload EXCEPT !.at = "ready", !.conn = "new"]
        /\ UNCHANGED <<slot, wakers, rounds>>
     \/ \E failure \in {"retry", "fatal"} : Unsent(failure)
  /\ UNCHANGED <<whole, writer, hyper, head, sent>>

\* An idle HTTP/1.1 connection of the pool fails before the hand-over.
StaleConnection ==
  /\ upload.at = "ready" /\ upload.conn = "idle"
  /\ UploadGoes("connect")
  /\ UNCHANGED <<whole, slot, wakers, writer, hyper, head, rounds, sent>>

\* The wait for a ready connection, the signer or upload_head fails.
NotReady ==
  /\ upload.at = "ready"
  /\ \E failure \in {"retry", "fatal", "final"} : Unsent(failure)
  /\ UNCHANGED <<whole, writer, hyper, head, sent>>

\* Exchange::hand_over, and the request goes to hyper.
HandOver ==
  /\ upload.at = "ready"
  /\ IF slot.aborted
     THEN Unsent("fatal") /\ UNCHANGED hyper
     ELSE /\ slot' = HandOverSlot(slot)
          /\ wakers' = wakers \ HandOverWakers
          /\ hyper' = [hyper EXCEPT !.at = "queued"]
          /\ upload' = [upload EXCEPT !.at = "poll", !.handed = TRUE]
          /\ UNCHANGED rounds
  /\ UNCHANGED <<whole, writer, head, sent>>

\* fetch_timeout ends in before_hand_over.
Expire ==
  /\ upload.at \in {"connect", "ready", "backoff"} /\ ~upload.handed
  /\ Ends("unsent")
  /\ UNCHANGED <<whole, writer, hyper, head, rounds, sent>>

\* answer polls the send, which has not resolved.
PollSend ==
  /\ upload.at = "poll" /\ head = "none"
  /\ UploadGoes("watch")
  /\ UNCHANGED <<whole, slot, wakers, writer, hyper, head, rounds, sent>>

\* Exchange::watch, and what answer does with it.
Watch ==
  /\ upload.at = "watch"
  /\ \/ slot.aborted /\ Ends("interrupted")
     \/ ~slot.aborted /\ slot.ended /\ UploadGoes("headwait") /\ UNCHANGED <<slot, wakers>>
     \/ /\ ~slot.aborted /\ ~slot.ended
        /\ LET bounded == whole /\ WindowRuns(slot)
           IN  upload' = [upload EXCEPT !.at = IF bounded /\ slot.ripe THEN "check" ELSE "parked",
                                        !.timer = bounded]
        /\ wakers' = wakers \cup {"upload"}
        /\ UNCHANGED slot
  /\ UNCHANGED <<whole, writer, hyper, head, rounds, sent>>

\* Exchange::check_stall, called by answer.
UploadChecksStall ==
  /\ upload.at = "check"
  /\ IF WindowRuns(slot) /\ slot.ripe
     THEN /\ slot' = AbortSlot(slot) /\ wakers' = wakers \ AbortWakers
          /\ Over("interrupted")
     ELSE UploadGoes("watch") /\ UNCHANGED <<slot, wakers>>
  /\ UNCHANGED <<whole, writer, hyper, head, rounds, sent>>

UploadWakes ==
  /\ upload.at = "parked"
  /\ \/ head # "none" \/ "upload" \notin wakers
     \/ upload.timer /\ slot.ripe
  /\ upload' = [upload EXCEPT !.at = "poll", !.timer = FALSE]
  /\ UNCHANGED <<whole, slot, wakers, writer, hyper, head, rounds, sent>>

\* No response head came within the window after the end of the body.
Silent ==
  /\ upload.at = "headwait" /\ head = "none"
  /\ Ends("interrupted")
  /\ UNCHANGED <<whole, writer, hyper, head, rounds, sent>>

Resolves == upload.at \in {"poll", "headwait"}

\* A mutant of GivenBack: each failed send counts as unsent.
GivenBackAlways(h) == h \in {"returned", "error"}

\* e.take_message() of the error holds the request.
GivenBack(h) == h = "returned"

\* hyper gave the request back: the body is whole, and the request is unsent.
TakeReturned ==
  /\ Resolves /\ GivenBack(head)
  /\ head' = "none"
  /\ hyper' = [hyper EXCEPT !.at = "none"]
  /\ slot' = WithdrawSlot(slot)
  /\ upload' = [upload EXCEPT !.handed = FALSE,
                              !.at = IF upload.conn = "idle" THEN "connect" ELSE "returned"]
  /\ UNCHANGED <<whole, wakers, writer, rounds, sent>>

\* A request that came back over another connection spends the attempt.
ReturnedUnsent ==
  /\ upload.at = "returned"
  /\ Unsent("retry")
  /\ UNCHANGED <<whole, writer, hyper, head, sent>>

\* The connection failed with the request.
TakeError ==
  /\ Resolves /\ head = "error" /\ ~GivenBack(head)
  /\ Cut
  /\ Over("interrupted")
  /\ UNCHANGED <<whole, writer, hyper, head, rounds, sent>>

\* upload_attempt reads a redirect only for a body given whole.
IsRedirect == head = "redirect" /\ whole /\ MaxRedirects > 0

\* The upload follows the redirect, with a body and an exchange of their own.
Follow ==
  /\ Resolves /\ IsRedirect /\ upload.followed < MaxRedirects
  /\ upload' = [upload EXCEPT !.at = "attempt", !.followed = @ + 1]
  /\ slot' = WholeSlot(writer.written) /\ wakers' = {}
  /\ hyper' = Unasked
  /\ head' = "none"
  /\ UNCHANGED <<whole, writer, rounds, sent>>

\* A response that the upload does not deliver, whose drop cuts the body.
Undelivered ==
  /\ Resolves
  /\ \/ head = "refused"
     \/ IsRedirect /\ upload.followed >= MaxRedirects
  /\ Cut
  /\ Over("interrupted")
  /\ UNCHANGED <<whole, writer, hyper, head, rounds, sent>>

\* A withheld body ends at once, and cuts the request body.
Withheld ==
  /\ Resolves /\ head = "withheld"
  /\ Cut
  /\ Over("answered")
  /\ UNCHANGED <<whole, writer, hyper, head, rounds, sent>>

Deliver ==
  /\ Resolves
  /\ head = "answer" \/ (head = "redirect" /\ ~IsRedirect)
  /\ upload' = [upload EXCEPT !.at = "response", !.outcome = "answered"]
  /\ UNCHANGED <<whole, slot, wakers, writer, hyper, head, rounds, sent>>

\* The response body ends or is dropped: Drop for RequestEnd.
ResponseEnds ==
  /\ upload.at = "response"
  /\ Cut
  /\ UploadGoes("over")
  /\ UNCHANGED <<whole, writer, hyper, head, rounds, sent>>

\* The caller drops the body, or the future of the upload.
DropUpload ==
  /\ upload.at \in {"idle", "connect", "ready", "backoff", "poll", "parked", "headwait"}
  /\ Ends("dropped")
  /\ UNCHANGED <<whole, writer, hyper, head, rounds, sent>>

UploadStep ==
  \/ Attempt \/ Connect \/ StaleConnection \/ NotReady \/ HandOver \/ Backoff
  \/ PollSend \/ Watch \/ UploadChecksStall \/ UploadWakes \/ Silent
  \/ TakeReturned \/ ReturnedUnsent \/ TakeError \/ Follow \/ Undelivered
  \/ Withheld \/ Deliver

Next ==
  \/ Tick
  \/ \E c \in {"write", "flush", "close"} : Call(c)
  \/ WriterStep \/ CancelCall \/ DropWriter
  \/ HyperStep
  \/ Begin \/ UploadStep \/ Expire \/ ResponseEnds \/ DropUpload

\* The executor polls what was woken, time passes, and a connection that is
\* ready takes the request that it is given.  Nothing makes it go on.
Fairness ==
  /\ WF_vars(Tick) /\ WF_vars(WriterStep) /\ WF_vars(UploadStep)
  /\ WF_vars(HyperFrames)

Spec == Init /\ [][Next]_vars /\ Fairness

-----------------------------------------------------------------------------
\* The writer is where its call leads it, with a frame in its buffer to hand
\* over and with none to flush or to close.
WriterInv ==
  /\ whole <=> writer.pc = "none"
  /\ writer.call = "none" <=>
       writer.pc \in {"none", "idle", "failed", "closed", "dropped"}
  /\ writer.pc = "write" => writer.call = "write"
  /\ writer.pc = "hand" => writer.buffer = 1
  /\ writer.pc = "taken" => writer.call = "flush" /\ writer.buffer = 0
  /\ writer.pc = "close" => writer.call = "close" /\ writer.buffer = 0
  /\ writer.call = "write" => writer.written < Frames
  /\ writer.pc = "closed" => slot.ended

\* Each frame that was written is in the buffer, in the slot or with hyper; a
\* body that is closed has no frame in the buffer, and one that ended is closed,
\* empty, whole and known to be empty or polled.
SlotInv ==
  /\ hyper.got + slot.frame + writer.buffer = writer.written
  /\ whole => slot.closed
  /\ slot.closed => writer.buffer = 0
  /\ slot.ended => AtEnd(slot) /\ (slot.polled \/ slot.empty)

\* The request that the upload still has is as it was made, and hyper completes
\* one only at the end of its body.
BeforeHandOver ==
  upload.at \in {"idle", "attempt", "connect", "ready", "backoff", "returned"}
HyperInv ==
  /\ BeforeHandOver => hyper.at = "none" /\ head = "none"
  /\ head = "returned" => hyper.at = "none"
  /\ hyper.at \in {"none", "queued"} =>
       hyper.got = 0 /\ ~hyper.complete /\ ~slot.ended /\ ~slot.polled
  /\ hyper.complete => slot.ended

\* The destination that is tried is open; one that failed for now stays open
\* for the next round.
RoundsInv ==
  /\ rounds.position <= rounds.count
  /\ upload.at \notin {"backoff", "over"} => rounds.position \notin rounds.settled
  /\ upload.at = "backoff" => rounds.retryable /\ rounds.round < MaxRetries
  /\ rounds.retryable /\ upload.at # "over" =>
       \E i \in (1..rounds.count) \ rounds.settled :
          upload.at = "backoff" \/ i < rounds.position

\* A hop that hyper has not begun to write was not sent, and an upload that
\* ends as unsent has its request.
SentInv ==
  /\ sent <= upload.followed + 1
  /\ hyper.at \in {"none", "queued"} => sent <= upload.followed
  /\ upload.outcome = "unsent" => upload.at = "over" /\ hyper.at = "none"

Inv == TypeOK /\ WriterInv /\ SlotInv /\ HyperInv /\ RoundsInv /\ SentInv

-----------------------------------------------------------------------------
\* UploadWriter, is_end_stream: a request that hyper completes carries each
\* frame of a body that was closed, and a request without a frame states its
\* length.  A close that succeeds says that hyper took all that was written.
BodyIsWhole ==
  /\ TypeOK
  /\ hyper.complete =>
       /\ slot.closed /\ ~slot.aborted
       /\ hyper.got = writer.written
       /\ ~slot.polled => slot.empty
  /\ writer.pc = "closed" => slot.ended /\ hyper.got = writer.written

\* Error::is_unsent: an upload that fails as unsent on its first hop sent
\* nothing, and no hop sends the request twice.
SentAsSaid ==
  /\ upload.outcome = "unsent" /\ upload.followed = 0 => sent = 0
  /\ sent <= upload.followed + 1

\* Error::is_unsent: an upload that fails as unsent sent nothing.
UnsentIsUnsent == upload.outcome = "unsent" => sent = 0

\* UploadWriter: no call waits for ever on a body that is over, or on a frame
\* whose stall window runs.
Stuck == writer.call # "none" /\ (Broken(slot) \/ WindowRuns(slot))
WriterGoesOn == Stuck ~> ~Stuck

\* Fetcher::upload: the upload ends if its body was given whole, has ended or
\* has failed, whatever the connection does.
UploadAnswers ==
  (upload.at # "idle" /\ (whole \/ slot.ended \/ slot.aborted)) ~> upload.outcome # "none"
=============================================================================
