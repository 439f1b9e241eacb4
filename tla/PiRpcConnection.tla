-------------------------- MODULE PiRpcConnection --------------------------
(***************************************************************************)
(* The subprocess transport of packages/pi-rpc: one PiRpcConnection object *)
(* that spawns a Pi (or OMP) child, performs the startup handshake,        *)
(* correlates responses with requests by id, and turns process, stdin and  *)
(* protocol failures into rejections of everything that is pending.        *)
(*                                                                         *)
(* JavaScript is single threaded: every action below is one uninterrupted  *)
(* piece of JavaScript (a call up to its first await, an event handler, a  *)
(* timer callback or the continuation of an await) or one step of the      *)
(* child process or of the operating system.                               *)
(*                                                                         *)
(* Left out: stderr text, the command payloads, the bytes of a frame (a    *)
(* record of stdout is one logical frame after the JSONL decoder and the   *)
(* chunk assembler), listeners' own effects.                               *)
(***************************************************************************)
EXTENDS Integers, Sequences, FiniteSets

CONSTANTS
  Dialects,      \* subset of {"pi", "omp"}: the dialects a connection may get
  MaxCommands,   \* bound: commands requested over the life of the object
  MaxStarts,     \* bound: calls of start() on the object
  MaxBuffered    \* bound: records of stdout not yet handled

ASSUME DialectsAssumption == Dialects \subseteq {"pi", "omp"}
ASSUME BoundsAssumption == /\ MaxCommands \in Nat
                           /\ MaxStarts \in Nat \ {0}
                           /\ MaxBuffered \in Nat \ {0}

MaxRequests == MaxCommands + 2 * MaxStarts   \* a start() sends at most two of its own
Requests == 1..MaxRequests
None == 0
Stoppers == {"owner", "start"}     \* who may be inside stop()

Kinds == {"negotiate", "get_state", "command"}
\* "answered" is a response with success: true, "refused" one with success: false.
Outcomes == {"unsent", "waiting", "answered", "refused", "timeout", "rejected"}

VARIABLES
  dialect,       \* #dialect
  child,         \* #child: "none" = null, "alive", "exited" = exitCode set,
                 \*   "killed" = ended by a signal (exitCode stays null)
  signal,        \* strongest signal sent to this child: "none", "term", "kill"
  stdin,         \* child.stdin is "open" or "broken" (destroyed, not writable)
  stopping,      \* #stopping
  failed,        \* #failure # null
  notified,      \* failure notifications delivered since start()
  requestId,     \* #requestId
  issued,        \* requests created so far
  req,           \* what became of each request
  pending,       \* #pendingRequests: id -> the request it will settle
  inbox,         \* requests the child has read and may still answer
  stdout,        \* frames the child wrote and the decoder has not delivered
  chunksEnabled, \* #chunkFramesEnabled
  ready,         \* #startupReadyPromise: "waiting", "v1", "v2", "bad" or "rejected"
  starts,        \* calls of start() that got past its guard
  startPc,       \* where the running start() awaits
  startReq,      \* the request start() awaits
  stopPc         \* where each caller of stop() awaits

process == <<child, signal, stdin>>
wire == <<inbox, stdout>>
table == <<requestId, issued, req, pending>>
starting == <<ready, chunksEnabled, starts, startPc, startReq>>
vars == <<dialect, process, stopping, failed, notified, table, wire, starting, stopPc>>

StartPcs == {"idle", "waitReady", "negotiate", "getState", "cleanup", "ok", "failed"}
\* "epoch" is the start() the request belongs to, "answer" the request whose
\* response settled it.
Record == [id : Requests \union {None}, kind : Kinds, deadline : BOOLEAN,
           epoch : 0..MaxStarts, outcome : Outcomes, answer : Requests \union {None}]
Unsent == [id |-> None, kind |-> "command", deadline |-> FALSE, epoch |-> 0,
           outcome |-> "unsent", answer |-> None]
\* A response frame carries the id and the flag "success"; "for" is the request
\* the child answered with it.
Frame == [type : {"response"}, id : Requests, for : Requests, success : BOOLEAN]
           \union [type : {"v1", "v2", "bad", "event", "chunk", "malformed"}]

TypeOK ==
  /\ dialect \in Dialects
  /\ child \in {"none", "alive", "exited", "killed"}
  /\ signal \in {"none", "term", "kill"}
  /\ stdin \in {"open", "broken"}
  /\ stopping \in BOOLEAN
  /\ failed \in BOOLEAN
  /\ notified \in Nat
  /\ requestId \in 0..MaxRequests
  /\ issued \in 0..MaxRequests
  /\ req \in [Requests -> Record]
  /\ pending \in [Requests -> Requests \union {None}]
  /\ inbox \subseteq Requests
  /\ stdout \in Seq(Frame)
  /\ chunksEnabled \in BOOLEAN
  /\ ready \in {"waiting", "v1", "v2", "bad", "rejected"}
  /\ starts \in 0..MaxStarts
  /\ startPc \in StartPcs
  /\ startReq \in Requests \union {None}
  /\ stopPc \in [Stoppers -> {"idle", "term", "kill"}]

-----------------------------------------------------------------------------
(* Rejecting what is pending                                               *)

NothingPending == [i \in Requests |-> None]

\* #rejectPending: every entry of the map is rejected and the map cleared.
Rejected == [r \in Requests |->
               IF \E i \in Requests : pending[i] = r
               THEN [req[r] EXCEPT !.outcome = "rejected"] ELSE req[r]]

RejectPending_Forgets ==          \* mistake: clears the map, rejects nobody
  /\ pending' = NothingPending
  /\ UNCHANGED <<req, requestId, issued>>

RejectPending ==
  /\ req' = Rejected
  /\ pending' = NothingPending
  /\ UNCHANGED <<requestId, issued>>

RejectReady == ready' = IF ready = "waiting" THEN "rejected" ELSE ready

Fail_EveryTime ==                 \* mistake: notifies of later failures too
  /\ RejectReady
  /\ failed' = TRUE
  /\ RejectPending
  /\ notified' = IF stopping THEN notified ELSE notified + 1

Fail_WhileStopping ==             \* mistake: reports the end it was asked for
  /\ RejectReady
  /\ failed' = TRUE
  /\ RejectPending
  /\ notified' = IF failed THEN notified ELSE notified + 1

\* #fail: the first failure is kept, every pending request is rejected, and the
\* listeners hear of it only if it is the first and nobody asked for a stop.
Fail ==
  /\ RejectReady
  /\ failed' = TRUE
  /\ RejectPending
  /\ notified' = IF failed \/ stopping THEN notified ELSE notified + 1

Signal(s) == signal' = IF s = "kill" \/ signal = "none" THEN s ELSE signal

-----------------------------------------------------------------------------
(* request()                                                               *)

CanRequest_AfterFailure == child = "alive" /\ stdin = "open"   \* mistake: #failure ignored

\* The three guards before an id is drawn.
CanRequest == child = "alive" /\ ~failed /\ stdin = "open"

\* Mistakes: the counter is advanced twice for one request; ids are taken from the
\* size of the map and so come back after a settlement.
NewId_DrawnTwice == requestId + 2
NewId_Reused == 1 + Cardinality({i \in Requests : pending[i] # None})
NewId == requestId + 1

\* Draw an id, enter it in the map, write the command to the child.
Issue(kind, deadline) ==
  /\ issued < MaxRequests
  /\ requestId' = NewId
  /\ issued' = issued + 1
  /\ req' = [req EXCEPT ![issued + 1] =
               [id |-> NewId, kind |-> kind, deadline |-> deadline, epoch |-> starts,
                outcome |-> "waiting", answer |-> None]]
  /\ pending' = [pending EXCEPT ![NewId] = issued + 1]
  /\ inbox' = inbox \union {issued + 1}

\* A caller above the transport sends a command; a guard that throws changes nothing.
Request(deadline) ==
  /\ Cardinality({r \in 1..issued : req[r].kind = "command"}) < MaxCommands
  /\ CanRequest
  /\ Issue("command", deadline)
  /\ UNCHANGED <<dialect, process, stopping, failed, notified, stdout, starting, stopPc>>

Settle_KeepsEntry(i, r, outcome, answer) ==    \* mistake: the id can settle it again
  /\ req' = [req EXCEPT ![r].outcome = outcome, ![r].answer = answer]
  /\ UNCHANGED <<pending, requestId, issued>>

\* Settle request r and forget id i.
Settle(i, r, outcome, answer) ==
  /\ req' = [req EXCEPT ![r].outcome = outcome, ![r].answer = answer]
  /\ pending' = [pending EXCEPT ![i] = None]
  /\ UNCHANGED <<requestId, issued>>

\* The timer of a request fires: the entry goes first, then the caller is rejected.
RequestTimeout(r) ==
  /\ req[r].outcome = "waiting" /\ req[r].deadline
  /\ Settle(req[r].id, r, "timeout", None)
  /\ UNCHANGED <<dialect, process, stopping, failed, notified, wire, starting, stopPc>>

\* sendNotification rejects (the write or the serialization failed), so the child
\* never saw the command: that one request is rejected.
WriteFails(r) ==
  /\ req[r].outcome = "waiting" /\ r \in inbox
  /\ \A k \in DOMAIN stdout : stdout[k].type = "response" => stdout[k].for # r
  /\ pending[req[r].id] # None
  /\ Settle(req[r].id, pending[req[r].id], "rejected", None)
  /\ inbox' = inbox \ {r}
  /\ UNCHANGED <<dialect, process, stopping, failed, notified, stdout, starting, stopPc>>

-----------------------------------------------------------------------------
(* stop()                                                                  *)

\* stop() up to its first await, called by c with a child present. A child whose
\* exit code is already known is not waited for.
StopBody(c) ==
  /\ stopping' = TRUE
  /\ RejectReady
  /\ RejectPending
  /\ IF child = "exited"
     THEN UNCHANGED <<signal, stopPc>>
     ELSE Signal("term") /\ stopPc' = [stopPc EXCEPT ![c] = "term"]

\* The owner of the connection stops it. Without a child stop() returns at once.
Stop ==
  /\ child # "none" /\ stopPc["owner"] = "idle"
  /\ StopBody("owner")
  /\ UNCHANGED <<dialect, child, stdin, failed, notified, wire,
                 chunksEnabled, starts, startPc, startReq>>

StopEscalates_Politely(c) ==      \* mistake: asks again with SIGTERM
  /\ stopPc[c] = "term"
  /\ Signal("term")
  /\ stopPc' = [stopPc EXCEPT ![c] = IF child = "exited" THEN "idle" ELSE "kill"]
  /\ UNCHANGED <<dialect, child, stdin, stopping, failed, notified, table, wire, starting>>

\* The grace period ends before "close": the exit code decides whether to escalate.
\* (waitForClose after the kill sees an exit code that has been set meanwhile.)
StopEscalates(c) ==
  /\ stopPc[c] = "term"
  /\ Signal("kill")
  /\ stopPc' = [stopPc EXCEPT ![c] = IF child = "exited" THEN "idle" ELSE "kill"]
  /\ UNCHANGED <<dialect, child, stdin, stopping, failed, notified, table, wire, starting>>

StopGivesUp_Never(c) ==           \* mistake: waits for "close" without a timer
  /\ stopPc[c] = "kill" /\ child = "exited"
  /\ stopPc' = [stopPc EXCEPT ![c] = "idle"]
  /\ UNCHANGED <<dialect, process, stopping, failed, notified, table, wire, starting>>

\* The second grace period ends as well: stop() returns whatever the child does.
StopGivesUp(c) ==
  /\ stopPc[c] = "kill"
  /\ stopPc' = [stopPc EXCEPT ![c] = "idle"]
  /\ UNCHANGED <<dialect, process, stopping, failed, notified, table, wire, starting>>

-----------------------------------------------------------------------------
(* start()                                                                 *)

\* start() up to its first await: everything of the previous life is reset except
\* the id counter, and the child is spawned. One start() at a time, and none while
\* a stop() of the owner is running: SessionRuntime awaits both.
Start ==
  /\ starts < MaxStarts /\ startPc \in {"idle", "ok", "failed"}
  /\ stopPc["owner"] = "idle"
  /\ child = "none"
  /\ failed' = FALSE /\ stopping' = FALSE /\ notified' = 0
  /\ chunksEnabled' = FALSE
  /\ ready' = IF dialect = "omp" THEN "waiting" ELSE "v1"
  /\ child' = "alive" /\ signal' = "none" /\ stdin' = "open"
  /\ inbox' = {} /\ stdout' = <<>>
  /\ starts' = starts + 1
  /\ startPc' = "waitReady" /\ startReq' = None
  /\ UNCHANGED <<dialect, table, stopPc>>

\* The catch block: stop(), which returns at once when there is no child.
StartCatches ==
  /\ startPc' = "cleanup"
  /\ IF child = "none"
     THEN UNCHANGED <<stopping, signal, stopPc, ready, table>>
     ELSE StopBody("start")
  /\ UNCHANGED <<dialect, child, stdin, failed, notified, wire, chunksEnabled, starts, startReq>>

StartRequests_NoDeadline(kind, pc) ==      \* mistake: the startup deadline is lost
  /\ CanRequest
  /\ Issue(kind, FALSE)
  /\ startReq' = issued + 1
  /\ startPc' = pc
  /\ UNCHANGED <<dialect, process, stopping, failed, notified, stdout, ready, starts, stopPc>>

\* start() sends one of its own requests, with the startup deadline.
StartRequests(kind, pc) ==
  /\ CanRequest
  /\ Issue(kind, TRUE)
  /\ startReq' = issued + 1
  /\ startPc' = pc
  /\ UNCHANGED <<dialect, process, stopping, failed, notified, stdout, ready, starts, stopPc>>

\* The startup frame is there: negotiate if it advertises v2, else ask for the state.
StartIsReady ==
  /\ startPc = "waitReady" /\ ready \in {"v1", "v2"}
  /\ IF ready = "v2"
     THEN chunksEnabled' = TRUE /\ StartRequests("negotiate", "negotiate")
     ELSE UNCHANGED chunksEnabled /\ StartRequests("get_state", "getState")

StartIsNegotiated_Anyway ==       \* mistake: a refused negotiation falls back to v1
  /\ startPc = "negotiate" /\ req[startReq].outcome \in {"answered", "refused"}
  /\ UNCHANGED chunksEnabled
  /\ StartRequests("get_state", "getState")

\* The negotiation succeeded and its answer is valid.
StartIsNegotiated ==
  /\ startPc = "negotiate" /\ req[startReq].outcome = "answered"
  /\ UNCHANGED chunksEnabled
  /\ StartRequests("get_state", "getState")

\* get_state was answered: start() returns the state.
StartSucceeds ==
  /\ startPc = "getState" /\ req[startReq].outcome = "answered"
  /\ startPc' = "ok"
  /\ UNCHANGED <<dialect, process, stopping, failed, notified, table, wire,
                 ready, chunksEnabled, starts, startReq, stopPc>>

\* Everything that throws inside the try block: the ready wait times out, was
\* rejected or brought invalid limits; request() throws; a request fails; the
\* answer to the negotiation is not valid.
StartFails ==
  /\ \/ startPc = "waitReady" /\ ready \in {"waiting", "rejected", "bad"}
     \/ startPc = "waitReady" /\ ~CanRequest
     \/ startPc = "negotiate" /\ req[startReq].outcome = "answered"
     \/ /\ startPc \in {"negotiate", "getState"}
        /\ req[startReq].outcome \in {"refused", "timeout", "rejected"}
  /\ StartCatches

\* The stop() of the catch block has returned: start() throws.
StartThrows ==
  /\ startPc = "cleanup" /\ stopPc["start"] = "idle"
  /\ startPc' = "failed"
  /\ UNCHANGED <<dialect, process, stopping, failed, notified, table, wire,
                 ready, chunksEnabled, starts, startReq, stopPc>>

-----------------------------------------------------------------------------
(* Records of stdout: #handleRecord                                        *)

\* A response settles the request its id still names; any other is ignored.
Correlate(f) ==
  LET r == pending[f.id] IN
    IF r = None THEN UNCHANGED table
    ELSE Settle(f.id, r, IF f.success THEN "answered" ELSE "refused", f.for)

HandleResponse ==
  /\ child # "none" /\ stdout # <<>> /\ Head(stdout).type = "response"
  /\ Correlate(Head(stdout))
  /\ stdout' = Tail(stdout)
  /\ UNCHANGED <<dialect, process, stopping, failed, notified, inbox, starting, stopPc>>

\* A ready frame ends the wait for it; the Pi dialect treats it as an event.
HandleReady ==
  /\ child # "none" /\ stdout # <<>> /\ Head(stdout).type \in {"v1", "v2", "bad"}
  /\ ready' = IF ready = "waiting" THEN Head(stdout).type ELSE ready
  /\ stdout' = Tail(stdout)
  /\ UNCHANGED <<dialect, process, stopping, failed, notified, table, inbox,
                 chunksEnabled, starts, startPc, startReq, stopPc>>

\* An event goes to the listeners and leaves the connection as it is.
HandleEvent ==
  /\ child # "none" /\ stdout # <<>>
  /\ Head(stdout).type \in (IF chunksEnabled THEN {"event", "chunk"} ELSE {"event"})
  /\ stdout' = Tail(stdout)
  /\ UNCHANGED <<dialect, process, stopping, failed, notified, table, inbox, starting, stopPc>>

\* Anything else, a chunk before the negotiation included, is fatal: fail, then SIGTERM.
HandleMalformed ==
  /\ child # "none" /\ stdout # <<>>
  /\ Head(stdout).type \in (IF chunksEnabled THEN {"malformed"} ELSE {"malformed", "chunk"})
  /\ Fail
  /\ Signal("term")
  /\ stdout' = Tail(stdout)
  /\ UNCHANGED <<dialect, child, stdin, stopping, inbox, chunksEnabled, starts, startPc,
                 startReq, stopPc>>

-----------------------------------------------------------------------------
(* The other listeners of the child: "error", stdin "error", "close"       *)

\* The child could not be spawned ("error" comes with an exit code).
SpawnFails ==
  /\ child = "alive" /\ inbox = {} /\ stdout = <<>>
  /\ child' = "exited" /\ stdin' = "broken"
  /\ Fail
  /\ UNCHANGED <<dialect, signal, stopping, wire, chunksEnabled, starts, startPc, startReq, stopPc>>

\* The pipe to the child breaks; nothing signals the child.
StdinFails ==
  /\ child # "none" /\ stdin = "open"
  /\ stdin' = "broken"
  /\ Fail
  /\ UNCHANGED <<dialect, child, signal, stopping, wire, chunksEnabled, starts, startPc,
                 startReq, stopPc>>

\* "close": the process is gone and its output is drained. A stop() that waits
\* for it returns; a close nobody asked for is a failure.
Close ==
  /\ child \in {"exited", "killed"} /\ stdout = <<>>
  /\ child' = "none"
  /\ stopPc' = [c \in Stoppers |-> "idle"]
  /\ IF stopping THEN UNCHANGED <<ready, failed, table, notified>> ELSE Fail
  /\ signal' = "none" /\ inbox' = {}
  /\ UNCHANGED <<dialect, stdin, stopping, stdout, chunksEnabled, starts, startPc, startReq>>

-----------------------------------------------------------------------------
(* The child process                                                       *)

\* The child answers a request it has read, again if it likes.
ChildAnswers(r) ==
  /\ child = "alive" /\ r \in inbox /\ Len(stdout) < MaxBuffered
  /\ \E success \in BOOLEAN :
       stdout' = Append(stdout, [type |-> "response", id |-> req[r].id, for |-> r,
                                 success |-> success])
  /\ UNCHANGED <<dialect, process, stopping, failed, notified, table, inbox, starting, stopPc>>

\* The child writes some other record.
ChildWrites(type) ==
  /\ child = "alive" /\ Len(stdout) < MaxBuffered
  /\ stdout' = Append(stdout, [type |-> type])
  /\ UNCHANGED <<dialect, process, stopping, failed, notified, table, inbox, starting, stopPc>>

\* The child ends, by itself or by a signal; its stdin goes with it.
ChildEnds(how) ==
  /\ child = "alive"
  /\ child' = how /\ stdin' = "broken"
  /\ UNCHANGED <<dialect, signal, stopping, failed, notified, table, wire, starting, stopPc>>

-----------------------------------------------------------------------------
Init ==
  /\ dialect \in Dialects
  /\ child = "none" /\ signal = "none" /\ stdin = "broken"
  /\ stopping = FALSE /\ failed = FALSE /\ notified = 0
  /\ requestId = 0 /\ issued = 0
  /\ req = [r \in Requests |-> Unsent]
  /\ pending = NothingPending
  /\ inbox = {} /\ stdout = <<>>
  /\ chunksEnabled = FALSE /\ ready = "v1"
  /\ starts = 0 /\ startPc = "idle" /\ startReq = None
  /\ stopPc = [c \in Stoppers |-> "idle"]

StartSteps == StartIsReady \/ StartIsNegotiated \/ StartSucceeds \/ StartFails \/ StartThrows
StdoutSteps == HandleResponse \/ HandleReady \/ HandleEvent \/ HandleMalformed

Next ==
  \/ Start \/ Stop
  \/ \E deadline \in BOOLEAN : Request(deadline)
  \/ \E r \in Requests : RequestTimeout(r) \/ WriteFails(r)
  \/ \E c \in Stoppers : StopEscalates(c) \/ StopGivesUp(c)
  \/ StartIsReady \/ StartIsNegotiated \/ StartSucceeds \/ StartFails \/ StartThrows
  \/ HandleResponse \/ HandleReady \/ HandleEvent \/ HandleMalformed
  \/ SpawnFails \/ StdinFails \/ Close
  \/ \E r \in Requests : ChildAnswers(r)
  \/ \E type \in {"v1", "v2", "bad", "event", "chunk", "malformed"} : ChildWrites(type)
  \/ \E how \in {"exited", "killed"} : ChildEnds(how)

(* Fairness: what the event loop and the operating system guarantee. Timers *)
(* fire and continuations run; SIGKILL ends a process. Nothing is assumed   *)
(* of the child: it need not answer, react to SIGTERM or close its pipes.   *)
Fairness ==
  /\ WF_vars(StartSteps)
  /\ \A r \in Requests : WF_vars(RequestTimeout(r))
  /\ \A c \in Stoppers : WF_vars(StopEscalates(c)) /\ WF_vars(StopGivesUp(c))
  /\ WF_vars(signal = "kill" /\ ChildEnds("killed"))

Spec == Init /\ [][Next]_vars /\ Fairness
-----------------------------------------------------------------------------
(* Properties                                                              *)

\* A response settles the request it answers and no other one, however late,
\* duplicated or reordered responses are, and across restarts of the process:
\* ids are never drawn twice (request(), #handleRecord).
Correlated == \A r \in Requests :
  req[r].outcome \in {"answered", "refused"} => req[r].answer = r

\* Whoever still waits for an answer is in the map under the id of its command, so
\* that a response, its timer, a failure or a stop can still reach it.
Reachable == \A r \in Requests :
  req[r].outcome = "waiting" => pending[req[r].id] = r

\* After a failure of the process, the pipe or the protocol nothing waits, and
\* nothing can start to wait before the next start().
FailureSettlesAll == failed => pending = NothingPending

\* A process that is gone although nobody asked for it has been reported, once.
UnexpectedExitReported ==
  /\ notified <= 1
  /\ child = "none" /\ starts > 0 /\ ~stopping => failed /\ notified = 1

\* What happens between the call of stop() and the end of the process (a late
\* malformed record, a broken pipe, the close) is never reported as a failure.
StopIsNotFailure == [][stopping /\ stopping' => notified' = notified]_vars

\* The transport implements remote procedure calls: each settles at most once, with the
\* response to this call or none, whatever the child writes and whenever the process
\* fails, is stopped or is started again.
RPC == INSTANCE Calls WITH
  Calls <- Requests,
  call <- [r \in Requests |-> [outcome |-> req[r].outcome, reply |-> req[r].answer]]
ImplementsCalls == RPC!Spec

\* start() returns only after the whole handshake of this life of the process: an
\* answered get_state and, if the peer advertised v2, an answered negotiation
\* before it (no silent fallback to v1).
StartedMeansHandshake == startPc = "ok" =>
  /\ startReq # None /\ req[startReq].kind = "get_state"
  /\ req[startReq].outcome = "answered" /\ req[startReq].epoch = starts
  /\ ready = "v2" => \E r \in Requests :
       r < startReq /\ req[r].kind = "negotiate" /\ req[r].outcome = "answered"
                    /\ req[r].epoch = starts

\* A start() that failed leaves no process behind that was not at least killed.
FailedStartStopsChild == startPc = "failed" => child # "alive" \/ signal = "kill"

\* start() returns or throws, whatever the child does or fails to do.
StartSettles ==
  startPc \notin {"idle", "ok", "failed"} ~> startPc \in {"idle", "ok", "failed"}

\* stop() returns, even if the child ignores SIGTERM or never closes its pipes.
StopReturns == \A c \in Stoppers : stopPc[c] # "idle" ~> stopPc[c] = "idle"

\* A stopped child does not live on.
StoppedChildEnds == stopping ~> child # "alive"

\* packages/pi-rpc/SPEC.md on a request without a deadline: "process stop/failure
\* still rejects it". So none waits for a process that no longer exists.
NoRequestOutlivesProcess == \A r \in Requests :
  req[r].outcome = "waiting" /\ ~req[r].deadline => child # "none"
=============================================================================
