---------------------- MODULE PiRpcConnection_proofs -----------------------
(***************************************************************************)
(* Proofs about PiRpcConnection for any number of commands, starts and     *)
(* buffered records and either dialect.                                    *)
(*                                                                         *)
(* The argument: ids are drawn from a counter that only grows, so the id   *)
(* of a request is its number (TableInv), a response frame names the       *)
(* request it answers (WireInv), and the map of pending requests relates   *)
(* an id to the one request that waits under it. Every step changes the    *)
(* map in one of four ways (TableStep), each of which keeps the invariant. *)
(***************************************************************************)
EXTENDS PiRpcConnection, TLAPS

-----------------------------------------------------------------------------
(* The inductive invariant                                                 *)

\* The parts of TypeOK that belong to the table of requests, and the others.
TableType ==
  /\ requestId \in 0..MaxRequests
  /\ issued \in 0..MaxRequests
  /\ req \in [Requests -> Record]
  /\ pending \in [Requests -> Requests \union {None}]

ControlType ==
  /\ dialect \in Dialects
  /\ child \in {"none", "alive", "exited", "killed"}
  /\ signal \in {"none", "term", "kill"}
  /\ stdin \in {"open", "broken"}
  /\ stopping \in BOOLEAN
  /\ failed \in BOOLEAN
  /\ notified \in Nat
  /\ chunksEnabled \in BOOLEAN
  /\ ready \in {"waiting", "v1", "v2", "bad", "rejected"}
  /\ starts \in 0..MaxStarts
  /\ startPc \in StartPcs
  /\ startReq \in Requests \union {None}
  /\ stopPc \in [Stoppers -> {"idle", "term", "kill"}]

WireType == inbox \subseteq Requests /\ stdout \in Seq(Frame)

\* A request carries its own number as its id; an entry of the map is the request
\* that waits under that id.
TableInv ==
  /\ requestId = issued
  /\ \A r \in Requests : req[r].outcome # "unsent" => r <= issued /\ req[r].id = r
  /\ \A r \in Requests : r <= issued => req[r].outcome # "unsent"
  /\ \A i \in Requests : pending[i] # None =>
       pending[i] = i /\ i <= issued /\ req[i].outcome = "waiting"
  /\ \A r \in Requests :
       req[r].outcome = "waiting" => pending[r] = r /\ req[r].answer = None

\* The child has read only requests that were issued; a response carries the id of
\* the request it answers.
WireInv ==
  /\ \A r \in inbox : r <= issued
  /\ \A k \in 1..Len(stdout) :
       stdout[k].type = "response" => stdout[k].id = stdout[k].for

\* A failure is reported unless a stop() had been called before it, and a process that
\* vanished unasked has failed.
ReportInv ==
  /\ notified <= 1
  /\ ~failed => notified = 0
  /\ failed /\ ~stopping => notified = 1
  /\ child = "none" /\ starts > 0 /\ ~stopping => failed

IInv == /\ TableType /\ ControlType /\ WireType
        /\ TableInv /\ WireInv /\ Correlated /\ FailureSettlesAll /\ ReportInv

-----------------------------------------------------------------------------
(* Lemmas on the parts                                                     *)

\* The bounds make the numbers of requests positive naturals.
LEMMA MaxRequestsNat == MaxRequests \in Nat /\ \A r \in Requests : r \in Nat /\ r # None
BY BoundsAssumption DEF MaxRequests, Requests, None

\* TypeOK is the conjunction of the three parts.
LEMMA TypeParts == TypeOK <=> TableType /\ ControlType /\ WireType
BY DEF TypeOK, TableType, ControlType, WireType

\* The four ways in which a step changes the table of requests.
Unchanged == UNCHANGED table
Issued == /\ ~failed
          /\ \E kind \in Kinds, deadline \in BOOLEAN : Issue(kind, deadline)
Settled == \E i \in Requests, outcome \in Outcomes \ {"unsent", "waiting"},
              answer \in Requests \union {None} :
             /\ pending[i] # None
             /\ answer = IF outcome \in {"answered", "refused"} THEN pending[i] ELSE None
             /\ Settle(i, pending[i], outcome, answer)
TableStep == Unchanged \/ RejectPending \/ Issued \/ Settled

\* A record at the head of stdout is a frame, and what remains are frames.
LEMMA HeadFrame ==
  ASSUME WireType, WireInv, stdout # <<>>
  PROVE  /\ Head(stdout) \in Frame
         /\ Tail(stdout) \in Seq(Frame)
         /\ Head(stdout).type = "response" => Head(stdout).id = Head(stdout).for
         /\ \A k \in 1..Len(Tail(stdout)) : Tail(stdout)[k].type = "response" =>
              Tail(stdout)[k].id = Tail(stdout)[k].for
<1>1. stdout \in Seq(Frame) /\ Len(stdout) \in Nat /\ Len(stdout) >= 1
  BY DEF WireType
<1>2. Head(stdout) = stdout[1] /\ Head(stdout) \in Frame /\ Tail(stdout) \in Seq(Frame)
  BY <1>1
<1>3. \A k \in 1..Len(Tail(stdout)) : Tail(stdout)[k] = stdout[k + 1] /\ k + 1 \in 1..Len(stdout)
  BY <1>1
<1>4. QED
  BY <1>1, <1>2, <1>3 DEF WireInv

\* What a frame of type "response" carries.
LEMMA ResponseFrame ==
  ASSUME NEW f \in Frame, f.type = "response"
  PROVE  f.id \in Requests /\ f.for \in Requests /\ f.success \in BOOLEAN
BY DEF Frame

\* Every step of the system changes the table in one of the four ways.
LEMMA NextTableStep ==
  ASSUME IInv, [Next]_vars
  PROVE  TableStep
<1> USE DEF TableStep, Unchanged, table
<1>1. CASE \E deadline \in BOOLEAN : Request(deadline)
  BY <1>1 DEF Request, CanRequest, Issued, Kinds
<1>2. ASSUME NEW r \in Requests, RequestTimeout(r) PROVE TableStep
  <2>1. req[r].id = r /\ pending[r] = r /\ r # None
    BY <1>2, MaxRequestsNat DEF IInv, TableInv, RequestTimeout
  <2>2. QED
    BY <1>2, <2>1 DEF RequestTimeout, Settled, Outcomes
<1>3. ASSUME NEW r \in Requests, WriteFails(r) PROVE TableStep
  <2>1. req[r].id = r /\ pending[r] = r /\ r # None
    BY <1>3, MaxRequestsNat DEF IInv, TableInv, WriteFails
  <2>2. QED
    BY <1>3, <2>1 DEF WriteFails, Settled, Outcomes
<1>4. CASE HandleResponse
  <2> DEFINE f == Head(stdout)
  <2>1. f \in Frame /\ f.type = "response" /\ f.id = f.for
    BY <1>4, HeadFrame DEF HandleResponse, IInv
  <2>2. f.id \in Requests /\ f.for \in Requests
    BY <2>1, ResponseFrame
  <2>3. CASE pending[f.id] = None
    BY <1>4, <2>3 DEF HandleResponse, Correlate
  <2>4. CASE pending[f.id] # None
    <3>1. pending[f.id] = f.for
      BY <2>1, <2>2, <2>4 DEF IInv, TableInv
    <3>2. Settle(f.id, pending[f.id], IF f.success THEN "answered" ELSE "refused", f.for)
      BY <1>4, <2>4 DEF HandleResponse, Correlate
    <3>3. QED
      BY <2>2, <2>4, <3>1, <3>2 DEF Settled, Outcomes
  <2>5. QED
    BY <2>3, <2>4
<1>5. CASE StartIsReady \/ StartIsNegotiated
  BY <1>5 DEF StartIsReady, StartIsNegotiated, StartRequests, CanRequest, Issued, Kinds
<1>6. CASE Stop \/ StartFails
  BY <1>6 DEF Stop, StartFails, StartCatches, StopBody
<1>7. CASE HandleMalformed \/ SpawnFails \/ StdinFails \/ Close
  BY <1>7 DEF HandleMalformed, SpawnFails, StdinFails, Close, Fail
<1>8. CASE Start \/ StartSucceeds \/ StartThrows \/ HandleReady \/ HandleEvent
  BY <1>8 DEF Start, StartSucceeds, StartThrows, HandleReady, HandleEvent
<1>9. CASE \E c \in Stoppers : StopEscalates(c) \/ StopGivesUp(c)
  BY <1>9 DEF StopEscalates, StopGivesUp
<1>10. CASE \E r \in Requests : ChildAnswers(r)
  BY <1>10 DEF ChildAnswers
<1>11. CASE \E type \in {"v1", "v2", "bad", "event", "chunk", "malformed"} : ChildWrites(type)
  BY <1>11 DEF ChildWrites
<1>12. CASE \E how \in {"exited", "killed"} : ChildEnds(how)
  BY <1>12 DEF ChildEnds
<1>13. CASE UNCHANGED vars
  BY <1>13 DEF vars
<1>14. QED
  BY <1>1, <1>2, <1>3, <1>4, <1>5, <1>6, <1>7, <1>8, <1>9, <1>10, <1>11, <1>12, <1>13 DEF Next

-----------------------------------------------------------------------------
(* The table of requests                                                   *)

\* #rejectPending keeps the invariant of the table: it rejects, and clears the map.
LEMMA RejectKeepsTable ==
  ASSUME TableType, TableInv, Correlated, RejectPending
  PROVE  TableType' /\ TableInv' /\ Correlated'
<1>1. /\ pending' = NothingPending /\ req' = Rejected
      /\ requestId' = requestId /\ issued' = issued
  BY DEF RejectPending
<1>2. ASSUME NEW r \in Requests
      PROVE  /\ req'[r] = [req[r] EXCEPT !.outcome = "rejected"] \/ req'[r] = req[r]
             /\ req[r].outcome = "waiting" <=> req'[r] # req[r]
  <2>1. req[r] \in Record /\ req'[r] = Rejected[r]
    BY <1>1 DEF TableType
  <2>2. CASE req[r].outcome = "waiting"
    <3>1. pending[r] = r
      BY <2>2 DEF TableInv
    <3>2. req'[r] = [req[r] EXCEPT !.outcome = "rejected"]
      BY <1>1, <3>1 DEF Rejected
    <3>3. QED
      BY <2>1, <2>2, <3>2 DEF Record
  <2>3. CASE req[r].outcome # "waiting"
    <3>1. \A i \in Requests : pending[i] # r
      BY <2>3, MaxRequestsNat DEF TableInv
    <3>2. QED
      BY <1>1, <2>3, <3>1 DEF Rejected
  <2>4. QED
    BY <2>2, <2>3
<1>3. req' \in [Requests -> Record]
  <2>1. req' = [r \in Requests |-> req'[r]]
    BY <1>1 DEF Rejected
  <2>2. \A r \in Requests : req'[r] \in Record
    BY <1>2 DEF TableType, Record, Outcomes
  <2>3. QED
    BY <2>1, <2>2
<1>4. TableType'
  BY <1>1, <1>3 DEF TableType, NothingPending
<1>5. \A r \in Requests : /\ req'[r].id = req[r].id /\ req'[r].answer = req[r].answer
                          /\ req'[r].outcome # "waiting"
                          /\ req'[r].outcome \in {req[r].outcome, "rejected"}
                          /\ req'[r].outcome = "unsent" <=> req[r].outcome = "unsent"
  BY <1>2 DEF TableType, Record
<1>6. TableInv'
  BY <1>1, <1>5 DEF TableInv, NothingPending
<1>7. Correlated'
  BY <1>5 DEF Correlated
<1>8. QED
  BY <1>4, <1>6, <1>7

\* request() keeps it: the id it draws is larger than every id drawn before.
LEMMA IssueKeepsTable ==
  ASSUME TableType, ControlType, TableInv, Correlated,
         NEW kind \in Kinds, NEW deadline \in BOOLEAN, Issue(kind, deadline)
  PROVE  TableType' /\ TableInv' /\ Correlated'
<1> DEFINE n == issued + 1
           new == [id |-> n, kind |-> kind, deadline |-> deadline, epoch |-> starts,
                   outcome |-> "waiting", answer |-> None]
<1>1. n \in Requests /\ n # None /\ issued \in Nat /\ n \in Nat /\ requestId = issued
  BY MaxRequestsNat DEF Issue, TableType, TableInv, Requests, None
<1>2. /\ req' = [req EXCEPT ![n] = new] /\ pending' = [pending EXCEPT ![n] = n]
      /\ requestId' = n /\ issued' = n /\ n <= MaxRequests
  BY <1>1, MaxRequestsNat DEF Issue, NewId
<1>3. new \in Record
  BY <1>1 DEF Record, ControlType, Outcomes
<1>4. TableType'
  BY <1>1, <1>2, <1>3, MaxRequestsNat DEF TableType
<1>5. req'[n] = new /\ pending'[n] = n
  BY <1>1, <1>2 DEF TableType
<1>6. \A r \in Requests : r # n => req'[r] = req[r] /\ pending'[r] = pending[r]
  BY <1>2 DEF TableType
<1>7. TableInv'
  <2>1. \A r \in Requests : r # n => (r <= n <=> r <= issued)
    BY <1>1, MaxRequestsNat
  <2>2. QED
    BY <1>1, <1>2, <1>5, <1>6, <2>1 DEF TableInv
<1>8. Correlated'
  BY <1>5, <1>6 DEF Correlated
<1>9. QED
  BY <1>4, <1>7, <1>8

\* A settlement keeps it: the entry of the map goes with the request it settles.
LEMMA SettleKeepsTable ==
  ASSUME TableType, TableInv, Correlated, Settled
  PROVE  TableType' /\ TableInv' /\ Correlated'
<1>1. PICK i \in Requests, outcome \in Outcomes \ {"unsent", "waiting"},
           answer \in Requests \union {None} :
        /\ pending[i] # None
        /\ answer = IF outcome \in {"answered", "refused"} THEN pending[i] ELSE None
        /\ Settle(i, pending[i], outcome, answer)
  BY DEF Settled
<1>2. pending[i] = i /\ i <= issued /\ req[i].outcome = "waiting"
  BY <1>1 DEF TableInv
<1>3. /\ req' = [req EXCEPT ![i].outcome = outcome, ![i].answer = answer]
      /\ pending' = [pending EXCEPT ![i] = None]
      /\ requestId' = requestId /\ issued' = issued
  BY <1>1, <1>2 DEF Settle
<1>4. req[i] \in Record
  BY DEF TableType
<1>5. /\ req'[i] = [req[i] EXCEPT !.outcome = outcome, !.answer = answer]
      /\ \A r \in Requests : r # i => req'[r] = req[r]
  BY <1>3 DEF TableType
<1>6. req'[i] \in Record /\ req'[i].id = req[i].id /\ req'[i].outcome = outcome
      /\ req'[i].answer = answer
  BY <1>4, <1>5 DEF Record
<1>7. pending'[i] = None /\ \A r \in Requests : r # i => pending'[r] = pending[r]
  BY <1>3 DEF TableType
<1>8. TableType'
  <2>1. req' \in [Requests -> Record]
    BY <1>3, <1>5, <1>6 DEF TableType
  <2>2. QED
    BY <1>3, <2>1 DEF TableType
<1>9. TableInv'
  <2>1. \A r \in Requests : r # i => req'[r] = req[r] /\ pending'[r] = pending[r]
    BY <1>5, <1>7
  <2>2. outcome # "unsent" /\ outcome # "waiting"
    OBVIOUS
  <2>3. req[i].outcome # "unsent" /\ req[i].id = i
    BY <1>2 DEF TableInv
  <2>4. \A r \in Requests : /\ req'[r].id = req[r].id
                            /\ r # i => req'[r].answer = req[r].answer
                            /\ req'[r].outcome = IF r = i THEN outcome ELSE req[r].outcome
                            /\ pending'[r] = IF r = i THEN None ELSE pending[r]
    BY <1>6, <1>7, <2>1
  <2>5. \A r \in Requests : req'[r].outcome # "unsent" <=> req[r].outcome # "unsent"
    BY <2>2, <2>3, <2>4
  <2>6. \A r \in Requests : req'[r].outcome = "waiting" <=> r # i /\ req[r].outcome = "waiting"
    BY <2>2, <2>4
  <2>7. /\ requestId' = issued'
        /\ \A r \in Requests : req'[r].outcome # "unsent" => r <= issued' /\ req'[r].id = r
        /\ \A r \in Requests : r <= issued' => req'[r].outcome # "unsent"
    BY <1>3, <2>4, <2>5 DEF TableInv
  <2>8. ASSUME NEW j \in Requests, pending'[j] # None
        PROVE  pending'[j] = j /\ j <= issued' /\ req'[j].outcome = "waiting"
    <3>1. j # i
      BY <1>7, <2>8
    <3>2. pending[j] = pending'[j]
      BY <2>1, <3>1
    <3>3. pending[j] = j /\ j <= issued /\ req[j].outcome = "waiting"
      BY <2>8, <3>2 DEF TableInv
    <3>4. QED
      BY <1>3, <2>6, <3>1, <3>2, <3>3
  <2>9. \A r \in Requests :
          req'[r].outcome = "waiting" => pending'[r] = r /\ req'[r].answer = None
    BY <2>4, <2>6 DEF TableInv
  <2>10. QED
    BY <2>7, <2>8, <2>9 DEF TableInv
<1>10. Correlated'
  BY <1>1, <1>2, <1>5, <1>6 DEF Correlated
<1>11. QED
  BY <1>8, <1>9, <1>10

\* So every step of the system keeps the invariant of the table of requests.
LEMMA TableKept ==
  ASSUME IInv, TableStep
  PROVE  TableType' /\ TableInv' /\ Correlated'
<1>1. CASE Unchanged
  BY <1>1 DEF Unchanged, table, IInv, TableType, TableInv, Correlated
<1>2. CASE RejectPending
  BY <1>2, RejectKeepsTable DEF IInv
<1>3. CASE Issued
  BY <1>3, IssueKeepsTable DEF IInv, Issued
<1>4. CASE Settled
  BY <1>4, SettleKeepsTable DEF IInv
<1>5. QED
  BY <1>1, <1>2, <1>3, <1>4 DEF TableStep

-----------------------------------------------------------------------------
(* Failures and their report                                               *)

\* Nothing is pending after a settlement or a rejection if nothing was before.
LEMMA NothingStays ==
  ASSUME pending = NothingPending, Unchanged \/ RejectPending \/ Settled
  PROVE  pending' = NothingPending
<1>1. \A i \in Requests : pending[i] = None
  BY DEF NothingPending
<1>2. ~Settled
  BY <1>1 DEF Settled
<1>3. QED
  BY <1>2 DEF Unchanged, table, RejectPending

\* #fail as a step of a listener: it settles everything and counts its report.
LEMMA FailKeeps ==
  ASSUME ControlType, ReportInv, Fail, stopping' = stopping
  PROVE  FailureSettlesAll' /\ ReportInv'
<1>1. failed' = TRUE /\ pending' = NothingPending
  BY DEF Fail, RejectPending
<1>2. notified' = IF failed \/ stopping THEN notified ELSE notified + 1
  BY DEF Fail
<1>3. notified' <= 1 /\ (~stopping => notified' = 1)
  BY <1>2 DEF ReportInv, ControlType
<1>4. QED
  BY <1>1, <1>3 DEF FailureSettlesAll, ReportInv

\* What every step does to the variables of the report: it fails, it starts anew, it is
\* part of a stop(), or it leaves them alone.
ReportStep ==
  \/ Fail /\ stopping' = stopping
  \/ failed' = FALSE /\ notified' = 0 /\ child' = "alive" /\ stopping' = FALSE
  \/ /\ stopping' /\ failed' = failed /\ notified' = notified
  \/ /\ UNCHANGED <<failed, notified, stopping, starts>>
     /\ child' = "none" => child = "none"

\* How a step can change the failure, its report and the process (#fail, #handleClose,
\* start, stop).
LEMMA NextReportStep ==
  ASSUME IInv, [Next]_vars
  PROVE  ReportStep
<1> USE DEF ReportStep
<1>1. CASE \E deadline \in BOOLEAN : Request(deadline)
  BY <1>1 DEF Request, process, starting
<1>2. CASE \E r \in Requests : RequestTimeout(r) \/ WriteFails(r)
  BY <1>2 DEF RequestTimeout, WriteFails, process, starting
<1>3. CASE Start
  BY <1>3 DEF Start
<1>4. CASE Stop
  BY <1>4 DEF Stop, StopBody
<1>5. CASE StartFails
  <2>1. CASE child = "none"
    BY <1>5, <2>1 DEF StartFails, StartCatches
  <2>2. CASE child # "none"
    BY <1>5, <2>2 DEF StartFails, StartCatches, StopBody
  <2>3. QED
    BY <2>1, <2>2
<1>6. CASE StartIsReady \/ StartIsNegotiated
  BY <1>6 DEF StartIsReady, StartIsNegotiated, StartRequests, process
<1>7. CASE StartSucceeds \/ StartThrows
  BY <1>7 DEF StartSucceeds, StartThrows, process
<1>8. CASE HandleResponse \/ HandleReady \/ HandleEvent
  BY <1>8 DEF HandleResponse, HandleReady, HandleEvent, process, starting
<1>9. CASE HandleMalformed \/ SpawnFails \/ StdinFails
  BY <1>9 DEF HandleMalformed, SpawnFails, StdinFails
<1>10. CASE Close
  BY <1>10 DEF Close, IInv, ControlType
<1>11. CASE \E c \in Stoppers : StopEscalates(c) \/ StopGivesUp(c)
  BY <1>11 DEF StopEscalates, StopGivesUp, process, starting
<1>12. CASE \E r \in Requests : ChildAnswers(r)
  BY <1>12 DEF ChildAnswers, process, starting
<1>13. CASE \E type \in {"v1", "v2", "bad", "event", "chunk", "malformed"} : ChildWrites(type)
  BY <1>13 DEF ChildWrites, process, starting
<1>14. CASE \E how \in {"exited", "killed"} : ChildEnds(how)
  BY <1>14 DEF ChildEnds, starting
<1>15. CASE UNCHANGED vars
  BY <1>15 DEF vars, process, starting
<1>16. QED
  BY <1>1, <1>2, <1>3, <1>4, <1>5, <1>6, <1>7, <1>8, <1>9, <1>10, <1>11, <1>12, <1>13,
     <1>14, <1>15 DEF Next

\* After a failure nothing is pending, and the report is made once, step by step.
LEMMA FailureKept ==
  ASSUME IInv, TableStep, ReportStep
  PROVE  FailureSettlesAll' /\ ReportInv'
<1>1. ControlType /\ ReportInv /\ FailureSettlesAll
  BY DEF IInv
<1>2. CASE Fail /\ stopping' = stopping
  BY <1>1, <1>2, FailKeeps
<1>3. CASE failed' = FALSE /\ notified' = 0 /\ child' = "alive" /\ stopping' = FALSE
  BY <1>3 DEF FailureSettlesAll, ReportInv
<1>4. ASSUME failed' = failed PROVE FailureSettlesAll'
  <2>1. CASE ~failed
    BY <1>4, <2>1 DEF FailureSettlesAll
  <2>2. CASE failed
    <3>1. pending = NothingPending /\ ~Issued
      BY <1>1, <2>2 DEF FailureSettlesAll, Issued
    <3>2. QED
      BY <3>1, NothingStays DEF TableStep, FailureSettlesAll
  <2>3. QED
    BY <2>1, <2>2
<1>5. CASE stopping' /\ failed' = failed /\ notified' = notified
  BY <1>1, <1>4, <1>5 DEF ReportInv
<1>6. CASE /\ UNCHANGED <<failed, notified, stopping, starts>>
           /\ child' = "none" => child = "none"
  BY <1>1, <1>4, <1>6 DEF ReportInv
<1>7. QED
  BY <1>2, <1>3, <1>5, <1>6 DEF ReportStep

-----------------------------------------------------------------------------
(* Control state and wire                                                  *)

\* The variables of start(), stop() and the process keep their types.
LEMMA ControlKept ==
  ASSUME IInv, [Next]_vars
  PROVE  ControlType'
<1> USE DEF ControlType
<1>0. ControlType /\ issued \in Nat /\ issued >= 0
  BY MaxRequestsNat DEF IInv, TableType
<1>1. CASE \E deadline \in BOOLEAN : Request(deadline)
  BY <1>0, <1>1 DEF Request, process, starting
<1>2. CASE \E r \in Requests : RequestTimeout(r) \/ WriteFails(r)
  BY <1>0, <1>2 DEF RequestTimeout, WriteFails, process, starting
<1>3. CASE Start
  <2>1. starts' \in 0..MaxStarts
    BY <1>0, <1>3, BoundsAssumption DEF Start
  <2>2. ready' \in {"waiting", "v1"} /\ startPc' \in StartPcs
    BY <1>3 DEF Start, StartPcs
  <2>3. dialect' = dialect /\ stopPc' = stopPc /\ startReq' = None
    BY <1>3 DEF Start
  <2>4. /\ failed' = FALSE /\ stopping' = FALSE /\ notified' = 0 /\ chunksEnabled' = FALSE
        /\ child' = "alive" /\ signal' = "none" /\ stdin' = "open"
    BY <1>3 DEF Start
  <2>5. QED
    BY <1>0, <2>1, <2>2, <2>3, <2>4
<1>4. ASSUME NEW c \in Stoppers, StopBody(c), UNCHANGED <<dialect, child, stdin, failed, notified, chunksEnabled, starts, startReq>>,
             startPc' \in StartPcs
      PROVE  ControlType'
  <2>1. ready' \in {"waiting", "v1", "v2", "bad", "rejected"}
    BY <1>0, <1>4 DEF StopBody, RejectReady
  <2>2. signal' \in {"none", "term", "kill"} /\ stopPc' \in [Stoppers -> {"idle", "term", "kill"}]
    BY <1>0, <1>4 DEF StopBody, Signal
  <2>3. QED
    BY <1>0, <1>4, <2>1, <2>2 DEF StopBody
<1>5. CASE Stop
  BY <1>0, <1>4, <1>5 DEF Stop, Stoppers
<1>6. CASE StartFails
  <2>1. CASE child = "none"
    BY <1>0, <1>6, <2>1 DEF StartFails, StartCatches, StartPcs
  <2>2. CASE child # "none"
    BY <1>4, <1>6, <2>2 DEF StartFails, StartCatches, StartPcs, Stoppers
  <2>3. QED
    BY <2>1, <2>2
<1>7. CASE StartIsReady \/ StartIsNegotiated
  <2>1. startReq' \in Requests \union {None}
    BY <1>0, <1>7, MaxRequestsNat DEF StartIsReady, StartIsNegotiated, StartRequests, Issue, Requests
  <2>2. QED
    BY <1>0, <1>7, <2>1 DEF StartIsReady, StartIsNegotiated, StartRequests, process, StartPcs
<1>8. CASE StartSucceeds \/ StartThrows
  BY <1>0, <1>8 DEF StartSucceeds, StartThrows, process, StartPcs
<1>9. CASE HandleResponse \/ HandleEvent
  BY <1>0, <1>9 DEF HandleResponse, HandleEvent, process, starting
<1>10. CASE HandleReady
  BY <1>0, <1>10 DEF HandleReady, process
<1>11. ASSUME Fail, UNCHANGED <<dialect, stopping, chunksEnabled, starts, startPc, startReq>>,
              child' \in {"none", "alive", "exited", "killed"},
              signal' \in {"none", "term", "kill"}, stdin' \in {"open", "broken"},
              stopPc' \in [Stoppers -> {"idle", "term", "kill"}]
       PROVE  ControlType'
  BY <1>0, <1>11 DEF Fail, RejectReady
<1>12. CASE HandleMalformed \/ SpawnFails \/ StdinFails
  BY <1>0, <1>11, <1>12 DEF HandleMalformed, SpawnFails, StdinFails, Signal
<1>13. CASE Close
  <2>1. stopPc' \in [Stoppers -> {"idle", "term", "kill"}]
    BY <1>13 DEF Close
  <2>2. CASE stopping
    BY <1>0, <1>13, <2>1, <2>2 DEF Close
  <2>3. CASE ~stopping
    BY <1>0, <1>11, <1>13, <2>1, <2>3 DEF Close
  <2>4. QED
    BY <2>2, <2>3
<1>14. CASE \E c \in Stoppers : StopEscalates(c) \/ StopGivesUp(c)
  BY <1>0, <1>14 DEF StopEscalates, StopGivesUp, process, starting, Signal
<1>15. CASE \E r \in Requests : ChildAnswers(r)
  BY <1>0, <1>15 DEF ChildAnswers, process, starting
<1>16. CASE \E type \in {"v1", "v2", "bad", "event", "chunk", "malformed"} : ChildWrites(type)
  BY <1>0, <1>16 DEF ChildWrites, process, starting
<1>17. CASE \E how \in {"exited", "killed"} : ChildEnds(how)
  BY <1>0, <1>17 DEF ChildEnds, starting
<1>18. CASE UNCHANGED vars
  BY <1>0, <1>18 DEF vars, process, starting
<1>19. QED
  BY <1>1, <1>2, <1>3, <1>5, <1>6, <1>7, <1>8, <1>9, <1>10, <1>12, <1>13, <1>14, <1>15,
     <1>16, <1>17, <1>18 DEF Next

\* A step reads a record, lets the child write one, or leaves stdout alone; the child
\* reads what is issued.
WireStep ==
  /\ \/ stdout' = stdout
     \/ stdout' = <<>>
     \/ stdout # <<>> /\ stdout' = Tail(stdout)
     \/ \E f \in Frame : /\ f.type = "response" => f.id = f.for
                         /\ stdout' = Append(stdout, f)
  /\ \/ inbox' \subseteq inbox /\ issued' = issued
     \/ issued < MaxRequests /\ issued' = issued + 1 /\ inbox' = inbox \union {issued'}

\* How a step can change what the child has read and what it wrote.
LEMMA NextWireStep ==
  ASSUME IInv, [Next]_vars
  PROVE  WireStep
<1> USE DEF WireStep
<1>0. issued \in Nat
  BY MaxRequestsNat DEF IInv, TableType
<1>1. CASE \E deadline \in BOOLEAN : Request(deadline)
  BY <1>1 DEF Request, Issue
<1>2. CASE \E r \in Requests : RequestTimeout(r) \/ WriteFails(r)
  BY <1>0, <1>2 DEF RequestTimeout, WriteFails, Settle, wire
<1>3. CASE Start
  BY <1>0, <1>3 DEF Start, table
<1>4. CASE Stop
  BY <1>0, <1>4 DEF Stop, StopBody, RejectPending, wire
<1>5. CASE StartFails
  BY <1>0, <1>5 DEF StartFails, StartCatches, StopBody, RejectPending, wire, table
<1>6. CASE StartIsReady \/ StartIsNegotiated
  BY <1>6 DEF StartIsReady, StartIsNegotiated, StartRequests, Issue
<1>7. CASE StartSucceeds \/ StartThrows
  BY <1>0, <1>7 DEF StartSucceeds, StartThrows, wire, table
<1>8. CASE HandleResponse
  BY <1>0, <1>8 DEF HandleResponse, Correlate, Settle, table
<1>9. CASE HandleReady \/ HandleEvent
  BY <1>0, <1>9 DEF HandleReady, HandleEvent, table
<1>10. CASE HandleMalformed \/ SpawnFails \/ StdinFails
  BY <1>0, <1>10 DEF HandleMalformed, SpawnFails, StdinFails, Fail, RejectPending, wire
<1>11. CASE Close
  BY <1>0, <1>11 DEF Close, Fail, RejectPending, table
<1>12. CASE \E c \in Stoppers : StopEscalates(c) \/ StopGivesUp(c)
  BY <1>0, <1>12 DEF StopEscalates, StopGivesUp, wire, table
<1>13. ASSUME NEW r \in Requests, ChildAnswers(r) PROVE WireStep
  <2>1. PICK success \in BOOLEAN : stdout' = Append(stdout,
          [type |-> "response", id |-> req[r].id, for |-> r, success |-> success])
    BY <1>13 DEF ChildAnswers
  <2>2. req[r].id = r
    BY <1>13 DEF ChildAnswers, IInv, TableInv, WireInv
  <2>3. [type |-> "response", id |-> req[r].id, for |-> r, success |-> success] \in Frame
    BY <2>2 DEF Frame
  <2>4. QED
    BY <1>0, <1>13, <2>1, <2>2, <2>3 DEF ChildAnswers, table
<1>14. ASSUME NEW type \in {"v1", "v2", "bad", "event", "chunk", "malformed"}, ChildWrites(type)
       PROVE  WireStep
  <2>1. [type |-> type] \in Frame /\ [type |-> type].type # "response"
    BY DEF Frame
  <2>2. QED
    BY <1>0, <1>14, <2>1 DEF ChildWrites, table
<1>15. CASE \E how \in {"exited", "killed"} : ChildEnds(how)
  BY <1>0, <1>15 DEF ChildEnds, wire, table
<1>16. CASE UNCHANGED vars
  BY <1>0, <1>16 DEF vars, wire, table
<1>17. QED
  BY <1>1, <1>2, <1>3, <1>4, <1>5, <1>6, <1>7, <1>8, <1>9, <1>10, <1>11, <1>12, <1>13,
     <1>14, <1>15, <1>16 DEF Next

\* Every frame of type "response" that is under way carries the id of the request the
\* child answers with it, whatever the child writes (ChildAnswers, Close, Start).
LEMMA WireKept ==
  ASSUME IInv, WireStep
  PROVE  WireType' /\ WireInv'
<1>0. WireType /\ WireInv /\ issued \in Nat /\ stdout \in Seq(Frame)
  BY MaxRequestsNat DEF IInv, TableType, WireType
<1>1. inbox' \subseteq Requests /\ \A r \in inbox' : r <= issued'
  <2>1. CASE inbox' \subseteq inbox /\ issued' = issued
    BY <1>0, <2>1 DEF WireType, WireInv
  <2>2. CASE issued < MaxRequests /\ issued' = issued + 1 /\ inbox' = inbox \union {issued'}
    BY <1>0, <2>2, MaxRequestsNat DEF WireType, WireInv, Requests
  <2>3. QED
    BY <2>1, <2>2 DEF WireStep
<1>2. /\ stdout' \in Seq(Frame)
      /\ \A k \in 1..Len(stdout') :
           stdout'[k].type = "response" => stdout'[k].id = stdout'[k].for
  <2>1. CASE stdout' = stdout
    BY <1>0, <2>1 DEF WireInv
  <2>2. CASE stdout' = <<>>
    BY <2>2
  <2>3. CASE stdout # <<>> /\ stdout' = Tail(stdout)
    BY <1>0, <2>3, HeadFrame
  <2>4. ASSUME NEW f \in Frame, f.type = "response" => f.id = f.for,
               stdout' = Append(stdout, f)
        PROVE  <1>2!1 /\ <1>2!2
    <3>1. stdout' \in Seq(Frame) /\ Len(stdout') = Len(stdout) + 1 /\ Len(stdout) \in Nat
      BY <1>0, <2>4
    <3>2. \A k \in 1..Len(stdout') : stdout'[k] = IF k = Len(stdout) + 1 THEN f ELSE stdout[k]
      BY <1>0, <2>4, <3>1
    <3>3. QED
      BY <1>0, <2>4, <3>1, <3>2 DEF WireInv
  <2>5. QED
    BY <2>1, <2>2, <2>3, <2>4 DEF WireStep
<1>3. QED
  BY <1>1, <1>2 DEF WireType, WireInv

-----------------------------------------------------------------------------
(* The theorems                                                            *)

\* The first state of a connection satisfies the invariant, every step keeps it.
THEOREM IInvHolds == Spec => []IInv
<1>1. Init => IInv
  <2> SUFFICES ASSUME Init PROVE IInv
    OBVIOUS
  <2>1. Unsent \in Record
    BY BoundsAssumption DEF Unsent, Record, Outcomes, Kinds
  <2>2. TableType /\ TableInv /\ Correlated
    BY <2>1, MaxRequestsNat DEF Init, TableType, TableInv, Correlated, NothingPending, Unsent, Requests
  <2>3. ControlType
    <3>1. starts \in 0..MaxStarts /\ notified \in Nat
      BY BoundsAssumption DEF Init
    <3>2. stopPc \in [Stoppers -> {"idle", "term", "kill"}]
      BY DEF Init
    <3>3. QED
      BY <3>1, <3>2 DEF Init, ControlType, StartPcs
  <2>4. WireType /\ WireInv
    BY DEF Init, WireType, WireInv
  <2>5. FailureSettlesAll /\ ReportInv
    BY DEF Init, FailureSettlesAll, ReportInv
  <2>6. QED
    BY <2>2, <2>3, <2>4, <2>5 DEF IInv
<1>2. IInv /\ [Next]_vars => IInv'
  <2> SUFFICES ASSUME IInv, [Next]_vars PROVE IInv'
    OBVIOUS
  <2>1. TableStep /\ ReportStep /\ WireStep
    BY NextTableStep, NextReportStep, NextWireStep
  <2>2. TableType' /\ TableInv' /\ Correlated'
    BY <2>1, TableKept
  <2>3. FailureSettlesAll' /\ ReportInv'
    BY <2>1, FailureKept
  <2>4. WireType' /\ WireInv' /\ ControlType'
    BY <2>1, WireKept, ControlKept
  <2>5. QED
    BY <2>2, <2>3, <2>4 DEF IInv
<1>3. QED
  BY <1>1, <1>2, PTL DEF Spec

\* The state of a connection keeps its types: no id or number of a request leaves its
\* range, no frame other than those of the protocol is on the wire.
THEOREM TypeCorrect == Spec => []TypeOK
<1>1. IInv => TypeOK
  BY TypeParts DEF IInv
<1>2. QED
  BY <1>1, IInvHolds, PTL

\* A response settles only the request it answers (request(), #handleRecord), for any
\* number of commands and of restarts, late or repeated responses included.
THEOREM Correlation == Spec => []Correlated
<1>1. IInv => Correlated
  BY DEF IInv
<1>2. QED
  BY <1>1, IInvHolds, PTL

\* Whoever waits is in the map of pending requests, where a response, a timer, a
\* failure or a stop finds it.
THEOREM Reachability == Spec => []Reachable
<1>1. IInv => Reachable
  <2> SUFFICES ASSUME IInv, NEW r \in Requests, req[r].outcome = "waiting"
               PROVE  pending[req[r].id] = r
    BY DEF Reachable
  <2>1. req[r].id = r /\ pending[r] = r
    BY DEF IInv, TableInv
  <2>2. QED
    BY <2>1
<1>2. QED
  BY <1>1, IInvHolds, PTL

\* After a failure nothing waits and nothing can begin to wait (#fail, request()).
THEOREM FailureIsFinal == Spec => []FailureSettlesAll
<1>1. IInv => FailureSettlesAll
  BY DEF IInv
<1>2. QED
  BY <1>1, IInvHolds, PTL

\* A process that is gone without a stop() has been reported exactly once (#fail,
\* #handleClose).
THEOREM UnexpectedExit == Spec => []UnexpectedExitReported
<1>1. IInv => UnexpectedExitReported
  BY DEF IInv, ReportInv, ControlType, UnexpectedExitReported
<1>2. QED
  BY <1>1, IInvHolds, PTL

\* Nothing that happens while a stop() is under way is reported as a failure.
THEOREM StopIsQuiet == Spec => StopIsNotFailure
<1>1. IInv /\ [Next]_vars => [stopping /\ stopping' => notified' = notified]_vars
  <2> SUFFICES ASSUME IInv, [Next]_vars, stopping, stopping'
               PROVE  notified' = notified
    OBVIOUS
  <2>1. ReportStep
    BY NextReportStep
  <2>2. CASE Fail
    BY <2>2 DEF Fail
  <2>3. QED
    BY <2>1, <2>2 DEF ReportStep
<1>2. QED
  BY <1>1, IInvHolds, PTL DEF Spec, StopIsNotFailure

-----------------------------------------------------------------------------
(* The outcome of start()                                                  *)

\* The stop() of start()'s catch block runs only there, and it comes to its end only
\* with a child that has ended or was killed.
EscalationInv ==
  /\ stopPc["start"] # "idle" => startPc = "cleanup"
  /\ startPc \in {"cleanup", "failed"} /\ stopPc["start"] # "term"
       => child # "alive" \/ signal = "kill"

\* The catch block of start() leaves "cleanup" only after SIGKILL or the end of the
\* process; every step keeps that.
LEMMA EscalationKept ==
  ASSUME IInv, EscalationInv, [Next]_vars
  PROVE  EscalationInv'
<1> USE DEF EscalationInv
<1>0. /\ startPc \in StartPcs /\ stopPc \in [Stoppers -> {"idle", "term", "kill"}]
      /\ "start" \in Stoppers /\ "owner" \in Stoppers
  BY DEF IInv, ControlType, Stoppers
<1>1. CASE \E deadline \in BOOLEAN : Request(deadline)
  BY <1>1 DEF Request, process, starting
<1>2. CASE \E r \in Requests : RequestTimeout(r) \/ WriteFails(r)
  BY <1>2 DEF RequestTimeout, WriteFails, process, starting
<1>3. CASE Start
  BY <1>3 DEF Start
<1>4. CASE Stop
  <2>1. stopPc'["start"] = stopPc["start"] /\ startPc' = startPc /\ child' = child
    BY <1>0, <1>4 DEF Stop, StopBody
  <2>2. signal = "kill" => signal' = "kill"
    BY <1>4 DEF Stop, StopBody, Signal
  <2>3. QED
    BY <2>1, <2>2
<1>5. CASE StartFails
  <2>1. startPc' = "cleanup" /\ child' = child
    BY <1>5 DEF StartFails, StartCatches
  <2>2. CASE child = "alive"
    <3>1. stopPc'["start"] = "term"
      BY <1>0, <1>5, <2>2 DEF StartFails, StartCatches, StopBody
    <3>2. QED
      BY <2>1, <3>1
  <2>3. QED
    BY <2>1, <2>2
<1>6. CASE StartIsReady \/ StartIsNegotiated
  BY <1>6 DEF StartIsReady, StartIsNegotiated, StartRequests, process
<1>7. CASE StartSucceeds \/ StartThrows
  BY <1>7 DEF StartSucceeds, StartThrows, process
<1>8. CASE HandleResponse \/ HandleReady \/ HandleEvent
  BY <1>8 DEF HandleResponse, HandleReady, HandleEvent, process, starting
<1>9. CASE HandleMalformed
  BY <1>9 DEF HandleMalformed, Signal
<1>10. CASE SpawnFails \/ StdinFails
  BY <1>10 DEF SpawnFails, StdinFails
<1>11. CASE Close
  BY <1>0, <1>11 DEF Close
<1>12. ASSUME NEW c \in Stoppers, StopEscalates(c) PROVE EscalationInv'
  <2>1. signal' = "kill" /\ startPc' = startPc
    BY <1>12 DEF StopEscalates, Signal, starting
  <2>2. stopPc'["start"] # "idle" => stopPc["start"] # "idle"
    BY <1>0, <1>12 DEF StopEscalates
  <2>3. QED
    BY <2>1, <2>2
<1>13. ASSUME NEW c \in Stoppers, StopGivesUp(c) PROVE EscalationInv'
  <2>1. startPc' = startPc /\ child' = child /\ signal' = signal
    BY <1>13 DEF StopGivesUp, starting, process
  <2>2. /\ stopPc'["start"] # "idle" => stopPc["start"] # "idle"
        /\ stopPc'["start"] # "term" => stopPc["start"] # "term"
    BY <1>0, <1>13 DEF StopGivesUp
  <2>3. QED
    BY <2>1, <2>2
<1>14. CASE \E r \in Requests : ChildAnswers(r)
  BY <1>14 DEF ChildAnswers, process, starting
<1>15. CASE \E type \in {"v1", "v2", "bad", "event", "chunk", "malformed"} : ChildWrites(type)
  BY <1>15 DEF ChildWrites, process, starting
<1>16. CASE \E how \in {"exited", "killed"} : ChildEnds(how)
  BY <1>16 DEF ChildEnds, starting
<1>17. CASE UNCHANGED vars
  BY <1>17 DEF vars, process, starting
<1>18. QED
  BY <1>1, <1>2, <1>3, <1>4, <1>5, <1>6, <1>7, <1>8, <1>9, <1>10, <1>11, <1>12, <1>13,
     <1>14, <1>15, <1>16, <1>17 DEF Next

\* A start() that threw leaves no child behind that was not at least killed (the catch
\* block of start(), stop() with its two grace periods).
THEOREM FailedStart == Spec => []FailedStartStopsChild
<1>1. Init => EscalationInv
  BY DEF Init, EscalationInv, Stoppers
<1>2. IInv /\ EscalationInv /\ [Next]_vars => EscalationInv'
  BY EscalationKept
<1>3. IInv /\ EscalationInv => FailedStartStopsChild
  BY DEF EscalationInv, FailedStartStopsChild
<1>4. QED
  BY <1>1, <1>2, <1>3, IInvHolds, PTL DEF Spec

\* What start() has achieved at its await: r is its request of this life of the process,
\* and a negotiation was answered before a get_state if the peer advertised v2.
IsOwn(r, kind) == /\ r # None /\ req[r].outcome # "unsent"
                  /\ req[r].kind = kind /\ req[r].epoch = starts
NegotiatedBefore(r) ==
  ready = "v2" => \E n \in Requests : /\ n < r /\ IsOwn(n, "negotiate")
                                      /\ req[n].outcome = "answered"
HandshakeInv ==
  /\ startPc = "negotiate" => IsOwn(startReq, "negotiate")
  /\ startPc \in {"getState", "ok"} =>
       /\ IsOwn(startReq, "get_state") /\ NegotiatedBefore(startReq)
  /\ startPc \in {"negotiate", "getState", "ok"} => ready # "waiting"
  /\ startPc = "ok" => req[startReq].outcome = "answered"

\* A request keeps its kind and its life, and an answer is final.
LEMMA RequestsStable ==
  ASSUME IInv, TableStep, NEW r \in Requests, req[r].outcome # "unsent"
  PROVE  /\ req'[r].kind = req[r].kind /\ req'[r].epoch = req[r].epoch
         /\ req'[r].outcome # "unsent"
         /\ req[r].outcome = "answered" => req'[r].outcome = "answered"
<1>0. TableType /\ TableInv /\ req[r] \in Record /\ r <= issued /\ issued \in Nat
  BY MaxRequestsNat DEF IInv, TableInv, TableType
<1>1. CASE Unchanged
  BY <1>0, <1>1 DEF Unchanged, table
<1>2. CASE RejectPending
  <2>1. req'[r] = IF \E i \in Requests : pending[i] = r
                  THEN [req[r] EXCEPT !.outcome = "rejected"] ELSE req[r]
    BY <1>2 DEF RejectPending, Rejected
  <2>2. CASE \E i \in Requests : pending[i] = r
    <3>1. req[r].outcome = "waiting"
      BY <1>0, <2>2, MaxRequestsNat DEF TableInv
    <3>2. req'[r] = [req[r] EXCEPT !.outcome = "rejected"]
      BY <2>1, <2>2
    <3>3. QED
      BY <1>0, <3>1, <3>2 DEF Record
  <2>3. QED
    BY <2>1, <2>2
<1>3. CASE Issued
  <2>1. PICK kind \in Kinds, deadline \in BOOLEAN : Issue(kind, deadline)
    BY <1>3 DEF Issued
  <2>2. r # issued + 1
    BY <1>0, MaxRequestsNat
  <2>3. req'[r] = req[r]
    BY <1>0, <2>1, <2>2 DEF Issue, TableType
  <2>4. QED
    BY <2>3
<1>4. CASE Settled
  <2>1. PICK i \in Requests, outcome \in Outcomes \ {"unsent", "waiting"},
             answer \in Requests \union {None} :
          pending[i] # None /\ Settle(i, pending[i], outcome, answer)
    BY <1>4 DEF Settled
  <2>2. pending[i] = i /\ req[i].outcome = "waiting"
    BY <1>0, <2>1 DEF TableInv
  <2>3. req' = [req EXCEPT ![i].outcome = outcome, ![i].answer = answer]
    BY <2>1, <2>2 DEF Settle
  <2>4. CASE r = i
    <3>1. req'[r] = [req[r] EXCEPT !.outcome = outcome, !.answer = answer]
      BY <1>0, <2>3, <2>4 DEF TableType
    <3>2. QED
      BY <1>0, <2>2, <2>4, <3>1 DEF Record
  <2>5. CASE r # i
    <3>1. req'[r] = req[r]
      BY <1>0, <2>3, <2>5 DEF TableType
    <3>2. QED
      BY <3>1
  <2>6. QED
    BY <2>4, <2>5
<1>5. QED
  BY <1>1, <1>2, <1>3, <1>4 DEF TableStep

\* The invariant survives every step that leaves start() where it awaits.
LEMMA HandshakeStays ==
  ASSUME IInv, HandshakeInv, TableStep, startPc' = startPc, startReq' = startReq,
         starts' = starts, ready # "waiting" => ready' = ready
  PROVE  HandshakeInv'
<1> USE DEF HandshakeInv
<1>1. ASSUME NEW r \in Requests, NEW kind, IsOwn(r, kind)
      PROVE  IsOwn(r, kind)' /\ (req[r].outcome = "answered" => req'[r].outcome = "answered")
  BY <1>1, RequestsStable DEF IsOwn
<1>2. startReq \in Requests \union {None}
  BY DEF IInv, ControlType
<1>3. startPc = "negotiate" => IsOwn(startReq, "negotiate")'
  BY <1>1, <1>2 DEF IsOwn
<1>4. ASSUME startPc \in {"getState", "ok"}
      PROVE  IsOwn(startReq, "get_state")' /\ NegotiatedBefore(startReq)'
  <2>1. IsOwn(startReq, "get_state") /\ startReq \in Requests /\ ready # "waiting"
    BY <1>2, <1>4 DEF IsOwn
  <2>2. NegotiatedBefore(startReq) /\ ready' = ready
    BY <1>4, <2>1
  <2>3. NegotiatedBefore(startReq)'
    BY <1>1, <2>2 DEF NegotiatedBefore
  <2>4. IsOwn(startReq, "get_state")'
    BY <1>1, <2>1 DEF IsOwn
  <2>5. QED
    BY <2>3, <2>4
<1>5. startPc = "ok" => req'[startReq].outcome = "answered"
  BY <1>1, <1>2 DEF IsOwn
<1>6. QED
  BY <1>3, <1>4, <1>5

\* start() sends a request of its own: what was sent before is still there.
LEMMA StartRequestsOwn ==
  ASSUME IInv, NEW kind \in {"negotiate", "get_state"}, NEW pc \in StartPcs,
         StartRequests(kind, pc)
  PROVE  /\ startReq' \in Requests /\ IsOwn(startReq, kind)'
         /\ startPc' = pc /\ ready' = ready /\ starts' = starts
         /\ \A r \in Requests : req[r].outcome # "unsent" => req'[r] = req[r] /\ r < startReq'
<1>1. Issue(kind, TRUE) /\ startReq' = issued + 1 /\ startPc' = pc
      /\ ready' = ready /\ starts' = starts
  BY DEF StartRequests
<1>2. issued + 1 \in Requests /\ issued \in Nat /\ issued + 1 # None
  BY <1>1, MaxRequestsNat DEF IInv, TableType, Issue, Requests, None
<1>3. req' = [req EXCEPT ![issued + 1] =
               [id |-> NewId, kind |-> kind, deadline |-> TRUE, epoch |-> starts,
                outcome |-> "waiting", answer |-> None]]
  BY <1>1 DEF Issue
<1>4. req'[issued + 1].kind = kind /\ req'[issued + 1].epoch = starts
      /\ req'[issued + 1].outcome = "waiting"
  BY <1>2, <1>3 DEF IInv, TableType
<1>5. \A r \in Requests : req[r].outcome # "unsent" => r < issued + 1
  BY <1>2, MaxRequestsNat DEF IInv, TableInv
<1>6. \A r \in Requests : r < issued + 1 => req'[r] = req[r]
  BY <1>2, <1>3, MaxRequestsNat DEF IInv, TableType
<1>7. QED
  BY <1>1, <1>2, <1>4, <1>5, <1>6 DEF IsOwn

\* Every step keeps what start() has achieved of the handshake so far.
LEMMA HandshakeKept ==
  ASSUME IInv, HandshakeInv, [Next]_vars
  PROVE  HandshakeInv'
<1> DEFINE Stays == /\ startPc' = startPc /\ startReq' = startReq /\ starts' = starts
                    /\ ready # "waiting" => ready' = ready
<1>0. TableStep
  BY NextTableStep
<1>1. ASSUME Stays PROVE HandshakeInv'
  BY <1>0, <1>1, HandshakeStays
<1>2. CASE \E deadline \in BOOLEAN : Request(deadline)
  BY <1>1, <1>2 DEF Request, starting
<1>3. CASE \E r \in Requests : RequestTimeout(r) \/ WriteFails(r)
  BY <1>1, <1>3 DEF RequestTimeout, WriteFails, starting
<1>4. CASE Start
  BY <1>4 DEF Start, HandshakeInv
<1>5. CASE Stop
  BY <1>1, <1>5 DEF Stop, StopBody, RejectReady
<1>6. CASE StartFails
  BY <1>6 DEF StartFails, StartCatches, HandshakeInv
<1>7. CASE StartThrows
  BY <1>7 DEF StartThrows, HandshakeInv
<1>8. CASE StartSucceeds
  <2>1. HandshakeInv /\ startPc = "getState" /\ req[startReq].outcome = "answered"
    BY <1>8 DEF StartSucceeds
  <2>2. startPc' = "ok" /\ ready' = ready /\ startReq' = startReq /\ starts' = starts /\ req' = req
    BY <1>8 DEF StartSucceeds, table
  <2>3. QED
    BY <2>1, <2>2 DEF HandshakeInv, IsOwn, NegotiatedBefore
<1>9. CASE StartIsReady
  <2>1. CASE ready = "v2"
    <3>1. StartRequests("negotiate", "negotiate")
      BY <1>9, <2>1 DEF StartIsReady
    <3>2. IsOwn(startReq, "negotiate")' /\ startPc' = "negotiate" /\ ready' = ready
      BY <3>1, StartRequestsOwn DEF StartPcs
    <3>3. QED
      BY <2>1, <3>2 DEF HandshakeInv
  <2>2. CASE ready = "v1"
    <3>1. StartRequests("get_state", "getState")
      BY <1>9, <2>2 DEF StartIsReady
    <3>2. IsOwn(startReq, "get_state")' /\ startPc' = "getState" /\ ready' = "v1"
      BY <2>2, <3>1, StartRequestsOwn DEF StartPcs
    <3>3. QED
      BY <3>2 DEF HandshakeInv, NegotiatedBefore
  <2>3. QED
    BY <1>9, <2>1, <2>2 DEF StartIsReady
<1>10. CASE StartIsNegotiated
  <2>1. StartRequests("get_state", "getState") /\ startPc = "negotiate"
        /\ req[startReq].outcome = "answered"
    BY <1>10 DEF StartIsNegotiated
  <2>2. /\ IsOwn(startReq, "get_state")' /\ startPc' = "getState"
        /\ ready' = ready /\ starts' = starts
        /\ \A r \in Requests : req[r].outcome # "unsent" => req'[r] = req[r] /\ r < startReq'
    BY <2>1, StartRequestsOwn DEF StartPcs
  <2>3. startReq \in Requests /\ IsOwn(startReq, "negotiate") /\ ready # "waiting"
    BY <2>1 DEF HandshakeInv, IsOwn, IInv, ControlType
  <2>4. startReq < startReq' /\ req'[startReq] = req[startReq]
    BY <2>2, <2>3 DEF IsOwn
  <2>5. \E n \in Requests : /\ n < startReq' /\ IsOwn(n, "negotiate")'
                            /\ req'[n].outcome = "answered"
    BY <2>1, <2>2, <2>3, <2>4 DEF IsOwn
  <2>6. QED
    BY <2>2, <2>3, <2>5 DEF HandshakeInv, NegotiatedBefore
<1>11. CASE HandleResponse \/ HandleEvent
  BY <1>1, <1>11 DEF HandleResponse, HandleEvent, starting
<1>12. CASE HandleReady
  BY <1>1, <1>12 DEF HandleReady
<1>13. CASE HandleMalformed \/ SpawnFails \/ StdinFails
  BY <1>1, <1>13 DEF HandleMalformed, SpawnFails, StdinFails, Fail, RejectReady
<1>14. CASE Close
  BY <1>1, <1>14 DEF Close, Fail, RejectReady
<1>15. CASE \E c \in Stoppers : StopEscalates(c) \/ StopGivesUp(c)
  BY <1>1, <1>15 DEF StopEscalates, StopGivesUp, starting
<1>16. CASE \E r \in Requests : ChildAnswers(r)
  BY <1>1, <1>16 DEF ChildAnswers, starting
<1>17. CASE \E type \in {"v1", "v2", "bad", "event", "chunk", "malformed"} : ChildWrites(type)
  BY <1>1, <1>17 DEF ChildWrites, starting
<1>18. CASE \E how \in {"exited", "killed"} : ChildEnds(how)
  BY <1>1, <1>18 DEF ChildEnds, starting
<1>19. CASE UNCHANGED vars
  BY <1>1, <1>19 DEF vars, starting
<1>20. QED
  BY <1>2, <1>3, <1>4, <1>5, <1>6, <1>7, <1>8, <1>9, <1>10, <1>11, <1>12, <1>13, <1>14,
     <1>15, <1>16, <1>17, <1>18, <1>19 DEF Next

\* start() returns only after the whole handshake of this life of the process: an
\* answered get_state and, if v2 was advertised, an answered negotiation before it.
THEOREM Handshake == Spec => []StartedMeansHandshake
<1>1. Init => HandshakeInv
  BY DEF Init, HandshakeInv
<1>2. IInv /\ HandshakeInv /\ [Next]_vars => HandshakeInv'
  BY HandshakeKept
<1>3. IInv /\ HandshakeInv => StartedMeansHandshake
  BY DEF HandshakeInv, IsOwn, NegotiatedBefore, StartedMeansHandshake
<1>4. QED
  BY <1>1, <1>2, <1>3, IInvHolds, PTL DEF Spec

-----------------------------------------------------------------------------
(* The implementation of remote procedure calls                            *)

\* The call that a request implements, and all of them: the refinement mapping.
CallOf(r) == [outcome |-> req[r].outcome, reply |-> req[r].answer]
CallMap == [r \in Requests |-> CallOf(r)]

\* A step that changes one request changes one call.
LEMMA OneCallChanges ==
  ASSUME NEW r \in Requests, NEW how, NEW reply,
         \A s \in Requests : s # r => CallOf(s)' = CallOf(s),
         CallOf(r)' = [outcome |-> how, reply |-> reply]
  PROVE  RPC!Outcome(r, how, reply)
BY DEF RPC!Outcome, CallOf

\* Every way of changing the table is a step of Calls or leaves the calls alone.
LEMMA TableStepIsCall ==
  ASSUME IInv, TableStep
  PROVE  RPC!Next \/ CallMap' = CallMap
<1>0. TableType /\ TableInv /\ issued \in Nat /\ \A r \in Requests : req[r] \in Record
  BY MaxRequestsNat DEF IInv, TableType
<1>1. CASE Unchanged
  BY <1>1 DEF Unchanged, table, CallMap, CallOf
<1>2. CASE RejectPending
  <2>1. ASSUME NEW r \in Requests
        PROVE  CallOf(r)' = IF req[r].outcome = "waiting"
                            THEN [outcome |-> "rejected", reply |-> None] ELSE CallOf(r)
    <3>1. req'[r] = IF \E i \in Requests : pending[i] = r
                    THEN [req[r] EXCEPT !.outcome = "rejected"] ELSE req[r]
      BY <1>2 DEF RejectPending, Rejected
    <3>2. (\E i \in Requests : pending[i] = r) <=> req[r].outcome = "waiting"
      BY <1>0, MaxRequestsNat DEF TableInv
    <3>3. req[r].outcome = "waiting" => req[r].answer = None
      BY <1>0 DEF TableInv
    <3>4. QED
      BY <1>0, <3>1, <3>2, <3>3 DEF CallOf, Record
  <2>2. RPC!Abort
    BY <2>1 DEF RPC!Abort, RPC!Waiting, RPC!None, None, CallOf
  <2>3. QED
    BY <2>2 DEF RPC!Next
<1>3. CASE Issued
  <2>1. PICK kind \in Kinds, deadline \in BOOLEAN : Issue(kind, deadline)
    BY <1>3 DEF Issued
  <2>2. PICK n \in Requests : n = issued + 1 /\ req[n].outcome = "unsent"
    <3>1. issued + 1 \in Requests /\ ~(issued + 1 <= issued)
      BY <1>0, <2>1, MaxRequestsNat DEF Issue, Requests
    <3>2. QED
      BY <1>0, <3>1 DEF TableInv
  <2>3. /\ req'[n].outcome = "waiting" /\ req'[n].answer = None
        /\ \A r \in Requests : r # n => req'[r] = req[r]
    BY <1>0, <2>1, <2>2 DEF Issue, TableType
  <2>4. RPC!Make(n)
    BY <2>2, <2>3, OneCallChanges DEF RPC!Make, CallOf, RPC!None, None
  <2>5. QED
    BY <2>2, <2>4 DEF RPC!Next
<1>4. CASE Settled
  <2>1. PICK i \in Requests, outcome \in Outcomes \ {"unsent", "waiting"},
             answer \in Requests \union {None} :
          /\ pending[i] # None
          /\ answer = IF outcome \in {"answered", "refused"} THEN pending[i] ELSE None
          /\ Settle(i, pending[i], outcome, answer)
    BY <1>4 DEF Settled
  <2>2. pending[i] = i /\ req[i].outcome = "waiting"
    BY <1>0, <2>1 DEF TableInv
  <2>3. req' = [req EXCEPT ![i].outcome = outcome, ![i].answer = answer]
    BY <2>1, <2>2 DEF Settle
  <2>4. req'[i] = [req[i] EXCEPT !.outcome = outcome, !.answer = answer]
        /\ \A r \in Requests : r # i => req'[r] = req[r]
    BY <1>0, <2>3 DEF TableType
  <2>5. CallOf(i)' = [outcome |-> outcome, reply |-> answer]
        /\ \A r \in Requests : r # i => CallOf(r)' = CallOf(r)
    BY <1>0, <2>4 DEF CallOf, Record
  <2>6. RPC!Outcome(i, outcome, answer)
    BY <2>5, OneCallChanges
  <2>7. i \in RPC!Waiting
    BY <2>2 DEF RPC!Waiting
  <2>8. CASE outcome \in {"answered", "refused"}
    <3>1. RPC!Reply(i)
      BY <2>1, <2>2, <2>6, <2>7, <2>8 DEF RPC!Reply, RPC!Replies
    <3>2. QED
      BY <3>1 DEF RPC!Next
  <2>9. CASE outcome \notin {"answered", "refused"}
    <3>1. outcome \in {"timeout", "rejected"} /\ answer = None
      BY <2>1, <2>9 DEF Outcomes
    <3>2. RPC!GiveUp(i)
      BY <2>6, <2>7, <3>1 DEF RPC!GiveUp, RPC!None, None
    <3>3. QED
      BY <3>2 DEF RPC!Next
  <2>10. QED
    BY <2>8, <2>9
<1>5. QED
  BY <1>0, <1>1, <1>2, <1>3, <1>4 DEF TableStep

\* The transport implements remote procedure calls: the pending map, the timers and the
\* failures are one way to do what Calls promises.
THEOREM Implementation == Spec => ImplementsCalls
<1>1. Init => RPC!Init
  BY DEF Init, Unsent, RPC!Init, RPC!None, None
<1>2. IInv /\ [Next]_vars => [RPC!Next]_CallMap
  BY NextTableStep, TableStepIsCall
<1>3. QED
  BY <1>1, <1>2, IInvHolds, PTL DEF Spec, ImplementsCalls, RPC!Spec, CallMap, CallOf
=============================================================================
