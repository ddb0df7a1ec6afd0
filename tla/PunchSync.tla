------------------------------- MODULE PunchSync -------------------------------
(***************************************************************************)
(* One attendance device in a branch, the agent on the branch's PC that    *)
(* reads it, and the server.  The server cannot reach the device: a user's *)
(* request to pull it waits in a queue until the agent asks for it.  The   *)
(* agent works in cycles: it lists the requests, reads the device's log,   *)
(* leaves out what the server has (by the server's watermark) or what the  *)
(* request does not ask for, uploads the rest batch by batch, and closes   *)
(* the request; the server closes it too when the last batch arrives.      *)
(*                                                                         *)
(* Each exchange with the server may fail or time out at the agent while   *)
(* the server still handles it: the cycle is abandoned and a new one       *)
(* starts later.  A punch is its position in the device's log.             *)
(***************************************************************************)
EXTENDS Naturals, Sequences, FiniteSets

CONSTANTS
    LastTime,       \* punch times are 1..LastTime, in seconds of the clock
    Buffer,         \* WATERMARK_BUFFER_SECONDS and INCREMENTAL_BUFFER
    BatchSize,      \* punches in one upload
    Ranges,         \* what users may ask for
    MaxPunches,     \* bounds of the instances
    MaxRequests,
    MaxFaults

\* A range of dates asks for the punches later than the first instant of its
\* first day, up to the end of its last; a request without dates asks for all.
Full == [from |-> 0, upto |-> LastTime]
NoRequest == [open |-> FALSE, range |-> Full, asked |-> 0, calm |-> TRUE]

ASSUME BridgeAssumption ==
    /\ LastTime \in Nat
    /\ Buffer \in Nat \ {0}
    /\ BatchSize \in Nat \ {0}
    /\ Ranges \subseteq [from : Nat, upto : Nat]
    /\ Full \in Ranges
    /\ MaxPunches \in Nat /\ MaxRequests \in Nat /\ MaxFaults \in Nat

VARIABLES
    site,      \* how this branch uses the bridge; never changes
    log,       \* log[i]: the time of the device's i-th punch
    stored,    \* AttendancePunch: the punches the server has
    request,   \* BiometricPullRequest not yet acknowledged
    agent,     \* the cycle the agent is in
    wire,      \* uploads and acknowledgements under way
    requests,  \* counters that bound the instances
    faults

vars == <<site, log, stored, request, agent, wire, requests, faults>>

-----------------------------------------------------------------------------
Punches == 1..MaxPunches

\* onRequest: SYNC_ON_REQUEST_ONLY; ranges: users ask for ranges of dates.
Sites == [onRequest : BOOLEAN, ranges : BOOLEAN]

\* When the request was made: the length of the log, and whether nothing of an
\* earlier request or cycle was under way.
Requests == [open : BOOLEAN, range : Ranges, asked : 0..MaxPunches, calm : BOOLEAN]

\* What the agent holds in memory during a cycle; pull is the request it works
\* for, and rest what it has read and not uploaded.
Cycle == [pc : {"idle", "read", "plan", "send", "wait", "close"},
          pull : [open : BOOLEAN, range : Ranges], rest : SUBSET Punches,
          incremental : BOOLEAN]

\* state: sent, imported (punches committed, the request not yet closed), done.
\* awaited: the agent still waits for the answer.
Messages == [kind : {"upload", "close"}, batch : SUBSET Punches,
             incremental : BOOLEAN, final : BOOLEAN,
             state : {"sent", "imported", "done"}, awaited : BOOLEAN]

Awaited == {w \in wire : w.awaited}

\* The agent waits for exactly one answer, or for none.
TypeOK ==
    /\ site \in Sites
    /\ log \in Seq(1..LastTime) /\ Len(log) <= MaxPunches
    /\ stored \subseteq 1..Len(log)
    /\ request \in Requests
    /\ agent \in Cycle
    /\ wire \subseteq Messages
    /\ requests \in 0..MaxRequests
    /\ faults \in 0..MaxFaults
    /\ agent.pc = "wait" => \E w \in wire : Awaited = {w}
    /\ agent.pc # "wait" => Awaited = {}

NoPull == [open |-> FALSE, range |-> Full]

Idle == [pc |-> "idle", pull |-> NoPull, rest |-> {}, incremental |-> FALSE]

Init ==
    /\ site \in Sites
    /\ log = << >>
    /\ stored = {}
    /\ request = NoRequest
    /\ agent = Idle
    /\ wire = {}
    /\ requests = 0
    /\ faults = 0

-----------------------------------------------------------------------------
(* The device and the users.                                               *)

\* Somebody punches: the device's log is in the order of its clock.
Punch(t) ==
    /\ Len(log) < MaxPunches
    /\ log # << >> => log[Len(log)] <= t
    /\ log' = Append(log, t)
    /\ UNCHANGED <<site, stored, request, agent, wire, requests, faults>>

\* queue_pull_request: an open request is given the new dates, or a new row is
\* created.
QueuePullRequest(r) ==
    /\ requests < MaxRequests
    /\ ~site.ranges => r = Full
    /\ request' = [open |-> TRUE, range |-> r, asked |-> Len(log),
                   calm |-> ~request.open /\ agent.pc = "idle" /\ wire = {}]
    /\ requests' = requests + 1
    /\ UNCHANGED <<site, log, stored, agent, wire, faults>>

-----------------------------------------------------------------------------
(* The agent's cycle.                                                      *)

\* Mutant: requests without dates are not listed.
Listed_RangesOnly ==
    [open |-> request.open /\ request.range # Full, range |-> request.range]

\* list_pending_pull_requests
Listed == [open |-> request.open, range |-> request.range]

\* A site that works on request only skips a cycle without one.
StartCycle ==
    /\ agent.pc = "idle"
    /\ site.onRequest => Listed.open
    /\ agent' = [Idle EXCEPT !.pc = "read", !.pull = Listed]
    /\ UNCHANGED <<site, log, stored, request, wire, requests, faults>>

\* The requests cannot be listed: an automatic cycle goes on without them.
StartBlind ==
    /\ agent.pc = "idle"
    /\ ~site.onRequest
    /\ faults < MaxFaults
    /\ agent' = [Idle EXCEPT !.pc = "read"]
    /\ faults' = faults + 1
    /\ UNCHANGED <<site, log, stored, request, wire, requests>>

\* fetch_from_device
ReadDevice ==
    /\ agent.pc = "read"
    /\ agent' = [agent EXCEPT !.pc = "plan", !.rest = 1..Len(log)]
    /\ UNCHANGED <<site, log, stored, request, wire, requests, faults>>

Within(i, r) == r.from < log[i] /\ log[i] <= r.upto

\* Mutant: no margin for punches in the second of the last one stored.
Fresh_NoBuffer(i) == \A j \in stored : log[i] > log[j]

\* Later than the watermark, the last punch stored, less the buffer.
Fresh(i) == \A j \in stored : log[i] + Buffer > log[j]

\* filter_punches_for_upload for a request, without or with dates.
PlanPull ==
    /\ agent.pc = "plan"
    /\ agent.pull.open
    /\ agent' = [agent EXCEPT !.pc = "send",
                              !.rest = {i \in @ : Within(i, agent.pull.range)}]
    /\ UNCHANGED <<site, log, stored, request, wire, requests, faults>>

\* filter_punches_for_upload by the watermark the server answers with; the
\* first synchronisation uploads everything.
PlanIncremental ==
    /\ agent.pc = "plan"
    /\ ~agent.pull.open
    /\ agent' = [agent EXCEPT !.pc = "send",
                              !.rest = {i \in @ : Fresh(i)},
                              !.incremental = (stored # {})]
    /\ UNCHANGED <<site, log, stored, request, wire, requests, faults>>

\* The watermark cannot be fetched: everything is uploaded.
PlanBlind ==
    /\ agent.pc = "plan"
    /\ ~agent.pull.open
    /\ faults < MaxFaults
    /\ agent' = [agent EXCEPT !.pc = "send"]
    /\ faults' = faults + 1
    /\ UNCHANGED <<site, log, stored, request, wire, requests>>

\* Mutant: the batches are cut from the list in any order.
NextBatch_AnyOrder(b) ==
    /\ b \subseteq agent.rest
    /\ Cardinality(b) <= BatchSize
    /\ b = {} => agent.rest = {}

\* The next upload: at most a batch, less where it was split for its size (a
\* body over the limit, or a 413).
NextBatch(b) ==
    /\ b \subseteq agent.rest
    /\ Cardinality(b) <= BatchSize
    /\ b = {} => agent.rest = {}
    /\ \A i \in b, j \in agent.rest \ b : i < j

\* Mutant: every batch is marked as the last one.
Final_Always(b) == TRUE

\* sync_finalize
Final(b) == b = agent.rest

\* push_to_server, with an empty batch when only the users are sent.
Upload(b) ==
    /\ agent.pc = "send"
    /\ NextBatch(b)
    /\ wire' = wire \cup
         {[kind |-> "upload", batch |-> b, incremental |-> agent.incremental,
           final |-> Final(b), state |-> "sent", awaited |-> TRUE]}
    /\ agent' = [agent EXCEPT !.pc = "wait"]
    /\ UNCHANGED <<site, log, stored, request, requests, faults>>

\* What follows the last upload: the request is acknowledged, if there is one.
AfterUpload(rest) ==
    IF rest # {} THEN [agent EXCEPT !.pc = "send", !.rest = rest]
    ELSE IF agent.pull.open THEN [agent EXCEPT !.pc = "close", !.rest = {}]
    ELSE Idle

\* Nothing to upload, not even users: no request is made.
UploadNothing ==
    /\ agent.pc = "send"
    /\ agent.rest = {}
    /\ agent' = AfterUpload({})
    /\ UNCHANGED <<site, log, stored, request, wire, requests, faults>>

\* ack_pull_request
AckPullRequest ==
    /\ agent.pc = "close"
    /\ wire' = wire \cup
         {[kind |-> "close", batch |-> {}, incremental |-> FALSE, final |-> FALSE,
           state |-> "sent", awaited |-> TRUE]}
    /\ agent' = [agent EXCEPT !.pc = "wait"]
    /\ UNCHANGED <<site, log, stored, request, requests, faults>>

\* The answer arrives.
Answer(w) ==
    /\ w \in Awaited
    /\ w.state = "done"
    /\ wire' = wire \ {w}
    /\ agent' = IF w.kind = "close" THEN Idle ELSE AfterUpload(agent.rest \ w.batch)
    /\ UNCHANGED <<site, log, stored, request, requests, faults>>

\* Mutant: the abandoned exchange is taken for the next one's.
Abandoned_Kept == wire

\* The exchange the agent no longer waits for; if it was answered it is over.
Abandoned == {[w EXCEPT !.awaited = FALSE] : w \in {w \in wire : w.state # "done"}}

\* The device or the server does not answer, an error is answered, the agent's
\* process dies: the cycle ends and nothing of it is remembered.
GiveUp ==
    /\ agent.pc # "idle"
    /\ faults < MaxFaults
    /\ agent' = Idle
    /\ wire' = Abandoned
    /\ faults' = faults + 1
    /\ UNCHANGED <<site, log, stored, request, requests>>

-----------------------------------------------------------------------------
(* The server.                                                             *)

\* An exchange nobody waits for is over when it is handled.
Moved(w, s) ==
    (wire \ {w}) \cup
        (IF s = "done" /\ ~w.awaited THEN {} ELSE {[w EXCEPT !.state = s]})

\* ingest_agent_payload: the duplicates are left out, and of an incremental
\* batch what is not later than the watermark less the buffer.
Ingest(w) ==
    /\ w \in wire
    /\ w.kind = "upload" /\ w.state = "sent"
    /\ stored' = stored \cup {i \in w.batch : w.incremental => Fresh(i)}
    /\ wire' = Moved(w, IF w.final THEN "imported" ELSE "done")
    /\ UNCHANGED <<site, log, request, agent, requests, faults>>

\* acknowledge_pull_request_after_ingest: whatever request is open is closed.
AcknowledgeAfterIngest(w) ==
    /\ w \in wire
    /\ w.state = "imported"
    /\ request' = NoRequest
    /\ wire' = Moved(w, "done")
    /\ UNCHANGED <<site, log, stored, agent, requests, faults>>

\* acknowledge_pull_request, asked by the agent.
Acknowledge(w) ==
    /\ w \in wire
    /\ w.kind = "close" /\ w.state = "sent"
    /\ request' = NoRequest
    /\ wire' = Moved(w, "done")
    /\ UNCHANGED <<site, log, stored, agent, requests, faults>>

\* An abandoned exchange never reached the server, or fails there.
Lose(w) ==
    /\ w \in wire \ Awaited
    /\ wire' = wire \ {w}
    /\ UNCHANGED <<site, log, stored, request, agent, requests, faults>>

Handle(w) == Ingest(w) \/ AcknowledgeAfterIngest(w) \/ Acknowledge(w)

AgentStep ==
    \/ StartCycle \/ ReadDevice \/ PlanPull \/ PlanIncremental
    \/ \E b \in SUBSET agent.rest : Upload(b)
    \/ UploadNothing \/ AckPullRequest
    \/ \E w \in wire : Answer(w)

Fault ==
    \/ StartBlind \/ PlanBlind \/ GiveUp
    \/ \E w \in wire : Lose(w)

Next ==
    \/ \E t \in 1..LastTime : Punch(t)
    \/ \E r \in Ranges : QueuePullRequest(r)
    \/ AgentStep
    \/ \E w \in wire : Handle(w)
    \/ Fault

Spec == Init /\ [][Next]_vars

\* The agent runs a cycle every few minutes and the server answers; the faults
\* are finitely many.
FairSpec ==
    /\ Spec
    /\ WF_vars(AgentStep)
    /\ WF_vars(\E w \in Awaited : Handle(w))

-----------------------------------------------------------------------------
(* Properties.                                                             *)

\* While users never ask for a range of dates, the server holds a prefix of the
\* device's log: whatever was abandoned, repeated or delivered late, a punch
\* the watermark hides from the next cycle is one the server has.
GapFree ==
    ~site.ranges => \A i \in stored : 1..i \subseteq stored

Replica == INSTANCE PunchReplica WITH ordered <- ~site.ranges

\* The bridge implements the replica.
ImplementsReplica == Replica!Spec

AskedFor(q) == {i \in 1..q.asked : Within(i, q.range)}

\* A request that is marked as executed was executed: the punches it asked for
\* that were on the device when it was made are on the server.
Executed == request.open /\ ~request'.open => AskedFor(request) \subseteq stored'

\* Of the requests made when nothing of an earlier one was under way, at a site
\* without the automatic cycles that could close a range unseen.
RequestExecuted ==
    [][request.calm /\ (site.onRequest \/ ~site.ranges) => Executed]_vars

\* A request does not wait for ever, whatever failed on the way.
RequestClosed == request.open ~> ~request.open

\* A site that works by itself brings every punch to the server.
Delivered ==
    \A i \in Punches :
        (~site.onRequest /\ ~site.ranges /\ i <= Len(log)) ~> (i \in stored)

=============================================================================
