---------------------------- MODULE PunchSyncProofs ----------------------------
(***************************************************************************)
(* Proofs about PunchSync, for any lengths of log, batches and numbers of  *)
(* requests and faults.                                                    *)
(***************************************************************************)
EXTENDS PunchSync, TLAPS

USE BridgeAssumption

-----------------------------------------------------------------------------
(* The inductive invariant.                                                *)

\* The device's log is in the order of its clock.
Sorted == \A i, j \in 1..Len(log) : i <= j => log[i] <= log[j]

\* Everything in flight comes from the log.
Known ==
    /\ request.asked <= Len(log)
    /\ agent.rest \subseteq 1..Len(log)
    /\ \A w \in wire : w.batch \subseteq 1..Len(log)
    /\ agent.pc \in {"idle", "read", "close"} => agent.rest = {}
    /\ \A w \in Awaited : w.kind = "close" => agent.rest = {}
    /\ \A w \in wire : w.kind = "close" => w.batch = {}

\* How the site shows in what is under way: a site on request works for
\* requests only, and never by the watermark.
SiteKept ==
    /\ ~site.ranges => request.range = Full /\ agent.pull.range = Full
    /\ site.onRequest =>
          /\ ~agent.incremental
          /\ agent.pc # "idle" => agent.pull.open
          /\ \A w \in wire : ~w.incremental

\* Sites where what a cycle leaves out is known to be stored.
Traceable == site.onRequest \/ ~site.ranges

\* A batch that was answered is stored.
Answered ==
    Traceable => \A w \in Awaited : w.state # "sent" => w.batch \subseteq stored

\* What precedes a punch that is under way is stored or under way with it.
Contiguous ==
    ~site.ranges =>
        /\ \A i \in stored : 1..i \subseteq stored
        /\ \A i \in agent.rest : 1..i \subseteq stored \cup agent.rest
        /\ \A w \in wire : \A i \in w.batch : 1..i \subseteq stored \cup w.batch

\* What an open request asked for is stored or still to come, and is stored
\* when something is about to close the request.
Pursued ==
    Traceable /\ request.open /\ request.calm =>
        /\ agent.pc # "idle" /\ agent.pull.open => agent.pull.range = request.range
        /\ agent.pc = "plan" => 1..request.asked \subseteq agent.rest
        /\ agent.pc \in {"send", "wait", "close"} =>
              AskedFor(request) \subseteq stored \cup agent.rest
        /\ \A w \in wire :
              /\ w.final => AskedFor(request) \subseteq stored \cup w.batch
              /\ w.state = "imported" \/ w.kind = "close" => AskedFor(request) \subseteq stored

IInv ==
    /\ TypeOK
    /\ Sorted
    /\ Known
    /\ SiteKept
    /\ Answered
    /\ Contiguous
    /\ Pursued

-----------------------------------------------------------------------------
(* Typed values and what a step makes of them.                             *)

LEMMA NothingTyped ==
    /\ NoRequest \in Requests /\ ~NoRequest.open /\ NoRequest.range = Full
    /\ NoRequest.asked = 0
    /\ NoPull \in [open : BOOLEAN, range : Ranges] /\ ~NoPull.open /\ NoPull.range = Full
    /\ Idle \in Cycle /\ Idle.pc = "idle" /\ Idle.pull = NoPull /\ Idle.rest = {}
    /\ Idle.incremental = FALSE
<1>1. Full \in Ranges /\ 0 \in 0..MaxPunches
  OBVIOUS
<1>2. NoRequest \in Requests /\ ~NoRequest.open /\ NoRequest.range = Full
      /\ NoRequest.asked = 0
  BY <1>1 DEF NoRequest, Requests
<1>3. NoPull \in [open : BOOLEAN, range : Ranges] /\ ~NoPull.open /\ NoPull.range = Full
  BY <1>1 DEF NoPull
<1> QED BY <1>2, <1>3 DEF Idle, Cycle

\* Whether the agent waits, and for one answer.
Waiting ==
    /\ agent.pc = "wait" => \E w \in wire : Awaited = {w}
    /\ agent.pc # "wait" => Awaited = {}

\* The part of TypeOK about the values, without what the agent waits for.
Typed ==
    /\ site \in Sites
    /\ log \in Seq(1..LastTime) /\ Len(log) <= MaxPunches
    /\ stored \subseteq 1..Len(log)
    /\ request \in Requests
    /\ agent \in Cycle
    /\ wire \subseteq Messages
    /\ requests \in 0..MaxRequests
    /\ faults \in 0..MaxFaults

LEMMA TypeParts == (TypeOK <=> Typed /\ Waiting) /\ (TypeOK' <=> Typed' /\ Waiting')
  BY DEF TypeOK, Typed, Waiting

\* A change of the agent alone, outside an exchange.
LEMMA AgentMoves ==
    ASSUME TypeOK, agent' \in Cycle, agent.pc # "wait", agent'.pc # "wait",
           faults' \in 0..MaxFaults,
           UNCHANGED <<site, log, stored, request, wire, requests>>
    PROVE  TypeOK'
  BY DEF TypeOK, Awaited

\* A message is sent by an agent that waited for none.
LEMMA MessageSent ==
    ASSUME TypeOK, agent.pc # "wait", NEW m \in Messages, m.awaited,
           wire' = wire \cup {m}, agent' = [agent EXCEPT !.pc = "wait"]
    PROVE  /\ Waiting'
           /\ wire' \subseteq Messages
           /\ agent' \in Cycle
           /\ agent'.pc = "wait" /\ agent'.rest = agent.rest /\ agent'.pull = agent.pull
           /\ agent'.incremental = agent.incremental
           /\ Awaited' = {m}
<1>1. Awaited = {}
  BY DEF TypeOK
<1>2. Awaited' = {m}
  BY <1>1 DEF Awaited
<1>3. agent \in Cycle
  BY DEF TypeOK
<1>4. /\ agent' \in Cycle
      /\ agent'.pc = "wait" /\ agent'.rest = agent.rest /\ agent'.pull = agent.pull
      /\ agent'.incremental = agent.incremental
  BY <1>3 DEF Cycle
<1>5. Waiting'
  BY <1>2, <1>4 DEF Waiting
<1>6. wire \subseteq Messages
  BY DEF TypeOK
<1> QED BY <1>2, <1>4, <1>5, <1>6

\* What Moved leaves of the exchanges: the others, and this one in its new state.
LEMMA MovedMessages ==
    ASSUME TypeOK, NEW w \in wire, NEW s \in {"imported", "done"}, wire' = Moved(w, s),
           agent' = agent
    PROVE  /\ wire' \subseteq Messages
           /\ Waiting'
           /\ \A m \in wire' : \E v \in wire :
                 /\ m.kind = v.kind /\ m.batch = v.batch /\ m.final = v.final
                 /\ m.incremental = v.incremental /\ m.awaited = v.awaited
                 /\ m.state = v.state \/ (v = w /\ m.state = s)
<1> DEFINE n == [w EXCEPT !.state = s]
<1>1. w \in Messages /\ wire \subseteq Messages
  BY DEF TypeOK
<1>2. /\ n \in Messages /\ n.kind = w.kind /\ n.batch = w.batch /\ n.final = w.final
      /\ n.incremental = w.incremental /\ n.awaited = w.awaited /\ n.state = s
  BY <1>1 DEF Messages
<1>3. wire' = (wire \ {w}) \cup (IF s = "done" /\ ~w.awaited THEN {} ELSE {n})
  BY DEF Moved
<1> HIDE DEF n
<1>4. \A m \in wire' : m \in wire \/ m = n
  BY <1>3
<1>5. wire' \subseteq Messages
  BY <1>1, <1>2, <1>4
<1>6. Waiting'
  <2>1. CASE w.awaited
    <3>1. Awaited = {w} /\ agent.pc = "wait"
      BY <2>1 DEF TypeOK, Awaited
    <3>2. Awaited' = {n}
      BY <1>2, <1>3, <2>1, <3>1 DEF Awaited
    <3> QED BY <1>3, <2>1, <3>1, <3>2 DEF Waiting
  <2>2. CASE ~w.awaited
    <3>1. Awaited' = Awaited
      BY <1>2, <1>3, <2>2 DEF Awaited
    <3>2. Awaited \subseteq wire'
      BY <1>3, <2>2 DEF Awaited
    <3> QED BY <3>1, <3>2 DEF TypeOK, Waiting
  <2> QED BY <2>1, <2>2
<1> QED BY <1>2, <1>4, <1>5, <1>6

\* A punch the watermark hides is stored, where the stored ones are a prefix.
LEMMA HiddenIsStored ==
    ASSUME Typed, Sorted, \A i \in stored : 1..i \subseteq stored,
           NEW i \in 1..Len(log), ~Fresh(i)
    PROVE  i \in stored
<1>1. PICK j \in stored : ~(log[i] + Buffer > log[j])
  BY DEF Fresh
<1>2. /\ j \in 1..Len(log)
      /\ log[i] \in Nat /\ log[j] \in Nat /\ Buffer \in Nat \ {0} /\ Len(log) \in Nat
  BY SMTT(30), <1>1 DEF Typed
<1>3. log[i] < log[j]
  BY <1>1, <1>2
<1>4. ~(j <= i)
  BY <1>2, <1>3 DEF Sorted
<1> QED BY <1>1, <1>2, <1>4

\* Nothing of a batch is missing once it is imported, where the watermark is
\* not used or hides only what is stored.
LEMMA BatchStored ==
    ASSUME IInv, NEW w \in wire, Ingest(w), Traceable
    PROVE  w.batch \subseteq stored'
<1>1. stored' = stored \cup {i \in w.batch : w.incremental => Fresh(i)}
  BY DEF Ingest
<1>2. CASE site.onRequest
  BY <1>1, <1>2 DEF IInv, SiteKept
<1>3. CASE ~site.ranges
  <2> SUFFICES ASSUME NEW i \in w.batch, ~Fresh(i) PROVE i \in stored
    BY <1>1
  <2>1. i \in 1..Len(log)
    BY DEF IInv, Known
  <2>2. Typed /\ Sorted /\ \A k \in stored : 1..k \subseteq stored
    BY <1>3, TypeParts DEF IInv, Contiguous
  <2> QED BY <2>1, <2>2, HiddenIsStored
<1> QED BY <1>2, <1>3 DEF Traceable

LEMMA InitInv == Init => IInv
<1> SUFFICES ASSUME Init PROVE IInv
  OBVIOUS
<1>1. TypeOK
  <2>1. Awaited = {} /\ agent.pc # "wait"
    BY NothingTyped DEF Init, Awaited
  <2> QED BY <2>1, NothingTyped DEF Init, TypeOK
<1>2. Sorted /\ Known /\ SiteKept /\ Answered /\ Contiguous /\ Pursued
  BY NothingTyped DEF Init, Sorted, Known, SiteKept, Answered, Contiguous, Pursued, Awaited
<1> QED BY <1>1, <1>2 DEF IInv

-----------------------------------------------------------------------------
(* Every step keeps the invariant.                                         *)

LEMMA PunchInv ==
    ASSUME IInv, NEW t \in 1..LastTime, Punch(t)
    PROVE  IInv'
<1> USE DEF IInv, Punch
<1>1. TypeOK'
  BY SMTT(30) DEF TypeOK, Sites, Requests, Cycle, Messages, Awaited, Punches, Full, NoRequest, NoPull, Idle
<1>2. Sorted'
  BY SMTT(30) DEF Sorted, TypeOK
<1>3. Known'
  BY <1>1 DEF TypeOK, Known, Awaited, Requests
<1>4. SiteKept'
  BY DEF SiteKept, TypeOK, Idle, NoPull, NoRequest, Listed, Cycle, Messages
<1>5. Answered'
  BY DEF Answered, TypeOK, Traceable, Awaited, Messages
<1>6. Contiguous'
  BY DEF Contiguous, TypeOK, Traceable, Idle, Cycle, Messages
<1>7. Pursued'
  <2>1. AskedFor(request)' = AskedFor(request)
    BY DEF TypeOK, Known, Requests, AskedFor, Within
  <2> QED BY <2>1 DEF Pursued, Traceable
<1> QED BY <1>1, <1>2, <1>3, <1>4, <1>5, <1>6, <1>7 DEF IInv

LEMMA QueuePullRequestInv ==
    ASSUME IInv, NEW r \in Ranges, QueuePullRequest(r)
    PROVE  IInv'
<1> USE DEF IInv, QueuePullRequest
<1>1. TypeOK'
  <2>1. request' \in Requests
    BY DEF TypeOK, Requests
  <2>2. requests' \in 0..MaxRequests
    BY DEF TypeOK
  <2> QED BY <2>1, <2>2 DEF TypeOK, Awaited
<1>2. Sorted'
  BY DEF Sorted, TypeOK
<1>3. Known'
  BY DEF Known, TypeOK, Awaited, Idle, NoRequest, Cycle, Messages
<1>4. SiteKept'
  BY DEF SiteKept, TypeOK, Idle, NoPull, NoRequest, Listed, Cycle, Messages
<1>5. Answered'
  BY DEF Answered, TypeOK, Traceable, Awaited, Messages
<1>6. Contiguous'
  BY DEF Contiguous, TypeOK, Traceable, Idle, Cycle, Messages
<1>7. Pursued'
  BY DEF Pursued, TypeOK, Traceable, AskedFor, Within, Idle, Cycle, Messages, Requests
<1> QED BY <1>1, <1>2, <1>3, <1>4, <1>5, <1>6, <1>7 DEF IInv

LEMMA StartCycleInv ==
    ASSUME IInv, StartCycle
    PROVE  IInv'
<1> USE DEF IInv, StartCycle, Listed
<1>1. TypeOK'
  BY DEF TypeOK, Sites, Requests, Cycle, Messages, Awaited, Punches, Full, NoRequest, NoPull, Idle
<1>2. Sorted'
  BY DEF Sorted, TypeOK
<1>3. Known'
  BY DEF Known, TypeOK, Awaited, Idle, NoRequest, Cycle, Messages
<1>4. SiteKept'
  BY DEF SiteKept, TypeOK, Idle, NoPull, NoRequest, Listed, Cycle, Messages
<1>5. Answered'
  BY DEF Answered, TypeOK, Traceable, Awaited, Messages
<1>6. Contiguous'
  BY DEF Contiguous, TypeOK, Traceable, Idle, Cycle, Messages
<1>7. Pursued'
  BY DEF Pursued, TypeOK, Traceable, AskedFor, Within, Idle, Cycle, Messages, Requests
<1> QED BY <1>1, <1>2, <1>3, <1>4, <1>5, <1>6, <1>7 DEF IInv

LEMMA StartBlindInv ==
    ASSUME IInv, StartBlind
    PROVE  IInv'
<1> USE DEF IInv, StartBlind
<1>1. TypeOK'
  <2>1. agent' \in Cycle /\ agent'.pc = "read"
    BY NothingTyped DEF Cycle
  <2>2. faults' \in 0..MaxFaults
    BY DEF TypeOK
  <2> QED BY <2>1, <2>2, AgentMoves
<1>2. Sorted'
  BY DEF Sorted, TypeOK
<1>3. Known'
  BY DEF Known, TypeOK, Awaited, Idle, NoRequest, Cycle, Messages
<1>4. SiteKept'
  BY DEF SiteKept, TypeOK, Idle, NoPull, NoRequest, Listed, Cycle, Messages
<1>5. Answered'
  BY DEF Answered, TypeOK, Traceable, Awaited, Messages
<1>6. Contiguous'
  BY DEF Contiguous, TypeOK, Traceable, Idle, Cycle, Messages
<1>7. Pursued'
  <2>1. agent'.pc = "read" /\ ~agent'.pull.open
    BY NothingTyped DEF Cycle
  <2> QED BY <2>1 DEF Pursued, Traceable, AskedFor, Within
<1> QED BY <1>1, <1>2, <1>3, <1>4, <1>5, <1>6, <1>7 DEF IInv

LEMMA ReadDeviceInv ==
    ASSUME IInv, ReadDevice
    PROVE  IInv'
<1> USE DEF IInv, ReadDevice
<1>1. TypeOK'
  <2>0. Len(log) \in Nat /\ 1..Len(log) \subseteq Punches
    BY DEF TypeOK, Punches
  <2>1. agent' \in Cycle /\ agent'.pc = "plan"
    BY <2>0 DEF TypeOK, Cycle
  <2> QED BY <2>1, AgentMoves DEF TypeOK
<1>2. Sorted'
  BY DEF Sorted, TypeOK
<1>3. Known'
  BY DEF Known, TypeOK, Awaited, Idle, NoRequest, Cycle, Messages
<1>4. SiteKept'
  BY DEF SiteKept, TypeOK, Idle, NoPull, NoRequest, Listed, Cycle, Messages
<1>5. Answered'
  BY DEF Answered, TypeOK, Traceable, Awaited, Messages
<1>6. Contiguous'
  BY DEF Contiguous, TypeOK, Traceable, Idle, Cycle, Messages
<1>7. Pursued'
  <2>1. agent'.pc = "plan" /\ agent'.pull = agent.pull /\ agent'.rest = 1..Len(log)
    BY DEF TypeOK, Cycle
  <2>2. 1..request.asked \subseteq 1..Len(log)
    BY DEF TypeOK, Known, Requests
  <2> QED BY <2>1, <2>2 DEF Pursued, Traceable, AskedFor, Within
<1> QED BY <1>1, <1>2, <1>3, <1>4, <1>5, <1>6, <1>7 DEF IInv

LEMMA PlanPullInv ==
    ASSUME IInv, PlanPull
    PROVE  IInv'
<1> USE DEF IInv, PlanPull
<1>1. TypeOK'
  BY DEF TypeOK, Sites, Requests, Cycle, Messages, Awaited, Punches, Full, NoRequest, NoPull, Idle
<1>2. Sorted'
  BY DEF Sorted, TypeOK
<1>3. Known'
  BY DEF Known, TypeOK, Awaited, Idle, NoRequest, Cycle, Messages
<1>4. SiteKept'
  BY DEF SiteKept, TypeOK, Idle, NoPull, NoRequest, Listed, Cycle, Messages
<1>5. Answered'
  BY DEF Answered, TypeOK, Traceable, Awaited, Messages
<1>6. Contiguous'
  <2> SUFFICES ASSUME ~site.ranges PROVE agent'.rest = agent.rest
    BY DEF Contiguous
  <2>1. \A i \in agent.rest : Within(i, agent.pull.range)
    <3>1. agent.pull.range = Full /\ agent.rest \subseteq 1..Len(log)
      BY DEF SiteKept, Known
    <3>2. \A i \in 1..Len(log) : log[i] \in 1..LastTime
      BY SMTT(30) DEF TypeOK
    <3> QED BY <3>1, <3>2 DEF Within, Full
  <2>2. agent'.rest = {i \in agent.rest : Within(i, agent.pull.range)}
    BY DEF TypeOK, Cycle
  <2> QED BY <2>1, <2>2
<1>7. Pursued'
  BY DEF Pursued, TypeOK, Traceable, AskedFor, Within, Idle, Cycle, Messages, Requests
<1> QED BY <1>1, <1>2, <1>3, <1>4, <1>5, <1>6, <1>7 DEF IInv

LEMMA PlanIncrementalInv ==
    ASSUME IInv, PlanIncremental
    PROVE  IInv'
<1> USE DEF IInv, PlanIncremental
<1>1. TypeOK'
  BY DEF TypeOK, Sites, Requests, Cycle, Messages, Awaited, Punches, Full, NoRequest, NoPull, Idle
<1>2. Sorted'
  BY DEF Sorted, TypeOK
<1>3. Known'
  BY DEF Known, TypeOK, Awaited, Idle, NoRequest, Cycle, Messages
<1>4. SiteKept'
  BY DEF SiteKept, TypeOK, Idle, NoPull, NoRequest, Listed, Cycle, Messages
<1>5. Answered'
  BY DEF Answered, TypeOK, Traceable, Awaited, Messages
<1>6. Contiguous'
  <2> SUFFICES ASSUME ~site.ranges
               PROVE  \A i \in agent'.rest : 1..i \subseteq stored \cup agent'.rest
    BY DEF Contiguous
  <2>1. agent'.rest = {i \in agent.rest : Fresh(i)}
    BY DEF TypeOK, Cycle
  <2>2. \A i \in agent.rest : Fresh(i) \/ i \in stored
    BY HiddenIsStored, TypeParts DEF Contiguous, Known
  <2>3. \A i \in agent.rest : 1..i \subseteq stored \cup agent.rest
    BY DEF Contiguous
  <2> QED BY <2>1, <2>2, <2>3
<1>7. Pursued'
  <2>1. /\ agent'.pc = "send" /\ agent'.pull = agent.pull
        /\ agent'.rest = {i \in agent.rest : Fresh(i)}
    BY DEF TypeOK, Cycle
  <2>2. ~site.onRequest
    BY DEF SiteKept
  <2>3. ASSUME ~site.ranges PROVE \A i \in agent.rest : Fresh(i) \/ i \in stored
    BY <2>3, HiddenIsStored, TypeParts DEF Contiguous, Known
  <2> QED BY <2>1, <2>2, <2>3 DEF Pursued, Traceable, AskedFor, Within
<1> QED BY <1>1, <1>2, <1>3, <1>4, <1>5, <1>6, <1>7 DEF IInv

LEMMA PlanBlindInv ==
    ASSUME IInv, PlanBlind
    PROVE  IInv'
<1> USE DEF IInv, PlanBlind
<1>1. TypeOK'
  <2>1. agent' \in Cycle /\ agent'.pc = "send"
    BY DEF TypeOK, Cycle
  <2>2. faults' \in 0..MaxFaults
    BY DEF TypeOK
  <2> QED BY <2>1, <2>2, AgentMoves
<1>2. Sorted'
  BY DEF Sorted, TypeOK
<1>3. Known'
  BY DEF Known, TypeOK, Awaited, Idle, NoRequest, Cycle, Messages
<1>4. SiteKept'
  BY DEF SiteKept, TypeOK, Idle, NoPull, NoRequest, Listed, Cycle, Messages
<1>5. Answered'
  BY DEF Answered, TypeOK, Traceable, Awaited, Messages
<1>6. Contiguous'
  BY DEF Contiguous, TypeOK, Traceable, Idle, Cycle, Messages
<1>7. Pursued'
  BY DEF Pursued, TypeOK, Traceable, AskedFor, Within, Idle, Cycle, Messages, Requests
<1> QED BY <1>1, <1>2, <1>3, <1>4, <1>5, <1>6, <1>7 DEF IInv

LEMMA UploadInv ==
    ASSUME IInv, NEW b \in SUBSET agent.rest, Upload(b)
    PROVE  IInv'
<1> USE DEF IInv, Upload, NextBatch, Final
<1> DEFINE m == [kind |-> "upload", batch |-> b, incremental |-> agent.incremental,
                final |-> Final(b), state |-> "sent", awaited |-> TRUE]
<1>0. m \in Messages
  <2>1. agent.incremental \in BOOLEAN /\ b \in SUBSET Punches /\ Final(b) \in BOOLEAN
    BY DEF TypeOK, Cycle
  <2> HIDE DEF IInv, Upload, NextBatch, Final
  <2> QED BY <2>1 DEF Messages
<1>m. /\ m.awaited /\ m.state = "sent" /\ m.kind = "upload" /\ m.batch = b
      /\ m.incremental = agent.incremental /\ m.final = (b = agent.rest)
      /\ wire' = wire \cup {m}
  OBVIOUS
<1> HIDE DEF m
<1>s. /\ Waiting' /\ wire' \subseteq Messages /\ agent' \in Cycle
      /\ agent'.pc = "wait" /\ agent'.rest = agent.rest /\ agent'.pull = agent.pull
      /\ agent'.incremental = agent.incremental
      /\ Awaited' = {m} /\ wire' = wire \cup {m}
  BY <1>0, <1>m, MessageSent
<1>1. TypeOK'
  BY <1>s, TypeParts DEF Typed, TypeOK
<1>2. Sorted'
  BY DEF Sorted, TypeOK
<1>3. Known'
  BY <1>s, <1>m DEF Known
<1>4. SiteKept'
  BY <1>s, <1>m DEF SiteKept
<1>5. Answered'
  BY <1>s, <1>m DEF Answered, Traceable
<1>6. Contiguous'
  <2> SUFFICES ASSUME ~site.ranges PROVE \A i \in b : 1..i \subseteq stored \cup b
    BY <1>s, <1>m DEF Contiguous
  <2> SUFFICES ASSUME NEW i \in b, NEW j \in 1..i PROVE j \in stored \cup b
    OBVIOUS
  <2>1. j \in stored \cup agent.rest
    BY DEF Contiguous
  <2>2. i \in Nat /\ j \in Nat /\ j <= i
    BY DEF Known
  <2>3. \A k \in agent.rest \ b : i < k
    BY DEF NextBatch
  <2> QED BY <2>1, <2>2, <2>3
<1>7. Pursued'
  <2>1. agent.pc = "send"
    OBVIOUS
  <2> QED BY <1>s, <1>m, <2>1 DEF Pursued, Traceable, AskedFor, Within
<1> QED BY <1>1, <1>2, <1>3, <1>4, <1>5, <1>6, <1>7 DEF IInv

LEMMA UploadNothingInv ==
    ASSUME IInv, UploadNothing
    PROVE  IInv'
<1> USE DEF IInv, UploadNothing, AfterUpload
<1>1. TypeOK'
  BY DEF TypeOK, Sites, Requests, Cycle, Messages, Awaited, Punches, Full, NoRequest, NoPull, Idle
<1>2. Sorted'
  BY DEF Sorted, TypeOK
<1>3. Known'
  BY DEF Known, TypeOK, Awaited, Idle, NoRequest, Cycle, Messages
<1>4. SiteKept'
  BY DEF SiteKept, TypeOK, Idle, NoPull, NoRequest, Listed, Cycle, Messages
<1>5. Answered'
  BY DEF Answered, TypeOK, Traceable, Awaited, Messages
<1>6. Contiguous'
  BY DEF Contiguous, TypeOK, Traceable, Idle, Cycle, Messages
<1>7. Pursued'
  BY DEF Pursued, TypeOK, Traceable, AskedFor, Within, Idle, Cycle, Messages, Requests
<1> QED BY <1>1, <1>2, <1>3, <1>4, <1>5, <1>6, <1>7 DEF IInv

LEMMA AckPullRequestInv ==
    ASSUME IInv, AckPullRequest
    PROVE  IInv'
<1> USE DEF IInv, AckPullRequest
<1> DEFINE m == [kind |-> "close", batch |-> {}, incremental |-> FALSE,
                final |-> FALSE, state |-> "sent", awaited |-> TRUE]
<1>0. m \in Messages
  <2> HIDE DEF IInv, AckPullRequest
  <2> QED BY DEF Messages
<1>m. /\ m.awaited /\ m.state = "sent" /\ m.kind = "close" /\ m.batch = {}
      /\ ~m.incremental /\ ~m.final
      /\ wire' = wire \cup {m}
  OBVIOUS
<1> HIDE DEF m
<1>s. /\ Waiting' /\ wire' \subseteq Messages /\ agent' \in Cycle
      /\ agent'.pc = "wait" /\ agent'.rest = agent.rest /\ agent'.pull = agent.pull
      /\ agent'.incremental = agent.incremental
      /\ Awaited' = {m} /\ wire' = wire \cup {m}
  BY <1>0, <1>m, MessageSent
<1>1. TypeOK'
  BY <1>s, TypeParts DEF Typed, TypeOK
<1>2. Sorted'
  BY DEF Sorted, TypeOK
<1>3. Known'
  BY <1>s, <1>m DEF Known
<1>4. SiteKept'
  BY <1>s, <1>m DEF SiteKept
<1>5. Answered'
  BY <1>s, <1>m DEF Answered, Traceable
<1>6. Contiguous'
  BY <1>s, <1>m DEF Contiguous
<1>7. Pursued'
  <2>1. agent.pc = "close" /\ agent.rest = {}
    BY DEF Known
  <2> QED BY <1>s, <1>m, <2>1 DEF Pursued, Traceable, AskedFor, Within
<1> QED BY <1>1, <1>2, <1>3, <1>4, <1>5, <1>6, <1>7 DEF IInv

LEMMA AnswerInv ==
    ASSUME IInv, NEW w \in wire, Answer(w)
    PROVE  IInv'
<1> USE DEF IInv, Answer, AfterUpload, Awaited
<1>1. TypeOK'
  BY DEF TypeOK, Sites, Requests, Cycle, Messages, Awaited, Punches, Full, NoRequest, NoPull, Idle
<1>2. Sorted'
  BY DEF Sorted, TypeOK
<1>3. Known'
  BY DEF Known, TypeOK, Awaited, Idle, NoRequest, Cycle, Messages
<1>4. SiteKept'
  BY DEF SiteKept, TypeOK, Idle, NoPull, NoRequest, Listed, Cycle, Messages
<1>5. Answered'
  BY DEF Answered, TypeOK, Traceable, Awaited, Messages
<1>6. Contiguous'
  <2> SUFFICES ASSUME ~site.ranges
               PROVE  \A i \in agent'.rest : 1..i \subseteq stored \cup agent'.rest
    BY DEF Contiguous
  <2>1. w.batch \subseteq stored
    BY DEF Answered, Traceable
  <2>2. agent'.rest \in {{}, agent.rest \ w.batch}
    BY NothingTyped DEF TypeOK, Cycle, AfterUpload
  <2>3. \A i \in agent.rest : 1..i \subseteq stored \cup agent.rest
    BY DEF Contiguous
  <2> QED BY <2>1, <2>2, <2>3
<1>7. Pursued'
  <2> SUFFICES ASSUME Traceable, request.open, request.calm PROVE Pursued'
    BY DEF Pursued, Traceable
  <2>1. agent.pc = "wait"
    BY DEF TypeOK, Awaited
  <2>2. w.batch \subseteq stored
    BY DEF Answered
  <2>3. AskedFor(request) \subseteq stored \cup agent.rest
    BY <2>1 DEF Pursued
  <2>4. CASE agent' = Idle
    BY <2>4, NothingTyped DEF Pursued, AskedFor, Within
  <2>5. CASE agent' # Idle
    <3>1. /\ agent'.pull = agent.pull /\ agent'.rest = agent.rest \ w.batch
          /\ agent'.pc \in {"send", "close"}
      BY <2>5 DEF TypeOK, Cycle, AfterUpload
    <3>2. AskedFor(request) \subseteq stored \cup agent'.rest
      BY <2>2, <2>3, <3>1
    <3> QED BY <2>1, <3>1, <3>2 DEF Pursued, AskedFor, Within
  <2> QED BY <2>4, <2>5
<1> QED BY <1>1, <1>2, <1>3, <1>4, <1>5, <1>6, <1>7 DEF IInv

LEMMA GiveUpInv ==
    ASSUME IInv, GiveUp
    PROVE  IInv'
<1> USE DEF IInv, GiveUp, Abandoned
<1>0. \A m \in wire' : \E v \in wire :
         /\ m \in Messages /\ ~m.awaited
         /\ m.kind = v.kind /\ m.batch = v.batch /\ m.final = v.final
         /\ m.incremental = v.incremental /\ m.state = v.state
  <2> SUFFICES ASSUME NEW m \in wire'
               PROVE  \E v \in wire :
                         /\ m \in Messages /\ ~m.awaited
                         /\ m.kind = v.kind /\ m.batch = v.batch /\ m.final = v.final
                         /\ m.incremental = v.incremental /\ m.state = v.state
    OBVIOUS
  <2>1. PICK v \in wire : m = [v EXCEPT !.awaited = FALSE]
    BY DEF Abandoned
  <2>2. v \in Messages
    BY DEF TypeOK
  <2> HIDE DEF IInv, GiveUp, Abandoned
  <2> QED BY <2>1, <2>2 DEF Messages
<1>a. Awaited' = {}
  BY <1>0 DEF Awaited
<1>1. TypeOK'
  <2>1. faults' \in 0..MaxFaults
    BY DEF TypeOK
  <2>2. wire' \subseteq Messages
    BY <1>0
  <2> QED BY <2>1, <2>2, <1>a, NothingTyped DEF TypeOK
<1>2. Sorted'
  BY DEF Sorted, TypeOK
<1>3. Known'
  BY <1>0, <1>a, NothingTyped DEF Known
<1>4. SiteKept'
  BY <1>0, NothingTyped DEF SiteKept
<1>5. Answered'
  BY <1>a DEF Answered, Traceable
<1>6. Contiguous'
  <2> SUFFICES ASSUME ~site.ranges, NEW m \in wire'
               PROVE  \A i \in m.batch : 1..i \subseteq stored \cup m.batch
    BY NothingTyped DEF Contiguous
  <2> QED BY <1>0 DEF Contiguous
<1>7. Pursued'
  <2> SUFFICES ASSUME Traceable, request.open, request.calm, NEW m \in wire'
               PROVE  /\ m.final => AskedFor(request) \subseteq stored \cup m.batch
                      /\ m.state = "imported" \/ m.kind = "close" =>
                            AskedFor(request) \subseteq stored
    BY NothingTyped DEF Pursued, Traceable, AskedFor, Within
  <2> QED BY <1>0 DEF Pursued
<1> QED BY <1>1, <1>2, <1>3, <1>4, <1>5, <1>6, <1>7 DEF IInv

LEMMA IngestInv ==
    ASSUME IInv, NEW w \in wire, Ingest(w)
    PROVE  IInv'
<1> USE DEF IInv, Ingest
<1>0. PICK s \in {"imported", "done"} : wire' = Moved(w, s) /\ (s = "imported" => w.final)
  OBVIOUS
<1>m. /\ wire' \subseteq Messages
      /\ Waiting'
      /\ \A m \in wire' : \E v \in wire :
            /\ m.kind = v.kind /\ m.batch = v.batch /\ m.final = v.final
            /\ m.incremental = v.incremental /\ m.awaited = v.awaited
            /\ m.state = v.state \/ (v = w /\ m.state = s)
  BY <1>0, MovedMessages
<1>1. TypeOK'
  <2>1. stored' \subseteq 1..Len(log)
    BY DEF TypeOK, Known
  <2> QED BY <1>m, <2>1, TypeParts DEF Typed, TypeOK
<1>2. Sorted'
  BY DEF Sorted, TypeOK
<1>3. Known'
  BY <1>m, NothingTyped DEF Known, Awaited, TypeOK
<1>4. SiteKept'
  BY <1>m, NothingTyped DEF SiteKept
<1>5. Answered'
  <2> SUFFICES ASSUME Traceable, NEW m \in wire', m.awaited, m.state # "sent"
               PROVE  m.batch \subseteq stored'
    BY DEF Answered, Traceable, Awaited
  <2> QED BY <1>m, BatchStored DEF Answered, Awaited
<1>6. Contiguous'
  <2> SUFFICES ASSUME ~site.ranges PROVE Contiguous'
    BY DEF Contiguous
  <2>1. w.batch \subseteq stored' /\ stored \subseteq stored'
    BY BatchStored DEF Traceable
  <2>2. \A i \in stored' : i \in stored \/ i \in w.batch
    OBVIOUS
  <2>3. \A i \in stored' : 1..i \subseteq stored'
    BY <2>1, <2>2 DEF Contiguous
  <2>4. \A m \in wire' : \A i \in m.batch : 1..i \subseteq stored' \cup m.batch
    BY <1>m, <2>1 DEF Contiguous
  <2> QED BY <2>1, <2>3, <2>4 DEF Contiguous
<1>7. Pursued'
  <2> SUFFICES ASSUME Traceable, request.open, request.calm PROVE Pursued'
    BY DEF Pursued, Traceable
  <2>1. w.batch \subseteq stored' /\ stored \subseteq stored'
    BY BatchStored
  <2>2. AskedFor(request)' = AskedFor(request)
    BY DEF AskedFor, Within
  <2>3. w.final => AskedFor(request) \subseteq stored'
    BY <2>1 DEF Pursued
  <2>4. ASSUME NEW m \in wire'
        PROVE  /\ m.final => AskedFor(request) \subseteq stored' \cup m.batch
               /\ m.state = "imported" \/ m.kind = "close" =>
                     AskedFor(request) \subseteq stored'
    <3>1. PICK v \in wire :
            /\ m.kind = v.kind /\ m.batch = v.batch /\ m.final = v.final
            /\ m.state = v.state \/ (v = w /\ m.state = s)
      BY <1>m
    <3> QED BY <1>0, <2>1, <2>3, <3>1 DEF Pursued
  <2> QED BY <2>1, <2>2, <2>4 DEF Pursued
<1> QED BY <1>1, <1>2, <1>3, <1>4, <1>5, <1>6, <1>7 DEF IInv

LEMMA AcknowledgeAfterIngestInv ==
    ASSUME IInv, NEW w \in wire, AcknowledgeAfterIngest(w)
    PROVE  IInv'
<1> USE DEF IInv, AcknowledgeAfterIngest
<1>0. PICK s \in {"imported", "done"} : wire' = Moved(w, s) /\ (s = "done")
  OBVIOUS
<1>m. /\ wire' \subseteq Messages
      /\ Waiting'
      /\ \A m \in wire' : \E v \in wire :
            /\ m.kind = v.kind /\ m.batch = v.batch /\ m.final = v.final
            /\ m.incremental = v.incremental /\ m.awaited = v.awaited
            /\ m.state = v.state \/ (v = w /\ m.state = s)
  BY <1>0, MovedMessages
<1>1. TypeOK'
  BY <1>m, NothingTyped, TypeParts DEF Typed, TypeOK
<1>2. Sorted'
  BY DEF Sorted, TypeOK
<1>3. Known'
  BY <1>m, NothingTyped DEF Known, Awaited, TypeOK
<1>4. SiteKept'
  BY <1>m, NothingTyped DEF SiteKept
<1>5. Answered'
  BY <1>m DEF Answered, Traceable, Awaited
<1>6. Contiguous'
  BY <1>m DEF Contiguous
<1>7. Pursued'
  BY NothingTyped DEF Pursued
<1> QED BY <1>1, <1>2, <1>3, <1>4, <1>5, <1>6, <1>7 DEF IInv

LEMMA AcknowledgeInv ==
    ASSUME IInv, NEW w \in wire, Acknowledge(w)
    PROVE  IInv'
<1> USE DEF IInv, Acknowledge
<1>0. PICK s \in {"imported", "done"} : wire' = Moved(w, s) /\ (s = "done")
  OBVIOUS
<1>m. /\ wire' \subseteq Messages
      /\ Waiting'
      /\ \A m \in wire' : \E v \in wire :
            /\ m.kind = v.kind /\ m.batch = v.batch /\ m.final = v.final
            /\ m.incremental = v.incremental /\ m.awaited = v.awaited
            /\ m.state = v.state \/ (v = w /\ m.state = s)
  BY <1>0, MovedMessages
<1>1. TypeOK'
  BY <1>m, NothingTyped, TypeParts DEF Typed, TypeOK
<1>2. Sorted'
  BY DEF Sorted, TypeOK
<1>3. Known'
  <2>1. \A m \in Awaited' : m.kind = "close" => agent.rest = {}
    BY <1>m DEF Known, Awaited
  <2> QED BY <1>m, <2>1, NothingTyped DEF Known, TypeOK
<1>4. SiteKept'
  BY <1>m, NothingTyped DEF SiteKept
<1>5. Answered'
  <2>1. w.batch = {}
    BY DEF Known
  <2> QED BY <1>m, <2>1 DEF Answered, Traceable, Awaited
<1>6. Contiguous'
  BY <1>m DEF Contiguous
<1>7. Pursued'
  BY NothingTyped DEF Pursued
<1> QED BY <1>1, <1>2, <1>3, <1>4, <1>5, <1>6, <1>7 DEF IInv

LEMMA LoseInv ==
    ASSUME IInv, NEW w \in wire, Lose(w)
    PROVE  IInv'
<1> USE DEF IInv, Lose, Awaited
<1>1. TypeOK'
  BY DEF TypeOK, Sites, Requests, Cycle, Messages, Awaited, Punches, Full, NoRequest, NoPull, Idle
<1>2. Sorted'
  BY DEF Sorted, TypeOK
<1>3. Known'
  BY DEF Known, TypeOK, Awaited, Idle, NoRequest, Cycle, Messages
<1>4. SiteKept'
  BY DEF SiteKept, TypeOK, Idle, NoPull, NoRequest, Listed, Cycle, Messages
<1>5. Answered'
  BY DEF Answered, TypeOK, Traceable, Awaited, Messages
<1>6. Contiguous'
  BY DEF Contiguous, TypeOK, Traceable, Idle, Cycle, Messages
<1>7. Pursued'
  BY DEF Pursued, TypeOK, Traceable, AskedFor, Within, Idle, Cycle, Messages, Requests
<1> QED BY <1>1, <1>2, <1>3, <1>4, <1>5, <1>6, <1>7 DEF IInv

LEMMA StepInv == IInv /\ [Next]_vars => IInv'
<1> SUFFICES ASSUME IInv, [Next]_vars PROVE IInv'
  OBVIOUS
<1>1. CASE UNCHANGED vars
  BY <1>1 DEF vars, IInv, TypeOK, Sorted, Known, SiteKept, Answered, Contiguous, Pursued,
     Traceable, Awaited, AskedFor, Within
<1>2. CASE AgentStep
  BY <1>2, StartCycleInv, ReadDeviceInv, PlanPullInv, PlanIncrementalInv, UploadInv,
     UploadNothingInv, AckPullRequestInv, AnswerInv DEF AgentStep
<1>3. CASE Fault
  BY <1>3, StartBlindInv, PlanBlindInv, GiveUpInv, LoseInv DEF Fault
<1>4. ASSUME NEW w \in wire, Handle(w) PROVE IInv'
  BY <1>4, IngestInv, AcknowledgeAfterIngestInv, AcknowledgeInv DEF Handle
<1> QED BY <1>1, <1>2, <1>3, <1>4, PunchInv, QueuePullRequestInv DEF Next

-----------------------------------------------------------------------------
(* The theorems.                                                           *)

\* The inductive invariant: types, the order of the log, and what is under way
\* between the device, the agent and the server.
THEOREM Invariance == Spec => []IInv
  BY InitInv, StepInv, PTL DEF Spec

\* Every variable has its type, and the agent waits for one answer at most.
THEOREM TypeCorrect == Spec => []TypeOK
<1>1. IInv => TypeOK
  BY DEF IInv
<1> QED BY <1>1, Invariance, PTL

\* Without ranges of dates the server holds a prefix of the device's log,
\* whatever was abandoned, repeated or delivered late.
THEOREM NoGaps == Spec => []GapFree
<1>1. IInv => GapFree
  BY DEF IInv, Contiguous, GapFree
<1> QED BY <1>1, Invariance, PTL

\* A request that is closed was executed, if it was made when nothing of an
\* earlier one was under way and automatic cycles cannot close a range.
THEOREM ClosedIsExecuted == Spec => RequestExecuted
<1>1. IInv /\ [Next]_vars =>
        [request.calm /\ (site.onRequest \/ ~site.ranges) => Executed]_vars
  <2> SUFFICES ASSUME IInv, Next, request.calm, Traceable, request.open, ~request'.open
               PROVE  AskedFor(request) \subseteq stored'
    BY DEF Executed, Traceable
  <2>1. ASSUME NEW w \in wire, AcknowledgeAfterIngest(w)
        PROVE  AskedFor(request) \subseteq stored'
    BY <2>1 DEF AcknowledgeAfterIngest, IInv, Pursued
  <2>2. ASSUME NEW w \in wire, Acknowledge(w)
        PROVE  AskedFor(request) \subseteq stored'
    BY <2>2 DEF Acknowledge, IInv, Pursued
  <2>3. \A w \in wire : ~Ingest(w) /\ ~Answer(w) /\ ~Lose(w)
    BY DEF Ingest, Answer, Lose
  <2>4. ~StartBlind /\ ~PlanBlind /\ ~GiveUp
    BY DEF StartBlind, PlanBlind, GiveUp
  <2>5. ~AgentStep
    BY <2>3 DEF AgentStep, StartCycle, ReadDevice, PlanPull, PlanIncremental, Upload,
       UploadNothing, AckPullRequest
  <2>6. ~(\E t \in 1..LastTime : Punch(t)) /\ ~(\E r \in Ranges : QueuePullRequest(r))
    BY DEF Punch, QueuePullRequest
  <2> QED BY <2>1, <2>2, <2>3, <2>4, <2>5, <2>6 DEF Next, Fault, Handle
<1> QED BY <1>1, Invariance, PTL DEF Spec, RequestExecuted

\* The bridge implements PunchReplica: every step logs a punch, stores some, or
\* changes nothing of the two.
THEOREM BridgeImplementsReplica == Spec => ImplementsReplica
<1>1. Init => Replica!Init
  BY DEF Init, Replica!Init, Sites
<1>2. IInv /\ IInv' /\ [Next]_vars =>
        [Replica!Punch \/ Replica!Receive]_<<~site.ranges, log, stored>>
  <2> SUFFICES ASSUME IInv, IInv', Next,
                      ~(UNCHANGED <<~site.ranges, log, stored>>)
               PROVE  Replica!Punch \/ Replica!Receive
    BY DEF vars
  <2>1. ASSUME NEW t \in 1..LastTime, Punch(t) PROVE Replica!Punch
    <3>1. log \in Seq(1..LastTime) /\ log' = Append(log, t)
      BY <2>1 DEF Punch, IInv, TypeOK
    <3>2. Len(log') = Len(log) + 1 /\ \A i \in 1..Len(log) : log'[i] = log[i]
      BY <3>1
    <3> QED BY <2>1, <3>2 DEF Punch, Replica!Punch
  <2>2. ASSUME NEW w \in wire, Ingest(w) PROVE Replica!Receive
    <3>1. stored' \subseteq 1..Len(log) /\ stored \subseteq stored'
      BY <2>2 DEF Ingest, IInv, TypeOK
    <3>2. ~site.ranges => \A i \in stored' : 1..i \subseteq stored'
      BY <2>2 DEF Ingest, IInv, Contiguous
    <3> QED BY <2>2, <3>1, <3>2 DEF Ingest, Replica!Receive
  <2>3. ASSUME NEW r \in Ranges, QueuePullRequest(r) PROVE FALSE
    BY <2>3 DEF QueuePullRequest
  <2>4. ~Fault
    BY DEF Fault, StartBlind, PlanBlind, GiveUp, Lose
  <2>5. ~AgentStep
    BY DEF AgentStep, StartCycle, ReadDevice, PlanPull, PlanIncremental, Upload,
       UploadNothing, AckPullRequest, Answer
  <2>6. ASSUME NEW w \in wire, AcknowledgeAfterIngest(w) \/ Acknowledge(w) PROVE FALSE
    BY <2>6 DEF AcknowledgeAfterIngest, Acknowledge
  <2> QED BY <2>1, <2>2, <2>3, <2>4, <2>5, <2>6 DEF Next, Handle
<1> QED BY <1>1, <1>2, Invariance, PTL DEF Spec, ImplementsReplica, Replica!Spec

=============================================================================
