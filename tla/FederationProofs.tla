--------------------------- MODULE FederationProofs ---------------------------
(***************************************************************************)
(* Theorems about one federated Dispatch, for every protocol version, page *)
(* size, quota and bound.                                                  *)
(*                                                                         *)
(* The inductive invariant has a part for each place the truth is kept:    *)
(* the rows of the home, the attachment, the queue against the mailbox,    *)
(* the sync and the acknowledgements under way, and the verdicts these     *)
(* carry.                                                                  *)
(***************************************************************************)
EXTENDS Federation, FiniteSetTheorems, WellFoundedInduction, TLAPS

MessageKinds == {"status", "heartbeat", "question", "worker_done"}
SyncPhases == {"idle", "probing", "pulling", "paged", "importing", "acking", "acked",
               "pushing", "mailed", "pushed"}
HomeRecord == [task : TaskStatuses \cup {"absent"}, dispatch : DispatchStatuses \cup {"absent"},
               worker : WorkerStates \cup {"none"}]
SyncRecord ==
    [phase : SyncPhases, pages : 0 .. MAX_PAGES, imported : 0 .. MaxSequence,
     acked : 0 .. MaxSequence, peerEpoch : 0 .. MaxRemoteEpoch, capability : Capability,
     page : Seq(Pulled), epoch : 0 .. MaxRemoteEpoch, next : Nat, cursor : 0 .. MaxSequence,
     verdicts : SUBSET Verdict, barrier : 0 .. MaxSequence, through : Nat]
ShowRecord ==
    [phase : {"idle", "asked", "answered"},
     fence : {<< >>} \cup (HomeRecord \X (0 .. MaxEpoch) \X (0 .. MaxRemoteEpoch)),
     state : Attachments, stage : {"none", "worker_report_queued", "worker_report_settled"},
     epoch : 0 .. MaxRemoteEpoch]

\* TypeOK table by table, with the two records it only looks into.
HomeTyped ==
    home \in HomeRecord /\ workerEpoch \in 0 .. MaxEpoch /\ epoch \in 0 .. MaxEpoch /\ asking \in BOOLEAN
RelayTyped ==
    /\ mailbox \subseteq (1 .. MaxSequence) \X MessageKinds
    /\ imported \in 0 .. MaxSequence /\ acked \in 0 .. MaxSequence /\ peerEpoch \in 0 .. MaxRemoteEpoch
MailTyped == outbox \in 0 .. MaxMail /\ outboxAcked \in 0 .. MaxMail /\ delivered \in 0 .. MaxMail
SyncTyped ==
    /\ sync \in SyncRecord /\ Len(sync.page) <= PAGE_SIZE
    /\ sync.phase = "idle" <=> sync.pages = 0
    /\ sync.phase \in {"acking", "acked"} => sync.through <= MaxSequence
    /\ sync.phase \notin {"acking", "acked"} => sync.through <= MaxMail
MemoryTyped ==
    /\ wanted \in BOOLEAN /\ polled \in BOOLEAN /\ peer \in Capability
    /\ checkpoint \in [epoch : 0 .. MaxRemoteEpoch, through : 0 .. MaxSequence]
CallsTyped ==
    /\ startCall \in Answers /\ attach \in {"none", "requested", "running"}
    /\ stopCall \in Answers /\ stops \in 0 .. MaxStops
    /\ stopNet \subseteq 1 .. MaxStops /\ stopRun \in 0 .. MaxStops
ShowTyped == show \in ShowRecord /\ shows \in 0 .. MaxShows
RemoteTyped ==
    /\ attachment \in Attachments /\ capability \in BOOLEAN /\ advertises \in BOOLEAN
    /\ stage \in {"none", "worker_report_queued", "worker_report_settled"}
    /\ remoteEpoch \in 1 .. MaxRemoteEpoch
QueueTyped ==
    /\ items \in Seq(Item) /\ Len(items) <= MaxSequence
    /\ lateAcks \subseteq Ack /\ receipts \subseteq Ack
WorkerTyped ==
    /\ waiting \in 0 .. MaxSequence
    /\ told \in [sequence : 0 .. MaxSequence, action : Verdicts \cup {"nothing", "unknown"}]

Typed ==
    /\ HomeTyped /\ RelayTyped /\ MailTyped /\ SyncTyped /\ MemoryTyped /\ CallsTyped /\ ShowTyped
    /\ RemoteTyped /\ QueueTyped /\ WorkerTyped /\ faults \in 0 .. MaxFaults

\* A row of the home that has settled says how, and nothing else moves it: a
\* stopped worker leaves a failed task only where the host told of the stop.
HomeInv ==
    /\ home.worker = "none" <=> home.dispatch = "absent"
    /\ home.worker = "none" => home.task \in {"absent", "ready"}
    /\ home.worker \in WorkerUnsettled <=> Active
    /\ Active => home.task \in {"dispatched", "blocked"}
    /\ home.dispatch = "completed" => home.worker = "succeeded"
    /\ home.dispatch = "failed" /\ home.task = "failed"
          => \/ home.worker = "failed"
             \/ home.worker = "stopped" /\ attachment = "stopped"

\* What has been said of the attachment stays true of it.
RemoteInv ==
    /\ home.worker = "none" => attach = "none" /\ attachment = "none"
    /\ attach = "requested" => attachment = "none"
    /\ stopRun # 0 => attachment = "stopping"
    /\ show.state = "stopped" => attachment = "stopped"

EpochInv ==
    /\ peerEpoch <= remoteEpoch
    /\ sync.epoch <= remoteEpoch /\ show.epoch <= remoteEpoch
    /\ show.phase = "asked" => show.fence # << >> /\ show.fence[3] <= remoteEpoch
    /\ show.phase = "answered" => show.fence # << >> /\ show.fence[3] <= show.epoch

\* The queue is acknowledged from its front, and no further than it was imported.
QueueInv ==
    /\ imported <= Len(items)
    /\ \A n \in DOMAIN items :
          /\ items[n].acked => n <= imported /\ \A m \in 1 .. n : items[m].acked
          /\ items[n].kind = "worker_done" <=> items[n].outcome # "none"

\* The home numbers what it stores as the queue does.  Only a report that took
\* the place of a heartbeat may be missing, and then it is not acknowledged.
Stored(n) == <<n, items[n].kind>> \in mailbox
Replaced(n) ==
    SettlesAtHome /\ items[n].kind = "worker_done" /\ <<n, "heartbeat">> \in mailbox /\ ~items[n].acked
MailboxInv == \A n \in 1 .. imported : Stored(n) \/ Replaced(n)

\* What a page said of an item is what the queue holds, unless a report has taken
\* the place of that heartbeat.
SameItem(p) ==
    \/ items[p.sequence].kind = p.kind
    \/ p.kind = "heartbeat" /\ items[p.sequence].kind = "worker_done"

PageInv ==
    /\ \A i \in 1 .. Len(sync.page) :
          /\ sync.page[i].sequence <= Len(items) /\ SameItem(sync.page[i])
          /\ sync.page[i].kind = "worker_done" <=> sync.page[i].outcome # "none"
    /\ sync.page # << >> => sync.page[1].sequence <= imported + 1
    /\ sync.phase = "importing" => sync.next \in 1 .. Len(sync.page) + 1

\* How far the sync, the acknowledgements under way and the watermark reach.
SyncInv ==
    /\ sync.imported <= imported
    /\ sync.cursor <= imported
    /\ sync.barrier <= sync.cursor
    /\ sync.phase \in {"idle", "probing", "pulling", "paged"} => sync.barrier = 0
    /\ sync.phase \in {"acking", "acked"} => sync.through \in 1 .. sync.cursor
    /\ sync.phase = "acked" => \A n \in 1 .. sync.through : items[n].acked
    /\ \A ack \in lateAcks : ack.through <= imported
    /\ \A ack \in receipts : ack.through <= imported /\ \A n \in 1 .. ack.through : items[n].acked

\* A verdict under way is about a report the home stored, and true of its rows.
\* A worker that was stopped before its report came home cannot be told any more.
VerdictTrue(action) ==
    \/ home.worker = action
    \/ home.worker = "stopped" /\ attachment = "stopped"
GoodVerdict(v) ==
    /\ v.sequence <= imported
    /\ items[v.sequence].kind = "worker_done" /\ <<v.sequence, "worker_done">> \in mailbox
    /\ v.action \in Outcomes => VerdictTrue(v.action)
TruthInv ==
    /\ stage = "worker_report_settled" => attachment \in Outcomes
    /\ VerdictComesFromHome /\ WorkerIsToldTheTruth
VerdictInv ==
    /\ \A v \in sync.verdicts : GoodVerdict(v)
    /\ \A ack \in lateAcks : \A v \in ack.verdicts : GoodVerdict(v)
    /\ TruthInv

IInv ==
    /\ Typed /\ HomeInv /\ RemoteInv /\ EpochInv
    /\ QueueInv /\ PageInv /\ SyncInv /\ WatermarkIsCovered /\ VerdictInv

-----------------------------------------------------------------------------
(***************************************************************************)
(* The rows and the memory hold what their columns admit.                  *)
(***************************************************************************)
LEMMA Words ==
    /\ {"ready", "dispatched", "blocked", "failed", "completed"} \subseteq TaskStatuses
    /\ {"pending", "dispatched", "completed", "failed"} \subseteq DispatchStatuses
    /\ {"starting", "start_unknown", "ready", "stopping", "stop_unknown",
        "succeeded", "failed", "stopped", "abandoned"} \subseteq WorkerStates
BY DEF TaskStatuses, TaskTerminal, DispatchStatuses, DispatchActive, DispatchSettled,
       WorkerStates, WorkerSettled, WorkerUnsettled

LEMMA HomeWrites ==
    ASSUME home \in HomeRecord
    PROVE  /\ StopSettled \in HomeRecord /\ Resumed \in HomeRecord
           /\ \A s \in {"ready", "start_unknown", "failed", "stopped"} : StartSettled(s) \in HomeRecord
           /\ \A o \in Outcomes : Reported(o) \in HomeRecord
           /\ [home EXCEPT !.task = "ready"] \in HomeRecord
           /\ [home EXCEPT !.worker = "stop_unknown"] \in HomeRecord
           /\ [home EXCEPT !.worker = "stopping", !.task = Interrupted(@)] \in HomeRecord
           /\ [task |-> "dispatched", dispatch |-> "pending", worker |-> "starting"] \in HomeRecord
           /\ [task |-> Interrupted(home.task), dispatch |-> DispatchFailed, worker |-> "abandoned"]
                 \in HomeRecord
BY Words DEF HomeRecord, StopSettled, Resumed, StartSettled, Reported, Interrupted, DispatchFailed,
             Active, Outcomes, StatusOf

LEMMA TypedIsTypeOK == Typed => TypeOK
<1> SUFFICES ASSUME Typed PROVE TypeOK
  OBVIOUS
<1>1. /\ sync.phase \in SyncPhases
      /\ sync.capability \in Capability
      /\ sync.page \in Seq(Pulled)
      /\ sync.verdicts \subseteq Verdict
      /\ sync.pages \in 0 .. MAX_PAGES
      /\ sync.epoch \in 0 .. MaxRemoteEpoch
      /\ sync.cursor \in 0 .. MaxSequence /\ sync.barrier \in 0 .. MaxSequence
      /\ sync.through \in Nat
      /\ show.phase \in {"idle", "asked", "answered"}
  BY DEF Typed, SyncTyped, ShowTyped, SyncRecord, ShowRecord
<1>2. sync.pages \in IF sync.phase = "idle" THEN {0} ELSE 1 .. MAX_PAGES
  BY <1>1, PageAssumption DEF Typed, SyncTyped
<1>3. sync.through \in 0 .. IF sync.phase \in {"acking", "acked"} THEN MaxSequence ELSE MaxMail
  BY <1>1, BoundAssumption DEF Typed, SyncTyped
<1> QED
  BY <1>1, <1>2, <1>3
     DEF Typed, TypeOK, HomeTyped, RelayTyped, MailTyped, SyncTyped, MemoryTyped, CallsTyped, ShowTyped,
         RemoteTyped, QueueTyped, WorkerTyped, HomeRecord, MessageKinds, SyncPhases

\* What a step leaves alone keeps its type.
LEMMA HomeKept == HomeTyped /\ UNCHANGED <<homeRows, epoch>> => HomeTyped'
BY DEF HomeTyped, homeRows
LEMMA RelayKept == RelayTyped /\ UNCHANGED relayRows => RelayTyped'
BY DEF RelayTyped, relayRows
LEMMA MailKept == MailTyped /\ UNCHANGED mailRows => MailTyped'
BY DEF MailTyped, mailRows
LEMMA SyncKept == SyncTyped /\ UNCHANGED sync => SyncTyped'
BY DEF SyncTyped
LEMMA CallsKept == CallsTyped /\ UNCHANGED <<startState, stopState>> => CallsTyped'
BY DEF CallsTyped, startState, stopState
LEMMA ShowKept == ShowTyped /\ UNCHANGED showState => ShowTyped'
BY DEF ShowTyped, showState
LEMMA RemoteKept == RemoteTyped /\ UNCHANGED <<remoteRow, advertises, remoteEpoch>> => RemoteTyped'
BY DEF RemoteTyped, remoteRow
LEMMA QueueKept == QueueTyped /\ UNCHANGED <<queue, lateAcks>> => QueueTyped'
BY DEF QueueTyped, queue
LEMMA WorkerKept == WorkerTyped /\ UNCHANGED worker => WorkerTyped'
BY DEF WorkerTyped, worker

LEMMA MemoryKept ==
    MemoryTyped /\ UNCHANGED <<checkpoint, peer>> /\ wanted' \in BOOLEAN /\ polled' \in BOOLEAN
        => MemoryTyped'
BY DEF MemoryTyped

LEMMA HomeStepTypes ==
    ASSUME Typed, HomeStep
    PROVE  Typed'
<1> USE HomeKept, RelayKept, MailKept, SyncKept, MemoryKept, CallsKept, ShowKept, RemoteKept, QueueKept,
        WorkerKept, HomeWrites
    DEF Typed, epochs, syncMemory, startState, homeRows, showState, relayRows, stopState, mailRows
<1>w. wanted \in BOOLEAN /\ polled \in BOOLEAN
  BY DEF MemoryTyped
<1>1. CASE CreateTask
  <2>1. HomeTyped'
    BY <1>1 DEF CreateTask, HomeTyped
  <2> QED BY <1>1, <1>w, <2>1 DEF CreateTask
<1>2. CASE StartWorker
  <2>1. HomeTyped'
    BY <1>2 DEF StartWorker, HomeTyped
  <2>2. CallsTyped'
    BY <1>2 DEF StartWorker, CallsTyped, Answers
  <2> QED BY <1>2, <1>w, <2>1, <2>2 DEF StartWorker
<1>3. CASE StartAnswered
  <2>1. HomeTyped'
    BY <1>3 DEF StartAnswered, HomeTyped
  <2>2. CallsTyped'
    BY <1>3 DEF StartAnswered, CallsTyped, Answers
  <2>3. RelayTyped'
    BY <1>3, BoundAssumption DEF StartAnswered, RelayTyped, RemoteTyped
  <2>4. polled' \in BOOLEAN
    BY <1>3, <1>w DEF StartAnswered
  <2> QED BY <1>3, <1>w, <2>1, <2>2, <2>3, <2>4 DEF StartAnswered
<1>4. CASE StartGivesUp
  <2>1. HomeTyped'
    BY <1>4 DEF StartGivesUp, HomeTyped
  <2>2. CallsTyped'
    BY <1>4 DEF StartGivesUp, CallsTyped, Answers
  <2>3. faults' \in 0 .. MaxFaults
    BY <1>4, BoundAssumption DEF StartGivesUp
  <2> QED BY <1>4, <1>w, <2>1, <2>2, <2>3 DEF StartGivesUp
<1>5. CASE BeginWorkerStop
  <2>1. HomeTyped'
    BY <1>5 DEF BeginWorkerStop, HomeTyped
  <2>2. CallsTyped'
    BY <1>5, BoundAssumption DEF BeginWorkerStop, CallsTyped, Answers
  <2> QED BY <1>5, <1>w, <2>1, <2>2 DEF BeginWorkerStop
<1>6. CASE StopAnswered
  <2>1. HomeTyped'
    BY <1>6 DEF StopAnswered, HomeTyped
  <2>2. CallsTyped'
    BY <1>6 DEF StopAnswered, CallsTyped, Answers
  <2>3. wanted' \in BOOLEAN
    BY <1>6, <1>w DEF StopAnswered
  <2> QED BY <1>6, <1>w, <2>1, <2>2, <2>3 DEF StopAnswered
<1>7. CASE StopGivesUp
  <2>1. HomeTyped'
    BY <1>7 DEF StopGivesUp, HomeTyped
  <2>2. CallsTyped'
    BY <1>7 DEF StopGivesUp, CallsTyped, Answers
  <2>3. faults' \in 0 .. MaxFaults
    BY <1>7, BoundAssumption DEF StopGivesUp
  <2> QED BY <1>7, <1>w, <2>1, <2>2, <2>3 DEF StopGivesUp
<1>8. CASE AbandonWorkerDispatch
  <2>1. HomeTyped'
    BY <1>8 DEF AbandonWorkerDispatch, HomeTyped
  <2> QED BY <1>8, <1>w, <2>1 DEF AbandonWorkerDispatch
<1>9. CASE BeginShow
  <2>1. ShowTyped'
    <3>1. Fence \in HomeRecord \X (0 .. MaxEpoch) \X (0 .. MaxRemoteEpoch)
      BY DEF Fence, HomeTyped, RelayTyped
    <3>2. show' = [phase |-> "asked", fence |-> Fence, state |-> "none", stage |-> "none", epoch |-> 0]
      BY <1>9 DEF BeginShow, NotShowing
    <3>3. 0 \in 0 .. MaxRemoteEpoch /\ "none" \in Attachments
      BY BoundAssumption DEF Attachments
    <3>4. show' \in ShowRecord
      BY <3>1, <3>2, <3>3 DEF ShowRecord
    <3> QED BY <1>9, <3>4, BoundAssumption DEF BeginShow, ShowTyped
  <2>2. polled' \in BOOLEAN
    BY <1>9, <1>w DEF BeginShow, EnsureRelay
  <2> QED BY <1>9, <1>w, <2>1, <2>2 DEF BeginShow
<1>10. CASE ProjectShow
  <2>1. show \in ShowRecord /\ show.epoch \in 0 .. MaxRemoteEpoch
    BY DEF ShowTyped, ShowRecord
  <2>2. ShowTyped'
    BY <1>10, BoundAssumption DEF ProjectShow, ShowTyped, ShowRecord, NotShowing, Attachments
  <2>3. HomeTyped'
    BY <1>10 DEF ProjectShow, HomeTyped
  <2>4. RelayTyped'
    BY <1>10, <2>1 DEF ProjectShow, RelayTyped
  <2>5. wanted' \in BOOLEAN
    BY <1>10, <1>w DEF ProjectShow, ReportQueued
  <2> QED BY <1>10, <1>w, <2>2, <2>3, <2>4, <2>5 DEF ProjectShow
<1>11. CASE LoseShow
  <2>1. ShowTyped'
    BY <1>11, BoundAssumption DEF LoseShow, ShowTyped, ShowRecord, NotShowing, Attachments
  <2>2. faults' \in 0 .. MaxFaults
    BY <1>11, BoundAssumption DEF LoseShow
  <2> QED BY <1>11, <1>w, <2>1, <2>2 DEF LoseShow
<1>12. CASE SendControlMail
  <2>1. MailTyped'
    BY <1>12, BoundAssumption DEF SendControlMail, MailTyped
  <2>2. polled' \in BOOLEAN
    BY <1>12, <1>w DEF SendControlMail, EnsureRelay
  <2> QED BY <1>12, <1>w, <2>1, <2>2 DEF SendControlMail
<1>13. CASE AnswerQuestion
  <2>1. MailTyped'
    BY <1>13, BoundAssumption DEF AnswerQuestion, MailTyped
  <2>2. HomeTyped'
    BY <1>13 DEF AnswerQuestion, HomeTyped
  <2>3. polled' \in BOOLEAN
    BY <1>13, <1>w DEF AnswerQuestion, EnsureRelay
  <2> QED BY <1>13, <1>w, <2>1, <2>2, <2>3 DEF AnswerQuestion
<1>14. CASE CheckMail
  <2>1. polled' \in BOOLEAN
    BY <1>14, <1>w DEF CheckMail, EnsureRelay
  <2> QED BY <1>14, <1>w, <2>1 DEF CheckMail
<1> QED
  BY <1>1, <1>2, <1>3, <1>4, <1>5, <1>6, <1>7, <1>8, <1>9, <1>10, <1>11, <1>12, <1>13, <1>14
     DEF HomeStep
-----------------------------------------------------------------------------
(***************************************************************************)
(* The queue: what is put into it, and what an acknowledgement does to it. *)
(***************************************************************************)
\* A message takes a place that held nothing, or a heartbeat nobody acknowledged.
Puts(kind, outcome, n) ==
    /\ Put(kind, outcome, n)
    /\ \/ n = Len(items) + 1 /\ n <= MaxSequence
       \/ /\ n \in DOMAIN items /\ kind = "worker_done" /\ ~(Cardinality(Unacked) < QUOTA)
          /\ items[n].kind = "heartbeat" /\ ~items[n].acked

LEMMA FirstOf ==
    ASSUME NEW S \in SUBSET Nat, S # {}
    PROVE  First(S) \in S /\ \A m \in S : First(S) <= m
<1> DEFINE R == OpToRel(<, Nat)
<1>1. \E n \in S : \A m \in S : ~ (<<m, n>> \in R)
  <2>1. IsWellFoundedOn(R, Nat)
    BY NatLessThanWellFounded
  <2> HIDE DEF R
  <2> QED BY <2>1, WFMin
<1>2. \A m, n \in S : <<m, n>> \in R <=> m < n
  BY DEF OpToRel
<1> HIDE DEF R
<1>3. PICK n \in S : \A m \in S : ~ (<<m, n>> \in R)
  BY <1>1
<1>4. ASSUME NEW m \in S PROVE n <= m
  <2>1. ~(m < n)
    BY <1>2, <1>3
  <2>2. m \in Nat /\ n \in Nat
    OBVIOUS
  <2> QED BY <2>1, <2>2
<1> QED BY <1>4 DEF First

LEMMA EnqueuePuts ==
    ASSUME NEW kind, NEW outcome, NEW n, items \in Seq(Item), Enqueue(kind, outcome, n)
    PROVE  UNCHANGED items \/ Puts(kind, outcome, n)
BY FirstOf DEF Enqueue, Puts, Replaceable, UnackedOf, Unacked

LEMMA PutsTypes ==
    ASSUME NEW kind \in MessageKinds, NEW outcome \in Outcomes \cup {"none"}, NEW n, QueueTyped,
           Puts(kind, outcome, n)
    PROVE  /\ n \in 1 .. MaxSequence
           /\ items' \in Seq(Item) /\ Len(items') <= MaxSequence
           /\ DOMAIN items \subseteq DOMAIN items' /\ n \in DOMAIN items'
           /\ items'[n] = [kind |-> kind, outcome |-> outcome, acked |-> FALSE]
           /\ \A m \in DOMAIN items' \ {n} : m \in DOMAIN items /\ items'[m] = items[m]
           /\ Len(items) <= Len(items')
<1> DEFINE size == IF n > Len(items) THEN n ELSE Len(items)
<1>1. items \in Seq(Item) /\ Len(items) \in Nat /\ DOMAIN items = 1 .. Len(items) /\ MaxSequence \in Nat
      /\ Len(items) <= MaxSequence
  BY BoundAssumption DEF QueueTyped
<1>2. n \in 1 .. MaxSequence /\ size \in Nat /\ n <= size /\ size <= MaxSequence /\ Len(items) <= size
      /\ \A m \in 1 .. size : m # n => m \in 1 .. Len(items)
  BY <1>1 DEF Puts
<1>3. [kind |-> kind, outcome |-> outcome, acked |-> FALSE] \in Item
  BY DEF Item, MessageKinds
<1>4. items' = [m \in 1 .. size |->
           IF m = n THEN [kind |-> kind, outcome |-> outcome, acked |-> FALSE] ELSE items[m]]
  BY DEF Puts, Put
<1>5. items' \in [1 .. size -> Item]
  BY <1>1, <1>2, <1>3, <1>4
<1>6. items' \in Seq(Item) /\ Len(items') = size /\ DOMAIN items' = 1 .. size
  BY <1>2, <1>5
<1>7. n \in DOMAIN items' /\ items'[n] = [kind |-> kind, outcome |-> outcome, acked |-> FALSE]
  BY <1>2, <1>4, <1>6
<1>8. ASSUME NEW m \in DOMAIN items' \ {n}
      PROVE  m \in DOMAIN items /\ items'[m] = items[m]
  BY <1>1, <1>2, <1>4, <1>6, <1>8
<1>9. DOMAIN items \subseteq DOMAIN items'
  BY <1>1, <1>2, <1>6
<1> QED BY <1>1, <1>2, <1>6, <1>7, <1>8, <1>9

LEMMA EnqueueTypes ==
    ASSUME NEW kind \in MessageKinds, NEW outcome \in Outcomes \cup {"none"}, NEW n, QueueTyped,
           Enqueue(kind, outcome, n)
    PROVE  items' \in Seq(Item) /\ Len(items') <= MaxSequence
BY EnqueuePuts, PutsTypes DEF QueueTyped

\* What the paired host does with an acknowledgement it takes.
LEMMA TakeAckEffect ==
    ASSUME NEW ack \in Ack, QueueTyped, RemoteTyped, WorkerTyped, TakeAck(ack)
    PROVE  /\ items' \in Seq(Item) /\ Len(items') = Len(items)
           /\ \A n \in DOMAIN items : /\ items'[n].kind = items[n].kind
                                      /\ items'[n].outcome = items[n].outcome
                                      /\ items'[n].acked <=> items[n].acked \/ (ack \notin receipts /\ n <= ack.through)
           /\ receipts' = receipts \cup {ack}
           /\ attachment' \in Attachments /\ capability' \in BOOLEAN
           /\ stage' \in {"none", "worker_report_queued", "worker_report_settled"}
           /\ WorkerTyped'
           /\ \/ UNCHANGED <<attachment, stage>>
              \/ /\ attachment = "ready" /\ stage' = "worker_report_settled"
                 /\ attachment' \in {v.action : v \in ack.verdicts} \cap Outcomes
           /\ UNCHANGED told \/ (ack \notin receipts /\ told' \in ack.verdicts)
<1>1. CASE ack \in receipts
  <2>1. UNCHANGED <<remoteRow, queue, worker>>
    BY <1>1 DEF TakeAck
  <2>2. items' = items /\ receipts' = receipts /\ receipts = receipts \cup {ack}
    BY <1>1, <2>1 DEF queue
  <2>3. UNCHANGED <<attachment, stage, capability>> /\ WorkerTyped' /\ UNCHANGED told
    BY <2>1, WorkerKept DEF remoteRow, worker
  <2>4. \A n \in DOMAIN items : /\ items'[n].kind = items[n].kind
                                /\ items'[n].outcome = items[n].outcome
                                /\ items'[n].acked <=> items[n].acked \/ (ack \notin receipts /\ n <= ack.through)
    BY <1>1, <2>2
  <2> QED BY <2>2, <2>3, <2>4 DEF QueueTyped, RemoteTyped
<1>2. CASE ack \notin receipts
  <2> DEFINE terminal == {v.action : v \in ack.verdicts} \ {"rejected"}
             mine == {v \in ack.verdicts : v.sequence = waiting}
  <2>1. Acknowledge(ack.through, ack.verdicts) /\ receipts' = receipts \cup {ack}
    BY <1>2 DEF TakeAck
  <2>2. ack.through \in 1 .. MaxSequence /\ ack.verdicts \subseteq Verdict
    BY DEF Ack
  <2>3. items' = [n \in DOMAIN items |-> [items[n] EXCEPT !.acked = @ \/ n <= ack.through]]
    BY <2>1 DEF Acknowledge
  <2>4. items \in [1 .. Len(items) -> Item] /\ Len(items) \in Nat /\ DOMAIN items = 1 .. Len(items)
    BY DEF QueueTyped
  <2>5. ASSUME NEW n \in DOMAIN items
        PROVE  /\ items'[n] \in Item
               /\ items'[n].kind = items[n].kind /\ items'[n].outcome = items[n].outcome
               /\ items'[n].acked <=> items[n].acked \/ n <= ack.through
    <3>1. items[n] \in Item /\ items'[n] = [items[n] EXCEPT !.acked = @ \/ n <= ack.through]
      BY <2>3, <2>4
    <3> QED BY <3>1 DEF Item
  <2>6. items' \in [1 .. Len(items) -> Item]
    BY <2>3, <2>4, <2>5
  <2>7. items' \in Seq(Item) /\ Len(items') = Len(items)
    BY <2>4, <2>6
  <2>8. terminal \subseteq Outcomes
    BY <2>2 DEF Verdict, Verdicts
  <2>9. \/ UNCHANGED remoteRow
        \/ /\ attachment = "ready" /\ attachment' \in terminal
           /\ stage' = "worker_report_settled" /\ capability' = FALSE
    BY <2>1 DEF Acknowledge
  <2>10. /\ attachment' \in Attachments /\ capability' \in BOOLEAN
         /\ stage' \in {"none", "worker_report_queued", "worker_report_settled"}
    BY <2>8, <2>9 DEF remoteRow, RemoteTyped, Attachments, Outcomes
  <2>11. \/ UNCHANGED worker
         \/ waiting' = 0 /\ told' \in mine
    BY <2>1 DEF Acknowledge
  <2>12. WorkerTyped'
    BY <2>2, <2>11, BoundAssumption DEF worker, WorkerTyped, Verdict
  <2>13. \/ UNCHANGED <<attachment, stage>>
         \/ /\ attachment = "ready" /\ stage' = "worker_report_settled"
            /\ attachment' \in {v.action : v \in ack.verdicts} \cap Outcomes
    BY <2>8, <2>9 DEF remoteRow
  <2>14. UNCHANGED told \/ (ack \notin receipts /\ told' \in ack.verdicts)
    BY <1>2, <2>11 DEF worker
  <2>15. receipts' = receipts \cup {ack}
    BY <2>1
  <2>16. \A n \in DOMAIN items : /\ items'[n].kind = items[n].kind
                                 /\ items'[n].outcome = items[n].outcome
                                 /\ items'[n].acked <=> items[n].acked \/ (ack \notin receipts /\ n <= ack.through)
    BY <1>2, <2>5
  <2> QED
    <3> HIDE DEF terminal, mine
    <3> QED BY <2>7, <2>10, <2>12, <2>13, <2>14, <2>15, <2>16, Zenon
<1> QED BY <1>1, <1>2

LEMMA RemoteStepTypes ==
    ASSUME Typed, QueueInv, RemoteStep
    PROVE  Typed'
<1> USE HomeKept, RelayKept, MailKept, SyncKept, MemoryKept, CallsKept, ShowKept, RemoteKept, QueueKept,
        WorkerKept
    DEF Typed, epochs, syncMemory, startState, homeRows, showState, relayRows, stopState, mailRows,
        remoteRow, queue
<1>w. wanted \in BOOLEAN /\ polled \in BOOLEAN
  BY DEF MemoryTyped
<1>1. CASE CreateRemoteDispatchAttachment
  <2>1. CallsTyped' /\ RemoteTyped'
    BY <1>1 DEF CreateRemoteDispatchAttachment, CallsTyped, RemoteTyped, Answers, Attachments, StartAnswer
  <2> QED BY <1>1, <1>w, <2>1 DEF CreateRemoteDispatchAttachment
<1>2. CASE PrepareRemoteAttachmentAuthority
  <2>1. RemoteTyped'
    BY <1>2 DEF PrepareRemoteAttachmentAuthority, RemoteTyped
  <2> QED BY <1>2, <1>w, <2>1 DEF PrepareRemoteAttachmentAuthority
<1>3. CASE MarkRemoteAttachmentReady
  <2>1. CallsTyped' /\ RemoteTyped'
    BY <1>3 DEF MarkRemoteAttachmentReady, CallsTyped, RemoteTyped, Answers, Attachments, StartAnswer
  <2> QED BY <1>3, <1>w, <2>1 DEF MarkRemoteAttachmentReady
<1>4. CASE FailRemoteAttachment
  <2>1. CallsTyped' /\ RemoteTyped'
    BY <1>4 DEF FailRemoteAttachment, CallsTyped, RemoteTyped, Answers, Attachments, StartAnswer
  <2> QED BY <1>4, <1>w, <2>1 DEF FailRemoteAttachment
<1>5. CASE BeginRemoteAttachmentStop
  <2>1. CallsTyped'
    BY <1>5 DEF BeginRemoteAttachmentStop, CallsTyped, Answers, StopAnswer
  <2>2. RemoteTyped'
    BY <1>5 DEF BeginRemoteAttachmentStop, RemoteTyped, Attachments
  <2> QED BY <1>5, <1>w, <2>1, <2>2 DEF BeginRemoteAttachmentStop
<1>6. CASE SettleRemoteAttachmentStop
  <2>1. CallsTyped'
    <3>1. stopCall' \in Answers
      BY <1>6 DEF SettleRemoteAttachmentStop, CallsTyped, Answers, StopAnswer
    <3> QED BY <1>6, <3>1, BoundAssumption DEF SettleRemoteAttachmentStop, CallsTyped
  <2>2. RemoteTyped'
    BY <1>6 DEF SettleRemoteAttachmentStop, RemoteTyped, Attachments
  <2> QED BY <1>6, <1>w, <2>1, <2>2 DEF SettleRemoteAttachmentStop
<1>7. CASE AnswerShow
  <2>1. show' \in ShowRecord
    <3>1. show \in ShowRecord /\ attachment \in Attachments /\ remoteEpoch \in 0 .. MaxRemoteEpoch
          /\ stage \in {"none", "worker_report_queued", "worker_report_settled"}
      BY BoundAssumption DEF ShowTyped, RemoteTyped
    <3> QED BY <1>7, <3>1 DEF AnswerShow, ShowRecord
  <2>2. ShowTyped'
    BY <1>7, <2>1 DEF AnswerShow, ShowTyped
  <2> QED BY <1>7, <1>w, <2>2 DEF AnswerShow
<1>8. ASSUME NEW kind \in Sends, NEW outcome \in Outcomes \cup {"none"}, WorkerSends(kind, outcome)
      PROVE  Typed'
  <2>1. items' \in Seq(Item) /\ Len(items') <= MaxSequence
    BY <1>8, EnqueueTypes, SendsAssumption DEF WorkerSends, MessageKinds
  <2>2. WorkerTyped'
    BY <1>8 DEF WorkerSends, WorkerTyped, Verdicts, Outcomes
  <2>3. RemoteTyped'
    BY <1>8 DEF WorkerSends, QueueSettles, RemoteTyped, Attachments, Outcomes
  <2> QED BY <1>8, <1>w, <2>1, <2>2, <2>3 DEF WorkerSends, QueueTyped
<1>9. CASE StopWaiting
  <2>1. WorkerTyped'
    BY <1>9, BoundAssumption DEF StopWaiting, WorkerTyped
  <2> QED BY <1>9, <1>w, <2>1 DEF StopWaiting
<1>10. CASE ReportSetup
  <2>1. items' \in Seq(Item) /\ Len(items') <= MaxSequence
    BY <1>10, EnqueueTypes DEF ReportSetup, MessageKinds
  <2> QED BY <1>10, <1>w, <2>1 DEF ReportSetup, QueueTyped
<1>11. CASE LateAck
  <2> PICK ack \in lateAcks :
        /\ lateAcks' = lateAcks \ {ack}
        /\ IF Taken(ack) THEN TakeAck(ack) ELSE UNCHANGED <<remoteRow, queue, worker>>
        /\ UNCHANGED <<homeRows, relayRows, mailRows, syncMemory, startState, stopState, showState,
                       epochs, faults>>
    BY <1>11 DEF LateAck
  <2>1. ack \in Ack
    BY DEF QueueTyped
  <2>2. CASE ~Taken(ack)
    BY <1>w, <2>2 DEF QueueTyped
  <2>3. CASE TakeAck(ack)
    <3>1. RemoteTyped' /\ WorkerTyped' /\ QueueTyped'
      BY <2>1, <2>3, TakeAckEffect DEF QueueTyped, RemoteTyped
    <3> QED BY <1>w, <3>1
  <2> QED BY <2>2, <2>3
<1> QED
  BY <1>1, <1>2, <1>3, <1>4, <1>5, <1>6, <1>7, <1>8, <1>9, <1>10, <1>11 DEF RemoteStep
-----------------------------------------------------------------------------
(***************************************************************************)
(* The sync.                                                               *)
(***************************************************************************)
LEMMA Zeros ==
    /\ 0 \in 0 .. MaxSequence /\ 0 \in 0 .. MaxRemoteEpoch /\ 0 \in 0 .. MaxMail
    /\ NoCapability \in Capability
    /\ [epoch |-> 0, through |-> 0] \in [epoch : 0 .. MaxRemoteEpoch, through : 0 .. MaxSequence]
<1>1. 0 \in 0 .. MaxSequence /\ 0 \in 0 .. MaxRemoteEpoch /\ 0 \in 0 .. MaxMail
  BY BoundAssumption
<1> QED BY <1>1 DEF NoCapability, Capability

\* What the fields of the sync are.
LEMMA SyncFields ==
    ASSUME SyncTyped
    PROVE  /\ sync.phase \in SyncPhases /\ sync.pages \in 0 .. MAX_PAGES
           /\ sync.imported \in 0 .. MaxSequence /\ sync.acked \in 0 .. MaxSequence
           /\ sync.peerEpoch \in 0 .. MaxRemoteEpoch /\ sync.capability \in Capability
           /\ sync.page \in Seq(Pulled) /\ sync.epoch \in 0 .. MaxRemoteEpoch
           /\ sync.next \in Nat /\ sync.cursor \in 0 .. MaxSequence
           /\ sync.verdicts \subseteq Verdict /\ sync.barrier \in 0 .. MaxSequence
           /\ sync.through \in Nat
BY DEF SyncTyped, SyncRecord

LEMMA SyncEnds == sync' = NotSyncing => SyncTyped'
<1>1. << >> \in Seq(Pulled) /\ Len(<< >>) = 0 /\ 0 \in 0 .. MAX_PAGES
  BY PageAssumption
<1>2. NotSyncing \in SyncRecord
  BY <1>1, Zeros DEF NotSyncing, SyncRecord, SyncPhases
<1> QED BY <1>1, <1>2, Zeros, PageAssumption DEF SyncTyped, NotSyncing

LEMMA PageTyped ==
    ASSUME NEW n \in 1 .. MAX_PAGES, sync' = Page(n), RelayTyped, MemoryTyped
    PROVE  SyncTyped'
<1>1. << >> \in Seq(Pulled) /\ Len(<< >>) = 0 /\ n \in 0 .. MAX_PAGES /\ n # 0 /\ PAGE_SIZE >= 0
  BY PageAssumption
<1>2. Page(n) \in SyncRecord
  BY <1>1, Zeros DEF Page, NotSyncing, SyncRecord, SyncPhases, RelayTyped, MemoryTyped
<1> QED BY <1>1, <1>2, Zeros DEF SyncTyped, Page, NotSyncing

\* Where a pulled page lies in the queue.
LEMMA AskedSpan ==
    ASSUME NEW S, S \subseteq 1 .. Len(items), S # {}, items \in Seq(Item)
    PROVE  /\ First(S) \in S /\ \A m \in S : First(S) <= m
           /\ Cardinality(S) \in Nat
           /\ First(S) + Cardinality(S) - 1 <= Len(items)
<1>1. Len(items) \in Nat /\ S \in SUBSET Nat
  OBVIOUS
<1>2. First(S) \in S /\ \A m \in S : First(S) <= m
  BY <1>1, FirstOf
<1>3. First(S) \in 1 .. Len(items)
  BY <1>2
<1>4. IsFiniteSet(First(S) .. Len(items))
      /\ Cardinality(First(S) .. Len(items)) = Len(items) - First(S) + 1
  BY <1>1, <1>3, FS_Interval
<1>5. S \subseteq First(S) .. Len(items)
  BY <1>1, <1>2, <1>3
<1>6. Cardinality(S) <= Cardinality(First(S) .. Len(items)) /\ IsFiniteSet(S)
  BY <1>4, <1>5, FS_Subset
<1>7. Cardinality(S) \in Nat
  BY <1>6, FS_CardinalityType
<1> QED BY <1>1, <1>2, <1>3, <1>4, <1>6, <1>7

\* The page that answers a pull.
LEMMA PulledPage ==
    ASSUME SyncTyped, QueueTyped, AnswerPull
    PROVE  /\ sync'.page \in Seq(Pulled) /\ Len(sync'.page) <= PAGE_SIZE
           /\ sync' = [sync EXCEPT !.phase = "paged", !.epoch = remoteEpoch, !.page = sync'.page]
           /\ \A i \in 1 .. Len(sync'.page) :
                 /\ sync'.page[i].sequence \in 1 .. Len(items)
                 /\ sync'.page[i].kind = items[sync'.page[i].sequence].kind
                 /\ sync'.page[i].outcome = items[sync'.page[i].sequence].outcome
           /\ sync'.page # << >> =>
                 /\ sync'.page[1].sequence \in Asked
                 /\ \A m \in Asked : sync'.page[1].sequence <= m
<1> DEFINE from == IF Asked = {} THEN 1 ELSE First(Asked)
           size == IF Cardinality(Asked) < PAGE_SIZE THEN Cardinality(Asked) ELSE PAGE_SIZE
           page == [i \in 1 .. size |-> Wire(from + i - 1)]
<1>1. items \in Seq(Item) /\ Len(items) \in Nat /\ DOMAIN items = 1 .. Len(items) /\ Len(items) <= MaxSequence
      /\ MaxSequence \in Nat /\ PAGE_SIZE \in Nat
  BY BoundAssumption, PageAssumption DEF QueueTyped
<1>2. Asked \subseteq 1 .. Len(items)
  BY <1>1 DEF Asked, Unacked
<1>3. /\ size \in Nat /\ size <= PAGE_SIZE
      /\ \A i \in 1 .. size : from + i - 1 \in 1 .. Len(items)
      /\ size # 0 => from \in Asked /\ \A m \in Asked : from <= m
  <2>1. CASE Asked = {}
    <3>1. Cardinality(Asked) = 0
      BY <2>1, FS_EmptySet
    <3> QED BY <1>1, <3>1
  <2>2. CASE Asked # {}
    <3>1. /\ First(Asked) \in Asked /\ \A m \in Asked : First(Asked) <= m
          /\ Cardinality(Asked) \in Nat /\ First(Asked) + Cardinality(Asked) - 1 <= Len(items)
      BY <1>1, <1>2, <2>2, AskedSpan
    <3>2. First(Asked) \in 1 .. Len(items)
      BY <1>2, <3>1
    <3> QED BY <1>1, <2>2, <3>1, <3>2
  <2> QED BY <2>1, <2>2
<1>4. sync' = [sync EXCEPT !.phase = "paged", !.epoch = remoteEpoch, !.page = page]
  BY DEF AnswerPull
<1>5. ASSUME NEW i \in 1 .. size
      PROVE  /\ page[i] \in Pulled /\ page[i].sequence = from + i - 1
             /\ page[i].sequence \in 1 .. Len(items)
             /\ page[i].kind = items[page[i].sequence].kind
             /\ page[i].outcome = items[page[i].sequence].outcome
  <2>1. page[i] = Wire(from + i - 1) /\ from + i - 1 \in 1 .. Len(items)
    BY <1>3
  <2>2. items[from + i - 1] \in Item /\ from + i - 1 \in 1 .. MaxSequence
    BY <1>1, <2>1
  <2> HIDE DEF from, size, page
  <2> QED BY <2>1, <2>2 DEF Wire, Item, Pulled
<1>6. page \in Seq(Pulled) /\ Len(page) = size
  <2>1. page \in [1 .. size -> Pulled]
    BY <1>5
  <2> HIDE DEF page
  <2> QED BY <1>3, <2>1
<1>7. page # << >> => page[1].sequence = from /\ size # 0
  <2>1. page # << >> => size # 0
    BY <1>6
  <2>2. size # 0 => 1 \in 1 .. size /\ from + 1 - 1 = from
    <3> HIDE DEF from, size
    <3>1. size # 0 => from \in 1 .. Len(items)
      BY <1>2, <1>3
    <3>2. size # 0 => 1 \in 1 .. size
      BY <1>3
    <3> QED BY <1>1, <3>1, <3>2
  <2> QED BY <1>5, <2>1, <2>2
<1>8. sync'.page = page
  BY <1>4 DEF SyncTyped, SyncRecord
<1> HIDE DEF from, size, page
<1> QED BY <1>3, <1>4, <1>5, <1>6, <1>7, <1>8

\* What the import and the acknowledgement after it make of the sync.
LEMMA ItemTypes ==
    ASSUME SyncTyped, PageInv, ImportItem
    PROVE  /\ Incoming \in Pulled /\ sync.next \in 1 .. Len(sync.page)
           /\ sync' \in SyncRecord
           /\ sync' = [sync EXCEPT !.next = sync'.next, !.cursor = Incoming.sequence,
                                  !.verdicts = sync'.verdicts, !.barrier = sync'.barrier]
           /\ sync'.next = sync.next + 1
           /\ sync'.barrier \in {sync.barrier, Incoming.sequence}
           /\ \/ sync'.verdicts = sync.verdicts
              \/ /\ Incoming.kind = "worker_done" /\ Incoming.outcome \in Outcomes /\ SettlesAtHome
                 /\ sync'.verdicts = sync.verdicts \cup
                        {[sequence |-> Incoming.sequence, action |-> VerdictOn(Incoming.outcome)]}
<1>1. sync.page \in Seq(Pulled) /\ sync.next \in 1 .. Len(sync.page) /\ Len(sync.page) \in Nat
  <2>1. sync.page \in Seq(Pulled) /\ sync.next \in Nat
    BY SyncFields
  <2>2. sync.next \in 1 .. Len(sync.page) + 1 /\ sync.next <= Len(sync.page)
    BY DEF ImportItem, PageInv
  <2> QED BY <2>1, <2>2
<1>2. Incoming \in Pulled
  BY <1>1 DEF Incoming
<1>3. Incoming.kind = "worker_done" => Incoming.outcome \in Outcomes
  BY <1>1, <1>2 DEF PageInv, Incoming, Pulled
<1>4. Incoming.sequence \in 0 .. MaxSequence /\ Incoming.sequence \in 1 .. MaxSequence
  BY <1>2, BoundAssumption DEF Pulled
<1>5. Incoming.kind = "worker_done" => VerdictOn(Incoming.outcome) \in Verdicts
  BY <1>3 DEF VerdictOn, Verdicts
<1>6. PICK verdicts, barrier :
          /\ sync' = [sync EXCEPT !.next = sync.next + 1, !.cursor = Incoming.sequence,
                                 !.verdicts = verdicts, !.barrier = barrier]
          /\ barrier \in {sync.barrier, Incoming.sequence}
          /\ \/ verdicts = sync.verdicts
             \/ /\ Incoming.kind = "worker_done" /\ Supported
                /\ verdicts = sync.verdicts \cup
                        {[sequence |-> Incoming.sequence, action |-> VerdictOn(Incoming.outcome)]}
  BY DEF ImportItem
<1>7. verdicts \subseteq Verdict
  BY <1>4, <1>5, <1>6, SyncFields DEF Verdict
<1>8. sync.next + 1 \in Nat /\ barrier \in 0 .. MaxSequence
  BY <1>1, <1>4, <1>6, SyncFields
<1>9. sync \in SyncRecord
  BY DEF SyncTyped
<1>10. sync' \in SyncRecord
  BY <1>4, <1>6, <1>7, <1>8, <1>9 DEF SyncRecord
<1>11. /\ sync'.next = sync.next + 1 /\ sync'.verdicts = verdicts /\ sync'.barrier = barrier
  BY <1>6, <1>9 DEF SyncRecord
<1> QED BY <1>1, <1>2, <1>3, <1>6, <1>10, <1>11 DEF Supported

LEMMA AfterAckTypes ==
    ASSUME SyncTyped, MailTyped, MemoryTyped, sync.phase # "idle", AfterAck
    PROVE  /\ SyncTyped' /\ peer' \in Capability /\ peerEpoch' \in 0 .. MaxRemoteEpoch
           /\ peerEpoch' = sync.epoch
           /\ sync' = [sync EXCEPT !.phase = sync'.phase, !.through = outbox]
           /\ sync'.phase \in {"pushing", "pushed"}
<1>1. sync' = [sync EXCEPT !.phase = IF Pushes THEN "pushing" ELSE "pushed", !.through = outbox]
  BY DEF AfterAck
<1>2. sync \in SyncRecord /\ outbox \in Nat /\ outbox <= MaxMail
  BY BoundAssumption DEF SyncTyped, MailTyped
<1>3. sync'.phase \in {"pushing", "pushed"} /\ sync'.pages = sync.pages /\ sync'.through = outbox
      /\ sync'.page = sync.page
  BY <1>1, <1>2 DEF SyncRecord
<1>4. sync' \in SyncRecord
  BY <1>1, <1>2 DEF SyncRecord, SyncPhases
<1>5. peer' \in Capability /\ peerEpoch' \in 0 .. MaxRemoteEpoch /\ peerEpoch' = sync.epoch
  BY Zeros, SyncFields DEF AfterAck, MemoryTyped
<1>6. sync.phase # "idle" => sync.pages # 0
  BY DEF SyncTyped
<1> QED BY <1>1, <1>2, <1>3, <1>4, <1>5, <1>6 DEF SyncTyped

LEMMA SyncStepTypes ==
    ASSUME Typed, QueueInv, PageInv, SyncInv, WatermarkIsCovered, SyncStep
    PROVE  Typed'
<1> USE HomeKept, RelayKept, MailKept, SyncKept, MemoryKept, CallsKept, ShowKept, RemoteKept, QueueKept,
        WorkerKept, HomeWrites
    DEF Typed, epochs, startState, homeRows, showState, relayRows, stopState, mailRows, syncFrame, queue,
        worker, remoteRow
<1>w. wanted \in BOOLEAN /\ polled \in BOOLEAN
  BY DEF MemoryTyped
<1>r. mailbox \subseteq (1 .. MaxSequence) \X MessageKinds /\ imported \in 0 .. MaxSequence
      /\ acked \in 0 .. MaxSequence /\ peerEpoch \in 0 .. MaxRemoteEpoch
  BY DEF RelayTyped
<1>1. CASE BeginSync
  <2>1. SyncTyped'
    BY <1>1, PageTyped, PageAssumption DEF BeginSync
  <2> QED BY <1>1, <1>w, <2>1 DEF BeginSync
<1>2. CASE AnswerProbe
  <2>1. [epoch |-> remoteEpoch, supported |-> advertises] \in Capability
    BY BoundAssumption DEF RemoteTyped, Capability
  <2>2. SyncTyped' /\ peer' \in Capability
    BY <1>2, <2>1 DEF AnswerProbe, SyncTyped, SyncRecord, SyncPhases
  <2> QED BY <1>2, <2>2 DEF AnswerProbe, MemoryTyped
<1>3. CASE ExpireCapability
  BY <1>3, <1>w, Zeros DEF ExpireCapability, MemoryTyped
<1>4. CASE AnswerPull
  <2>1. /\ sync'.page \in Seq(Pulled) /\ Len(sync'.page) <= PAGE_SIZE
        /\ sync' = [sync EXCEPT !.phase = "paged", !.epoch = remoteEpoch, !.page = sync'.page]
    BY <1>4, PulledPage
  <2>2. remoteEpoch \in 0 .. MaxRemoteEpoch
    BY BoundAssumption DEF RemoteTyped
  <2>3. SyncTyped'
    BY <1>4, <2>1, <2>2 DEF AnswerPull, SyncTyped, SyncRecord, SyncPhases
  <2> QED BY <1>4, <1>w, <2>3 DEF AnswerPull
<1>5. CASE BeginImport
  <2>1. sync.page # << >> => sync.page[1].sequence - 1 \in 0 .. MaxSequence
    <3>1. sync.page # << >> => sync.page[1] \in Pulled
      BY SyncFields
    <3> QED BY <3>1, BoundAssumption, SMTT(30) DEF Pulled
  <2>2. SyncTyped'
    BY <1>5, <2>1, SyncFields DEF BeginImport, SyncTyped, SyncRecord, SyncPhases
  <2> QED BY <1>5, <1>w, <2>2 DEF BeginImport
<1>6. CASE ImportItem
  <2>1. /\ Incoming \in Pulled /\ sync' \in SyncRecord
        /\ sync' = [sync EXCEPT !.next = sync'.next, !.cursor = Incoming.sequence,
                               !.verdicts = sync'.verdicts, !.barrier = sync'.barrier]
    BY <1>6, ItemTypes
  <2>2. SyncTyped'
    BY <1>6, <2>1 DEF SyncTyped, SyncRecord
  <2>3. RelayTyped'
    BY <1>6, <1>r, <2>1, BoundAssumption DEF ImportItem, RelayTyped, Pulled, MessageKinds
  <2>4. HomeTyped'
    <3>1. home \in HomeRecord /\ asking \in BOOLEAN
      BY DEF HomeTyped
    <3>2. Incoming.kind = "worker_done" => Incoming.outcome \in Outcomes
      BY <1>6, ItemTypes, <2>1 DEF PageInv, Incoming, Pulled
    <3>3. home' = home \/ \E o \in Outcomes : home' = Reported(o)
      BY <1>6, <3>2 DEF ImportItem
    <3>4. home' \in HomeRecord
      BY <3>1, <3>3, HomeWrites
    <3>5. asking' \in BOOLEAN
      BY <1>6, <3>1 DEF ImportItem
    <3> QED BY <1>6, <3>4, <3>5 DEF ImportItem, HomeTyped
  <2> QED BY <1>6, <1>w, <2>2, <2>3, <2>4 DEF ImportItem
<1>7. CASE RefuseItem
  BY <1>7, <1>w, SyncEnds DEF RefuseItem
<1>8. CASE FinishImport
  <2>1. sync.phase # "idle"
    BY <1>8 DEF FinishImport
  <2>2. CASE AfterAck
    BY <1>8, <1>w, <1>r, <2>1, <2>2, AfterAckTypes DEF FinishImport, MemoryTyped, RelayTyped
  <2>3. CASE sync' = [sync EXCEPT !.phase = "acking", !.through = AckCursor] /\ UNCHANGED <<peer, peerEpoch>>
    <3>1. AckCursor \in Nat /\ AckCursor <= MaxSequence
      <4>1. sync.barrier \in 0 .. MaxSequence /\ sync.cursor \in 0 .. MaxSequence /\ MaxSequence \in Nat
        BY SyncFields, BoundAssumption
      <4> QED BY <4>1 DEF AckCursor
    <3>2. SyncTyped'
      BY <1>8, <2>3, <3>1 DEF FinishImport, SyncTyped, SyncRecord, SyncPhases
    <3> QED BY <1>8, <1>w, <2>3, <3>2 DEF FinishImport
  <2> QED BY <1>8, <2>2, <2>3 DEF FinishImport
<1>9. CASE AnswerAck
  <2>1. Sent \in Ack
    <3>1. sync.through \in 1 .. MaxSequence /\ sync.cursor \in 1 .. MaxSequence
      BY <1>9, SyncFields, BoundAssumption DEF AnswerAck, SyncInv, SyncTyped
    <3> QED BY <3>1, SyncFields DEF Sent, UpTo, Ack
  <2>2. QueueTyped' /\ RemoteTyped' /\ WorkerTyped'
    BY <1>9, <2>1, TakeAckEffect DEF AnswerAck, QueueTyped, RemoteTyped
  <2>3. SyncTyped'
    BY <1>9 DEF AnswerAck, SyncTyped, SyncRecord, SyncPhases
  <2> QED BY <1>9, <1>w, <2>2, <2>3 DEF AnswerAck
<1>10. CASE RefuseAck
  BY <1>10, <1>w, SyncEnds DEF RefuseAck
<1>11. CASE RecordAck
  <2>1. sync.phase # "idle" /\ AfterAck
    BY <1>11 DEF RecordAck
  <2>2. Watermark(sync.through) \in 0 .. MaxSequence
    <3>1. sync.through \in 1 .. sync.cursor /\ sync.cursor \in 0 .. MaxSequence /\ MaxSequence \in Nat
      BY <1>11, SyncFields, BoundAssumption DEF RecordAck, SyncInv
    <3> QED BY <3>1 DEF Watermark
  <2>3. acked' \in 0 .. MaxSequence
        /\ checkpoint' \in [epoch : 0 .. MaxRemoteEpoch, through : 0 .. MaxSequence]
    BY <1>11, <1>r, <2>2, SyncFields DEF RecordAck, MemoryTyped
  <2> QED BY <1>11, <1>w, <1>r, <2>1, <2>3, AfterAckTypes DEF RecordAck, MemoryTyped, RelayTyped
<1>12. CASE AnswerPush
  <2>1. sync.phase = "pushing" /\ sync.through \in 0 .. MaxMail /\ delivered \in 0 .. MaxMail
    <3>1. sync.phase = "pushing" /\ MaxMail \in Nat
      BY <1>12, BoundAssumption DEF AnswerPush
    <3> QED BY <3>1, SyncFields DEF SyncTyped, MailTyped
  <2>2. delivered' \in 0 .. MaxMail
    BY <1>12, <2>1 DEF AnswerPush
  <2>3. SyncTyped'
    <3>1. sync' = [sync EXCEPT !.phase = "mailed", !.through = delivered']
      BY <1>12 DEF AnswerPush
    <3>2. delivered' \in Nat /\ delivered' <= MaxMail
      BY <2>2, BoundAssumption
    <3> QED BY <2>1, <3>1, <3>2 DEF SyncTyped, SyncRecord, SyncPhases
  <2>4. MailTyped'
    BY <1>12, <2>2 DEF AnswerPush, MailTyped
  <2> QED BY <1>12, <1>w, <2>3, <2>4 DEF AnswerPush
<1>13. CASE RefusePush
  BY <1>13, <1>w, SyncEnds DEF RefusePush
<1>14. CASE EndPage
  <2>1. SyncTyped'
    <3>1. sync.pages > 1 => sync.pages - 1 \in 1 .. MAX_PAGES
      BY SyncFields, PageAssumption, SMTT(30)
    <3> QED BY <1>14, <3>1, SyncEnds, PageTyped DEF EndPage
  <2>2. MemoryTyped'
    BY <1>14, <1>w, Zeros DEF EndPage, MemoryTyped
  <2> QED BY <1>14, <2>1, <2>2 DEF EndPage
<1>15. CASE LoseSyncCall
  <2>1. sync.phase = "acking" => Sent \in Ack
    <3>1. sync.phase = "acking" => sync.through \in 1 .. MaxSequence /\ sync.cursor \in 1 .. MaxSequence
      BY SyncFields, BoundAssumption DEF SyncInv, SyncTyped
    <3> QED BY <3>1, SyncFields DEF Sent, UpTo, Ack
  <2>2. QueueTyped'
    BY <1>15, <2>1 DEF LoseSyncCall, QueueTyped
  <2>3. faults' \in 0 .. MaxFaults
    BY <1>15, BoundAssumption DEF LoseSyncCall
  <2> QED BY <1>15, <1>w, <2>2, <2>3, SyncEnds DEF LoseSyncCall
<1>16. CASE RecordPush
  <2>1. SyncTyped'
    BY <1>16 DEF RecordPush, SyncTyped, SyncRecord, SyncPhases
  <2>2. sync.phase = "mailed" /\ sync.through \in 0 .. MaxMail
    <3>1. sync.phase = "mailed" /\ MaxMail \in Nat
      BY <1>16, BoundAssumption DEF RecordPush
    <3> QED BY <3>1, SyncFields DEF SyncTyped
  <2>3. MailTyped'
    BY <1>16, <2>2 DEF RecordPush, MailTyped
  <2> QED BY <1>16, <1>w, <2>1, <2>3 DEF RecordPush
<1>17. CASE StopPolling
  BY <1>17, <1>w DEF StopPolling
<1> QED
  BY <1>1, <1>2, <1>3, <1>4, <1>5, <1>6, <1>7, <1>8, <1>9, <1>10, <1>11, <1>12, <1>13, <1>14, <1>15,
     <1>16, <1>17
     DEF SyncStep

LEMMA RestartTypes ==
    ASSUME Typed, HomeRestart \/ RemoteRestart
    PROVE  Typed'
<1> USE HomeKept, RelayKept, MailKept, SyncKept, MemoryKept, CallsKept, ShowKept, RemoteKept, QueueKept,
        WorkerKept
    DEF Typed, startState, homeRows, showState, relayRows, stopState, mailRows, queue, worker, remoteRow,
        syncMemory
<1>1. CASE HomeRestart
  <2>1. HomeTyped' /\ faults' \in 0 .. MaxFaults
    BY <1>1, BoundAssumption DEF HomeRestart, HomeTyped
  <2>2. MemoryTyped' /\ SyncTyped'
    BY <1>1, Zeros, SyncEnds DEF HomeRestart, MemoryTyped, Reopened, RelayEligible
  <2>3. CallsTyped'
    BY <1>1 DEF HomeRestart, CallsTyped, Answers
  <2>4. ShowTyped'
    <3>1. NotShowing \in ShowRecord
      BY Zeros DEF NotShowing, ShowRecord, Attachments
    <3> QED BY <1>1, <3>1 DEF HomeRestart, ShowTyped
  <2> QED BY <1>1, <2>1, <2>2, <2>3, <2>4 DEF HomeRestart
<1>2. CASE RemoteRestart
  <2>1. RemoteTyped' /\ faults' \in 0 .. MaxFaults
    <3>1. advertises' \in BOOLEAN
      BY <1>2 DEF RemoteRestart
    <3>2. remoteEpoch' \in 1 .. MaxRemoteEpoch /\ faults' \in 0 .. MaxFaults
      BY <1>2, BoundAssumption DEF RemoteRestart, RemoteTyped
    <3> QED BY <1>2, <3>1, <3>2 DEF RemoteRestart, RemoteTyped
  <2>2. CallsTyped'
    <3>1. 0 \in 0 .. MaxStops
      BY BoundAssumption
    <3> QED BY <1>2, <3>1 DEF RemoteRestart, CallsTyped
  <2>3. WorkerTyped'
    BY <1>2, Zeros DEF RemoteRestart, WorkerTyped
  <2>4. MemoryTyped'
    BY <1>2 DEF RemoteRestart, MemoryTyped
  <2> QED BY <1>2, <2>1, <2>2, <2>3, <2>4 DEF RemoteRestart
<1> QED BY <1>1, <1>2
=============================================================================
