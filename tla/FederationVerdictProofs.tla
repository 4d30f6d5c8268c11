----------------------- MODULE FederationVerdictProofs -----------------------
(***************************************************************************)
(* The inductive invariant of a federated Dispatch, and the theorems that  *)
(* follow from it.                                                         *)
(***************************************************************************)
EXTENDS FederationProofs

\* What each group of variables means for the invariant's parts: the step that
\* leaves the group alone keeps the part.
LEMMA HomePartsKept ==
    /\ HomeInv /\ UNCHANGED <<home, attachment>> => HomeInv'
    /\ RemoteInv /\ UNCHANGED <<home, attach, attachment, stopRun, show>> => RemoteInv'
    /\ EpochInv /\ UNCHANGED <<peerEpoch, remoteEpoch, sync, show>> => EpochInv'
BY DEF HomeInv, RemoteInv, EpochInv, Active

LEMMA RelayPartsKept ==
    /\ QueueInv /\ UNCHANGED <<imported, items>> => QueueInv'
    /\ PageInv /\ UNCHANGED <<sync, items, imported>> => PageInv'
    /\ SyncInv /\ UNCHANGED <<sync, imported, items, lateAcks, receipts>> => SyncInv'
    /\ WatermarkIsCovered /\ UNCHANGED <<acked, imported, items>> => WatermarkIsCovered'
BY DEF QueueInv, PageInv, SameItem, SyncInv, WatermarkIsCovered

\* An end no transaction takes back: of the worker at home, of the attachment.
Ended == {"succeeded", "failed", "stopped"}
-----------------------------------------------------------------------------
(***************************************************************************)
(* Steps at home: the calls and the polls.                                 *)
(***************************************************************************)
LEMMA HomeFields ==
    ASSUME HomeTyped
    PROVE  /\ home.task \in {"absent", "pending", "ready", "dispatched", "blocked", "completed", "failed"}
           /\ home.dispatch \in {"absent", "pending", "dispatched", "completed", "failed", "circuit_broken"}
           /\ home.worker \in {"none", "starting", "start_unknown", "ready", "stopping", "stop_unknown",
                               "succeeded", "failed", "stopped", "abandoned"}
           /\ home = [task |-> home.task, dispatch |-> home.dispatch, worker |-> home.worker]
BY DEF HomeTyped, HomeRecord, TaskStatuses, TaskTerminal, DispatchStatuses, DispatchActive,
       DispatchSettled, WorkerStates, WorkerUnsettled, WorkerSettled

LEMMA ProjectedHome ==
    ASSUME ProjectShow
    PROVE  \/ home' = home
           \/ home' = StopSettled /\ home.worker \in {"stopping", "stop_unknown"}
           \/ /\ home.worker \in {"starting", "start_unknown"}
              /\ \E state \in {"ready", "failed", "stopped", "start_unknown"} :
                    home' = StartSettled(state) /\ show.state = state
BY DEF ProjectShow

LEMMA HomeStepHome ==
    ASSUME Typed, HomeInv, RemoteInv, HomeStep
    PROVE  /\ HomeInv'
           /\ home.worker \in Ended => home'.worker = home.worker
<1> USE HomeFields
    DEF Typed, HomeInv, Active, WorkerUnsettled, DispatchActive, remoteRow, Ended
<1>1. CASE CreateTask
  BY <1>1 DEF CreateTask
<1>2. CASE StartWorker
  BY <1>2 DEF StartWorker
<1>3. CASE StartAnswered
  BY <1>3 DEF StartAnswered, StartSettled, DispatchFailed
<1>4. CASE StartGivesUp
  BY <1>4 DEF StartGivesUp, StartSettled, DispatchFailed
<1>5. CASE BeginWorkerStop
  BY <1>5 DEF BeginWorkerStop, Interrupted
<1>6. CASE StopAnswered
  BY <1>6 DEF StopAnswered, StopSettled, Resumed, Interrupted, DispatchFailed, Outcomes
<1>7. CASE StopGivesUp
  BY <1>7 DEF StopGivesUp
<1>8. CASE AbandonWorkerDispatch
  BY <1>8 DEF AbandonWorkerDispatch, Interrupted, DispatchFailed
<1>9. CASE BeginShow
  BY <1>9 DEF BeginShow, homeRows
<1>10. CASE ProjectShow
  <2>1. \/ home' = home
        \/ home' = StopSettled /\ home.worker \in {"stopping", "stop_unknown"}
        \/ /\ home.worker \in {"starting", "start_unknown"}
           /\ \E state \in {"ready", "failed", "stopped", "start_unknown"} :
                 home' = StartSettled(state) /\ show.state = state
    BY <1>10, ProjectedHome
  <2>2. attachment' = attachment /\ (show.state = "stopped" => attachment = "stopped")
    BY <1>10 DEF ProjectShow, RemoteInv
  <2>3. CASE home' = home
    BY <2>2, <2>3
  <2>4. CASE home' = StopSettled /\ home.worker \in {"stopping", "stop_unknown"}
    BY <2>2, <2>4 DEF StopSettled, Interrupted, DispatchFailed
  <2>5. ASSUME NEW state \in {"ready", "failed", "stopped", "start_unknown"}, home' = StartSettled(state),
               show.state = state, home.worker \in {"starting", "start_unknown"}
        PROVE  HomeInv' /\ home.worker \notin Ended
    BY <2>2, <2>5 DEF StartSettled, DispatchFailed
  <2> QED BY <2>1, <2>3, <2>4, <2>5
<1>11. CASE LoseShow
  BY <1>11 DEF LoseShow, homeRows
<1>12. CASE SendControlMail
  BY <1>12 DEF SendControlMail, homeRows
<1>13. CASE AnswerQuestion
  BY <1>13 DEF AnswerQuestion
<1>14. CASE CheckMail
  BY <1>14 DEF CheckMail, homeRows
<1> QED
  BY <1>1, <1>2, <1>3, <1>4, <1>5, <1>6, <1>7, <1>8, <1>9, <1>10, <1>11, <1>12, <1>13, <1>14 DEF HomeStep

LEMMA HomeStepRemote ==
    ASSUME Typed, HomeInv, RemoteInv, EpochInv, HomeStep
    PROVE  RemoteInv' /\ EpochInv'
<1> USE HomeFields, HomePartsKept
    DEF Typed, remoteRow, showState, relayRows, stopState, startState, epochs, syncMemory, homeRows
<1>t. peerEpoch \in Nat /\ remoteEpoch \in Nat
  BY DEF RelayTyped, RemoteTyped
<1>1. CASE CreateTask
  BY <1>1 DEF CreateTask, RemoteInv
<1>2. CASE StartWorker
  BY <1>2 DEF StartWorker, RemoteInv
<1>3. CASE StartAnswered
  <2>1. RemoteInv'
    BY <1>3 DEF StartAnswered, RemoteInv, StartSettled
  <2>2. EpochInv'
    BY <1>3, <1>t DEF StartAnswered, EpochInv
  <2> QED BY <2>1, <2>2
<1>4. CASE StartGivesUp
  BY <1>4 DEF StartGivesUp, RemoteInv, StartSettled
<1>5. CASE BeginWorkerStop
  BY <1>5 DEF BeginWorkerStop, RemoteInv
<1>6. CASE StopAnswered
  BY <1>6 DEF StopAnswered, StopSettled, Resumed, RemoteInv, EpochInv
<1>7. CASE StopGivesUp
  BY <1>7 DEF StopGivesUp, RemoteInv
<1>8. CASE AbandonWorkerDispatch
  BY <1>8 DEF AbandonWorkerDispatch, RemoteInv
<1>9. CASE BeginShow
  BY <1>9, <1>t DEF BeginShow, NotShowing, Fence, RemoteInv, EpochInv
<1>10. CASE ProjectShow
  <2>1. home'.worker = "none" => home.worker = "none"
    <3>1. StopSettled.worker # "none"
      BY DEF StopSettled
    <3>2. \A state \in {"ready", "failed", "stopped", "start_unknown"} : StartSettled(state).worker # "none"
      BY DEF StartSettled
    <3> QED BY <1>10, <3>1, <3>2, ProjectedHome
  <2>2. RemoteInv'
    BY <1>10, <2>1 DEF ProjectShow, RemoteInv, NotShowing
  <2>3. show.epoch \in Nat /\ show'.epoch = 0 /\ show'.phase = "idle"
    BY <1>10 DEF ShowTyped, ShowRecord, ProjectShow, NotShowing
  <2>4. peerEpoch' \in {peerEpoch, show.epoch} /\ UNCHANGED <<sync, remoteEpoch>>
    BY <1>10 DEF ProjectShow
  <2>5. EpochInv'
    BY <1>t, <2>3, <2>4 DEF EpochInv
  <2> QED BY <2>2, <2>5
<1>11. CASE LoseShow
  BY <1>11, <1>t DEF LoseShow, RemoteInv, EpochInv, NotShowing
<1>12. CASE SendControlMail
  BY <1>12 DEF SendControlMail
<1>13. CASE AnswerQuestion
  BY <1>13 DEF AnswerQuestion
<1>14. CASE CheckMail
  BY <1>14 DEF CheckMail, homeRows
<1> QED
  BY <1>1, <1>2, <1>3, <1>4, <1>5, <1>6, <1>7, <1>8, <1>9, <1>10, <1>11, <1>12, <1>13, <1>14 DEF HomeStep
-----------------------------------------------------------------------------
(***************************************************************************)
(* Steps of the paired host.                                               *)
(***************************************************************************)
LEMMA SentTyped ==
    ASSUME SyncTyped, SyncInv, sync.phase = "acking"
    PROVE  Sent \in Ack /\ Sent.through = sync.through /\ Sent.verdicts \subseteq sync.verdicts
<1>1. sync.through \in 1 .. MaxSequence /\ sync.cursor \in 1 .. MaxSequence
  BY SyncFields, BoundAssumption DEF SyncInv, SyncTyped
<1> QED BY <1>1, SyncFields DEF Sent, UpTo, Ack

\* What an acknowledgement may do to the attachment.
LEMMA AckMovesReady ==
    ASSUME NEW ack \in Ack, QueueTyped, RemoteTyped, WorkerTyped, TakeAck(ack)
    PROVE  \/ UNCHANGED <<attachment, stage>>
           \/ /\ attachment = "ready" /\ attachment' \in Outcomes
              /\ stage' = "worker_report_settled"
BY TakeAckEffect

LEMMA LateAckTaken ==
    ASSUME QueueTyped, LateAck
    PROVE  \E ack \in Ack : /\ ack \in lateAcks
                            /\ \/ Taken(ack) /\ TakeAck(ack)
                               \/ UNCHANGED <<remoteRow, queue, worker>>
                            /\ lateAcks' = lateAcks \ {ack}
BY DEF LateAck, QueueTyped

LEMMA RemoteStepRemote ==
    ASSUME Typed, HomeInv, RemoteInv, EpochInv, RemoteStep
    PROVE  /\ HomeInv' /\ RemoteInv' /\ EpochInv'
           /\ attachment \in Ended => attachment' = attachment
<1> USE HomePartsKept
    DEF Typed, showState, relayRows, stopState, startState, epochs, syncMemory, homeRows, Ended
<1>h. /\ home' = home /\ (attachment = "stopped" => attachment' = "stopped") => HomeInv'
  BY DEF HomeInv, Active
<1>1. CASE CreateRemoteDispatchAttachment
  BY <1>1, <1>h DEF CreateRemoteDispatchAttachment, RemoteInv
<1>2. CASE PrepareRemoteAttachmentAuthority
  BY <1>2 DEF PrepareRemoteAttachmentAuthority
<1>3. CASE MarkRemoteAttachmentReady
  BY <1>3, <1>h DEF MarkRemoteAttachmentReady, RemoteInv
<1>4. CASE FailRemoteAttachment
  BY <1>4, <1>h DEF FailRemoteAttachment, RemoteInv
<1>5. CASE BeginRemoteAttachmentStop
  BY <1>5, <1>h DEF BeginRemoteAttachmentStop, RemoteInv, remoteRow
<1>6. CASE SettleRemoteAttachmentStop
  BY <1>6, <1>h DEF SettleRemoteAttachmentStop, RemoteInv
<1>7. CASE AnswerShow
  <2>1. remoteEpoch \in Nat /\ show \in ShowRecord
    BY DEF RemoteTyped, ShowTyped
  <2>2. show' = [show EXCEPT !.phase = "answered", !.state = attachment, !.stage = stage, !.epoch = remoteEpoch]
    BY <1>7 DEF AnswerShow
  <2>3. show'.phase = "answered" /\ show'.state = attachment /\ show'.epoch = remoteEpoch
        /\ show'.fence = show.fence
    BY <2>1, <2>2 DEF ShowRecord
  <2> QED BY <1>7, <1>h, <2>1, <2>3 DEF AnswerShow, RemoteInv, EpochInv, remoteRow
<1>8. ASSUME NEW kind \in Sends, NEW outcome \in Outcomes \cup {"none"}, WorkerSends(kind, outcome)
      PROVE  RemoteInv' /\ HomeInv' /\ EpochInv' /\ (attachment \in Ended => attachment' = attachment)
  <2>1. UNCHANGED attachment \/ (attachment = "ready" /\ attachment' \in Outcomes)
    <3>1. QueueSettles(outcome)
      BY <1>8 DEF WorkerSends
    <3>2. \/ attachment' = attachment
          \/ outcome # "none" /\ attachment = "ready" /\ attachment' = outcome
      BY <3>1 DEF QueueSettles, remoteRow
    <3> QED BY <3>2
  <2> QED BY <1>8, <1>h, <2>1 DEF WorkerSends, RemoteInv, Outcomes
<1>9. CASE StopWaiting
  BY <1>9 DEF StopWaiting, remoteRow
<1>10. CASE ReportSetup
  BY <1>10 DEF ReportSetup, remoteRow
<1>11. CASE LateAck
  <2>1. UNCHANGED attachment \/ (attachment = "ready" /\ attachment' \in Outcomes)
    <3>1. PICK ack \in Ack : TakeAck(ack) \/ UNCHANGED <<remoteRow, queue, worker>>
      BY <1>11, LateAckTaken
    <3>2. CASE TakeAck(ack)
      BY <3>2, AckMovesReady
    <3> QED BY <3>1, <3>2 DEF remoteRow
  <2> QED BY <1>11, <1>h, <2>1 DEF LateAck, RemoteInv, Outcomes
<1> QED
  BY <1>1, <1>2, <1>3, <1>4, <1>5, <1>6, <1>7, <1>8, <1>9, <1>10, <1>11 DEF RemoteStep

\* What the queue owes the rest of the invariant when it is rewritten: the items
\* stay, with their reports, and none of them is acknowledged less than before.
QueueGrows ==
    /\ DOMAIN items \subseteq DOMAIN items'
    /\ \A n \in DOMAIN items :
          /\ items[n].acked => items'[n].acked
          /\ items[n].kind = "worker_done" => items'[n].kind = "worker_done"
          /\ \/ items'[n].kind = items[n].kind
             \/ items[n].kind = "heartbeat" /\ items'[n].kind = "worker_done"

LEMMA QueueSpan ==
    ASSUME QueueTyped, QueueInv, RelayTyped
    PROVE  /\ Len(items) \in Nat /\ DOMAIN items = 1 .. Len(items)
           /\ imported \in Nat /\ imported <= Len(items)
           /\ \A n \in DOMAIN items : n \in Nat /\ items[n] \in Item
           /\ acked \in Nat
BY BoundAssumption DEF QueueTyped, QueueInv, RelayTyped

LEMMA PutsGrows ==
    ASSUME QueueTyped, QueueInv, RelayTyped, imported' = imported,
           NEW kind \in MessageKinds, NEW outcome \in Outcomes \cup {"none"}, NEW n,
           Puts(kind, outcome, n), kind = "worker_done" <=> outcome # "none"
    PROVE  QueueGrows /\ QueueInv' /\ ~items'[n].acked
<1>1. /\ n \in 1 .. MaxSequence
      /\ items' \in Seq(Item) /\ Len(items') <= MaxSequence
      /\ DOMAIN items \subseteq DOMAIN items' /\ n \in DOMAIN items'
      /\ items'[n] = [kind |-> kind, outcome |-> outcome, acked |-> FALSE]
      /\ \A m \in DOMAIN items' \ {n} : m \in DOMAIN items /\ items'[m] = items[m]
      /\ Len(items) <= Len(items')
  BY PutsTypes
<1>2. n \in DOMAIN items => items[n].kind = "heartbeat" /\ ~items[n].acked /\ kind = "worker_done"
  BY QueueSpan DEF Puts
<1>3. QueueGrows
  BY <1>1, <1>2 DEF QueueGrows
<1>4. imported' <= Len(items')
  BY <1>1, QueueSpan
<1>5. ASSUME NEW m \in DOMAIN items', items'[m].acked
      PROVE  m <= imported' /\ \A k \in 1 .. m : items'[k].acked
  <2>1. m # n /\ m \in DOMAIN items /\ items[m].acked
    BY <1>1, <1>5
  <2>2. m <= imported /\ \A k \in 1 .. m : items[k].acked
    BY <2>1 DEF QueueInv
  <2>3. ASSUME NEW k \in 1 .. m PROVE items'[k].acked
    <3>1. k \in DOMAIN items
      BY <2>1, QueueSpan
    <3> QED BY <1>3, <2>2, <3>1 DEF QueueGrows
  <2> QED BY <2>2, <2>3
<1>6. ASSUME NEW m \in DOMAIN items'
      PROVE  items'[m].kind = "worker_done" <=> items'[m].outcome # "none"
  <2>1. CASE m = n
    BY <1>1, <2>1
  <2>2. CASE m # n
    BY <1>1, <2>2 DEF QueueInv
  <2> QED BY <2>1, <2>2
<1> QED BY <1>1, <1>3, <1>4, <1>5, <1>6 DEF QueueInv

LEMMA AckGrows ==
    ASSUME QueueTyped, QueueInv, RelayTyped, RemoteTyped, WorkerTyped, UNCHANGED imported,
           NEW ack \in Ack, TakeAck(ack), ack.through <= imported,
           \A done \in receipts : \A n \in 1 .. done.through : items[n].acked
    PROVE  /\ QueueGrows /\ QueueInv' /\ Len(items') = Len(items)
           /\ \A n \in 1 .. ack.through : items'[n].acked
<1>1. /\ items' \in Seq(Item) /\ Len(items') = Len(items)
      /\ \A n \in DOMAIN items : /\ items'[n].kind = items[n].kind
                                 /\ items'[n].outcome = items[n].outcome
                                 /\ items'[n].acked <=> items[n].acked \/ (ack \notin receipts /\ n <= ack.through)
  BY TakeAckEffect
<1>2. DOMAIN items' = DOMAIN items /\ DOMAIN items = 1 .. Len(items) /\ ack.through \in Nat
      /\ Len(items) \in Nat /\ imported \in Nat /\ imported <= Len(items)
  BY <1>1, QueueSpan, BoundAssumption DEF Ack
<1>3. QueueGrows
  BY <1>1, <1>2 DEF QueueGrows
<1>4. ASSUME NEW n \in 1 .. ack.through PROVE items'[n].acked
  <2>1. n \in DOMAIN items
    BY <1>2
  <2> QED BY <1>1, <1>4, <2>1
<1>5. ASSUME NEW n \in DOMAIN items', items'[n].acked
      PROVE  n <= imported' /\ \A m \in 1 .. n : items'[m].acked
  <2>1. n \in DOMAIN items /\ n \in Nat
    BY <1>2
  <2>2. CASE items[n].acked
    <3>1. n <= imported /\ \A m \in 1 .. n : items[m].acked /\ m \in DOMAIN items
      BY <1>2, <2>1, <2>2 DEF QueueInv
    <3> QED BY <1>3, <3>1 DEF QueueGrows
  <2>3. CASE ~items[n].acked
    <3>1. n <= ack.through
      BY <1>1, <1>5, <2>1, <2>3
    <3> QED BY <1>2, <1>4, <2>1, <3>1
  <2> QED BY <2>2, <2>3
<1> QED BY <1>1, <1>2, <1>3, <1>4, <1>5 DEF QueueInv

\* A queue that grows keeps what the sync and the watermark say of it.
LEMMA GrowthKeeps ==
    ASSUME SyncTyped, QueueTyped, QueueInv, RelayTyped, QueueGrows, UNCHANGED imported, items' \in Seq(Item)
    PROVE  /\ PageInv /\ UNCHANGED <<sync>> => PageInv'
           /\ /\ SyncInv /\ UNCHANGED sync
              /\ \A ack \in lateAcks' : ack \in lateAcks
              /\ \A ack \in receipts' : \/ ack \in receipts
                                        \/ ack.through <= imported /\ \A n \in 1 .. ack.through : items'[n].acked
              => SyncInv'
           /\ WatermarkIsCovered /\ UNCHANGED acked => WatermarkIsCovered'
           /\ \A k \in Nat : k <= imported /\ (\A n \in 1 .. k : items[n].acked) =>
                                \A n \in 1 .. k : items'[n].acked
           /\ \A p \in Pulled : p.sequence <= Len(items) /\ SameItem(p) =>
                                    p.sequence <= Len(items') /\ SameItem(p)'
<1>1. Len(items) \in Nat /\ DOMAIN items = 1 .. Len(items) /\ imported \in Nat /\ imported <= Len(items)
      /\ Len(items') \in Nat /\ Len(items) <= Len(items')
  <2>1. Len(items') \in Nat /\ DOMAIN items' = 1 .. Len(items')
    OBVIOUS
  <2>2. Len(items) \in Nat /\ DOMAIN items = 1 .. Len(items) /\ 1 .. Len(items) \subseteq 1 .. Len(items')
    BY <2>1, QueueSpan DEF QueueGrows
  <2>3. Len(items) <= Len(items')
    BY <2>1, <2>2
  <2> QED BY <2>1, <2>3, QueueSpan
<1>2. \A n \in DOMAIN items : items[n].acked => items'[n].acked
  BY DEF QueueGrows
<1>3. ASSUME NEW k \in Nat, k <= imported, \A n \in 1 .. k : items[n].acked
      PROVE  \A n \in 1 .. k : items'[n].acked
  <2>1. \A n \in 1 .. k : n \in DOMAIN items
    BY <1>1, <1>3
  <2> QED BY <1>2, <1>3, <2>1
<1>4. ASSUME NEW p \in Pulled, p.sequence <= Len(items), SameItem(p)
      PROVE  p.sequence <= Len(items') /\ SameItem(p)'
  <2>1. p.sequence \in DOMAIN items /\ p.sequence \in Nat
    BY <1>1, <1>4, BoundAssumption DEF Pulled
  <2> QED BY <1>1, <1>4, <2>1 DEF QueueGrows, SameItem
<1>5. PageInv /\ UNCHANGED <<sync>> => PageInv'
  <2>1. \A i \in 1 .. Len(sync.page) : sync.page[i] \in Pulled
    BY SyncFields
  <2> QED BY <1>4, <2>1 DEF PageInv
<1>6. /\ SyncInv /\ UNCHANGED sync
      /\ \A ack \in lateAcks' : ack \in lateAcks
      /\ \A ack \in receipts' : \/ ack \in receipts
                                \/ ack.through <= imported /\ \A n \in 1 .. ack.through : items'[n].acked
      => SyncInv'
  <2> SUFFICES ASSUME SyncInv, UNCHANGED sync, \A ack \in lateAcks' : ack \in lateAcks,
                      \A ack \in receipts' : \/ ack \in receipts
                                             \/ ack.through <= imported /\ \A n \in 1 .. ack.through : items'[n].acked
               PROVE  SyncInv'
    OBVIOUS
  <2>1. sync.phase = "acked" => \A n \in 1 .. sync.through : items'[n].acked
    <3>1. sync.phase = "acked" => sync.through \in Nat /\ sync.through <= imported
      <4>1. sync.cursor \in Nat /\ sync.cursor <= imported
        BY SyncFields, BoundAssumption DEF SyncInv
      <4> QED BY <1>1, <4>1 DEF SyncInv
    <3> QED BY <1>3, <3>1 DEF SyncInv
  <2>2. ASSUME NEW ack \in receipts'
        PROVE  ack.through <= imported /\ \A n \in 1 .. ack.through : items'[n].acked
    <3>1. CASE ack \in receipts
      <4>1. ack.through \in Nat /\ ack.through <= imported /\ \A n \in 1 .. ack.through : items[n].acked
        BY <3>1, BoundAssumption DEF QueueTyped, Ack, SyncInv
      <4> QED BY <1>3, <4>1
    <3> QED BY <2>2, <3>1
  <2>3. \A ack \in lateAcks' : ack.through <= imported'
    BY DEF SyncInv
  <2> QED BY <2>1, <2>2, <2>3 DEF SyncInv
<1>7. WatermarkIsCovered /\ UNCHANGED acked => WatermarkIsCovered'
  BY <1>3, QueueSpan DEF WatermarkIsCovered
<1>8. \A k \in Nat : k <= imported /\ (\A n \in 1 .. k : items[n].acked) =>
                         \A n \in 1 .. k : items'[n].acked
  BY <1>3
<1>9. \A p \in Pulled : p.sequence <= Len(items) /\ SameItem(p) =>
                           p.sequence <= Len(items') /\ SameItem(p)'
  BY <1>4
<1> QED BY <1>5, <1>6, <1>7, <1>8, <1>9, Zenon
-----------------------------------------------------------------------------
(***************************************************************************)
(* The verdicts under way stay true, and so does what was made of them.    *)
(***************************************************************************)
EndsKept ==
    /\ home.worker \in Ended => home'.worker = home.worker
    /\ attachment \in Ended => attachment' = attachment

LEMMA GoodVerdictKept ==
    ASSUME NEW v \in Verdict, GoodVerdict(v), QueueTyped, QueueInv, RelayTyped, EndsKept,
           QueueGrows \/ UNCHANGED items,
           imported' \in Nat, imported <= imported', mailbox \subseteq mailbox'
    PROVE  GoodVerdict(v)'
<1>1. v.sequence \in DOMAIN items /\ v.sequence \in Nat /\ v.sequence <= imported'
  BY QueueSpan, BoundAssumption DEF GoodVerdict, Verdict
<1>2. items'[v.sequence].kind = "worker_done" /\ <<v.sequence, "worker_done">> \in mailbox'
  BY <1>1 DEF GoodVerdict, QueueGrows
<1>3. v.action \in Outcomes => VerdictTrue(v.action)'
  BY DEF GoodVerdict, VerdictTrue, EndsKept, Outcomes, Ended
<1> QED BY <1>1, <1>2, <1>3 DEF GoodVerdict

LEMMA VerdictsKept ==
    ASSUME SyncTyped, QueueTyped, QueueInv, RelayTyped, VerdictInv, EndsKept,
           QueueGrows \/ UNCHANGED items,
           imported' \in Nat, imported <= imported', mailbox \subseteq mailbox'
    PROVE  /\ \A v \in sync.verdicts : GoodVerdict(v)'
           /\ \A ack \in lateAcks : \A v \in ack.verdicts : GoodVerdict(v)'
<1>1. ASSUME NEW v \in sync.verdicts PROVE GoodVerdict(v)'
  <2>1. v \in Verdict /\ GoodVerdict(v)
    BY SyncFields DEF VerdictInv
  <2> QED BY <2>1, GoodVerdictKept
<1>2. ASSUME NEW ack \in lateAcks, NEW v \in ack.verdicts PROVE GoodVerdict(v)'
  <2>1. v \in Verdict /\ GoodVerdict(v)
    BY DEF QueueTyped, Ack, VerdictInv
  <2> QED BY <2>1, GoodVerdictKept
<1> QED BY <1>1, <1>2

LEMMA TruthKept ==
    ASSUME TruthInv, EndsKept,
           stage' \in {stage, "none", "worker_report_queued"},
           UNCHANGED told \/ told'.action \notin Outcomes \/ ~SettlesAtHome
    PROVE  TruthInv'
BY DEF TruthInv, VerdictComesFromHome, WorkerIsToldTheTruth, EndsKept, Ended, Outcomes, SettlesAtHome

LEMMA AckTruth ==
    ASSUME QueueTyped, RemoteTyped, WorkerTyped, TruthInv, EndsKept, UNCHANGED home,
           NEW ack \in Ack, Taken(ack), TakeAck(ack), \A v \in ack.verdicts : GoodVerdict(v)
    PROVE  TruthInv'
<1>1. /\ \/ UNCHANGED <<attachment, stage>>
         \/ /\ attachment = "ready" /\ stage' = "worker_report_settled"
            /\ attachment' \in {v.action : v \in ack.verdicts} \cap Outcomes
      /\ UNCHANGED told \/ (ack \notin receipts /\ told' \in ack.verdicts)
  BY TakeAckEffect
<1>2. ASSUME NEW v \in ack.verdicts, v.action \in Outcomes, attachment # "stopped"
      PROVE  home.worker = v.action
  BY <1>2 DEF GoodVerdict, VerdictTrue
<1>3. (stage' = "worker_report_settled" => attachment' \in Outcomes) /\ VerdictComesFromHome'
  <2>1. CASE UNCHANGED <<attachment, stage>>
    BY <2>1 DEF TruthInv, VerdictComesFromHome
  <2>2. CASE attachment = "ready" /\ attachment' \in {v.action : v \in ack.verdicts} \cap Outcomes
    <3>1. PICK v \in ack.verdicts : attachment' = v.action /\ v.action \in Outcomes
      BY <2>2
    <3>2. home.worker = attachment'
      BY <1>2, <2>2, <3>1
    <3> QED BY <3>1, <3>2 DEF VerdictComesFromHome
  <2> QED BY <1>1, <2>1, <2>2
<1>4. WorkerIsToldTheTruth'
  <2>1. CASE UNCHANGED told
    BY <2>1 DEF TruthInv, WorkerIsToldTheTruth, SettlesAtHome
  <2>2. CASE ack \notin receipts /\ told' \in ack.verdicts
    <3>1. AckAcceptable(ack.through, ack.verdicts)
      BY <2>2 DEF Taken
    <3>2. told'.action \in Outcomes => told'.action \in {v.action : v \in ack.verdicts} \ {"rejected"}
      BY <2>2 DEF Outcomes
    <3>3. told'.action \in Outcomes => attachment = told'.action \/ attachment = "ready"
      BY <3>1, <3>2 DEF AckAcceptable
    <3> QED BY <1>2, <2>2, <3>3 DEF WorkerIsToldTheTruth, Outcomes
  <2> QED BY <1>1, <2>1, <2>2
<1> QED BY <1>3, <1>4 DEF TruthInv
-----------------------------------------------------------------------------
(***************************************************************************)
(* Each step keeps what the relay's parts of the invariant say.            *)
(***************************************************************************)
RelayParts == QueueInv /\ PageInv /\ SyncInv /\ WatermarkIsCovered /\ VerdictInv

\* A step that leaves the relay alone.
LEMMA QuietStep ==
    ASSUME Typed, RelayParts, EndsKept,
           UNCHANGED <<items, imported, mailbox, acked, sync, lateAcks, receipts>>,
           stage' \in {stage, "none", "worker_report_queued"},
           UNCHANGED told \/ told'.action \notin Outcomes \/ ~SettlesAtHome
    PROVE  RelayParts'
<1>1. imported \in Nat
  BY QueueSpan DEF Typed, RelayParts
<1>2. /\ \A v \in sync.verdicts : GoodVerdict(v)'
      /\ \A ack \in lateAcks : \A v \in ack.verdicts : GoodVerdict(v)'
  BY <1>1, VerdictsKept DEF Typed, RelayParts
<1>3. TruthInv'
  BY TruthKept DEF RelayParts, VerdictInv
<1>4. VerdictInv'
  BY <1>2, <1>3 DEF VerdictInv
<1> QED BY <1>4, RelayPartsKept DEF RelayParts

LEMMA HomeStepRelay ==
    ASSUME Typed, HomeInv, RemoteInv, RelayParts, HomeStep
    PROVE  RelayParts'
<1>1. EndsKept
  BY HomeStepHome DEF EndsKept, HomeStep, CreateTask, StartWorker, StartAnswered, StartGivesUp,
     BeginWorkerStop, StopAnswered, StopGivesUp, AbandonWorkerDispatch, BeginShow, ProjectShow, LoseShow,
     SendControlMail, AnswerQuestion, CheckMail, remoteRow
<1>2. UNCHANGED <<items, imported, mailbox, acked, sync, lateAcks, receipts, stage, told>>
  BY DEF HomeStep, CreateTask, StartWorker, StartAnswered, StartGivesUp,
     BeginWorkerStop, StopAnswered, StopGivesUp, AbandonWorkerDispatch, BeginShow, ProjectShow, LoseShow,
     SendControlMail, AnswerQuestion, CheckMail, remoteRow, queue, relayRows, syncMemory, worker
<1> QED BY <1>1, <1>2, QuietStep

LEMMA RemoteStepRelay ==
    ASSUME Typed, HomeInv, RemoteInv, EpochInv, RelayParts, RemoteStep
    PROVE  RelayParts'
<1>e. EndsKept
  <2>1. home' = home
    BY DEF RemoteStep, CreateRemoteDispatchAttachment, PrepareRemoteAttachmentAuthority,
       MarkRemoteAttachmentReady, FailRemoteAttachment, BeginRemoteAttachmentStop,
       SettleRemoteAttachmentStop, AnswerShow, WorkerSends, StopWaiting, ReportSetup, LateAck, homeRows
  <2> QED BY <2>1, RemoteStepRemote DEF EndsKept
<1>s. imported \in Nat /\ SyncTyped /\ QueueTyped /\ RelayTyped /\ RemoteTyped /\ WorkerTyped
      /\ QueueInv /\ PageInv /\ SyncInv /\ WatermarkIsCovered /\ VerdictInv
  BY QueueSpan DEF Typed, RelayParts
<1> USE <1>e DEF remoteRow, queue, relayRows, syncMemory, worker
<1>1. CASE CreateRemoteDispatchAttachment
  BY <1>1, QuietStep DEF CreateRemoteDispatchAttachment
<1>2. CASE PrepareRemoteAttachmentAuthority
  BY <1>2, QuietStep DEF PrepareRemoteAttachmentAuthority
<1>3. CASE MarkRemoteAttachmentReady
  BY <1>3, QuietStep DEF MarkRemoteAttachmentReady
<1>4. CASE FailRemoteAttachment
  BY <1>4, QuietStep DEF FailRemoteAttachment
<1>5. CASE BeginRemoteAttachmentStop
  BY <1>5, QuietStep DEF BeginRemoteAttachmentStop
<1>6. CASE SettleRemoteAttachmentStop
  BY <1>6, QuietStep DEF SettleRemoteAttachmentStop
<1>7. CASE AnswerShow
  BY <1>7, QuietStep DEF AnswerShow
<1>8. ASSUME NEW kind \in MessageKinds, NEW outcome \in Outcomes \cup {"none"}, NEW n,
             Enqueue(kind, outcome, n), kind = "worker_done" <=> outcome # "none",
             UNCHANGED <<imported, mailbox, acked, sync, lateAcks, receipts>>,
             stage' \in {stage, "none", "worker_report_queued"},
             UNCHANGED told \/ told'.action \notin Outcomes \/ ~SettlesAtHome
      PROVE  RelayParts'
  <2>1. CASE UNCHANGED items
    BY <1>8, <2>1, QuietStep
  <2>2. CASE Puts(kind, outcome, n)
    <3>1. QueueGrows /\ QueueInv' /\ items' \in Seq(Item)
      BY <1>s, <1>8, <2>2, PutsGrows, PutsTypes
    <3>2. PageInv' /\ SyncInv' /\ WatermarkIsCovered'
      BY <1>s, <1>8, <3>1, GrowthKeeps
    <3>3. /\ \A v \in sync.verdicts : GoodVerdict(v)'
          /\ \A ack \in lateAcks : \A v \in ack.verdicts : GoodVerdict(v)'
      BY <1>s, <1>8, <3>1, VerdictsKept
    <3>4. TruthInv'
      BY <1>s, <1>8, TruthKept DEF VerdictInv
    <3> QED BY <1>8, <3>1, <3>2, <3>3, <3>4 DEF RelayParts, VerdictInv
  <2> QED BY <1>8, <1>s, <2>1, <2>2, EnqueuePuts DEF QueueTyped
<1>9. ASSUME NEW kind \in Sends, NEW outcome \in Outcomes \cup {"none"}, WorkerSends(kind, outcome)
      PROVE  RelayParts'
  <2>1. PICK n \in 1 .. MaxSequence :
            /\ Enqueue(kind, outcome, n)
            /\ told' = IF kind = "worker_done"
                       THEN [sequence |-> n, action |-> IF SettlesAtHome THEN "nothing" ELSE outcome]
                       ELSE told
    BY <1>9 DEF WorkerSends
  <2>2. UNCHANGED told \/ told'.action \notin Outcomes \/ ~SettlesAtHome
    BY <2>1 DEF Outcomes
  <2>3. QueueSettles(outcome) /\ (kind = "worker_done" <=> outcome # "none")
        /\ UNCHANGED <<imported, mailbox, acked, sync, lateAcks, receipts>>
    BY <1>9 DEF WorkerSends
  <2>4. stage' \in {stage, "none", "worker_report_queued"}
    BY <2>3 DEF QueueSettles
  <2> QED BY <1>8, <2>1, <2>2, <2>3, <2>4, SendsAssumption DEF MessageKinds
<1>10. CASE StopWaiting
  <2>1. told'.action = "unknown"
    BY <1>10, <1>s DEF StopWaiting, WorkerTyped
  <2> QED BY <1>10, <2>1, QuietStep DEF StopWaiting, Outcomes
<1>11. CASE ReportSetup
  BY <1>8, <1>11 DEF ReportSetup, MessageKinds
<1>12. CASE LateAck
  <2>1. PICK ack \in Ack : /\ ack \in lateAcks
                           /\ \/ Taken(ack) /\ TakeAck(ack)
                              \/ UNCHANGED <<remoteRow, queue, worker>>
                           /\ lateAcks' = lateAcks \ {ack}
    BY <1>12, <1>s, LateAckTaken
  <2>2. UNCHANGED <<home, imported, mailbox, acked, sync>>
    BY <1>12 DEF LateAck, homeRows
  <2>3. CASE UNCHANGED <<remoteRow, queue, worker>>
    <3>1. SyncInv' /\ QueueInv' /\ PageInv' /\ WatermarkIsCovered'
      BY <1>s, <2>1, <2>2, <2>3, RelayPartsKept DEF SyncInv
    <3>2. TruthInv'
      BY <1>s, <2>3, TruthKept DEF VerdictInv
    <3>3. /\ \A v \in sync.verdicts : GoodVerdict(v)'
          /\ \A a \in lateAcks : \A v \in a.verdicts : GoodVerdict(v)'
      BY <1>s, <2>2, <2>3, VerdictsKept
    <3> QED BY <2>1, <2>2, <3>1, <3>2, <3>3 DEF RelayParts, VerdictInv
  <2>4. CASE Taken(ack) /\ TakeAck(ack)
    <3>1. /\ QueueGrows /\ QueueInv' /\ \A n \in 1 .. ack.through : items'[n].acked
          /\ items' \in Seq(Item) /\ receipts' = receipts \cup {ack}
      BY <1>s, <2>1, <2>2, <2>4, AckGrows, TakeAckEffect DEF SyncInv
    <3>2. PageInv' /\ WatermarkIsCovered'
      BY <1>s, <2>2, <3>1, GrowthKeeps
    <3>3. SyncInv'
      <4>1. ack.through <= imported
        BY <1>s, <2>1 DEF SyncInv
      <4> QED BY <1>s, <2>1, <2>2, <3>1, <4>1, GrowthKeeps
    <3>4. /\ \A v \in sync.verdicts : GoodVerdict(v)'
          /\ \A a \in lateAcks : \A v \in a.verdicts : GoodVerdict(v)'
      BY <1>s, <2>2, <3>1, VerdictsKept
    <3>5. TruthInv'
      BY <1>s, <2>1, <2>2, <2>4, AckTruth DEF VerdictInv
    <3> QED BY <2>1, <2>2, <3>1, <3>2, <3>3, <3>4, <3>5 DEF RelayParts, VerdictInv
  <2> QED BY <2>1, <2>3, <2>4
<1> QED
  BY <1>1, <1>2, <1>3, <1>4, <1>5, <1>6, <1>7, <1>9, <1>10, <1>11, <1>12 DEF RemoteStep

HomeParts == HomeInv /\ RemoteInv /\ EpochInv

\* A step of the sync that touches neither the rows of the home nor the queue.
LEMMA SyncMoves ==
    ASSUME Typed, HomeParts, RelayParts,
           UNCHANGED <<home, attach, attachment, stopRun, show, remoteEpoch, stage, told,
                       items, imported, mailbox, receipts>>,
           peerEpoch' <= remoteEpoch, sync'.epoch <= remoteEpoch,
           PageInv', SyncInv', WatermarkIsCovered',
           \A v \in sync'.verdicts : v \in sync.verdicts,
           \A ack \in lateAcks' :
               ack \in lateAcks \/ \A v \in ack.verdicts : v \in sync.verdicts
    PROVE  HomeParts' /\ RelayParts'
<1>1. HomeParts'
  BY HomePartsKept DEF HomeParts, EpochInv
<1>2. /\ \A v \in sync.verdicts : GoodVerdict(v)'
      /\ \A ack \in lateAcks : \A v \in ack.verdicts : GoodVerdict(v)'
  BY QueueSpan, VerdictsKept DEF Typed, RelayParts, EndsKept
<1>3. TruthInv'
  BY TruthKept DEF RelayParts, VerdictInv, EndsKept
<1>4. VerdictInv'
  BY <1>2, <1>3 DEF VerdictInv
<1>5. QueueInv'
  BY RelayPartsKept DEF RelayParts
<1> QED BY <1>1, <1>4, <1>5 DEF RelayParts

\* A sync that ends or reads its next page holds nothing yet.
LEMMA FreshSync ==
    ASSUME Typed, SyncInv, sync' = NotSyncing \/ (\E n : sync' = Page(n)),
           UNCHANGED <<items, imported, receipts>>,
           \A ack \in lateAcks' : ack.through <= imported
    PROVE  PageInv' /\ SyncInv' /\ sync'.verdicts = {} /\ sync'.epoch = 0
<1>1. imported \in Nat /\ Len(<< >>) = 0
  BY BoundAssumption DEF Typed, RelayTyped
<1>2. /\ sync'.page = << >> /\ sync'.verdicts = {} /\ sync'.epoch = 0
      /\ sync'.cursor = 0 /\ sync'.barrier = 0 /\ sync'.imported \in {0, imported}
      /\ sync'.phase \in {"idle", "probing", "pulling"}
  <2>1. CASE sync' = NotSyncing
    BY <2>1 DEF NotSyncing
  <2>2. ASSUME NEW n, sync' = Page(n)
        PROVE  /\ sync'.page = << >> /\ sync'.verdicts = {} /\ sync'.epoch = 0
               /\ sync'.cursor = 0 /\ sync'.barrier = 0 /\ sync'.imported = imported
               /\ sync'.phase \in {"probing", "pulling"}
    BY <2>2 DEF Page, NotSyncing
  <2> QED BY <2>1, <2>2
<1>3. PageInv'
  BY <1>1, <1>2 DEF PageInv
<1>4. SyncInv'
  BY <1>1, <1>2 DEF SyncInv
<1> QED BY <1>2, <1>3, <1>4

\* What BeginImport, FinishImport, RecordAck and AnswerPush leave of the sync.
LEMMA BeginImportKeeps ==
    ASSUME Typed, SyncInv, PageInv, QueueInv, BeginImport
    PROVE  PageInv' /\ SyncInv' /\ sync'.verdicts = sync.verdicts /\ sync'.epoch = sync.epoch
<1> DEFINE cursor == IF Replays /\ sync.page # << >> THEN sync.page[1].sequence - 1 ELSE sync.imported
<1>1. sync \in SyncRecord /\ sync.page \in Seq(Pulled) /\ Len(sync.page) \in Nat /\ sync.imported \in Nat
      /\ imported \in Nat
  BY BoundAssumption, SyncFields, SMTT(30) DEF Typed, SyncTyped, RelayTyped
<1>2. sync' = [sync EXCEPT !.phase = "importing", !.next = 1, !.cursor = cursor]
      /\ sync.phase = "paged" /\ UNCHANGED <<items, imported, lateAcks, receipts>>
  BY DEF BeginImport, syncFrame, queue
<1>3. sync'.phase = "importing" /\ sync'.next = 1 /\ sync'.cursor = cursor /\ sync'.page = sync.page
      /\ sync'.barrier = sync.barrier /\ sync'.imported = sync.imported
      /\ sync'.verdicts = sync.verdicts /\ sync'.epoch = sync.epoch
  BY <1>1, <1>2 DEF SyncRecord
<1>4. cursor \in Nat /\ cursor <= imported
  <2>1. sync.page # << >> => sync.page[1] \in Pulled /\ sync.page[1].sequence <= imported + 1
    BY <1>1 DEF PageInv
  <2>2. sync.imported <= imported
    BY DEF SyncInv
  <2> QED BY <1>1, <2>1, <2>2, BoundAssumption, SMTT(30) DEF Pulled
<1> HIDE DEF cursor
<1>5. PageInv'
  BY <1>1, <1>2, <1>3 DEF PageInv, SameItem
<1>6. SyncInv'
  BY <1>2, <1>3, <1>4 DEF SyncInv
<1> QED BY <1>3, <1>5, <1>6

LEMMA AnswerPullKeeps ==
    ASSUME Typed, SyncInv, PageInv, QueueInv, AnswerPull
    PROVE  PageInv' /\ SyncInv' /\ sync'.verdicts = sync.verdicts /\ sync'.epoch = remoteEpoch
<1>1. /\ sync'.page \in Seq(Pulled)
      /\ sync' = [sync EXCEPT !.phase = "paged", !.epoch = remoteEpoch, !.page = sync'.page]
      /\ \A i \in 1 .. Len(sync'.page) :
            /\ sync'.page[i].sequence \in 1 .. Len(items)
            /\ sync'.page[i].kind = items[sync'.page[i].sequence].kind
            /\ sync'.page[i].outcome = items[sync'.page[i].sequence].outcome
      /\ sync'.page # << >> =>
            /\ sync'.page[1].sequence \in Asked
            /\ \A m \in Asked : sync'.page[1].sequence <= m
  BY PulledPage DEF Typed
<1>2. sync \in SyncRecord /\ sync.phase = "pulling" /\ UNCHANGED <<items, imported, lateAcks, receipts>>
  BY DEF Typed, SyncTyped, AnswerPull, syncFrame, queue
<1>3. sync'.phase = "paged" /\ sync'.cursor = sync.cursor /\ sync'.barrier = sync.barrier
      /\ sync'.imported = sync.imported /\ sync'.verdicts = sync.verdicts /\ sync'.epoch = remoteEpoch
  BY <1>1, <1>2 DEF SyncRecord
<1>4. /\ Len(items) \in Nat /\ DOMAIN items = 1 .. Len(items) /\ imported \in Nat /\ imported <= Len(items)
      /\ sync.imported \in Nat /\ sync.imported <= imported
  BY QueueSpan, SyncFields, BoundAssumption, SMTT(30) DEF Typed, SyncInv
<1>5. sync'.page # << >> => sync'.page[1].sequence <= imported + 1
  <2> SUFFICES ASSUME sync'.page # << >> PROVE sync'.page[1].sequence <= imported + 1
    OBVIOUS
  <2> DEFINE from == sync'.page[1].sequence
  <2>1. from \in Asked /\ (\A m \in Asked : from <= m) /\ from \in 1 .. Len(items)
    BY <1>1, <1>4 DEF Asked, Unacked
  <2> HIDE DEF from
  <2>2. CASE Replays
    <3>1. imported < Len(items) => imported + 1 \in Unacked
      BY <1>4 DEF Unacked, QueueInv
    <3>2. imported < Len(items) => from <= imported + 1
      BY <2>1, <2>2, <3>1 DEF Asked
    <3>3. ~(imported < Len(items)) => from <= imported + 1
      BY <1>4, <2>1
    <3> QED BY <3>2, <3>3 DEF from
  <2>3. CASE ~Replays
    <3>1. from > sync.imported
      BY <2>1, <2>3 DEF Asked
    <3>2. sync.imported + 1 \in Asked
      BY <1>4, <2>1, <2>3, <3>1 DEF Asked
    <3>3. from <= sync.imported + 1 /\ sync.imported + 1 <= imported + 1 /\ from \in Nat
      BY <1>4, <2>1, <3>2
    <3> QED BY <1>4, <3>3 DEF from
  <2> QED BY <2>2, <2>3
<1>6. PageInv'
  <2>1. ASSUME NEW i \in 1 .. Len(sync'.page)
        PROVE  /\ sync'.page[i].sequence <= Len(items)
               /\ items[sync'.page[i].sequence].kind = sync'.page[i].kind
               /\ sync'.page[i].kind = "worker_done" <=> sync'.page[i].outcome # "none"
    BY <1>1, <1>4 DEF QueueInv
  <2> QED BY <1>2, <1>3, <1>5, <2>1 DEF PageInv, SameItem
<1>7. SyncInv'
  BY <1>2, <1>3 DEF SyncInv
<1> QED BY <1>3, <1>6, <1>7

\* Only the phase of the sync and what it acknowledges or pushes changes.
LEMMA PhaseKeeps ==
    ASSUME Typed, SyncInv, PageInv, UNCHANGED <<items, imported, lateAcks, receipts>>,
           NEW phase, NEW through, sync' = [sync EXCEPT !.phase = phase, !.through = through],
           sync.phase \notin {"idle", "probing", "pulling", "paged"},
           phase \in {"acking", "pushing", "mailed", "pushed"},
           phase = "acking" => through \in 1 .. sync.cursor
    PROVE  PageInv' /\ SyncInv' /\ sync'.verdicts = sync.verdicts /\ sync'.epoch = sync.epoch
<1>1. /\ sync'.phase = phase /\ sync'.through = through /\ sync'.page = sync.page
      /\ sync'.next = sync.next /\ sync'.cursor = sync.cursor /\ sync'.barrier = sync.barrier
      /\ sync'.imported = sync.imported /\ sync'.verdicts = sync.verdicts /\ sync'.epoch = sync.epoch
  BY DEF Typed, SyncTyped, SyncRecord
<1>2. PageInv'
  BY <1>1 DEF PageInv, SameItem
<1>3. SyncInv'
  BY <1>1 DEF SyncInv
<1> QED BY <1>1, <1>2, <1>3

\* What an imported item does to the rows of the home.
LEMMA ImportHome ==
    ASSUME Typed, HomeInv, RemoteInv, PageInv, ImportItem
    PROVE  /\ HomeInv' /\ RemoteInv' /\ EndsKept
           /\ \A action \in Outcomes :
                 Incoming.kind = "worker_done" /\ VerdictOn(Incoming.outcome) = action => VerdictTrue(action)'
<1>1. Incoming \in Pulled /\ (Incoming.kind = "worker_done" => Incoming.outcome \in Outcomes)
  BY ItemTypes DEF Typed, PageInv, Incoming, Pulled
<1>2. UNCHANGED <<attachment, attach, stopRun, show>>
  BY DEF ImportItem, remoteRow, startState, stopState, showState
<1> DEFINE outcome == Incoming.outcome
<1>3. CASE home' = home /\ ~(Incoming.kind = "worker_done" /\ VerdictOn(outcome) # "rejected" /\ ~SettledAlready(outcome))
  <2>1. HomeInv' /\ RemoteInv' /\ EndsKept
    BY <1>2, <1>3, HomePartsKept DEF EndsKept
  <2>2. ASSUME NEW action \in Outcomes, Incoming.kind = "worker_done", VerdictOn(outcome) = action
        PROVE  VerdictTrue(action)'
    <3>1. SettledAlready(action)
      BY <1>1, <1>3, <2>2 DEF VerdictOn, Outcomes
    <3>2. VerdictTrue(action)
      BY <3>1 DEF SettledAlready, StatusOf, HomeInv, VerdictTrue, Outcomes
    <3> QED BY <1>2, <1>3, <3>2 DEF VerdictTrue
  <2> QED BY <2>1, <2>2
<1>4. CASE home' = Reported(outcome) /\ Incoming.kind = "worker_done" /\ VerdictOn(outcome) # "rejected"
           /\ ~SettledAlready(outcome)
  <2>1. Accepts(outcome) /\ VerdictOn(outcome) = outcome /\ outcome \in {"succeeded", "failed"}
    BY <1>1, <1>4 DEF VerdictOn, Outcomes
  <2>2. Active
    BY <2>1 DEF Accepts, Active, DispatchActive
  <2>3. home.worker \in WorkerUnsettled
    BY <2>2 DEF HomeInv
  <2>4. home'.worker = outcome /\ home'.task = StatusOf(outcome) /\ home'.dispatch = StatusOf(outcome)
    BY <1>4 DEF Reported
  <2>5. HomeInv'
    BY <2>1, <2>4 DEF HomeInv, Active, DispatchActive, WorkerUnsettled, StatusOf
  <2>6. RemoteInv' /\ EndsKept
    BY <1>2, <2>1, <2>3, <2>4 DEF RemoteInv, EndsKept, WorkerUnsettled, Ended
  <2>7. ASSUME NEW action \in Outcomes, VerdictOn(outcome) = action PROVE VerdictTrue(action)'
    BY <2>1, <2>4, <2>7 DEF VerdictTrue
  <2> QED BY <2>5, <2>6, <2>7
<1> QED BY <1>3, <1>4 DEF ImportItem

LEMMA ImportItemKeeps ==
    ASSUME Typed, HomeParts, RelayParts, ImportItem
    PROVE  HomeParts' /\ RelayParts'
<1>s. /\ SyncTyped /\ QueueTyped /\ RelayTyped /\ sync \in SyncRecord
      /\ QueueInv /\ PageInv /\ SyncInv /\ WatermarkIsCovered /\ VerdictInv
      /\ HomeInv /\ RemoteInv /\ EpochInv
  BY DEF Typed, RelayParts, HomeParts, SyncTyped
<1>1. /\ Incoming \in Pulled /\ sync.next \in 1 .. Len(sync.page)
      /\ sync' = [sync EXCEPT !.next = sync'.next, !.cursor = Incoming.sequence,
                             !.verdicts = sync'.verdicts, !.barrier = sync'.barrier]
      /\ sync'.next = sync.next + 1
      /\ sync'.barrier \in {sync.barrier, Incoming.sequence}
      /\ \/ sync'.verdicts = sync.verdicts
         \/ /\ Incoming.kind = "worker_done" /\ Incoming.outcome \in Outcomes /\ SettlesAtHome
            /\ sync'.verdicts = sync.verdicts \cup
                   {[sequence |-> Incoming.sequence, action |-> VerdictOn(Incoming.outcome)]}
  BY <1>s, ItemTypes
<1>2. /\ sync'.page = sync.page /\ sync'.phase = sync.phase /\ sync'.imported = sync.imported
      /\ sync'.cursor = Incoming.sequence /\ sync'.epoch = sync.epoch /\ sync'.through = sync.through
      /\ sync.phase = "importing"
  BY <1>s, <1>1 DEF SyncRecord, ImportItem
<1>3. /\ UNCHANGED <<items, receipts, lateAcks, acked, peerEpoch, remoteEpoch, stage, told, show>>
      /\ mailbox' = mailbox \cup {<<Incoming.sequence, Incoming.kind>>}
      /\ imported' = IF Duplicate THEN imported ELSE Incoming.sequence
      /\ Incoming.sequence = sync.cursor + 1 /\ (~Duplicate => Incoming.sequence = imported + 1)
  BY DEF ImportItem, Importable, queue, remoteRow, worker, epochs, showState
<1>4. /\ Len(items) \in Nat /\ DOMAIN items = 1 .. Len(items) /\ imported \in Nat /\ imported <= Len(items)
      /\ acked \in Nat /\ sync.cursor \in Nat /\ sync.barrier \in Nat /\ Len(sync.page) \in Nat
      /\ sync.next \in Nat /\ Incoming.sequence \in Nat /\ sync.imported \in Nat
  <2>1. Incoming.sequence \in Nat
    BY <1>1, BoundAssumption DEF Pulled
  <2>2. Len(sync.page) \in Nat /\ sync.next \in Nat
    BY <1>s, SyncFields
  <2>3. sync.cursor \in Nat /\ sync.barrier \in Nat /\ sync.imported \in Nat
    BY <1>s, SyncFields, BoundAssumption, SMTT(30)
  <2>4. /\ Len(items) \in Nat /\ DOMAIN items = 1 .. Len(items) /\ imported \in Nat
        /\ imported <= Len(items) /\ acked \in Nat
    BY <1>s, QueueSpan
  <2> QED BY <2>1, <2>2, <2>3, <2>4
<1>5. Incoming.sequence <= Len(items) /\ SameItem(Incoming)
  BY <1>s, <1>1 DEF PageInv, Incoming
<1>6. imported' \in Nat /\ imported <= imported' /\ imported' <= Len(items) /\ Incoming.sequence <= imported'
  BY <1>3, <1>4, <1>5 DEF Duplicate
<1>7. HomeInv' /\ RemoteInv' /\ EndsKept
      /\ \A action \in Outcomes :
            Incoming.kind = "worker_done" /\ VerdictOn(Incoming.outcome) = action => VerdictTrue(action)'
  BY <1>s, ImportHome
<1>8. EpochInv'
  BY <1>s, <1>2, <1>3 DEF EpochInv
<1>9. QueueInv'
  BY <1>s, <1>3, <1>4, <1>6 DEF QueueInv
<1>10. PageInv'
  <2>1. sync.page # << >> => sync.page[1] \in Pulled
    BY <1>s, SyncFields
  <2>2. sync.page # << >> => sync.page[1].sequence <= imported' + 1
    <3>1. sync.page # << >> => sync.page[1].sequence \in Nat /\ sync.page[1].sequence <= imported + 1
      BY <1>s, <2>1, BoundAssumption DEF PageInv, Pulled
    <3> QED BY <1>4, <1>6, <3>1
  <2>3. sync'.next \in 1 .. Len(sync.page) + 1
    BY <1>1, <1>4
  <2> QED BY <1>s, <1>2, <1>3, <2>2, <2>3 DEF PageInv, SameItem
<1>11. SyncInv'
  <2>1. sync'.barrier <= sync'.cursor
    BY <1>s, <1>1, <1>2, <1>3, <1>4 DEF SyncInv
  <2>2. \A ack \in lateAcks : ack.through <= imported'
    BY <1>s, <1>4, <1>6, BoundAssumption DEF SyncInv, QueueTyped, Ack
  <2>3. \A ack \in receipts : ack.through <= imported' /\ \A n \in 1 .. ack.through : items[n].acked
    BY <1>s, <1>4, <1>6, BoundAssumption, SMTT(30) DEF SyncInv, QueueTyped, Ack
  <2>4. sync.imported <= imported'
    BY <1>s, <1>4, <1>6 DEF SyncInv
  <2> QED BY <1>2, <1>3, <1>6, <2>1, <2>2, <2>3, <2>4 DEF SyncInv
<1>12. WatermarkIsCovered'
  BY <1>s, <1>3, <1>4, <1>6 DEF WatermarkIsCovered
<1>13. /\ \A v \in sync.verdicts : GoodVerdict(v)'
       /\ \A ack \in lateAcks : \A v \in ack.verdicts : GoodVerdict(v)'
  BY <1>s, <1>3, <1>6, <1>7, VerdictsKept
<1>14. ASSUME NEW v \in sync'.verdicts PROVE GoodVerdict(v)'
  <2>1. CASE v \in sync.verdicts
    BY <1>13, <2>1
  <2>2. CASE Incoming.kind = "worker_done"
             /\ v = [sequence |-> Incoming.sequence, action |-> VerdictOn(Incoming.outcome)]
    <3>1. items'[v.sequence].kind = "worker_done" /\ v.sequence <= imported'
          /\ <<v.sequence, "worker_done">> \in mailbox'
      BY <1>3, <1>5, <1>6, <2>2 DEF SameItem
    <3>2. v.action \in Outcomes => VerdictTrue(v.action)'
      BY <1>7, <2>2
    <3> QED BY <3>1, <3>2 DEF GoodVerdict
  <2> QED BY <1>1, <2>1, <2>2
<1>15. TruthInv'
  BY <1>s, <1>3, <1>7, TruthKept DEF VerdictInv
<1>16. VerdictInv'
  BY <1>3, <1>13, <1>14, <1>15 DEF VerdictInv
<1> QED BY <1>7, <1>8, <1>9, <1>10, <1>11, <1>12, <1>16 DEF HomeParts, RelayParts

LEMMA AnswerAckKeeps ==
    ASSUME Typed, HomeParts, RelayParts, AnswerAck
    PROVE  HomeParts' /\ RelayParts'
<1>s. /\ SyncTyped /\ QueueTyped /\ RelayTyped /\ RemoteTyped /\ WorkerTyped /\ sync \in SyncRecord
      /\ QueueInv /\ PageInv /\ SyncInv /\ WatermarkIsCovered /\ VerdictInv
      /\ HomeInv /\ RemoteInv /\ EpochInv
  BY DEF Typed, RelayParts, HomeParts, SyncTyped
<1>1. /\ sync' = [sync EXCEPT !.phase = "acked"] /\ sync.phase = "acking"
      /\ Taken(Sent) /\ TakeAck(Sent)
      /\ UNCHANGED <<home, attach, stopRun, show, imported, mailbox, acked, peerEpoch, remoteEpoch, lateAcks>>
  BY DEF AnswerAck, homeRows, relayRows, startState, stopState, showState, epochs
<1>2. /\ sync'.phase = "acked" /\ sync'.through = sync.through /\ sync'.page = sync.page
      /\ sync'.cursor = sync.cursor /\ sync'.barrier = sync.barrier
      /\ sync'.imported = sync.imported /\ sync'.verdicts = sync.verdicts /\ sync'.epoch = sync.epoch
  BY <1>s, <1>1 DEF SyncRecord
<1>3. PICK ack \in Ack : ack = Sent /\ ack.through = sync.through /\ ack.verdicts \subseteq sync.verdicts
  BY <1>s, <1>1, SentTyped
<1>4. imported \in Nat /\ ack.through \in 1 .. imported
  <2>1. imported \in Nat /\ sync.cursor \in Nat /\ sync.cursor <= imported /\ sync.through \in 1 .. sync.cursor
    BY <1>s, <1>1, QueueSpan, SyncFields, BoundAssumption DEF SyncInv
  <2> QED BY <1>3, <2>1
<1>5. /\ QueueGrows /\ QueueInv' /\ \A n \in 1 .. ack.through : items'[n].acked
      /\ items' \in Seq(Item) /\ receipts' = receipts \cup {ack}
  BY <1>s, <1>1, <1>3, <1>4, AckGrows, TakeAckEffect DEF SyncInv
<1>6. EndsKept
  <2>1. \/ UNCHANGED <<attachment, stage>>
        \/ attachment = "ready" /\ attachment' \in Outcomes
    BY <1>s, <1>1, <1>3, AckMovesReady
  <2> QED BY <1>1, <2>1 DEF EndsKept, Ended
<1>7. HomeInv' /\ RemoteInv'
  <2>1. \/ UNCHANGED attachment
        \/ attachment = "ready" /\ attachment' \in Outcomes
    BY <1>s, <1>1, <1>3, AckMovesReady
  <2> QED BY <1>s, <1>1, <2>1 DEF HomeInv, RemoteInv, Active, Outcomes
<1>8. EpochInv'
  BY <1>s, <1>1, <1>2 DEF EpochInv
<1>9. \A k \in Nat : k <= imported /\ (\A n \in 1 .. k : items[n].acked) =>
                         \A n \in 1 .. k : items'[n].acked
  BY <1>s, <1>1, <1>5, GrowthKeeps
<1>10. PageInv'
  <2>1. \A p \in Pulled : p.sequence <= Len(items) /\ SameItem(p) =>
                             p.sequence <= Len(items') /\ SameItem(p)'
    BY <1>s, <1>1, <1>5, GrowthKeeps
  <2>2. ASSUME NEW p \in Pulled, NEW i \in 1 .. Len(sync.page), p = sync.page[i]
        PROVE  /\ p.sequence <= Len(items') /\ SameItem(p)'
               /\ p.kind = "worker_done" <=> p.outcome # "none"
    BY <1>s, <2>1, <2>2 DEF PageInv
  <2>3. \A i \in 1 .. Len(sync.page) : sync.page[i] \in Pulled
    BY <1>s, SyncFields
  <2> QED BY <1>s, <1>1, <1>2, <2>2, <2>3 DEF PageInv, SameItem
<1>11. SyncInv'
  <2>1. \A n \in 1 .. sync.through : items'[n].acked
    BY <1>3, <1>5
  <2>2. ASSUME NEW done \in receipts'
        PROVE  done.through <= imported /\ \A n \in 1 .. done.through : items'[n].acked
    <3>1. CASE done \in receipts
      <4>1. done.through \in Nat /\ done.through <= imported /\ \A n \in 1 .. done.through : items[n].acked
        BY <1>s, <3>1, BoundAssumption DEF QueueTyped, Ack, SyncInv
      <4> QED BY <1>9, <4>1
    <3>2. CASE done = ack
      BY <1>4, <1>5, <3>2
    <3> QED BY <1>5, <3>1, <3>2
  <2> QED BY <1>s, <1>1, <1>2, <2>1, <2>2 DEF SyncInv
<1>12. WatermarkIsCovered'
  BY <1>s, <1>1, <1>5, GrowthKeeps
<1>13. /\ \A v \in sync.verdicts : GoodVerdict(v)'
       /\ \A a \in lateAcks : \A v \in a.verdicts : GoodVerdict(v)'
  BY <1>s, <1>1, <1>4, <1>5, <1>6, VerdictsKept
<1>14. TruthInv'
  BY <1>s, <1>1, <1>3, <1>6, AckTruth DEF VerdictInv
<1> QED
  BY <1>1, <1>2, <1>5, <1>7, <1>8, <1>10, <1>11, <1>12, <1>13, <1>14 DEF HomeParts, RelayParts, VerdictInv

LEMMA SyncStepKeeps ==
    ASSUME Typed, HomeParts, RelayParts, SyncStep
    PROVE  HomeParts' /\ RelayParts'
<1>s. /\ SyncTyped /\ QueueTyped /\ RelayTyped /\ MailTyped /\ MemoryTyped /\ sync \in SyncRecord
      /\ QueueInv /\ PageInv /\ SyncInv /\ WatermarkIsCovered /\ VerdictInv
      /\ HomeInv /\ RemoteInv /\ EpochInv
      /\ peerEpoch \in Nat /\ remoteEpoch \in Nat /\ sync.epoch \in Nat
      /\ peerEpoch <= remoteEpoch /\ sync.epoch <= remoteEpoch
  <2>1. peerEpoch \in Nat /\ remoteEpoch \in Nat /\ sync.epoch \in Nat
    BY SyncFields, BoundAssumption, SMTT(30) DEF Typed, RelayTyped, RemoteTyped
  <2> QED BY <2>1 DEF Typed, RelayParts, HomeParts, SyncTyped, EpochInv
<1> USE <1>s DEF syncFrame, homeRows, startState, stopState, showState, remoteRow, queue, worker, epochs
<1>w. WatermarkIsCovered /\ UNCHANGED <<acked, imported, items>> => WatermarkIsCovered'
  BY RelayPartsKept
<1>l. \A ack \in lateAcks : ack.through <= imported
  BY DEF SyncInv
<1>1. CASE BeginSync
  <2>1. PageInv' /\ SyncInv' /\ sync'.verdicts = {} /\ sync'.epoch = 0
    BY <1>1, <1>l, FreshSync DEF BeginSync
  <2> QED BY <1>1, <1>w, <2>1, SyncMoves DEF BeginSync
<1>2. CASE AnswerProbe
  <2>1. /\ sync'.phase = "pulling" /\ sync'.through = sync.through /\ sync'.page = sync.page
        /\ sync'.cursor = sync.cursor /\ sync'.barrier = sync.barrier
        /\ sync'.imported = sync.imported /\ sync'.verdicts = sync.verdicts /\ sync'.epoch = sync.epoch
        /\ sync.phase = "probing"
    BY <1>2 DEF AnswerProbe, SyncRecord
  <2>2. PageInv' /\ SyncInv'
    BY <1>2, <2>1 DEF AnswerProbe, PageInv, SameItem, SyncInv
  <2> QED BY <1>2, <1>w, <2>1, <2>2, SyncMoves DEF AnswerProbe
<1>3. CASE ExpireCapability
  BY <1>3, <1>w, RelayPartsKept, SyncMoves DEF ExpireCapability
<1>4. CASE AnswerPull
  <2>1. PageInv' /\ SyncInv' /\ sync'.verdicts = sync.verdicts /\ sync'.epoch = remoteEpoch
    BY <1>4, AnswerPullKeeps
  <2> QED BY <1>4, <1>w, <2>1, SyncMoves DEF AnswerPull
<1>5. CASE BeginImport
  <2>1. PageInv' /\ SyncInv' /\ sync'.verdicts = sync.verdicts /\ sync'.epoch = sync.epoch
    BY <1>5, BeginImportKeeps
  <2> QED BY <1>5, <1>w, <2>1, SyncMoves DEF BeginImport
<1>6. CASE ImportItem
  BY <1>6, ImportItemKeeps
<1>7. CASE RefuseItem \/ RefuseAck \/ RefusePush
  <2>1. PageInv' /\ SyncInv' /\ sync'.verdicts = {} /\ sync'.epoch = 0
    BY <1>7, <1>l, FreshSync DEF RefuseItem, RefuseAck, RefusePush
  <2> QED BY <1>7, <1>w, <2>1, SyncMoves DEF RefuseItem, RefuseAck, RefusePush
<1>8. CASE FinishImport
  <2>1. CASE AfterAck
    <3>1. /\ sync' = [sync EXCEPT !.phase = sync'.phase, !.through = outbox]
          /\ sync'.phase \in {"pushing", "pushed"} /\ peerEpoch' = sync.epoch
      BY <1>8, <2>1, AfterAckTypes DEF FinishImport
    <3>2. PageInv' /\ SyncInv' /\ sync'.verdicts = sync.verdicts /\ sync'.epoch = sync.epoch
      BY <1>8, <3>1, PhaseKeeps DEF FinishImport
    <3> QED BY <1>8, <1>w, <3>1, <3>2, SyncMoves DEF FinishImport
  <2>2. CASE /\ AckCursor > AckedBefore
             /\ sync' = [sync EXCEPT !.phase = "acking", !.through = AckCursor]
             /\ UNCHANGED <<peer, peerEpoch>>
    <3>1. AckCursor \in 1 .. sync.cursor
      <4>1. /\ sync.barrier \in Nat /\ sync.cursor \in Nat /\ sync.barrier <= sync.cursor
            /\ sync.acked \in Nat
        BY SyncFields, BoundAssumption, SMTT(30) DEF SyncInv
      <4>2. checkpoint.through \in Nat
        BY BoundAssumption DEF MemoryTyped
      <4>3. AckedBefore \in Nat
        BY <4>1, <4>2 DEF AckedBefore
      <4> QED BY <2>2, <4>1, <4>3 DEF AckCursor
    <3>2. PageInv' /\ SyncInv' /\ sync'.verdicts = sync.verdicts /\ sync'.epoch = sync.epoch
      BY <1>8, <2>2, <3>1, PhaseKeeps DEF FinishImport
    <3> QED BY <1>8, <1>w, <2>2, <3>2, SyncMoves DEF FinishImport
  <2> QED BY <1>8, <2>1, <2>2 DEF FinishImport
<1>9. CASE AnswerAck
  BY <1>9, AnswerAckKeeps
<1>10. CASE RecordAck
  <2>1. /\ sync' = [sync EXCEPT !.phase = sync'.phase, !.through = outbox]
        /\ sync'.phase \in {"pushing", "pushed"} /\ peerEpoch' = sync.epoch
    BY <1>10, AfterAckTypes DEF RecordAck
  <2>2. PageInv' /\ SyncInv' /\ sync'.verdicts = sync.verdicts /\ sync'.epoch = sync.epoch
    BY <1>10, <2>1, PhaseKeeps DEF RecordAck
  <2>3. WatermarkIsCovered'
    <3>1. /\ sync.through \in Nat /\ sync.through # 0 /\ sync.through <= imported /\ imported \in Nat
          /\ \A n \in 1 .. sync.through : items[n].acked
      <4>1. sync.cursor \in Nat /\ imported \in Nat
        BY SyncFields, QueueSpan, BoundAssumption
      <4> QED BY <1>10, <4>1 DEF RecordAck, SyncInv
    <3>2. Watermark(sync.through) \in Nat /\ Watermark(sync.through) <= sync.through
      BY <3>1 DEF Watermark
    <3>3. UNCHANGED <<items, imported>> /\ acked' \in {acked, Watermark(sync.through)}
      BY <1>10 DEF RecordAck
    <3>4. CASE acked' = acked
      BY <3>3, <3>4 DEF WatermarkIsCovered
    <3>5. CASE acked' = Watermark(sync.through)
      BY <3>1, <3>2, <3>3, <3>5 DEF WatermarkIsCovered
    <3> QED BY <3>3, <3>4, <3>5
  <2> QED BY <1>10, <2>1, <2>2, <2>3, SyncMoves DEF RecordAck
<1>11. CASE AnswerPush \/ RecordPush
  <2>1. /\ sync' = [sync EXCEPT !.phase = sync'.phase, !.through = sync'.through]
        /\ sync'.phase \in {"mailed", "pushed"}
    BY <1>11 DEF AnswerPush, RecordPush, SyncRecord
  <2>2. PageInv' /\ SyncInv' /\ sync'.verdicts = sync.verdicts /\ sync'.epoch = sync.epoch
    <3>1. sync.phase \in {"pushing", "mailed"} /\ UNCHANGED <<items, imported, lateAcks, receipts>>
      BY <1>11 DEF AnswerPush, RecordPush, relayRows
    <3> HIDE DEF syncFrame, homeRows, startState, stopState, showState, remoteRow, queue, worker, epochs
    <3> QED BY <2>1, <3>1, PhaseKeeps
  <2>3. UNCHANGED <<imported, mailbox, acked, peerEpoch>>
    BY <1>11 DEF AnswerPush, RecordPush, relayRows
  <2> QED BY <1>11, <1>w, <2>2, <2>3, SyncMoves DEF AnswerPush, RecordPush
<1>12. CASE EndPage
  <2>1. PageInv' /\ SyncInv' /\ sync'.verdicts = {} /\ sync'.epoch = 0
    BY <1>12, <1>l, FreshSync DEF EndPage
  <2> QED BY <1>12, <1>w, <2>1, SyncMoves DEF EndPage
<1>13. CASE LoseSyncCall
  <2>1. \A ack \in lateAcks' : \/ ack \in lateAcks
                               \/ sync.phase = "acking" /\ ack = Sent
    BY <1>13 DEF LoseSyncCall
  <2>2. sync.phase = "acking" => Sent.through <= imported /\ Sent.verdicts \subseteq sync.verdicts
    <3>1. sync.phase = "acking" => Sent.through = sync.through /\ Sent.verdicts \subseteq sync.verdicts
      BY SentTyped
    <3>2. sync.cursor \in Nat /\ imported \in Nat
      BY SyncFields, QueueSpan, BoundAssumption
    <3> QED BY <3>1, <3>2 DEF SyncInv
  <2>3. PageInv' /\ SyncInv' /\ sync'.verdicts = {} /\ sync'.epoch = 0
    BY <1>13, <1>l, <2>1, <2>2, FreshSync DEF LoseSyncCall
  <2> QED BY <1>13, <1>w, <2>1, <2>2, <2>3, SyncMoves DEF LoseSyncCall
<1>14. CASE StopPolling
  BY <1>14, <1>w, RelayPartsKept, SyncMoves DEF StopPolling, relayRows
<1> QED
  BY <1>1, <1>2, <1>3, <1>4, <1>5, <1>6, <1>7, <1>8, <1>9, <1>10, <1>11, <1>12, <1>13, <1>14 DEF SyncStep

LEMMA RestartKeeps ==
    ASSUME Typed, HomeParts, RelayParts, HomeRestart \/ RemoteRestart
    PROVE  HomeParts' /\ RelayParts'
<1>s. /\ SyncTyped /\ QueueTyped /\ RelayTyped
      /\ QueueInv /\ PageInv /\ SyncInv /\ WatermarkIsCovered /\ VerdictInv
      /\ HomeInv /\ RemoteInv /\ EpochInv
      /\ peerEpoch \in Nat /\ remoteEpoch \in Nat /\ sync.epoch \in Nat /\ show.epoch \in Nat
  <2>1. peerEpoch \in Nat /\ remoteEpoch \in Nat /\ sync.epoch \in Nat /\ show.epoch \in Nat
    BY SyncFields, BoundAssumption, SMTT(30) DEF Typed, RelayTyped, RemoteTyped, ShowTyped, ShowRecord
  <2> QED BY <2>1 DEF Typed, RelayParts, HomeParts
<1> USE <1>s
    DEF homeRows, relayRows, startState, stopState, showState, remoteRow, queue, worker, syncMemory
<1>1. CASE HomeRestart
  <2>1. PageInv' /\ SyncInv' /\ sync'.verdicts = {} /\ sync'.epoch = 0
    BY <1>1, FreshSync DEF HomeRestart, SyncInv
  <2>2. HomeInv' /\ RemoteInv' /\ EpochInv'
    BY <1>1, <2>1 DEF HomeRestart, HomeInv, Active, RemoteInv, EpochInv, NotShowing, epochs
  <2>3. EndsKept /\ UNCHANGED <<items, imported, mailbox, acked, lateAcks, stage, told>>
    BY <1>1 DEF HomeRestart, EndsKept
  <2>4. QueueInv' /\ WatermarkIsCovered'
    BY <2>3, RelayPartsKept
  <2>5. \A ack \in lateAcks : \A v \in ack.verdicts : GoodVerdict(v)'
    BY <2>3, QueueSpan, VerdictsKept
  <2>6. TruthInv'
    BY <2>3, TruthKept DEF VerdictInv
  <2> QED BY <2>1, <2>2, <2>3, <2>4, <2>5, <2>6 DEF HomeParts, RelayParts, VerdictInv
<1>2. CASE RemoteRestart
  <2>1. HomeInv' /\ RemoteInv'
    BY <1>2 DEF RemoteRestart, HomeInv, Active, RemoteInv
  <2>2. EpochInv'
    <3>1. /\ remoteEpoch' = remoteEpoch + 1 /\ UNCHANGED <<peerEpoch, sync, show>>
      BY <1>2 DEF RemoteRestart
    <3>2. show.phase = "asked" => show.fence # << >> /\ show.fence[3] <= remoteEpoch + 1
      <4>1. show.fence # << >> => show.fence[3] \in 0 .. MaxRemoteEpoch
        BY DEF Typed, ShowTyped, ShowRecord
      <4> QED BY <4>1, BoundAssumption DEF EpochInv
    <3> QED BY <3>1, <3>2 DEF EpochInv
  <2>3. EndsKept
    BY <1>2 DEF RemoteRestart, EndsKept
  <2>4. UNCHANGED told \/ told'.action = "unknown"
    <3>1. told' = told \/ told' = [told EXCEPT !.action = "unknown"]
      BY <1>2 DEF RemoteRestart
    <3> QED BY <3>1 DEF Typed, WorkerTyped
  <2>5. RelayParts'
    BY <1>2, <2>3, <2>4, QuietStep DEF RemoteRestart, Outcomes
  <2> QED BY <2>1, <2>2, <2>5 DEF HomeParts
<1> QED BY <1>1, <1>2

LEMMA InitIInv == Init => IInv
<1> SUFFICES ASSUME Init PROVE IInv
  OBVIOUS
<1>1. sync = NotSyncing /\ items = << >> /\ Len(<< >>) = 0 /\ imported = 0 /\ acked = 0
      /\ lateAcks = {} /\ receipts = {} /\ mailbox = {}
  BY DEF Init
<1>2. Typed
  <2>0. 0 \in 0 .. MaxEpoch /\ 0 \in 0 .. MaxStops /\ 1 \in 1 .. MaxRemoteEpoch
    BY BoundAssumption
  <2>1. SyncTyped
    <3>1. << >> \in Seq(Pulled) /\ 0 \in 0 .. MAX_PAGES
      BY PageAssumption
    <3>2. NotSyncing \in SyncRecord
      BY <3>1, Zeros DEF NotSyncing, SyncRecord, SyncPhases
    <3> QED BY <1>1, <3>1, <3>2, Zeros, PageAssumption DEF SyncTyped, NotSyncing
  <2>2. HomeTyped /\ RelayTyped /\ MailTyped
    BY <1>1, <2>0, Zeros DEF Init, HomeTyped, HomeRecord, RelayTyped, MailTyped
  <2>3. MemoryTyped /\ CallsTyped
    BY <2>0, Zeros DEF Init, MemoryTyped, CallsTyped, Answers
  <2>4. ShowTyped
    BY Zeros, BoundAssumption DEF Init, ShowTyped, ShowRecord, NotShowing, Attachments
  <2>5. RemoteTyped /\ WorkerTyped
    <3>1. SettlesAtHome \in BOOLEAN
      BY DEF SettlesAtHome
    <3> QED BY <2>0, <3>1, Zeros DEF Init, RemoteTyped, Attachments, WorkerTyped
  <2>6. QueueTyped
    BY <1>1, BoundAssumption DEF QueueTyped
  <2>7. faults \in 0 .. MaxFaults
    BY BoundAssumption DEF Init
  <2> QED BY <2>1, <2>2, <2>3, <2>4, <2>5, <2>6, <2>7 DEF Typed
<1>3. HomeInv /\ RemoteInv /\ EpochInv
  BY DEF Init, HomeInv, Active, DispatchActive, WorkerUnsettled, RemoteInv, EpochInv, NotShowing, NotSyncing
<1>4. QueueInv /\ PageInv /\ SyncInv /\ WatermarkIsCovered
  BY <1>1 DEF QueueInv, PageInv, SyncInv, WatermarkIsCovered, NotSyncing
<1>5. VerdictInv
  BY <1>1 DEF Init, VerdictInv, TruthInv, VerdictComesFromHome, WorkerIsToldTheTruth, NotSyncing, Outcomes
<1> QED BY <1>2, <1>3, <1>4, <1>5 DEF IInv

LEMMA IInvIsParts == IInv <=> Typed /\ HomeParts /\ RelayParts
BY DEF IInv, HomeParts, RelayParts

LEMMA NextKeeps == IInv /\ [Next]_vars => IInv'
<1> SUFFICES ASSUME IInv, [Next]_vars PROVE IInv'
  OBVIOUS
<1>0. Typed /\ HomeParts /\ RelayParts /\ HomeInv /\ RemoteInv /\ EpochInv
      /\ QueueInv /\ PageInv /\ SyncInv /\ WatermarkIsCovered
  BY DEF IInv, HomeParts, RelayParts
<1>1. CASE HomeStep
  BY <1>0, <1>1, HomeStepTypes, HomeStepHome, HomeStepRemote, HomeStepRelay, IInvIsParts DEF HomeParts, IInv, RelayParts
<1>2. CASE RemoteStep
  BY <1>0, <1>2, RemoteStepTypes, RemoteStepRemote, RemoteStepRelay DEF HomeParts, IInv, RelayParts
<1>3. CASE SyncStep
  BY <1>0, <1>3, SyncStepTypes, SyncStepKeeps DEF HomeParts, IInv, RelayParts
<1>4. CASE HomeRestart \/ RemoteRestart
  BY <1>0, <1>4, RestartTypes, RestartKeeps DEF HomeParts, IInv, RelayParts
<1>5. CASE UNCHANGED vars
  <2>1. Typed'
    BY <1>0, <1>5, HomeKept, RelayKept, MailKept, SyncKept, MemoryKept, CallsKept, ShowKept, RemoteKept,
       QueueKept, WorkerKept DEF Typed, vars, epochs, syncMemory, MemoryTyped
  <2>2. HomeParts'
    BY <1>0, <1>5, HomePartsKept
       DEF HomeParts, vars, homeRows, relayRows, syncMemory, startState, stopState, showState, remoteRow, epochs
  <2>3. RelayParts'
    BY <1>0, <1>5, QuietStep
       DEF vars, homeRows, relayRows, syncMemory, remoteRow, queue, worker, EndsKept
  <2> QED BY <2>1, <2>2, <2>3, IInvIsParts DEF HomeParts, IInv, RelayParts
<1> QED BY <1>1, <1>2, <1>3, <1>4, <1>5 DEF Next
-----------------------------------------------------------------------------
(***************************************************************************)
(* The theorems.                                                           *)
(***************************************************************************)
\* The invariant holds in every reachable state, for every protocol version,
\* page size and quota.
THEOREM Invariance == Spec => []IInv
BY InitIInv, NextKeeps, PTL DEF Spec

\* Rows, memory and messages keep their types: in particular no sequence, page
\* or cursor leaves the queue it counts.
THEOREM FederationTypes == Spec => []TypeOK
<1>1. IInv => TypeOK
  BY TypedIsTypeOK DEF IInv
<1> QED BY <1>1, Invariance, PTL

\* The home never believes more acknowledged than was: below its watermark
\* nothing is left to replay.
THEOREM WatermarkHolds == Spec => []WatermarkIsCovered
<1>1. IInv => WatermarkIsCovered
  BY DEF IInv
<1> QED BY <1>1, Invariance, PTL

\* The paired host settles an attachment from an acknowledgement only as the
\* Run home settled the worker, however late the acknowledgement arrives.
THEOREM VerdictsComeFromHome == Spec => []VerdictComesFromHome
<1>1. IInv => VerdictComesFromHome
  BY DEF IInv, VerdictInv, TruthInv
<1> QED BY <1>1, Invariance, PTL

\* A worker told that its report completed or failed the task is told what the
\* rows of the home say.
THEOREM WorkersAreToldTheTruth == Spec => []WorkerIsToldTheTruth
<1>1. IInv => WorkerIsToldTheTruth
  BY DEF IInv, VerdictInv, TruthInv
<1> QED BY <1>1, Invariance, PTL

\* A poll never replaces what the home knows of the peer's runtime by an older
\* observation: the fence it carries pins the epoch it started from.
THEOREM PollsNeverRewind == Spec => PollNeverRewindsPeer
<1>1. IInv /\ [Next]_vars => [ProjectShow => peerEpoch' >= peerEpoch]_vars
  <2> SUFFICES ASSUME IInv, ProjectShow PROVE peerEpoch' >= peerEpoch
    OBVIOUS
  <2>1. peerEpoch \in Nat /\ show.epoch \in Nat
    BY BoundAssumption DEF IInv, Typed, RelayTyped, ShowTyped, ShowRecord
  <2>2. CASE ShowMatches
    <3>1. show.fence[3] = peerEpoch /\ show.fence[3] <= show.epoch /\ peerEpoch' = show.epoch
      BY <2>2 DEF ProjectShow, ShowMatches, Fence, IInv, EpochInv
    <3> QED BY <2>1, <3>1
  <2>3. CASE ~ShowMatches
    BY <2>1, <2>3 DEF ProjectShow
  <2> QED BY <2>2, <2>3
<1> QED BY <1>1, Invariance, PTL DEF Spec, PollNeverRewindsPeer
-----------------------------------------------------------------------------
(***************************************************************************)
(* Nothing acknowledged is missing from the mailbox.  A peer that settles  *)
(* reports itself refuses no acknowledgement for want of a verdict, so     *)
(* there a report that takes the place of a heartbeat in a full queue can  *)
(* be acknowledged unread: the theorem needs a queue that never fills, or  *)
(* a home that settles.                                                    *)
(***************************************************************************)
ExactPage ==
    ~SettlesAtHome =>
        \A i \in 1 .. Len(sync.page) : items[sync.page[i].sequence].kind = sync.page[i].kind
StoreInv == MailboxInv /\ ExactPage

LEMMA StoreKept ==
    ASSUME StoreInv, UNCHANGED <<mailbox, items, imported>>,
           sync'.page = sync.page \/ sync'.page = << >>
    PROVE  StoreInv'
BY DEF StoreInv, MailboxInv, Stored, Replaced, ExactPage

LEMMA PutsStore ==
    ASSUME SettlesAtHome \/ MaxSequence < QUOTA, IInv, StoreInv,
           UNCHANGED <<mailbox, imported, sync>>,
           NEW kind \in MessageKinds, NEW outcome \in Outcomes \cup {"none"}, NEW n,
           Puts(kind, outcome, n)
    PROVE  StoreInv'
<1>1. QueueTyped /\ QueueInv /\ RelayTyped /\ SyncTyped /\ PageInv
  BY DEF IInv, Typed
<1>2. /\ n \in 1 .. MaxSequence
      /\ DOMAIN items \subseteq DOMAIN items' /\ n \in DOMAIN items'
      /\ items'[n] = [kind |-> kind, outcome |-> outcome, acked |-> FALSE]
      /\ \A m \in DOMAIN items' \ {n} : m \in DOMAIN items /\ items'[m] = items[m]
  BY <1>1, PutsTypes
<1>3. Len(items) \in Nat /\ DOMAIN items = 1 .. Len(items) /\ imported \in Nat /\ imported <= Len(items)
  BY <1>1, QueueSpan
<1>4. CASE n = Len(items) + 1
  <2>1. \A m \in 1 .. Len(items) : items'[m] = items[m]
    BY <1>2, <1>3, <1>4
  <2>2. \A m \in 1 .. imported : m \in 1 .. Len(items)
    BY <1>3
  <2>3. MailboxInv'
    BY <2>1, <2>2 DEF StoreInv, MailboxInv, Stored, Replaced
  <2>4. \A i \in 1 .. Len(sync.page) : sync.page[i].sequence \in 1 .. Len(items)
    <3>1. \A i \in 1 .. Len(sync.page) : sync.page[i] \in Pulled /\ sync.page[i].sequence <= Len(items)
      BY <1>1, SyncFields DEF PageInv
    <3> QED BY <1>3, <3>1, BoundAssumption DEF Pulled
  <2>5. ExactPage'
    BY <2>1, <2>4 DEF StoreInv, ExactPage, SettlesAtHome
  <2> QED BY <2>3, <2>5 DEF StoreInv
<1>5. CASE /\ n \in DOMAIN items /\ kind = "worker_done" /\ ~(Cardinality(Unacked) < QUOTA)
           /\ items[n].kind = "heartbeat" /\ ~items[n].acked
  <2>1. SettlesAtHome
    <3>1. IsFiniteSet(1 .. Len(items)) /\ Cardinality(1 .. Len(items)) = Len(items)
      <4>1. Len(items) \in Int /\ 1 \in Int
        BY <1>3
      <4>2. Cardinality(1 .. Len(items)) = IF 1 > Len(items) THEN 0 ELSE Len(items) - 1 + 1
        BY <4>1, FS_Interval
      <4>3. IsFiniteSet(1 .. Len(items))
        BY <4>1, FS_Interval
      <4> QED BY <1>3, <4>2, <4>3
    <3>2. Unacked \subseteq 1 .. Len(items)
      BY <1>3 DEF Unacked
    <3>3. Cardinality(Unacked) <= Len(items) /\ Cardinality(Unacked) \in Nat
      BY <3>1, <3>2, FS_Subset, FS_CardinalityType
    <3>4. Len(items) <= MaxSequence
      BY <1>1 DEF QueueTyped
    <3> QED BY <1>3, <1>5, <3>3, <3>4, BoundAssumption, QuotaAssumption
  <2>2. ASSUME NEW m \in 1 .. imported PROVE Stored(m)' \/ Replaced(m)'
    <3>1. m \in DOMAIN items /\ (Stored(m) \/ Replaced(m))
      BY <1>3 DEF StoreInv, MailboxInv
    <3>2. CASE m = n
      <4>1. <<m, "heartbeat">> \in mailbox'
        BY <1>5, <3>1, <3>2 DEF Stored, Replaced
      <4>2. items'[m].kind = "worker_done" /\ ~items'[m].acked
        BY <1>2, <1>5, <3>2
      <4> QED BY <2>1, <4>1, <4>2 DEF Replaced, SettlesAtHome
    <3>3. CASE m # n
      BY <1>2, <3>1, <3>3 DEF Stored, Replaced
    <3> QED BY <3>2, <3>3
  <2> QED BY <2>1, <2>2 DEF StoreInv, MailboxInv, ExactPage, SettlesAtHome
<1> QED BY <1>4, <1>5 DEF Puts

LEMMA AckStore ==
    ASSUME IInv, StoreInv, UNCHANGED <<mailbox, imported>>, sync'.page = sync.page,
           NEW ack \in Ack, Taken(ack), TakeAck(ack), \A v \in ack.verdicts : GoodVerdict(v)
    PROVE  StoreInv'
<1>1. QueueTyped /\ QueueInv /\ RelayTyped /\ RemoteTyped /\ WorkerTyped /\ SyncTyped /\ PageInv
  BY DEF IInv, Typed
<1>2. \A n \in DOMAIN items : /\ items'[n].kind = items[n].kind
                              /\ items'[n].acked <=> items[n].acked \/ (ack \notin receipts /\ n <= ack.through)
  BY <1>1, TakeAckEffect
<1>3. Len(items) \in Nat /\ DOMAIN items = 1 .. Len(items) /\ imported \in Nat /\ imported <= Len(items)
  BY <1>1, QueueSpan
<1>4. ASSUME NEW m \in 1 .. imported PROVE Stored(m)' \/ Replaced(m)'
  <2>1. m \in DOMAIN items /\ items'[m].kind = items[m].kind /\ (Stored(m) \/ Replaced(m))
    BY <1>2, <1>3 DEF StoreInv, MailboxInv
  <2>2. CASE Stored(m)
    BY <2>1, <2>2 DEF Stored
  <2>3. CASE Replaced(m) /\ ~items'[m].acked
    BY <2>1, <2>3 DEF Replaced, SettlesAtHome
  <2>4. CASE Replaced(m) /\ items'[m].acked
    <3>1. m \in UnackedOf("worker_done") /\ m <= ack.through /\ ack \notin receipts /\ SettlesAtHome
      BY <1>2, <2>1, <2>4 DEF Replaced, UnackedOf, Unacked
    <3>2. PICK v \in ack.verdicts : v.sequence = m
      BY <3>1 DEF Taken, AckAcceptable
    <3>3. <<m, "worker_done">> \in mailbox /\ items[m].kind = "worker_done"
      BY <3>2 DEF GoodVerdict
    <3> QED BY <2>1, <3>3 DEF Stored
  <2> QED BY <2>1, <2>2, <2>3, <2>4
<1>5. \A i \in 1 .. Len(sync.page) : sync.page[i].sequence \in DOMAIN items
  <2>1. \A i \in 1 .. Len(sync.page) : sync.page[i] \in Pulled /\ sync.page[i].sequence <= Len(items)
    BY <1>1, SyncFields DEF PageInv
  <2> QED BY <1>3, <2>1, BoundAssumption DEF Pulled
<1>6. ExactPage'
  BY <1>2, <1>5 DEF StoreInv, ExactPage, SettlesAtHome
<1> QED BY <1>4, <1>6 DEF StoreInv, MailboxInv

LEMMA ImportStore ==
    ASSUME IInv, StoreInv, ImportItem
    PROVE  StoreInv'
<1>1. QueueTyped /\ QueueInv /\ RelayTyped /\ SyncTyped /\ PageInv
  BY DEF IInv, Typed
<1>2. /\ Incoming \in Pulled /\ sync.next \in 1 .. Len(sync.page)
      /\ sync' = [sync EXCEPT !.next = sync'.next, !.cursor = Incoming.sequence,
                             !.verdicts = sync'.verdicts, !.barrier = sync'.barrier]
  BY <1>1, ItemTypes
<1>3. sync'.page = sync.page /\ items' = items
  BY <1>1, <1>2 DEF ImportItem, queue, SyncTyped, SyncRecord
<1>4. /\ mailbox' = mailbox \cup {<<Incoming.sequence, Incoming.kind>>}
      /\ \/ imported' = imported
         \/ imported' = imported + 1 /\ Incoming.sequence = imported + 1
  BY DEF ImportItem, Importable
<1>5. SameItem(Incoming) /\ Incoming.sequence <= Len(items)
      /\ (~SettlesAtHome => items[Incoming.sequence].kind = Incoming.kind)
  BY <1>1, <1>2 DEF PageInv, Incoming, StoreInv, ExactPage
<1>6. imported \in Nat /\ DOMAIN items = 1 .. Len(items) /\ Len(items) \in Nat
  BY <1>1, QueueSpan
<1>7. ASSUME NEW m \in 1 .. imported PROVE Stored(m)' \/ Replaced(m)'
  BY <1>3, <1>4 DEF StoreInv, MailboxInv, Stored, Replaced, SettlesAtHome
<1>8. ASSUME NEW m, m = imported + 1, Incoming.sequence = m
      PROVE  Stored(m)' \/ Replaced(m)'
  <2>1. <<m, Incoming.kind>> \in mailbox'
    BY <1>4, <1>8
  <2>2. ~items[m].acked
    BY <1>1, <1>5, <1>6, <1>8 DEF QueueInv
  <2>3. \/ items[m].kind = Incoming.kind
        \/ Incoming.kind = "heartbeat" /\ items[m].kind = "worker_done" /\ SettlesAtHome
    BY <1>5, <1>8 DEF SameItem
  <2> QED BY <1>3, <2>1, <2>2, <2>3 DEF Stored, Replaced, SettlesAtHome
<1>9. MailboxInv'
  <2>1. CASE imported' = imported
    BY <1>7, <2>1 DEF MailboxInv
  <2>2. CASE imported' = imported + 1 /\ Incoming.sequence = imported + 1
    <3>1. \A m \in 1 .. imported + 1 : m \in 1 .. imported \/ m = imported + 1
      BY <1>6
    <3> QED BY <1>7, <1>8, <2>2, <3>1 DEF MailboxInv
  <2> QED BY <1>4, <2>1, <2>2
<1>10. ExactPage'
  BY <1>3 DEF StoreInv, ExactPage, SettlesAtHome
<1> QED BY <1>9, <1>10 DEF StoreInv

LEMMA StoreStep ==
    ASSUME SettlesAtHome \/ MaxSequence < QUOTA, IInv, StoreInv, [Next]_vars
    PROVE  StoreInv'
<1>s. /\ Typed /\ SyncTyped /\ QueueTyped /\ MailTyped /\ MemoryTyped /\ sync \in SyncRecord
      /\ QueueInv /\ PageInv /\ SyncInv /\ VerdictInv
  BY DEF IInv, Typed, SyncTyped
<1> USE DEF relayRows, queue, syncMemory
<1>1. CASE HomeStep
  <2>1. UNCHANGED <<items, imported, mailbox, sync>>
    BY <1>1 DEF HomeStep, CreateTask, StartWorker, StartAnswered, StartGivesUp,
       BeginWorkerStop, StopAnswered, StopGivesUp, AbandonWorkerDispatch, BeginShow, ProjectShow, LoseShow,
       SendControlMail, AnswerQuestion, CheckMail
  <2> QED BY <2>1, StoreKept
<1>2. CASE RemoteStep
  <2>1. UNCHANGED <<imported, mailbox, sync>>
    BY <1>2 DEF RemoteStep, CreateRemoteDispatchAttachment, PrepareRemoteAttachmentAuthority,
       MarkRemoteAttachmentReady, FailRemoteAttachment, BeginRemoteAttachmentStop,
       SettleRemoteAttachmentStop, AnswerShow, WorkerSends, StopWaiting, ReportSetup, LateAck
  <2>2. ASSUME NEW kind \in MessageKinds, NEW outcome \in Outcomes \cup {"none"}, NEW n,
               Enqueue(kind, outcome, n)
        PROVE  StoreInv'
    BY <1>s, <2>1, <2>2, EnqueuePuts, PutsStore, StoreKept DEF QueueTyped
  <2>3. CASE \E kind \in Sends : \E outcome \in Outcomes \cup {"none"} : WorkerSends(kind, outcome)
    BY <2>2, <2>3, SendsAssumption DEF WorkerSends, MessageKinds
  <2>4. CASE ReportSetup
    BY <2>2, <2>4 DEF ReportSetup, MessageKinds
  <2>5. CASE LateAck
    <3>1. PICK ack \in Ack : ack \in lateAcks /\ ((Taken(ack) /\ TakeAck(ack)) \/ UNCHANGED <<remoteRow, queue, worker>>)
      BY <1>s, <2>5, LateAckTaken
    <3>2. \A v \in ack.verdicts : GoodVerdict(v)
      BY <1>s, <3>1 DEF VerdictInv
    <3> QED BY <2>1, <3>1, <3>2, AckStore, StoreKept
  <2>6. CASE /\ ~(\E kind \in Sends : \E outcome \in Outcomes \cup {"none"} : WorkerSends(kind, outcome))
             /\ ~ReportSetup /\ ~LateAck
    <3>1. UNCHANGED items
      BY <1>2, <2>6 DEF RemoteStep, CreateRemoteDispatchAttachment, PrepareRemoteAttachmentAuthority,
         MarkRemoteAttachmentReady, FailRemoteAttachment, BeginRemoteAttachmentStop,
         SettleRemoteAttachmentStop, AnswerShow, StopWaiting
    <3> QED BY <2>1, <3>1, StoreKept
  <2> QED BY <2>3, <2>4, <2>5, <2>6
<1>3. CASE SyncStep
  <2>1. CASE AnswerPull
    <3>1. \A i \in 1 .. Len(sync'.page) : sync'.page[i].kind = items[sync'.page[i].sequence].kind
      BY <1>s, <2>1, PulledPage
    <3>2. UNCHANGED <<mailbox, items, imported>>
      BY <2>1 DEF AnswerPull, syncFrame
    <3> QED BY <3>1, <3>2 DEF StoreInv, MailboxInv, Stored, Replaced, ExactPage, SettlesAtHome
  <2>2. CASE ImportItem
    BY <2>2, ImportStore
  <2>3. CASE AnswerAck
    <3>1. PICK ack \in Ack : ack = Sent /\ ack.verdicts \subseteq sync.verdicts
      BY <1>s, <2>3, SentTyped DEF AnswerAck
    <3>2. \A v \in ack.verdicts : GoodVerdict(v)
      BY <1>s, <3>1 DEF VerdictInv
    <3>3. UNCHANGED <<mailbox, imported>> /\ sync'.page = sync.page
      BY <1>s, <2>3 DEF AnswerAck, SyncRecord
    <3> QED BY <2>3, <3>1, <3>2, <3>3, AckStore DEF AnswerAck
  <2>4. CASE BeginSync \/ RefuseItem \/ RefuseAck \/ RefusePush \/ EndPage \/ LoseSyncCall
    <3>1. NotSyncing.page = << >> /\ \A n : Page(n).page = << >>
      BY DEF NotSyncing, Page
    <3>2. UNCHANGED <<mailbox, items, imported>> /\ sync'.page = << >>
      BY <2>4, <3>1 DEF BeginSync, RefuseItem, RefuseAck, RefusePush, EndPage, LoseSyncCall, syncFrame
    <3> QED BY <3>2, StoreKept
  <2>5. CASE AnswerProbe \/ ExpireCapability \/ BeginImport \/ StopPolling
    <3>1. UNCHANGED <<mailbox, items, imported>> /\ sync'.page = sync.page
      BY <1>s, <2>5 DEF AnswerProbe, ExpireCapability, BeginImport, StopPolling, syncFrame, SyncRecord
    <3> QED BY <3>1, StoreKept
  <2>6. CASE FinishImport \/ RecordAck \/ AnswerPush \/ RecordPush
    <3>1. UNCHANGED <<mailbox, items, imported>>
      BY <2>6 DEF FinishImport, RecordAck, AnswerPush, RecordPush, syncFrame
    <3>2. \E phase, through : sync' = [sync EXCEPT !.phase = phase, !.through = through]
      <4>1. CASE AnswerPush \/ RecordPush
        <5>1. sync' = [sync EXCEPT !.phase = sync'.phase, !.through = sync'.through]
          BY <1>s, <4>1 DEF AnswerPush, RecordPush, SyncRecord
        <5> QED BY <5>1
      <4>2. CASE AfterAck
        BY <4>2 DEF AfterAck
      <4>3. CASE sync' = [sync EXCEPT !.phase = "acking", !.through = AckCursor]
        BY <4>3
      <4> QED BY <2>6, <4>1, <4>2, <4>3 DEF FinishImport, RecordAck
    <3>3. sync'.page = sync.page
      BY <1>s, <3>2 DEF SyncRecord
    <3> QED BY <3>1, <3>3, StoreKept
  <2> QED BY <1>3, <2>1, <2>2, <2>3, <2>4, <2>5, <2>6 DEF SyncStep
<1>4. CASE HomeRestart \/ RemoteRestart \/ UNCHANGED vars
  <2>1. UNCHANGED <<mailbox, items, imported>> /\ sync'.page \in {sync.page, << >>}
    <3>1. NotSyncing.page = << >>
      BY DEF NotSyncing
    <3>2. CASE HomeRestart
      BY <3>1, <3>2 DEF HomeRestart
    <3>3. CASE RemoteRestart \/ UNCHANGED vars
      BY <3>3 DEF RemoteRestart, vars
    <3> QED BY <1>4, <3>2, <3>3
  <2> QED BY <2>1, StoreKept
<1> QED BY <1>1, <1>2, <1>3, <1>4 DEF Next

\* The paired host forgets nothing the home has not stored, whatever is lost,
\* late or restarted: with a home that settles its reports, or a queue that
\* never fills.
THEOREM NothingAckedIsLost ==
    ASSUME SettlesAtHome \/ MaxSequence < QUOTA
    PROVE  Spec => []NoAckedItemLost
<1>1. Init => StoreInv
  <2> SUFFICES ASSUME Init PROVE StoreInv
    OBVIOUS
  <2>1. imported = 0 /\ sync.page = << >> /\ Len(<< >>) = 0
    BY DEF Init, NotSyncing
  <2> QED BY <2>1 DEF StoreInv, MailboxInv, ExactPage
<1>2. StoreInv /\ IInv /\ [Next]_vars => StoreInv'
  BY StoreStep
<1>3. IInv /\ StoreInv => NoAckedItemLost
  <2> SUFFICES ASSUME IInv, StoreInv, NEW n \in DOMAIN items, items[n].acked
               PROVE  Stored(n)
    BY DEF NoAckedItemLost, Stored
  <2>1. n \in 1 .. imported
    BY QueueSpan DEF IInv, Typed, QueueInv
  <2> QED BY <2>1 DEF StoreInv, MailboxInv, Replaced
<1> QED BY <1>1, <1>2, <1>3, Invariance, PTL DEF Spec
-----------------------------------------------------------------------------
(***************************************************************************)
(* The timer.  A show finds a worker ready only if it began while that     *)
(* worker could still speak, so it started the relay; and a stop resumes   *)
(* one only on the word of a host that has its outcome.                    *)
(***************************************************************************)
PollInv ==
    /\ ReadyWorkerIsPolled
    /\ show.phase # "idle" => home.worker # "none"
    /\ show.phase # "idle" /\ home.worker \in {"starting", "start_unknown"} => polled
    /\ stopCall \in Outcomes => attachment \in Outcomes

LEMMA PollKept ==
    ASSUME PollInv, UNCHANGED <<polled, stopCall>>, home'.worker = home.worker,
           show' \in {show, NotShowing} \/ show'.phase = show.phase,
           attachment \in Outcomes => attachment' = attachment
    PROVE  PollInv'
BY DEF PollInv, ReadyWorkerIsPolled, NotShowing

LEMMA HomeStepPoll ==
    ASSUME Typed, HomeInv, RemoteInv, PollInv, HomeStep
    PROVE  PollInv'
<1> USE HomeFields
    DEF Typed, PollInv, ReadyWorkerIsPolled, syncMemory, remoteRow, showState, stopState, homeRows, Outcomes
<1>1. CASE CreateTask
  BY <1>1 DEF CreateTask
<1>2. CASE StartWorker
  BY <1>2 DEF StartWorker
<1>3. CASE StartAnswered
  BY <1>3 DEF StartAnswered, StartSettled
<1>4. CASE StartGivesUp
  BY <1>4 DEF StartGivesUp, StartSettled
<1>5. CASE BeginWorkerStop
  BY <1>5 DEF BeginWorkerStop
<1>6. CASE StopAnswered
  BY <1>6 DEF StopAnswered, StopSettled, Resumed
<1>7. CASE StopGivesUp
  BY <1>7 DEF StopGivesUp
<1>8. CASE AbandonWorkerDispatch
  BY <1>8 DEF AbandonWorkerDispatch
<1>9. CASE BeginShow
  BY <1>9 DEF BeginShow, EnsureRelay, RelayEligible, WorkerUnsettled
<1>10. CASE ProjectShow
  <2>1. show.phase = "answered" /\ show'.phase = "idle" /\ UNCHANGED <<polled, stopCall, attachment>>
    BY <1>10 DEF ProjectShow, NotShowing
  <2>2. home'.worker = "ready" => home.worker \in {"ready", "starting", "start_unknown"}
    BY <1>10, ProjectedHome DEF StopSettled
  <2> QED BY <2>1, <2>2
<1>11. CASE LoseShow
  BY <1>11 DEF LoseShow, NotShowing
<1>12. CASE SendControlMail
  BY <1>12 DEF SendControlMail, EnsureRelay
<1>13. CASE AnswerQuestion
  BY <1>13 DEF AnswerQuestion, EnsureRelay
<1>14. CASE CheckMail
  BY <1>14 DEF CheckMail, EnsureRelay
<1> QED
  BY <1>1, <1>2, <1>3, <1>4, <1>5, <1>6, <1>7, <1>8, <1>9, <1>10, <1>11, <1>12, <1>13, <1>14 DEF HomeStep

LEMMA RemoteStepPoll ==
    ASSUME Typed, HomeInv, RemoteInv, EpochInv, PollInv, RemoteStep
    PROVE  PollInv'
<1>1. attachment \in Outcomes => attachment' = attachment
  BY RemoteStepRemote DEF Ended, Outcomes
<1>2. UNCHANGED <<polled, home>>
  BY DEF RemoteStep, CreateRemoteDispatchAttachment, PrepareRemoteAttachmentAuthority,
     MarkRemoteAttachmentReady, FailRemoteAttachment, BeginRemoteAttachmentStop,
     SettleRemoteAttachmentStop, AnswerShow, WorkerSends, StopWaiting, ReportSetup, LateAck,
     syncMemory, homeRows
<1>3. UNCHANGED show \/ (show.phase = "asked" /\ show'.phase # "idle")
  <2>1. CASE AnswerShow
    BY <2>1 DEF AnswerShow, Typed, ShowTyped, ShowRecord
  <2>2. CASE ~AnswerShow
    BY <2>2 DEF RemoteStep, CreateRemoteDispatchAttachment, PrepareRemoteAttachmentAuthority,
       MarkRemoteAttachmentReady, FailRemoteAttachment, BeginRemoteAttachmentStop,
       SettleRemoteAttachmentStop, WorkerSends, StopWaiting, ReportSetup, LateAck, showState
  <2> QED BY <2>1, <2>2
<1>4. stopCall' \in Outcomes => attachment' \in Outcomes
  <2>1. CASE BeginRemoteAttachmentStop
    BY <1>1, <2>1 DEF BeginRemoteAttachmentStop, StopAnswer, PollInv, Outcomes, remoteRow
  <2>2. CASE SettleRemoteAttachmentStop
    BY <1>1, <2>2 DEF SettleRemoteAttachmentStop, StopAnswer, PollInv, Outcomes
  <2>3. CASE UNCHANGED stopCall
    BY <1>1, <2>3 DEF PollInv
  <2> QED
    BY <2>1, <2>2, <2>3
       DEF RemoteStep, CreateRemoteDispatchAttachment, PrepareRemoteAttachmentAuthority,
           MarkRemoteAttachmentReady, FailRemoteAttachment, AnswerShow, WorkerSends, StopWaiting,
           ReportSetup, LateAck, stopState
<1> QED BY <1>1, <1>2, <1>3, <1>4 DEF PollInv, ReadyWorkerIsPolled

LEMMA SyncStepPoll ==
    ASSUME Typed, HomeParts, RelayParts, PollInv, SyncStep
    PROVE  PollInv'
<1>1. CASE StopPolling
  BY <1>1 DEF StopPolling, RelayEligible, WorkerUnsettled, PollInv, ReadyWorkerIsPolled, homeRows,
     showState, stopState, remoteRow
<1>2. CASE ImportItem
  <2>1. home' = home \/ (Incoming.kind = "worker_done" /\ home' = Reported(Incoming.outcome))
    BY <1>2 DEF ImportItem
  <2>2. Incoming.kind = "worker_done" => Incoming.outcome \in Outcomes
    BY <1>2, ItemTypes DEF Typed, RelayParts, PageInv, Incoming, Pulled
  <2>3. UNCHANGED <<polled, show, stopCall, attachment>>
    BY <1>2 DEF ImportItem, showState, stopState, remoteRow
  <2>4. home' = home \/ home'.worker \in Outcomes
    BY <2>1, <2>2 DEF Reported
  <2> QED BY <2>3, <2>4 DEF PollInv, ReadyWorkerIsPolled, Outcomes
<1>3. CASE AnswerAck
  <2>1. Sent \in Ack /\ TakeAck(Sent)
    BY <1>3, SentTyped DEF AnswerAck, Typed, RelayParts
  <2>2. attachment \in Outcomes => attachment' = attachment
    BY <2>1, AckMovesReady DEF Typed, Outcomes
  <2> QED BY <1>3, <2>2, PollKept DEF AnswerAck, homeRows, showState, stopState
<1>4. CASE UNCHANGED <<home, polled, show, stopCall, attachment>>
  BY <1>4, PollKept
<1> QED
  BY <1>1, <1>2, <1>3, <1>4
     DEF SyncStep, BeginSync, AnswerProbe, ExpireCapability, AnswerPull, BeginImport, RefuseItem,
         FinishImport, RefuseAck, RecordAck, AnswerPush, RecordPush, RefusePush, EndPage, LoseSyncCall,
         syncFrame, homeRows, showState, stopState, remoteRow

LEMMA NextPoll == IInv /\ PollInv /\ [Next]_vars => PollInv'
<1> SUFFICES ASSUME IInv, PollInv, [Next]_vars PROVE PollInv'
  OBVIOUS
<1>0. /\ Typed /\ HomeParts /\ RelayParts /\ HomeInv /\ RemoteInv /\ EpochInv
  BY DEF IInv, HomeParts, RelayParts
<1>1. CASE HomeStep \/ RemoteStep \/ SyncStep
  BY <1>0, <1>1, HomeStepPoll, RemoteStepPoll, SyncStepPoll
<1>2. CASE HomeRestart
  BY <1>2 DEF HomeRestart, Reopened, RelayEligible, WorkerUnsettled, NotShowing, PollInv,
     ReadyWorkerIsPolled, homeRows, remoteRow, Outcomes
<1>3. CASE RemoteRestart \/ UNCHANGED vars
  BY <1>3, PollKept DEF RemoteRestart, vars, homeRows, syncMemory, showState, stopState, remoteRow
<1> QED BY <1>1, <1>2, <1>3 DEF Next

\* The relay of a ready worker has its timer in every reachable state, unless the
\* worker's host holds its outcome: no answer, poll, restart or tick leaves such a
\* worker to an operator who happens to ask.
THEOREM ReadyWorkersArePolled == Spec => []ReadyWorkerIsPolled
<1>1. Init => PollInv
  BY DEF Init, PollInv, ReadyWorkerIsPolled, NotShowing, Outcomes
<1>2. PollInv => ReadyWorkerIsPolled
  BY DEF PollInv
<1> QED BY <1>1, <1>2, NextPoll, Invariance, PTL DEF Spec
=============================================================================
