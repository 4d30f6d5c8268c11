--------------------- MODULE OrchestrationAuthorityProofs ---------------------
(***************************************************************************)
(* Who may act on an attempt, for every value of the constants: one active *)
(* dispatch per terminal, authority that ends with the wish to stop, and   *)
(* no local question that nobody can answer.                               *)
(***************************************************************************)
EXTENDS OrchestrationStepProofs

AInv == IInv /\ AuthorityAgrees

(***************************************************************************)
(* What one row means for a worker, its pane and its question.             *)
(***************************************************************************)
RowAuthority(d) ==
    /\ dispatch[d] = "absent" <=> kind[d] = "none"
    /\ kind[d] = "none" => assignee[d] = NoTerminal
    /\ kind[d] = "local" => worker[d] # "none"
    /\ kind[d] = "local" /\ assignee[d] # NoTerminal =>
          /\ capability[d] # "none"
          /\ capability[d] = "live" <=> \/ worker[d] \in {"starting", "start_unknown", "ready"}
                                        \/ worker[d] = "failed" /\ d \in stalled
    /\ d \in stalled => worker[d] = "failed"
    /\ d \in asking /\ kind[d] # "federated" =>
          Active(d) /\ worker[d] \notin {"stopping", "stop_unknown"}


LEMMA AuthorityGivesRows ==
    ASSUME AuthorityAgrees
    PROVE  OneActiveDispatchPerTerminal /\ \A d \in Dispatches : RowAuthority(d)
BY DEF RowAuthority, AuthorityAgrees, AuthorityShape, AuthorityFollowsWorker,
       LocalQuestionsAreAnswerable

\* What a step leaves alone of a row keeps its meaning.
SameRow(d) ==
    /\ dispatch'[d] = dispatch[d] /\ kind'[d] = kind[d] /\ worker'[d] = worker[d]
    /\ assignee'[d] = assignee[d] /\ capability'[d] = capability[d]
    /\ d \in stalled' <=> d \in stalled
    /\ d \in asking' => d \in asking

LEMMA SameRowKeepsAuthority ==
    ASSUME NEW d \in Dispatches, RowAuthority(d), SameRow(d)
    PROVE  RowAuthority(d)'
BY DEF RowAuthority, SameRow, Active

\* An attempt that is over, or is being stopped, and lost its authority with it.
LEMMA RevokedRowKeepsAuthority ==
    ASSUME TypeOK, NEW d \in Dispatches, RowAuthority(d), dispatch[d] # "absent",
           dispatch'[d] # "absent", kind' = kind, assignee' = assignee,
           NEW ds, d \in ds, capability' = Revoked(ds), d \notin asking',
           worker[d] # "none" =>
              worker'[d] \in WorkerSettled \cup {"stopping", "stop_unknown"},
           d \notin stalled'
    PROVE  RowAuthority(d)'
<1>1. capability'[d] # "live" /\ (capability[d] # "none" => capability'[d] # "none")
  BY DEF Revoked, TypeOK
<1> QED BY <1>1 DEF RowAuthority, WorkerSettled

\* Nobody else's row is touched by a step that names d.
LEMMA OthersKeepAuthority ==
    ASSUME TypeOK, NEW d \in Dispatches, \A x \in Dispatches : RowAuthority(x),
           \A x \in Dispatches \ {d} : SameRow(x), RowAuthority(d)'
    PROVE  \A x \in Dispatches : RowAuthority(x)'
BY SameRowKeepsAuthority

LEMMA RevokedEffect ==
    ASSUME TypeOK, NEW ds, NEW x \in Dispatches, x \notin ds
    PROVE  Revoked(ds)[x] = capability[x]
BY DEF Revoked, TypeOK

LEMMA UnsupervisedRow ==
    ASSUME IInv, NEW d \in Dispatches, Active(d), ~LiveWorker(d)
    PROVE  worker[d] = "none"
BY DEF IInv, AttemptsAgree, WorkerAndDispatchSettleTogether, Supervised

LEMMA ReportIsAlone ==
    ASSUME IInv, NEW d \in Dispatches, NEW outcome, SettleWorkerReport(d, outcome)
    PROVE  Rivals(d) = {}
<1>1. CASE Active(d)
  BY <1>1, ActiveIsAlone
<1>2. CASE ~Active(d)
  <2>1. task[taskOf[d]] = "failed"
    BY <1>2 DEF SettleWorkerReport, Correcting, Reconnecting, ReportingStart, Active,
                DispatchActive
  <2> QED BY <2>1, TaskOfActive DEF Rivals, ActiveOf
<1> QED BY <1>1, <1>2
-----------------------------------------------------------------------------
(***************************************************************************)
(* The steps that end an attempt, or begin to.                             *)
(***************************************************************************)
LEMMA FailDispatchKeepsAuthority ==
    ASSUME AInv, NEW d \in Dispatches, Active(d), FailDispatch(d),
           UNCHANGED <<kind, assignee, stalled>>,
           \/ worker' = worker /\ ~LiveWorker(d)
           \/ \E state \in WorkerSettled : LiveWorker(d) /\ worker' = WithWorker(d, state)
    PROVE  \A x \in Dispatches : RowAuthority(x)'
<1>0. TypeOK /\ \A x \in Dispatches : RowAuthority(x)
  BY AuthorityGivesRows DEF AInv, IInv
<1>1. dispatch[d] # "absent" /\ dispatch'[d] # "absent"
  BY DEF FailDispatch, Settled, FailureStatus, Active, DispatchActive
<1>2. /\ worker[d] # "none" => worker'[d] \in WorkerSettled
      /\ d \notin stalled'
      /\ \A x \in Dispatches \ {d} : worker'[x] = worker[x]
  BY <1>0, UnsupervisedRow, WithWorkerEffect
     DEF AInv, LiveWorker, WorkerUnsettled, RowAuthority
<1>3. RowAuthority(d)'
  BY <1>0, <1>1, <1>2, RevokedRowKeepsAuthority DEF FailDispatch
<1>4. \A x \in Dispatches \ {d} : SameRow(x)
  BY <1>0, <1>2, RevokedEffect DEF FailDispatch, SameRow, Settled
<1> QED BY <1>0, <1>3, <1>4, OthersKeepAuthority

\* A stop that succeeds finds the authority and the questions already gone.
LEMMA StopSettlesKeepsAuthority ==
    ASSUME AInv, NEW d \in Dispatches, worker[d] \in {"stopping", "stop_unknown"},
           StopSettles(d), UNCHANGED <<kind, assignee, stalled>>
    PROVE  \A x \in Dispatches : RowAuthority(x)'
<1>0. TypeOK /\ (\A x \in Dispatches : RowAuthority(x)) /\ Active(d)
  BY AuthorityGivesRows, LiveWorkerIsSupervised DEF AInv, IInv, WorkerUnsettled
<1>1. worker'[d] = "stopped" /\ \A x \in Dispatches \ {d} : worker'[x] = worker[x]
  BY <1>0, WithWorkerEffect DEF StopSettles
<1>2. dispatch[d] # "absent" /\ dispatch'[d] = "failed"
  BY <1>0 DEF StopSettles, Settled, Active, DispatchActive
<1>3. RowAuthority(d)'
  BY <1>0, <1>1, <1>2 DEF StopSettles, RowAuthority
<1>4. \A x \in Dispatches \ {d} : SameRow(x)
  BY <1>0, <1>1 DEF StopSettles, SameRow, Settled
<1> QED BY <1>0, <1>3, <1>4, OthersKeepAuthority

\* Attempts nobody supervises are settled together, their questions with them.
LEMMA SettlingUnsupervisedKeepsAuthority ==
    ASSUME AInv, NEW ds \in SUBSET Dispatches, \A x \in ds : Active(x) /\ ~LiveWorker(x),
           NEW status \in DispatchSettled, dispatch' = Settled(ds, status),
           capability' = Revoked(ds), asking' = asking \ ds,
           UNCHANGED <<kind, assignee, stalled, worker>>
    PROVE  \A x \in Dispatches : RowAuthority(x)'
<1>0. TypeOK /\ \A x \in Dispatches : RowAuthority(x)
  BY AuthorityGivesRows DEF AInv, IInv
<1> SUFFICES ASSUME NEW x \in Dispatches PROVE RowAuthority(x)'
  OBVIOUS
<1>1. CASE x \in ds
  <2>1. worker[x] = "none" /\ dispatch[x] # "absent" /\ dispatch'[x] # "absent"
    BY <1>1, UnsupervisedRow DEF AInv, Active, DispatchActive, DispatchSettled, Settled
  <2>2. x \notin stalled'
    BY <1>0, <2>1 DEF RowAuthority
  <2> QED BY <1>0, <1>1, <2>1, <2>2, RevokedRowKeepsAuthority
<1>2. CASE x \notin ds
  <2>1. SameRow(x)
    BY <1>0, <1>2, RevokedEffect DEF SameRow, Settled
  <2> QED BY <1>0, <2>1, SameRowKeepsAuthority
<1> QED BY <1>1, <1>2

LEMMA EndingKeepsAuthority ==
    ASSUME AInv, NEW d \in Dispatches,
           \/ PromptSendFails(d) \/ ReconcileMissingWorkerTerminal(d)
           \/ ReleaseContextOnlyDispatch(d)
           \/ SettleWorkerStop(d) \/ ReconcileFederatedWorkerStop(d)
    PROVE  \A x \in Dispatches : RowAuthority(x)'
<1>1. CASE PromptSendFails(d)
  BY <1>1, FailDispatchKeepsAuthority DEF PromptSendFails
<1>2. CASE ReconcileMissingWorkerTerminal(d)
  <2>1. \E state \in WorkerSettled : worker' = WithWorker(d, state)
    BY <1>2 DEF ReconcileMissingWorkerTerminal, WorkerSettled
  <2> QED BY <1>2, <2>1, FailDispatchKeepsAuthority DEF ReconcileMissingWorkerTerminal
<1>3. CASE ReleaseContextOnlyDispatch(d)
  <2>1. ~LiveWorker(d)
    BY <1>3 DEF ReleaseContextOnlyDispatch, AInv, IInv, AttemptsAgree, RowShape, LiveWorker,
                WorkerUnsettled
  <2>2. "failed" \in DispatchSettled /\ {d} \in SUBSET Dispatches
    BY DEF DispatchSettled
  <2>3. Active(d) /\ UNCHANGED <<kind, assignee, stalled, worker>>
    BY <1>3 DEF ReleaseContextOnlyDispatch
  <2> QED BY <1>3, <2>1, <2>2, <2>3, SettlingUnsupervisedKeepsAuthority
          DEF ReleaseContextOnlyDispatch
<1>4. CASE SettleWorkerStop(d) \/ ReconcileFederatedWorkerStop(d)
  BY <1>4, StopSettlesKeepsAuthority
     DEF SettleWorkerStop, ReconcileFederatedWorkerStop, StopInFlight
<1> QED BY <1>1, <1>2, <1>3, <1>4

LEMMA TerminalExitKeepsAuthority ==
    ASSUME AInv, NEW h \in Terminals, TerminalExit(h)
    PROVE  \A x \in Dispatches : RowAuthority(x)'
<1>1. PICK d \in Dispatches :
        /\ Active(d)
        /\ \/ StopInFlight(d) /\ StopSettles(d)
           \/ /\ FailDispatch(d)
              /\ worker' = IF Supervised(d) THEN WithWorker(d, "failed") ELSE worker
  BY DEF TerminalExit
<1>2. UNCHANGED <<kind, assignee, stalled>>
  BY DEF TerminalExit
<1>3. CASE StopInFlight(d) /\ StopSettles(d)
  BY <1>2, <1>3, StopSettlesKeepsAuthority DEF StopInFlight
<1>4. CASE /\ FailDispatch(d)
           /\ worker' = IF Supervised(d) THEN WithWorker(d, "failed") ELSE worker
  <2>1. Supervised(d) <=> LiveWorker(d)
    BY <1>1 DEF AInv, IInv, AttemptsAgree, WorkerAndDispatchSettleTogether, Supervised,
                LiveWorker, WorkerUnsettled
  <2>2. "failed" \in WorkerSettled
    BY DEF WorkerSettled
  <2> QED BY <1>1, <1>2, <1>4, <2>1, <2>2, FailDispatchKeepsAuthority
<1> QED BY <1>1, <1>3, <1>4

LEMMA UpdateTaskStatusKeepsAuthority ==
    ASSUME AInv, NEW t \in Tasks, NEW status \in TaskStatuses, UpdateTaskStatus(t, status)
    PROVE  \A x \in Dispatches : RowAuthority(x)'
<1> DEFINE settles == IF status \in TaskTerminal THEN ActiveOf(t) ELSE {}
<1>0. TypeOK
  BY DEF AInv, IInv
<1>1. /\ settles \in SUBSET Dispatches
      /\ \A x \in settles : Active(x) /\ ~LiveWorker(x)
  BY DEF UpdateTaskStatus, MayUpdateTask, ActiveWorkerOn, ActiveOf
<1>2. \E s \in DispatchSettled : dispatch' = Settled(settles, s)
  <2>1. CASE status \in TaskTerminal
    BY <2>1 DEF UpdateTaskStatus, TaskTerminal, DispatchSettled
  <2>2. CASE status \notin TaskTerminal
    BY <1>0, <2>2, SettledNothing DEF UpdateTaskStatus, DispatchSettled
  <2> QED BY <2>1, <2>2
<1>3. /\ capability' = Revoked(settles) /\ asking' = asking \ settles
      /\ UNCHANGED <<kind, assignee, stalled, worker>>
  BY DEF UpdateTaskStatus
<1> QED BY <1>1, <1>2, <1>3, SettlingUnsupervisedKeepsAuthority

LEMMA CreateGateKeepsAuthority ==
    ASSUME AInv, NEW g \in Gates, NEW t \in Tasks, CreateGate(g, t)
    PROVE  \A x \in Dispatches : RowAuthority(x)'
<1>1. /\ ActiveOf(t) \in SUBSET Dispatches
      /\ \A x \in ActiveOf(t) : Active(x) /\ ~LiveWorker(x)
      /\ "completed" \in DispatchSettled
  BY DEF CreateGate, ActiveWorkerOn, ActiveOf, DispatchSettled
<1>2. UNCHANGED <<kind, assignee, stalled, worker>>
  BY DEF CreateGate
<1> QED BY <1>1, <1>2, SettlingUnsupervisedKeepsAuthority DEF CreateGate

LEMMA ApplyEscalationToDispatchKeepsAuthority ==
    ASSUME AInv, NEW d \in Dispatches, ApplyEscalationToDispatch(d)
    PROVE  \A x \in Dispatches : RowAuthority(x)'
<1>1. Active(d) /\ ~LiveWorker(d) /\ Rivals(d) = {} /\ {d} \in SUBSET Dispatches
  BY ActiveIsAlone DEF ApplyEscalationToDispatch, AInv
<1>2. FailureStatus(d) \in DispatchSettled
  BY DEF FailureStatus, DispatchSettled
<1>3. /\ dispatch' = Settled({d}, FailureStatus(d))
      /\ capability' = Revoked({d}) /\ asking' = asking \ {d}
      /\ UNCHANGED <<kind, assignee, stalled, worker>>
  BY <1>1 DEF ApplyEscalationToDispatch, Settled
<1> QED BY <1>1, <1>2, <1>3, SettlingUnsupervisedKeepsAuthority

\* A start that fails takes the authority with it, unless its prompt stalled.
LEMMA FailWorkerStartKeepsAuthority ==
    ASSUME AInv, NEW d \in Dispatches, NEW unobserved \in BOOLEAN,
           FailWorkerStart(d, unobserved)
    PROVE  \A x \in Dispatches : RowAuthority(x)'
<1>0. /\ TypeOK /\ (\A x \in Dispatches : RowAuthority(x)) /\ worker[d] = "starting"
      /\ d \notin stalled /\ dispatch[d] # "absent"
  BY AuthorityGivesRows
     DEF AInv, IInv, AttemptsAgree, RowShape, RowAuthority, FailWorkerStart, StartInFlight
<1>1. worker'[d] = "failed" /\ \A x \in Dispatches \ {d} : worker'[x] = worker[x]
  BY <1>0, WithWorkerEffect DEF FailWorkerStart
<1>2. dispatch'[d] = "failed"
  BY DEF FailWorkerStart, Settled
<1>3. RowAuthority(d)'
  <2>1. CASE unobserved
    BY <1>0, <1>1, <1>2, <2>1 DEF FailWorkerStart, RowAuthority
  <2>2. CASE ~unobserved
    BY <1>0, <1>1, <1>2, <2>2, RevokedRowKeepsAuthority DEF FailWorkerStart, WorkerSettled
  <2> QED BY <2>1, <2>2
<1>4. \A x \in Dispatches \ {d} : SameRow(x)
  BY <1>0, <1>1, RevokedEffect DEF FailWorkerStart, SameRow, Settled
<1> QED BY <1>0, <1>3, <1>4, OthersKeepAuthority

LEMMA SettleWorkerReportKeepsAuthority ==
    ASSUME AInv, NEW d \in Dispatches, NEW outcome \in {"succeeded", "failed"},
           SettleWorkerReport(d, outcome)
    PROVE  \A x \in Dispatches : RowAuthority(x)'
<1> DEFINE status == IF outcome = "succeeded" THEN "completed" ELSE "failed"
<1>0. TypeOK /\ (\A x \in Dispatches : RowAuthority(x)) /\ Rivals(d) = {}
  BY AuthorityGivesRows, ReportIsAlone DEF AInv, IInv
<1>1. /\ dispatch' = Settled({d}, status) /\ capability' = Revoked({d})
      /\ asking' = asking \ {d} /\ stalled' = stalled \ {d}
      /\ UNCHANGED <<kind, assignee>>
  BY <1>0 DEF SettleWorkerReport
<1>2. /\ worker[d] # "none" => worker'[d] \in WorkerSettled
      /\ \A x \in Dispatches \ {d} : worker'[x] = worker[x]
  BY <1>0, WithWorkerEffect DEF SettleWorkerReport, Supervised, WorkerSettled
<1>3. dispatch[d] # "absent" /\ dispatch'[d] # "absent"
  BY <1>1 DEF SettleWorkerReport, Correcting, Reconnecting, ReportingStart, Active,
              DispatchActive, Settled
<1>4. RowAuthority(d)'
  BY <1>0, <1>1, <1>2, <1>3, RevokedRowKeepsAuthority
<1>5. \A x \in Dispatches \ {d} : SameRow(x)
  BY <1>0, <1>1, <1>2, RevokedEffect DEF SameRow, Settled
<1> QED BY <1>0, <1>4, <1>5, OthersKeepAuthority

LEMMA StoppingKeepsAuthority ==
    ASSUME AInv, NEW d \in Dispatches, BeginWorkerStop(d) \/ AbandonWorkerDispatch(d)
    PROVE  \A x \in Dispatches : RowAuthority(x)'
<1>0. /\ TypeOK /\ (\A x \in Dispatches : RowAuthority(x)) /\ Active(d)
      /\ dispatch[d] # "absent" /\ worker[d] # "failed"
  BY AuthorityGivesRows, LiveWorkerIsSupervised
     DEF AInv, IInv, BeginWorkerStop, AbandonWorkerDispatch, MayAbandon, WorkerUnsettled,
         Active, DispatchActive
<1>1. /\ worker'[d] \in {"stopping", "abandoned"}
      /\ \A x \in Dispatches \ {d} : worker'[x] = worker[x]
  BY <1>0, WithWorkerEffect DEF BeginWorkerStop, AbandonWorkerDispatch
<1>2. /\ capability' = Revoked({d}) /\ asking' = asking \ {d} /\ dispatch'[d] # "absent"
      /\ UNCHANGED <<kind, assignee, stalled>> /\ d \notin stalled
      /\ \A x \in Dispatches \ {d} : dispatch'[x] = dispatch[x]
  BY <1>0 DEF BeginWorkerStop, AbandonWorkerDispatch, Settled, RowAuthority
<1>3. RowAuthority(d)'
  BY <1>0, <1>1, <1>2, RevokedRowKeepsAuthority DEF WorkerSettled
<1>4. \A x \in Dispatches \ {d} : SameRow(x)
  BY <1>0, <1>1, <1>2, RevokedEffect DEF SameRow
<1> QED BY <1>0, <1>3, <1>4, OthersKeepAuthority
-----------------------------------------------------------------------------
(***************************************************************************)
(* The steps that begin an attempt, or move its worker.                    *)
(***************************************************************************)
LEMMA InsertingKeepsAuthority ==
    ASSUME AInv, NEW d \in Dispatches, NEW t \in Tasks,
           \/ \E h \in Terminals, inject \in BOOLEAN : CreateDispatchContext(d, t, h, inject)
           \/ \E k \in {"local", "federated"} : CreateStartingWorkerDispatch(d, t, k)
    PROVE  \A x \in Dispatches : RowAuthority(x)'
<1>0. /\ TypeOK /\ (\A x \in Dispatches : RowAuthority(x)) /\ dispatch[d] = "absent"
      /\ assignee[d] = NoTerminal /\ kind[d] = "none" /\ worker[d] = "none"
  BY AuthorityGivesRows
     DEF AInv, IInv, AttemptsAgree, RowShape, RowAuthority, CreateDispatchContext,
         CreateStartingWorkerDispatch, NextRow
<1>1. d \notin stalled /\ d \notin asking
  BY <1>0 DEF RowAuthority, Active, DispatchActive
<1>2. RowAuthority(d)'
  <2>1. ASSUME NEW h \in Terminals, NEW inject \in BOOLEAN,
               CreateDispatchContext(d, t, h, inject)
        PROVE  RowAuthority(d)'
    BY <1>0, <1>1, <2>1 DEF CreateDispatchContext, RowAuthority, TypeOK
  <2>2. ASSUME NEW k \in {"local", "federated"}, CreateStartingWorkerDispatch(d, t, k)
        PROVE  RowAuthority(d)'
    BY <1>0, <1>1, <2>2, WithWorkerEffect
       DEF CreateStartingWorkerDispatch, RowAuthority, TypeOK, authorityVars
  <2> QED BY <2>1, <2>2
<1>3. \A x \in Dispatches \ {d} : SameRow(x)
  BY <1>0, WithWorkerEffect
     DEF CreateDispatchContext, CreateStartingWorkerDispatch, SameRow, TypeOK, authorityVars
<1> QED BY <1>0, <1>2, <1>3, OthersKeepAuthority

LEMMA PrepareKeepsAuthority ==
    ASSUME AInv, NEW d \in Dispatches, NEW h \in Terminals,
           PrepareStartingWorkerAuthority(d, h)
    PROVE  \A x \in Dispatches : RowAuthority(x)'
<1>0. TypeOK /\ \A x \in Dispatches : RowAuthority(x)
  BY AuthorityGivesRows DEF AInv, IInv
<1>1. RowAuthority(d)'
  BY <1>0 DEF PrepareStartingWorkerAuthority, StartInFlight, RowAuthority, TypeOK, Active,
              graphVars
<1>2. \A x \in Dispatches \ {d} : SameRow(x)
  BY <1>0 DEF PrepareStartingWorkerAuthority, SameRow, TypeOK, graphVars
<1> QED BY <1>0, <1>1, <1>2, OthersKeepAuthority

\* A worker that is not being stopped keeps its authority while its start is
\* uncertain, and one that is being stopped does not get it back.
LEMMA MovingKeepsAuthority ==
    ASSUME AInv, NEW d \in Dispatches,
           \/ MarkWorkerDispatchReady(d) \/ MarkWorkerStartUnknown(d)
           \/ MarkWorkerStopUnknown(d)
    PROVE  \A x \in Dispatches : RowAuthority(x)'
<1>0. TypeOK /\ (\A x \in Dispatches : RowAuthority(x)) /\ Active(d)
  BY AuthorityGivesRows, LiveWorkerIsSupervised
     DEF AInv, IInv, MarkWorkerDispatchReady, MarkWorkerStartUnknown, MarkWorkerStopUnknown,
         StartInFlight, WorkerUnsettled
<1>1. /\ \/ worker[d] = "starting" /\ worker'[d] \in {"ready", "start_unknown"}
         \/ worker[d] = "stopping" /\ worker'[d] = "stop_unknown"
      /\ \A x \in Dispatches \ {d} : worker'[x] = worker[x] /\ dispatch'[x] = dispatch[x]
      /\ Active(d)' /\ dispatch'[d] # "absent"
      /\ UNCHANGED <<kind, assignee, capability, stalled, asking>>
  BY <1>0, WithWorkerEffect
     DEF MarkWorkerDispatchReady, MarkWorkerStartUnknown, MarkWorkerStopUnknown,
         StartInFlight, Active, DispatchActive, TypeOK, authorityVars
<1>2. RowAuthority(d)'
  BY <1>0, <1>1 DEF RowAuthority, Active, DispatchActive
<1>3. \A x \in Dispatches \ {d} : SameRow(x)
  BY <1>1 DEF SameRow
<1> QED BY <1>0, <1>2, <1>3, OthersKeepAuthority

\* What the paired host says of its worker touches no local row.
LEMMA FederatedKeepsAuthority ==
    ASSUME AInv, NEW d \in Dispatches,
           \/ \E s \in {"ready", "failed", "stopped", "start_unknown"} :
                 ReconcileFederatedWorkerStart(d, s)
           \/ ResumeFederatedWorkerForTerminalRelay(d)
    PROVE  \A x \in Dispatches : RowAuthority(x)'
<1>0. /\ TypeOK /\ (\A x \in Dispatches : RowAuthority(x)) /\ kind[d] = "federated"
      /\ worker[d] # "failed" /\ Active(d)
  BY AuthorityGivesRows, LiveWorkerIsSupervised
     DEF AInv, IInv, ReconcileFederatedWorkerStart, ResumeFederatedWorkerForTerminalRelay,
         StopInFlight, WorkerUnsettled
<1>1. dispatch'[d] # "absent" /\ \A x \in Dispatches \ {d} : dispatch'[x] = dispatch[x]
  BY <1>0 DEF ReconcileFederatedWorkerStart, ResumeFederatedWorkerForTerminalRelay, Settled,
              Active, DispatchActive, TypeOK
<1>2. /\ \A x \in Dispatches \ {d} : worker'[x] = worker[x] /\ capability'[x] = capability[x]
      /\ UNCHANGED <<kind, assignee, stalled>> /\ asking' \subseteq asking
  BY <1>0, WithWorkerEffect, RevokedEffect
     DEF ReconcileFederatedWorkerStart, ResumeFederatedWorkerForTerminalRelay, authorityVars
<1>3. RowAuthority(d)'
  BY <1>0, <1>1, <1>2 DEF RowAuthority
<1>4. \A x \in Dispatches \ {d} : SameRow(x)
  BY <1>1, <1>2 DEF SameRow
<1> QED BY <1>0, <1>3, <1>4, OthersKeepAuthority

\* A question is asked with authority the code still accepts, so of an attempt
\* nobody is stopping.
LEMMA AskingKeepsAuthority ==
    ASSUME AInv, NEW d \in Dispatches,
           CreateQuestion(d) \/ RegisterFederatedQuestion(d) \/ AnswerQuestion(d)
    PROVE  \A x \in Dispatches : RowAuthority(x)'
<1>0. TypeOK /\ (\A x \in Dispatches : RowAuthority(x)) /\ (Active(d) /\ kind[d] = "context" => worker[d] = "none")
  BY AuthorityGivesRows DEF AInv, IInv, AttemptsAgree, RowShape
<1>1. UNCHANGED <<dispatch, kind, worker, assignee, capability, stalled>>
  BY DEF CreateQuestion, RegisterFederatedQuestion, AnswerQuestion, graphVars, authorityVars
<1>2. CASE CreateQuestion(d)
  <2>1. kind[d] # "federated" => worker[d] \notin {"stopping", "stop_unknown"}
    <3>1. kind[d] = "local" => capability[d] = "live"
      BY <1>0, <1>2 DEF CreateQuestion, RowAuthority, TypeOK
    <3>2. kind[d] \in {"context", "local", "federated"}
      BY <1>0, <1>2, KindsAssumption
         DEF CreateQuestion, RowAuthority, TypeOK, Active, DispatchActive
    <3> QED BY <1>0, <1>2, <3>1, <3>2 DEF CreateQuestion, RowAuthority
  <2>2. RowAuthority(d)'
    BY <1>0, <1>1, <1>2, <2>1 DEF CreateQuestion, RowAuthority, Active
  <2>3. \A x \in Dispatches \ {d} : SameRow(x)
    BY <1>1, <1>2 DEF CreateQuestion, SameRow
  <2> QED BY <1>0, <2>2, <2>3, OthersKeepAuthority
<1>3. CASE RegisterFederatedQuestion(d)
  <2>1. RowAuthority(d)'
    BY <1>0, <1>1, <1>3 DEF RegisterFederatedQuestion, RowAuthority
  <2>2. \A x \in Dispatches \ {d} : SameRow(x)
    BY <1>1, <1>3 DEF RegisterFederatedQuestion, SameRow
  <2> QED BY <1>0, <2>1, <2>2, OthersKeepAuthority
<1>4. CASE AnswerQuestion(d)
  BY <1>0, <1>1, <1>4, SameRowKeepsAuthority DEF AnswerQuestion, SameRow
<1> QED BY <1>2, <1>3, <1>4
-----------------------------------------------------------------------------
(***************************************************************************)
(* One active dispatch per terminal.                                       *)
(***************************************************************************)
\* Without a new assignment no terminal gets a second dispatch: a row that
\* becomes active was not assigned yet.
LEMMA SamePanesStayExclusive ==
    ASSUME AInv, [Next]_vars, assignee' = assignee
    PROVE  OneActiveDispatchPerTerminal'
<1>1. \A d \in Dispatches : Active(d)' /\ assignee[d] # NoTerminal => Active(d)
  <2> SUFFICES ASSUME NEW d \in Dispatches, Active(d)', assignee[d] # NoTerminal
               PROVE  Active(d)
    OBVIOUS
  <2>1. DispatchStep(d) /\ RowAuthority(d)
    BY EveryDispatchStep, AuthorityGivesRows DEF AInv
  <2> QED BY <2>1 DEF DispatchStep, RowAuthority, Active, DispatchActive
<1>2. OneActiveDispatchPerTerminal
  BY AuthorityGivesRows DEF AInv
<1> QED BY <1>1, <1>2 DEF OneActiveDispatchPerTerminal

\* A claim checks every other active row, one that is still starting included.
LEMMA ClaimStaysExclusive ==
    ASSUME AInv, NEW d \in Dispatches, NEW h \in Terminals, ~TerminalBusy(h, d),
           assignee' = [assignee EXCEPT ![d] = h],
           \A x \in Dispatches \ {d} : dispatch'[x] = dispatch[x]
    PROVE  OneActiveDispatchPerTerminal'
<1>1. TypeOK /\ OneActiveDispatchPerTerminal
  BY AuthorityGivesRows DEF AInv, IInv
<1>2. assignee'[d] = h /\ \A x \in Dispatches \ {d} : assignee'[x] = assignee[x]
  BY <1>1 DEF TypeOK
<1>3. \A x \in Dispatches \ {d} : Active(x)' => Active(x) /\ assignee[x] # h
  BY DEF Active, TerminalBusy
<1> QED BY <1>1, <1>2, <1>3 DEF OneActiveDispatchPerTerminal

LEMMA TerminalsStayExclusive ==
    ASSUME AInv, [Next]_vars
    PROVE  OneActiveDispatchPerTerminal'
<1>1. ASSUME NEW d \in Dispatches, NEW t \in Tasks, NEW h \in Terminals,
             NEW inject \in BOOLEAN, CreateDispatchContext(d, t, h, inject)
      PROVE  OneActiveDispatchPerTerminal'
  BY <1>1, ClaimStaysExclusive DEF CreateDispatchContext, AInv, IInv, TypeOK
<1>2. ASSUME NEW d \in Dispatches, NEW h \in Terminals,
             PrepareStartingWorkerAuthority(d, h)
      PROVE  OneActiveDispatchPerTerminal'
  BY <1>2, ClaimStaysExclusive DEF PrepareStartingWorkerAuthority, graphVars
<1>3. CASE assignee' = assignee
  BY <1>3, SamePanesStayExclusive
<1>4. CASE \/ \E t \in Tasks : CreateTask(t) \/ \E s \in TaskStatuses : UpdateTaskStatus(t, s)
           \/ \E d \in Dispatches, t \in Tasks, k \in {"local", "federated"} :
                 CreateStartingWorkerDispatch(d, t, k)
           \/ \E g \in Gates : ResolveGate(g) \/ \E t \in Tasks : CreateGate(g, t)
           \/ \E h \in Terminals : TerminalExit(h)
           \/ ReblockTasksWithPendingGates \/ RuntimeRestart \/ UNCHANGED vars
  <2>1. assignee' = assignee
    BY <1>4 DEF CreateTask, UpdateTaskStatus, CreateStartingWorkerDispatch, ResolveGate,
                CreateGate, TerminalExit, ReblockTasksWithPendingGates, RuntimeRestart,
                authorityVars, vars
  <2> QED BY <2>1, <1>3
<1>5. ASSUME NEW d \in Dispatches,
             \/ PromptSendFails(d) \/ ApplyEscalationToDispatch(d)
             \/ MarkWorkerDispatchReady(d) \/ MarkWorkerStartUnknown(d)
             \/ \E unobserved \in BOOLEAN : FailWorkerStart(d, unobserved)
             \/ \E s \in {"ready", "failed", "stopped", "start_unknown"} :
                   ReconcileFederatedWorkerStart(d, s)
             \/ \E o \in {"succeeded", "failed"} : SettleWorkerReport(d, o)
             \/ ReleaseContextOnlyDispatch(d) \/ BeginWorkerStop(d)
      PROVE  OneActiveDispatchPerTerminal'
  <2>1. assignee' = assignee
    BY <1>5 DEF PromptSendFails, ApplyEscalationToDispatch, MarkWorkerDispatchReady,
                MarkWorkerStartUnknown, FailWorkerStart, ReconcileFederatedWorkerStart,
                SettleWorkerReport, ReleaseContextOnlyDispatch, BeginWorkerStop,
                authorityVars
  <2> QED BY <2>1, <1>3
<1>6. ASSUME NEW d \in Dispatches,
             \/ SettleWorkerStop(d) \/ MarkWorkerStopUnknown(d)
             \/ ReconcileFederatedWorkerStop(d) \/ ResumeFederatedWorkerForTerminalRelay(d)
             \/ AbandonWorkerDispatch(d) \/ ReconcileMissingWorkerTerminal(d)
             \/ CreateQuestion(d) \/ RegisterFederatedQuestion(d) \/ AnswerQuestion(d)
      PROVE  OneActiveDispatchPerTerminal'
  <2>1. assignee' = assignee
    BY <1>6 DEF SettleWorkerStop, MarkWorkerStopUnknown, ReconcileFederatedWorkerStop,
                ResumeFederatedWorkerForTerminalRelay, AbandonWorkerDispatch,
                ReconcileMissingWorkerTerminal, CreateQuestion, RegisterFederatedQuestion,
                AnswerQuestion, authorityVars
  <2> QED BY <2>1, <1>3
<1> QED BY <1>1, <1>2, <1>4, <1>5, <1>6 DEF Next
-----------------------------------------------------------------------------
(***************************************************************************)
(* The invariant, and what a reader wants of it.                           *)
(***************************************************************************)
LEMMA InitAuthority == Init => AuthorityAgrees
BY DEF Init, AuthorityAgrees, AuthorityShape, OneActiveDispatchPerTerminal,
       AuthorityFollowsWorker, LocalQuestionsAreAnswerable, Active, DispatchActive

LEMMA NextAuthority == AInv /\ [Next]_vars => AInv'
<1> SUFFICES ASSUME AInv, [Next]_vars PROVE AInv'
  OBVIOUS
<1>1. IInv' /\ OneActiveDispatchPerTerminal'
  BY NextAgrees, TerminalsStayExclusive DEF AInv
<1>2. TypeOK /\ (\A x \in Dispatches : RowAuthority(x)) /\ TypeOK'
  BY <1>1, AuthorityGivesRows DEF AInv, IInv
<1>3. ASSUME \/ \E t \in Tasks : CreateTask(t)
             \/ \E g \in Gates : ResolveGate(g)
             \/ ReblockTasksWithPendingGates \/ RuntimeRestart \/ UNCHANGED vars
      PROVE  \A x \in Dispatches : RowAuthority(x)'
  <2>1. UNCHANGED <<dispatch, kind, worker, assignee, capability, stalled, asking>>
    BY <1>3 DEF CreateTask, ResolveGate, ReblockTasksWithPendingGates, RuntimeRestart,
                graphVars, vars, authorityVars
  <2> QED BY <1>2, <2>1, SameRowKeepsAuthority DEF SameRow
<1>4. ASSUME NEW d \in Dispatches,
             \/ PromptSendFails(d) \/ ApplyEscalationToDispatch(d)
             \/ \E h \in Terminals : PrepareStartingWorkerAuthority(d, h)
             \/ MarkWorkerDispatchReady(d) \/ MarkWorkerStartUnknown(d)
             \/ \E unobserved \in BOOLEAN : FailWorkerStart(d, unobserved)
             \/ \E s \in {"ready", "failed", "stopped", "start_unknown"} :
                   ReconcileFederatedWorkerStart(d, s)
             \/ \E o \in {"succeeded", "failed"} : SettleWorkerReport(d, o)
      PROVE  \A x \in Dispatches : RowAuthority(x)'
  BY <1>4, EndingKeepsAuthority, ApplyEscalationToDispatchKeepsAuthority,
     PrepareKeepsAuthority, MovingKeepsAuthority, FailWorkerStartKeepsAuthority,
     FederatedKeepsAuthority, SettleWorkerReportKeepsAuthority
<1>5. ASSUME NEW d \in Dispatches,
             \/ ReleaseContextOnlyDispatch(d) \/ BeginWorkerStop(d)
             \/ SettleWorkerStop(d) \/ MarkWorkerStopUnknown(d)
             \/ ReconcileFederatedWorkerStop(d) \/ ResumeFederatedWorkerForTerminalRelay(d)
             \/ AbandonWorkerDispatch(d) \/ ReconcileMissingWorkerTerminal(d)
             \/ CreateQuestion(d) \/ RegisterFederatedQuestion(d) \/ AnswerQuestion(d)
      PROVE  \A x \in Dispatches : RowAuthority(x)'
  BY <1>5, EndingKeepsAuthority, StoppingKeepsAuthority, MovingKeepsAuthority,
     FederatedKeepsAuthority, AskingKeepsAuthority
<1>6. ASSUME \/ \E t \in Tasks, s \in TaskStatuses : UpdateTaskStatus(t, s)
             \/ \E d \in Dispatches, t \in Tasks :
                   \/ \E h \in Terminals, inject \in BOOLEAN :
                         CreateDispatchContext(d, t, h, inject)
                   \/ \E k \in {"local", "federated"} : CreateStartingWorkerDispatch(d, t, k)
             \/ \E h \in Terminals : TerminalExit(h)
             \/ \E g \in Gates, t \in Tasks : CreateGate(g, t)
      PROVE  \A x \in Dispatches : RowAuthority(x)'
  BY <1>6, UpdateTaskStatusKeepsAuthority, InsertingKeepsAuthority,
     TerminalExitKeepsAuthority, CreateGateKeepsAuthority
<1>7. \A x \in Dispatches : RowAuthority(x)'
  BY <1>3, <1>4, <1>5, <1>6 DEF Next
<1>8. AuthorityAgrees'
  BY <1>1, <1>2, <1>7
     DEF TypeOK, RowAuthority, AuthorityAgrees, AuthorityShape, AuthorityFollowsWorker,
         LocalQuestionsAreAnswerable
<1> QED BY <1>1, <1>8 DEF AInv

LEMMA AuthorityInvariance == Spec => []AInv
<1>1. Init => AInv
  BY InitType, InitAgrees, InitAuthority DEF AInv, IInv
<1>2. AInv /\ [Next]_vars => AInv'
  BY NextAuthority
<1> QED BY <1>1, <1>2, PTL DEF Spec

\* Two active dispatches never share a pane, whichever starts claimed it and
\* however far each of them has come.
THEOREM OneActiveDispatchPerTerminalAlways == Spec => []OneActiveDispatchPerTerminal
<1>1. AInv => OneActiveDispatchPerTerminal
  BY DEF AInv, AuthorityAgrees
<1> QED BY <1>1, AuthorityInvariance, PTL

\* An assigned local worker holds its authority exactly as long as nobody has
\* asked it to stop and it has not settled, or its prompt stalled.
THEOREM AuthorityAlwaysFollowsWorker == Spec => []AuthorityFollowsWorker
<1>1. AInv => AuthorityFollowsWorker
  BY DEF AInv, AuthorityAgrees
<1> QED BY <1>1, AuthorityInvariance, PTL

\* No pending question of a local attempt outlives the attempt, or the moment it
\* is asked to stop.
THEOREM LocalQuestionsAlwaysAnswerable == Spec => []LocalQuestionsAreAnswerable
<1>1. AInv => LocalQuestionsAreAnswerable
  BY DEF AInv, AuthorityAgrees
<1> QED BY <1>1, AuthorityInvariance, PTL

\* Who may act on a dispatch, through its pane, its capability or its questions,
\* always agrees with what the rows say of its worker.
THEOREM AuthorityAlwaysAgrees == Spec => []AuthorityAgrees
<1>1. AInv => AuthorityAgrees
  BY DEF AInv
<1> QED BY <1>1, AuthorityInvariance, PTL
=============================================================================
