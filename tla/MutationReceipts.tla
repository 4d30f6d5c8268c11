-------------------------- MODULE MutationReceipts --------------------------
(***************************************************************************)
(* The durable receipts of one host's orchestration mutations.  A caller   *)
(* names each mutation with a request id and repeats the call with the     *)
(* same id when it did not see an answer; OrchestrationMutationExecutor    *)
(* decides from the receipt row and from the handlers still running        *)
(* whether to run the handler, to join it, to replay its answer or to say  *)
(* that the outcome is unknown.  The rows survive a crash of the runtime,  *)
(* the handlers and the callers waiting for them do not.                   *)
(*                                                                         *)
(* A request's input (its method and payload hash) is its kind:            *)
(*   send     a message: the row, then its receipt, are two commits        *)
(*   report   worker_done on the Run's host: settlement and receipt are    *)
(*            one transaction                                              *)
(*   relayed  worker_done on a worker's host: the report is queued for the *)
(*            Run's home, then its verdict is awaited                      *)
(*   start    workerStart, federationAttachStart: the receipt is inserted  *)
(*            with the dispatch it accepts, then its agent is awaited      *)
(*   prompt   terminal.send of an agent prompt: bytes written to a pty     *)
(*   release  workerRelease: safe to run again                             *)
(* A nudge after the commit is best effort and only marks the step that    *)
(* may still fail; what the effects themselves do is in Orchestration.     *)
(***************************************************************************)
EXTENDS Naturals, Sequences, FiniteSets

CONSTANTS Requests,     \* request ids of one caller
          Calls,        \* RPC connections, each serving one call at a time
          NoCall,
          MAX_ROWS,     \* MUTATION_RECEIPT_MAX_ROWS
          PRUNE_BATCH,  \* MUTATION_RECEIPT_PRUNE_BATCH_SIZE
          Uses,         \* bound: which inputs each id is used with
          MaxCrashes    \* bound: restarts of the runtime

Kinds == {"send", "report", "relayed", "start", "prompt", "release"}

ASSUME ReceiptConstants ==
    /\ IsFiniteSet(Requests) /\ NoCall \notin [leader : Calls, kind : Kinds]
    /\ MAX_ROWS \in Nat \ {0} /\ PRUNE_BATCH \in Nat \ {0} /\ MaxCrashes \in Nat
    /\ Uses \subseteq Requests \X Kinds

VARIABLES state,      \* the row: "none" when there is none
          kindOf,     \* its method and payload hash
          order,      \* completed requests, by updated_at and rowid
          inFlight,   \* the executor's map: the promise a duplicate joins
          call,       \* what each connection's call is doing
          applied,    \* times the request's effect was applied, up to 2
          overtaken,  \* starts whose dispatch others moved on while they waited
          stranded,   \* pending rows whose handler a crash or a doubt ended
          excused,    \* requests the ledger promises nothing about: it pruned
                      \* their row, or two inputs used their id at once
          crashes

rowVars == <<state, kindOf, order>>
effectVars == <<applied, overtaken>>
history == <<stranded, excused, crashes>>
vars == <<rowVars, inFlight, call, effectVars, history>>

Idle == [phase |-> "idle"]
Phases == {"running", "possible", "written", "committed", "observing"}
Running(c) == call[c].phase \in Phases
Answers == {"done", "refused", "failed", "unknown", "mismatch", "full"}
CallState ==
    {Idle} \cup [phase : {"answered"}, req : Requests, answer : Answers]
           \cup [phase : {"joined"}, req : Requests, leader : Calls]
           \cup [phase : Phases, req : Requests, kind : Kinds]
Pending == {"pending", "accepted", "effect_free"}
Rows == {r \in Requests : state[r] # "none"}
Taken(r, k) == state[r] # "none" /\ kindOf[r] # k

TypeOK ==
    /\ state \in [Requests -> Pending \cup {"none", "completed", "refused"}]
    /\ kindOf \in [Requests -> Kinds \cup {"none"}]
    /\ order \in Seq(Requests) /\ Len(order) <= Cardinality(Requests)
    /\ inFlight \in [Requests -> [leader : Calls, kind : Kinds] \cup {NoCall}]
    /\ call \in [Calls -> CallState]
    /\ applied \in [Requests -> 0..2] /\ overtaken \subseteq Requests
    /\ stranded \subseteq Requests /\ excused \subseteq Requests
    /\ crashes \in 0..MaxCrashes

Init ==
    /\ state = [r \in Requests |-> "none"]
    /\ kindOf = [r \in Requests |-> "none"]
    /\ order = <<>>
    /\ inFlight = [r \in Requests |-> NoCall]
    /\ call = [c \in Calls |-> Idle]
    /\ applied = [r \in Requests |-> 0] /\ overtaken = {}
    /\ stranded = {} /\ excused = {} /\ crashes = 0
-----------------------------------------------------------------------------
(***************************************************************************)
(* The ledger                                                              *)
(***************************************************************************)
\* The e oldest completed rows are more than 30 days old.  No handler runs
\* that long.
Expirable == {e \in 0..Len(order) : \A i \in 1..e : inFlight[order[i]] = NoCall}

\* ensureMutationReceiptCapacity: how many of the oldest completed rows go.
Excess(e) ==
    LET left == Cardinality(Rows) - e
        batch == IF left >= MAX_ROWS THEN left - MAX_ROWS + PRUNE_BATCH ELSE 0
    IN  IF e + batch > Len(order) THEN Len(order) ELSE e + batch

Fits(e) == Cardinality(Rows) - Excess(e) < MAX_ROWS

\* Insert a row for r; a ledger still full rolls the pruning back with it.
AddRow(r, k, s, e, misused) ==
    LET gone == {order[i] : i \in 1..Excess(e)}
    IN  /\ e \in Expirable /\ Fits(e)
        /\ state' = [x \in Requests |-> IF x = r THEN s
                                        ELSE IF x \in gone THEN "none" ELSE state[x]]
        /\ kindOf' = [x \in Requests |-> IF x = r THEN k
                                         ELSE IF x \in gone THEN "none" ELSE kindOf[x]]
        /\ order' = SubSeq(order, Excess(e) + 1, Len(order))
        /\ excused' = excused \cup gone \cup misused

\* completeMutationReceipt: any row of this request and input, pending or not.
Completable(c) == state[call[c].req] # "none" /\ ~Taken(call[c].req, call[c].kind)

\* The other completed requests.
Without(r) ==
    IF \E i \in DOMAIN order : order[i] = r
    THEN LET i == CHOOSE i \in DOMAIN order : order[i] = r
         IN  SubSeq(order, 1, i - 1) \o SubSeq(order, i + 1, Len(order))
    ELSE order

\* Fault: completing a completed row adds a second one.
Complete_Again(r, outcome) ==
    /\ state' = [state EXCEPT ![r] = IF outcome = "done" THEN "completed" ELSE "refused"]
    /\ order' = Append(order, r)
    /\ stranded' = stranded \ {r}
    /\ UNCHANGED kindOf

\* Fault: a refused prompt is recorded like a delivered one.
Complete_Always(r, outcome) ==
    /\ state' = [state EXCEPT ![r] = "completed"]
    /\ order' = Append(Without(r), r)
    /\ stranded' = stranded \ {r}
    /\ UNCHANGED kindOf

Complete(r, outcome) ==
    /\ state' = [state EXCEPT ![r] = IF outcome = "done" THEN "completed" ELSE "refused"]
    /\ order' = Append(Without(r), r)
    /\ stranded' = stranded \ {r}
    /\ UNCHANGED kindOf

Unresolved == {r \in Requests : state[r] \in Pending}

\* Fault: a row that names the dispatch it accepted is not discarded.
Discardable_Bare == {r \in Requests : state[r] = "pending"}

\* discardPendingMutationReceipt looks at the request id, not at the input.
Discardable == Unresolved

Discard(r) ==
    IF r \in Discardable
    THEN /\ state' = [state EXCEPT ![r] = "none"]
         /\ kindOf' = [kindOf EXCEPT ![r] = "none"]
         /\ order' = Without(r)
         /\ stranded' = stranded \ {r}
    ELSE UNCHANGED <<rowVars, stranded>>

Apply(r) ==
    /\ applied' = [applied EXCEPT ![r] = IF @ = 2 THEN 2 ELSE @ + 1]
    /\ UNCHANGED overtaken
-----------------------------------------------------------------------------
(***************************************************************************)
(* A call arrives: OrchestrationMutationExecutor.run up to invoke          *)
(***************************************************************************)
Says(c, r, a) ==
    /\ call' = [call EXCEPT ![c] = [phase |-> "answered", req |-> r, answer |-> a]]
    /\ UNCHANGED <<rowVars, inFlight, effectVars, history>>

Free(c) == call[c].phase \in {"idle", "answered"}

Active(r) == inFlight[r] # NoCall

\* Fault: a start, too, joins only once its row is there.
Joins_RowFirst(r, k) == Active(r) /\ state[r] # "none" /\ kindOf[r] = k

\* A start joins before it has a row: it validates first.
Joins(r, k) ==
    /\ Active(r)
    /\ IF k = "start" THEN inFlight[r].kind = k ELSE state[r] # "none" /\ kindOf[r] = k

\* The id was used with another input.
Conflicts(r, k) ==
    \/ Taken(r, k)
    \/ k = "start" /\ Active(r) /\ inFlight[r].kind # k

Join(c, r, k) ==
    /\ Free(c) /\ Joins(r, k) /\ ~Conflicts(r, k)
    /\ call' = [call EXCEPT ![c] = [phase |-> "joined", req |-> r, leader |-> inFlight[r].leader]]
    /\ UNCHANGED <<rowVars, inFlight, effectVars, history>>

RefuseMismatch(c, r, k) == Free(c) /\ Conflicts(r, k) /\ Says(c, r, "mismatch")

Launch(c, r, k, phase) ==
    /\ call' = [call EXCEPT ![c] = [phase |-> phase, req |-> r, kind |-> k]]
    /\ inFlight' = [inFlight EXCEPT ![r] = [leader |-> c, kind |-> k]]

\* A new request.  A start inserts its row itself, with the dispatch.
Begin(c, r, k) ==
    /\ Free(c) /\ state[r] = "none" /\ ~Joins(r, k) /\ ~Conflicts(r, k)
    /\ Launch(c, r, k, "running")
    /\ IF k = "start"
       THEN UNCHANGED <<rowVars, excused>>
       ELSE \E e \in Expirable :
               AddRow(r, k, "pending", e, IF Active(r) THEN {r} ELSE {})
    /\ UNCHANGED <<effectVars, stranded, crashes>>

LedgerFull(c, r, k) ==
    /\ Free(c) /\ state[r] = "none" /\ k # "start" /\ \E e \in Expirable : ~Fits(e)
    /\ Says(c, r, "full")

\* Only a report stopped before its effect, and a release, run again.
Resumable(r, k) ==
    \/ k = "report" /\ state[r] = "effect_free"
    \/ k = "release" /\ state[r] = "pending"

Resume(c, r, k) ==
    /\ Free(c) /\ state[r] \in Pending /\ kindOf[r] = k /\ ~Active(r) /\ Resumable(r, k)
    /\ Launch(c, r, k, "running")
    /\ UNCHANGED <<rowVars, effectVars, history>>

OutcomeUnknown(c, r, k) ==
    /\ Free(c) /\ state[r] \in Pending /\ kindOf[r] = k /\ ~Active(r) /\ ~Resumable(r, k)
    /\ ~Conflicts(r, k)
    /\ Says(c, r, "unknown")

\* A receipt that carries a nudge, or a prompt asked to wait for its turn, is
\* observed once more; the others are answered from the row.
Replay(c, r, k) ==
    /\ Free(c) /\ state[r] \in {"completed", "refused"} /\ kindOf[r] = k /\ ~Active(r)
    /\ Says(c, r, IF state[r] = "completed" THEN "done" ELSE "refused")

ObserveReplay(c, r, k) ==
    /\ Free(c) /\ state[r] = "completed" /\ kindOf[r] = k /\ ~Active(r)
    /\ k \in {"send", "report", "prompt"}
    /\ Launch(c, r, k, "observing")
    /\ UNCHANGED <<rowVars, effectVars, history>>

Arrive(c) ==
    \E r \in Requests, k \in Kinds :
        /\ <<r, k>> \in Uses
        /\ \/ Join(c, r, k) \/ RefuseMismatch(c, r, k) \/ Begin(c, r, k) \/ LedgerFull(c, r, k)
           \/ Resume(c, r, k) \/ OutcomeUnknown(c, r, k)
           \/ Replay(c, r, k) \/ ObserveReplay(c, r, k)
-----------------------------------------------------------------------------
(***************************************************************************)
(* The handler                                                             *)
(***************************************************************************)
Runs(c, k, phase) == call[c].phase = phase /\ call[c].kind = k
Reaches(c, phase) ==
    /\ call' = [call EXCEPT ![c] = [phase |-> phase, req |-> call[c].req, kind |-> call[c].kind]]
    /\ UNCHANGED inFlight

\* Fault: an error leaves the promise in the map.
Ends_Leaking(c, own, joined) ==
    /\ call' = [x \in Calls |->
                  IF x = c THEN [phase |-> "answered", req |-> call[c].req, answer |-> own]
                  ELSE IF call[x].phase = "joined" /\ call[x].leader = c
                       THEN [phase |-> "answered", req |-> call[x].req, answer |-> joined]
                       ELSE call[x]]
    /\ inFlight' = IF own = "failed" THEN inFlight
                   ELSE [inFlight EXCEPT ![call[c].req] = NoCall]

\* The handler's promise settles: its own call is answered, so is every call
\* that joined it, and the executor forgets it.
Ends(c, own, joined) ==
    /\ call' = [x \in Calls |->
                  IF x = c THEN [phase |-> "answered", req |-> call[c].req, answer |-> own]
                  ELSE IF call[x].phase = "joined" /\ call[x].leader = c
                       THEN [phase |-> "answered", req |-> call[x].req, answer |-> joined]
                       ELSE call[x]]
    /\ inFlight' = [inFlight EXCEPT ![call[c].req] = NoCall]

\* The message, and its receipt right after it.
CommitSend(c) ==
    /\ Runs(c, "send", "running") /\ Completable(c)
    /\ Apply(call[c].req) /\ Complete(call[c].req, "done")
    /\ Reaches(c, "committed")
    /\ UNCHANGED <<excused, crashes>>

\* The same when the row is another's: the message is stored, its receipt not.
SendUnrecorded(c) ==
    /\ Runs(c, "send", "running") /\ ~Completable(c)
    /\ Apply(call[c].req) /\ Discard(call[c].req)
    /\ Ends(c, "failed", "failed")
    /\ UNCHANGED <<excused, crashes>>

\* On the Run's host: the checkpoint, then settlement and receipt in one
\* transaction.
CommitReport(c) ==
    /\ Runs(c, "report", "running") /\ Completable(c) /\ state[call[c].req] \in Pending
    /\ Apply(call[c].req) /\ Complete(call[c].req, "done")
    /\ Reaches(c, "committed")
    /\ UNCHANGED <<excused, crashes>>

\* createStartingWorkerDispatch, createRemoteDispatchAttachment.
AcceptStart(c) ==
    LET r == call[c].req IN
    /\ Runs(c, "start", "running") /\ state[r] = "none"
    /\ \E e \in Expirable : AddRow(r, "start", "accepted", e, {})
    /\ Apply(r)
    /\ Reaches(c, "committed")
    /\ UNCHANGED <<stranded, crashes>>

\* The id has been accepted behind this handler's back: operation_unknown.
StartAlreadyAccepted(c) ==
    /\ Runs(c, "start", "running") /\ Completable(c)
    /\ Ends(c, "unknown", "unknown")
    /\ UNCHANGED <<rowVars, effectVars, history>>

\* While the start waits for its agent, others move its dispatch out of starting:
\* a show that finds the paired host ready, a report, an exit, a stop, a gate.
OvertakeStart(c) ==
    /\ Runs(c, "start", "committed")
    /\ overtaken' = overtaken \cup {call[c].req}
    /\ UNCHANGED <<rowVars, inFlight, call, applied, history>>

\* On a worker's host the report only enters the queue; no checkpoint is left.
QueueReport(c) ==
    /\ Runs(c, "relayed", "running")
    /\ Apply(call[c].req)
    /\ Reaches(c, "written")
    /\ UNCHANGED <<rowVars, history>>

MarkPrompt(c) ==
    /\ Runs(c, "prompt", "running")
    /\ Reaches(c, "possible")
    /\ UNCHANGED <<rowVars, effectVars, history>>

WritePrompt(c) ==
    /\ Runs(c, "prompt", "possible")
    /\ Apply(call[c].req)
    /\ Reaches(c, "written")
    /\ UNCHANGED <<rowVars, history>>

RecordPrompt(c) ==
    /\ Runs(c, "prompt", "written") /\ Completable(c)
    /\ Complete(call[c].req, "done")
    /\ Reaches(c, "committed")
    /\ UNCHANGED <<effectVars, excused, crashes>>

\* What is released twice is released once: nothing to count.
Release(c) ==
    /\ Runs(c, "release", "running")
    /\ Reaches(c, "committed")
    /\ UNCHANGED <<rowVars, effectVars, history>>

\* The handler returns.  A row that is gone by then turns the answer into an
\* error; the calls that joined get the result all the same.
Return(c, outcome) ==
    /\ \/ outcome = "done" /\ call[c].phase \in {"written", "committed"}
       \/ outcome = "refused" /\ (Runs(c, "prompt", "running") \/ Runs(c, "prompt", "possible"))
    /\ IF Completable(c)
       THEN Complete(call[c].req, outcome) /\ Ends(c, outcome, outcome)
       ELSE Discard(call[c].req) /\ Ends(c, "failed", outcome)
    /\ UNCHANGED <<effectVars, excused, crashes>>

\* Fault: the mark the prompt left before writing is ignored.
EffectPossible_AfterReceipt(c) == call[c].kind = "prompt" /\ call[c].phase = "committed"

EffectPossible(c) ==
    call[c].kind = "prompt" /\ call[c].phase \in {"possible", "written", "committed"}

\* Fault: operation_unknown is discarded like any other error.
VerdictNotSeen_Never(c) == FALSE

\* The report is queued and the home's verdict did not come in time: the only
\* error after an effect that says operation_unknown.
VerdictNotSeen(c) == Runs(c, "relayed", "written")

\* A handler throws before its effect, or where an await or a nudge follows it.
\* A start turns every failure into its answer while its dispatch is still
\* starting; once it is not, recording the outcome itself throws.
MayThrow(c) ==
    \/ call[c].phase \in {"running", "possible", "written"}
    \/ call[c].phase = "committed" /\ call[c].kind \in {"send", "report", "release"}
    \/ Runs(c, "start", "committed") /\ call[c].req \in overtaken

\* The row is kept where the effect cannot be told from its absence.
Throw(c) ==
    LET r == call[c].req
        said == IF VerdictNotSeen(c) THEN "unknown" ELSE "failed"
    IN  /\ MayThrow(c)
        /\ Ends(c, said, said)
        /\ IF EffectPossible(c) \/ VerdictNotSeen(c)
           THEN /\ stranded' = IF state[r] \in Pending THEN stranded \cup {r} ELSE stranded
                /\ UNCHANGED rowVars
           ELSE Discard(r)
        /\ UNCHANGED <<effectVars, excused, crashes>>

\* The replayed nudge or wait is over.  It never turns the answer into an error,
\* except for calls that joined it.
Observed(c) ==
    /\ call[c].phase = "observing"
    /\ IF Completable(c) THEN Complete(call[c].req, "done") ELSE UNCHANGED <<rowVars, stranded>>
    /\ Ends(c, "done", "done")
    /\ UNCHANGED <<effectVars, excused, crashes>>

ObservationFails(c) ==
    /\ call[c].phase = "observing"
    /\ Ends(c, "done", "failed")
    /\ UNCHANGED <<rowVars, effectVars, history>>

Handle(c) ==
    \/ CommitSend(c) \/ SendUnrecorded(c) \/ CommitReport(c)
    \/ AcceptStart(c) \/ StartAlreadyAccepted(c) \/ QueueReport(c)
    \/ MarkPrompt(c) \/ WritePrompt(c) \/ RecordPrompt(c) \/ Release(c)
    \/ \E outcome \in {"done", "refused"} : Return(c, outcome)
    \/ Throw(c) \/ Observed(c) \/ ObservationFails(c)
-----------------------------------------------------------------------------
(***************************************************************************)
(* The runtime dies.  Rows stay; promises, handlers and connections go.    *)
(***************************************************************************)
Dies ==
    /\ crashes < MaxCrashes /\ crashes' = crashes + 1
    /\ call' = [c \in Calls |-> Idle]
    /\ inFlight' = [r \in Requests |-> NoCall]
    /\ UNCHANGED excused

\* Fault: a restart clears what was in flight, in the database too.
Crash_Clears ==
    /\ Dies
    /\ state' = [r \in Requests |-> IF r \in Unresolved THEN "none" ELSE state[r]]
    /\ kindOf' = [r \in Requests |-> IF r \in Unresolved THEN "none" ELSE kindOf[r]]
    /\ stranded' = {}
    /\ UNCHANGED <<order, effectVars>>

Crash ==
    /\ Dies
    /\ stranded' = Unresolved
    /\ UNCHANGED <<rowVars, effectVars>>

\* Between the message and its receipt.
CrashAfterInsert(c) ==
    /\ Runs(c, "send", "running") /\ Completable(c)
    /\ Dies
    /\ Apply(call[c].req)
    /\ stranded' = Unresolved
    /\ UNCHANGED rowVars

\* Fault: the settlement commits without its receipt.
CrashAfterCheckpoint_Settled(c) ==
    /\ Runs(c, "report", "running") /\ Completable(c) /\ state[call[c].req] \in Pending
    /\ Dies
    /\ Apply(call[c].req)
    /\ state' = [state EXCEPT ![call[c].req] = "effect_free"]
    /\ stranded' = Unresolved
    /\ UNCHANGED <<kindOf, order>>

\* Between the checkpoint and the transaction.
CrashAfterCheckpoint(c) ==
    /\ Runs(c, "report", "running") /\ Completable(c) /\ state[call[c].req] \in Pending
    /\ Dies
    /\ state' = [state EXCEPT ![call[c].req] = "effect_free"]
    /\ stranded' = Unresolved
    /\ UNCHANGED <<kindOf, order, effectVars>>

Next ==
    \/ \E c \in Calls : Arrive(c) \/ Handle(c) \/ OvertakeStart(c)
                            \/ CrashAfterInsert(c) \/ CrashAfterCheckpoint(c)
    \/ Crash

Spec == Init /\ [][Next]_vars /\ \A c \in Calls : WF_vars(Handle(c))
-----------------------------------------------------------------------------
(***************************************************************************)
(* Properties                                                              *)
(***************************************************************************)
Vouched == Requests \ excused

\* Repeating a request never repeats its effect, whatever crashed, failed or was
\* answered in between: a message is not sent twice, a prompt not typed twice, a
\* report not queued or settled twice, a second worker not started, unless others
\* had moved the first one's dispatch on before its start came back.
OneEffect == \A r \in Vouched \ overtaken : applied[r] <= 1

\* What was done is on record: the row that keeps a repeated call from running the
\* handler again outlives every error and every crash; of a start, as long as
\* nobody else moves its dispatch on.
EffectIsOnRecord == \A r \in Vouched \ overtaken : applied[r] > 0 => state[r] # "none"

\* The checkpoint a repeated worker_done resumes from is never found on a row
\* whose settlement happened, so a report is not settled twice.
CheckpointMeansNoEffect ==
    \A r \in Vouched \ overtaken :
        state[r] = "effect_free" => kindOf[r] = "report" /\ applied[r] = 0

\* A pending row nobody works on is left by a crash, by a prompt that may have
\* reached its terminal or by a report whose verdict was not seen; any other error
\* leaves the id free to be used again.
PendingHasCause ==
    \A r \in Vouched : state[r] \in Pending /\ ~Active(r) => r \in stranded

\* What recovery-and-cleanup.md:77-79 promises of a retry with the same id, that
\* it never starts a duplicate, with no exception for an overtaken start.
RetryNeverDuplicates == \A r \in Vouched : applied[r] <= 1

\* What recovery-and-cleanup.md:86-88 says of a pending request: its mutation
\* still runs, or the runtime restarted before it recorded the outcome.  A prompt
\* is a terminal's, not an orchestration mutation.
PendingMeansRunningOrRestarted ==
    \A r \in Vouched :
        state[r] \in Pending /\ ~Active(r) /\ kindOf[r] # "prompt" => crashes > 0

\* Two calls with one id never run the handler at once, a start included, which
\* has no row while it validates.
OneHandlerPerRequest ==
    \A c, d \in Calls :
        Running(c) /\ Running(d) /\ call[c].req = call[d].req /\ call[c].req \in Vouched
            => c = d

\* Who is told that a request is done, by its handler, by joining it or by a
\* replay, is told of an effect that was applied.
DoneMeansApplied ==
    \A c \in Calls :
        call[c].phase = "answered" /\ call[c].answer = "done" /\ call[c].req \in Vouched
            => applied[call[c].req] > 0 \/ kindOf[call[c].req] = "release"

\* A row whose outcome is open goes only when a handler running under its own
\* id ends: neither a restart nor making room for another request forgets it.
OpenRowsAreKept ==
    [][\A r \in Requests : state[r] \in Pending /\ state'[r] = "none"
          => /\ crashes' = crashes
             /\ \E c \in Calls : Running(c) /\ call[c].req = r /\ ~Running(c)']_vars

\* Every call is answered, or its runtime dies: none waits on a promise that
\* nobody settles any more.
CallIsAnswered == \A c \in Calls : ~Free(c) ~> Free(c)
=============================================================================
