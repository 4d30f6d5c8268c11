----------------------- MODULE MutationReceiptsProofs -----------------------
(***************************************************************************)
(* Theorems about the mutation receipts, for any number of requests, calls *)
(* and restarts and any limit of the ledger.                               *)
(*                                                                         *)
(* None of the safety properties is inductive alone: whether repeating a   *)
(* request is safe depends on what the handler in flight has already done, *)
(* so the invariant says, per handler, what its phase tells of the row and *)
(* of the effect.                                                          *)
(***************************************************************************)
EXTENDS MutationReceipts, FiniteSetTheorems, SequenceTheorems, TLAPS

\* What the row must keep from happening again: a start others have overtaken no
\* longer counts.
InForce(r) == IF r \in overtaken THEN 0 ELSE applied[r]

RowsTyped ==
    /\ state \in [Requests -> Pending \cup {"none", "completed", "refused"}]
    /\ kindOf \in [Requests -> Kinds \cup {"none"}]
    /\ applied \in [Requests -> 0..2] /\ overtaken \subseteq Requests

CallsTyped ==
    /\ inFlight \in [Requests -> [leader : Calls, kind : Kinds] \cup {NoCall}]
    /\ call \in [Calls -> CallState]

\* A handler is the one its request's promise belongs to, and its phase tells
\* whose row is there, whether it is settled and whether the effect happened.
HandlerOf(c, r) ==
    LET k == call[c].kind
        p == call[c].phase
    IN  /\ inFlight[r] = [leader |-> c, kind |-> k]
        /\ IF k = "start" /\ p = "running" THEN state[r] = "none"
                                           ELSE state[r] # "none" /\ kindOf[r] = k
        /\ p \in {"running", "possible"} => InForce(r) = 0
        /\ p = "possible" => k = "prompt"
        /\ p = "written" => k \in {"prompt", "relayed"}
        /\ p = "observing" => state[r] = "completed"
        /\ p = "committed" /\ k \in {"send", "report", "prompt"} => state[r] \notin Pending
        /\ p \in {"written", "committed"} /\ k # "release" => applied[r] > 0

HandlersOf(r) == \A c \in Calls : Running(c) /\ call[c].req = r => HandlerOf(c, r)

\* What the row alone tells of the effect.
RowOf(r) ==
    /\ InForce(r) <= 1
    /\ InForce(r) > 0 => state[r] # "none"
    /\ state[r] = "effect_free" => kindOf[r] = "report" /\ InForce(r) = 0
    /\ state[r] # "none" /\ kindOf[r] = "release" => InForce(r) = 0
    /\ state[r] = "completed" => applied[r] > 0 \/ kindOf[r] = "release"

\* An answer that says done stays true.
SaysDone(c, r) == call[c].phase = "answered" /\ call[c].answer = "done" /\ call[c].req = r
AnswersOf(r) ==
    \A c \in Calls : SaysDone(c, r) =>
        applied[r] > 0 \/ (state[r] = "completed" /\ kindOf[r] = "release")

CauseOf(r) == state[r] \in Pending /\ ~Active(r) => r \in stranded

RequestInv(r) == HandlersOf(r) /\ RowOf(r) /\ AnswersOf(r) /\ CauseOf(r)

\* A promise belongs to a handler that runs, and so does what a call joined.
PromiseInv ==
    /\ \A r \in Requests : Active(r) =>
           /\ Running(inFlight[r].leader)
           /\ call[inFlight[r].leader].req = r
    /\ \A c \in Calls : call[c].phase = "joined" =>
           /\ Running(call[c].leader)
           /\ call[call[c].leader].req = call[c].req

IInv == RowsTyped /\ CallsTyped /\ PromiseInv /\ \A r \in Vouched : RequestInv(r)

-----------------------------------------------------------------------------
(***************************************************************************)
(* What a step does to the calls and the promises.                         *)
(***************************************************************************)
LEMMA RunningCall ==
    ASSUME CallsTyped, NEW c \in Calls, Running(c)
    PROVE  /\ call[c] = [phase |-> call[c].phase, req |-> call[c].req, kind |-> call[c].kind]
           /\ call[c].req \in Requests /\ call[c].kind \in Kinds /\ call[c].phase \in Phases
BY DEF CallsTyped, CallState, Running, Phases, Idle

LEMMA JoinedCall ==
    ASSUME CallsTyped, NEW c \in Calls, call[c].phase = "joined"
    PROVE  call[c].req \in Requests /\ call[c].leader \in Calls
BY DEF CallsTyped, CallState, Phases, Idle

LEMMA PromiseType ==
    ASSUME CallsTyped, NEW r \in Requests, Active(r)
    PROVE  inFlight[r].leader \in Calls /\ inFlight[r].kind \in Kinds
BY DEF CallsTyped, Active

LEMMA CallTypes ==
    /\ \A r \in Requests, a \in Answers :
          [phase |-> "answered", req |-> r, answer |-> a] \in CallState
    /\ \A r \in Requests, l \in Calls :
          [phase |-> "joined", req |-> r, leader |-> l] \in CallState
    /\ \A r \in Requests, k \in Kinds, p \in Phases :
          [phase |-> p, req |-> r, kind |-> k] \in CallState
BY DEF CallState

LEMMA InForceKept ==
    ASSUME UNCHANGED <<applied, overtaken>>, NEW r PROVE InForce(r)' = InForce(r)
BY DEF InForce

\* Nothing the invariant says of r looks at what changed.
RowKept(r) ==
    /\ state'[r] = state[r] /\ kindOf'[r] = kindOf[r]
    /\ applied'[r] = applied[r] /\ InForce(r)' = InForce(r)
    /\ r \in stranded => r \in stranded'

Untouched(r) ==
    /\ RowKept(r)
    /\ inFlight'[r] = inFlight[r]
    /\ \A c \in Calls : (Running(c)' \/ SaysDone(c, r)') /\ call'[c].req = r
           => call'[c] = call[c]

LEMMA UntouchedKeeps ==
    ASSUME NEW r, RequestInv(r), Untouched(r)
    PROVE  RequestInv(r)'
<1>1. HandlersOf(r)'
  BY DEF RequestInv, HandlersOf, HandlerOf, Untouched, RowKept, Running, Pending, InForce
<1>2. RowOf(r)'
  BY DEF RequestInv, RowOf, Untouched, RowKept
<1>3. AnswersOf(r)'
  BY DEF RequestInv, AnswersOf, SaysDone, Untouched, RowKept
<1>4. CauseOf(r)'
  BY DEF RequestInv, CauseOf, Active, Untouched, RowKept, Pending
<1> QED BY <1>1, <1>2, <1>3, <1>4 DEF RequestInv

LEMMA EndsCalls ==
    ASSUME CallsTyped, PromiseInv, NEW c \in Calls, Running(c),
           NEW own \in Answers, NEW joined \in Answers, Ends(c, own, joined)
    PROVE  /\ call' \in [Calls -> CallState]
           /\ inFlight' \in [Requests -> [leader : Calls, kind : Kinds] \cup {NoCall}]
           /\ inFlight'[call[c].req] = NoCall
           /\ \A r \in Requests \ {call[c].req} : inFlight'[r] = inFlight[r]
           /\ \A x \in Calls : Running(x)' => x # c /\ call'[x] = call[x]
           /\ \A x \in Calls, r \in Requests : SaysDone(x, r)' =>
                 \/ call'[x] = call[x]
                 \/ r = call[c].req /\ "done" \in {own, joined}
           /\ PromiseInv'
<1> DEFINE Ended(x) == x # c /\ call[x].phase = "joined" /\ call[x].leader = c
<1>r. call[c].req \in Requests
  BY RunningCall
<1>t. call \in [Calls -> CallState] /\ inFlight \in [Requests -> [leader : Calls, kind : Kinds] \cup {NoCall}]
  BY DEF CallsTyped
<1>c. call'[c] = [phase |-> "answered", req |-> call[c].req, answer |-> own]
  BY DEF Ends
<1>j. \A x \in Calls : Ended(x) =>
          /\ call'[x] = [phase |-> "answered", req |-> call[x].req, answer |-> joined]
          /\ call[x].req = call[c].req
  BY DEF Ends, PromiseInv
<1>u. \A x \in Calls : x # c /\ ~Ended(x) => call'[x] = call[x]
  BY DEF Ends
<1>1. call' \in [Calls -> CallState]
  <2>1. \A x \in Calls : call'[x] \in CallState
    <3> SUFFICES ASSUME NEW x \in Calls PROVE call'[x] \in CallState
      OBVIOUS
    <3>1. CASE x = c
      BY <3>1, <1>c, <1>r, CallTypes
    <3>2. CASE Ended(x)
      BY <3>2, <1>j, <1>r, CallTypes
    <3>3. CASE x # c /\ ~Ended(x)
      BY <3>3, <1>u, <1>t
    <3> QED BY <3>1, <3>2, <3>3
  <2> QED BY <2>1 DEF Ends
<1>2. /\ inFlight' \in [Requests -> [leader : Calls, kind : Kinds] \cup {NoCall}]
      /\ inFlight'[call[c].req] = NoCall
      /\ \A r \in Requests \ {call[c].req} : inFlight'[r] = inFlight[r]
  BY <1>r, <1>t DEF Ends
<1>o. ASSUME NEW x \in Calls, call'[x].phase # "answered"
      PROVE  x # c /\ ~Ended(x) /\ call'[x] = call[x]
  <2>1. x # c
    BY <1>o, <1>c
  <2>2. CASE Ended(x)
    <3>1. call'[x] = [phase |-> "answered", req |-> call[x].req, answer |-> joined]
      BY <2>2, <1>j
    <3> QED BY <3>1, <1>o
  <2>3. CASE ~Ended(x)
    BY <2>1, <2>3, <1>u
  <2> QED BY <2>1, <2>2, <2>3
<1>3. \A x \in Calls : Running(x)' => x # c /\ call'[x] = call[x]
  BY <1>o DEF Running, Phases
<1>4. \A x \in Calls, r \in Requests : SaysDone(x, r)' =>
          \/ call'[x] = call[x]
          \/ r = call[c].req /\ "done" \in {own, joined}
  <2> SUFFICES ASSUME NEW x \in Calls, NEW r \in Requests, SaysDone(x, r)',
                      call'[x] # call[x]
               PROVE  r = call[c].req /\ "done" \in {own, joined}
    OBVIOUS
  <2>1. CASE x = c
    BY <2>1, <1>c DEF SaysDone
  <2>2. CASE Ended(x)
    <3>1. call'[x] = [phase |-> "answered", req |-> call[c].req, answer |-> joined]
      BY <2>2, <1>j
    <3> QED BY <3>1 DEF SaysDone
  <2> QED BY <2>1, <2>2, <1>u
<1>5. \A x \in Calls : Running(x) /\ x # c => call'[x] = call[x]
  BY <1>u DEF Running, Phases
<1>6. PromiseInv'
  <2>1. ASSUME NEW r \in Requests, Active(r)'
        PROVE  Running(inFlight[r].leader)' /\ call'[inFlight'[r].leader].req = r
    <3>1. r # call[c].req /\ inFlight'[r] = inFlight[r] /\ Active(r)
      BY <2>1, <1>2 DEF Active
    <3>2. inFlight[r].leader \in Calls
      BY <3>1, PromiseType
    <3>3. Running(inFlight[r].leader) /\ call[inFlight[r].leader].req = r
      BY <3>1 DEF PromiseInv
    <3> QED BY <3>1, <3>2, <3>3, <1>5 DEF Running
  <2>2. ASSUME NEW x \in Calls, call'[x].phase = "joined"
        PROVE  Running(call[x].leader)' /\ call'[call'[x].leader].req = call'[x].req
    <3>1. call'[x] = call[x] /\ call[x].leader # c /\ call[x].phase = "joined"
      BY <2>2, <1>o
    <3>2. call[x].leader \in Calls
      BY <3>1, JoinedCall
    <3> QED BY <3>1, <3>2, <1>5 DEF PromiseInv, Running
  <2> QED BY <2>1, <2>2, <1>2 DEF PromiseInv, Running
<1> QED BY <1>1, <1>2, <1>3, <1>4, <1>6

LEMMA ReachesCalls ==
    ASSUME CallsTyped, PromiseInv, NEW c \in Calls, Running(c), NEW p \in Phases, Reaches(c, p)
    PROVE  /\ call' \in [Calls -> CallState]
           /\ call'[c] = [phase |-> p, req |-> call[c].req, kind |-> call[c].kind]
           /\ \A x \in Calls \ {c} : call'[x] = call[x]
           /\ PromiseInv'
<1>1. /\ call \in [Calls -> CallState] /\ call[c].req \in Requests /\ call[c].kind \in Kinds
      /\ inFlight' = inFlight
  BY RunningCall DEF CallsTyped, Reaches
<1>2. /\ call'[c] = [phase |-> p, req |-> call[c].req, kind |-> call[c].kind]
      /\ \A x \in Calls \ {c} : call'[x] = call[x]
  BY <1>1 DEF Reaches
<1>3. call' \in [Calls -> CallState]
  <2>1. [phase |-> p, req |-> call[c].req, kind |-> call[c].kind] \in CallState
    BY <1>1 DEF CallState
  <2> QED BY <2>1, <1>1 DEF Reaches
<1>4. \A x \in Calls : /\ Running(x)' <=> Running(x)
                       /\ call'[x].req = call[x].req
                       /\ call'[x].phase = "joined" => call'[x] = call[x]
  BY <1>2 DEF Running, Phases
<1>5. PromiseInv'
  BY <1>1, <1>4, PromiseType, JoinedCall DEF PromiseInv, Active, Running
<1> QED BY <1>2, <1>3, <1>5

LEMMA LaunchCalls ==
    ASSUME CallsTyped, PromiseInv, NEW c \in Calls, Free(c), NEW r \in Requests, NEW k \in Kinds,
           NEW p \in Phases, Launch(c, r, k, p)
    PROVE  /\ call' \in [Calls -> CallState]
           /\ inFlight' \in [Requests -> [leader : Calls, kind : Kinds] \cup {NoCall}]
           /\ call'[c] = [phase |-> p, req |-> r, kind |-> k]
           /\ inFlight'[r] = [leader |-> c, kind |-> k]
           /\ \A x \in Calls \ {c} : call'[x] = call[x]
           /\ \A q \in Requests \ {r} : inFlight'[q] = inFlight[q]
           /\ PromiseInv'
<1>1. /\ call \in [Calls -> CallState]
      /\ inFlight \in [Requests -> [leader : Calls, kind : Kinds] \cup {NoCall}]
  BY DEF CallsTyped
<1>2. /\ call'[c] = [phase |-> p, req |-> r, kind |-> k]
      /\ inFlight'[r] = [leader |-> c, kind |-> k]
      /\ \A x \in Calls \ {c} : call'[x] = call[x]
      /\ \A q \in Requests \ {r} : inFlight'[q] = inFlight[q]
  BY <1>1 DEF Launch
<1>3. call' \in [Calls -> CallState]
  <2>1. [phase |-> p, req |-> r, kind |-> k] \in CallState
    BY DEF CallState
  <2> QED BY <2>1, <1>1 DEF Launch
<1>4. inFlight' \in [Requests -> [leader : Calls, kind : Kinds] \cup {NoCall}]
  BY <1>1 DEF Launch
<1>5. ~Running(c)
  BY DEF Free, Running, Phases
<1>6. \A x \in Calls : Running(x) => Running(x)' /\ call'[x] = call[x]
  BY <1>2, <1>5 DEF Running
<1>7. Running(c)' /\ call'[c].req = r /\ call'[c].phase # "joined"
  BY <1>2 DEF Running, Phases
<1>8. PromiseInv'
  <2>1. ASSUME NEW q \in Requests, Active(q)'
        PROVE  Running(inFlight[q].leader)' /\ call'[inFlight'[q].leader].req = q
    <3>1. CASE q = r
      BY <3>1, <1>2, <1>7 DEF Running
    <3>2. CASE q # r
      <4>1. inFlight'[q] = inFlight[q] /\ Active(q)
        BY <3>2, <2>1, <1>2 DEF Active
      <4> QED BY <4>1, <1>6, PromiseType DEF PromiseInv, Running
    <3> QED BY <3>1, <3>2
  <2>2. ASSUME NEW x \in Calls, call'[x].phase = "joined"
        PROVE  Running(call[x].leader)' /\ call'[call'[x].leader].req = call'[x].req
    <3>1. call'[x] = call[x] /\ call[x].phase = "joined"
      BY <2>2, <1>2, <1>7
    <3> QED BY <3>1, <1>6, JoinedCall DEF PromiseInv, Running
  <2> QED BY <2>1, <2>2 DEF PromiseInv
<1> QED BY <1>2, <1>3, <1>4, <1>8

\* A free call is answered, or joins a handler that runs.
LEMMA FreeCallChanges ==
    ASSUME CallsTyped, PromiseInv, NEW c \in Calls, Free(c), NEW s \in CallState,
           s.phase \in {"answered", "joined"},
           s.phase = "joined" => Running(s.leader) /\ call[s.leader].req = s.req,
           call' = [call EXCEPT ![c] = s], UNCHANGED inFlight
    PROVE  /\ call' \in [Calls -> CallState]
           /\ call'[c] = s
           /\ \A x \in Calls \ {c} : call'[x] = call[x]
           /\ PromiseInv'
<1>1. call \in [Calls -> CallState] /\ inFlight' = inFlight
  BY DEF CallsTyped
<1>2. call'[c] = s /\ \A x \in Calls \ {c} : call'[x] = call[x]
  BY <1>1
<1>3. call' \in [Calls -> CallState]
  BY <1>1
<1>4. ~Running(c)
  BY DEF Free, Running, Phases
<1>5. \A x \in Calls : Running(x) => Running(x)' /\ call'[x] = call[x]
  BY <1>2, <1>4 DEF Running
<1>6. s.phase = "joined" => s.leader \in Calls
  BY DEF CallState, Phases, Idle
<1>7. PromiseInv'
  <2>1. ASSUME NEW q \in Requests, Active(q)'
        PROVE  Running(inFlight[q].leader)' /\ call'[inFlight'[q].leader].req = q
    <3>1. Active(q)
      BY <2>1, <1>1 DEF Active
    <3> QED BY <3>1, <1>1, <1>5, PromiseType DEF PromiseInv, Running
  <2>2. ASSUME NEW x \in Calls, call'[x].phase = "joined"
        PROVE  Running(call[x].leader)' /\ call'[call'[x].leader].req = call'[x].req
    <3>1. CASE x = c
      BY <3>1, <2>2, <1>2, <1>5, <1>6 DEF Running
    <3>2. CASE x # c
      BY <3>2, <2>2, <1>2, <1>5, JoinedCall DEF PromiseInv, Running
    <3> QED BY <3>1, <3>2
  <2> QED BY <2>1, <2>2 DEF PromiseInv
<1> QED BY <1>2, <1>3, <1>7

-----------------------------------------------------------------------------
(***************************************************************************)
(* One request at a time: a step that changes the row of r only keeps the  *)
(* invariant when what is said of r still holds.                           *)
(***************************************************************************)
LEMMA OneHandler ==
    ASSUME NEW r, HandlersOf(r), NEW c \in Calls, NEW d \in Calls,
           Running(c), Running(d), call[c].req = r, call[d].req = r
    PROVE  c = d
<1>1. [leader |-> c, kind |-> call[c].kind] = [leader |-> d, kind |-> call[d].kind]
  BY DEF HandlersOf, HandlerOf
<1> QED BY <1>1

LEMMA RunningIsActive ==
    ASSUME IInv, NEW c \in Calls, Running(c), call[c].req \in Vouched
    PROVE  Active(call[c].req)
<1>1. inFlight[call[c].req] = [leader |-> c, kind |-> call[c].kind]
  BY DEF IInv, RequestInv, HandlersOf, HandlerOf
<1>2. call[c].kind \in Kinds
  BY RunningCall DEF IInv
<1> QED BY <1>1, <1>2, ReceiptConstants DEF Active

\* What was said of the effect of r is still true.
SaidStays(r) ==
    /\ applied[r] > 0 => applied'[r] > 0
    /\ state[r] = "completed" /\ kindOf[r] = "release"
          => state'[r] = "completed" /\ kindOf'[r] = "release"

LEMMA EndsKeeps ==
    ASSUME IInv, NEW c \in Calls, Running(c), NEW r, r = call[c].req,
           NEW own \in Answers, NEW joined \in Answers, Ends(c, own, joined),
           RowsTyped', excused \subseteq excused',
           \A q \in Requests \ {r} : RowKept(q),
           r \in Vouched' =>
              /\ RowOf(r)' /\ SaidStays(r)
              /\ state'[r] \in Pending => r \in stranded'
              /\ "done" \in {own, joined} =>
                    \/ applied'[r] > 0
                    \/ state'[r] = "completed" /\ kindOf'[r] = "release"
    PROVE  IInv'
<1>t. CallsTyped /\ PromiseInv
  BY DEF IInv
<1>e. /\ CallsTyped' /\ PromiseInv'
      /\ inFlight'[r] = NoCall
      /\ \A q \in Requests \ {r} : inFlight'[q] = inFlight[q]
      /\ \A x \in Calls : Running(x)' => x # c /\ call'[x] = call[x]
      /\ \A x \in Calls, q \in Requests : SaysDone(x, q)' =>
            \/ call'[x] = call[x]
            \/ q = r /\ "done" \in {own, joined}
  BY <1>t, EndsCalls DEF CallsTyped
<1>v. Vouched' \subseteq Vouched /\ Vouched \subseteq Requests
  BY DEF Vouched
<1>1. ASSUME NEW q \in Vouched', q # r PROVE RequestInv(q)'
  <2>1. Untouched(q)
    BY <1>1, <1>e, <1>v DEF Untouched
  <2> QED BY <2>1, <1>v, UntouchedKeeps DEF IInv
<1>2. ASSUME r \in Vouched' PROVE RequestInv(r)'
  <2>i. RequestInv(r) /\ r \in Requests
    BY <1>2, <1>v DEF IInv
  <2>1. HandlersOf(r)'
    <3> SUFFICES ASSUME NEW x \in Calls, Running(x)', call'[x].req = r PROVE FALSE
      BY DEF HandlersOf
    <3>1. x # c /\ Running(x) /\ call[x].req = r
      BY <1>e DEF Running
    <3> QED BY <3>1, <2>i, OneHandler DEF RequestInv
  <2>2. RowOf(r)'
    BY <1>2
  <2>3. AnswersOf(r)'
    <3> SUFFICES ASSUME NEW x \in Calls, SaysDone(x, r)'
                 PROVE  \/ applied'[r] > 0
                        \/ state'[r] = "completed" /\ kindOf'[r] = "release"
      BY DEF AnswersOf
    <3>1. CASE call'[x] = call[x]
      <4>1. SaysDone(x, r)
        BY <3>1 DEF SaysDone
      <4> QED BY <4>1, <2>i, <1>2 DEF RequestInv, AnswersOf, SaidStays
    <3>2. CASE "done" \in {own, joined}
      BY <3>2, <1>2
    <3> QED BY <3>1, <3>2, <1>e, <2>i
  <2>4. CauseOf(r)'
    BY <1>2 DEF CauseOf, Pending
  <2> QED BY <2>1, <2>2, <2>3, <2>4 DEF RequestInv
<1> QED BY <1>1, <1>2, <1>e DEF IInv

LEMMA ReachesKeeps ==
    ASSUME IInv, NEW c \in Calls, Running(c), NEW r, r = call[c].req,
           NEW p \in Phases, Reaches(c, p),
           RowsTyped', excused \subseteq excused',
           \A q \in Requests \cap Vouched' : q # r => RowKept(q),
           r \in Vouched' => HandlerOf(c, r)' /\ RowOf(r)' /\ SaidStays(r)
    PROVE  IInv'
<1>t. CallsTyped /\ PromiseInv
  BY DEF IInv
<1>e. /\ CallsTyped' /\ PromiseInv' /\ inFlight' = inFlight
      /\ call'[c] = [phase |-> p, req |-> r, kind |-> call[c].kind]
      /\ \A x \in Calls \ {c} : call'[x] = call[x]
  BY <1>t, ReachesCalls DEF CallsTyped, Reaches
<1>v. Vouched' \subseteq Vouched /\ Vouched \subseteq Requests
  BY DEF Vouched
<1>p. call'[c].req = r /\ call'[c].phase # "answered"
  BY <1>e DEF Phases
<1>1. ASSUME NEW q \in Vouched', q # r PROVE RequestInv(q)'
  <2>1. Untouched(q)
    BY <1>1, <1>e, <1>p, <1>v DEF Untouched
  <2> QED BY <2>1, <1>v, UntouchedKeeps DEF IInv
<1>2. ASSUME r \in Vouched' PROVE RequestInv(r)'
  <2>i. RequestInv(r) /\ r \in Requests
    BY <1>2, <1>v DEF IInv
  <2>1. HandlersOf(r)'
    <3> SUFFICES ASSUME NEW x \in Calls, Running(x)', call'[x].req = r PROVE x = c
      BY <1>2 DEF HandlersOf
    <3> QED BY <1>e, <2>i, OneHandler DEF RequestInv, Running
  <2>3. AnswersOf(r)'
    <3> SUFFICES ASSUME NEW x \in Calls, SaysDone(x, r)'
                 PROVE  \/ applied'[r] > 0
                        \/ state'[r] = "completed" /\ kindOf'[r] = "release"
      BY DEF AnswersOf
    <3>1. SaysDone(x, r)
      BY <1>e, <1>p DEF SaysDone
    <3> QED BY <3>1, <2>i, <1>2 DEF RequestInv, AnswersOf, SaidStays
  <2>4. CauseOf(r)'
    BY <1>2, <1>e, <1>v, RunningIsActive DEF CauseOf, Active
  <2> QED BY <1>2, <2>1, <2>3, <2>4 DEF RequestInv
<1> QED BY <1>1, <1>2, <1>e DEF IInv

LEMMA LaunchKeeps ==
    ASSUME IInv, NEW c \in Calls, Free(c), NEW r \in Requests, NEW k \in Kinds,
           NEW p \in Phases, Launch(c, r, k, p),
           RowsTyped', excused \subseteq excused',
           \A q \in Requests \cap Vouched' : q # r => RowKept(q),
           r \in Vouched' => ~Active(r) /\ HandlerOf(c, r)' /\ RowOf(r)' /\ SaidStays(r)
    PROVE  IInv'
<1>t. CallsTyped /\ PromiseInv
  BY DEF IInv
<1>e. /\ CallsTyped' /\ PromiseInv'
      /\ call'[c] = [phase |-> p, req |-> r, kind |-> k]
      /\ inFlight'[r] = [leader |-> c, kind |-> k]
      /\ \A x \in Calls \ {c} : call'[x] = call[x]
      /\ \A q \in Requests \ {r} : inFlight'[q] = inFlight[q]
  BY <1>t, LaunchCalls DEF CallsTyped
<1>v. Vouched' \subseteq Vouched /\ Vouched \subseteq Requests
  BY DEF Vouched
<1>p. call'[c].req = r /\ call'[c].phase # "answered"
  BY <1>e DEF Phases
<1>1. ASSUME NEW q \in Vouched', q # r PROVE RequestInv(q)'
  <2>1. Untouched(q)
    BY <1>1, <1>e, <1>p, <1>v DEF Untouched
  <2> QED BY <2>1, <1>v, UntouchedKeeps DEF IInv
<1>2. ASSUME r \in Vouched' PROVE RequestInv(r)'
  <2>i. RequestInv(r) /\ r \in Vouched
    BY <1>2, <1>v DEF IInv
  <2>1. HandlersOf(r)'
    <3> SUFFICES ASSUME NEW x \in Calls, x # c, Running(x)', call'[x].req = r PROVE FALSE
      BY <1>2 DEF HandlersOf
    <3>1. Running(x) /\ call[x].req = r
      BY <1>e DEF Running
    <3> QED BY <3>1, <2>i, <1>2, RunningIsActive
  <2>3. AnswersOf(r)'
    <3> SUFFICES ASSUME NEW x \in Calls, SaysDone(x, r)'
                 PROVE  \/ applied'[r] > 0
                        \/ state'[r] = "completed" /\ kindOf'[r] = "release"
      BY DEF AnswersOf
    <3>1. SaysDone(x, r)
      BY <1>e, <1>p DEF SaysDone
    <3> QED BY <3>1, <2>i, <1>2 DEF RequestInv, AnswersOf, SaidStays
  <2>4. CauseOf(r)'
    BY <1>e, ReceiptConstants DEF CauseOf, Active
  <2> QED BY <1>2, <2>1, <2>3, <2>4 DEF RequestInv
<1> QED BY <1>1, <1>2, <1>e DEF IInv

LEMMA FreeCallKeeps ==
    ASSUME IInv, NEW c \in Calls, Free(c), NEW s \in CallState,
           s.phase \in {"answered", "joined"},
           s.phase = "joined" => Running(s.leader) /\ call[s.leader].req = s.req,
           s.phase = "answered" /\ s.answer = "done" => state[s.req] = "completed",
           call' = [call EXCEPT ![c] = s],
           UNCHANGED <<rowVars, inFlight, effectVars, history>>
    PROVE  IInv'
<1>t. CallsTyped /\ PromiseInv
  BY DEF IInv
<1>e. /\ CallsTyped' /\ PromiseInv'
      /\ call'[c] = s
      /\ \A x \in Calls \ {c} : call'[x] = call[x]
  BY <1>t, FreeCallChanges DEF CallsTyped
<1>u. UNCHANGED <<state, kindOf, inFlight, applied, overtaken, stranded, excused>>
  BY DEF rowVars, effectVars, history
<1>p. ~Running(c)'
  BY <1>e DEF Running, Phases
<1>1. ASSUME NEW r \in Vouched' PROVE RequestInv(r)'
  <2>i. RequestInv(r)
    BY <1>1, <1>u DEF IInv, Vouched
  <2>1. HandlersOf(r)'
    BY <2>i, <1>u, <1>e, <1>p DEF RequestInv, HandlersOf, HandlerOf, Running, Pending, InForce
  <2>2. RowOf(r)'
    BY <2>i, <1>u DEF RequestInv, RowOf, InForce
  <2>3. AnswersOf(r)'
    <3> SUFFICES ASSUME NEW x \in Calls, SaysDone(x, r)'
                 PROVE  \/ applied[r] > 0
                        \/ state[r] = "completed" /\ kindOf[r] = "release"
      BY <1>u DEF AnswersOf
    <3>1. CASE x = c
      BY <3>1, <1>e, <2>i DEF SaysDone, RequestInv, RowOf
    <3>2. CASE x # c
      BY <3>2, <1>e, <2>i DEF SaysDone, RequestInv, AnswersOf
    <3> QED BY <3>1, <3>2
  <2>4. CauseOf(r)'
    BY <2>i, <1>u DEF RequestInv, CauseOf, Active, Pending
  <2> QED BY <2>1, <2>2, <2>3, <2>4 DEF RequestInv
<1>2. RowsTyped'
  BY <1>u DEF IInv, RowsTyped, Pending, Kinds
<1> QED BY <1>1, <1>2, <1>e DEF IInv

-----------------------------------------------------------------------------
(***************************************************************************)
(* What the writes of the ledger and of the effects do.                    *)
(***************************************************************************)
LEMMA AddRowDoes ==
    ASSUME RowsTyped, NEW r \in Requests, NEW k \in Kinds, NEW s \in Pending,
           NEW e, NEW misused, AddRow(r, k, s, e, misused)
    PROVE  /\ state' \in [Requests -> Pending \cup {"none", "completed", "refused"}]
           /\ kindOf' \in [Requests -> Kinds \cup {"none"}]
           /\ state'[r] = s /\ kindOf'[r] = k
           /\ excused \subseteq excused' /\ misused \subseteq excused'
           /\ \A q \in Requests \ excused' : q # r =>
                 state'[q] = state[q] /\ kindOf'[q] = kindOf[q]
<1> DEFINE gone == {order[i] : i \in 1..Excess(e)}
<1>1. /\ state' = [x \in Requests |-> IF x = r THEN s
                                      ELSE IF x \in gone THEN "none" ELSE state[x]]
      /\ kindOf' = [x \in Requests |-> IF x = r THEN k
                                       ELSE IF x \in gone THEN "none" ELSE kindOf[x]]
      /\ excused' = excused \cup gone \cup misused
  BY DEF AddRow
<1> HIDE DEF gone
<1>2. /\ state \in [Requests -> Pending \cup {"none", "completed", "refused"}]
      /\ kindOf \in [Requests -> Kinds \cup {"none"}]
  BY DEF RowsTyped
<1>3. /\ state' \in [Requests -> Pending \cup {"none", "completed", "refused"}]
      /\ kindOf' \in [Requests -> Kinds \cup {"none"}]
  BY <1>1, <1>2
<1> QED BY <1>1, <1>3

LEMMA CompleteDoes ==
    ASSUME RowsTyped, NEW r \in Requests, NEW outcome, Complete(r, outcome)
    PROVE  /\ state' \in [Requests -> Pending \cup {"none", "completed", "refused"}]
           /\ kindOf' = kindOf
           /\ state'[r] = IF outcome = "done" THEN "completed" ELSE "refused"
           /\ \A q \in Requests \ {r} :
                 state'[q] = state[q] /\ (q \in stranded => q \in stranded')
BY DEF RowsTyped, Complete

LEMMA DiscardDoes ==
    ASSUME RowsTyped, NEW r \in Requests, Discard(r)
    PROVE  /\ state' \in [Requests -> Pending \cup {"none", "completed", "refused"}]
           /\ kindOf' \in [Requests -> Kinds \cup {"none"}]
           /\ IF state[r] \in Pending THEN state'[r] = "none" /\ kindOf'[r] = "none"
                                      ELSE state'[r] = state[r] /\ kindOf'[r] = kindOf[r]
           /\ \A q \in Requests \ {r} :
                 /\ state'[q] = state[q] /\ kindOf'[q] = kindOf[q]
                 /\ q \in stranded => q \in stranded'
<1>1. CASE r \in Discardable
  <2>1. state[r] \in Pending
    BY <1>1 DEF Discardable, Unresolved
  <2>2. /\ state' = [state EXCEPT ![r] = "none"] /\ kindOf' = [kindOf EXCEPT ![r] = "none"]
        /\ stranded' = stranded \ {r}
    BY <1>1 DEF Discard
  <2> QED BY <2>1, <2>2 DEF RowsTyped
<1>2. CASE r \notin Discardable
  <2>1. state[r] \notin Pending
    BY <1>2 DEF Discardable, Unresolved
  <2>2. state' = state /\ kindOf' = kindOf /\ stranded' = stranded
    BY <1>2 DEF Discard, rowVars
  <2> QED BY <2>1, <2>2 DEF RowsTyped
<1> QED BY <1>1, <1>2

LEMMA ApplyDoes ==
    ASSUME RowsTyped, NEW r \in Requests, Apply(r)
    PROVE  /\ applied' \in [Requests -> 0..2] /\ overtaken' = overtaken
           /\ applied'[r] > 0
           /\ InForce(r) = 0 => InForce(r)' \in {0, 1}
           /\ \A q \in Requests \ {r} : applied'[q] = applied[q] /\ InForce(q)' = InForce(q)
BY DEF RowsTyped, Apply, InForce

\* What the invariant says of the handler that takes a step.
LEMMA HandlerKnows ==
    ASSUME IInv, NEW c \in Calls, Running(c), NEW r, r = call[c].req
    PROVE  /\ r \in Requests
           /\ r \in Vouched => HandlerOf(c, r) /\ RowOf(r)
BY RunningCall DEF IInv, RequestInv, HandlersOf

-----------------------------------------------------------------------------
(***************************************************************************)
(* A call arrives.                                                         *)
(***************************************************************************)
LEMMA JoinKeeps ==
    ASSUME IInv, NEW c \in Calls, NEW r \in Requests, NEW k \in Kinds, Join(c, r, k)
    PROVE  IInv'
<1> DEFINE s == [phase |-> "joined", req |-> r, leader |-> inFlight[r].leader]
<1>1. Active(r) /\ Free(c) /\ call' = [call EXCEPT ![c] = s]
      /\ UNCHANGED <<rowVars, inFlight, effectVars, history>>
  BY DEF Join, Joins
<1>2. inFlight[r].leader \in Calls
  BY <1>1, PromiseType DEF IInv
<1>3. Running(inFlight[r].leader) /\ call[inFlight[r].leader].req = r
  BY <1>1 DEF IInv, PromiseInv
<1>4. s \in CallState
  BY <1>2, CallTypes
<1> QED BY <1>1, <1>3, <1>4, FreeCallKeeps

LEMMA SaysKeeps ==
    ASSUME IInv, NEW c \in Calls, NEW r \in Requests, NEW a \in Answers, Free(c), Says(c, r, a),
           a = "done" => state[r] = "completed"
    PROVE  IInv'
<1> DEFINE s == [phase |-> "answered", req |-> r, answer |-> a]
<1>1. s \in CallState
  BY CallTypes
<1>2. call' = [call EXCEPT ![c] = s] /\ UNCHANGED <<rowVars, inFlight, effectVars, history>>
  BY DEF Says
<1> QED BY <1>1, <1>2, FreeCallKeeps

LEMMA BeginKeeps ==
    ASSUME IInv, NEW c \in Calls, NEW r \in Requests, NEW k \in Kinds, Begin(c, r, k)
    PROVE  IInv'
<1>1. /\ Free(c) /\ state[r] = "none" /\ ~Joins(r, k) /\ ~Conflicts(r, k)
      /\ Launch(c, r, k, "running") /\ UNCHANGED <<applied, overtaken, stranded, crashes>>
  BY DEF Begin, effectVars
<1>2. "running" \in Phases /\ RowsTyped
  BY DEF Phases, IInv
<1>3. call'[c] = [phase |-> "running", req |-> r, kind |-> k]
      /\ inFlight'[r] = [leader |-> c, kind |-> k]
  BY <1>1, <1>2, LaunchCalls DEF IInv
<1>4. r \in Vouched => InForce(r) = 0
  BY <1>1, <1>2 DEF IInv, RequestInv, RowOf, RowsTyped, InForce
<1>5. CASE k = "start"
  <2>1. UNCHANGED <<state, kindOf, excused>>
    BY <1>5 DEF Begin, rowVars
  <2>2. ~Active(r)
    BY <1>1, <1>5 DEF Joins, Conflicts
  <2>3. RowsTyped'
    BY <1>1, <1>2, <2>1 DEF RowsTyped, Pending, Kinds
  <2>4. \A q \in Requests : RowKept(q)
    BY <1>1, <2>1 DEF RowKept, InForce
  <2>5. ASSUME r \in Vouched' PROVE HandlerOf(c, r)' /\ RowOf(r)' /\ SaidStays(r)
    <3>1. r \in Vouched
      BY <2>5, <2>1 DEF Vouched
    <3> QED BY <3>1, <1>1, <1>3, <1>4, <1>5, <2>1 DEF HandlerOf, RowOf, SaidStays, IInv, RequestInv, InForce
  <2> QED BY <1>1, <1>2, <2>1, <2>2, <2>3, <2>4, <2>5, LaunchKeeps
<1>6. CASE k # "start"
  <2>1. PICK e : AddRow(r, k, "pending", e, IF Active(r) THEN {r} ELSE {})
    BY <1>6 DEF Begin
  <2>2. "pending" \in Pending
    BY DEF Pending
  <2>3. /\ state' \in [Requests -> Pending \cup {"none", "completed", "refused"}]
        /\ kindOf' \in [Requests -> Kinds \cup {"none"}]
        /\ state'[r] = "pending" /\ kindOf'[r] = k
        /\ excused \subseteq excused' /\ (IF Active(r) THEN {r} ELSE {}) \subseteq excused'
        /\ \A q \in Requests \ excused' : q # r =>
              state'[q] = state[q] /\ kindOf'[q] = kindOf[q]
    BY <1>2, <2>1, <2>2, AddRowDoes
  <2>4. RowsTyped'
    BY <1>1, <1>2, <2>3 DEF RowsTyped, Pending, Kinds
  <2>5. \A q \in Requests \cap Vouched' : q # r => RowKept(q)
    BY <1>1, <2>3 DEF RowKept, Vouched, InForce
  <2>6. ASSUME r \in Vouched'
        PROVE  ~Active(r) /\ HandlerOf(c, r)' /\ RowOf(r)' /\ SaidStays(r)
    <3>1. r \in Vouched /\ ~Active(r)
      BY <2>6, <2>3 DEF Vouched
    <3>2. InForce(r)' = 0 /\ applied' = applied
      BY <3>1, <1>1, <1>4 DEF InForce
    <3>3. HandlerOf(c, r)'
      BY <3>2, <1>3, <1>6, <2>3 DEF HandlerOf
    <3>4. RowOf(r)'
      BY <3>2, <2>3 DEF RowOf
    <3> QED BY <3>1, <3>2, <3>3, <3>4, <1>1 DEF SaidStays
  <2> QED BY <1>1, <1>2, <2>3, <2>4, <2>5, <2>6, LaunchKeeps
<1> QED BY <1>5, <1>6

\* A call that runs the handler again, or only its observation.
LEMMA AgainKeeps ==
    ASSUME IInv, NEW c \in Calls, NEW r \in Requests, NEW k \in Kinds, NEW p \in Phases,
           Free(c), ~Active(r), Launch(c, r, k, p), kindOf[r] = k,
           \/ p = "running" /\ state[r] \in Pending /\ Resumable(r, k)
           \/ p = "observing" /\ state[r] = "completed" /\ k # "start",
           UNCHANGED <<rowVars, effectVars, history>>
    PROVE  IInv'
<1>1. UNCHANGED <<state, kindOf, applied, overtaken, stranded, excused>>
  BY DEF rowVars, effectVars, history
<1>2. call'[c] = [phase |-> p, req |-> r, kind |-> k] /\ inFlight'[r] = [leader |-> c, kind |-> k]
  BY LaunchCalls DEF IInv
<1>3. RowsTyped' /\ \A q \in Requests : RowKept(q)
  BY <1>1 DEF IInv, RowsTyped, Pending, Kinds, RowKept, InForce
<1>4. ASSUME r \in Vouched' PROVE HandlerOf(c, r)' /\ RowOf(r)' /\ SaidStays(r)
  <2>1. r \in Vouched /\ RowOf(r)
    BY <1>4, <1>1 DEF Vouched, IInv, RequestInv
  <2>2. HandlerOf(c, r)'
    BY <2>1, <1>1, <1>2 DEF HandlerOf, RowOf, Resumable, Pending, InForce
  <2>3. RowOf(r)'
    BY <2>1, <1>1 DEF RowOf, InForce
  <2> QED BY <2>2, <2>3, <1>1 DEF SaidStays
<1> QED BY <1>1, <1>3, <1>4, LaunchKeeps

LEMMA ArriveKeeps ==
    ASSUME IInv, NEW c \in Calls, Arrive(c)
    PROVE  IInv'
<1>a. PICK r \in Requests, k \in Kinds :
         \/ Join(c, r, k) \/ RefuseMismatch(c, r, k) \/ Begin(c, r, k) \/ LedgerFull(c, r, k)
         \/ Resume(c, r, k) \/ OutcomeUnknown(c, r, k)
         \/ Replay(c, r, k) \/ ObserveReplay(c, r, k)
  BY DEF Arrive
<1>w. /\ {"done", "refused", "unknown", "mismatch", "full"} \subseteq Answers
      /\ "running" \in Phases /\ "observing" \in Phases
  BY DEF Answers, Phases
<1>1. CASE Join(c, r, k)
  BY <1>1, JoinKeeps
<1>2. CASE RefuseMismatch(c, r, k)
  BY <1>2, <1>w, SaysKeeps DEF RefuseMismatch
<1>3. CASE Begin(c, r, k)
  BY <1>3, BeginKeeps
<1>4. CASE LedgerFull(c, r, k)
  BY <1>4, <1>w, SaysKeeps DEF LedgerFull
<1>5. CASE Resume(c, r, k)
  BY <1>5, <1>w, AgainKeeps DEF Resume
<1>6. CASE OutcomeUnknown(c, r, k)
  BY <1>6, <1>w, SaysKeeps DEF OutcomeUnknown
<1>7. CASE Replay(c, r, k)
  BY <1>7, <1>w, SaysKeeps DEF Replay
<1>8. CASE ObserveReplay(c, r, k)
  BY <1>8, <1>w, AgainKeeps DEF ObserveReplay
<1> QED BY <1>a, <1>1, <1>2, <1>3, <1>4, <1>5, <1>6, <1>7, <1>8

-----------------------------------------------------------------------------
(***************************************************************************)
(* The handler takes a step.                                               *)
(***************************************************************************)
LEMMA CommitKeeps ==
    ASSUME IInv, NEW c \in Calls, CommitSend(c) \/ CommitReport(c)
    PROVE  IInv'
<1>0. PICK r : r = call[c].req
  OBVIOUS
<1>1. /\ r = call[c].req /\ Running(c) /\ call[c].phase = "running" /\ call[c].kind \in {"send", "report"}
      /\ Apply(r) /\ Complete(r, "done") /\ Reaches(c, "committed")
      /\ UNCHANGED <<excused, crashes>>
  BY <1>0 DEF CommitSend, CommitReport, Runs, Running, Phases
<1>2. RowsTyped /\ r \in Requests /\ "committed" \in Phases
  BY <1>1, HandlerKnows DEF IInv, Phases
<1>3. /\ applied' \in [Requests -> 0..2] /\ overtaken' = overtaken
      /\ applied'[r] > 0 /\ (InForce(r) = 0 => InForce(r)' \in {0, 1})
      /\ \A q \in Requests \ {r} : applied'[q] = applied[q] /\ InForce(q)' = InForce(q)
  BY <1>1, <1>2, ApplyDoes
<1>4. /\ state' \in [Requests -> Pending \cup {"none", "completed", "refused"}]
      /\ kindOf' = kindOf /\ state'[r] = "completed"
      /\ \A q \in Requests \ {r} :
            state'[q] = state[q] /\ (q \in stranded => q \in stranded')
  BY <1>1, <1>2, CompleteDoes
<1>5. call'[c] = [phase |-> "committed", req |-> r, kind |-> call[c].kind] /\ inFlight' = inFlight
  BY <1>1, <1>2, ReachesCalls DEF IInv, Reaches
<1>6. RowsTyped' /\ \A q \in Requests \ {r} : RowKept(q)
  BY <1>2, <1>3, <1>4 DEF RowsTyped, RowKept, Pending, Kinds
<1>7. ASSUME r \in Vouched' PROVE HandlerOf(c, r)' /\ RowOf(r)' /\ SaidStays(r)
  <2>1. HandlerOf(c, r) /\ RowOf(r)
    BY <1>7, <1>1, HandlerKnows DEF Vouched
  <2>2. kindOf[r] = call[c].kind /\ InForce(r)' \in {0, 1}
    BY <2>1, <1>1, <1>3 DEF HandlerOf
  <2>3. HandlerOf(c, r)'
    BY <2>1, <2>2, <1>3, <1>4, <1>5 DEF HandlerOf, Pending
  <2>4. RowOf(r)'
    BY <2>2, <1>1, <1>3, <1>4 DEF RowOf
  <2> QED BY <2>3, <2>4, <1>3, <1>4 DEF SaidStays
<1> QED BY <1>1, <1>2, <1>6, <1>7, ReachesKeeps

LEMMA SendUnrecordedKeeps ==
    ASSUME IInv, NEW c \in Calls, SendUnrecorded(c)
    PROVE  IInv'
<1>0. PICK r : r = call[c].req
  OBVIOUS
<1>1. /\ r = call[c].req /\ Running(c) /\ call[c].phase = "running" /\ call[c].kind = "send" /\ ~Completable(c)
      /\ Apply(r) /\ Discard(r) /\ Ends(c, "failed", "failed")
      /\ UNCHANGED <<excused, crashes>>
  BY <1>0 DEF SendUnrecorded, Runs, Running, Phases
<1>2. RowsTyped /\ r \in Requests /\ "failed" \in Answers
  BY <1>1, HandlerKnows DEF IInv, Answers
<1>3. r \notin Vouched'
  BY <1>1, HandlerKnows DEF Vouched, HandlerOf, Completable, Taken
<1>4. RowsTyped' /\ \A q \in Requests \ {r} : RowKept(q)
  BY <1>1, <1>2, ApplyDoes, DiscardDoes DEF RowsTyped, RowKept, Pending, Kinds
<1> QED BY <1>1, <1>2, <1>3, <1>4, EndsKeeps

LEMMA AcceptStartKeeps ==
    ASSUME IInv, NEW c \in Calls, AcceptStart(c)
    PROVE  IInv'
<1>0. PICK r : r = call[c].req
  OBVIOUS
<1>1. /\ r = call[c].req /\ Running(c) /\ call[c].phase = "running" /\ call[c].kind = "start"
      /\ state[r] = "none" /\ Apply(r) /\ Reaches(c, "committed")
      /\ UNCHANGED <<stranded, crashes>>
  BY <1>0 DEF AcceptStart, Runs, Running, Phases
<1>2. /\ RowsTyped /\ r \in Requests /\ "committed" \in Phases
      /\ "accepted" \in Pending /\ "start" \in Kinds
  BY <1>1, HandlerKnows DEF IInv, Phases, Pending, Kinds
<1>3. PICK e : AddRow(r, "start", "accepted", e, {})
  BY <1>0 DEF AcceptStart
<1>4. /\ applied' \in [Requests -> 0..2] /\ overtaken' = overtaken
      /\ applied'[r] > 0 /\ (InForce(r) = 0 => InForce(r)' \in {0, 1})
      /\ \A q \in Requests \ {r} : applied'[q] = applied[q] /\ InForce(q)' = InForce(q)
  BY <1>1, <1>2, ApplyDoes
<1>5. /\ state' \in [Requests -> Pending \cup {"none", "completed", "refused"}]
      /\ kindOf' \in [Requests -> Kinds \cup {"none"}]
      /\ state'[r] = "accepted" /\ kindOf'[r] = "start"
      /\ excused \subseteq excused'
      /\ \A q \in Requests \ excused' : q # r =>
            state'[q] = state[q] /\ kindOf'[q] = kindOf[q]
  BY <1>2, <1>3, AddRowDoes
<1>6. call'[c] = [phase |-> "committed", req |-> r, kind |-> "start"] /\ inFlight' = inFlight
  BY <1>1, <1>2, ReachesCalls DEF IInv, Reaches
<1>7. RowsTyped' /\ \A q \in Requests \cap Vouched' : q # r => RowKept(q)
  BY <1>1, <1>2, <1>4, <1>5 DEF RowsTyped, RowKept, Pending, Kinds, Vouched
<1>8. ASSUME r \in Vouched' PROVE HandlerOf(c, r)' /\ RowOf(r)' /\ SaidStays(r)
  <2>1. HandlerOf(c, r) /\ RowOf(r)
    BY <1>8, <1>1, <1>5, HandlerKnows DEF Vouched
  <2>2. InForce(r)' \in {0, 1}
    BY <2>1, <1>1, <1>4 DEF HandlerOf
  <2>3. HandlerOf(c, r)'
    BY <2>1, <1>1, <1>4, <1>5, <1>6 DEF HandlerOf
  <2>4. RowOf(r)'
    BY <2>2, <1>4, <1>5 DEF RowOf
  <2> QED BY <2>3, <2>4, <1>1, <1>4 DEF SaidStays
<1> QED BY <1>1, <1>2, <1>5, <1>7, <1>8, ReachesKeeps

LEMMA StartAlreadyAcceptedKeeps ==
    ASSUME IInv, NEW c \in Calls, StartAlreadyAccepted(c)
    PROVE  IInv'
<1>0. PICK r : r = call[c].req
  OBVIOUS
<1>1. /\ r = call[c].req /\ Running(c) /\ call[c].phase = "running" /\ call[c].kind = "start" /\ Completable(c)
      /\ Ends(c, "unknown", "unknown")
      /\ UNCHANGED <<state, kindOf, applied, overtaken, stranded, excused>>
  BY <1>0 DEF StartAlreadyAccepted, Runs, Running, Phases, rowVars, effectVars, history
<1>2. RowsTyped /\ "unknown" \in Answers
  BY DEF IInv, Answers
<1>3. r \notin Vouched'
  BY <1>1, HandlerKnows DEF Vouched, HandlerOf, Completable
<1>4. RowsTyped' /\ \A q \in Requests \ {r} : RowKept(q)
  BY <1>1, <1>2 DEF RowsTyped, RowKept, Pending, Kinds, InForce
<1> QED BY <1>1, <1>2, <1>3, <1>4, EndsKeeps

LEMMA OvertakeStartKeeps ==
    ASSUME IInv, NEW c \in Calls, OvertakeStart(c)
    PROVE  IInv'
<1>0. PICK r : r = call[c].req
  OBVIOUS
<1>1. /\ r = call[c].req /\ Running(c) /\ call[c].phase = "committed"
      /\ overtaken' = overtaken \cup {r}
      /\ UNCHANGED <<state, kindOf, inFlight, call, applied, stranded, excused>>
  BY <1>0 DEF OvertakeStart, Runs, Running, Phases, rowVars, history
<1>2. RowsTyped /\ r \in Requests
  BY <1>1, HandlerKnows DEF IInv
<1>4. overtaken' \subseteq Requests /\ InForce(r)' = 0
      /\ \A q \in Requests \ {r} : InForce(q)' = InForce(q)
  BY <1>1, <1>2 DEF RowsTyped, InForce
<1>5. RowsTyped' /\ CallsTyped' /\ PromiseInv'
  <2>1. RowsTyped'
    BY <1>1, <1>2, <1>4 DEF RowsTyped, Pending, Kinds
  <2>2. CallsTyped'
    BY <1>1 DEF IInv, CallsTyped
  <2>3. PromiseInv'
    BY <1>1 DEF IInv, PromiseInv, Active, Running
  <2> QED BY <2>1, <2>2, <2>3
<1>6. ASSUME NEW q \in Vouched' PROVE RequestInv(q)'
  <2>i. RequestInv(q) /\ q \in Requests
    BY <1>6, <1>1 DEF IInv, Vouched
  <2>1. CASE q # r
    <3>1. Untouched(q)
      BY <2>1, <2>i, <1>1, <1>4 DEF Untouched, RowKept
    <3> QED BY <3>1, <2>i, UntouchedKeeps
  <2>2. CASE q = r
    <3>1. HandlersOf(q)'
      <4> SUFFICES ASSUME NEW x \in Calls, Running(x), call[x].req = q
                   PROVE  HandlerOf(x, q)'
        BY <1>1 DEF HandlersOf, Running
      <4>1. x = c
        BY <2>2, <2>i, <1>1, OneHandler DEF RequestInv
      <4>2. HandlerOf(c, q)
        BY <4>1, <2>i DEF RequestInv, HandlersOf
      <4> QED BY <2>2, <4>1, <4>2, <1>1, <1>4 DEF HandlerOf, Pending
    <3>2. RowOf(q)'
      BY <2>2, <2>i, <1>1, <1>4 DEF RequestInv, RowOf
    <3>3. AnswersOf(q)' /\ CauseOf(q)'
      BY <2>i, <1>1 DEF RequestInv, AnswersOf, CauseOf, SaysDone, Active, Pending
    <3> QED BY <3>1, <3>2, <3>3 DEF RequestInv
  <2> QED BY <2>1, <2>2
<1> QED BY <1>5, <1>6 DEF IInv

LEMMA QueueReportKeeps ==
    ASSUME IInv, NEW c \in Calls, QueueReport(c)
    PROVE  IInv'
<1>0. PICK r : r = call[c].req
  OBVIOUS
<1>1. /\ r = call[c].req /\ Running(c) /\ call[c].phase = "running" /\ call[c].kind = "relayed"
      /\ Apply(r) /\ Reaches(c, "written")
      /\ UNCHANGED <<state, kindOf, stranded, excused>>
  BY <1>0 DEF QueueReport, Runs, Running, Phases, rowVars, history
<1>2. RowsTyped /\ r \in Requests /\ "written" \in Phases
  BY <1>1, HandlerKnows DEF IInv, Phases
<1>3. /\ applied' \in [Requests -> 0..2] /\ overtaken' = overtaken
      /\ applied'[r] > 0 /\ (InForce(r) = 0 => InForce(r)' \in {0, 1})
      /\ \A q \in Requests \ {r} : applied'[q] = applied[q] /\ InForce(q)' = InForce(q)
  BY <1>1, <1>2, ApplyDoes
<1>4. call'[c] = [phase |-> "written", req |-> r, kind |-> "relayed"] /\ inFlight' = inFlight
  BY <1>1, <1>2, ReachesCalls DEF IInv, Reaches
<1>5. RowsTyped' /\ \A q \in Requests \ {r} : RowKept(q)
  BY <1>1, <1>2, <1>3 DEF RowsTyped, RowKept, Pending, Kinds
<1>6. ASSUME r \in Vouched' PROVE HandlerOf(c, r)' /\ RowOf(r)' /\ SaidStays(r)
  <2>1. HandlerOf(c, r) /\ RowOf(r)
    BY <1>6, <1>1, HandlerKnows DEF Vouched
  <2>2. InForce(r)' \in {0, 1} /\ kindOf[r] = "relayed" /\ state[r] # "none"
    BY <2>1, <1>1, <1>3 DEF HandlerOf
  <2>3. HandlerOf(c, r)'
    BY <2>1, <2>2, <1>1, <1>3, <1>4 DEF HandlerOf
  <2>4. RowOf(r)'
    BY <2>1, <2>2, <1>1, <1>3 DEF RowOf
  <2> QED BY <2>3, <2>4, <1>1, <1>3 DEF SaidStays
<1> QED BY <1>1, <1>2, <1>5, <1>6, ReachesKeeps

LEMMA MarkPromptKeeps ==
    ASSUME IInv, NEW c \in Calls, MarkPrompt(c)
    PROVE  IInv'
<1>0. PICK r : r = call[c].req
  OBVIOUS
<1>1. /\ r = call[c].req /\ Running(c) /\ call[c].phase = "running" /\ call[c].kind = "prompt"
      /\ Reaches(c, "possible")
      /\ UNCHANGED <<state, kindOf, applied, overtaken, stranded, excused>>
  BY <1>0 DEF MarkPrompt, Runs, Running, Phases, rowVars, effectVars, history
<1>2. RowsTyped /\ "possible" \in Phases
  BY DEF IInv, Phases
<1>3. call'[c] = [phase |-> "possible", req |-> r, kind |-> "prompt"] /\ inFlight' = inFlight
  BY <1>1, <1>2, ReachesCalls DEF IInv, Reaches
<1>4. RowsTyped' /\ \A q \in Requests : RowKept(q)
  BY <1>1, <1>2 DEF RowsTyped, RowKept, Pending, Kinds, InForce
<1>5. ASSUME r \in Vouched' PROVE HandlerOf(c, r)' /\ RowOf(r)' /\ SaidStays(r)
  <2>1. HandlerOf(c, r) /\ RowOf(r)
    BY <1>5, <1>1, HandlerKnows DEF Vouched
  <2> QED BY <2>1, <1>1, <1>3 DEF HandlerOf, RowOf, SaidStays, InForce
<1> QED BY <1>1, <1>2, <1>4, <1>5, ReachesKeeps

LEMMA WritePromptKeeps ==
    ASSUME IInv, NEW c \in Calls, WritePrompt(c)
    PROVE  IInv'
<1>0. PICK r : r = call[c].req
  OBVIOUS
<1>1. /\ r = call[c].req /\ Running(c) /\ call[c].phase = "possible" /\ call[c].kind = "prompt"
      /\ Apply(r) /\ Reaches(c, "written")
      /\ UNCHANGED <<state, kindOf, stranded, excused>>
  BY <1>0 DEF WritePrompt, Runs, Running, Phases, rowVars, history
<1>2. RowsTyped /\ r \in Requests /\ "written" \in Phases
  BY <1>1, HandlerKnows DEF IInv, Phases
<1>3. /\ applied' \in [Requests -> 0..2] /\ overtaken' = overtaken
      /\ applied'[r] > 0 /\ (InForce(r) = 0 => InForce(r)' \in {0, 1})
      /\ \A q \in Requests \ {r} : applied'[q] = applied[q] /\ InForce(q)' = InForce(q)
  BY <1>1, <1>2, ApplyDoes
<1>4. call'[c] = [phase |-> "written", req |-> r, kind |-> "prompt"] /\ inFlight' = inFlight
  BY <1>1, <1>2, ReachesCalls DEF IInv, Reaches
<1>5. RowsTyped' /\ \A q \in Requests \ {r} : RowKept(q)
  BY <1>1, <1>2, <1>3 DEF RowsTyped, RowKept, Pending, Kinds
<1>6. ASSUME r \in Vouched' PROVE HandlerOf(c, r)' /\ RowOf(r)' /\ SaidStays(r)
  <2>1. HandlerOf(c, r) /\ RowOf(r)
    BY <1>6, <1>1, HandlerKnows DEF Vouched
  <2>2. InForce(r)' \in {0, 1} /\ kindOf[r] = "prompt" /\ state[r] # "none"
    BY <2>1, <1>1, <1>3 DEF HandlerOf
  <2>3. HandlerOf(c, r)'
    BY <2>1, <2>2, <1>1, <1>3, <1>4 DEF HandlerOf
  <2>4. RowOf(r)'
    BY <2>1, <2>2, <1>1, <1>3 DEF RowOf
  <2> QED BY <2>3, <2>4, <1>1, <1>3 DEF SaidStays
<1> QED BY <1>1, <1>2, <1>5, <1>6, ReachesKeeps

LEMMA RecordPromptKeeps ==
    ASSUME IInv, NEW c \in Calls, RecordPrompt(c)
    PROVE  IInv'
<1>0. PICK r : r = call[c].req
  OBVIOUS
<1>1. /\ r = call[c].req /\ Running(c) /\ call[c].phase = "written" /\ call[c].kind = "prompt"
      /\ Complete(r, "done") /\ Reaches(c, "committed")
      /\ UNCHANGED <<applied, overtaken, excused>>
  BY <1>0 DEF RecordPrompt, Runs, Running, Phases, effectVars
<1>2. RowsTyped /\ r \in Requests /\ "committed" \in Phases
  BY <1>1, HandlerKnows DEF IInv, Phases
<1>3. /\ state' \in [Requests -> Pending \cup {"none", "completed", "refused"}]
      /\ kindOf' = kindOf /\ state'[r] = "completed"
      /\ \A q \in Requests \ {r} :
            state'[q] = state[q] /\ (q \in stranded => q \in stranded')
  BY <1>1, <1>2, CompleteDoes
<1>4. call'[c] = [phase |-> "committed", req |-> r, kind |-> "prompt"] /\ inFlight' = inFlight
  BY <1>1, <1>2, ReachesCalls DEF IInv, Reaches
<1>5. RowsTyped' /\ \A q \in Requests \ {r} : RowKept(q)
  BY <1>1, <1>2, <1>3 DEF RowsTyped, RowKept, Pending, Kinds, InForce
<1>6. ASSUME r \in Vouched' PROVE HandlerOf(c, r)' /\ RowOf(r)' /\ SaidStays(r)
  <2>1. HandlerOf(c, r) /\ RowOf(r)
    BY <1>6, <1>1, HandlerKnows DEF Vouched
  <2>2. HandlerOf(c, r)'
    BY <2>1, <1>1, <1>3, <1>4 DEF HandlerOf, Pending
  <2>3. RowOf(r)'
    BY <2>1, <1>1, <1>3 DEF RowOf, HandlerOf, InForce
  <2> QED BY <2>2, <2>3, <1>1, <1>3 DEF SaidStays
<1> QED BY <1>1, <1>2, <1>5, <1>6, ReachesKeeps

LEMMA ReleaseKeeps ==
    ASSUME IInv, NEW c \in Calls, Release(c)
    PROVE  IInv'
<1>0. PICK r : r = call[c].req
  OBVIOUS
<1>1. /\ r = call[c].req /\ Running(c) /\ call[c].phase = "running" /\ call[c].kind = "release"
      /\ Reaches(c, "committed")
      /\ UNCHANGED <<state, kindOf, applied, overtaken, stranded, excused>>
  BY <1>0 DEF Release, Runs, Running, Phases, rowVars, effectVars, history
<1>2. RowsTyped /\ "committed" \in Phases
  BY DEF IInv, Phases
<1>3. call'[c] = [phase |-> "committed", req |-> r, kind |-> "release"] /\ inFlight' = inFlight
  BY <1>1, <1>2, ReachesCalls DEF IInv, Reaches
<1>4. RowsTyped' /\ \A q \in Requests : RowKept(q)
  BY <1>1, <1>2 DEF RowsTyped, RowKept, Pending, Kinds, InForce
<1>5. ASSUME r \in Vouched' PROVE HandlerOf(c, r)' /\ RowOf(r)' /\ SaidStays(r)
  <2>1. HandlerOf(c, r) /\ RowOf(r)
    BY <1>5, <1>1, HandlerKnows DEF Vouched
  <2> QED BY <2>1, <1>1, <1>3 DEF HandlerOf, RowOf, SaidStays, InForce
<1> QED BY <1>1, <1>2, <1>4, <1>5, ReachesKeeps

LEMMA ReturnKeeps ==
    ASSUME IInv, NEW c \in Calls, NEW outcome \in {"done", "refused"}, Return(c, outcome)
    PROVE  IInv'
<1>0. PICK r : r = call[c].req
  OBVIOUS
<1>1. /\ r = call[c].req /\ Running(c)
      /\ \/ outcome = "done" /\ call[c].phase \in {"written", "committed"}
         \/ outcome = "refused" /\ call[c].kind = "prompt" /\ call[c].phase \in {"running", "possible"}
      /\ UNCHANGED <<applied, overtaken, excused>>
  BY <1>0 DEF Return, Runs, Running, Phases, effectVars
<1>2. RowsTyped /\ r \in Requests /\ {"done", "refused", "failed"} \subseteq Answers
  BY <1>1, HandlerKnows DEF IInv, Answers
<1>3. ASSUME r \in Vouched' PROVE Completable(c) /\ HandlerOf(c, r) /\ RowOf(r)
  <2>1. HandlerOf(c, r) /\ RowOf(r)
    BY <1>3, <1>1, HandlerKnows DEF Vouched
  <2> QED BY <2>1, <1>1 DEF HandlerOf, Completable, Taken
<1>4. CASE Completable(c)
  <2>1. Complete(r, outcome) /\ Ends(c, outcome, outcome)
    BY <1>0, <1>4 DEF Return
  <2>2. /\ state' \in [Requests -> Pending \cup {"none", "completed", "refused"}]
        /\ kindOf' = kindOf
        /\ state'[r] = IF outcome = "done" THEN "completed" ELSE "refused"
        /\ \A q \in Requests \ {r} :
              state'[q] = state[q] /\ (q \in stranded => q \in stranded')
    BY <1>2, <2>1, CompleteDoes
  <2>3. RowsTyped' /\ \A q \in Requests \ {r} : RowKept(q)
    BY <1>1, <1>2, <2>2 DEF RowsTyped, RowKept, Pending, Kinds, InForce
  <2>4. state'[r] \notin Pending
    BY <2>2 DEF Pending
  <2>5. ASSUME r \in Vouched'
        PROVE  /\ RowOf(r)' /\ SaidStays(r)
               /\ outcome = "done" =>
                     \/ applied'[r] > 0
                     \/ state'[r] = "completed" /\ kindOf'[r] = "release"
    <3>1. HandlerOf(c, r) /\ RowOf(r)
      BY <2>5, <1>3
    <3>2. kindOf[r] = call[c].kind /\ state[r] # "none"
      BY <3>1, <1>1 DEF HandlerOf
    <3>3. outcome = "done" => applied[r] > 0 \/ kindOf[r] = "release"
      BY <3>1, <3>2, <1>1 DEF HandlerOf
    <3>4. RowOf(r)'
      BY <3>1, <3>2, <3>3, <1>1, <2>2 DEF RowOf, InForce
    <3>5. outcome = "refused" => kindOf[r] = "prompt"
      BY <3>2, <1>1
    <3> QED BY <3>3, <3>4, <3>5, <1>1, <2>2 DEF SaidStays
  <2> QED BY <1>1, <1>2, <2>1, <2>3, <2>4, <2>5, EndsKeeps
<1>5. CASE ~Completable(c)
  <2>1. Discard(r) /\ Ends(c, "failed", outcome)
    BY <1>0, <1>5 DEF Return
  <2>2. r \notin Vouched'
    BY <1>3, <1>5
  <2>3. RowsTyped' /\ \A q \in Requests \ {r} : RowKept(q)
    BY <1>1, <1>2, <2>1, DiscardDoes DEF RowsTyped, RowKept, Pending, Kinds, InForce
  <2> QED BY <1>1, <1>2, <2>1, <2>2, <2>3, EndsKeeps
<1> QED BY <1>4, <1>5

LEMMA ThrowKeeps ==
    ASSUME IInv, NEW c \in Calls, Throw(c)
    PROVE  IInv'
<1>0. PICK r : r = call[c].req
  OBVIOUS
<1>1. /\ r = call[c].req /\ MayThrow(c)
      /\ \E said \in {"failed", "unknown"} : Ends(c, said, said)
      /\ UNCHANGED <<applied, overtaken, excused>>
  BY <1>0 DEF Throw, effectVars
<1>r. Running(c)
  BY <1>1 DEF MayThrow, Runs, Running, Phases
<1>2. RowsTyped /\ r \in Requests /\ {"failed", "unknown"} \subseteq Answers
  BY <1>1, <1>r, HandlerKnows DEF IInv, Answers
<1>s. PICK said \in {"failed", "unknown"} : Ends(c, said, said)
  BY <1>1
<1>3. ASSUME r \in Vouched' PROVE HandlerOf(c, r) /\ RowOf(r)
  BY <1>3, <1>1, <1>r, HandlerKnows DEF Vouched
<1>4. CASE EffectPossible(c) \/ VerdictNotSeen(c)
  <2>1. /\ UNCHANGED <<state, kindOf>>
        /\ stranded' = IF state[r] \in Pending THEN stranded \cup {r} ELSE stranded
    BY <1>0, <1>4 DEF Throw, rowVars
  <2>2. RowsTyped' /\ \A q \in Requests \ {r} : RowKept(q)
    BY <1>1, <1>2, <2>1 DEF RowsTyped, RowKept, Pending, Kinds, InForce
  <2>3. ASSUME r \in Vouched' PROVE RowOf(r)' /\ SaidStays(r)
    BY <2>3, <1>3, <1>1, <2>1 DEF RowOf, SaidStays, InForce
  <2>4. state'[r] \in Pending => r \in stranded'
    BY <2>1 DEF Pending
  <2> QED BY <1>1, <1>r, <1>s, <1>2, <2>2, <2>3, <2>4, EndsKeeps
<1>5. CASE ~(EffectPossible(c) \/ VerdictNotSeen(c))
  <2>1. Discard(r)
    BY <1>0, <1>5 DEF Throw
  <2>2. /\ state' \in [Requests -> Pending \cup {"none", "completed", "refused"}]
        /\ kindOf' \in [Requests -> Kinds \cup {"none"}]
        /\ IF state[r] \in Pending THEN state'[r] = "none" /\ kindOf'[r] = "none"
                                   ELSE state'[r] = state[r] /\ kindOf'[r] = kindOf[r]
        /\ \A q \in Requests \ {r} :
              /\ state'[q] = state[q] /\ kindOf'[q] = kindOf[q]
              /\ q \in stranded => q \in stranded'
    BY <1>2, <2>1, DiscardDoes
  <2>3. RowsTyped' /\ \A q \in Requests \ {r} : RowKept(q)
    BY <1>1, <1>2, <2>2 DEF RowsTyped, RowKept, Pending, Kinds, InForce
  <2>4. state'[r] \notin Pending
    BY <2>2 DEF Pending
  <2>5. ASSUME r \in Vouched' PROVE RowOf(r)' /\ SaidStays(r)
    <3>1. HandlerOf(c, r) /\ RowOf(r)
      BY <2>5, <1>3
    <3>2. InForce(r) \in 0..2
      BY <1>2 DEF RowsTyped, InForce
    <3>3. state[r] \in Pending => InForce(r) = 0
      <4>1. CASE call[c].phase \in {"running", "possible"}
        BY <4>1, <3>1 DEF HandlerOf
      <4>2. CASE call[c].phase = "written"
        BY <4>2, <3>1, <1>5 DEF HandlerOf, EffectPossible, VerdictNotSeen, Runs
      <4>3. CASE call[c].phase = "committed" /\ call[c].kind \in {"send", "report"}
        BY <4>3, <3>1 DEF HandlerOf
      <4>4. CASE call[c].phase = "committed" /\ call[c].kind = "release"
        BY <4>4, <3>1 DEF HandlerOf, RowOf
      <4>5. CASE call[c].phase = "committed" /\ call[c].kind = "start" /\ r \in overtaken
        BY <4>5 DEF InForce
      <4> QED BY <4>1, <4>2, <4>3, <4>4, <4>5, <1>1 DEF MayThrow, Runs
    <3>4. RowOf(r)'
      BY <3>1, <3>2, <3>3, <1>1, <2>2 DEF RowOf, InForce
    <3>5. SaidStays(r)
      BY <1>1, <2>2 DEF SaidStays, Pending
    <3> QED BY <3>4, <3>5
  <2> QED BY <1>1, <1>r, <1>s, <1>2, <2>3, <2>4, <2>5, EndsKeeps
<1> QED BY <1>4, <1>5

LEMMA ObservedKeeps ==
    ASSUME IInv, NEW c \in Calls, Observed(c) \/ ObservationFails(c)
    PROVE  IInv'
<1>0. PICK r : r = call[c].req
  OBVIOUS
<1>1. /\ r = call[c].req /\ Running(c) /\ call[c].phase = "observing"
      /\ \E joined \in {"done", "failed"} : Ends(c, "done", joined)
      /\ UNCHANGED <<applied, overtaken, excused>>
  BY <1>0 DEF Observed, ObservationFails, Running, Phases, effectVars, history
<1>2. RowsTyped /\ r \in Requests /\ {"done", "failed"} \subseteq Answers
  BY <1>1, HandlerKnows DEF IInv, Answers
<1>3. \/ Complete(r, "done")
      \/ UNCHANGED <<state, kindOf, stranded>>
  BY <1>0 DEF Observed, ObservationFails, rowVars, history
<1>4. /\ state' \in [Requests -> Pending \cup {"none", "completed", "refused"}]
      /\ kindOf' = kindOf /\ state'[r] \in {state[r], "completed"}
      /\ \A q \in Requests \ {r} :
            state'[q] = state[q] /\ (q \in stranded => q \in stranded')
  <2>1. CASE Complete(r, "done")
    BY <2>1, <1>2, CompleteDoes
  <2>2. CASE UNCHANGED <<state, kindOf, stranded>>
    BY <2>2, <1>2 DEF RowsTyped
  <2> QED BY <2>1, <2>2, <1>3
<1>5. RowsTyped' /\ \A q \in Requests \ {r} : RowKept(q)
  BY <1>1, <1>2, <1>4 DEF RowsTyped, RowKept, Pending, Kinds, InForce
<1>6. ASSUME r \in Vouched'
      PROVE  /\ RowOf(r)' /\ SaidStays(r) /\ state'[r] \notin Pending
             /\ \/ applied'[r] > 0
                \/ state'[r] = "completed" /\ kindOf'[r] = "release"
  <2>1. HandlerOf(c, r) /\ RowOf(r)
    BY <1>6, <1>1, HandlerKnows DEF Vouched
  <2>2. state[r] = "completed" /\ state'[r] = "completed"
    BY <2>1, <1>1, <1>4 DEF HandlerOf
  <2> QED BY <2>1, <2>2, <1>1, <1>4 DEF RowOf, SaidStays, Pending, InForce
<1>7. PICK joined \in {"done", "failed"} : Ends(c, "done", joined)
  BY <1>1
<1> QED BY <1>1, <1>2, <1>5, <1>6, <1>7, EndsKeeps
-----------------------------------------------------------------------------
(***************************************************************************)
(* The runtime dies: nobody runs, and every open row is stranded.          *)
(***************************************************************************)
LEMMA DiesKeeps ==
    ASSUME IInv, call' = [c \in Calls |-> Idle], inFlight' = [r \in Requests |-> NoCall],
           RowsTyped', excused' = excused,
           \A r \in Vouched : RowOf(r)' /\ (state'[r] \in Pending => r \in stranded')
    PROVE  IInv'
<1>1. CallsTyped'
  BY DEF CallsTyped, CallState
<1>2. \A c \in Calls : call'[c].phase = "idle"
  BY DEF Idle
<1>3. PromiseInv'
  BY <1>2 DEF PromiseInv, Active
<1>4. ASSUME NEW r \in Vouched' PROVE RequestInv(r)'
  <2>1. HandlersOf(r)' /\ AnswersOf(r)'
    BY <1>2 DEF HandlersOf, AnswersOf, SaysDone, Running, Phases
  <2> QED BY <2>1, <1>4 DEF RequestInv, CauseOf, Pending, Vouched
<1> QED BY <1>1, <1>3, <1>4 DEF IInv

LEMMA CrashKeeps == ASSUME IInv, Crash PROVE IInv'
<1>1. /\ call' = [c \in Calls |-> Idle] /\ inFlight' = [r \in Requests |-> NoCall]
      /\ UNCHANGED <<state, kindOf, applied, overtaken, excused>> /\ stranded' = Unresolved
  BY DEF Crash, Dies, rowVars, effectVars
<1>2. RowsTyped'
  BY <1>1 DEF IInv, RowsTyped, Pending, Kinds
<1>3. \A r \in Vouched : RowOf(r)' /\ (state'[r] \in Pending => r \in stranded')
  BY <1>1 DEF IInv, RequestInv, RowOf, Vouched, Unresolved, Pending, InForce
<1> QED BY <1>1, <1>2, <1>3, DiesKeeps

LEMMA CrashAfterInsertKeeps ==
    ASSUME IInv, NEW c \in Calls, CrashAfterInsert(c)
    PROVE  IInv'
<1>0. PICK r : r = call[c].req
  OBVIOUS
<1>1. /\ r = call[c].req /\ Running(c) /\ call[c].phase = "running" /\ call[c].kind = "send"
      /\ Apply(r) /\ UNCHANGED <<state, kindOf, excused>> /\ stranded' = Unresolved
      /\ call' = [x \in Calls |-> Idle] /\ inFlight' = [x \in Requests |-> NoCall]
  BY <1>0 DEF CrashAfterInsert, Dies, Runs, Running, Phases, rowVars
<1>2. RowsTyped /\ r \in Requests
  BY <1>1, HandlerKnows DEF IInv
<1>3. /\ applied' \in [Requests -> 0..2] /\ overtaken' = overtaken
      /\ applied'[r] > 0 /\ (InForce(r) = 0 => InForce(r)' \in {0, 1})
      /\ \A q \in Requests \ {r} : applied'[q] = applied[q] /\ InForce(q)' = InForce(q)
  BY <1>1, <1>2, ApplyDoes
<1>4. RowsTyped'
  BY <1>1, <1>2, <1>3 DEF RowsTyped, Pending, Kinds
<1>5. ASSUME NEW q \in Vouched PROVE RowOf(q)' /\ (state'[q] \in Pending => q \in stranded')
  <2>1. state'[q] \in Pending => q \in stranded'
    BY <1>1 DEF Unresolved, Vouched, Pending
  <2>2. RowOf(q) /\ q \in Requests
    BY DEF IInv, RequestInv, Vouched
  <2>3. CASE q # r
    BY <2>1, <2>2, <2>3, <1>1, <1>3 DEF RowOf
  <2>4. CASE q = r
    <3>1. HandlerOf(c, r)
      BY <2>4, <1>1, HandlerKnows
    <3>2. state[r] # "none" /\ kindOf[r] = "send" /\ InForce(r)' \in {0, 1}
      BY <3>1, <1>1, <1>3 DEF HandlerOf
    <3>3. RowOf(q)'
      BY <3>2, <2>2, <2>4, <1>1, <1>3 DEF RowOf
    <3> QED BY <3>3, <2>1
  <2> QED BY <2>3, <2>4
<1> QED BY <1>1, <1>4, <1>5, DiesKeeps

LEMMA CrashAfterCheckpointKeeps ==
    ASSUME IInv, NEW c \in Calls, CrashAfterCheckpoint(c)
    PROVE  IInv'
<1>0. PICK r : r = call[c].req
  OBVIOUS
<1>1. /\ r = call[c].req /\ Running(c) /\ call[c].phase = "running" /\ call[c].kind = "report"
      /\ state[r] \in Pending /\ state' = [state EXCEPT ![r] = "effect_free"]
      /\ UNCHANGED <<kindOf, applied, overtaken, excused>> /\ stranded' = Unresolved
      /\ call' = [x \in Calls |-> Idle] /\ inFlight' = [x \in Requests |-> NoCall]
  BY <1>0 DEF CrashAfterCheckpoint, Dies, Runs, Running, Phases, effectVars
<1>2. RowsTyped /\ r \in Requests
  BY <1>1, HandlerKnows DEF IInv
<1>3. state \in [Requests -> Pending \cup {"none", "completed", "refused"}]
  BY <1>2 DEF RowsTyped
<1>4. /\ state' \in [Requests -> Pending \cup {"none", "completed", "refused"}]
      /\ state'[r] = "effect_free"
      /\ \A q \in Requests \ {r} : state'[q] = state[q]
  BY <1>1, <1>2, <1>3 DEF Pending
<1>5. RowsTyped'
  BY <1>1, <1>2, <1>4 DEF RowsTyped, Pending, Kinds
<1>6. ASSUME NEW q \in Vouched PROVE RowOf(q)' /\ (state'[q] \in Pending => q \in stranded')
  <2>1. RowOf(q) /\ q \in Requests
    BY DEF IInv, RequestInv, Vouched
  <2>2. CASE q # r
    BY <2>1, <2>2, <1>1, <1>4 DEF RowOf, Unresolved, Pending, InForce
  <2>3. CASE q = r
    <3>1. HandlerOf(c, r)
      BY <2>3, <1>1, HandlerKnows
    <3>2. kindOf[r] = "report" /\ InForce(r) = 0
      BY <3>1, <1>1 DEF HandlerOf
    <3>3. RowOf(q)'
      BY <3>2, <2>1, <2>3, <1>1, <1>4 DEF RowOf, InForce
    <3> QED BY <3>3, <2>3, <1>1, <1>2 DEF Unresolved
  <2> QED BY <2>2, <2>3
<1> QED BY <1>1, <1>5, <1>6, DiesKeeps
-----------------------------------------------------------------------------
(***************************************************************************)
(* The theorems.                                                           *)
(***************************************************************************)
LEMMA InitIInv == Init => IInv
<1> SUFFICES ASSUME Init PROVE IInv
  OBVIOUS
<1>1. RowsTyped /\ CallsTyped
  BY DEF Init, RowsTyped, CallsTyped, CallState
<1>2. \A c \in Calls : call[c].phase = "idle"
  BY DEF Init, Idle
<1>3. PromiseInv
  BY <1>2 DEF Init, PromiseInv, Active
<1>4. \A r \in Vouched : RequestInv(r)
  BY <1>2 DEF Init, RequestInv, HandlersOf, RowOf, AnswersOf, CauseOf, SaysDone, Running,
              Phases, Pending, Vouched, InForce
<1> QED BY <1>1, <1>3, <1>4 DEF IInv

LEMMA NextIInv == IInv /\ [Next]_vars => IInv'
<1> SUFFICES ASSUME IInv, [Next]_vars PROVE IInv'
  OBVIOUS
<1>1. ASSUME NEW c \in Calls, Handle(c) PROVE IInv'
  BY <1>1, CommitKeeps, SendUnrecordedKeeps, AcceptStartKeeps, StartAlreadyAcceptedKeeps,
     MarkPromptKeeps, WritePromptKeeps, RecordPromptKeeps, ReleaseKeeps, ReturnKeeps,
     QueueReportKeeps, ThrowKeeps, ObservedKeeps DEF Handle
<1>2. CASE UNCHANGED vars
  <2>1. UNCHANGED <<state, kindOf, inFlight, call, applied, overtaken, stranded, excused>>
    BY <1>2 DEF vars, rowVars, effectVars, history
  <2>2. RowsTyped' /\ CallsTyped' /\ PromiseInv'
    BY <2>1 DEF IInv, RowsTyped, CallsTyped, PromiseInv, Active, Running, Pending, Kinds
  <2>3. ASSUME NEW r \in Vouched' PROVE RequestInv(r)'
    BY <2>1, <2>3, UntouchedKeeps DEF IInv, Untouched, RowKept, Vouched, InForce
  <2> QED BY <2>2, <2>3 DEF IInv
<1> QED BY <1>1, <1>2, ArriveKeeps, OvertakeStartKeeps, CrashKeeps, CrashAfterInsertKeeps,
           CrashAfterCheckpointKeeps DEF Next

LEMMA AlwaysIInv == Spec => []IInv
BY InitIInv, NextIInv, PTL DEF Spec

\* However calls, errors and restarts interleave, a request has its effect at most
\* once, unless the dispatch of its start was moved on by others meanwhile.
THEOREM NeverTwoEffects == Spec => []OneEffect
<1>1. IInv => OneEffect
  BY DEF IInv, RequestInv, RowOf, InForce, OneEffect
<1> QED BY <1>1, AlwaysIInv, PTL

\* No crash and no error path loses the row of an effect, a late verdict and a
\* doubtful prompt included; a start may lose it once its dispatch was moved on.
THEOREM EffectAlwaysOnRecord == Spec => []EffectIsOnRecord
<1>1. IInv => EffectIsOnRecord
  BY DEF IInv, RequestInv, RowOf, InForce, EffectIsOnRecord
<1> QED BY <1>1, AlwaysIInv, PTL

\* The row a report resumes from was never settled.
THEOREM CheckpointAlwaysMeansNoEffect == Spec => []CheckpointMeansNoEffect
<1>1. IInv => CheckpointMeansNoEffect
  BY DEF IInv, RequestInv, RowOf, InForce, CheckpointMeansNoEffect
<1> QED BY <1>1, AlwaysIInv, PTL

\* A pending row without a handler comes from a crash, from a prompt's doubt or
\* from a report whose verdict was not seen.
THEOREM PendingAlwaysHasCause == Spec => []PendingHasCause
<1>1. IInv => PendingHasCause
  BY DEF IInv, RequestInv, CauseOf, PendingHasCause
<1> QED BY <1>1, AlwaysIInv, PTL

\* The promise a duplicate joins is that of the only handler of its request.
THEOREM NeverTwoHandlers == Spec => []OneHandlerPerRequest
<1>1. IInv => OneHandlerPerRequest
  BY OneHandler DEF IInv, RequestInv, OneHandlerPerRequest
<1> QED BY <1>1, AlwaysIInv, PTL

\* Nobody is told that a request is done whose effect never happened.
THEOREM DoneAlwaysMeansApplied == Spec => []DoneMeansApplied
<1>1. IInv => DoneMeansApplied
  <2> SUFFICES ASSUME IInv, NEW c \in Calls, call[c].phase = "answered",
                      call[c].answer = "done", call[c].req \in Vouched
               PROVE  applied[call[c].req] > 0 \/ kindOf[call[c].req] = "release"
    BY DEF DoneMeansApplied
  <2>1. SaysDone(c, call[c].req)
    BY DEF SaysDone
  <2> QED BY <2>1 DEF IInv, RequestInv, AnswersOf
<1> QED BY <1>1, AlwaysIInv, PTL

-----------------------------------------------------------------------------
(***************************************************************************)
(* The order of the completed rows.                                        *)
(***************************************************************************)
Distinct(s) == \A i, j \in 1..Len(s) : s[i] = s[j] => i = j

\* Only settled rows have a place in the order, and each has one: so making
\* room never reaches a row whose outcome is open.
OrderInv ==
    /\ order \in Seq(Requests) /\ Distinct(order)
    /\ \A i \in 1..Len(order) : state[order[i]] \in {"completed", "refused"}

HistoryTyped ==
    stranded \subseteq Requests /\ excused \subseteq Requests /\ crashes \in 0..MaxCrashes

\* Without(r) keeps the places of the others.
LEMMA WithoutDoes ==
    ASSUME order \in Seq(Requests), Distinct(order), NEW r
    PROVE  /\ Without(r) \in Seq(Requests) /\ Distinct(Without(r))
           /\ \A i \in 1..Len(Without(r)) :
                 Without(r)[i] # r /\ \E j \in 1..Len(order) : Without(r)[i] = order[j]
<1>d. DOMAIN order = 1..Len(order) /\ Len(order) \in Nat
      /\ \A i \in 1..Len(order) : order[i] \in Requests
  OBVIOUS
<1>1. CASE ~\E i \in DOMAIN order : order[i] = r
  <2>1. Without(r) = order
    BY <1>1 DEF Without
  <2> QED BY <2>1, <1>1, <1>d
<1>2. CASE \E i \in DOMAIN order : order[i] = r
  <2> DEFINE at == CHOOSE i \in DOMAIN order : order[i] = r
             before == SubSeq(order, 1, at - 1)
             after == SubSeq(order, at + 1, Len(order))
  <2>1. at \in 1..Len(order) /\ order[at] = r
    BY <1>2, <1>d
  <2>2. Without(r) = before \o after
    BY <1>2 DEF Without
  <2> HIDE DEF at
  <2>3. /\ before \in Seq(Requests) /\ Len(before) = at - 1
        /\ \A i \in 1..(at - 1) : before[i] = order[i]
    <3>1. 1 \in Int /\ at - 1 \in Int /\ \A i \in 1..(at - 1) : order[i] \in Requests
      BY <2>1, <1>d
    <3>2. /\ before \in Seq(Requests) /\ Len(before) = IF 1 <= at - 1 THEN (at - 1) - 1 + 1 ELSE 0
          /\ \A i \in 1..((at - 1) - 1 + 1) : before[i] = order[1 + i - 1]
      BY <3>1, SubSeqProperties
    <3> HIDE DEF before
    <3> QED BY <3>2, <2>1
  <2>4. /\ after \in Seq(Requests) /\ Len(after) = Len(order) - at
        /\ \A i \in 1..(Len(order) - at) : after[i] = order[at + i]
    <3>1. at + 1 \in Int /\ Len(order) \in Int /\ \A i \in (at + 1)..Len(order) : order[i] \in Requests
      BY <2>1, <1>d
    <3>2. /\ after \in Seq(Requests)
          /\ Len(after) = IF at + 1 <= Len(order) THEN Len(order) - (at + 1) + 1 ELSE 0
          /\ \A i \in 1..(Len(order) - (at + 1) + 1) : after[i] = order[at + 1 + i - 1]
      BY <3>1, SubSeqProperties
    <3>3. at \in Int /\ Len(order) \in Int /\ at <= Len(order)
      BY <2>1, <1>d
    <3> HIDE DEF after
    <3>4. Len(after) = Len(order) - at
      BY <3>2, <3>3
    <3>5. \A i \in 1..(Len(order) - at) : after[i] = order[at + i]
      <4> SUFFICES ASSUME NEW i \in 1..(Len(order) - at) PROVE after[i] = order[at + i]
        OBVIOUS
      <4>1. i \in 1..(Len(order) - (at + 1) + 1) /\ at + 1 + i - 1 = at + i
        BY <3>3
      <4> QED BY <4>1, <3>2
    <3> QED BY <3>2, <3>4, <3>5
  <2> HIDE DEF before, after
  <2>5. /\ before \o after \in Seq(Requests)
        /\ Len(before \o after) = Len(before) + Len(after)
        /\ \A i \in 1..(Len(before) + Len(after)) :
              (before \o after)[i] = IF i <= Len(before) THEN before[i] ELSE after[i - Len(before)]
    BY <2>3, <2>4, ConcatProperties
  <2> DEFINE w == before \o after
             From(i) == IF i < at THEN i ELSE i + 1
  <2>6. Len(w) = Len(order) - 1
    BY <2>3, <2>4, <2>5, <2>1, <1>d
  <2>7. \A i \in 1..Len(w) : From(i) \in 1..Len(order) /\ From(i) # at /\ w[i] = order[From(i)]
    <3> SUFFICES ASSUME NEW i \in 1..Len(w)
                 PROVE  From(i) \in 1..Len(order) /\ From(i) # at /\ w[i] = order[From(i)]
      OBVIOUS
    <3>1. w[i] = IF i <= at - 1 THEN before[i] ELSE after[i - (at - 1)]
      BY <2>3, <2>4, <2>5, <2>6, <2>1, <1>d
    <3> HIDE DEF w
    <3>2. CASE i < at
      <4>1. i \in 1..(at - 1)
        BY <3>2, <2>1, <1>d, <2>6
      <4> QED BY <4>1, <3>2, <3>1, <2>3, <2>1, <1>d
    <3>3. CASE i >= at
      <4>1. i - (at - 1) \in 1..(Len(order) - at) /\ at + (i - (at - 1)) = i + 1
        BY <3>3, <2>1, <1>d, <2>6
      <4>2. after[i - (at - 1)] = order[i + 1]
        BY <4>1, <2>4
      <4> QED BY <4>1, <4>2, <3>3, <3>1, <2>1, <1>d, <2>6
    <3>4. i \in Int /\ at \in Int
      BY <2>1, <1>d, <2>6
    <3>5. i < at \/ i >= at
      BY <3>4
    <3> QED BY <3>2, <3>3, <3>5
  <2>8. \A i, j \in 1..Len(w) : From(i) = From(j) => i = j
    BY <2>6, <2>1, <1>d
  <2> HIDE DEF w, From
  <2>9. Distinct(w)
    BY <2>7, <2>8 DEF Distinct
  <2>10. \A i \in 1..Len(w) : w[i] # r
    BY <2>7, <2>1 DEF Distinct
  <2> QED BY <2>2, <2>5, <2>7, <2>9, <2>10 DEF w
<1> QED BY <1>1, <1>2

LEMMA ExcessType ==
    ASSUME order \in Seq(Requests), NEW e \in Expirable
    PROVE  Excess(e) \in 0..Len(order)
<1> DEFINE left == Cardinality(Rows) - e
           batch == IF left >= MAX_ROWS THEN left - MAX_ROWS + PRUNE_BATCH ELSE 0
<1>1. e \in 0..Len(order) /\ Len(order) \in Nat
  BY DEF Expirable
<1>2. Rows \in SUBSET Requests /\ IsFiniteSet(Requests)
  BY ReceiptConstants DEF Rows
<1>3. IsFiniteSet(Rows)
  BY <1>2, FS_Subset
<1>4. Cardinality(Rows) \in Nat
  BY <1>3, FS_CardinalityType
<1>5. left \in Int
  BY <1>1, <1>4
<1> HIDE DEF left
<1>6. batch \in Nat
  BY <1>5, ReceiptConstants
<1>7. Excess(e) = IF e + batch > Len(order) THEN Len(order) ELSE e + batch
  BY DEF Excess, left
<1> HIDE DEF batch
<1> QED BY <1>1, <1>6, <1>7

\* What a step may do to the rows and their order.
Keeps == UNCHANGED <<state, order>>
Inserts(r) ==
    /\ state[r] = "none"
    /\ \E k \in Kinds, s \in Pending, e \in Expirable, misused \in SUBSET Requests : AddRow(r, k, s, e, misused)
    /\ stranded' = stranded /\ crashes' = crashes
Settles(r) ==
    /\ \E outcome : Complete(r, outcome)
    /\ excused' = excused /\ crashes' = crashes
HandlerEnds(r) ==
    crashes' = crashes /\ \E c \in Calls : Running(c) /\ call[c].req = r /\ ~Running(c)'
Discards(r) == Discard(r) /\ HandlerEnds(r) /\ excused' = excused
Checkpoints(r) ==
    /\ state[r] \in Pending /\ state' = [state EXCEPT ![r] = "effect_free"]
    /\ order' = order

\* An insertion prunes a prefix of the order, and its own row is not there.
LEMMA InsertKeepsOrder ==
    ASSUME RowsTyped, OrderInv, HistoryTyped, NEW r \in Requests, Inserts(r)
    PROVE  /\ OrderInv' /\ HistoryTyped'
           /\ \A q \in Requests : state[q] \in Pending => state'[q] # "none"
<1>1. PICK k \in Kinds, s \in Pending, e \in Expirable, misused \in SUBSET Requests : AddRow(r, k, s, e, misused)
  BY DEF Inserts
<1> DEFINE n == Excess(e)
           gone == {order[i] : i \in 1..n}
<1>2. /\ e \in Expirable
      /\ state' = [x \in Requests |-> IF x = r THEN s
                                      ELSE IF x \in gone THEN "none" ELSE state[x]]
      /\ order' = SubSeq(order, n + 1, Len(order))
      /\ excused' = excused \cup gone \cup misused
  BY <1>1 DEF AddRow
<1>3. n \in 0..Len(order) /\ Len(order) \in Nat
  BY <1>2, ExcessType DEF OrderInv
<1>4. \A i \in 1..Len(order) : order[i] \in Requests
  BY DEF OrderInv
<1>5. \A i \in 1..Len(order) : order[i] # r
  BY <1>4 DEF OrderInv, Inserts
<1> HIDE DEF n
<1>6. /\ order' \in Seq(Requests) /\ Len(order') = Len(order) - n
      /\ \A i \in 1..(Len(order) - n) : order'[i] = order[n + i]
  <2>1. n + 1 \in Int /\ Len(order) \in Int /\ \A i \in (n + 1)..Len(order) : order[i] \in Requests
    BY <1>3, <1>4
  <2> DEFINE rest == SubSeq(order, n + 1, Len(order))
  <2>2. /\ rest \in Seq(Requests)
        /\ Len(rest) = IF n + 1 <= Len(order) THEN Len(order) - (n + 1) + 1 ELSE 0
        /\ \A i \in 1..(Len(order) - (n + 1) + 1) : rest[i] = order[n + 1 + i - 1]
    BY <2>1, SubSeqProperties
  <2> HIDE DEF rest
  <2>3. Len(rest) = Len(order) - n /\ \A i \in 1..(Len(order) - n) : rest[i] = order[n + i]
    BY <2>2, <1>3
  <2> QED BY <2>2, <2>3, <1>2 DEF rest
<1>7. \A i \in 1..Len(order') : n + i \in 1..Len(order) /\ n + i \notin 1..n
  BY <1>3, <1>6
<1>8. Distinct(order')
  BY <1>3, <1>6, <1>7 DEF OrderInv, Distinct
<1>9. \A i \in 1..Len(order') : state'[order'[i]] \in {"completed", "refused"}
  <2> SUFFICES ASSUME NEW i \in 1..Len(order')
               PROVE  state'[order'[i]] \in {"completed", "refused"}
    OBVIOUS
  <2>1. order'[i] = order[n + i] /\ n + i \in 1..Len(order) /\ n + i \notin 1..n
    BY <1>6, <1>7
  <2>2. \A j \in 1..n : j \in 1..Len(order)
    BY <1>3
  <2>3. order[n + i] \notin gone
    BY <2>1, <2>2 DEF OrderInv, Distinct
  <2>4. order[n + i] \in Requests /\ order[n + i] # r
    BY <2>1, <1>4, <1>5
  <2>5. state'[order[n + i]] = state[order[n + i]]
    BY <1>2, <2>3, <2>4
  <2> QED BY <2>1, <2>5 DEF OrderInv
<1>10. \A q \in gone : q \in Requests /\ state[q] \in {"completed", "refused"}
  BY <1>3, <1>4 DEF OrderInv
<1>11. HistoryTyped'
  <2>1. stranded' = stranded /\ crashes' = crashes
    BY DEF Inserts
  <2>2. excused' \subseteq Requests
    BY <1>2, <1>10 DEF HistoryTyped
  <2> QED BY <2>1, <2>2 DEF HistoryTyped
<1>12. ASSUME NEW q \in Requests, state[q] \in Pending PROVE state'[q] # "none"
  <2>1. q \notin gone
    BY <1>10, <1>12 DEF Pending
  <2>2. state[q] # "none" /\ s # "none"
    BY <1>12 DEF Pending
  <2> HIDE DEF gone
  <2> QED BY <1>2, <2>1, <2>2
<1> QED BY <1>6, <1>8, <1>9, <1>11, <1>12 DEF OrderInv

\* Everything else that moves a row keeps it out of the order while it is open.
LEMMA OthersKeepOrder ==
    ASSUME RowsTyped, OrderInv, HistoryTyped, NEW r \in Requests,
           Settles(r) \/ Discards(r) \/ Checkpoints(r)
    PROVE  /\ OrderInv'
           /\ Settles(r) \/ Discards(r) => HistoryTyped'
           /\ \A q \in Requests : state[q] \in Pending /\ state'[q] = "none" => HandlerEnds(q)
<1> DEFINE others == Without(r)
<1>0. state \in [Requests -> Pending \cup {"none", "completed", "refused"}]
  BY DEF RowsTyped
<1>1. /\ others \in Seq(Requests) /\ Distinct(others) /\ Len(others) \in Nat
      /\ \A i \in 1..Len(others) :
            others[i] # r /\ others[i] \in Requests /\ state[others[i]] \in {"completed", "refused"}
  BY WithoutDoes DEF OrderInv
<1> HIDE DEF others
<1>2. CASE Settles(r)
  <2>1. PICK outcome : Complete(r, outcome)
    BY <1>2 DEF Settles
  <2>2. /\ state' = [state EXCEPT ![r] = IF outcome = "done" THEN "completed" ELSE "refused"]
        /\ order' = Append(others, r) /\ stranded' = stranded \ {r}
    BY <2>1 DEF Complete, others
  <2>3. /\ order' \in Seq(Requests) /\ Len(order') = Len(others) + 1 /\ order'[Len(others) + 1] = r
        /\ \A i \in 1..Len(others) : order'[i] = others[i]
    BY <1>1, <2>2
  <2>4. state'[r] \in {"completed", "refused"} /\ \A q \in Requests \ {r} : state'[q] = state[q]
    BY <1>0, <2>2
  <2>5. Distinct(order')
    BY <1>1, <2>3 DEF Distinct
  <2>6. \A i \in 1..Len(order') : state'[order'[i]] \in {"completed", "refused"}
    <3> SUFFICES ASSUME NEW i \in 1..Len(order')
                 PROVE  state'[order'[i]] \in {"completed", "refused"}
      OBVIOUS
    <3>1. i \in 1..Len(others) \/ i = Len(others) + 1
      BY <1>1, <2>3
    <3> QED BY <3>1, <1>1, <2>3, <2>4
  <2>7. HistoryTyped'
    BY <1>2, <2>2 DEF HistoryTyped, Settles
  <2>8. \A q \in Requests : state[q] \in Pending => state'[q] # "none"
    BY <2>4 DEF Pending
  <2> QED BY <2>3, <2>5, <2>6, <2>7, <2>8 DEF OrderInv
<1>3. CASE Discards(r) /\ r \in Discardable
  <2>1. /\ state' = [state EXCEPT ![r] = "none"] /\ order' = others
        /\ stranded' = stranded \ {r} /\ excused' = excused /\ crashes' = crashes
    BY <1>3 DEF Discards, Discard, others, HandlerEnds
  <2>2. \A q \in Requests \ {r} : state'[q] = state[q]
    BY <1>0, <2>1
  <2>3. OrderInv'
    BY <1>1, <2>1, <2>2 DEF OrderInv
  <2>4. HistoryTyped'
    BY <2>1 DEF HistoryTyped
  <2>5. \A q \in Requests : state[q] \in Pending /\ state'[q] = "none" => q = r
    BY <2>2 DEF Pending
  <2>6. HandlerEnds(r)
    BY <1>3 DEF Discards
  <2> QED BY <1>3, <2>3, <2>4, <2>5, <2>6 DEF HandlerEnds
<1>4. CASE Discards(r) /\ r \notin Discardable
  <2>1. UNCHANGED <<state, order, stranded, excused, crashes>>
    BY <1>4 DEF Discards, Discard, rowVars, HandlerEnds
  <2> QED BY <2>1 DEF OrderInv, Distinct, HistoryTyped, Pending
<1>5. CASE Checkpoints(r)
  <2>1. state[r] \in Pending /\ order' = order /\ state' = [state EXCEPT ![r] = "effect_free"]
    BY <1>5 DEF Checkpoints
  <2>2. \A q \in Requests \ {r} : state'[q] = state[q]
    BY <1>0, <2>1
  <2>3. state'[r] = "effect_free"
    BY <1>0, <2>1
  <2>4. \A i \in 1..Len(order) : order[i] \in Requests /\ order[i] # r
    BY <2>1 DEF OrderInv, Pending
  <2>5. OrderInv'
    BY <2>1, <2>2, <2>4 DEF OrderInv
  <2>6. \A q \in Requests : state[q] \in Pending => state'[q] # "none"
    BY <2>2, <2>3 DEF Pending
  <2>7. ~(Settles(r) \/ Discards(r)) \/ HistoryTyped'
    <3>1. state'[r] \notin {"completed", "refused", "none"}
      BY <2>3
    <3>2. Settles(r) => state'[r] \in {"completed", "refused"}
      BY <1>0 DEF Settles, Complete
    <3>3. Discards(r) => state'[r] = "none"
      BY <1>0, <2>1 DEF Discards, Discard, Discardable, Unresolved
    <3> QED BY <3>1, <3>2, <3>3
  <2> QED BY <2>5, <2>6, <2>7
<1> QED BY <1>2, <1>3, <1>4, <1>5

Leaves ==
    /\ UNCHANGED <<state, order, excused>>
    /\ stranded' \subseteq Requests /\ crashes' \in 0..MaxCrashes

LEMMA EndsCall ==
    ASSUME CallsTyped, NEW c \in Calls, Running(c), NEW own, NEW joined, Ends(c, own, joined)
    PROVE  ~Running(c)'
<1>1. call'[c] = [phase |-> "answered", req |-> call[c].req, answer |-> own]
  BY DEF Ends
<1> QED BY <1>1 DEF Running, Phases

\* Every step of a call is one of these, and so are those of the runtime.
LEMMA ArriveMovesRows ==
    ASSUME IInv, HistoryTyped, NEW c \in Calls, Arrive(c)
    PROVE  Leaves \/ \E r \in Requests : Inserts(r)
<1>1. PICK r \in Requests, k \in Kinds :
        \/ Join(c, r, k) \/ RefuseMismatch(c, r, k) \/ Begin(c, r, k) \/ LedgerFull(c, r, k)
        \/ Resume(c, r, k) \/ OutcomeUnknown(c, r, k)
        \/ Replay(c, r, k) \/ ObserveReplay(c, r, k)
  BY DEF Arrive
<1>2. CASE Begin(c, r, k)
  <2>1. /\ state[r] = "none" /\ stranded' = stranded /\ crashes' = crashes
        /\ IF k = "start" THEN UNCHANGED <<rowVars, excused>>
           ELSE \E e \in Expirable : AddRow(r, k, "pending", e, IF Active(r) THEN {r} ELSE {})
    BY <1>2 DEF Begin
  <2>2. CASE k = "start"
    BY <2>1, <2>2 DEF Leaves, rowVars, HistoryTyped
  <2>3. CASE k # "start"
    <3>1. PICK e \in Expirable : AddRow(r, k, "pending", e, IF Active(r) THEN {r} ELSE {})
      BY <2>1, <2>3
    <3>2. "pending" \in Pending /\ (IF Active(r) THEN {r} ELSE {}) \in SUBSET Requests
      BY DEF Pending
    <3>3. \E k1 \in Kinds, s \in Pending, e1 \in Expirable, misused \in SUBSET Requests : AddRow(r, k1, s, e1, misused)
      BY <3>1, <3>2 DEF AddRow
    <3> QED BY <2>1, <3>3 DEF Inserts
  <2> QED BY <2>2, <2>3
<1>3. CASE ~Begin(c, r, k)
  <2>1. UNCHANGED <<rowVars, history>>
    BY <1>1, <1>3 DEF Join, RefuseMismatch, LedgerFull, Resume, OutcomeUnknown, Replay,
                      ObserveReplay, Says
  <2> QED BY <2>1 DEF rowVars, history, Leaves, HistoryTyped
<1> QED BY <1>2, <1>3

LEMMA HandleMovesRows ==
    ASSUME IInv, HistoryTyped, NEW c \in Calls, Handle(c)
    PROVE  Leaves \/ \E r \in Requests : Inserts(r) \/ Settles(r) \/ Discards(r)
<1>t. CallsTyped /\ (Running(c) => call[c].req \in Requests)
  BY RunningCall DEF IInv
<1>1. CASE CommitSend(c) \/ CommitReport(c) \/ RecordPrompt(c)
  <2>1. Running(c) /\ Complete(call[c].req, "done") /\ excused' = excused /\ crashes' = crashes
    BY <1>1 DEF CommitSend, CommitReport, RecordPrompt, Runs, Running, Phases
  <2> QED BY <2>1, <1>t DEF Settles
<1>2. CASE SendUnrecorded(c)
  <2>1. /\ Running(c) /\ Discard(call[c].req) /\ Ends(c, "failed", "failed")
        /\ excused' = excused /\ crashes' = crashes
    BY <1>2 DEF SendUnrecorded, Runs, Running, Phases
  <2> QED BY <2>1, <1>t, EndsCall DEF Discards, HandlerEnds
<1>3. CASE AcceptStart(c)
  <2>1. /\ Running(c) /\ state[call[c].req] = "none" /\ UNCHANGED <<stranded, crashes>>
        /\ \E e \in Expirable : AddRow(call[c].req, "start", "accepted", e, {})
    BY <1>3 DEF AcceptStart, Runs, Running, Phases
  <2>2. "start" \in Kinds /\ "accepted" \in Pending /\ {} \in SUBSET Requests
    BY DEF Kinds, Pending
  <2>3. PICK r : r = call[c].req
    OBVIOUS
  <2>4. \E e \in Expirable : AddRow(r, "start", "accepted", e, {})
    BY <2>1, <2>3 DEF AddRow
  <2>5. \E k1 \in Kinds, s \in Pending, e1 \in Expirable, misused \in SUBSET Requests : AddRow(r, k1, s, e1, misused)
    BY <2>2, <2>4
  <2> QED BY <2>1, <2>3, <2>5, <1>t DEF Inserts
<1>4. CASE \/ StartAlreadyAccepted(c) \/ MarkPrompt(c) \/ WritePrompt(c) \/ QueueReport(c)
         \/ Release(c) \/ ObservationFails(c)
  <2>1. UNCHANGED <<rowVars, history>>
    BY <1>4 DEF StartAlreadyAccepted, MarkPrompt, WritePrompt, QueueReport, Release, ObservationFails
  <2> QED BY <2>1 DEF rowVars, history, Leaves, HistoryTyped
<1>5. CASE \E outcome \in {"done", "refused"} : Return(c, outcome)
  <2>1. PICK outcome : Return(c, outcome)
    BY <1>5
  <2>2. /\ Running(c) /\ excused' = excused /\ crashes' = crashes
        /\ \/ Complete(call[c].req, outcome)
           \/ Discard(call[c].req) /\ Ends(c, "failed", outcome)
    BY <2>1 DEF Return, Runs, Running, Phases
  <2> QED BY <2>2, <1>t, EndsCall DEF Settles, Discards, HandlerEnds
<1>6. CASE Throw(c)
  <2>1. /\ Running(c) /\ (\E said \in Answers : Ends(c, said, said)) /\ excused' = excused /\ crashes' = crashes
        /\ \/ /\ stranded' = IF state[call[c].req] \in Pending
                             THEN stranded \cup {call[c].req} ELSE stranded
              /\ UNCHANGED rowVars
           \/ Discard(call[c].req)
    BY <1>6 DEF Throw, MayThrow, Runs, Running, Phases, Answers
  <2>2. CASE Discard(call[c].req)
    BY <2>1, <2>2, <1>t, EndsCall DEF Discards, HandlerEnds
  <2>3. CASE ~Discard(call[c].req)
    BY <2>1, <2>3, <1>t DEF Leaves, rowVars, HistoryTyped
  <2> QED BY <2>2, <2>3
<1>7. CASE Observed(c)
  <2>1. /\ Running(c) /\ excused' = excused /\ crashes' = crashes
        /\ Complete(call[c].req, "done") \/ UNCHANGED <<rowVars, stranded>>
    BY <1>7 DEF Observed, Running, Phases
  <2> QED BY <2>1, <1>t DEF Settles, Leaves, rowVars, HistoryTyped
<1> QED BY <1>1, <1>2, <1>3, <1>4, <1>5, <1>6, <1>7 DEF Handle

Fates(r) ==
    \/ Inserts(r) \/ Settles(r) \/ Discards(r)
    \/ Checkpoints(r) /\ HistoryTyped'

LEMMA NextMovesRows ==
    ASSUME IInv, HistoryTyped, [Next]_vars
    PROVE  Leaves \/ \E r \in Requests : Fates(r)
<1>1. CASE \E c \in Calls : Arrive(c) \/ Handle(c)
  BY <1>1, ArriveMovesRows, HandleMovesRows DEF Fates
<1>2. ASSUME NEW c \in Calls, OvertakeStart(c) PROVE Leaves
  BY <1>2 DEF OvertakeStart, rowVars, history, Leaves, HistoryTyped
<1>d. Dies => crashes' \in 0..MaxCrashes /\ excused' = excused
  BY ReceiptConstants DEF Dies, HistoryTyped
<1>3. ASSUME NEW c \in Calls, CrashAfterInsert(c) PROVE Leaves
  BY <1>3, <1>d DEF CrashAfterInsert, Unresolved, rowVars, Leaves
<1>4. ASSUME NEW c \in Calls, CrashAfterCheckpoint(c)
      PROVE  \E r \in Requests : Checkpoints(r) /\ HistoryTyped'
  <2>1. /\ Running(c) /\ Dies /\ state[call[c].req] \in Pending
        /\ state' = [state EXCEPT ![call[c].req] = "effect_free"]
        /\ stranded' = Unresolved /\ order' = order
    BY <1>4 DEF CrashAfterCheckpoint, Runs, Running, Phases
  <2>2. call[c].req \in Requests
    BY <2>1, RunningCall DEF IInv
  <2>3. HistoryTyped'
    BY <2>1, <1>d DEF HistoryTyped, Unresolved
  <2> QED BY <2>1, <2>2, <2>3 DEF Checkpoints
<1>5. CASE Crash
  BY <1>5, <1>d DEF Crash, Unresolved, rowVars, Leaves
<1>6. CASE UNCHANGED vars
  BY <1>6 DEF vars, rowVars, history, Leaves, HistoryTyped
<1> QED BY <1>1, <1>2, <1>3, <1>4, <1>5, <1>6 DEF Next, Fates

LEMMA NextKeepsOrder ==
    IInv /\ OrderInv /\ HistoryTyped /\ [Next]_vars =>
        /\ OrderInv' /\ HistoryTyped'
        /\ \A q \in Requests : state[q] \in Pending /\ state'[q] = "none" => HandlerEnds(q)
<1> SUFFICES ASSUME IInv, OrderInv, HistoryTyped, [Next]_vars
             PROVE  /\ OrderInv' /\ HistoryTyped'
                    /\ \A q \in Requests : state[q] \in Pending /\ state'[q] = "none" => HandlerEnds(q)
  OBVIOUS
<1>t. RowsTyped
  BY DEF IInv
<1>1. CASE Leaves
  BY <1>1 DEF Leaves, OrderInv, Distinct, HistoryTyped, Pending
<1>2. ASSUME NEW r \in Requests, Fates(r)
      PROVE  /\ OrderInv' /\ HistoryTyped'
             /\ \A q \in Requests : state[q] \in Pending /\ state'[q] = "none" => HandlerEnds(q)
  <2>1. CASE Inserts(r)
    BY <2>1, <1>t, InsertKeepsOrder
  <2>2. CASE Settles(r) \/ Discards(r) \/ (Checkpoints(r) /\ HistoryTyped')
    <3>1. /\ OrderInv' /\ (Settles(r) \/ Discards(r) => HistoryTyped')
          /\ \A q \in Requests : state[q] \in Pending /\ state'[q] = "none" => HandlerEnds(q)
      BY <2>2, <1>t, OthersKeepOrder
    <3> QED BY <2>2, <3>1
  <2> QED BY <1>2, <2>1, <2>2 DEF Fates
<1> QED BY <1>1, <1>2, NextMovesRows

LEMMA AlwaysOrderInv == Spec => [](IInv /\ OrderInv /\ HistoryTyped)
<1>1. Init => IInv /\ OrderInv /\ HistoryTyped
  <2>1. Init => OrderInv /\ HistoryTyped
    BY ReceiptConstants DEF Init, OrderInv, Distinct, HistoryTyped
  <2> QED BY <2>1, InitIInv
<1>2. (IInv /\ OrderInv /\ HistoryTyped) /\ [Next]_vars => (IInv /\ OrderInv /\ HistoryTyped)'
  BY NextIInv, NextKeepsOrder
<1> QED BY <1>1, <1>2, PTL DEF Spec

\* No reachable state leaves the declared types, and the order never names more
\* rows than there are requests.
THEOREM ReceiptsAlwaysTyped == Spec => []TypeOK
<1>1. IInv /\ OrderInv /\ HistoryTyped => TypeOK
  <2> SUFFICES ASSUME IInv, OrderInv, HistoryTyped PROVE TypeOK
    OBVIOUS
  <2>1. Len(order) <= Cardinality(Requests)
    <3>1. order \in [1..Len(order) -> Requests] /\ Len(order) \in Nat
      BY DEF OrderInv
    <3>2. order \in Injection(1..Len(order), Requests)
      BY <3>1 DEF OrderInv, Distinct, Injection, IsInjective
    <3>3. Cardinality(1..Len(order)) <= Cardinality(Requests)
      BY <3>2, FS_Injection, ReceiptConstants
    <3>4. Cardinality(1..Len(order)) = Len(order)
      <4>1. 1 \in Int /\ Len(order) \in Int
        BY <3>1
      <4>2. Cardinality(1..Len(order)) = IF 1 > Len(order) THEN 0 ELSE Len(order) - 1 + 1
        BY <4>1, FS_Interval
      <4> QED BY <4>2, <3>1
    <3> QED BY <3>3, <3>4
  <2> QED BY <2>1 DEF IInv, OrderInv, HistoryTyped, RowsTyped, CallsTyped, TypeOK
<1> QED BY <1>1, AlwaysOrderInv, PTL

\* A row whose outcome is open goes only with the handler that runs under its own
\* id: no restart and no room made for another request forgets it.
THEOREM OpenRowsAlwaysKept == Spec => OpenRowsAreKept
<1> DEFINE Kept == \A r \in Requests : state[r] \in Pending /\ state'[r] = "none"
          => /\ crashes' = crashes
             /\ \E c \in Calls : Running(c) /\ call[c].req = r /\ ~Running(c)'
<1>1. (IInv /\ OrderInv /\ HistoryTyped) /\ [Next]_vars => Kept
  BY NextKeepsOrder DEF HandlerEnds
<1>2. UNCHANGED vars => Kept
  BY DEF vars, rowVars, Pending
<1>3. OpenRowsAreKept <=> [][Kept]_vars
  BY DEF OpenRowsAreKept
<1> HIDE DEF Kept
<1> QED BY <1>1, <1>3, AlwaysOrderInv, PTL DEF Spec
=============================================================================
