--------------------------- MODULE MailboxPointer ---------------------------
(***************************************************************************)
(* How the runtime tells an agent that its mailbox holds mail: it types a  *)
(* one-line pointer into the agent's pane and, half a second later, Enter. *)
(* Both go to a process that works, stops, dies and is respawned under the *)
(* same session id meanwhile, through writes whose outcome may stay        *)
(* unknown, while the consumer may read the mail by itself, another pane   *)
(* may take the mailbox over, and the runtime may die.                     *)
(*                                                                         *)
(* One mailbox of a run is modelled, with the panes its coordinator may    *)
(* sit in.  What survives the runtime is in the rows: each message carries *)
(* the phase its pointer reached (0 none, 1 reserved, 2 the text was       *)
(* attempted, 3 Enter was attempted) and the process it was reserved for.  *)
(* Everything else is memory: the flight of a pane, the watermark that     *)
(* parks other deliveries, what was parked, the timers and the probes.     *)
(*                                                                         *)
(* Handlers that call one another without awaiting are one step here: an   *)
(* operator takes the state (a record, Now) and gives the set of states it *)
(* may leave.  Awaits, timers and microtasks are steps of their own.       *)
(***************************************************************************)
EXTENDS Integers, Sequences, FiniteSets, FiniteSetsExt

CONSTANTS
    Ptys,             \* terminal sessions, one pane each
    Mortal,           \* the sessions whose process may end, or whose connection may
    QueuesInput,      \* the sessions where an agent may run that queues text without Enter
    LateExits,        \* may an exit be reported after the next process registered?
    LateProbes,       \* may a probe outlive the binding of the run it was made under?
    LateAbsence,      \* may the probe before Enter find its session gone after its flight was retired?
    MaxMessages,      \* messages sent
    MaxIncarnation,   \* processes a session runs, one after another
    MaxFlights,       \* writes and probes under way at once
    MaxRestarts,      \* restarts of the runtime
    Titles            \* the agent states its titles may announce

ASSUME PointerAssumption ==
    /\ Ptys # {} /\ Mortal \subseteq Ptys /\ QueuesInput \subseteq Ptys /\ LateExits \in BOOLEAN
    /\ LateProbes \in BOOLEAN /\ LateAbsence \in BOOLEAN
    /\ MaxMessages \in Nat /\ MaxIncarnation \in Nat \ {0}
    /\ MaxFlights \in Nat \ {0} /\ MaxRestarts \in Nat
    /\ Titles \subseteq {"none", "idle", "working", "permission"}

VARIABLES
    rows,          \* the mailbox: its messages in the order of their sequence
    outstanding,   \* the messages of the consumer's unacknowledged delivery
    owner,         \* the session of the pane the run is bound to
    waiter,        \* is a check of the whole mailbox waiting?
    term,          \* the sessions, as they are and as the runtime sees them
    mem,           \* the runtime's memory
    keys,          \* history: what Enter was pressed for
    restarts

vars == <<rows, outstanding, owner, waiter, term, mem, keys, restarts>>

RESERVED == 1
WRITE_ATTEMPTED == 2
ENTER_ATTEMPTED == 3

-----------------------------------------------------------------------------
(* State records *)

Now == [rows |-> rows, outstanding |-> outstanding, owner |-> owner, waiter |-> waiter,
        term |-> term, mem |-> mem, keys |-> keys, offered |-> FALSE]

\* A process is the session and its incarnation; no process is the empty tuple.
Process == {<<>>} \cup (Ptys \X (1..MaxIncarnation))

\* The process the runtime believes to run in session p.
Known(s, p) == <<p, s.term[p].known>>

NoMark == [seq |-> 0, active |-> FALSE]
Free == [step |-> "free"]

FreshMemory ==
    [flights |-> [f \in 1..MaxFlights |-> Free], current |-> [p \in Ptys |-> 0],
     mark |-> NoMark, parked |-> {}, reoffer |-> FALSE,
     repoint |-> FALSE, recheck |-> {}, probing |-> {}]

Init ==
    /\ rows = <<>> /\ outstanding = {} /\ owner \in Ptys /\ waiter = FALSE
    /\ term = [p \in Ptys |-> [runs |-> 1, known |-> 1, writable |-> TRUE,
                               status |-> "unseen", exiting |-> FALSE]]
    /\ mem = FreshMemory
    /\ keys = [submitted |-> {}, twice |-> FALSE, stray |-> FALSE]
    /\ restarts = 0

-----------------------------------------------------------------------------
(* The rows *)

Unread(rs) == {m \in DOMAIN rs : ~rs[m].read}

\* The pointers some earlier delivery reserved and nobody settled.
Pending(rs) == {m \in Unread(rs) : rs[m].phase > 0}

\* The rows a pointer may carry now.
Offerable(rs) == {m \in Unread(rs) : ~rs[m].delivered /\ rs[m].phase = 0}

Row(read, delivered, phase, at) ==
    [read |-> read, delivered |-> delivered, phase |-> phase, at |-> at]

\* Fault: the process stays named in a row that is not reserved any more.
Unreserved_Bare(row, delivered) == Row(row.read, delivered, 0, row.at)

Unreserved(row, delivered) == Row(row.read, delivered, 0, <<>>)

\* Maps the rows of ids that satisfy Which; the others stay.
On(rs, ids, Which(_), To(_)) ==
    [m \in DOMAIN rs |-> IF m \in ids /\ Which(rs[m]) THEN To(rs[m]) ELSE rs[m]]

Settled(rs, ids, target, phases) ==
    On(rs, ids, LAMBDA row : row.at = target /\ row.phase \in phases,
                LAMBDA row : Unreserved(row, TRUE))

Released(rs, ids, target, phases) ==
    On(rs, ids, LAMBDA row : ~row.read /\ row.at = target /\ row.phase \in phases,
                LAMBDA row : Unreserved(row, FALSE))

MarkedDelivered(rs, ids) ==
    On(rs, ids, LAMBDA row : TRUE, LAMBDA row : Unreserved(row, TRUE))

MarkedUndelivered(rs, ids) ==
    On(rs, ids, LAMBDA row : ~row.read, LAMBDA row : Unreserved(row, FALSE))

\* An agent that works took what was in its composer: only a pointer that was never
\* written is offered again.
ReleasedForPty(rs, p) ==
    On(rs, DOMAIN rs, LAMBDA row : row.phase > 0 /\ row.at[1] = p,
       LAMBDA row : Unreserved(row, IF row.read THEN row.delivered ELSE row.phase # RESERVED))

-----------------------------------------------------------------------------
(* Deliveries *)

\* Offers what was parked for the mailbox again, in a microtask: once the step is over
\* and before the next one (Becomes).
Redrive(s, force) ==
    IF force \/ s.mem.reoffer
    THEN [s EXCEPT !.mem.reoffer = FALSE, !.offered = TRUE]
    ELSE s

Marks(s, f) ==
    LET flight == s.mem.flights[f]
    IN  s.mem.mark # NoMark /\ s.mem.mark.pty = flight.pty /\ s.mem.mark.seq = Max(flight.batch)

ClearMark(s) == [s EXCEPT !.mem.mark = NoMark]
DeactivateMark(s) == [s EXCEPT !.mem.mark.active = FALSE]

FreeFlights(s) == {f \in 1..MaxFlights : s.mem.flights[f] = Free}

\* Flight f reserves the batch for the process pane p is believed to run and writes the
\* pointer text; the bytes reach process into, or none.
Staged(s, p, f, into) ==
    LET batch == Offerable(s.rows)
    IN  [s EXCEPT
            !.rows = [m \in DOMAIN @ |-> IF m \in batch
                        THEN Row(FALSE, FALSE, WRITE_ATTEMPTED, Known(s, p)) ELSE @[m]],
            !.mem.flights[f] = [step |-> "writing", pty |-> p, inc |-> s.term[p].known,
                                batch |-> batch, into |-> into],
            !.mem.current[p] = f,
            !.mem.mark = [pty |-> p, seq |-> Max(batch), active |-> TRUE]]

Stage(s, p) ==
    {Staged(s, p, f, into) : f \in {g \in FreeFlights(s) : \A h \in FreeFlights(s) : g <= h},
                             into \in {0, s.term[p].runs}}

\* Fault: another pane's last pointer refuses this one as well.
Refused_ByAny(s, p) == Max(Offerable(s.rows)) <= s.mem.mark.seq

\* A pointer to rows no newer than the last one of this pane is refused; that of
\* another pane is over here, and gives way.
Refused(s, p) ==
    /\ Max(Offerable(s.rows)) <= s.mem.mark.seq
    /\ s.mem.mark.pty = p

\* Unless the controller knows the session to be live, its absence is probed first,
\* by one probe at a time.
Point(s, p, probed) ==
    IF \/ Offerable(s.rows) = {}
       \/ ~s.term[p].writable
       \/ Refused(s, p)
    THEN {s}
    ELSE LET t == IF Max(Offerable(s.rows)) <= s.mem.mark.seq THEN ClearMark(s) ELSE s
         IN  Stage(t, p) \cup (IF probed THEN {} ELSE {[t EXCEPT !.mem.probing = @ \cup {p}]})

\* Fault: what was attempted in the process that is there is offered again too.
ResumePending_Retyped(s, p, probed) ==
    Point([s EXCEPT !.rows = MarkedUndelivered(@, Pending(s.rows))], p, probed)

\* Pointers left pending by a flight that is gone.  Reserved for the process that is
\* there: text or Enter may have arrived, so they are settled and nothing is typed.
\* Reserved only, or for another process: they are offered again.
ResumePending(s, p, probed) ==
    LET pending == Pending(s.rows)
        here == \A m \in pending : s.rows[m].at = Known(s, p)
        attempted == \E m \in pending : s.rows[m].phase # RESERVED
    IN  IF pending # {} /\ here /\ attempted
        THEN {[s EXCEPT !.rows = Settled(@, pending, Known(s, p),
                                          {WRITE_ATTEMPTED, ENTER_ATTEMPTED})]}
        ELSE Point([s EXCEPT !.rows = MarkedUndelivered(@, pending)], p, probed)

\* The agent of pane p is settled: the part of deliver behind that gate.
DeliverSettled(s, p, probed) ==
    LET f == s.mem.current[p]
    IN  IF s.outstanding # {} THEN {s}
        ELSE IF f # 0
        THEN {[s EXCEPT !.mem.parked = @ \cup {p},
                        !.mem.flights[f].step = IF @ = "held" THEN "probing" ELSE @]}
        ELSE IF s.mem.mark.active THEN {[s EXCEPT !.mem.reoffer = TRUE]}
        ELSE IF s.waiter THEN {s}
        ELSE ResumePending(s, p, probed)

\* Whether the agent is settled is read off its titles and output: both answers are
\* possible, and a refusal arms the re-check.
Deliver(s, p, probed) ==
    IF s.outstanding # {} THEN {s}
    ELSE {[s EXCEPT !.mem.reoffer = TRUE, !.mem.recheck = @ \cup {p}]}
         \cup DeliverSettled([s EXCEPT !.mem.recheck = @ \ {p}], p, probed)

\* Seen idle by a title of the process that runs.  A status that was restored, or left
\* by the process before, is "unseen": it is displayed, and authorizes nothing.
LiveIdle(s, p) == s.term[p].status = "idle"

DeliverForHandle(s) ==
    IF LiveIdle(s, s.owner) THEN Deliver(s, s.owner, FALSE) ELSE {s}

\* The step ends in state s, or in what its microtask makes of s.
Becomes(s) ==
    \E t \in IF s.offered THEN DeliverForHandle([s EXCEPT !.offered = FALSE]) ELSE {s} :
        /\ rows' = t.rows /\ outstanding' = t.outstanding /\ owner' = t.owner
        /\ waiter' = t.waiter /\ term' = t.term /\ mem' = t.mem /\ keys' = t.keys
        /\ UNCHANGED restarts

DeliverForLeaf(s, p) == IF s.owner = p THEN DeliverSettled(s, p, FALSE) ELSE {s}

IsCurrent(s, f) == s.mem.current[s.mem.flights[f].pty] = f

\* The flight ends; what parked behind it in its pane is delivered there, or offered
\* to the pane that owns the mailbox now.
SettleFlight(s, f) ==
    LET p == s.mem.flights[f].pty
        freed == [s EXCEPT !.mem.flights[f] = Free]
        ended == [freed EXCEPT !.mem.current[p] = 0, !.mem.parked = @ \ {p}]
    IN  IF ~IsCurrent(s, f) THEN {freed}
        ELSE IF p \notin s.mem.parked THEN {ended}
        ELSE IF s.owner = p THEN Deliver(ended, p, FALSE)
        ELSE {Redrive([ended EXCEPT !.mem.reoffer = TRUE], FALSE)}

\* Fault: the flight ends, its watermark does not.
RetirePty_MarkKept(s, p) ==
    LET f == s.mem.current[p]
        flight == s.mem.flights[f]
    IN  IF f = 0 THEN s
        ELSE [s EXCEPT
                !.mem.current[p] = 0, !.mem.parked = @ \ {p},
                !.mem.flights[f] = IF @.step \in {"armed", "held"} THEN Free ELSE @,
                !.rows = Released(@, flight.batch, <<p, flight.inc>>,
                                  {RESERVED, WRITE_ATTEMPTED})]

\* The pane's process is gone, or has taken its input: its flight ends, a pointer
\* whose Enter was not attempted is released, and its watermark goes.
RetirePty(s, p) ==
    LET f == s.mem.current[p]
        flight == s.mem.flights[f]
        ended == IF f = 0 THEN s
                 ELSE [s EXCEPT
                        !.mem.current[p] = 0, !.mem.parked = @ \ {p},
                        !.mem.flights[f] = IF @.step \in {"armed", "held"} THEN Free ELSE @,
                        !.rows = Released(@, flight.batch, <<p, flight.inc>>,
                                          {RESERVED, WRITE_ATTEMPTED})]
    IN  IF ended.mem.mark # NoMark /\ ended.mem.mark.pty = p
        THEN Redrive(ClearMark(ended), TRUE) ELSE ended

\* The consumer has the mail, or is about to: nothing needs to be typed.
ShouldRelease(s, batch) ==
    s.outstanding # {} \/ s.waiter \/ \E m \in batch : s.rows[m].read

-----------------------------------------------------------------------------
(* A flight, from the settlement of its text to that of its Enter *)

\* What the transport may say of bytes that reached the process, and of bytes that
\* did not.
Outcomes(landed) == {"unverifiable", IF landed THEN "accepted" ELSE "refused"}

SettlePaste(f) ==
    LET flight == mem.flights[f]
        after(s) == SettleFlight(s, f)
        cleared == IF Marks(Now, f) THEN Redrive(ClearMark(Now), FALSE) ELSE Now
    IN  /\ flight.step = "writing"
        /\ \E outcome \in Outcomes(flight.into # 0) :
             IF ~IsCurrent(Now, f)
             THEN \E s \in after(Now) : Becomes(s)
             ELSE \/ /\ outcome = "unverifiable"
                     /\ \E s \in after(IF Marks(Now, f) THEN DeactivateMark(Now) ELSE Now) :
                          Becomes(s)
                  \/ /\ outcome = "refused"
                     /\ \E s \in after([cleared EXCEPT
                                          !.rows = MarkedUndelivered(@, flight.batch)]) : Becomes(s)
                  \/ /\ outcome = "accepted" /\ ShouldRelease(Now, flight.batch)
                     /\ \E s \in after(cleared) : Becomes(s)
                  \/ /\ outcome = "accepted" /\ ~ShouldRelease(Now, flight.batch)
                     /\ flight.pty \in QueuesInput
                     /\ \E s \in after(Redrive([ClearMark(Now) EXCEPT
                                          !.rows = MarkedDelivered(@, flight.batch)], FALSE)) : Becomes(s)
                  \/ /\ outcome = "accepted" /\ ~ShouldRelease(Now, flight.batch)
                     /\ Becomes([Now EXCEPT !.mem.flights[f].step = "armed"])

\* The delay before Enter is over: is the session still there?
EnterTimer(f) ==
    /\ mem.flights[f].step = "armed"
    /\ Becomes([Now EXCEPT !.mem.flights[f].step = "probing"])

\* Ends the submission of flight f: its rows as given, its watermark cleared, what
\* was parked behind it delivered, and the mailbox offered again when asked.
Submitted(s, f, rs, redrive, force) ==
    LET t == [s EXCEPT !.rows = rs]
        u == IF Marks(s, f) THEN ClearMark(t) ELSE t
    IN  {IF redrive /\ Marks(s, f) THEN Redrive(v, force) ELSE v : v \in SettleFlight(u, f)}

\* Whether Enter reached the process cannot be told: its rows stay as they are.
InDoubt(s, f) ==
    {IF Marks(s, f) THEN Redrive(v, FALSE) ELSE v :
        v \in SettleFlight(IF Marks(s, f) THEN DeactivateMark(s) ELSE s, f)}

\* Fault: any process of the session will do.
SameTarget_AnyProcess(f) ==
    LET p == mem.flights[f].pty IN term[p].writable /\ owner = p

\* The pane still runs the process the text was typed into, and owns the mailbox.
SameTarget(f) ==
    LET p == mem.flights[f].pty
    IN  Known(Now, p) = <<p, mem.flights[f].inc>> /\ term[p].writable /\ owner = p

\* The probe before Enter answers.  Absence comes first, then whether the flight was
\* retired, then the target, the agent's state and what the consumer did meanwhile.
Submit(f) ==
    LET flight == mem.flights[f]
        p == flight.pty
        target == <<p, flight.inc>>
        same == SameTarget(f)
        held == term[p].status = "none"
        queueSafe == term[p].status \in {"idle", "working"}
        marked == \A m \in flight.batch :
                    ~rows[m].read /\ rows[m].phase = WRITE_ATTEMPTED /\ rows[m].at = target
        back == Submitted(Now, f, Released(rows, flight.batch, target, {WRITE_ATTEMPTED}), TRUE, TRUE)
        dropped == Submitted(Now, f, Settled(rows, flight.batch, target, {WRITE_ATTEMPTED}), FALSE, FALSE)
        enter(into) ==
            [Now EXCEPT
               !.rows = [m \in DOMAIN @ |-> IF m \in flight.batch
                           THEN [@[m] EXCEPT !.phase = ENTER_ATTEMPTED] ELSE @[m]],
               !.mem.flights[f] = [flight EXCEPT !.step = "entering", !.into = into],
               !.keys = IF into = 0 THEN @
                        ELSE LET pressed == flight.batch \X {p}
                             IN  [submitted |-> @.submitted \cup pressed,
                                  twice |-> @.twice \/ @.submitted \cap pressed # {},
                                  stray |-> @.stray \/ into # flight.into]]
    IN  /\ flight.step = "probing"
        /\ \/ /\ term[p].runs = 0 /\ (LateAbsence \/ IsCurrent(Now, f))
              /\ \E s \in back : Becomes(s)
           \/ ~IsCurrent(Now, f) /\ \E s \in SettleFlight(Now, f) : Becomes(s)
           \/ IsCurrent(Now, f) /\ ~same /\ \E s \in back : Becomes(s)
           \/ IsCurrent(Now, f) /\ same /\ held /\ Becomes([Now EXCEPT !.mem.flights[f].step = "held"])
           \/ /\ IsCurrent(Now, f) /\ same /\ ~held
              /\ ~queueSafe \/ ShouldRelease(Now, flight.batch)
              /\ \E s \in dropped : Becomes(s)
           \/ /\ IsCurrent(Now, f) /\ same /\ queueSafe /\ ~ShouldRelease(Now, flight.batch)
              /\ IF ~marked THEN \E s \in InDoubt(Now, f) : Becomes(s)
                 ELSE \E into \in {0, term[p].runs} : Becomes(enter(into))

SettleEnter(f) ==
    LET flight == mem.flights[f]
        rs == Settled(rows, flight.batch, <<flight.pty, flight.inc>>, {ENTER_ATTEMPTED})
    IN  /\ flight.step = "entering"
        /\ \E outcome \in Outcomes(flight.into # 0) :
             IF ~IsCurrent(Now, f)
             THEN \E s \in SettleFlight(Now, f) : Becomes(s)
             ELSE \E s \in CASE outcome = "accepted" -> Submitted(Now, f, rs, TRUE, FALSE)
                             [] outcome = "refused" -> Submitted(Now, f, rs, FALSE, FALSE)
                             [] outcome = "unverifiable" -> InDoubt(Now, f) :
                    Becomes(s)

-----------------------------------------------------------------------------
(* What offers the mailbox: a message, the timers, a probe *)

\* A waiting check takes the message; otherwise it is pointed at once this turn ends.
\* The repoint timer is a second chance for the runs' mailboxes.
Send ==
    /\ Len(rows) < MaxMessages
    /\ Becomes([Now EXCEPT !.rows = Append(@, Row(FALSE, FALSE, 0, <<>>)),
                           !.waiter = FALSE,
                           !.mem.repoint = TRUE,
                           !.offered = ~waiter])

Repoint ==
    /\ mem.repoint
    /\ \E s \in DeliverForHandle([Now EXCEPT !.mem.repoint = FALSE]) : Becomes(s)

\* The re-check of a pane that was not settled: it asks that again, and nothing else.
Recheck(p) ==
    /\ p \in mem.recheck
    /\ \E s \in DeliverForLeaf([Now EXCEPT !.mem.recheck = @ \ {p}], p) : Becomes(s)

\* The probe before a delivery answers; a session proven absent gets nothing.
AfterProbe(p) ==
    LET over == [Now EXCEPT !.mem.probing = @ \ {p}]
    IN  /\ p \in mem.probing
        /\ \/ term[p].runs = 0 /\ Becomes(over)
           \/ \E s \in IF LiveIdle(Now, p) THEN Deliver(over, p, TRUE) ELSE {over} : Becomes(s)

-----------------------------------------------------------------------------
(* What the runtime sees of a session *)

IdleTitle(p) ==
    LET woken == IF mem.current[p] = 0 THEN Now
                 ELSE [Now EXCEPT !.mem.flights[mem.current[p]].step =
                                      IF @ = "held" THEN "probing" ELSE @]
        seen == [woken EXCEPT !.term[p].status = "idle"]
    IN  /\ term[p].writable /\ "idle" \in Titles
        /\ \/ Becomes([seen EXCEPT !.mem.recheck = @ \cup {p}])
           \/ \E s \in DeliverForLeaf([seen EXCEPT !.mem.recheck = @ \ {p}], p) : Becomes(s)
           \/ LiveIdle(Now, p) /\ Becomes(seen)

BusyTitle(p) ==
    /\ term[p].writable
    /\ \E status \in Titles \cap {"working", "permission"} :
         Becomes([(IF mem.current[p] # 0 THEN Now
                   ELSE [RetirePty(Now, p) EXCEPT !.rows = ReleasedForPty(@, p)])
                  EXCEPT !.term[p].status = status])

NeutralTitle(p) ==
    /\ term[p].writable /\ "none" \in Titles
    /\ Becomes([Now EXCEPT !.term[p].status = "none"])

Exit(p) ==
    /\ p \in Mortal /\ term[p].runs # 0
    /\ Becomes([Now EXCEPT !.term[p].runs = 0, !.term[p].exiting = TRUE,
                           !.keys.submitted = {k \in @ : k[2] # p}])

\* The session ends for the runtime; the owner's mailbox is repointed later.
Ended(s, p) ==
    [RetirePty(s, p) EXCEPT !.term[p].writable = FALSE, !.term[p].status = "unseen",
                            !.mem.repoint = @ \/ s.owner = p]

ReportExit(p) ==
    /\ term[p].exiting
    /\ Becomes(Ended([Now EXCEPT !.term[p].exiting = FALSE], p))

\* A respawn under the same session id.  An exit that is reported only now is that of a
\* process which is not the session's any more, and is dropped.
Register(p) ==
    /\ term[p].runs = 0 /\ term[p].known < MaxIncarnation
    /\ LateExits \/ ~term[p].exiting
    /\ Becomes([Now EXCEPT !.term[p] = [@ EXCEPT !.runs = term[p].known + 1, !.known = term[p].known + 1,
                                                !.writable = TRUE, !.exiting = FALSE]])

\* The connection of a remote session is lost, which the runtime sees as an exit, and
\* is there again; the process ran on.
Disconnect(p) ==
    /\ p \in Mortal /\ term[p].runs # 0 /\ term[p].writable
    /\ Becomes(Ended(Now, p))

Reconnect(p) ==
    /\ term[p].runs # 0 /\ ~term[p].writable
    /\ Becomes([Now EXCEPT !.term[p].writable = TRUE])

-----------------------------------------------------------------------------
(* The consumer *)

\* check --wait on an empty mailbox, and its end: woken, timed out or gone.
Wait == ~waiter /\ Unread(rows) = {} /\ Becomes([Now EXCEPT !.waiter = TRUE])
WaitEnds == waiter /\ Becomes([Now EXCEPT !.waiter = FALSE])

Check ==
    /\ outstanding = {} /\ Unread(rows) # {}
    /\ Becomes([Now EXCEPT !.outstanding = Unread(rows)])

\* Whether a row that was read had been delivered is asked by nobody.
Ack ==
    /\ outstanding # {}
    /\ Becomes([Now EXCEPT !.outstanding = {},
                           !.rows = On(@, outstanding, LAMBDA row : TRUE,
                                       LAMBDA row : Row(TRUE, TRUE, 0, <<>>))])

\* The run is bound to another pane, or to another terminal of its pane: a new generation
\* of consumers.  Another pane is to be pointed at the mail from the start.
Rebind(p) ==
    /\ LateProbes \/ mem.probing \subseteq {p}
    /\ Becomes([Now EXCEPT !.owner = p, !.outstanding = {},
                           !.keys.submitted = IF p = owner THEN @ ELSE {}])

-----------------------------------------------------------------------------
(* The runtime dies and starts again *)

\* Its memory is gone; the rows, the binding and the delivery are not, and neither are
\* the processes.
Restarted(s) ==
    /\ restarts < MaxRestarts
    /\ restarts' = restarts + 1
    /\ rows' = s.rows
    /\ waiter' = FALSE
    /\ mem' = [FreshMemory EXCEPT !.repoint = Offerable(s.rows) # {} \/ Pending(s.rows) # {}]
    /\ term' = [p \in Ptys |-> [term[p] EXCEPT !.writable = term[p].runs # 0, !.exiting = FALSE,
                                               !.status = "unseen"]]
    /\ UNCHANGED <<outstanding, owner, keys>>

RuntimeRestart == Restarted(Now)

\* It dies between the reservation of a batch and the note that its text is written.
CrashBeforeWrite(p) ==
    /\ owner = p /\ term[p].writable /\ mem.current[p] = 0 /\ ~mem.mark.active
    /\ outstanding = {} /\ ~waiter /\ Pending(rows) = {}
    /\ Offerable(rows) # {} /\ ~Refused(Now, p)
    /\ Restarted([Now EXCEPT !.rows = [m \in DOMAIN @ |-> IF m \in Offerable(rows)
                                         THEN Row(FALSE, FALSE, RESERVED, Known(Now, p)) ELSE @[m]]])

-----------------------------------------------------------------------------
FlightStep(f) == SettlePaste(f) \/ EnterTimer(f) \/ Submit(f) \/ SettleEnter(f)

Consumes == Wait \/ WaitEnds \/ Check \/ Ack \/ \E p \in Ptys : Rebind(p)

Next ==
    \/ \E f \in 1..MaxFlights : FlightStep(f)
    \/ Send \/ Repoint
    \/ \E p \in Ptys : \/ Recheck(p) \/ AfterProbe(p)
                       \/ IdleTitle(p) \/ BusyTitle(p) \/ NeutralTitle(p)
                       \/ Exit(p) \/ ReportExit(p) \/ Register(p)
                       \/ Disconnect(p) \/ Reconnect(p)
                       \/ CrashBeforeWrite(p)
    \/ Consumes
    \/ RuntimeRestart

Spec == Init /\ [][Next]_vars

-----------------------------------------------------------------------------
(* Properties *)

RowType == [read : BOOLEAN, delivered : BOOLEAN, phase : 0..3, at : Process]
FlightType ==
    [step : {"writing", "armed", "probing", "held", "entering"}, pty : Ptys,
     inc : 1..MaxIncarnation, batch : (SUBSET (1..MaxMessages)) \ {{}}, into : 0..MaxIncarnation]
TermType ==
    [runs : 0..MaxIncarnation, known : 1..MaxIncarnation, writable : BOOLEAN,
     status : {"unseen", "none", "idle", "working", "permission"},
     exiting : BOOLEAN]
MemType ==
    [flights : [1..MaxFlights -> {Free} \cup FlightType], current : [Ptys -> 0..MaxFlights],
     mark : {NoMark} \cup [pty : Ptys, seq : 1..MaxMessages, active : BOOLEAN], parked : SUBSET Ptys,
     reoffer : BOOLEAN, repoint : BOOLEAN,
     recheck : SUBSET Ptys, probing : SUBSET Ptys]

\* Every variable has the shape its code gives it, and a row names a process exactly
\* while its pointer is reserved.
TypeOK ==
    /\ rows \in Seq(RowType) /\ Len(rows) <= MaxMessages
    /\ \A m \in DOMAIN rows : rows[m].phase = 0 <=> rows[m].at = <<>>
    /\ outstanding \subseteq DOMAIN rows /\ owner \in Ptys /\ waiter \in BOOLEAN
    /\ term \in [Ptys -> TermType] /\ mem \in MemType
    /\ keys \in [submitted : SUBSET ((1..MaxMessages) \X Ptys), twice : BOOLEAN, stray : BOOLEAN]
    /\ restarts \in 0..MaxRestarts

\* No process gets Enter twice for the same message while its pane owns the mailbox:
\* "can be neither settled nor rolled back" pointers of a lost Enter, a crash or a lost
\* connection are never typed again into the process that may hold them
\* (mailbox-pointer-resume.ts:86-95, mailbox-pointer-submit.ts:124-125), unless a probe
\* outlived its binding (LateProbes) or its flight (LateAbsence).
EnterOncePerPointer == ~keys.twice

\* Enter is only pressed in a process that got the text: never in its replacement
\* under the same session id (orca-runtime-on-pty-exit.ts:173-175).
EnterFollowsItsText == ~keys.stray

\* The watermark that parks every other delivery of the mailbox stands for a flight
\* under way, and so does what is parked in a pane (mailbox-pointer-stage.ts:79).  The
\* unread rows of that flight are reserved for its process as long as that runs,
\* whatever was retired, released or resumed meanwhile, unless a probe outlived its
\* flight (LateAbsence).
FlightsAreWhole ==
    /\ mem.mark.active => \E f \in 1..MaxFlights :
                             mem.flights[f] # Free /\ IsCurrent(Now, f) /\ Marks(Now, f)
    /\ \A p \in mem.parked : mem.current[p] # 0
    /\ \A f \in 1..MaxFlights :
          /\ mem.flights[f] # Free /\ IsCurrent(Now, f)
          /\ term[mem.flights[f].pty].runs = mem.flights[f].inc
          =>  \A m \in mem.flights[f].batch \cap Unread(rows) :
                /\ rows[m].phase = IF mem.flights[f].step = "entering"
                                   THEN ENTER_ATTEMPTED ELSE WRITE_ATTEMPTED
                /\ rows[m].at = <<mem.flights[f].pty, mem.flights[f].inc>>

\* A pointer to pane p whose text or Enter may have arrived has kept its watermark.
InDoubtAt(p) == mem.mark # NoMark /\ ~mem.mark.active /\ mem.mark.pty = p

IdleEdge(p) == LiveIdle(Now, p)' /\ ~LiveIdle(Now, p)

\* A settled idle edge of the pane that owns the mailbox, nobody else taking its mail,
\* puts every row that may be pointed at on its way.  An edge that settles an older
\* pointer leaves newer mail to the next one.
EdgeOffers(p) ==
    IdleEdge(p) /\ owner = p /\ outstanding = {} /\ ~waiter =>
        \/ Offerable(rows') = {}
        \/ p \in mem'.recheck \cup mem'.probing
        \/ mem'.current[p] # 0
        \/ mem'.mark.active /\ mem'.reoffer
        \/ \E m \in Pending(rows) : rows'[m].delivered

\* The idle edge is what unread mail waits for when nothing else offers it
\* (orca-runtime-apply-tracked-pty-title.ts:135-152): it strands nothing, except
\* behind a pointer of that pane whose outcome is in doubt.
IdleEdgeOffersMail == [][\A p \in Ptys : ~InDoubtAt(p) => EdgeOffers(p)]_vars

\* "Persisted mail remains available to explicit check or a later idle edge"
\* (mailbox-pointer-delivery.ts:50), whatever the watermark remembers.
PersistedMailStaysAvailable == [][\A p \in Ptys : EdgeOffers(p)]_vars
=============================================================================
