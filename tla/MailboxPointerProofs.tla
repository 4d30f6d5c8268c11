------------------------ MODULE MailboxPointerProofs ------------------------
(***************************************************************************)
(* Theorems about the pointers of a run mailbox, for any number of panes,  *)
(* messages, processes, flights and restarts.                              *)
(*                                                                         *)
(* A handler that calls another is one step, so the invariant is stated of *)
(* a state record (Sound) and carried through the operators one by one;    *)
(* the actions compose them.  What two of the theorems need of the probes  *)
(* is a premise inside the invariant: the rest of it holds without.        *)
(***************************************************************************)
EXTENDS MailboxPointer, WellFoundedInduction, TLAPS

\* The greatest of a set of sequences is one of them.
LEMMA MaxOf ==
  ASSUME NEW S \in SUBSET (1 .. MaxMessages), S # {}
  PROVE  Max(S) \in S /\ \A k \in S : k <= Max(S)
<1> DEFINE T == {MaxMessages - k : k \in S}
<1>0. MaxMessages \in Nat /\ \A k \in S : k \in Nat /\ k <= MaxMessages
  BY PointerAssumption
<1>1. T \in SUBSET Nat /\ T # {}
  <2>1. \A k \in S : MaxMessages - k \in Nat
    <3> SUFFICES ASSUME NEW k \in S PROVE MaxMessages - k \in Nat
      OBVIOUS
    <3>1. MaxMessages \in Nat /\ k \in Nat /\ k <= MaxMessages
      BY <1>0
    <3> QED BY <3>1
  <2> QED BY <2>1
<1>2. PICK x \in T : \A y \in T : <<y, x>> \notin OpToRel(<, Nat)
  <2> HIDE DEF T
  <2> QED BY <1>1, NatLessThanWellFounded, WFMin
<1>3. \A y \in T : ~(y < x)
  <2> SUFFICES ASSUME NEW y \in T PROVE ~(y < x)
    OBVIOUS
  <2>1. x \in Nat /\ y \in Nat
    BY <1>1
  <2>2. <<y, x>> \notin OpToRel(<, Nat)
    BY <1>2
  <2> HIDE DEF T
  <2> QED BY <2>1, <2>2 DEF OpToRel
<1>4. PICK k \in S : x = MaxMessages - k
  OBVIOUS
<1>5. \A j \in S : j <= k
  <2> SUFFICES ASSUME NEW j \in S PROVE j <= k
    OBVIOUS
  <2>1. ~(MaxMessages - j < MaxMessages - k)
    BY <1>3, <1>4
  <2> HIDE DEF T
  <2>2. MaxMessages \in Nat /\ j \in Nat /\ k \in Nat
    BY <1>0
  <2> QED BY <2>1, <2>2
<1>6. \E j \in S : \A i \in S : j >= i
  BY <1>0, <1>5
<1>7. Max(S) \in S /\ \A i \in S : Max(S) >= i
  BY <1>6 DEF Max
<1> QED BY <1>0, <1>7

-----------------------------------------------------------------------------
(* The inductive invariant, of a state record *)

KeyType == [submitted : SUBSET ((1..MaxMessages) \X Ptys), twice : BOOLEAN, stray : BOOLEAN]

State == [rows : Seq(RowType), outstanding : SUBSET (1..MaxMessages), owner : Ptys, waiter : BOOLEAN,
          term : [Ptys -> TermType], mem : MemType, keys : KeyType, offered : BOOLEAN]

\* A reserved row is unread and undelivered, and only a reserved one names a process.
Tidy(rs) ==
    \A m \in DOMAIN rs : /\ rs[m].phase = 0 <=> rs[m].at = <<>>
                         /\ rs[m].phase > 0 => ~rs[m].read /\ ~rs[m].delivered

Typed(s) ==
    /\ s \in State
    /\ Len(s.rows) <= MaxMessages /\ s.outstanding \subseteq DOMAIN s.rows /\ Tidy(s.rows)
    /\ \A f \in 1..MaxFlights : s.mem.flights[f] # Free => s.mem.flights[f].batch \subseteq DOMAIN s.rows

\* All pointers that are pending are pending in one process.
Uniform(rs) == \A m, n \in DOMAIN rs : rs[m].phase > 0 /\ rs[n].phase > 0 => rs[m].at = rs[n].at

\* The process that runs is the one the runtime knows.
ProcessesKnown(s) == \A p \in Ptys : s.term[p].runs \in {0, s.term[p].known}

\* Text goes to the process it was reserved for or nowhere, and a flight that waits for
\* its Enter is one whose text arrived.
TextLands(s) ==
    \A f \in 1..MaxFlights : LET flight == s.mem.flights[f] IN
        flight # Free =>
            /\ flight.into \in {0, flight.inc}
            /\ flight.step \in {"armed", "probing", "held"} => flight.into = flight.inc

PanesFly(s) ==
    \A p \in Ptys : s.mem.current[p] # 0 =>
        s.mem.flights[s.mem.current[p]] # Free /\ s.mem.flights[s.mem.current[p]].pty = p

ParkedBehind(s) == \A p \in s.mem.parked : s.mem.current[p] # 0

ProbesOwner(s) == ~LateProbes => s.mem.probing \subseteq {s.owner}

NoStray(s) == ~s.keys.stray

Flying(s, f) == s.mem.flights[f] # Free /\ IsCurrent(s, f)

\* Flight x, when it is not 0, is about to end: what holds of flights holds of the others.
Others(x) == (1..MaxFlights) \ {x}

MarkStands(s, x) == s.mem.mark.active => \E f \in Others(x) : Flying(s, f) /\ Marks(s, f)

Whole(rs, flight) ==
    \A m \in flight.batch : ~rs[m].read =>
        /\ rs[m].phase = IF flight.step = "entering" THEN ENTER_ATTEMPTED ELSE WRITE_ATTEMPTED
        /\ rs[m].at = <<flight.pty, flight.inc>>

\* No flight that was retired answers for the rows and the watermark of a later one.
RetiredStaysRetired == ~LateAbsence \/ MaxFlights = 1

\* The watermark of a flight under way is active, so there is one such flight at most.
FlightsHold(s, x) ==
    RetiredStaysRetired =>
        \A f \in Others(x) : Flying(s, f) =>
            s.mem.mark.active /\ Marks(s, f) /\ Whole(s.rows, s.mem.flights[f])

\* Enter was pressed for this row, or the consumer has it: no flight may carry it again.
Past(row, at) == row.read \/ row.delivered \/ (row.phase = ENTER_ATTEMPTED /\ row.at = at)

EntersOnce(s) ==
    RetiredStaysRetired /\ ~LateProbes =>
        /\ ~s.keys.twice
        /\ \A k \in s.keys.submitted :
              /\ k[2] = s.owner /\ s.term[s.owner].runs # 0
              /\ k[1] \in DOMAIN s.rows /\ Past(s.rows[k[1]], Known(s, s.owner))

Sound(s, x) ==
    /\ Typed(s) /\ Uniform(s.rows) /\ ProcessesKnown(s) /\ TextLands(s)
    /\ PanesFly(s) /\ ParkedBehind(s) /\ ProbesOwner(s) /\ NoStray(s)
    /\ MarkStands(s, x) /\ FlightsHold(s, x) /\ EntersOnce(s)

IInv == Sound(Now, 0) /\ restarts \in 0..MaxRestarts

-----------------------------------------------------------------------------
(* What does not touch a pointer *)

\* Timers, the microtask, titles, waits and deliveries leave every part alone.
LEMMA Unpointed ==
  ASSUME NEW s, NEW x, NEW t \in State, Sound(s, x),
         t.rows = s.rows, t.owner = s.owner, t.keys = s.keys, t.outstanding \subseteq DOMAIN s.rows,
         t.mem.flights = s.mem.flights, t.mem.current = s.mem.current, t.mem.mark = s.mem.mark,
         t.mem.parked = s.mem.parked, t.mem.probing \subseteq s.mem.probing \cup {s.owner},
         \A p \in Ptys : t.term[p].runs = s.term[p].runs /\ t.term[p].known = s.term[p].known
  PROVE  Sound(t, x)
<1>0. s.owner \in Ptys
  BY DEF Sound, Typed, State
<1>1. Typed(t) /\ Uniform(t.rows)
  BY DEF Sound, Typed
<1>2. ProcessesKnown(t) /\ TextLands(t)
  BY DEF Sound, ProcessesKnown, TextLands
<1>3. PanesFly(t) /\ ParkedBehind(t) /\ ProbesOwner(t) /\ NoStray(t)
  BY DEF Sound, PanesFly, ParkedBehind, ProbesOwner, NoStray
<1>4. MarkStands(t, x)
  BY DEF Sound, MarkStands, Flying, IsCurrent, Marks
<1>5. FlightsHold(t, x)
  BY DEF Sound, FlightsHold, Flying, IsCurrent, Marks
<1>6. EntersOnce(t)
  BY <1>0 DEF Sound, EntersOnce, Known
<1> QED BY <1>1, <1>2, <1>3, <1>4, <1>5, <1>6 DEF Sound

LEMMA RedriveKeeps ==
  ASSUME NEW s, NEW x, NEW force \in BOOLEAN, Sound(s, x)
  PROVE  Sound(Redrive(s, force), x)
<1> DEFINE t == [s EXCEPT !.mem.reoffer = FALSE, !.offered = TRUE]
<1>0. s \in State /\ s.owner \in Ptys
  BY DEF Sound, Typed, State
<1>1. t \in State
  BY <1>0 DEF State, MemType
<1>2. /\ t.rows = s.rows /\ t.owner = s.owner /\ t.keys = s.keys /\ t.outstanding = s.outstanding
      /\ t.term = s.term
      /\ t.mem.flights = s.mem.flights /\ t.mem.current = s.mem.current /\ t.mem.mark = s.mem.mark
      /\ t.mem.parked = s.mem.parked /\ t.mem.probing = s.mem.probing
  BY <1>0 DEF State, MemType
<1>3. s.outstanding \subseteq DOMAIN s.rows
  BY DEF Sound, Typed
<1> HIDE DEF t
<1>4. Sound(t, x)
  BY <1>1, <1>2, <1>3, Unpointed
<1> QED BY <1>4 DEF Redrive, t

-----------------------------------------------------------------------------
(* The rows *)

LEMMA RowsMapped ==
  ASSUME NEW rs \in Seq(RowType), NEW out \in [DOMAIN rs -> RowType]
  PROVE  out \in Seq(RowType) /\ DOMAIN out = DOMAIN rs /\ Len(out) = Len(rs)
<1>1. DOMAIN rs = 1 .. Len(rs) /\ Len(rs) \in Nat
  OBVIOUS
<1>2. out \in [1 .. Len(rs) -> RowType]
  BY <1>1
<1> QED BY <1>1, <1>2

\* What may happen to rows that nobody reserves: those of ids are let go, or stay.
LetGo(rs, out, ids) ==
    /\ out \in Seq(RowType) /\ DOMAIN out = DOMAIN rs /\ Len(out) = Len(rs)
    /\ \A m \in DOMAIN rs :
          \/ out[m] = rs[m]
          \/ m \in ids /\ out[m].read = rs[m].read /\ out[m].phase = 0 /\ out[m].at = <<>>

LEMMA RowMade ==
  ASSUME NEW read \in BOOLEAN, NEW delivered \in BOOLEAN, NEW phase \in 0..3, NEW at \in Process
  PROVE  /\ Row(read, delivered, phase, at) \in RowType
         /\ Row(read, delivered, phase, at).read = read
         /\ Row(read, delivered, phase, at).delivered = delivered
         /\ Row(read, delivered, phase, at).phase = phase
         /\ Row(read, delivered, phase, at).at = at
BY DEF Row, RowType

LEMMA RowUnreserved ==
  ASSUME NEW row \in RowType, NEW delivered \in BOOLEAN
  PROVE  LET r == Unreserved(row, delivered) IN
         r \in RowType /\ r.read = row.read /\ r.delivered = delivered /\ r.phase = 0 /\ r.at = <<>>
<1>1. row.read \in BOOLEAN /\ <<>> \in Process /\ 0 \in 0..3
  BY DEF RowType, Process
<1> QED BY <1>1, RowMade DEF Unreserved

\* A map that lets some rows of ids go does what LetGo says.
LEMMA LettingGo ==
  ASSUME NEW rs \in Seq(RowType), NEW ids, NEW out, DOMAIN out = DOMAIN rs, out = [m \in DOMAIN rs |-> out[m]],
         \A m \in DOMAIN rs :
            out[m] = rs[m] \/ (m \in ids /\ \E d \in BOOLEAN : out[m] = Unreserved(rs[m], d))
  PROVE  LetGo(rs, out, ids)
<1>1. \A m \in DOMAIN rs : rs[m] \in RowType
  OBVIOUS
<1>2. \A m \in DOMAIN rs : out[m] \in RowType
  BY <1>1, RowUnreserved
<1>3. out \in [DOMAIN rs -> RowType]
  BY <1>2
<1>4. out \in Seq(RowType) /\ DOMAIN out = DOMAIN rs /\ Len(out) = Len(rs)
  BY <1>3, RowsMapped
<1>5. \A m \in DOMAIN rs :
          \/ out[m] = rs[m]
          \/ m \in ids /\ out[m].read = rs[m].read /\ out[m].phase = 0 /\ out[m].at = <<>>
  BY <1>1, RowUnreserved
<1> QED BY <1>4, <1>5 DEF LetGo

LEMMA SettledDoes ==
  ASSUME NEW rs \in Seq(RowType), NEW ids, NEW target, NEW phases
  PROVE  LET out == Settled(rs, ids, target, phases) IN
         /\ LetGo(rs, out, ids)
         /\ \A m \in DOMAIN rs :
               IF m \in ids /\ rs[m].at = target /\ rs[m].phase \in phases
               THEN out[m].delivered ELSE out[m] = rs[m]
<1> DEFINE out == Settled(rs, ids, target, phases)
<1>1. out = [m \in DOMAIN rs |-> IF m \in ids /\ rs[m].at = target /\ rs[m].phase \in phases
                                 THEN Unreserved(rs[m], TRUE) ELSE rs[m]]
  BY DEF Settled, On
<1>2. \A m \in DOMAIN rs : rs[m] \in RowType
  OBVIOUS
<1>3. LetGo(rs, out, ids)
  <2> HIDE DEF out
  <2>1. \A m \in DOMAIN rs :
            out[m] = rs[m] \/ (m \in ids /\ \E d \in BOOLEAN : out[m] = Unreserved(rs[m], d))
    BY <1>1
  <2> QED BY <1>1, <2>1, LettingGo
<1> HIDE DEF out
<1>4. \A m \in DOMAIN rs :
         IF m \in ids /\ rs[m].at = target /\ rs[m].phase \in phases
         THEN out[m].delivered ELSE out[m] = rs[m]
  BY <1>1, <1>2, RowUnreserved
<1> QED BY <1>3, <1>4 DEF out

LEMMA ReleasedDoes ==
  ASSUME NEW rs \in Seq(RowType), NEW ids, NEW target, NEW phases
  PROVE  LET out == Released(rs, ids, target, phases) IN
         /\ LetGo(rs, out, ids)
         /\ \A m \in DOMAIN rs :
               ~(m \in ids /\ ~rs[m].read /\ rs[m].at = target /\ rs[m].phase \in phases)
               => out[m] = rs[m]
<1> DEFINE out == Released(rs, ids, target, phases)
<1>1. out = [m \in DOMAIN rs |-> IF m \in ids /\ ~rs[m].read /\ rs[m].at = target /\ rs[m].phase \in phases
                                 THEN Unreserved(rs[m], FALSE) ELSE rs[m]]
  BY DEF Released, On
<1>3. LetGo(rs, out, ids)
  <2> HIDE DEF out
  <2>1. \A m \in DOMAIN rs :
            out[m] = rs[m] \/ (m \in ids /\ \E d \in BOOLEAN : out[m] = Unreserved(rs[m], d))
    BY <1>1
  <2> QED BY <1>1, <2>1, LettingGo
<1> QED BY <1>1, <1>3

LEMMA MarkedDeliveredDoes ==
  ASSUME NEW rs \in Seq(RowType), NEW ids
  PROVE  LET out == MarkedDelivered(rs, ids) IN
         /\ LetGo(rs, out, ids)
         /\ \A m \in DOMAIN rs : IF m \in ids THEN out[m].delivered ELSE out[m] = rs[m]
<1> DEFINE out == MarkedDelivered(rs, ids)
<1>1. out = [m \in DOMAIN rs |-> IF m \in ids THEN Unreserved(rs[m], TRUE) ELSE rs[m]]
  BY DEF MarkedDelivered, On
<1>2. \A m \in DOMAIN rs : rs[m] \in RowType
  OBVIOUS
<1>3. LetGo(rs, out, ids)
  <2> HIDE DEF out
  <2>1. \A m \in DOMAIN rs :
            out[m] = rs[m] \/ (m \in ids /\ \E d \in BOOLEAN : out[m] = Unreserved(rs[m], d))
    BY <1>1
  <2> QED BY <1>1, <2>1, LettingGo
<1> HIDE DEF out
<1>4. \A m \in DOMAIN rs : IF m \in ids THEN out[m].delivered ELSE out[m] = rs[m]
  BY <1>1, <1>2, RowUnreserved
<1> QED BY <1>3, <1>4 DEF out

LEMMA MarkedUndeliveredDoes ==
  ASSUME NEW rs \in Seq(RowType), NEW ids
  PROVE  LET out == MarkedUndelivered(rs, ids) IN
         /\ LetGo(rs, out, ids)
         /\ \A m \in DOMAIN rs : IF m \in ids /\ ~rs[m].read THEN out[m].phase = 0 ELSE out[m] = rs[m]
<1> DEFINE out == MarkedUndelivered(rs, ids)
<1>1. out = [m \in DOMAIN rs |-> IF m \in ids /\ ~rs[m].read THEN Unreserved(rs[m], FALSE) ELSE rs[m]]
  BY DEF MarkedUndelivered, On
<1>2. \A m \in DOMAIN rs : rs[m] \in RowType
  OBVIOUS
<1>3. LetGo(rs, out, ids)
  <2> HIDE DEF out
  <2>1. \A m \in DOMAIN rs :
            out[m] = rs[m] \/ (m \in ids /\ \E d \in BOOLEAN : out[m] = Unreserved(rs[m], d))
    BY <1>1
  <2> QED BY <1>1, <2>1, LettingGo
<1> HIDE DEF out
<1>4. \A m \in DOMAIN rs : IF m \in ids /\ ~rs[m].read THEN out[m].phase = 0 ELSE out[m] = rs[m]
  BY <1>1, <1>2, RowUnreserved
<1> QED BY <1>3, <1>4 DEF out

LEMMA ReleasedForPtyDoes ==
  ASSUME NEW rs \in Seq(RowType), NEW p
  PROVE  LET out == ReleasedForPty(rs, p) IN
         /\ LetGo(rs, out, {m \in DOMAIN rs : rs[m].at[1] = p})
         /\ \A m \in DOMAIN rs :
               \/ out[m] = rs[m]
               \/ rs[m].phase > 0 /\ (rs[m].phase # RESERVED /\ ~rs[m].read => out[m].delivered)
<1> DEFINE out == ReleasedForPty(rs, p)
           ids == {m \in DOMAIN rs : rs[m].at[1] = p}
<1>1. out = [m \in DOMAIN rs |->
               IF m \in DOMAIN rs /\ rs[m].phase > 0 /\ rs[m].at[1] = p
               THEN Unreserved(rs[m], IF rs[m].read THEN rs[m].delivered ELSE rs[m].phase # RESERVED)
               ELSE rs[m]]
  BY DEF ReleasedForPty, On
<1>2. \A m \in DOMAIN rs : rs[m] \in RowType
  OBVIOUS
<1>3. \A m \in DOMAIN rs :
         (IF rs[m].read THEN rs[m].delivered ELSE rs[m].phase # RESERVED) \in BOOLEAN
  BY <1>2 DEF RowType
<1>4. LetGo(rs, out, ids)
  <2>1. \A m \in DOMAIN rs :
            out[m] = rs[m] \/ (m \in ids /\ \E d \in BOOLEAN : out[m] = Unreserved(rs[m], d))
    <3> HIDE DEF out
    <3> QED BY <1>1, <1>3
  <2> HIDE DEF out, ids
  <2> QED BY <1>1, <2>1, LettingGo
<1>5. \A m \in DOMAIN rs :
         \/ out[m] = rs[m]
         \/ rs[m].phase > 0 /\ (rs[m].phase # RESERVED /\ ~rs[m].read => out[m].delivered)
  <2> HIDE DEF out
  <2> SUFFICES ASSUME NEW m \in DOMAIN rs, out[m] # rs[m]
               PROVE  rs[m].phase > 0 /\ (rs[m].phase # RESERVED /\ ~rs[m].read => out[m].delivered)
    OBVIOUS
  <2>1. rs[m].phase > 0
    BY <1>1
  <2>2. ASSUME rs[m].phase # RESERVED, ~rs[m].read PROVE out[m].delivered
    <3>1. out[m] = Unreserved(rs[m], TRUE)
      BY <1>1, <1>2, <2>2 DEF RowType
    <3> QED BY <1>2, <3>1, RowUnreserved
  <2> QED BY <2>1, <2>2
<1> QED BY <1>4, <1>5 DEF out, ids

\* Rows let go are tidy and pending in one process if they were.
LEMMA LetGoKeeps ==
  ASSUME NEW rs \in Seq(RowType), NEW out, NEW ids, LetGo(rs, out, ids), Tidy(rs), Uniform(rs)
  PROVE  Tidy(out) /\ Uniform(out)
BY DEF LetGo, Tidy, Uniform

-----------------------------------------------------------------------------
(* Pointing *)

LEMMA KnownType ==
  ASSUME NEW s \in State, NEW p \in Ptys
  PROVE  /\ Known(s, p) \in Process /\ Known(s, p) # <<>> /\ Known(s, p) = <<p, s.term[p].known>>
         /\ s.term[p].known \in 1..MaxIncarnation /\ s.term[p].runs \in 0..MaxIncarnation
<1>1. s.term[p] \in TermType
  BY DEF State
<1>2. s.term[p].known \in 1..MaxIncarnation /\ s.term[p].runs \in 0..MaxIncarnation
  BY <1>1 DEF TermType
<1> QED BY <1>2 DEF Known, Process

LEMMA StageKeeps ==
  ASSUME NEW s, NEW p \in Ptys, Sound(s, 0), s.mem.current[p] = 0, ~s.mem.mark.active,
         Offerable(s.rows) # {}, \A m \in DOMAIN s.rows : s.rows[m].phase = 0,
         NEW t \in Stage(s, p)
  PROVE  Sound(t, 0)
<1> DEFINE batch == Offerable(s.rows)
           out == [m \in DOMAIN s.rows |-> IF m \in batch
                        THEN Row(FALSE, FALSE, WRITE_ATTEMPTED, Known(s, p)) ELSE s.rows[m]]
           flight(into) == [step |-> "writing", pty |-> p, inc |-> s.term[p].known,
                            batch |-> batch, into |-> into]
           mark == [pty |-> p, seq |-> Max(batch), active |-> TRUE]
<1>0. s \in State /\ Typed(s) /\ s.rows \in Seq(RowType) /\ Len(s.rows) <= MaxMessages
  BY DEF Sound, Typed, State
<1>1. PICK f \in FreeFlights(s), into \in {0, s.term[p].runs} :
         t = [s EXCEPT !.rows = out, !.mem.flights[f] = flight(into), !.mem.current[p] = f, !.mem.mark = mark]
  <2>1. PICK f \in FreeFlights(s), into \in {0, s.term[p].runs} : t = Staged(s, p, f, into)
    BY DEF Stage
  <2>2. t = [s EXCEPT !.rows = out, !.mem.flights[f] = flight(into), !.mem.current[p] = f, !.mem.mark = mark]
    BY <2>1 DEF Staged
  <2> HIDE DEF batch, out, flight, mark
  <2> QED BY <2>2
<1>2. f \in 1..MaxFlights /\ s.mem.flights[f] = Free /\ f # 0 /\ f \in 0..MaxFlights
  BY PointerAssumption DEF FreeFlights
<1>3. batch \subseteq DOMAIN s.rows /\ batch # {} /\ batch \in SUBSET (1..MaxMessages) /\ DOMAIN s.rows \subseteq 1..MaxMessages
  <2>1. batch \subseteq DOMAIN s.rows /\ DOMAIN s.rows = 1..Len(s.rows) /\ Len(s.rows) \in Nat
    BY <1>0 DEF Offerable, Unread
  <2> HIDE DEF batch
  <2>2. MaxMessages \in Nat
    BY PointerAssumption
  <2>3. DOMAIN s.rows \subseteq 1..MaxMessages
    BY <1>0, <2>1, <2>2
  <2>4. batch # {}
    BY DEF batch
  <2> QED BY <2>1, <2>3, <2>4
<1>4. \A m \in batch : ~s.rows[m].read /\ ~s.rows[m].delivered
  BY DEF Offerable, Unread
<1>5. Max(batch) \in batch
  BY <1>3, MaxOf
<1>6. out \in Seq(RowType) /\ DOMAIN out = DOMAIN s.rows /\ Len(out) = Len(s.rows)
  <2>1. Row(FALSE, FALSE, WRITE_ATTEMPTED, Known(s, p)) \in RowType
    <3>1. Known(s, p) \in Process /\ WRITE_ATTEMPTED \in 0..3
      BY <1>0, KnownType DEF WRITE_ATTEMPTED
    <3> QED BY <3>1, RowMade
  <2>2. \A m \in DOMAIN s.rows : s.rows[m] \in RowType
    BY <1>0
  <2>3. out \in [DOMAIN s.rows -> RowType]
    BY <2>1, <2>2
  <2> HIDE DEF out
  <2> QED BY <1>0, <2>3, RowsMapped
<1>7. \A m \in DOMAIN s.rows :
         IF m \in batch THEN ~out[m].read /\ ~out[m].delivered /\ out[m].phase = WRITE_ATTEMPTED
                             /\ out[m].at = Known(s, p)
         ELSE out[m] = s.rows[m]
  <2>1. LET r == Row(FALSE, FALSE, WRITE_ATTEMPTED, Known(s, p)) IN
        ~r.read /\ ~r.delivered /\ r.phase = WRITE_ATTEMPTED /\ r.at = Known(s, p)
    BY DEF Row
  <2> HIDE DEF batch
  <2> QED BY <2>1
<1>8. into \in 0..MaxIncarnation /\ into \in {0, s.term[p].known}
  BY <1>0, KnownType, PointerAssumption DEF Sound, ProcessesKnown
<1>9. flight(into) \in FlightType /\ flight(into) # Free /\ flight(into).pty = p /\ flight(into).batch = batch
      /\ flight(into).step = "writing" /\ flight(into).inc = s.term[p].known /\ flight(into).into = into
  <2>1. batch \in SUBSET (1..MaxMessages) /\ batch # {}
    BY <1>3
  <2>2. s.term[p].known \in 1..MaxIncarnation
    BY <1>0, KnownType
  <2> HIDE DEF batch
  <2>3. flight(into) \in FlightType
    <3>1. batch \in (SUBSET (1..MaxMessages)) \ {{}}
      BY <2>1
    <3>2. p \in Ptys /\ into \in 0..MaxIncarnation
      BY <1>8
    <3> QED BY <2>2, <3>1, <3>2 DEF FlightType
  <2> QED BY <2>3 DEF Free
<1>10. mark \in [pty : Ptys, seq : 1..MaxMessages, active : BOOLEAN] /\ mark # NoMark
       /\ mark.active /\ mark.pty = p /\ mark.seq = Max(batch)
  <2>1. Max(batch) \in 1..MaxMessages
    BY <1>3, <1>5
  <2> HIDE DEF batch
  <2> QED BY <2>1 DEF NoMark
<1> DEFINE fl == flight(into)
<1> HIDE DEF out, batch, mark, flight
<1>11. /\ t.rows = out /\ t.owner = s.owner /\ t.keys = s.keys /\ t.outstanding = s.outstanding
       /\ t.term = s.term /\ t.waiter = s.waiter /\ t.offered = s.offered
       /\ t.mem.flights = [s.mem.flights EXCEPT ![f] = fl]
       /\ t.mem.current = [s.mem.current EXCEPT ![p] = f] /\ t.mem.mark = mark
       /\ t.mem.parked = s.mem.parked /\ t.mem.probing = s.mem.probing
       /\ t.mem.reoffer = s.mem.reoffer /\ t.mem.repoint = s.mem.repoint /\ t.mem.recheck = s.mem.recheck
  BY <1>0, <1>1 DEF State, MemType
<1>12. t \in State
  <2>1. s.mem.flights \in [1..MaxFlights -> {Free} \cup FlightType] /\ s.mem.current \in [Ptys -> 0..MaxFlights]
    BY <1>0 DEF State, MemType
  <2>2. t.mem.flights \in [1..MaxFlights -> {Free} \cup FlightType] /\ t.mem.current \in [Ptys -> 0..MaxFlights]
    BY <1>2, <1>9, <1>11, <2>1
  <2>3. t.mem \in MemType
    BY <1>0, <1>1, <1>10, <1>11, <2>2 DEF State, MemType
  <2> QED BY <1>0, <1>1, <1>6, <1>11, <2>3 DEF State
<1>13. s.mem.flights \in [1..MaxFlights -> {Free} \cup FlightType] /\ s.mem.current \in [Ptys -> 0..MaxFlights]
  BY <1>0 DEF State, MemType
<1>14. /\ t.mem.flights[f] = fl /\ \A g \in 1..MaxFlights : g # f => t.mem.flights[g] = s.mem.flights[g]
       /\ t.mem.current[p] = f /\ \A q \in Ptys : q # p => t.mem.current[q] = s.mem.current[q]
  BY <1>2, <1>11, <1>13
<1>15. \A g \in 1..MaxFlights : g # f /\ Flying(t, g) => Flying(s, g)
  <2> SUFFICES ASSUME NEW g \in 1..MaxFlights, g # f, Flying(t, g) PROVE Flying(s, g)
    OBVIOUS
  <2>1. t.mem.flights[g] = s.mem.flights[g] /\ s.mem.flights[g] # Free
    BY <1>14 DEF Flying
  <2>2. s.mem.flights[g].pty \in Ptys
    BY <1>13, <2>1 DEF FlightType
  <2>3. t.mem.current[s.mem.flights[g].pty] = g
    BY <2>1 DEF Flying, IsCurrent
  <2>4. s.mem.flights[g].pty # p
    BY <1>14, <2>3
  <2> QED BY <1>14, <2>1, <2>2, <2>3, <2>4 DEF Flying, IsCurrent
<1>16. Typed(t)
  <2>1. Tidy(t.rows)
    BY <1>0, <1>6, <1>7, <1>11, KnownType DEF Typed, Tidy, WRITE_ATTEMPTED
  <2>2. \A g \in 1..MaxFlights : t.mem.flights[g] # Free => t.mem.flights[g].batch \subseteq DOMAIN t.rows
    BY <1>0, <1>3, <1>6, <1>9, <1>11, <1>14 DEF Typed
  <2> QED BY <1>0, <1>6, <1>11, <1>12, <2>1, <2>2 DEF Typed
<1>17. Uniform(t.rows)
  BY <1>6, <1>7, <1>11 DEF Uniform
<1>18. ProcessesKnown(t) /\ TextLands(t)
  BY <1>8, <1>9, <1>11, <1>14 DEF Sound, ProcessesKnown, TextLands
<1>19. PanesFly(t) /\ ParkedBehind(t) /\ ProbesOwner(t) /\ NoStray(t)
  <2>1. PanesFly(t)
    <3> SUFFICES ASSUME NEW q \in Ptys, t.mem.current[q] # 0
                 PROVE  t.mem.flights[t.mem.current[q]] # Free /\ t.mem.flights[t.mem.current[q]].pty = q
      BY DEF PanesFly
    <3>1. CASE q = p
      BY <1>9, <1>14, <3>1
    <3>2. CASE q # p
      BY <1>2, <1>13, <1>14, <3>2 DEF Sound, PanesFly
    <3> QED BY <3>1, <3>2
  <2>2. ParkedBehind(t)
    <3>1. s.mem.parked \subseteq Ptys
      BY <1>0 DEF State, MemType
    <3> QED BY <1>2, <1>11, <1>14, <3>1 DEF Sound, ParkedBehind
  <2> QED BY <1>11, <2>1, <2>2 DEF Sound, ProbesOwner, NoStray
<1>20. Flying(t, f) /\ Marks(t, f)
  BY <1>9, <1>10, <1>11, <1>14 DEF Flying, IsCurrent, Marks
<1>21. MarkStands(t, 0)
  BY <1>2, <1>20 DEF MarkStands, Others
<1>22. FlightsHold(t, 0)
  <2> SUFFICES ASSUME RetiredStaysRetired, NEW g \in Others(0), Flying(t, g)
               PROVE  t.mem.mark.active /\ Marks(t, g) /\ Whole(t.rows, t.mem.flights[g])
    BY DEF FlightsHold
  <2>1. g = f
    BY <1>15 DEF Sound, FlightsHold, Others
  <2>2. Whole(t.rows, fl)
    BY <1>3, <1>7, <1>9, <1>11 DEF Whole, Known
  <2> QED BY <1>10, <1>11, <1>14, <1>20, <2>1, <2>2
<1>23. EntersOnce(t)
  <2> SUFFICES ASSUME RetiredStaysRetired, ~LateProbes, EntersOnce(s)
               PROVE  EntersOnce(t)
    BY DEF Sound, EntersOnce
  <2>1. \A k \in s.keys.submitted : k[1] \in DOMAIN s.rows /\ Past(s.rows[k[1]], Known(s, s.owner))
    BY DEF EntersOnce
  <2>2. \A m \in batch : ~Past(s.rows[m], Known(s, s.owner))
    BY <1>3, <1>4 DEF Past, ENTER_ATTEMPTED
  <2>3. \A k \in s.keys.submitted : out[k[1]] = s.rows[k[1]]
    BY <1>7, <2>1, <2>2
  <2> QED BY <1>6, <1>11, <2>1, <2>3 DEF EntersOnce, Known
<1> QED BY <1>16, <1>17, <1>18, <1>19, <1>21, <1>22, <1>23 DEF Sound

\* Rows of no other flight are let go, and none for which Enter was pressed is undone.
LEMMA RowsKeep ==
  ASSUME NEW s, NEW x, NEW t \in State, NEW ids, Sound(s, x), LetGo(s.rows, t.rows, ids),
         t.outstanding = s.outstanding, t.owner = s.owner, t.keys = s.keys, t.term = s.term, t.mem = s.mem,
         RetiredStaysRetired =>
            \A f \in Others(x) : Flying(s, f) =>
               \A m \in s.mem.flights[f].batch : t.rows[m] = s.rows[m],
         RetiredStaysRetired /\ ~LateProbes =>
            \A m \in DOMAIN s.rows :
               t.rows[m] = s.rows[m] \/ t.rows[m].delivered \/ ~Past(s.rows[m], Known(s, s.owner))
  PROVE  Sound(t, x)
<1>0. s \in State /\ Typed(s) /\ s.rows \in Seq(RowType)
  BY DEF Sound, Typed, State
<1>1. Tidy(t.rows) /\ Uniform(t.rows) /\ DOMAIN t.rows = DOMAIN s.rows /\ Len(t.rows) = Len(s.rows)
  BY <1>0, LetGoKeeps DEF Sound, Typed, LetGo
<1>2. Typed(t)
  BY <1>0, <1>1 DEF Typed
<1>3. ProcessesKnown(t) /\ TextLands(t)
  BY DEF Sound, ProcessesKnown, TextLands
<1>4. PanesFly(t) /\ ParkedBehind(t) /\ ProbesOwner(t) /\ NoStray(t)
  BY DEF Sound, PanesFly, ParkedBehind, ProbesOwner, NoStray
<1>5. MarkStands(t, x)
  BY DEF Sound, MarkStands, Flying, IsCurrent, Marks
<1>6. FlightsHold(t, x)
  <2> SUFFICES ASSUME RetiredStaysRetired, NEW f \in Others(x), Flying(t, f)
               PROVE  t.mem.mark.active /\ Marks(t, f) /\ Whole(t.rows, t.mem.flights[f])
    BY DEF FlightsHold
  <2>1. Flying(s, f)
    BY DEF Flying, IsCurrent
  <2>2. s.mem.mark.active /\ Marks(s, f) /\ Whole(s.rows, s.mem.flights[f])
    BY <2>1 DEF Sound, FlightsHold
  <2>3. \A m \in s.mem.flights[f].batch : t.rows[m] = s.rows[m]
    BY <2>1
  <2>4. Whole(t.rows, t.mem.flights[f])
    BY <2>2, <2>3 DEF Whole
  <2> QED BY <2>2, <2>4 DEF Marks
<1>7. EntersOnce(t)
  <2> SUFFICES ASSUME RetiredStaysRetired, ~LateProbes, EntersOnce(s) PROVE EntersOnce(t)
    BY DEF Sound, EntersOnce
  <2>1. ASSUME NEW k \in s.keys.submitted PROVE Past(t.rows[k[1]], Known(s, s.owner))
    <3>1. k[1] \in DOMAIN s.rows /\ Past(s.rows[k[1]], Known(s, s.owner))
      BY DEF EntersOnce
    <3>2. t.rows[k[1]] = s.rows[k[1]] \/ t.rows[k[1]].delivered
      BY <3>1
    <3> QED BY <3>1, <3>2 DEF Past
  <2> QED BY <1>1, <2>1 DEF EntersOnce, Known
<1> QED BY <1>1, <1>2, <1>3, <1>4, <1>5, <1>6, <1>7 DEF Sound

\* The watermark goes, or stands for nothing more, when no other flight needs it.
LEMMA MarkGone ==
  ASSUME NEW s, NEW x, NEW y, NEW mark \in {NoMark} \cup [pty : Ptys, seq : 1..MaxMessages, active : {FALSE}],
         Sound(s, y), RetiredStaysRetired => \A f \in Others(x) : ~Flying(s, f)
  PROVE  Sound([s EXCEPT !.mem.mark = mark], x)
<1> DEFINE t == [s EXCEPT !.mem.mark = mark]
<1>0. s \in State /\ Typed(s)
  BY DEF Sound, Typed
<1>1. mark \in {NoMark} \cup [pty : Ptys, seq : 1..MaxMessages, active : BOOLEAN] /\ mark.active = FALSE
  <2>1. CASE mark = NoMark
    BY <2>1 DEF NoMark
  <2>2. CASE mark \in [pty : Ptys, seq : 1..MaxMessages, active : {FALSE}]
    BY <2>2
  <2> QED BY <2>1, <2>2
<1>2. t \in State
  BY <1>0, <1>1 DEF State, MemType
<1>3. /\ t.rows = s.rows /\ t.outstanding = s.outstanding /\ t.owner = s.owner /\ t.keys = s.keys
      /\ t.term = s.term /\ t.mem.flights = s.mem.flights /\ t.mem.current = s.mem.current
      /\ t.mem.parked = s.mem.parked /\ t.mem.probing = s.mem.probing /\ t.mem.mark.active = FALSE
  BY <1>0, <1>1 DEF State, MemType
<1> HIDE DEF t
<1>4. Typed(t) /\ Uniform(t.rows) /\ ProcessesKnown(t) /\ TextLands(t)
  BY <1>2, <1>3 DEF Sound, Typed, ProcessesKnown, TextLands
<1>5. PanesFly(t) /\ ParkedBehind(t) /\ ProbesOwner(t) /\ NoStray(t)
  BY <1>3 DEF Sound, PanesFly, ParkedBehind, ProbesOwner, NoStray
<1>6. MarkStands(t, x)
  BY <1>3 DEF MarkStands
<1>7. FlightsHold(t, x)
  BY <1>3 DEF FlightsHold, Flying, IsCurrent
<1>8. EntersOnce(t)
  BY <1>3 DEF Sound, EntersOnce, Known
<1> QED BY <1>4, <1>5, <1>6, <1>7, <1>8 DEF Sound, t

LEMMA ClearMarkKeeps ==
  ASSUME NEW s, NEW x, NEW y, Sound(s, y), RetiredStaysRetired => \A f \in Others(x) : ~Flying(s, f)
  PROVE  Sound(ClearMark(s), x)
BY MarkGone DEF ClearMark

LEMMA DeactivateMarkKeeps ==
  ASSUME NEW s, NEW x, NEW y, Sound(s, y), s.mem.mark # NoMark,
         RetiredStaysRetired => \A f \in Others(x) : ~Flying(s, f)
  PROVE  Sound(DeactivateMark(s), x)
<1> DEFINE mark == [s.mem.mark EXCEPT !.active = FALSE]
<1>0. s \in State
  BY DEF Sound, Typed
<1>1. s.mem.mark \in [pty : Ptys, seq : 1..MaxMessages, active : BOOLEAN]
  BY <1>0 DEF State, MemType
<1>2. mark \in [pty : Ptys, seq : 1..MaxMessages, active : {FALSE}]
  BY <1>1
<1>3. DeactivateMark(s) = [s EXCEPT !.mem.mark = mark]
  BY <1>0, <1>1 DEF DeactivateMark, State, MemType
<1> HIDE DEF mark
<1>4. mark \in {NoMark} \cup [pty : Ptys, seq : 1..MaxMessages, active : {FALSE}]
  BY <1>2
<1>5. Sound([s EXCEPT !.mem.mark = mark], x)
  BY <1>4, MarkGone
<1> QED BY <1>3, <1>5

\* Flight f moves on within its pane.
LEMMA FlightMoves ==
  ASSUME NEW s, NEW x, Sound(s, x), NEW f \in 1..MaxFlights, s.mem.flights[f] # Free,
         s.mem.flights[f].step # "entering", NEW step \in {"armed", "probing", "held"},
         s.mem.flights[f].into = s.mem.flights[f].inc
  PROVE  Sound([s EXCEPT !.mem.flights[f].step = step], x)
<1> DEFINE t == [s EXCEPT !.mem.flights[f].step = step]
           moved == [s.mem.flights[f] EXCEPT !.step = step]
<1>0. s \in State /\ Typed(s)
  BY DEF Sound, Typed
<1>1. s.mem.flights[f] \in FlightType
  BY <1>0 DEF State, MemType
<1>2. /\ moved \in FlightType /\ moved # Free /\ moved.step = step
      /\ moved.pty = s.mem.flights[f].pty /\ moved.inc = s.mem.flights[f].inc
      /\ moved.batch = s.mem.flights[f].batch /\ moved.into = s.mem.flights[f].into
  BY <1>1 DEF FlightType, Free
<1> HIDE DEF moved
<1>3. /\ t.rows = s.rows /\ t.outstanding = s.outstanding /\ t.owner = s.owner /\ t.keys = s.keys
      /\ t.term = s.term /\ t.mem.flights = [s.mem.flights EXCEPT ![f] = moved]
      /\ t.mem.current = s.mem.current /\ t.mem.mark = s.mem.mark
      /\ t.mem.parked = s.mem.parked /\ t.mem.probing = s.mem.probing
  BY <1>0 DEF State, MemType, moved
<1>4. s.mem.flights \in [1..MaxFlights -> {Free} \cup FlightType] /\ s.mem.current \in [Ptys -> 0..MaxFlights]
  BY <1>0 DEF State, MemType
<1>5. /\ t.mem.flights \in [1..MaxFlights -> {Free} \cup FlightType]
      /\ t.mem.flights[f] = moved
      /\ \A g \in 1..MaxFlights : g # f => t.mem.flights[g] = s.mem.flights[g]
  <2> HIDE DEF t
  <2> QED BY <1>2, <1>3, <1>4
<1>6. t \in State
  <2>1. t.mem = [s.mem EXCEPT !.flights = [s.mem.flights EXCEPT ![f] = moved]]
    BY <1>0 DEF State, MemType, moved
  <2>2. t.mem \in MemType
    BY <1>0, <1>3, <1>5, <2>1 DEF State, MemType
  <2>3. t = [s EXCEPT !.mem = t.mem]
    BY <1>0, <2>1 DEF State, MemType, moved
  <2> QED BY <1>0, <2>2, <2>3 DEF State
<1> HIDE DEF t
<1>7. \A g \in 1..MaxFlights : /\ t.mem.flights[g] = Free <=> s.mem.flights[g] = Free
                               /\ s.mem.flights[g] # Free => t.mem.flights[g].pty = s.mem.flights[g].pty
                                                          /\ t.mem.flights[g].batch = s.mem.flights[g].batch
  BY <1>2, <1>5
<1>8. Typed(t) /\ Uniform(t.rows) /\ ProcessesKnown(t)
  BY <1>3, <1>6, <1>7 DEF Sound, Typed, ProcessesKnown
<1>9. TextLands(t)
  BY <1>2, <1>5 DEF Sound, TextLands
<1>10. PanesFly(t)
  BY <1>3, <1>4, <1>7 DEF Sound, PanesFly
<1>11. ParkedBehind(t) /\ ProbesOwner(t) /\ NoStray(t)
  BY <1>3 DEF Sound, ParkedBehind, ProbesOwner, NoStray
<1>12. \A g \in 1..MaxFlights : (Flying(t, g) <=> Flying(s, g)) /\ (Flying(s, g) => (Marks(t, g) <=> Marks(s, g)))
  BY <1>3, <1>7 DEF Flying, IsCurrent, Marks
<1>13. MarkStands(t, x)
  BY <1>3, <1>12 DEF Sound, MarkStands, Others
<1>14. FlightsHold(t, x)
  <2> SUFFICES ASSUME RetiredStaysRetired, NEW g \in Others(x), Flying(t, g)
               PROVE  t.mem.mark.active /\ Marks(t, g) /\ Whole(t.rows, t.mem.flights[g])
    BY DEF FlightsHold
  <2>1. Flying(s, g) /\ s.mem.mark.active /\ Marks(s, g) /\ Whole(s.rows, s.mem.flights[g])
    BY <1>12 DEF Sound, FlightsHold, Others
  <2>2. Whole(t.rows, t.mem.flights[g])
    <3>1. CASE g = f
      BY <1>2, <1>3, <1>5, <2>1, <3>1 DEF Whole
    <3>2. CASE g # f
      BY <1>3, <1>5, <2>1, <3>2 DEF Whole, Others
    <3> QED BY <3>1, <3>2
  <2> QED BY <1>3, <1>12, <2>1, <2>2 DEF Others
<1>15. EntersOnce(t)
  BY <1>3 DEF Sound, EntersOnce, Known
<1> QED BY <1>8, <1>9, <1>10, <1>11, <1>13, <1>14, <1>15 DEF Sound, t

\* A state like s but for what no pointer hangs on.
LEMMA ProbingKeeps ==
  ASSUME NEW s, NEW p \in Ptys, Sound(s, 0), LateProbes \/ p = s.owner
  PROVE  Sound([s EXCEPT !.mem.probing = @ \cup {p}], 0)
<1> DEFINE t == [s EXCEPT !.mem.probing = @ \cup {p}]
<1>0. s \in State /\ Typed(s)
  BY DEF Sound, Typed
<1>1. t \in State
  BY <1>0 DEF State, MemType
<1>2. /\ t.rows = s.rows /\ t.outstanding = s.outstanding /\ t.owner = s.owner /\ t.keys = s.keys
      /\ t.term = s.term /\ t.mem.flights = s.mem.flights /\ t.mem.current = s.mem.current
      /\ t.mem.parked = s.mem.parked /\ t.mem.probing = s.mem.probing \cup {p} /\ t.mem.mark = s.mem.mark
  BY <1>0 DEF State, MemType
<1> HIDE DEF t
<1>4. Typed(t) /\ Uniform(t.rows) /\ ProcessesKnown(t) /\ TextLands(t)
  BY <1>1, <1>2 DEF Sound, Typed, ProcessesKnown, TextLands
<1>5. PanesFly(t) /\ ParkedBehind(t) /\ ProbesOwner(t) /\ NoStray(t)
  BY <1>2 DEF Sound, PanesFly, ParkedBehind, ProbesOwner, NoStray
<1>6. MarkStands(t, 0)
  BY <1>2 DEF Sound, MarkStands, Flying, IsCurrent, Marks
<1>7. FlightsHold(t, 0)
  BY <1>2 DEF Sound, FlightsHold, Flying, IsCurrent, Marks
<1>8. EntersOnce(t)
  BY <1>2 DEF Sound, EntersOnce, Known
<1> QED BY <1>4, <1>5, <1>6, <1>7, <1>8 DEF Sound, t

LEMMA NoFlightWithoutMark ==
  ASSUME NEW s, NEW x, Sound(s, x), ~s.mem.mark.active, RetiredStaysRetired
  PROVE  \A f \in Others(x) : ~Flying(s, f)
BY DEF Sound, FlightsHold

LEMMA PointKeeps ==
  ASSUME NEW s, NEW p \in Ptys, Sound(s, 0), s.mem.current[p] = 0, ~s.mem.mark.active,
         LateProbes \/ p = s.owner, \A m \in DOMAIN s.rows : s.rows[m].phase = 0,
         NEW probed, NEW t \in Point(s, p, probed)
  PROVE  Sound(t, 0)
<1>0. s \in State
  BY DEF Sound, Typed
<1> DEFINE u == ClearMark(s)
<1>1. Sound(u, 0)
  BY NoFlightWithoutMark, ClearMarkKeeps
<1>2. /\ u.rows = s.rows /\ u.owner = s.owner /\ u.mem.current = s.mem.current /\ ~u.mem.mark.active
  BY <1>0 DEF ClearMark, State, MemType, NoMark
<1>3. CASE t = s
  BY <1>3
<1>4. CASE t # s
  <2>1. Offerable(s.rows) # {}
    BY <1>4 DEF Point
  <2>2. PICK v \in {s, u} : t \in Stage(v, p) \/ t = [v EXCEPT !.mem.probing = @ \cup {p}]
    BY <1>4 DEF Point
  <2>3. Sound(v, 0) /\ v.rows = s.rows /\ v.owner = s.owner /\ v.mem.current[p] = 0 /\ ~v.mem.mark.active
    BY <1>1, <1>2
  <2> HIDE DEF u
  <2>4. CASE t \in Stage(v, p)
    BY <2>1, <2>3, <2>4, StageKeeps
  <2>5. CASE t = [v EXCEPT !.mem.probing = @ \cup {p}]
    BY <2>3, <2>5, ProbingKeeps
  <2> QED BY <2>2, <2>4, <2>5
<1> QED BY <1>3, <1>4

LEMMA ResumePendingKeeps ==
  ASSUME NEW s, NEW p \in Ptys, Sound(s, 0), s.mem.current[p] = 0, ~s.mem.mark.active,
         LateProbes \/ p = s.owner, NEW probed, NEW t \in ResumePending(s, p, probed)
  PROVE  Sound(t, 0)
<1> DEFINE pending == Pending(s.rows)
           here == \A m \in pending : s.rows[m].at = Known(s, p)
           attempted == \E m \in pending : s.rows[m].phase # RESERVED
<1>0. s \in State /\ s.rows \in Seq(RowType) /\ Tidy(s.rows) /\ Uniform(s.rows)
  BY DEF Sound, Typed, State
<1>1. pending = {m \in DOMAIN s.rows : s.rows[m].phase > 0}
  <2>1. \A m \in DOMAIN s.rows : s.rows[m].phase > 0 => ~s.rows[m].read
    BY <1>0 DEF Tidy
  <2> QED BY <2>1 DEF Pending, Unread
<1>2. CASE pending # {} /\ here /\ attempted
  <2> DEFINE out == Settled(s.rows, pending, Known(s, p), {WRITE_ATTEMPTED, ENTER_ATTEMPTED})
  <2>1. t = [s EXCEPT !.rows = out]
    BY <1>2 DEF ResumePending
  <2>2. LetGo(s.rows, out, pending) /\ \A m \in DOMAIN s.rows : out[m] = s.rows[m] \/ out[m].delivered
    BY <1>0, SettledDoes
  <2> HIDE DEF out
  <2>3. /\ t \in State /\ t.rows = out /\ t.outstanding = s.outstanding /\ t.owner = s.owner /\ t.keys = s.keys
        /\ t.term = s.term /\ t.mem = s.mem
    BY <1>0, <2>1, <2>2 DEF State, LetGo
  <2> HIDE DEF pending, here, attempted
  <2> QED BY <2>2, <2>3, NoFlightWithoutMark, RowsKeep
<1>3. CASE ~(pending # {} /\ here /\ attempted)
  <2> DEFINE out == MarkedUndelivered(s.rows, pending)
             u == [s EXCEPT !.rows = out]
  <2>1. t \in Point(u, p, probed)
    BY <1>3 DEF ResumePending
  <2>2. /\ LetGo(s.rows, out, pending)
        /\ \A m \in DOMAIN s.rows : IF m \in pending /\ ~s.rows[m].read THEN out[m].phase = 0 ELSE out[m] = s.rows[m]
    BY <1>0, MarkedUndeliveredDoes
  <2> HIDE DEF out
  <2>3. /\ u \in State /\ u.rows = out /\ u.outstanding = s.outstanding /\ u.owner = s.owner /\ u.keys = s.keys
        /\ u.term = s.term /\ u.mem = s.mem
    BY <1>0, <2>2 DEF State, LetGo
  <2>4. \A m \in DOMAIN out : out[m].phase = 0
    <3> SUFFICES ASSUME NEW m \in DOMAIN s.rows PROVE out[m].phase = 0
      BY <2>2 DEF LetGo
    <3>1. CASE m \in pending
      BY <1>0, <1>1, <2>2, <3>1 DEF Tidy
    <3>2. CASE m \notin pending
      <4>1. s.rows[m].phase \in 0..3
        <5>1. s.rows[m] \in RowType
          BY <1>0
        <5> QED BY <5>1 DEF RowType
      <4> QED BY <1>1, <2>2, <3>2, <4>1
    <3> QED BY <3>1, <3>2
  <2>5. ASSUME ~LateProbes, NEW m \in DOMAIN s.rows, m \in pending
        PROVE  ~Past(s.rows[m], Known(s, s.owner))
    <3>1. ~s.rows[m].read /\ ~s.rows[m].delivered
      BY <1>0, <1>1, <2>5 DEF Tidy
    <3>2. ASSUME s.rows[m].phase = ENTER_ATTEMPTED, s.rows[m].at = Known(s, p) PROVE FALSE
      <4>1. here
        BY <1>0, <1>1, <2>5, <3>2 DEF Uniform
      <4>2. attempted
        BY <2>5, <3>2 DEF ENTER_ATTEMPTED, RESERVED
      <4> QED BY <1>3, <2>5, <4>1, <4>2
    <3> QED BY <2>5, <3>1, <3>2 DEF Past
  <2>6. ~LateProbes => \A m \in DOMAIN s.rows : out[m] = s.rows[m] \/ ~Past(s.rows[m], Known(s, s.owner))
    BY <2>2, <2>5
  <2> HIDE DEF u, pending, here, attempted
  <2>7. Sound(u, 0)
    BY <2>2, <2>3, <2>6, NoFlightWithoutMark, RowsKeep
  <2> QED BY <2>1, <2>3, <2>4, <2>7, PointKeeps
<1> QED BY <1>2, <1>3

LEMMA ParkingKeeps ==
  ASSUME NEW s, NEW p \in Ptys, Sound(s, 0), s.mem.current[p] # 0
  PROVE  Sound([s EXCEPT !.mem.parked = @ \cup {p}], 0)
<1> DEFINE t == [s EXCEPT !.mem.parked = @ \cup {p}]
<1>0. s \in State /\ Typed(s)
  BY DEF Sound, Typed
<1>1. t \in State
  BY <1>0 DEF State, MemType
<1>2. /\ t.rows = s.rows /\ t.outstanding = s.outstanding /\ t.owner = s.owner /\ t.keys = s.keys
      /\ t.term = s.term /\ t.mem.flights = s.mem.flights /\ t.mem.current = s.mem.current
      /\ t.mem.parked = s.mem.parked \cup {p} /\ t.mem.probing = s.mem.probing /\ t.mem.mark = s.mem.mark
  BY <1>0 DEF State, MemType
<1> HIDE DEF t
<1>4. Typed(t) /\ Uniform(t.rows) /\ ProcessesKnown(t) /\ TextLands(t)
  BY <1>1, <1>2 DEF Sound, Typed, ProcessesKnown, TextLands
<1>5. PanesFly(t) /\ ParkedBehind(t) /\ ProbesOwner(t) /\ NoStray(t)
  BY <1>2 DEF Sound, PanesFly, ParkedBehind, ProbesOwner, NoStray
<1>6. MarkStands(t, 0)
  BY <1>2 DEF Sound, MarkStands, Flying, IsCurrent, Marks
<1>7. FlightsHold(t, 0)
  BY <1>2 DEF Sound, FlightsHold, Flying, IsCurrent, Marks
<1>8. EntersOnce(t)
  BY <1>2 DEF Sound, EntersOnce, Known
<1> QED BY <1>4, <1>5, <1>6, <1>7, <1>8 DEF Sound, t

\* An idle agent lets the flight that waited for it go on to its probe.
LEMMA WakingKeeps ==
  ASSUME NEW s, NEW p \in Ptys, Sound(s, 0), s.mem.current[p] # 0
  PROVE  Sound([s EXCEPT !.mem.flights[s.mem.current[p]].step = IF @ = "held" THEN "probing" ELSE @], 0)
<1> DEFINE f == s.mem.current[p]
           flight == s.mem.flights[f]
           t == [s EXCEPT !.mem.flights[f].step = IF @ = "held" THEN "probing" ELSE @]
<1>0. s \in State
  BY DEF Sound, Typed
<1>1. f \in 1..MaxFlights /\ flight # Free
  <2>1. f \in 0..MaxFlights
    BY <1>0 DEF State, MemType
  <2> QED BY <2>1, PointerAssumption DEF Sound, PanesFly
<1>2. flight \in FlightType
  BY <1>0, <1>1 DEF State, MemType
<1>3. CASE flight.step = "held"
  <2>1. t = [s EXCEPT !.mem.flights[f].step = "probing"]
    BY <1>3
  <2>2. flight.into = flight.inc
    BY <1>1, <1>3 DEF Sound, TextLands
  <2>3. s.mem.flights[f].step # "entering" /\ "probing" \in {"armed", "probing", "held"}
    BY <1>3
  <2>4. f \in 1..MaxFlights /\ s.mem.flights[f] # Free /\ s.mem.flights[f].into = s.mem.flights[f].inc
    BY <1>1, <2>2
  <2> HIDE DEF f
  <2>5. Sound([s EXCEPT !.mem.flights[f].step = "probing"], 0)
    BY <2>3, <2>4, FlightMoves
  <2> HIDE DEF t
  <2>6. Sound(t, 0)
    BY <2>1, <2>5
  <2> QED BY <2>6 DEF t, f
<1>4. CASE flight.step # "held"
  <2>1. [flight EXCEPT !.step = flight.step] = flight
    BY <1>2 DEF FlightType
  <2>2. t = [s EXCEPT !.mem = [s.mem EXCEPT !.flights = [s.mem.flights EXCEPT ![f] = [flight EXCEPT !.step = flight.step]]]]
    BY <1>4
  <2>3. [s.mem.flights EXCEPT ![f] = flight] = s.mem.flights
    BY <1>0, <1>1 DEF State, MemType
  <2>4. [s EXCEPT !.mem = [s.mem EXCEPT !.flights = s.mem.flights]] = s
    BY <1>0 DEF State, MemType
  <2>5. t = s
    BY <2>1, <2>2, <2>3, <2>4
  <2> QED BY <2>5
<1> QED BY <1>3, <1>4

\* The re-check of a pane and the note that parked mail is to be offered again.
LEMMA NotesKeep ==
  ASSUME NEW s, NEW x, Sound(s, x), NEW reoffer \in BOOLEAN, NEW repoint \in BOOLEAN,
         NEW recheck \in SUBSET Ptys, NEW offered \in BOOLEAN
  PROVE  LET t == [s EXCEPT !.mem.reoffer = reoffer, !.mem.repoint = repoint, !.mem.recheck = recheck,
                            !.offered = offered]
         IN  /\ Sound(t, x) /\ t.owner = s.owner /\ t.mem.current = s.mem.current /\ t.mem.mark = s.mem.mark
             /\ t.mem.flights = s.mem.flights /\ t.rows = s.rows /\ t.term = s.term
<1> DEFINE t == [s EXCEPT !.mem.reoffer = reoffer, !.mem.repoint = repoint, !.mem.recheck = recheck,
                          !.offered = offered]
<1>0. s \in State /\ Typed(s)
  BY DEF Sound, Typed
<1>1. t \in State
  BY <1>0 DEF State, MemType
<1>2. /\ t.rows = s.rows /\ t.outstanding = s.outstanding /\ t.owner = s.owner /\ t.keys = s.keys
      /\ t.term = s.term /\ t.mem.flights = s.mem.flights /\ t.mem.current = s.mem.current
      /\ t.mem.parked = s.mem.parked /\ t.mem.probing = s.mem.probing /\ t.mem.mark = s.mem.mark
  BY <1>0 DEF State, MemType
<1> HIDE DEF t
<1>3. Sound(t, x)
  BY <1>0, <1>1, <1>2, Unpointed DEF Typed
<1> QED BY <1>2, <1>3 DEF t

LEMMA Notes ==
  ASSUME NEW s \in State
  PROVE  /\ s.mem.reoffer \in BOOLEAN /\ s.mem.repoint \in BOOLEAN /\ s.mem.recheck \in SUBSET Ptys
         /\ s.offered \in BOOLEAN /\ s.owner \in Ptys
         /\ s.mem = [s.mem EXCEPT !.reoffer = s.mem.reoffer, !.repoint = s.mem.repoint,
                                  !.recheck = s.mem.recheck]
BY DEF State, MemType

LEMMA ReofferKeeps ==
  ASSUME NEW s, NEW x, Sound(s, x)
  PROVE  Sound([s EXCEPT !.mem.reoffer = TRUE], x)
<1> DEFINE t == [s EXCEPT !.mem.reoffer = TRUE, !.mem.repoint = s.mem.repoint,
                          !.mem.recheck = s.mem.recheck, !.offered = s.offered]
<1>0. s \in State
  BY DEF Sound, Typed
<1>1. Sound(t, x)
  BY <1>0, Notes, NotesKeep
<1>2. t = [s EXCEPT !.mem.reoffer = TRUE]
  BY <1>0 DEF State, MemType
<1> QED BY <1>1, <1>2

LEMMA RecheckKeeps ==
  ASSUME NEW s, NEW x, Sound(s, x), NEW recheck \in SUBSET Ptys
  PROVE  Sound([s EXCEPT !.mem.recheck = recheck], x)
<1> DEFINE t == [s EXCEPT !.mem.reoffer = s.mem.reoffer, !.mem.repoint = s.mem.repoint,
                          !.mem.recheck = recheck, !.offered = s.offered]
<1>0. s \in State
  BY DEF Sound, Typed
<1>1. Sound(t, x)
  BY <1>0, Notes, NotesKeep
<1>2. t = [s EXCEPT !.mem.recheck = recheck]
  BY <1>0 DEF State, MemType
<1> QED BY <1>1, <1>2

LEMMA DeliverSettledKeeps ==
  ASSUME NEW s, NEW p \in Ptys, Sound(s, 0), LateProbes \/ p = s.owner, NEW probed,
         NEW t \in DeliverSettled(s, p, probed)
  PROVE  Sound(t, 0)
<1> DEFINE f == s.mem.current[p]
<1>0. s \in State
  BY DEF Sound, Typed
<1>1. CASE t = s
  BY <1>1
<1>2. CASE f # 0 /\ t = [s EXCEPT !.mem.parked = @ \cup {p},
                                  !.mem.flights[f].step = IF @ = "held" THEN "probing" ELSE @]
  <2> DEFINE u == [s EXCEPT !.mem.parked = @ \cup {p}]
  <2>1. Sound(u, 0)
    BY <1>2, ParkingKeeps
  <2>2. u.mem.current = s.mem.current /\ u.mem.flights = s.mem.flights
    BY <1>0 DEF State, MemType
  <2>3. t = [u EXCEPT !.mem.flights[f].step = IF @ = "held" THEN "probing" ELSE @]
    BY <1>0, <1>2 DEF State, MemType
  <2> HIDE DEF u
  <2>4. Sound([u EXCEPT !.mem.flights[u.mem.current[p]].step = IF @ = "held" THEN "probing" ELSE @], 0)
    BY <1>2, <2>1, <2>2, WakingKeeps
  <2> QED BY <2>2, <2>3, <2>4
<1>3. CASE t = [s EXCEPT !.mem.reoffer = TRUE]
  BY <1>3, ReofferKeeps
<1>4. CASE f = 0 /\ ~s.mem.mark.active /\ t \in ResumePending(s, p, probed)
  BY <1>4, ResumePendingKeeps
<1> QED BY <1>1, <1>2, <1>3, <1>4 DEF DeliverSettled

LEMMA DeliverKeeps ==
  ASSUME NEW s, NEW p \in Ptys, Sound(s, 0), LateProbes \/ p = s.owner, NEW probed,
         NEW t \in Deliver(s, p, probed)
  PROVE  Sound(t, 0)
<1>0. s \in State
  BY DEF Sound, Typed
<1>1. CASE t = s
  BY <1>1
<1>2. CASE t = [s EXCEPT !.mem.reoffer = TRUE, !.mem.recheck = @ \cup {p}]
  <2> DEFINE u == [s EXCEPT !.mem.reoffer = TRUE]
  <2>1. Sound(u, 0)
    BY ReofferKeeps
  <2>2. s.mem.recheck \cup {p} \in SUBSET Ptys
    BY <1>0, Notes
  <2>3. t = [u EXCEPT !.mem.recheck = s.mem.recheck \cup {p}]
    BY <1>0, <1>2 DEF State, MemType
  <2> HIDE DEF u
  <2> QED BY <2>1, <2>2, <2>3, RecheckKeeps
<1>3. CASE t \in DeliverSettled([s EXCEPT !.mem.recheck = @ \ {p}], p, probed)
  <2> DEFINE u == [s EXCEPT !.mem.recheck = @ \ {p}]
  <2>1. s.mem.recheck \ {p} \in SUBSET Ptys
    BY <1>0, Notes
  <2>2. Sound(u, 0)
    BY <2>1, RecheckKeeps
  <2>3. u.owner = s.owner
    BY <1>0 DEF State
  <2> HIDE DEF u
  <2> QED BY <1>3, <2>2, <2>3, DeliverSettledKeeps DEF u
<1> QED BY <1>1, <1>2, <1>3 DEF Deliver

LEMMA DeliverForHandleKeeps ==
  ASSUME NEW s, Sound(s, 0), NEW t \in DeliverForHandle(s)
  PROVE  Sound(t, 0)
<1>1. s.owner \in Ptys
  BY DEF Sound, Typed, State
<1>2. t = s \/ t \in Deliver(s, s.owner, FALSE)
  BY DEF DeliverForHandle
<1> QED BY <1>1, <1>2, DeliverKeeps

LEMMA DeliverForLeafKeeps ==
  ASSUME NEW s, Sound(s, 0), NEW p \in Ptys, NEW t \in DeliverForLeaf(s, p)
  PROVE  Sound(t, 0)
<1>1. t = s \/ (s.owner = p /\ t \in DeliverSettled(s, p, FALSE))
  BY DEF DeliverForLeaf
<1> QED BY <1>1, DeliverSettledKeeps

\* The end of flight f, of which nothing needs to hold any more.
LEMMA FlightEnds ==
  ASSUME NEW s, NEW f \in 1..MaxFlights, Sound(s, f), NEW t \in State,
         t.rows = s.rows, t.outstanding = s.outstanding, t.owner = s.owner, t.keys = s.keys, t.term = s.term,
         t.mem.mark = s.mem.mark, t.mem.probing = s.mem.probing,
         \A g \in Others(f) : t.mem.flights[g] = s.mem.flights[g],
         t.mem.flights[f] \in {Free, s.mem.flights[f]},
         \A p \in Ptys : t.mem.current[p] = IF s.mem.current[p] = f THEN 0 ELSE s.mem.current[p],
         \A p \in t.mem.parked : p \in s.mem.parked /\ s.mem.current[p] # f
  PROVE  Sound(t, 0)
<1>0. s \in State /\ Typed(s)
  BY DEF Sound, Typed
<1>1. f # 0 /\ MaxFlights \in Nat
  BY PointerAssumption
<1>2. s.mem.flights \in [1..MaxFlights -> {Free} \cup FlightType] /\ s.mem.current \in [Ptys -> 0..MaxFlights]
      /\ s.mem.parked \subseteq Ptys
  BY <1>0 DEF State, MemType
<1>3. \A g \in 1..MaxFlights : s.mem.flights[g] # Free => s.mem.flights[g].pty \in Ptys
  BY <1>2 DEF FlightType
<1>4. \A g \in 1..MaxFlights : t.mem.flights[g] # Free => t.mem.flights[g] = s.mem.flights[g]
  BY DEF Others
<1>5. Typed(t) /\ Uniform(t.rows) /\ ProcessesKnown(t)
  BY <1>0, <1>4 DEF Sound, Typed, ProcessesKnown
<1>6. TextLands(t)
  BY <1>4 DEF Sound, TextLands
<1>7. PanesFly(t)
  <2> SUFFICES ASSUME NEW q \in Ptys, t.mem.current[q] # 0
               PROVE  t.mem.flights[t.mem.current[q]] # Free /\ t.mem.flights[t.mem.current[q]].pty = q
    BY DEF PanesFly
  <2>1. t.mem.current[q] = s.mem.current[q] /\ s.mem.current[q] # f
    OBVIOUS
  <2>2. s.mem.current[q] \in Others(f)
    BY <1>1, <1>2, <2>1 DEF Others
  <2> QED BY <2>1, <2>2 DEF Sound, PanesFly
<1>8. ParkedBehind(t) /\ ProbesOwner(t) /\ NoStray(t)
  BY <1>2 DEF Sound, ParkedBehind, ProbesOwner, NoStray
<1>9. \A g \in Others(f) : Flying(s, g) => Flying(t, g)
  BY <1>3 DEF Flying, IsCurrent, Others
<1>10. \A g \in 1..MaxFlights : Flying(t, g) => g \in Others(f) /\ Flying(s, g)
  <2> SUFFICES ASSUME NEW g \in 1..MaxFlights, Flying(t, g) PROVE g \in Others(f) /\ Flying(s, g)
    OBVIOUS
  <2>1. t.mem.flights[g] = s.mem.flights[g] /\ s.mem.flights[g] # Free /\ t.mem.current[s.mem.flights[g].pty] = g
    BY <1>4 DEF Flying, IsCurrent
  <2>2. s.mem.flights[g].pty \in Ptys
    BY <1>3, <2>1
  <2>3. g # 0
    BY <1>1
  <2>4. s.mem.current[s.mem.flights[g].pty] = g /\ g # f
    BY <2>1, <2>2, <2>3
  <2> QED BY <2>1, <2>4 DEF Flying, IsCurrent, Others
<1>11. MarkStands(t, 0)
  <2> SUFFICES ASSUME s.mem.mark.active PROVE \E g \in Others(0) : Flying(t, g) /\ Marks(t, g)
    BY DEF MarkStands
  <2>1. PICK g \in Others(f) : Flying(s, g) /\ Marks(s, g)
    BY DEF Sound, MarkStands
  <2>2. g \in Others(0) /\ Flying(t, g)
    BY <1>1, <1>9, <2>1 DEF Others
  <2>3. Marks(t, g)
    BY <2>1 DEF Marks
  <2> QED BY <2>2, <2>3
<1>12. FlightsHold(t, 0)
  <2> SUFFICES ASSUME RetiredStaysRetired, NEW g \in Others(0), Flying(t, g)
               PROVE  t.mem.mark.active /\ Marks(t, g) /\ Whole(t.rows, t.mem.flights[g])
    BY DEF FlightsHold
  <2>1. g \in Others(f) /\ Flying(s, g)
    BY <1>10 DEF Others
  <2>2. s.mem.mark.active /\ Marks(s, g) /\ Whole(s.rows, s.mem.flights[g])
    BY <2>1 DEF Sound, FlightsHold
  <2> QED BY <2>1, <2>2 DEF Marks
<1>13. EntersOnce(t)
  BY DEF Sound, EntersOnce, Known
<1> QED BY <1>5, <1>6, <1>7, <1>8, <1>11, <1>12, <1>13 DEF Sound

LEMMA CurrentOnce ==
  ASSUME NEW s, NEW x, Sound(s, x), NEW f \in 1..MaxFlights, s.mem.flights[f] # Free, NEW q \in Ptys,
         s.mem.current[q] = f
  PROVE  q = s.mem.flights[f].pty /\ IsCurrent(s, f)
BY PointerAssumption DEF Sound, PanesFly, IsCurrent

LEMMA SettleFlightKeeps ==
  ASSUME NEW s, NEW f \in 1..MaxFlights, Sound(s, f), s.mem.flights[f] # Free,
         NEW t \in SettleFlight(s, f)
  PROVE  Sound(t, 0)
<1> DEFINE p == s.mem.flights[f].pty
           freed == [s EXCEPT !.mem.flights[f] = Free]
           ended == [freed EXCEPT !.mem.current[p] = 0, !.mem.parked = @ \ {p}]
<1>0. s \in State /\ Typed(s)
  BY DEF Sound, Typed
<1>1. p \in Ptys
  BY <1>0 DEF State, MemType, FlightType
<1>2. s.mem.flights \in [1..MaxFlights -> {Free} \cup FlightType] /\ s.mem.current \in [Ptys -> 0..MaxFlights]
  BY <1>0 DEF State, MemType
<1>3. /\ freed \in State
      /\ freed.rows = s.rows /\ freed.outstanding = s.outstanding /\ freed.owner = s.owner /\ freed.keys = s.keys
      /\ freed.term = s.term /\ freed.mem.flights = [s.mem.flights EXCEPT ![f] = Free]
      /\ freed.mem.current = s.mem.current
      /\ freed.mem.parked = s.mem.parked /\ freed.mem.probing = s.mem.probing /\ freed.mem.mark = s.mem.mark
  <2>1. freed.mem = [s.mem EXCEPT !.flights = [s.mem.flights EXCEPT ![f] = Free]]
    BY <1>0 DEF State, MemType
  <2>2. freed.mem \in MemType
    BY <1>0, <1>2, <2>1 DEF State, MemType
  <2>3. freed = [s EXCEPT !.mem = freed.mem]
    BY <1>0, <2>1 DEF State, MemType
  <2> HIDE DEF freed
  <2> QED BY <1>0, <2>1, <2>2, <2>3 DEF State, MemType
<1>4. freed.mem.flights[f] = Free /\ \A g \in Others(f) : freed.mem.flights[g] = s.mem.flights[g]
  <2> HIDE DEF freed
  <2> QED BY <1>2, <1>3 DEF Others
<1>5. CASE ~IsCurrent(s, f)
  <2>1. t = freed
    BY <1>5 DEF SettleFlight
  <2>2. \A q \in Ptys : s.mem.current[q] # f
    BY <1>5, CurrentOnce
  <2>3. s.mem.parked \subseteq Ptys
    BY <1>0 DEF State, MemType
  <2> HIDE DEF freed
  <2>4. freed.mem.flights[f] \in {Free, s.mem.flights[f]}
    BY <1>4
  <2>5. \A q \in Ptys : freed.mem.current[q] = IF s.mem.current[q] = f THEN 0 ELSE s.mem.current[q]
    BY <1>3, <2>2
  <2>6. \A q \in freed.mem.parked : q \in s.mem.parked /\ s.mem.current[q] # f
    BY <1>3, <2>2, <2>3
  <2>7. Sound(freed, 0)
    BY <1>3, <1>4, <2>4, <2>5, <2>6, FlightEnds
  <2> QED BY <2>1, <2>7
<1>6. CASE IsCurrent(s, f)
  <2>1. /\ ended \in State
        /\ ended.rows = s.rows /\ ended.outstanding = s.outstanding /\ ended.owner = s.owner /\ ended.keys = s.keys
        /\ ended.term = s.term /\ ended.mem.flights = freed.mem.flights
        /\ ended.mem.current = [s.mem.current EXCEPT ![p] = 0]
        /\ ended.mem.parked = s.mem.parked \ {p} /\ ended.mem.probing = s.mem.probing /\ ended.mem.mark = s.mem.mark
    <3> HIDE DEF freed, p
    <3>1. ended.mem = [freed.mem EXCEPT !.current = [s.mem.current EXCEPT ![p] = 0], !.parked = s.mem.parked \ {p}]
      BY <1>3 DEF State, MemType
    <3>2. [s.mem.current EXCEPT ![p] = 0] \in [Ptys -> 0..MaxFlights]
      BY <1>1, <1>2, PointerAssumption
    <3>3. ended.mem \in MemType
      BY <1>3, <3>1, <3>2 DEF State, MemType
    <3>4. ended = [freed EXCEPT !.mem = ended.mem]
      BY <1>3, <3>1 DEF State, MemType
    <3> HIDE DEF ended
    <3> QED BY <1>3, <3>1, <3>3, <3>4 DEF State, MemType
  <2>2. \A q \in Ptys : ended.mem.current[q] = IF s.mem.current[q] = f THEN 0 ELSE s.mem.current[q]
    <3>1. s.mem.current[p] = f /\ \A q \in Ptys : s.mem.current[q] = f => q = p
      BY <1>6, CurrentOnce DEF IsCurrent
    <3> HIDE DEF ended, p
    <3> QED BY <1>1, <1>2, <2>1, <3>1
  <2>3. \A q \in ended.mem.parked : q \in s.mem.parked /\ s.mem.current[q] # f
    <3>1. \A q \in Ptys : s.mem.current[q] = f => q = p
      BY CurrentOnce
    <3>2. s.mem.parked \subseteq Ptys
      BY <1>0 DEF State, MemType
    <3> HIDE DEF ended, p
    <3> QED BY <2>1, <3>1, <3>2
  <2>4. Sound(ended, 0)
    <3> HIDE DEF ended, freed
    <3>1. ended.mem.flights[f] \in {Free, s.mem.flights[f]} /\ \A g \in Others(f) : ended.mem.flights[g] = s.mem.flights[g]
      BY <1>4, <2>1
    <3>2. /\ ended \in State /\ ended.rows = s.rows /\ ended.outstanding = s.outstanding
          /\ ended.owner = s.owner /\ ended.keys = s.keys /\ ended.term = s.term
          /\ ended.mem.probing = s.mem.probing /\ ended.mem.mark = s.mem.mark
      BY <2>1
    <3>3. ended.mem.flights[f] \in {Free, s.mem.flights[f]}
      BY <3>1
    <3>4. \A g \in Others(f) : ended.mem.flights[g] = s.mem.flights[g]
      BY <3>1
    <3> QED BY <2>2, <2>3, <3>2, <3>3, <3>4, FlightEnds
  <2>5. \/ t = ended
        \/ s.owner = p /\ t \in Deliver(ended, p, FALSE)
        \/ t = Redrive([ended EXCEPT !.mem.reoffer = TRUE], FALSE)
    BY <1>6 DEF SettleFlight
  <2>6. ended.owner = s.owner
    BY <2>1
  <2> HIDE DEF ended, freed, p
  <2>7. CASE s.owner = p /\ t \in Deliver(ended, p, FALSE)
    BY <1>1, <2>4, <2>6, <2>7, DeliverKeeps
  <2>8. CASE t = Redrive([ended EXCEPT !.mem.reoffer = TRUE], FALSE)
    <3>1. Sound([ended EXCEPT !.mem.reoffer = TRUE], 0)
      BY <2>4, ReofferKeeps
    <3> QED BY <2>8, <3>1, RedriveKeeps
  <2> QED BY <2>4, <2>5, <2>7, <2>8
<1> QED BY <1>5, <1>6

LEMMA OnlyFlight ==
  ASSUME NEW s, Sound(s, 0), RetiredStaysRetired, NEW f \in 1..MaxFlights, Flying(s, f)
  PROVE  \A g \in Others(f) : ~Flying(s, g)
<1> SUFFICES ASSUME NEW g \in 1..MaxFlights, g # f, Flying(s, g) PROVE FALSE
  BY DEF Others
<1>1. f \in Others(0) /\ g \in Others(0)
  BY PointerAssumption DEF Others
<1>2. Marks(s, f) /\ Marks(s, g)
  BY <1>1 DEF Sound, FlightsHold
<1>3. s.mem.flights[f].pty = s.mem.flights[g].pty
  BY <1>2 DEF Marks
<1> QED BY <1>3 DEF Flying, IsCurrent

\* A flight whose watermark the active one is not may end without it.
LEMMA MarkOfOthers ==
  ASSUME NEW s, Sound(s, 0), NEW f \in 1..MaxFlights, ~(Flying(s, f) /\ Marks(s, f))
  PROVE  Sound(s, f)
<1>1. f # 0
  BY PointerAssumption
<1>2. MarkStands(s, f)
  BY DEF Sound, MarkStands, Others
<1>3. FlightsHold(s, f)
  BY <1>1 DEF Sound, FlightsHold, Others
<1> QED BY <1>2, <1>3 DEF Sound

LEMMA RetirePtyKeeps ==
  ASSUME NEW s, Sound(s, 0), NEW p \in Ptys
  PROVE  Sound(RetirePty(s, p), 0)
<1> DEFINE f == s.mem.current[p]
           flight == s.mem.flights[f]
           mine == s.mem.mark # NoMark /\ s.mem.mark.pty = p
<1>0. s \in State /\ s.rows \in Seq(RowType) /\ Tidy(s.rows)
  BY DEF Sound, Typed, State
<1>1. f \in 0..MaxFlights /\ s.mem.flights \in [1..MaxFlights -> {Free} \cup FlightType]
      /\ s.mem.current \in [Ptys -> 0..MaxFlights]
  BY <1>0 DEF State, MemType
<1>2. CASE f = 0
  <2>1. RetirePty(s, p) = IF mine THEN Redrive(ClearMark(s), TRUE) ELSE s
    BY <1>2 DEF RetirePty
  <2>2. ASSUME mine, RetiredStaysRetired, NEW g \in Others(0), Flying(s, g) PROVE FALSE
    <3>1. s.mem.flights[g].pty = p
      BY <2>2 DEF Sound, FlightsHold, Marks
    <3> QED BY <1>2, <2>2, <3>1, PointerAssumption DEF Flying, IsCurrent, Others
  <2>3. mine => Sound(ClearMark(s), 0)
    BY <2>2, ClearMarkKeeps
  <2>4. mine => Sound(Redrive(ClearMark(s), TRUE), 0)
    BY <2>3, RedriveKeeps
  <2> QED BY <2>1, <2>4
<1>3. CASE f # 0
  <2> DEFINE v == IF mine THEN ClearMark(s) ELSE s
             out == Released(s.rows, flight.batch, <<p, flight.inc>>, {RESERVED, WRITE_ATTEMPTED})
             w == [v EXCEPT !.rows = out]
             e == [w EXCEPT !.mem.current[p] = 0, !.mem.parked = @ \ {p},
                            !.mem.flights[f] = IF @.step \in {"armed", "held"} THEN Free ELSE @]
  <2>1. f \in 1..MaxFlights /\ flight # Free /\ flight.pty = p /\ Flying(s, f)
    BY <1>1, <1>3, PointerAssumption DEF Sound, PanesFly, Flying, IsCurrent
  <2>2. RetiredStaysRetired => \A g \in Others(f) : ~Flying(s, g)
    BY <2>1, OnlyFlight
  <2>3. /\ v.rows = s.rows /\ v.outstanding = s.outstanding /\ v.owner = s.owner /\ v.keys = s.keys
        /\ v.term = s.term /\ v.mem.flights = s.mem.flights /\ v.mem.current = s.mem.current
        /\ v.mem.parked = s.mem.parked
    BY <1>0 DEF ClearMark, State, MemType
  <2>4. Sound(v, f)
    <3>1. CASE mine
      BY <2>2, <3>1, ClearMarkKeeps
    <3>2. CASE ~mine
      <4>1. ~Marks(s, f)
        BY <2>1, <3>2 DEF Marks
      <4> QED BY <2>1, <3>2, <4>1, MarkOfOthers
    <3> QED BY <3>1, <3>2
  <2>5. RetiredStaysRetired => \A g \in Others(f) : ~Flying(v, g)
    BY <2>2, <2>3 DEF Flying, IsCurrent
  <2>6. /\ LetGo(s.rows, out, flight.batch)
        /\ \A m \in DOMAIN s.rows : out[m] = s.rows[m] \/ ~Past(s.rows[m], Known(s, s.owner))
    <3>1. LetGo(s.rows, out, flight.batch) /\ \A m \in DOMAIN s.rows :
               ~(m \in flight.batch /\ ~s.rows[m].read /\ s.rows[m].at = <<p, flight.inc>>
                 /\ s.rows[m].phase \in {RESERVED, WRITE_ATTEMPTED})
               => out[m] = s.rows[m]
      BY <1>0, ReleasedDoes, SMTT(30)
    <3> HIDE DEF out, f
    <3>2. \A m \in DOMAIN s.rows : ~s.rows[m].read /\ s.rows[m].phase \in {RESERVED, WRITE_ATTEMPTED}
             => ~Past(s.rows[m], Known(s, s.owner))
      BY <1>0 DEF Tidy, Past, RESERVED, WRITE_ATTEMPTED, ENTER_ATTEMPTED
    <3> QED BY <3>1, <3>2
  <2>7. v \in State
    BY <2>4 DEF Sound, Typed
  <2>8. /\ w \in State /\ w.rows = out /\ w.outstanding = s.outstanding /\ w.owner = s.owner /\ w.keys = s.keys
        /\ w.term = s.term /\ w.mem = v.mem
    <3> HIDE DEF v, out, f
    <3> QED BY <2>3, <2>6, <2>7 DEF State, LetGo
  <2>9. Sound(w, f)
    <3>1. Known(v, v.owner) = Known(s, s.owner)
      BY <2>3 DEF Known
    <3> HIDE DEF v, out, w, f
    <3> QED BY <2>3, <2>4, <2>5, <2>6, <2>8, <3>1, RowsKeep
  <2>10. w.mem.flights = s.mem.flights /\ w.mem.current = s.mem.current /\ w.mem.parked = s.mem.parked
    BY <2>3, <2>8
  <2> DEFINE left == IF flight.step \in {"armed", "held"} THEN Free ELSE flight
  <2>11. /\ e \in State /\ e.rows = w.rows /\ e.outstanding = w.outstanding /\ e.owner = w.owner
         /\ e.keys = w.keys /\ e.term = w.term /\ e.mem.mark = w.mem.mark /\ e.mem.probing = w.mem.probing
         /\ e.mem.flights = [s.mem.flights EXCEPT ![f] = left]
         /\ e.mem.current = [s.mem.current EXCEPT ![p] = 0] /\ e.mem.parked = s.mem.parked \ {p}
    <3>1. left \in {Free} \cup FlightType
      BY <1>1, <2>1
    <3>2. e.mem = [w.mem EXCEPT !.current = [s.mem.current EXCEPT ![p] = 0], !.parked = s.mem.parked \ {p},
                                !.flights = [s.mem.flights EXCEPT ![f] = left]]
      <4> HIDE DEF w, f
      <4> QED BY <2>8, <2>10 DEF State, MemType
    <3> HIDE DEF left, f, w
    <3>3. [s.mem.current EXCEPT ![p] = 0] \in [Ptys -> 0..MaxFlights]
      BY <1>1, PointerAssumption
    <3>4. [s.mem.flights EXCEPT ![f] = left] \in [1..MaxFlights -> {Free} \cup FlightType]
      BY <1>1, <2>1, <3>1
    <3>5. w.mem \in MemType /\ s.mem.parked \ {p} \in SUBSET Ptys
      BY <2>8, <2>10 DEF State, MemType
    <3>6. e.mem \in MemType
      <4> HIDE DEF e
      <4> QED BY <3>2, <3>3, <3>4, <3>5 DEF MemType
    <3>7. e = [w EXCEPT !.mem = e.mem]
      BY <2>8, <2>10, <3>2 DEF State, MemType, left
    <3> HIDE DEF e
    <3> QED BY <2>8, <3>2, <3>5, <3>6, <3>7 DEF State, MemType
  <2>12. Sound(e, 0)
    <3>0. left \in {Free, flight}
      OBVIOUS
    <3> HIDE DEF e, w, v, out, left
    <3>1. e.mem.flights[f] \in {Free, w.mem.flights[f]}
      BY <1>1, <2>1, <2>10, <2>11, <3>0
    <3>2. \A g \in Others(f) : e.mem.flights[g] = w.mem.flights[g]
      BY <1>1, <2>1, <2>10, <2>11 DEF Others
    <3>3. \A q \in Ptys : s.mem.current[q] = f => q = p
      BY <2>1, CurrentOnce
    <3>4. \A q \in Ptys : e.mem.current[q] = IF w.mem.current[q] = f THEN 0 ELSE w.mem.current[q]
      BY <1>1, <2>10, <2>11, <3>3
    <3>5. s.mem.parked \subseteq Ptys
      BY <1>0 DEF State, MemType
    <3>6. \A q \in e.mem.parked : q \in w.mem.parked /\ w.mem.current[q] # f
      BY <2>10, <2>11, <3>3, <3>5
    <3> HIDE DEF f
    <3>7. f \in 1..MaxFlights
      BY <2>1
    <3>8. /\ e \in State /\ e.rows = w.rows /\ e.outstanding = w.outstanding /\ e.owner = w.owner
          /\ e.keys = w.keys /\ e.term = w.term /\ e.mem.mark = w.mem.mark /\ e.mem.probing = w.mem.probing
      BY <2>11
    <3> QED BY <2>9, <3>1, <3>2, <3>4, <3>6, <3>7, <3>8, FlightEnds
  <2>13. RetirePty(s, p) = IF mine THEN Redrive(e, TRUE) ELSE e
    <3> DEFINE ended == [s EXCEPT
                        !.mem.current[p] = 0, !.mem.parked = @ \ {p},
                        !.mem.flights[f] = IF @.step \in {"armed", "held"} THEN Free ELSE @,
                        !.rows = Released(@, flight.batch, <<p, flight.inc>>,
                                          {RESERVED, WRITE_ATTEMPTED})]
    <3>1. RetirePty(s, p) = IF ended.mem.mark # NoMark /\ ended.mem.mark.pty = p
                            THEN Redrive(ClearMark(ended), TRUE) ELSE ended
      BY <1>3, SMTT(30) DEF RetirePty
    <3>2. ended.mem.mark = s.mem.mark
      BY <1>0 DEF State, MemType
    <3> HIDE DEF f
    <3>3. CASE mine
      <4> DEFINE memory == [s.mem EXCEPT !.mark = NoMark, !.current = [s.mem.current EXCEPT ![p] = 0],
                                         !.parked = s.mem.parked \ {p},
                                         !.flights = [s.mem.flights EXCEPT ![f] = left]]
      <4>1. ClearMark(ended) = [s EXCEPT !.rows = out, !.mem = memory]
        <5> DEFINE old == [s.mem EXCEPT !.current = [s.mem.current EXCEPT ![p] = 0],
                                        !.parked = s.mem.parked \ {p},
                                        !.flights = [s.mem.flights EXCEPT ![f] = left]]
        <5>1. ended = [s EXCEPT !.rows = out, !.mem = old]
          BY <1>0 DEF State, MemType
        <5>2. memory = [old EXCEPT !.mark = NoMark]
          BY <1>0 DEF State, MemType
        <5>3. ClearMark(ended) = [ended EXCEPT !.mem = [ended.mem EXCEPT !.mark = NoMark]]
          BY DEF ClearMark
        <5> HIDE DEF ended, memory, old, out
        <5>4. ended.mem = old
          BY <1>0, <5>1 DEF State
        <5> QED BY <1>0, <5>1, <5>2, <5>3, <5>4 DEF State
      <4>2. v = [s EXCEPT !.mem = [s.mem EXCEPT !.mark = NoMark]]
        BY <1>0, <3>3 DEF ClearMark, State, MemType
      <4>3. e = [s EXCEPT !.rows = out, !.mem = memory]
        <5> HIDE DEF v, mine, out, ended
        <5> QED BY <1>0, <4>2 DEF State, MemType
      <4>4. ClearMark(ended) = e
        BY <4>1, <4>3
      <4> QED BY <3>1, <3>2, <3>3, <4>4
    <3>4. CASE ~mine
      <4>1. ended = e
        BY <1>0, <3>4, ZenonT(60) DEF State, MemType
      <4> QED BY <3>1, <3>2, <3>4, <4>1
    <3> QED BY <3>3, <3>4
  <2>14. Sound(Redrive(e, TRUE), 0)
    <3> HIDE DEF e
    <3> QED BY <2>12, RedriveKeeps
  <2> HIDE DEF e, mine
  <2> QED BY <2>12, <2>13, <2>14
<1> QED BY <1>2, <1>3

-----------------------------------------------------------------------------
(* Steps *)

LEMMA NowSound == IInv => /\ Sound(Now, 0) /\ Now \in State /\ rows \in Seq(RowType) /\ Tidy(rows)
                          /\ restarts \in 0..MaxRestarts
                          /\ Now.rows = rows /\ Now.outstanding = outstanding /\ Now.owner = owner
                          /\ Now.waiter = waiter /\ Now.term = term /\ Now.mem = mem /\ Now.keys = keys
                          /\ Now.offered = FALSE
<1> SUFFICES ASSUME IInv PROVE Now \in State /\ rows \in Seq(RowType) /\ Tidy(rows)
  BY DEF IInv, Now
<1>1. Now \in State /\ Tidy(Now.rows) /\ Now.rows \in Seq(RowType)
  BY DEF IInv, Sound, Typed, State
<1> QED BY <1>1 DEF Now

LEMMA BecomesSound ==
  ASSUME IInv, NEW s, Sound(s, 0), Becomes(s)
  PROVE  IInv'
<1>1. PICK t \in IF s.offered THEN DeliverForHandle([s EXCEPT !.offered = FALSE]) ELSE {s} :
        /\ rows' = t.rows /\ outstanding' = t.outstanding /\ owner' = t.owner
        /\ waiter' = t.waiter /\ term' = t.term /\ mem' = t.mem /\ keys' = t.keys
        /\ restarts' = restarts
  BY DEF Becomes
<1>2. s \in State
  BY DEF Sound, Typed
<1>3. Sound([s EXCEPT !.offered = FALSE], 0)
  <2> DEFINE u == [s EXCEPT !.mem.reoffer = s.mem.reoffer, !.mem.repoint = s.mem.repoint,
                            !.mem.recheck = s.mem.recheck, !.offered = FALSE]
  <2>1. Sound(u, 0)
    BY <1>2, Notes, NotesKeep
  <2>2. u = [s EXCEPT !.offered = FALSE]
    BY <1>2 DEF State, MemType
  <2> QED BY <2>1, <2>2
<1>4. Sound(t, 0)
  <2>1. CASE s.offered
    BY <1>1, <1>3, <2>1, DeliverForHandleKeeps
  <2>2. CASE ~s.offered
    BY <1>1, <2>2
  <2> QED BY <2>1, <2>2
<1> DEFINE u == [rows |-> t.rows, outstanding |-> t.outstanding, owner |-> t.owner, waiter |-> t.waiter,
                 term |-> t.term, mem |-> t.mem, keys |-> t.keys, offered |-> FALSE]
<1>5. t \in State /\ t.outstanding \subseteq DOMAIN t.rows
  BY <1>4 DEF Sound, Typed
<1>6. u \in State
  BY <1>5 DEF State
<1>7. Sound(u, 0)
  <2>1. /\ u.rows = t.rows /\ u.owner = t.owner /\ u.keys = t.keys /\ u.outstanding = t.outstanding
        /\ u.term = t.term /\ u.mem = t.mem
    OBVIOUS
  <2> HIDE DEF u
  <2> QED BY <1>4, <1>5, <1>6, <2>1, Unpointed
<1>8. Now' = u
  BY <1>1 DEF Now
<1> HIDE DEF u
<1>9. Sound(Now', 0)
  BY <1>7, <1>8
<1>10. restarts' \in 0..MaxRestarts
  BY <1>1 DEF IInv
<1> QED BY <1>9, <1>10 DEF IInv

\* The watermark of a flight that ends is gone, or stands for nothing more.
LEMMA MarkEnds ==
  ASSUME NEW s, Sound(s, 0), NEW f \in 1..MaxFlights,
         RetiredStaysRetired => \A g \in Others(f) : ~Flying(s, g)
  PROVE  /\ Sound(IF Marks(s, f) THEN ClearMark(s) ELSE s, f)
         /\ Sound(IF Marks(s, f) THEN DeactivateMark(s) ELSE s, f)
<1>1. CASE Marks(s, f)
  <2>1. s.mem.mark # NoMark
    BY <1>1 DEF Marks
  <2> QED BY <1>1, <2>1, ClearMarkKeeps, DeactivateMarkKeeps
<1>2. CASE ~Marks(s, f)
  BY <1>2, MarkOfOthers
<1> QED BY <1>1, <1>2

LEMMA ClearMarkLeaves ==
  ASSUME NEW s \in State
  PROVE  /\ ClearMark(s) \in State
         /\ ClearMark(s).rows = s.rows /\ ClearMark(s).outstanding = s.outstanding
         /\ ClearMark(s).owner = s.owner /\ ClearMark(s).keys = s.keys /\ ClearMark(s).term = s.term
         /\ ClearMark(s).mem.flights = s.mem.flights /\ ClearMark(s).mem.current = s.mem.current
BY DEF ClearMark, State, MemType

\* Rows of flight f, which is about to end.
LEMMA RowsOfEnding ==
  ASSUME NEW s, NEW f \in 1..MaxFlights, Sound(s, f), NEW rs, NEW ids, LetGo(s.rows, rs, ids),
         RetiredStaysRetired => \A g \in Others(f) : ~Flying(s, g),
         RetiredStaysRetired /\ ~LateProbes =>
            \A m \in DOMAIN s.rows :
               rs[m] = s.rows[m] \/ rs[m].delivered \/ ~Past(s.rows[m], Known(s, s.owner))
  PROVE  Sound([s EXCEPT !.rows = rs], f)
<1> DEFINE t == [s EXCEPT !.rows = rs]
<1>0. s \in State
  BY DEF Sound, Typed
<1>1. /\ t \in State /\ t.rows = rs /\ t.outstanding = s.outstanding /\ t.owner = s.owner /\ t.keys = s.keys
      /\ t.term = s.term /\ t.mem = s.mem
  BY <1>0 DEF State, LetGo
<1> HIDE DEF t
<1>2. Sound(t, f)
  BY <1>1, RowsKeep
<1> QED BY <1>2 DEF t

LEMMA SubmittedKeeps ==
  ASSUME NEW s, Sound(s, 0), NEW f \in 1..MaxFlights, s.mem.flights[f] # Free,
         NEW rs, NEW ids, LetGo(s.rows, rs, ids),
         RetiredStaysRetired => \A g \in Others(f) : ~Flying(s, g),
         RetiredStaysRetired /\ ~LateProbes =>
            \A m \in DOMAIN s.rows :
               rs[m] = s.rows[m] \/ rs[m].delivered \/ ~Past(s.rows[m], Known(s, s.owner)),
         NEW redrive \in BOOLEAN, NEW force \in BOOLEAN, NEW t \in Submitted(s, f, rs, redrive, force)
  PROVE  Sound(t, 0)
<1> DEFINE v == IF Marks(s, f) THEN ClearMark(s) ELSE s
           u == [v EXCEPT !.rows = rs]
<1>0. s \in State
  BY DEF Sound, Typed
<1>1. Sound(v, f)
  BY MarkEnds
<1>2. /\ v.rows = s.rows /\ v.owner = s.owner /\ v.term = s.term /\ v.mem.flights = s.mem.flights
      /\ v.mem.current = s.mem.current
  BY <1>0, ClearMarkLeaves
<1>3. RetiredStaysRetired => \A g \in Others(f) : ~Flying(v, g)
  BY <1>2 DEF Flying, IsCurrent
<1>4. Known(v, v.owner) = Known(s, s.owner)
  BY <1>2 DEF Known
<1>5. Sound(u, f)
  <2> HIDE DEF v
  <2> QED BY <1>1, <1>2, <1>3, <1>4, RowsOfEnding
<1>6. u.mem.flights = s.mem.flights
  <2>1. v \in State
    BY <1>1 DEF Sound, Typed
  <2> HIDE DEF v
  <2> QED BY <1>2, <2>1 DEF State
<1>7. u = IF Marks(s, f) THEN ClearMark([s EXCEPT !.rows = rs]) ELSE [s EXCEPT !.rows = rs]
  BY <1>0 DEF ClearMark, State, MemType
<1> HIDE DEF u, v
<1>8. PICK w \in SettleFlight(u, f) : t = Redrive(w, force) \/ t = w
  BY <1>7 DEF Submitted
<1>9. Sound(w, 0)
  BY <1>5, <1>6, <1>8, SettleFlightKeeps
<1> QED BY <1>8, <1>9, RedriveKeeps

LEMMA InDoubtKeeps ==
  ASSUME NEW s, Sound(s, 0), NEW f \in 1..MaxFlights, s.mem.flights[f] # Free,
         RetiredStaysRetired => \A g \in Others(f) : ~Flying(s, g), NEW t \in InDoubt(s, f)
  PROVE  Sound(t, 0)
<1> DEFINE v == IF Marks(s, f) THEN DeactivateMark(s) ELSE s
<1>0. s \in State
  BY DEF Sound, Typed
<1>1. Sound(v, f)
  BY MarkEnds
<1>2. v.mem.flights = s.mem.flights
  BY <1>0 DEF DeactivateMark, State, MemType
<1> HIDE DEF v
<1>3. PICK w \in SettleFlight(v, f) : t = Redrive(w, FALSE) \/ t = w
  BY DEF InDoubt, v
<1>4. Sound(w, 0)
  BY <1>1, <1>2, <1>3, SettleFlightKeeps
<1> QED BY <1>3, <1>4, RedriveKeeps

LEMMA EndsAlone ==
  ASSUME IInv, NEW f \in 1..MaxFlights, mem.flights[f] # Free,
         IsCurrent(Now, f) \/ LateAbsence
  PROVE  RetiredStaysRetired => \A g \in Others(f) : ~Flying(Now, g)
<1> SUFFICES ASSUME RetiredStaysRetired PROVE \A g \in Others(f) : ~Flying(Now, g)
  OBVIOUS
<1>1. CASE IsCurrent(Now, f)
  BY <1>1, NowSound, OnlyFlight DEF Flying
<1>2. CASE LateAbsence
  BY <1>2 DEF RetiredStaysRetired, Others
<1> QED BY <1>1, <1>2

LEMMA FlightOf ==
  ASSUME IInv, NEW f \in 1..MaxFlights, mem.flights[f] # Free
  PROVE  LET flight == mem.flights[f] IN
         /\ flight \in FlightType /\ flight.pty \in Ptys /\ flight.batch \subseteq DOMAIN rows
         /\ flight.into \in {0, flight.inc} /\ flight.inc # 0
         /\ flight.step \in {"armed", "probing", "held"} => flight.into = flight.inc
<1>1. Sound(Now, 0) /\ Now.mem = mem /\ Now.rows = rows
  BY NowSound
<1>2. mem.flights[f] \in FlightType
  BY <1>1 DEF Sound, Typed, State, MemType
<1>3. mem.flights[f].pty \in Ptys /\ mem.flights[f].inc # 0
  BY <1>2, PointerAssumption DEF FlightType
<1>4. mem.flights[f].batch \subseteq DOMAIN rows
  BY <1>1 DEF Sound, Typed
<1>5. /\ mem.flights[f].into \in {0, mem.flights[f].inc}
      /\ mem.flights[f].step \in {"armed", "probing", "held"} => mem.flights[f].into = mem.flights[f].inc
  BY <1>1 DEF Sound, TextLands
<1> QED BY <1>2, <1>3, <1>4, <1>5

\* A row whose text is written, and no more, has not been entered nor delivered.
LEMMA NotPast ==
  ASSUME NEW rs \in Seq(RowType), Tidy(rs), NEW m \in DOMAIN rs, rs[m].phase \in {RESERVED, WRITE_ATTEMPTED},
         NEW at
  PROVE  ~Past(rs[m], at)
BY DEF Tidy, Past, RESERVED, WRITE_ATTEMPTED, ENTER_ATTEMPTED

\* A flight that is not its pane's any more just ends.
LEMMA RetiredEnds ==
  ASSUME IInv, NEW f \in 1..MaxFlights, mem.flights[f] # Free, ~IsCurrent(Now, f),
         \E s \in SettleFlight(Now, f) : Becomes(s)
  PROVE  IInv'
<1>1. PICK s \in SettleFlight(Now, f) : Becomes(s)
  OBVIOUS
<1>2. Sound(Now, 0) /\ Now.mem = mem
  BY NowSound
<1>3. PICK n : n = Now
  OBVIOUS
<1>4. Sound(n, f) /\ n.mem.flights[f] # Free /\ s \in SettleFlight(n, f)
  BY <1>1, <1>2, <1>3, MarkOfOthers DEF Flying
<1>5. Sound(s, 0)
  BY <1>4, SettleFlightKeeps
<1> QED BY <1>1, <1>5, BecomesSound

LEMMA SettlePasteKeeps ==
  ASSUME IInv, NEW f \in 1..MaxFlights, SettlePaste(f)
  PROVE  IInv'
<1> DEFINE flight == mem.flights[f]
<1>0. flight.step = "writing" /\ flight # Free
  BY DEF SettlePaste, Free
<1>1. CASE ~IsCurrent(Now, f)
  <2>1. \E s \in SettleFlight(Now, f) : Becomes(s)
    BY <1>1 DEF SettlePaste
  <2> QED BY <1>0, <1>1, <2>1, RetiredEnds
<1>2. CASE IsCurrent(Now, f)
  <2> PICK n : n = Now
    OBVIOUS
  <2>1. /\ Sound(n, 0) /\ n \in State /\ n.mem = mem /\ n.rows = rows /\ n.owner = owner /\ n.term = term
        /\ rows \in Seq(RowType) /\ Tidy(rows)
    BY NowSound
  <2>2. RetiredStaysRetired => \A g \in Others(f) : ~Flying(n, g)
    BY <1>0, <1>2, EndsAlone
  <2>3. RetiredStaysRetired => \A m \in flight.batch : ~rows[m].read => rows[m].phase = WRITE_ATTEMPTED
    <3>1. Flying(n, f) /\ f \in Others(0)
      BY <1>0, <1>2, <2>1, PointerAssumption DEF Flying, Others
    <3>2. RetiredStaysRetired => Whole(rows, flight)
      BY <2>1, <3>1 DEF Sound, FlightsHold
    <3> QED BY <1>0, <3>2 DEF Whole
  <2>4. flight \in FlightType /\ flight.batch \subseteq DOMAIN rows /\ flight.into \in {0, flight.inc}
    BY <1>0, FlightOf
  <2> DEFINE v == IF Marks(n, f) THEN ClearMark(n) ELSE n
             w == IF Marks(n, f) THEN DeactivateMark(n) ELSE n
             cleared == IF Marks(n, f) THEN Redrive(ClearMark(n), FALSE) ELSE n
  <2>5. Sound(v, f) /\ Sound(w, f)
    BY <2>1, <2>2, MarkEnds
  <2>6. Sound(cleared, f)
    BY <2>5, RedriveKeeps
  <2>7. /\ cleared.mem.flights = mem.flights /\ cleared.rows = rows /\ cleared.owner = owner
        /\ cleared.term = term /\ cleared.mem.current = mem.current
    BY <2>1 DEF ClearMark, Redrive, State, MemType
  <2>8. w.mem.flights = mem.flights
    BY <2>1 DEF DeactivateMark, State, MemType
  <2>9. PICK outcome \in Outcomes(flight.into # 0) :
          \/ \E s \in SettleFlight(w, f) : Becomes(s)
          \/ \E s \in SettleFlight([cleared EXCEPT !.rows = MarkedUndelivered(@, flight.batch)], f) : Becomes(s)
          \/ \E s \in SettleFlight(cleared, f) : Becomes(s)
          \/ \E s \in SettleFlight(Redrive([ClearMark(n) EXCEPT
                                               !.rows = MarkedDelivered(@, flight.batch)], FALSE), f) : Becomes(s)
          \/ outcome = "accepted" /\ Becomes([Now EXCEPT !.mem.flights[f].step = "armed"])
    BY <1>2 DEF SettlePaste
  <2> HIDE DEF v, w, cleared
  <2>10. CASE \E s \in SettleFlight(w, f) : Becomes(s)
    <3> PICK s \in SettleFlight(w, f) : Becomes(s)
      BY <2>10
    <3> QED BY <1>0, <2>5, <2>8, SettleFlightKeeps, BecomesSound
  <2>11. CASE \E s \in SettleFlight([cleared EXCEPT !.rows = MarkedUndelivered(@, flight.batch)], f) : Becomes(s)
    <3> DEFINE out == MarkedUndelivered(rows, flight.batch)
               u == [cleared EXCEPT !.rows = out]
    <3>1. PICK s \in SettleFlight(u, f) : Becomes(s)
      BY <2>7, <2>11
    <3>2. /\ LetGo(rows, out, flight.batch)
          /\ \A m \in DOMAIN rows : IF m \in flight.batch /\ ~rows[m].read THEN out[m].phase = 0 ELSE out[m] = rows[m]
      BY <2>1, MarkedUndeliveredDoes
    <3> HIDE DEF out
    <3>3. RetiredStaysRetired => \A m \in DOMAIN rows : out[m] = rows[m] \/ ~Past(rows[m], Known(cleared, cleared.owner))
      BY <2>1, <2>3, <3>2, NotPast
    <3>4. RetiredStaysRetired => \A g \in Others(f) : ~Flying(cleared, g)
      BY <2>1, <2>2, <2>7 DEF Flying, IsCurrent
    <3>5. Sound(u, f)
      BY <2>6, <2>7, <3>2, <3>3, <3>4, RowsOfEnding
    <3>6. u.mem.flights = mem.flights
      <4>1. cleared \in State
        BY <2>6 DEF Sound, Typed
      <4> QED BY <2>7, <4>1 DEF State
    <3> HIDE DEF u
    <3> QED BY <1>0, <3>1, <3>5, <3>6, SettleFlightKeeps, BecomesSound
  <2>12. CASE \E s \in SettleFlight(cleared, f) : Becomes(s)
    <3> PICK s \in SettleFlight(cleared, f) : Becomes(s)
      BY <2>12
    <3> QED BY <1>0, <2>6, <2>7, SettleFlightKeeps, BecomesSound
  <2>13. CASE \E s \in SettleFlight(Redrive([ClearMark(n) EXCEPT
                                               !.rows = MarkedDelivered(@, flight.batch)], FALSE), f) : Becomes(s)
    <3> DEFINE c == ClearMark(n)
               out == MarkedDelivered(rows, flight.batch)
               u == [c EXCEPT !.rows = out]
               r == Redrive(u, FALSE)
    <3>0. c \in State /\ c.rows = rows /\ c.mem.flights = mem.flights /\ c.mem.current = mem.current
      BY <2>1, ClearMarkLeaves
    <3>1. PICK s \in SettleFlight(r, f) : Becomes(s)
      BY <2>13, <3>0
    <3>2. LetGo(rows, out, flight.batch) /\ \A m \in DOMAIN rows : out[m] = rows[m] \/ out[m].delivered
      BY <2>1, MarkedDeliveredDoes
    <3>3. Sound(c, f)
      BY <2>1, <2>2, ClearMarkKeeps
    <3> HIDE DEF out, c
    <3>4. RetiredStaysRetired => \A g \in Others(f) : ~Flying(c, g)
      BY <2>1, <2>2, <3>0 DEF Flying, IsCurrent
    <3>5. Sound(u, f)
      BY <3>0, <3>2, <3>3, <3>4, RowsOfEnding
    <3>6. u.mem.flights = mem.flights /\ u \in State
      BY <3>0, <3>5 DEF State, Sound, Typed
    <3> HIDE DEF u
    <3>7. Sound(r, f)
      BY <3>5, RedriveKeeps
    <3>8. r.mem.flights = mem.flights
      BY <3>6 DEF Redrive, State, MemType
    <3> HIDE DEF r
    <3> QED BY <1>0, <3>1, <3>7, <3>8, SettleFlightKeeps, BecomesSound
  <2>14. CASE outcome = "accepted" /\ Becomes([Now EXCEPT !.mem.flights[f].step = "armed"])
    <3>1. flight.into # 0
      BY <2>9, <2>14 DEF Outcomes
    <3>2. PICK s : s = [n EXCEPT !.mem.flights[f].step = "armed"] /\ Becomes(s)
      BY <2>14 DEF Becomes
    <3>3. /\ n.mem.flights[f] # Free /\ n.mem.flights[f].step # "entering"
          /\ n.mem.flights[f].into = n.mem.flights[f].inc
      BY <1>0, <2>1, <2>4, <3>1
    <3> HIDE DEF flight
    <3>4. "armed" \in {"armed", "probing", "held"}
      OBVIOUS
    <3>5. Sound([n EXCEPT !.mem.flights[f].step = "armed"], 0)
      BY <2>1, <3>3, <3>4, FlightMoves
    <3>6. Sound(s, 0)
      BY <3>2, <3>5
    <3> QED BY <3>2, <3>6, BecomesSound
  <2> QED BY <2>9, <2>10, <2>11, <2>12, <2>13, <2>14
<1> QED BY <1>1, <1>2

LEMMA EnterTimerKeeps ==
  ASSUME IInv, NEW f \in 1..MaxFlights, EnterTimer(f)
  PROVE  IInv'
<1> PICK n : n = Now
  OBVIOUS
<1>1. Sound(n, 0) /\ n.mem = mem
  BY NowSound
<1>2. mem.flights[f].step = "armed" /\ mem.flights[f] # Free
  BY DEF EnterTimer, Free
<1>3. mem.flights[f].into = mem.flights[f].inc
  BY <1>2, FlightOf
<1>4. PICK s : s = [n EXCEPT !.mem.flights[f].step = "probing"] /\ Becomes(s)
  BY DEF EnterTimer, Becomes
<1>5. /\ n.mem.flights[f] # Free /\ n.mem.flights[f].step # "entering"
      /\ n.mem.flights[f].into = n.mem.flights[f].inc /\ "probing" \in {"armed", "probing", "held"}
  BY <1>1, <1>2, <1>3
<1>6. Sound([n EXCEPT !.mem.flights[f].step = "probing"], 0)
  BY <1>1, <1>5, FlightMoves
<1> QED BY <1>4, <1>6, BecomesSound

\* The settlement of an Enter.
LEMMA SettleEnterKeeps ==
  ASSUME IInv, NEW f \in 1..MaxFlights, SettleEnter(f)
  PROVE  IInv'
<1> DEFINE flight == mem.flights[f]
           rs == Settled(rows, flight.batch, <<flight.pty, flight.inc>>, {ENTER_ATTEMPTED})
<1>0. flight.step = "entering" /\ flight # Free
  BY DEF SettleEnter, Free
<1>1. CASE ~IsCurrent(Now, f)
  <2>1. \E s \in SettleFlight(Now, f) : Becomes(s)
    BY <1>1 DEF SettleEnter
  <2> QED BY <1>0, <1>1, <2>1, RetiredEnds
<1>2. CASE IsCurrent(Now, f)
  <2> PICK n : n = Now
    OBVIOUS
  <2>1. Sound(n, 0) /\ n.mem = mem /\ n.rows = rows /\ rows \in Seq(RowType)
    BY NowSound
  <2>2. RetiredStaysRetired => \A g \in Others(f) : ~Flying(n, g)
    BY <1>0, <1>2, EndsAlone
  <2>3. \E s \in Submitted(n, f, rs, TRUE, FALSE) \cup Submitted(n, f, rs, FALSE, FALSE) \cup InDoubt(n, f) :
           Becomes(s)
    BY <1>2 DEF SettleEnter, Outcomes
  <2>4. PICK s : Becomes(s) /\ \/ \E redrive \in BOOLEAN : s \in Submitted(n, f, rs, redrive, FALSE)
                               \/ s \in InDoubt(n, f)
    BY <2>3
  <2>5. LetGo(rows, rs, flight.batch) /\ \A m \in DOMAIN rows : rs[m] = rows[m] \/ rs[m].delivered
    BY <2>1, SettledDoes
  <2>6. n.mem.flights[f] # Free
    BY <1>0, <2>1
  <2> HIDE DEF rs, flight
  <2>7. LetGo(n.rows, rs, flight.batch)
        /\ \A m \in DOMAIN n.rows :
              rs[m] = n.rows[m] \/ rs[m].delivered \/ ~Past(n.rows[m], Known(n, n.owner))
    BY <2>1, <2>5
  <2>8. ASSUME NEW redrive \in BOOLEAN, s \in Submitted(n, f, rs, redrive, FALSE) PROVE Sound(s, 0)
    BY <2>1, <2>2, <2>6, <2>7, <2>8, SubmittedKeeps
  <2>9. ASSUME s \in InDoubt(n, f) PROVE Sound(s, 0)
    BY <2>1, <2>2, <2>6, <2>9, InDoubtKeeps
  <2> QED BY <2>4, <2>8, <2>9, BecomesSound
<1> QED BY <1>1, <1>2

\* Enter is written for flight f: what becomes of its rows, of itself and of the history.
EnteredRows(s, f) ==
    [m \in DOMAIN s.rows |-> IF m \in s.mem.flights[f].batch
                             THEN [s.rows[m] EXCEPT !.phase = ENTER_ATTEMPTED] ELSE s.rows[m]]

EnteringFlight(s, f, into) == [s.mem.flights[f] EXCEPT !.step = "entering", !.into = into]

KeysPressed(s, f, into) ==
    IF into = 0 THEN s.keys
    ELSE LET pressed == s.mem.flights[f].batch \X {s.mem.flights[f].pty}
         IN  [submitted |-> s.keys.submitted \cup pressed,
              twice |-> s.keys.twice \/ s.keys.submitted \cap pressed # {},
              stray |-> s.keys.stray \/ into # s.mem.flights[f].into]

LEMMA EnteringKeeps ==
  ASSUME NEW s, Sound(s, 0), NEW f \in 1..MaxFlights, Flying(s, f), s.mem.flights[f].step = "probing",
         s.term[s.mem.flights[f].pty].known = s.mem.flights[f].inc, s.owner = s.mem.flights[f].pty,
         \A m \in s.mem.flights[f].batch :
            ~s.rows[m].read /\ s.rows[m].phase = WRITE_ATTEMPTED
            /\ s.rows[m].at = <<s.mem.flights[f].pty, s.mem.flights[f].inc>>,
         NEW into \in {0, s.term[s.mem.flights[f].pty].runs}
  PROVE  Sound([s EXCEPT !.rows = EnteredRows(s, f), !.mem.flights[f] = EnteringFlight(s, f, into),
                         !.keys = KeysPressed(s, f, into)], 0)
<1> DEFINE flight == s.mem.flights[f]
           p == flight.pty
           out == EnteredRows(s, f)
           moved == EnteringFlight(s, f, into)
           keyed == KeysPressed(s, f, into)
           t == [s EXCEPT !.rows = out, !.mem.flights[f] = moved, !.keys = keyed]
<1>a. /\ flight = s.mem.flights[f] /\ p = flight.pty /\ flight.step = "probing"
      /\ s.term[p].known = flight.inc /\ s.owner = p
      /\ (\A m \in flight.batch : ~s.rows[m].read /\ s.rows[m].phase = WRITE_ATTEMPTED
                                 /\ s.rows[m].at = <<p, flight.inc>>)
      /\ into \in {0, s.term[p].runs}
  OBVIOUS
<1>b. out = [m \in DOMAIN s.rows |-> IF m \in flight.batch
                           THEN [s.rows[m] EXCEPT !.phase = ENTER_ATTEMPTED] ELSE s.rows[m]]
  BY DEF EnteredRows
<1>c. moved = [flight EXCEPT !.step = "entering", !.into = into]
  BY DEF EnteringFlight
<1>d. keyed = IF into = 0 THEN s.keys
              ELSE LET pressed == flight.batch \X {p}
                   IN  [submitted |-> s.keys.submitted \cup pressed,
                        twice |-> s.keys.twice \/ s.keys.submitted \cap pressed # {},
                        stray |-> s.keys.stray \/ into # flight.into]
  BY DEF KeysPressed
<1>e. t = [s EXCEPT !.rows = out, !.mem.flights[f] = moved, !.keys = keyed]
  OBVIOUS
<1>f. \A m \in flight.batch : /\ ~s.rows[m].read /\ s.rows[m].phase = WRITE_ATTEMPTED
                              /\ s.rows[m].at = <<p, flight.inc>>
  OBVIOUS
<1> HIDE DEF flight, p, out, moved, keyed, t
<1>0. s \in State /\ Typed(s) /\ s.rows \in Seq(RowType) /\ Tidy(s.rows) /\ Uniform(s.rows)
  BY DEF Sound, Typed, State
<1>1. flight \in FlightType /\ flight # Free /\ p \in Ptys /\ flight.batch \in SUBSET (1..MaxMessages)
  BY <1>0, <1>a DEF Flying, State, MemType, FlightType
<1>2. flight.into = flight.inc /\ flight.batch \subseteq DOMAIN s.rows /\ flight.inc \in 1..MaxIncarnation
  BY <1>0, <1>1, <1>a DEF Sound, Typed, TextLands, FlightType
<1>3. into \in {0, flight.inc} /\ into \in 0..MaxIncarnation
  <2>1. s.term[p].runs \in {0, s.term[p].known} /\ s.term[p].runs \in 0..MaxIncarnation
    BY <1>0, <1>1, KnownType DEF Sound, ProcessesKnown
  <2>2. flight.inc \in 1..MaxIncarnation /\ MaxIncarnation \in Nat
    BY <1>2, PointerAssumption
  <2>3. s.term[p].known = flight.inc /\ into \in {0, s.term[p].runs}
    BY <1>a
  <2> QED BY <2>1, <2>2, <2>3
<1>4. /\ moved \in FlightType /\ moved # Free /\ moved.step = "entering" /\ moved.into = into
      /\ moved.pty = p /\ moved.inc = flight.inc /\ moved.batch = flight.batch
  BY <1>1, <1>3, <1>a, <1>c DEF FlightType, Free
<1>5. \A m \in DOMAIN s.rows : s.rows[m] \in RowType
  BY <1>0
<1>6. /\ out \in [DOMAIN s.rows -> RowType]
      /\ \A m \in DOMAIN s.rows : /\ out[m].read = s.rows[m].read /\ out[m].delivered = s.rows[m].delivered
                                  /\ out[m].at = s.rows[m].at
                                  /\ out[m].phase = IF m \in flight.batch THEN ENTER_ATTEMPTED ELSE s.rows[m].phase
  <2>1. \A m \in DOMAIN s.rows : out[m] = IF m \in flight.batch
                           THEN [s.rows[m] EXCEPT !.phase = ENTER_ATTEMPTED] ELSE s.rows[m]
    BY <1>b
  <2>2. ASSUME NEW m \in DOMAIN s.rows PROVE
          out[m] \in RowType /\ out[m].read = s.rows[m].read /\ out[m].delivered = s.rows[m].delivered
          /\ out[m].at = s.rows[m].at
          /\ out[m].phase = IF m \in flight.batch THEN ENTER_ATTEMPTED ELSE s.rows[m].phase
    <3>1. s.rows[m] \in RowType
      BY <1>5
    <3>2. CASE m \in flight.batch
      <4>1. out[m] = [s.rows[m] EXCEPT !.phase = ENTER_ATTEMPTED]
        BY <2>1, <3>2
      <4> QED BY <3>1, <3>2, <4>1 DEF RowType, ENTER_ATTEMPTED
    <3>3. CASE m \notin flight.batch
      BY <2>1, <3>1, <3>3
    <3> QED BY <3>2, <3>3
  <2>3. DOMAIN out = DOMAIN s.rows /\ out = [m \in DOMAIN s.rows |-> out[m]]
    BY <1>b
  <2> QED BY <2>2, <2>3
<1>7. out \in Seq(RowType) /\ DOMAIN out = DOMAIN s.rows /\ Len(out) = Len(s.rows)
  BY <1>0, <1>6, RowsMapped
<1>p. \A m \in DOMAIN s.rows : /\ out[m].phase = 0 <=> s.rows[m].phase = 0
                               /\ out[m].phase > 0 <=> s.rows[m].phase > 0
  <2> SUFFICES ASSUME NEW m \in DOMAIN s.rows
               PROVE  (out[m].phase = 0 <=> s.rows[m].phase = 0) /\ (out[m].phase > 0 <=> s.rows[m].phase > 0)
    OBVIOUS
  <2>1. CASE m \in flight.batch
    <3>1. out[m].phase = ENTER_ATTEMPTED
      BY <1>6, <2>1
    <3>2. s.rows[m].phase = WRITE_ATTEMPTED
      BY <1>f, <2>1
    <3> QED BY <3>1, <3>2 DEF ENTER_ATTEMPTED, WRITE_ATTEMPTED
  <2>2. CASE m \notin flight.batch
    BY <1>6, <2>2
  <2> QED BY <2>1, <2>2
<1>8. Tidy(out)
  <2> SUFFICES ASSUME NEW m \in DOMAIN s.rows
               PROVE  /\ out[m].phase = 0 <=> out[m].at = <<>>
                      /\ out[m].phase > 0 => ~out[m].read /\ ~out[m].delivered
    BY <1>7 DEF Tidy
  <2>1. /\ s.rows[m].phase = 0 <=> s.rows[m].at = <<>>
        /\ s.rows[m].phase > 0 => ~s.rows[m].read /\ ~s.rows[m].delivered
    BY <1>0 DEF Tidy
  <2>2. out[m].read = s.rows[m].read /\ out[m].delivered = s.rows[m].delivered /\ out[m].at = s.rows[m].at
    BY <1>6
  <2>3. (out[m].phase = 0 <=> s.rows[m].phase = 0) /\ (out[m].phase > 0 <=> s.rows[m].phase > 0)
    BY <1>p
  <2> QED BY <2>1, <2>2, <2>3
<1>9. Uniform(out)
  <2> SUFFICES ASSUME NEW m \in DOMAIN s.rows, NEW k \in DOMAIN s.rows, out[m].phase > 0, out[k].phase > 0
               PROVE  out[m].at = out[k].at
    BY <1>7 DEF Uniform
  <2>1. s.rows[m].phase > 0 /\ s.rows[k].phase > 0
    BY <1>p
  <2>2. s.rows[m].at = s.rows[k].at
    BY <1>0, <2>1 DEF Uniform
  <2>3. out[m].at = s.rows[m].at /\ out[k].at = s.rows[k].at
    BY <1>6
  <2> QED BY <2>2, <2>3
<1>10. keyed \in KeyType
  <2>1. s.keys \in KeyType
    BY <1>0 DEF State
  <2>2. flight.batch \X {p} \in SUBSET ((1..MaxMessages) \X Ptys)
    BY <1>1
  <2> QED BY <1>d, <2>1, <2>2 DEF KeyType
<1>11. s.mem \in MemType /\ s.mem.flights \in [1..MaxFlights -> {Free} \cup FlightType]
  BY <1>0 DEF State, MemType
<1>12. /\ t.rows = out /\ t.outstanding = s.outstanding /\ t.owner = s.owner /\ t.waiter = s.waiter
       /\ t.keys = keyed /\ t.term = s.term /\ t.offered = s.offered
       /\ t.mem = [s.mem EXCEPT !.flights = [s.mem.flights EXCEPT ![f] = moved]]
  BY <1>0, <1>e DEF State, MemType
<1>13. t.mem.flights \in [1..MaxFlights -> {Free} \cup FlightType] /\ t.mem.flights[f] = moved
       /\ (\A g \in 1..MaxFlights : g # f => t.mem.flights[g] = s.mem.flights[g])
       /\ t.mem.current = s.mem.current /\ t.mem.mark = s.mem.mark
       /\ t.mem.parked = s.mem.parked /\ t.mem.probing = s.mem.probing
  <2>1. /\ t.mem.flights = [s.mem.flights EXCEPT ![f] = moved] /\ t.mem.current = s.mem.current
        /\ t.mem.mark = s.mem.mark /\ t.mem.parked = s.mem.parked /\ t.mem.probing = s.mem.probing
    BY <1>11, <1>12 DEF MemType
  <2> QED BY <1>4, <1>11, <2>1
<1>14. t \in State
  <2>1. t.mem \in MemType
    BY <1>11, <1>12, <1>13 DEF MemType
  <2>2. t = [s EXCEPT !.rows = out, !.mem = t.mem, !.keys = keyed]
    BY <1>e, <1>12
  <2> QED BY <1>0, <1>7, <1>10, <2>1, <2>2 DEF State
<1>15. \A g \in 1..MaxFlights : /\ t.mem.flights[g] = Free <=> s.mem.flights[g] = Free
                                /\ s.mem.flights[g] # Free => t.mem.flights[g].pty = s.mem.flights[g].pty
                                                           /\ t.mem.flights[g].batch = s.mem.flights[g].batch
  BY <1>1, <1>4, <1>13, <1>a
<1>16. Typed(t)
  BY <1>0, <1>7, <1>8, <1>12, <1>14, <1>15 DEF Typed
<1>17. ProcessesKnown(t)
  BY <1>12 DEF Sound, ProcessesKnown
<1>18. TextLands(t)
  BY <1>3, <1>4, <1>13, <1>a DEF Sound, TextLands
<1>19. PanesFly(t)
  <2>1. s.mem.current \in [Ptys -> 0..MaxFlights]
    BY <1>11 DEF MemType
  <2> SUFFICES ASSUME NEW q \in Ptys, s.mem.current[q] # 0
               PROVE  t.mem.flights[s.mem.current[q]] # Free /\ t.mem.flights[s.mem.current[q]].pty = q
    BY <1>13 DEF PanesFly
  <2>2. s.mem.flights[s.mem.current[q]] # Free /\ s.mem.flights[s.mem.current[q]].pty = q
    BY DEF Sound, PanesFly
  <2>3. s.mem.current[q] \in 1..MaxFlights
    BY <2>1, PointerAssumption
  <2> QED BY <1>15, <2>2, <2>3
<1>20. ParkedBehind(t) /\ ProbesOwner(t)
  BY <1>12, <1>13 DEF Sound, ParkedBehind, ProbesOwner
<1>21. NoStray(t)
  <2>1. ~s.keys.stray
    BY DEF Sound, NoStray
  <2>2. CASE into = 0
    BY <1>12, <1>d, <2>1, <2>2 DEF NoStray
  <2>3. CASE into # 0
    <3>1. into = flight.into
      BY <1>2, <1>3, <2>3
    <3>2. keyed.stray = FALSE
      BY <1>d, <2>1, <2>3, <3>1
    <3> QED BY <1>12, <3>2 DEF NoStray
  <2> QED BY <2>2, <2>3
<1>22. \A g \in 1..MaxFlights : (Flying(t, g) <=> Flying(s, g)) /\ (Flying(s, g) => (Marks(t, g) <=> Marks(s, g)))
  BY <1>13, <1>15 DEF Flying, IsCurrent, Marks
<1>23. MarkStands(t, 0)
  BY <1>13, <1>22 DEF Sound, MarkStands, Others
<1>24. FlightsHold(t, 0)
  <2> SUFFICES ASSUME RetiredStaysRetired, NEW g \in Others(0), Flying(t, g)
               PROVE  t.mem.mark.active /\ Marks(t, g) /\ Whole(t.rows, t.mem.flights[g])
    BY DEF FlightsHold
  <2>1. Flying(s, g) /\ s.mem.mark.active /\ Marks(s, g)
    BY <1>22 DEF Sound, FlightsHold, Others
  <2>2. g = f
    BY <2>1, OnlyFlight DEF Others
  <2>3. Whole(out, moved)
    BY <1>1, <1>2, <1>4, <1>6, <1>a DEF Whole
  <2> QED BY <1>12, <1>13, <1>22, <2>1, <2>2, <2>3
<1>25. EntersOnce(t)
  <2> SUFFICES ASSUME RetiredStaysRetired, ~LateProbes PROVE EntersOnce(t)
    BY DEF EntersOnce
  <2>1. ~s.keys.twice /\ \A k \in s.keys.submitted :
              /\ k[2] = p /\ s.term[p].runs # 0
              /\ k[1] \in DOMAIN s.rows /\ Past(s.rows[k[1]], Known(s, p))
    BY <1>a DEF Sound, EntersOnce
  <2>2. \A m \in flight.batch : ~Past(s.rows[m], Known(s, p))
    BY <1>0, <1>2, <1>a, NotPast
  <2>3. \A k \in s.keys.submitted : k[1] \notin flight.batch
    BY <2>1, <2>2
  <2>4. Known(t, p) = Known(s, p) /\ Known(s, p) = <<p, flight.inc>>
    BY <1>12, <1>a DEF Known
  <2>5. \A k \in s.keys.submitted : Past(out[k[1]], Known(t, p))
    BY <1>6, <2>1, <2>3, <2>4 DEF Past
  <2>6. \A m \in flight.batch : Past(out[m], Known(t, p))
    BY <1>2, <1>6, <1>a, <2>4 DEF Past
  <2>7. CASE into = 0
    BY <1>7, <1>12, <1>a, <1>d, <2>1, <2>5, <2>7 DEF EntersOnce
  <2>8. CASE into # 0
    <3>1. s.keys.submitted \cap (flight.batch \X {p}) = {}
      BY <2>3
    <3>2. keyed.twice = FALSE /\ keyed.submitted = s.keys.submitted \cup (flight.batch \X {p})
      BY <1>d, <2>1, <2>8, <3>1
    <3>3. \A k \in keyed.submitted : k[2] = p /\ k[1] \in DOMAIN out /\ Past(out[k[1]], Known(t, p))
      BY <1>2, <1>7, <2>1, <2>5, <2>6, <3>2
    <3> QED BY <1>12, <1>a, <2>8, <3>2, <3>3 DEF EntersOnce
  <2> QED BY <2>7, <2>8
<1> QED BY <1>9, <1>12, <1>16, <1>17, <1>18, <1>19, <1>20, <1>21, <1>23, <1>24, <1>25 DEF Sound, t, out, moved, keyed

\* What Submit may do, told by the operators above.
LEMMA SubmitDoes ==
  ASSUME IInv, NEW f \in 1..MaxFlights, Submit(f), NEW n, n = Now
  PROVE  LET flight == mem.flights[f]
             p == flight.pty
             target == <<p, flight.inc>>
             released == Released(rows, flight.batch, target, {WRITE_ATTEMPTED})
             settled == Settled(rows, flight.batch, target, {WRITE_ATTEMPTED})
             marked == \A m \in flight.batch :
                          ~rows[m].read /\ rows[m].phase = WRITE_ATTEMPTED /\ rows[m].at = target
         IN  \/ (IsCurrent(n, f) \/ LateAbsence) /\ \E s \in Submitted(n, f, released, TRUE, TRUE) : Becomes(s)
             \/ ~IsCurrent(n, f) /\ \E s \in SettleFlight(n, f) : Becomes(s)
             \/ IsCurrent(n, f) /\ Becomes([Now EXCEPT !.mem.flights[f].step = "held"])
             \/ IsCurrent(n, f) /\ \E s \in Submitted(n, f, settled, FALSE, FALSE) : Becomes(s)
             \/ IsCurrent(n, f) /\ \E s \in InDoubt(n, f) : Becomes(s)
             \/ IsCurrent(n, f) /\ SameTarget(f) /\ marked /\ \E into \in {0, term[p].runs} :
                   Becomes([n EXCEPT !.rows = EnteredRows(n, f), !.mem.flights[f] = EnteringFlight(n, f, into),
                                     !.keys = KeysPressed(n, f, into)])
<1> DEFINE flight == mem.flights[f]
           p == flight.pty
           target == <<p, flight.inc>>
           released == Released(rows, flight.batch, target, {WRITE_ATTEMPTED})
           settled == Settled(rows, flight.batch, target, {WRITE_ATTEMPTED})
           marked == \A m \in flight.batch :
                        ~rows[m].read /\ rows[m].phase = WRITE_ATTEMPTED /\ rows[m].at = target
<1>1. /\ n \in State /\ n.mem = mem /\ n.rows = rows /\ n.keys = keys
  BY NowSound
<1> DEFINE pressed == flight.batch \X {p}
           enter(into) ==
          [Now EXCEPT
             !.rows = [m \in DOMAIN @ |-> IF m \in flight.batch
                         THEN [@[m] EXCEPT !.phase = ENTER_ATTEMPTED] ELSE @[m]],
             !.mem.flights[f] = [flight EXCEPT !.step = "entering", !.into = into],
             !.keys = IF into = 0 THEN @
                      ELSE [submitted |-> @.submitted \cup pressed,
                            twice |-> @.twice \/ @.submitted \cap pressed # {},
                            stray |-> @.stray \/ into # flight.into]]
<1>2. \/ (IsCurrent(Now, f) \/ LateAbsence) /\ \E s \in Submitted(Now, f, released, TRUE, TRUE) : Becomes(s)
      \/ ~IsCurrent(Now, f) /\ \E s \in SettleFlight(Now, f) : Becomes(s)
      \/ IsCurrent(Now, f) /\ Becomes([Now EXCEPT !.mem.flights[f].step = "held"])
      \/ IsCurrent(Now, f) /\ \E s \in Submitted(Now, f, settled, FALSE, FALSE) : Becomes(s)
      \/ IsCurrent(Now, f) /\ \E s \in InDoubt(Now, f) : Becomes(s)
      \/ IsCurrent(Now, f) /\ SameTarget(f) /\ marked /\ \E into \in {0, term[p].runs} : Becomes(enter(into))
  <2> HIDE DEF Now
  <2> QED BY DEF Submit
<1>3. \A into : [n EXCEPT !.rows = EnteredRows(n, f), !.mem.flights[f] = EnteringFlight(n, f, into),
                          !.keys = KeysPressed(n, f, into)] = enter(into)
  BY <1>1 DEF EnteredRows, EnteringFlight, KeysPressed
<1> HIDE DEF enter, released, settled, flight, marked, p
<1>4. ASSUME NEW into, Becomes(enter(into))
      PROVE Becomes([n EXCEPT !.rows = EnteredRows(n, f), !.mem.flights[f] = EnteringFlight(n, f, into),
                              !.keys = KeysPressed(n, f, into)])
  BY <1>3, <1>4
<1> QED BY <1>2, <1>4 DEF released, settled, flight, marked, p

\* What a probe finds before Enter.
LEMMA SubmitKeeps ==
  ASSUME IInv, NEW f \in 1..MaxFlights, Submit(f)
  PROVE  IInv'
<1> DEFINE flight == mem.flights[f]
           p == flight.pty
           target == <<p, flight.inc>>
           released == Released(rows, flight.batch, target, {WRITE_ATTEMPTED})
           settled == Settled(rows, flight.batch, target, {WRITE_ATTEMPTED})
           marked == \A m \in flight.batch :
                        ~rows[m].read /\ rows[m].phase = WRITE_ATTEMPTED /\ rows[m].at = target
<1> PICK n : n = Now
  OBVIOUS
<1>0. flight.step = "probing" /\ flight # Free
  <2>1. mem.flights[f].step = "probing"
    BY DEF Submit
  <2> HIDE DEF flight
  <2>2. flight.step = "probing"
    BY <2>1 DEF flight
  <2> QED BY <2>2 DEF Free
<1>1. /\ Sound(n, 0) /\ n \in State /\ n.mem = mem /\ n.rows = rows /\ n.owner = owner /\ n.term = term
      /\ n.keys = keys /\ rows \in Seq(RowType) /\ Tidy(rows)
  BY NowSound
<1>2. flight \in FlightType /\ p \in Ptys /\ flight.batch \subseteq DOMAIN rows /\ flight.into = flight.inc
  BY <1>0, FlightOf
<1>3. \/ (IsCurrent(n, f) \/ LateAbsence) /\ \E s \in Submitted(n, f, released, TRUE, TRUE) : Becomes(s)
      \/ ~IsCurrent(n, f) /\ \E s \in SettleFlight(n, f) : Becomes(s)
      \/ IsCurrent(n, f) /\ Becomes([Now EXCEPT !.mem.flights[f].step = "held"])
      \/ IsCurrent(n, f) /\ \E s \in Submitted(n, f, settled, FALSE, FALSE) : Becomes(s)
      \/ IsCurrent(n, f) /\ \E s \in InDoubt(n, f) : Becomes(s)
      \/ IsCurrent(n, f) /\ SameTarget(f) /\ marked /\ \E into \in {0, term[p].runs} :
            Becomes([n EXCEPT !.rows = EnteredRows(n, f), !.mem.flights[f] = EnteringFlight(n, f, into),
                              !.keys = KeysPressed(n, f, into)])
  BY SubmitDoes
<1>4. n.mem.flights[f] # Free
  BY <1>0, <1>1
<1>5. IsCurrent(n, f) \/ LateAbsence => (RetiredStaysRetired => \A g \in Others(f) : ~Flying(n, g))
  BY <1>0, EndsAlone
<1>6. /\ LetGo(n.rows, released, flight.batch)
      /\ \A m \in DOMAIN n.rows : released[m] = n.rows[m] \/ ~Past(n.rows[m], Known(n, n.owner))
  <2>1. LetGo(rows, released, flight.batch) /\ \A m \in DOMAIN rows :
               ~(m \in flight.batch /\ ~rows[m].read /\ rows[m].at = target
                 /\ rows[m].phase \in {WRITE_ATTEMPTED})
               => released[m] = rows[m]
    BY <1>1, ReleasedDoes
  <2> HIDE DEF released
  <2>2. \A m \in DOMAIN rows : rows[m].phase \in {WRITE_ATTEMPTED} => ~Past(rows[m], Known(n, n.owner))
    BY <1>1, NotPast
  <2> QED BY <1>1, <2>1, <2>2
<1>7. /\ LetGo(n.rows, settled, flight.batch)
      /\ \A m \in DOMAIN n.rows : settled[m] = n.rows[m] \/ settled[m].delivered
  <2>1. LetGo(rows, settled, flight.batch) /\ \A m \in DOMAIN rows : settled[m] = rows[m] \/ settled[m].delivered
    BY <1>1, SettledDoes
  <2> QED BY <1>1, <2>1
<1> HIDE DEF released, settled
<1>8. CASE (IsCurrent(n, f) \/ LateAbsence) /\ \E s \in Submitted(n, f, released, TRUE, TRUE) : Becomes(s)
  <2>1. PICK s \in Submitted(n, f, released, TRUE, TRUE) : Becomes(s)
    BY <1>8
  <2>2. RetiredStaysRetired => \A g \in Others(f) : ~Flying(n, g)
    BY <1>5, <1>8
  <2> HIDE DEF flight
  <2>3. Sound(s, 0)
    BY <1>1, <1>4, <1>6, <2>1, <2>2, SubmittedKeeps
  <2> QED BY <2>1, <2>3, BecomesSound
<1>9. CASE ~IsCurrent(n, f) /\ \E s \in SettleFlight(n, f) : Becomes(s)
  BY <1>0, <1>9, RetiredEnds
<1>10. CASE IsCurrent(n, f) /\ Becomes([Now EXCEPT !.mem.flights[f].step = "held"])
  <2>1. PICK s : s = [n EXCEPT !.mem.flights[f].step = "held"] /\ Becomes(s)
    BY <1>10 DEF Becomes
  <2>2. /\ n.mem.flights[f].step # "entering" /\ n.mem.flights[f].into = n.mem.flights[f].inc
        /\ "held" \in {"armed", "probing", "held"}
    BY <1>0, <1>1, <1>2
  <2> HIDE DEF flight
  <2>3. Sound([n EXCEPT !.mem.flights[f].step = "held"], 0)
    BY <1>1, <1>4, <2>2, FlightMoves
  <2> QED BY <2>1, <2>3, BecomesSound
<1>11. CASE IsCurrent(n, f) /\ \E s \in Submitted(n, f, settled, FALSE, FALSE) : Becomes(s)
  <2>1. PICK s \in Submitted(n, f, settled, FALSE, FALSE) : Becomes(s)
    BY <1>11
  <2>2. RetiredStaysRetired => \A g \in Others(f) : ~Flying(n, g)
    BY <1>5, <1>11
  <2> HIDE DEF flight
  <2>3. Sound(s, 0)
    BY <1>1, <1>4, <1>7, <2>1, <2>2, SubmittedKeeps
  <2> QED BY <2>1, <2>3, BecomesSound
<1>12. CASE IsCurrent(n, f) /\ \E s \in InDoubt(n, f) : Becomes(s)
  <2>1. PICK s \in InDoubt(n, f) : Becomes(s)
    BY <1>12
  <2>2. RetiredStaysRetired => \A g \in Others(f) : ~Flying(n, g)
    BY <1>5, <1>12
  <2>3. Sound(s, 0)
    BY <1>1, <1>4, <2>1, <2>2, InDoubtKeeps
  <2> QED BY <2>1, <2>3, BecomesSound
<1>13. CASE IsCurrent(n, f) /\ SameTarget(f) /\ marked /\ \E into \in {0, term[p].runs} :
            Becomes([n EXCEPT !.rows = EnteredRows(n, f), !.mem.flights[f] = EnteringFlight(n, f, into),
                              !.keys = KeysPressed(n, f, into)])
  <2>1. PICK into \in {0, term[p].runs} :
            Becomes([n EXCEPT !.rows = EnteredRows(n, f), !.mem.flights[f] = EnteringFlight(n, f, into),
                              !.keys = KeysPressed(n, f, into)])
    BY <1>13
  <2>2. PICK s : /\ s = [n EXCEPT !.rows = EnteredRows(n, f), !.mem.flights[f] = EnteringFlight(n, f, into),
                                  !.keys = KeysPressed(n, f, into)]
                 /\ Becomes(s)
    BY <2>1 DEF Becomes
  <2>3. term[p].known = flight.inc /\ owner = p
    BY <1>13 DEF SameTarget, Known, Now
  <2>4. n.term[n.mem.flights[f].pty].known = n.mem.flights[f].inc /\ n.owner = n.mem.flights[f].pty
        /\ into \in {0, n.term[n.mem.flights[f].pty].runs}
    BY <1>1, <2>1, <2>3
  <2>5. \A m \in n.mem.flights[f].batch :
            ~n.rows[m].read /\ n.rows[m].phase = WRITE_ATTEMPTED
            /\ n.rows[m].at = <<n.mem.flights[f].pty, n.mem.flights[f].inc>>
    BY <1>1, <1>13
  <2>6. Flying(n, f) /\ n.mem.flights[f].step = "probing"
    BY <1>0, <1>1, <1>13 DEF Flying
  <2> HIDE DEF flight, marked, p
  <2>7. Sound(s, 0)
    BY <1>1, <2>2, <2>4, <2>5, <2>6, EnteringKeeps, ZenonT(60)
  <2> QED BY <2>2, <2>7, BecomesSound
<1> HIDE DEF flight, marked, p
<1> QED BY <1>3, <1>8, <1>9, <1>10, <1>11, <1>12, <1>13

\* A step that leaves every pointer alone.
LEMMA LeavesPointers ==
  ASSUME IInv, NEW s \in State, Becomes(s),
         s.rows = rows, s.owner = owner, s.keys = keys, s.outstanding \subseteq DOMAIN rows,
         s.mem.flights = mem.flights, s.mem.current = mem.current, s.mem.mark = mem.mark,
         s.mem.parked = mem.parked, s.mem.probing \subseteq mem.probing,
         \A p \in Ptys : s.term[p].runs = term[p].runs /\ s.term[p].known = term[p].known
  PROVE  IInv'
<1> PICK n : n = Now
  OBVIOUS
<1>1. Sound(n, 0) /\ n.rows = rows /\ n.owner = owner /\ n.keys = keys /\ n.term = term /\ n.mem = mem
  BY NowSound
<1>2. Sound(s, 0)
  BY <1>1, Unpointed
<1> QED BY <1>2, BecomesSound

LEMMA WaitKeeps ==
  ASSUME IInv, NEW waiting \in BOOLEAN, Becomes([Now EXCEPT !.waiter = waiting])
  PROVE  IInv'
<1> PICK n : n = Now
  OBVIOUS
<1>1. /\ Sound(n, 0) /\ n \in State /\ n.rows = rows /\ n.owner = owner /\ n.keys = keys /\ n.term = term
      /\ n.mem = mem
  BY NowSound
<1>2. PICK s : s = [n EXCEPT !.waiter = waiting] /\ Becomes(s)
  BY DEF Becomes
<1>3. s \in State
  BY <1>1, <1>2 DEF State
<1>4. s.outstanding \subseteq DOMAIN rows
  BY <1>1, <1>2 DEF State, Sound, Typed
<1>5. s.rows = rows /\ s.owner = owner /\ s.keys = keys /\ s.term = term /\ s.mem = mem
  BY <1>1, <1>2 DEF State
<1> QED BY <1>2, <1>3, <1>4, <1>5, LeavesPointers

LEMMA CheckKeeps ==
  ASSUME IInv, Check
  PROVE  IInv'
<1> PICK n : n = Now
  OBVIOUS
<1>1. /\ Sound(n, 0) /\ n \in State /\ n.rows = rows /\ n.owner = owner /\ n.keys = keys /\ n.term = term
      /\ n.mem = mem /\ rows \in Seq(RowType)
  BY NowSound
<1>2. PICK s : s = [n EXCEPT !.outstanding = Unread(rows)] /\ Becomes(s)
  BY DEF Check, Becomes
<1>3. Unread(rows) \subseteq DOMAIN rows /\ Unread(rows) \in SUBSET (1..MaxMessages)
  <2>1. Unread(rows) \subseteq DOMAIN rows
    BY DEF Unread
  <2>2. DOMAIN rows = 1..Len(rows) /\ Len(rows) \in Nat /\ Len(rows) <= MaxMessages
    BY <1>1 DEF Sound, Typed
  <2> QED BY <2>1, <2>2, PointerAssumption
<1>4. s \in State
  BY <1>1, <1>2, <1>3 DEF State
<1>5. s.rows = rows /\ s.owner = owner /\ s.keys = keys /\ s.term = term /\ s.mem = mem
      /\ s.outstanding = Unread(rows)
  BY <1>1, <1>2 DEF State
<1> QED BY <1>2, <1>3, <1>4, <1>5, LeavesPointers

\* What the runtime sees of a session, its processes apart.
LEMMA SeenKeeps ==
  ASSUME NEW s, NEW x, Sound(s, x), NEW p \in Ptys, NEW writable \in BOOLEAN, NEW exiting \in BOOLEAN,
         NEW status \in {"unseen", "none", "idle", "working", "permission"},
         NEW t \in {[s EXCEPT !.term[p].writable = writable], [s EXCEPT !.term[p].exiting = exiting],
                    [s EXCEPT !.term[p].status = status]}
  PROVE  Sound(t, x) /\ t.mem = s.mem /\ t.rows = s.rows /\ t.owner = s.owner
<1>0. s \in State /\ s.term \in [Ptys -> TermType] /\ s.outstanding \subseteq DOMAIN s.rows
  BY DEF Sound, Typed, State
<1>1. s.term[p] \in TermType
  BY <1>0
<1>2. PICK seen \in TermType : /\ t = [s EXCEPT !.term = [s.term EXCEPT ![p] = seen]]
                               /\ seen.runs = s.term[p].runs /\ seen.known = s.term[p].known
  <2>1. CASE t = [s EXCEPT !.term[p].writable = writable]
    <3> DEFINE seen == [s.term[p] EXCEPT !.writable = writable]
    <3>1. seen \in TermType /\ seen.runs = s.term[p].runs /\ seen.known = s.term[p].known
      BY <1>1 DEF TermType
    <3>2. t = [s EXCEPT !.term = [s.term EXCEPT ![p] = seen]]
      BY <2>1
    <3> HIDE DEF seen
    <3> QED BY <3>1, <3>2
  <2>2. CASE t = [s EXCEPT !.term[p].exiting = exiting]
    <3> DEFINE seen == [s.term[p] EXCEPT !.exiting = exiting]
    <3>1. seen \in TermType /\ seen.runs = s.term[p].runs /\ seen.known = s.term[p].known
      BY <1>1 DEF TermType
    <3>2. t = [s EXCEPT !.term = [s.term EXCEPT ![p] = seen]]
      BY <2>2
    <3> HIDE DEF seen
    <3> QED BY <3>1, <3>2
  <2>3. CASE t = [s EXCEPT !.term[p].status = status]
    <3> DEFINE seen == [s.term[p] EXCEPT !.status = status]
    <3>1. seen \in TermType /\ seen.runs = s.term[p].runs /\ seen.known = s.term[p].known
      BY <1>1 DEF TermType
    <3>2. t = [s EXCEPT !.term = [s.term EXCEPT ![p] = seen]]
      BY <2>3
    <3> HIDE DEF seen
    <3> QED BY <3>1, <3>2
  <2> QED BY <2>1, <2>2, <2>3
<1>3. [s.term EXCEPT ![p] = seen] \in [Ptys -> TermType]
  BY <1>0
<1>4. t \in State
  BY <1>0, <1>2, <1>3 DEF State
<1>5. t.rows = s.rows /\ t.owner = s.owner /\ t.keys = s.keys /\ t.outstanding = s.outstanding /\ t.mem = s.mem
      /\ t.term = [s.term EXCEPT ![p] = seen]
  BY <1>0, <1>2 DEF State
<1>6. \A q \in Ptys : t.term[q].runs = s.term[q].runs /\ t.term[q].known = s.term[q].known
  BY <1>0, <1>2, <1>5
<1>7. Sound(t, x)
  BY <1>0, <1>4, <1>5, <1>6, Unpointed
<1> QED BY <1>5, <1>7

LEMMA NeutralTitleKeeps ==
  ASSUME IInv, NEW p \in Ptys, NeutralTitle(p)
  PROVE  IInv'
<1> PICK n : n = Now
  OBVIOUS
<1>1. Sound(n, 0)
  BY NowSound
<1>2. PICK s : s = [n EXCEPT !.term[p].status = "none"] /\ Becomes(s)
  BY DEF NeutralTitle, Becomes
<1>3. Sound(s, 0)
  BY <1>1, <1>2, SeenKeeps
<1> QED BY <1>2, <1>3, BecomesSound

LEMMA ReconnectKeeps ==
  ASSUME IInv, NEW p \in Ptys, Reconnect(p)
  PROVE  IInv'
<1> PICK n : n = Now
  OBVIOUS
<1>1. Sound(n, 0)
  BY NowSound
<1>2. PICK s : s = [n EXCEPT !.term[p].writable = TRUE] /\ Becomes(s)
  BY DEF Reconnect, Becomes
<1>3. Sound(s, 0)
  BY <1>1, <1>2, SeenKeeps
<1> QED BY <1>2, <1>3, BecomesSound

\* The session ends for the runtime.
LEMMA EndedKeeps ==
  ASSUME NEW s, Sound(s, 0), NEW p \in Ptys
  PROVE  Sound(Ended(s, p), 0)
<1> DEFINE r == RetirePty(s, p)
           a == [r EXCEPT !.term[p].writable = FALSE]
           b == [a EXCEPT !.term[p].status = "unseen"]
           repoint == b.mem.repoint \/ s.owner = p
           t == [b EXCEPT !.mem.reoffer = b.mem.reoffer, !.mem.repoint = repoint, !.mem.recheck = b.mem.recheck,
                          !.offered = b.offered]
<1>1. Sound(r, 0)
  BY RetirePtyKeeps
<1> HIDE DEF r
<1>2. Sound(a, 0)
  BY <1>1, SeenKeeps
<1>3. a \in State
  BY <1>2 DEF Sound, Typed
<1> HIDE DEF a
<1>4. Sound(b, 0)
  BY <1>2, SeenKeeps
<1>5. b \in State
  BY <1>4 DEF Sound, Typed
<1> HIDE DEF b
<1>6. Sound(t, 0)
  <2>1. repoint \in BOOLEAN
    BY <1>5, Notes
  <2> HIDE DEF repoint
  <2> QED BY <1>4, <1>5, <2>1, Notes, NotesKeep
<1>7. t = [b EXCEPT !.mem.repoint = repoint]
  BY <1>5 DEF State, MemType
<1>8. Ended(s, p) = [b EXCEPT !.mem.repoint = @ \/ s.owner = p]
  <2>1. r \in State /\ r.term \in [Ptys -> TermType]
    BY <1>1 DEF Sound, Typed, State
  <2>2. Ended(s, p) = [r EXCEPT !.term[p].writable = FALSE, !.term[p].status = "unseen",
                                !.mem.repoint = @ \/ s.owner = p]
    BY DEF Ended, r
  <2> QED BY <2>1, <2>2 DEF a, b
<1> HIDE DEF t
<1> QED BY <1>6, <1>7, <1>8

LEMMA ReportExitKeeps ==
  ASSUME IInv, NEW p \in Ptys, ReportExit(p)
  PROVE  IInv'
<1> PICK n : n = Now
  OBVIOUS
<1>1. Sound(n, 0)
  BY NowSound
<1>2. PICK s : s = Ended([n EXCEPT !.term[p].exiting = FALSE], p) /\ Becomes(s)
  BY DEF ReportExit, Becomes
<1>3. Sound([n EXCEPT !.term[p].exiting = FALSE], 0)
  BY <1>1, SeenKeeps
<1>4. Sound(s, 0)
  BY <1>2, <1>3, EndedKeeps
<1> QED BY <1>2, <1>4, BecomesSound

LEMMA DisconnectKeeps ==
  ASSUME IInv, NEW p \in Ptys, Disconnect(p)
  PROVE  IInv'
<1> PICK n : n = Now
  OBVIOUS
<1>1. Sound(n, 0)
  BY NowSound
<1>2. PICK s : s = Ended(n, p) /\ Becomes(s)
  BY DEF Disconnect, Becomes
<1>3. Sound(s, 0)
  BY <1>1, <1>2, EndedKeeps
<1> QED BY <1>2, <1>3, BecomesSound

\* A state that differs from s in what no flight and no row hangs on.
LEMMA FlightsApart ==
  ASSUME NEW s, NEW x, Sound(s, x), NEW t \in State,
         t.rows = s.rows, t.outstanding \subseteq DOMAIN s.rows, t.mem = s.mem,
         ProcessesKnown(t), ProbesOwner(t), NoStray(t), EntersOnce(t)
  PROVE  Sound(t, x)
<1>1. Typed(t) /\ Uniform(t.rows) /\ TextLands(t)
  BY DEF Sound, Typed, TextLands
<1>2. PanesFly(t) /\ ParkedBehind(t)
  BY DEF Sound, PanesFly, ParkedBehind
<1>3. MarkStands(t, x)
  BY DEF Sound, MarkStands, Flying, IsCurrent, Marks
<1>4. FlightsHold(t, x)
  BY DEF Sound, FlightsHold, Flying, IsCurrent, Marks
<1> QED BY <1>1, <1>2, <1>3, <1>4 DEF Sound

\* The history of the keys forgets the process that ended.
LEMMA ExitKeeps ==
  ASSUME IInv, NEW p \in Ptys, Exit(p)
  PROVE  IInv'
<1> PICK n : n = Now
  OBVIOUS
<1>1. Sound(n, 0) /\ n \in State /\ n.term \in [Ptys -> TermType] /\ n.keys \in KeyType
      /\ n.outstanding \subseteq DOMAIN n.rows
  BY NowSound DEF Sound, Typed, State
<1> DEFINE left == [n.term[p] EXCEPT !.runs = 0, !.exiting = TRUE]
           submitted == {k \in n.keys.submitted : k[2] # p}
           keyed == [n.keys EXCEPT !.submitted = submitted]
<1>2. PICK s : /\ s = [n EXCEPT !.term[p].runs = 0, !.term[p].exiting = TRUE,
                               !.keys.submitted = {k \in @ : k[2] # p}]
               /\ Becomes(s)
  BY DEF Exit, Becomes
<1>3. s = [n EXCEPT !.term = [n.term EXCEPT ![p] = left], !.keys = keyed]
  BY <1>1, <1>2
<1>4. left \in TermType /\ left.runs = 0 /\ left.known = n.term[p].known
  <2>1. n.term[p] \in TermType /\ 0 \in 0..MaxIncarnation
    BY <1>1, PointerAssumption
  <2> QED BY <2>1 DEF TermType
<1>5. keyed \in KeyType /\ keyed.submitted = submitted /\ keyed.twice = n.keys.twice /\ keyed.stray = n.keys.stray
  BY <1>1 DEF KeyType
<1> HIDE DEF left, keyed
<1>6. [n.term EXCEPT ![p] = left] \in [Ptys -> TermType]
  BY <1>1, <1>4
<1>7. s \in State
  BY <1>1, <1>3, <1>5, <1>6 DEF State
<1>8. /\ s.rows = n.rows /\ s.outstanding = n.outstanding /\ s.mem = n.mem /\ s.owner = n.owner
      /\ s.keys = keyed /\ s.term = [n.term EXCEPT ![p] = left]
  BY <1>1, <1>3 DEF State
<1>9. \A q \in Ptys : /\ s.term[q].known = n.term[q].known
                      /\ s.term[q].runs = IF q = p THEN 0 ELSE n.term[q].runs
  BY <1>1, <1>4, <1>8
<1>10. ProcessesKnown(s)
  BY <1>1, <1>9 DEF Sound, ProcessesKnown
<1>11. ProbesOwner(s) /\ NoStray(s)
  BY <1>1, <1>5, <1>8 DEF Sound, ProbesOwner, NoStray
<1>12. EntersOnce(s)
  <2> SUFFICES ASSUME RetiredStaysRetired, ~LateProbes PROVE EntersOnce(s)
    BY DEF EntersOnce
  <2>1. ~n.keys.twice /\ \A k \in n.keys.submitted :
              /\ k[2] = n.owner /\ n.term[n.owner].runs # 0
              /\ k[1] \in DOMAIN n.rows /\ Past(n.rows[k[1]], Known(n, n.owner))
    BY <1>1 DEF Sound, EntersOnce
  <2>2. n.owner \in Ptys
    BY <1>1 DEF State
  <2>3. Known(s, s.owner) = Known(n, n.owner)
    BY <1>8, <1>9, <2>2 DEF Known
  <2>4. \A k \in submitted : k \in n.keys.submitted /\ k[2] # p
    OBVIOUS
  <2> HIDE DEF submitted
  <2>5. \A k \in submitted : k[2] = s.owner /\ s.term[s.owner].runs # 0
    BY <1>8, <1>9, <2>1, <2>2, <2>4
  <2> QED BY <1>5, <1>8, <2>1, <2>3, <2>4, <2>5 DEF EntersOnce
<1>13. Sound(s, 0)
  BY <1>1, <1>7, <1>8, <1>10, <1>11, <1>12, FlightsApart
<1> QED BY <1>2, <1>13, BecomesSound

\* No key was pressed in the process that comes after the one that ended.
LEMMA RegisterKeeps ==
  ASSUME IInv, NEW p \in Ptys, Register(p)
  PROVE  IInv'
<1> PICK n : n = Now
  OBVIOUS
<1>1. Sound(n, 0) /\ n \in State /\ n.term \in [Ptys -> TermType] /\ n.term = term
      /\ n.outstanding \subseteq DOMAIN n.rows
  BY NowSound DEF Sound, Typed, State
<1> DEFINE born == [n.term[p] EXCEPT !.runs = n.term[p].known + 1, !.known = n.term[p].known + 1,
                                     !.writable = TRUE, !.exiting = FALSE]
<1>2. PICK s : /\ s = [n EXCEPT !.term[p] = [@ EXCEPT !.runs = term[p].known + 1,
                                                      !.known = term[p].known + 1,
                                                      !.writable = TRUE, !.exiting = FALSE]]
               /\ Becomes(s)
  BY DEF Register, Becomes
<1>3. s = [n EXCEPT !.term = [n.term EXCEPT ![p] = born]]
  BY <1>1, <1>2
<1>4. born \in TermType /\ born.runs = born.known
  <2>1. n.term[p] \in TermType /\ n.term[p].known < MaxIncarnation
    BY <1>1 DEF Register
  <2>2. n.term[p].known + 1 \in 1..MaxIncarnation /\ n.term[p].known + 1 \in 0..MaxIncarnation
    BY <2>1, PointerAssumption DEF TermType
  <2> QED BY <2>1, <2>2 DEF TermType
<1>5. n.term[p].runs = 0
  BY <1>1 DEF Register
<1> HIDE DEF born
<1>6. [n.term EXCEPT ![p] = born] \in [Ptys -> TermType]
  BY <1>1, <1>4
<1>7. s \in State
  BY <1>1, <1>3, <1>6 DEF State
<1>8. /\ s.rows = n.rows /\ s.outstanding = n.outstanding /\ s.mem = n.mem /\ s.owner = n.owner
      /\ s.keys = n.keys /\ s.term = [n.term EXCEPT ![p] = born]
  BY <1>1, <1>3 DEF State
<1>9. s.term[p] = born /\ \A q \in Ptys : q # p => s.term[q] = n.term[q]
  BY <1>1, <1>8
<1>10. ProcessesKnown(s)
  BY <1>1, <1>4, <1>9 DEF Sound, ProcessesKnown
<1>11. ProbesOwner(s) /\ NoStray(s)
  BY <1>1, <1>8 DEF Sound, ProbesOwner, NoStray
<1>12. EntersOnce(s)
  <2>1. n.owner \in Ptys
    BY <1>1 DEF State
  <2>2. CASE n.owner = p
    BY <1>1, <1>5, <1>8, <2>2 DEF Sound, EntersOnce
  <2>3. CASE n.owner # p
    <3>1. s.term[s.owner] = n.term[n.owner] /\ Known(s, s.owner) = Known(n, n.owner)
      BY <1>8, <1>9, <2>1, <2>3 DEF Known
    <3> QED BY <1>1, <1>8, <3>1 DEF Sound, EntersOnce
  <2> QED BY <2>2, <2>3
<1>13. Sound(s, 0)
  BY <1>1, <1>7, <1>8, <1>10, <1>11, <1>12, FlightsApart
<1> QED BY <1>2, <1>13, BecomesSound

LEMMA RebindKeeps ==
  ASSUME IInv, NEW p \in Ptys, Rebind(p)
  PROVE  IInv'
<1> PICK n : n = Now
  OBVIOUS
<1>1. Sound(n, 0) /\ n \in State /\ n.keys \in KeyType /\ n.owner = owner /\ n.mem = mem
  BY NowSound DEF Sound, Typed, State
<1> DEFINE submitted == IF p = owner THEN n.keys.submitted ELSE {}
           keyed == [n.keys EXCEPT !.submitted = submitted]
<1>2. PICK s : /\ s = [n EXCEPT !.owner = p, !.outstanding = {},
                                !.keys.submitted = IF p = owner THEN @ ELSE {}]
               /\ Becomes(s)
  BY DEF Rebind, Becomes
<1>3. s = [n EXCEPT !.owner = p, !.outstanding = {}, !.keys = keyed]
  BY <1>2
<1>4. keyed \in KeyType /\ keyed.submitted = submitted /\ keyed.twice = n.keys.twice /\ keyed.stray = n.keys.stray
  BY <1>1 DEF KeyType
<1> HIDE DEF keyed
<1>5. s \in State
  BY <1>1, <1>3, <1>4 DEF State
<1>6. s.rows = n.rows /\ s.outstanding = {} /\ s.mem = n.mem /\ s.owner = p /\ s.keys = keyed /\ s.term = n.term
  BY <1>1, <1>3 DEF State
<1>7. ProcessesKnown(s)
  BY <1>1, <1>6 DEF Sound, ProcessesKnown
<1>8. ProbesOwner(s)
  BY <1>1, <1>6 DEF ProbesOwner, Rebind
<1>9. NoStray(s)
  BY <1>1, <1>4, <1>6 DEF Sound, NoStray
<1>10. EntersOnce(s)
  BY <1>1, <1>4, <1>6 DEF Sound, EntersOnce, Known
<1>11. Sound(s, 0)
  BY <1>1, <1>5, <1>6, <1>7, <1>8, <1>9, <1>10, FlightsApart
<1> QED BY <1>2, <1>11, BecomesSound

\* The mailbox itself changes: nothing pointed at is unread afterwards but what was.
LEMMA RowsOfMailbox ==
  ASSUME NEW s, Sound(s, 0), NEW t \in State, Len(t.rows) <= MaxMessages,
         DOMAIN s.rows \subseteq DOMAIN t.rows, t.outstanding \subseteq DOMAIN t.rows,
         t.owner = s.owner, t.keys = s.keys, t.term = s.term,
         t.mem.flights = s.mem.flights, t.mem.current = s.mem.current, t.mem.mark = s.mem.mark,
         t.mem.parked = s.mem.parked, t.mem.probing = s.mem.probing,
         \A m \in DOMAIN s.rows : t.rows[m] = s.rows[m] \/ t.rows[m].read,
         \A m \in DOMAIN t.rows : (m \in DOMAIN s.rows /\ t.rows[m] = s.rows[m])
                                  \/ (t.rows[m].phase = 0 /\ t.rows[m].at = <<>>)
  PROVE  Sound(t, 0)
<1>1. Tidy(t.rows) /\ Uniform(t.rows)
  BY DEF Sound, Typed, Tidy, Uniform
<1>2. Typed(t)
  BY <1>1 DEF Sound, Typed
<1>3. ProcessesKnown(t) /\ TextLands(t)
  BY DEF Sound, ProcessesKnown, TextLands
<1>4. PanesFly(t) /\ ParkedBehind(t) /\ ProbesOwner(t) /\ NoStray(t)
  BY DEF Sound, PanesFly, ParkedBehind, ProbesOwner, NoStray
<1>5. MarkStands(t, 0)
  BY DEF Sound, MarkStands, Flying, IsCurrent, Marks
<1>6. FlightsHold(t, 0)
  <2> SUFFICES ASSUME RetiredStaysRetired, NEW f \in Others(0), Flying(t, f)
               PROVE  t.mem.mark.active /\ Marks(t, f) /\ Whole(t.rows, t.mem.flights[f])
    BY DEF FlightsHold
  <2>1. Flying(s, f)
    BY DEF Flying, IsCurrent
  <2>2. s.mem.mark.active /\ Marks(s, f) /\ Whole(s.rows, s.mem.flights[f])
    BY <2>1 DEF Sound, FlightsHold
  <2>3. s.mem.flights[f].batch \subseteq DOMAIN s.rows
    BY <2>1 DEF Sound, Typed, Flying, Others
  <2>4. Whole(t.rows, t.mem.flights[f])
    BY <2>2, <2>3 DEF Whole
  <2> QED BY <2>2, <2>4 DEF Marks
<1>7. EntersOnce(t)
  <2> SUFFICES ASSUME RetiredStaysRetired, ~LateProbes, EntersOnce(s) PROVE EntersOnce(t)
    BY DEF Sound, EntersOnce
  <2>1. ASSUME NEW k \in s.keys.submitted PROVE k[1] \in DOMAIN t.rows /\ Past(t.rows[k[1]], Known(s, s.owner))
    BY DEF EntersOnce, Past
  <2> QED BY <2>1 DEF EntersOnce, Known
<1> QED BY <1>1, <1>2, <1>3, <1>4, <1>5, <1>6, <1>7 DEF Sound

LEMMA AckKeeps ==
  ASSUME IInv, Ack
  PROVE  IInv'
<1> PICK n : n = Now
  OBVIOUS
<1>1. /\ Sound(n, 0) /\ n \in State /\ n.rows = rows /\ rows \in Seq(RowType)
      /\ Len(rows) <= MaxMessages
  BY NowSound DEF Sound, Typed
<1> DEFINE gone == Row(TRUE, TRUE, 0, <<>>)
           out == [m \in DOMAIN rows |-> IF m \in outstanding THEN gone ELSE rows[m]]
<1>2. PICK s : s = [n EXCEPT !.outstanding = {}, !.rows = out] /\ Becomes(s)
  <2>1. out = On(rows, outstanding, LAMBDA row : TRUE, LAMBDA row : Row(TRUE, TRUE, 0, <<>>))
    BY DEF On
  <2>2. PICK s : s = [n EXCEPT !.outstanding = {}, !.rows = On(@, outstanding, LAMBDA row : TRUE,
                                       LAMBDA row : Row(TRUE, TRUE, 0, <<>>))] /\ Becomes(s)
    BY DEF Ack, Becomes
  <2> HIDE DEF out
  <2> QED BY <1>1, <2>1, <2>2
<1>3. gone \in RowType /\ gone.read = TRUE /\ gone.phase = 0 /\ gone.at = <<>>
  BY DEF Row, RowType, Process
<1> HIDE DEF gone
<1>4. out \in [DOMAIN rows -> RowType]
  BY <1>1, <1>3
<1>5. out \in Seq(RowType) /\ DOMAIN out = DOMAIN rows /\ Len(out) = Len(rows)
  BY <1>1, <1>4, RowsMapped
<1>6. \A m \in DOMAIN rows : out[m] = rows[m] \/ (out[m].read /\ out[m].phase = 0 /\ out[m].at = <<>>)
  BY <1>3
<1> HIDE DEF out
<1>7. s \in State
  BY <1>1, <1>2, <1>5 DEF State
<1>8. /\ s.rows = out /\ s.outstanding = {} /\ s.mem = n.mem /\ s.owner = n.owner /\ s.keys = n.keys
      /\ s.term = n.term
  BY <1>1, <1>2 DEF State
<1>9. Sound(s, 0)
  <2>1. Len(s.rows) <= MaxMessages /\ DOMAIN n.rows \subseteq DOMAIN s.rows /\ s.outstanding \subseteq DOMAIN s.rows
    BY <1>1, <1>5, <1>8
  <2>2. \A m \in DOMAIN n.rows : s.rows[m] = n.rows[m] \/ s.rows[m].read
    BY <1>1, <1>6, <1>8
  <2>3. \A m \in DOMAIN s.rows : (m \in DOMAIN n.rows /\ s.rows[m] = n.rows[m])
                                  \/ (s.rows[m].phase = 0 /\ s.rows[m].at = <<>>)
    BY <1>1, <1>5, <1>6, <1>8
  <2> QED BY <1>1, <1>7, <1>8, <2>1, <2>2, <2>3, RowsOfMailbox
<1> QED BY <1>2, <1>9, BecomesSound

LEMMA SendKeeps ==
  ASSUME IInv, Send
  PROVE  IInv'
<1> PICK n : n = Now
  OBVIOUS
<1> DEFINE row == Row(FALSE, FALSE, 0, <<>>)
           out == Append(rows, row)
<1>1. /\ Sound(n, 0) /\ n \in State /\ n.rows = rows /\ rows \in Seq(RowType) /\ n.waiter = waiter
      /\ n.outstanding \subseteq DOMAIN rows
  BY NowSound DEF Sound, Typed
<1>2. PICK s : /\ s = [n EXCEPT !.rows = out, !.waiter = FALSE, !.mem.repoint = TRUE, !.offered = ~waiter]
               /\ Becomes(s)
  <2>1. PICK s : s = [n EXCEPT !.rows = Append(@, Row(FALSE, FALSE, 0, <<>>)), !.waiter = FALSE,
                               !.mem.repoint = TRUE, !.offered = ~waiter] /\ Becomes(s)
    BY DEF Send, Becomes
  <2> QED BY <1>1, <2>1 DEF State
<1>3. row \in RowType /\ row.phase = 0 /\ row.at = <<>>
  BY DEF Row, RowType, Process
<1> HIDE DEF row
<1>4. Len(rows) < MaxMessages
  BY DEF Send
<1>5. /\ out \in Seq(RowType) /\ Len(out) = Len(rows) + 1 /\ DOMAIN out = 1..(Len(rows) + 1)
      /\ DOMAIN rows = 1..Len(rows) /\ Len(rows) \in Nat
      /\ \A m \in DOMAIN rows : out[m] = rows[m]
      /\ out[Len(rows) + 1] = row
  BY <1>1, <1>3
<1> HIDE DEF out
<1>6. (~waiter) \in BOOLEAN
  OBVIOUS
<1>7. s \in State
  BY <1>1, <1>2, <1>5, <1>6 DEF State, MemType
<1>8. /\ s.rows = out /\ s.outstanding = n.outstanding /\ s.owner = n.owner /\ s.keys = n.keys
      /\ s.term = n.term /\ s.mem.flights = n.mem.flights /\ s.mem.current = n.mem.current
      /\ s.mem.mark = n.mem.mark /\ s.mem.parked = n.mem.parked /\ s.mem.probing = n.mem.probing
  BY <1>1, <1>2 DEF State, MemType
<1>9. Sound(s, 0)
  <2>0. DOMAIN rows \subseteq DOMAIN out /\ Len(out) <= MaxMessages
    BY <1>4, <1>5, PointerAssumption
  <2>1. Len(s.rows) <= MaxMessages /\ DOMAIN n.rows \subseteq DOMAIN s.rows /\ s.outstanding \subseteq DOMAIN s.rows
    BY <1>1, <1>8, <2>0
  <2>2. \A m \in DOMAIN n.rows : s.rows[m] = n.rows[m] \/ s.rows[m].read
    BY <1>1, <1>5, <1>8
  <2>3. \A m \in DOMAIN out : m \in DOMAIN rows \/ m = Len(rows) + 1
    BY <1>5
  <2>4. \A m \in DOMAIN s.rows : (m \in DOMAIN n.rows /\ s.rows[m] = n.rows[m])
                                  \/ (s.rows[m].phase = 0 /\ s.rows[m].at = <<>>)
    BY <1>1, <1>3, <1>5, <1>8, <2>3
  <2> QED BY <1>1, <1>7, <1>8, <2>1, <2>2, <2>4, RowsOfMailbox
<1> QED BY <1>2, <1>9, BecomesSound

LEMMA RepointKeeps ==
  ASSUME IInv, Repoint
  PROVE  IInv'
<1> PICK n : n = Now
  OBVIOUS
<1>1. Sound(n, 0) /\ n \in State
  BY NowSound
<1>2. PICK s \in DeliverForHandle([n EXCEPT !.mem.repoint = FALSE]) : Becomes(s)
  BY DEF Repoint
<1> DEFINE u == [n EXCEPT !.mem.reoffer = n.mem.reoffer, !.mem.repoint = FALSE,
                          !.mem.recheck = n.mem.recheck, !.offered = n.offered]
<1>3. Sound(u, 0)
  BY <1>1, Notes, NotesKeep
<1>4. u = [n EXCEPT !.mem.repoint = FALSE]
  <2> DEFINE memory == [n.mem EXCEPT !.reoffer = n.mem.reoffer, !.repoint = FALSE, !.recheck = n.mem.recheck]
  <2>1. memory = [n.mem EXCEPT !.repoint = FALSE]
    BY <1>1 DEF State, MemType
  <2>2. u = [n EXCEPT !.mem = memory, !.offered = n.offered]
    BY <1>1 DEF State
  <2> HIDE DEF memory, u
  <2>3. u = [n EXCEPT !.mem = memory]
    BY <1>1, <2>2 DEF State
  <2> QED BY <2>1, <2>3
<1> HIDE DEF u
<1>5. Sound(s, 0)
  BY <1>2, <1>3, <1>4, DeliverForHandleKeeps
<1> QED BY <1>2, <1>5, BecomesSound

LEMMA RecheckStepKeeps ==
  ASSUME IInv, NEW p \in Ptys, Recheck(p)
  PROVE  IInv'
<1> PICK n : n = Now
  OBVIOUS
<1>1. Sound(n, 0) /\ n \in State
  BY NowSound
<1>2. PICK s \in DeliverForLeaf([n EXCEPT !.mem.recheck = @ \ {p}], p) : Becomes(s)
  BY DEF Recheck
<1>3. n.mem.recheck \ {p} \in SUBSET Ptys
  BY <1>1, Notes
<1>4. Sound([n EXCEPT !.mem.recheck = n.mem.recheck \ {p}], 0)
  BY <1>1, <1>3, RecheckKeeps
<1>5. [n EXCEPT !.mem.recheck = @ \ {p}] = [n EXCEPT !.mem.recheck = n.mem.recheck \ {p}]
  OBVIOUS
<1>6. Sound(s, 0)
  BY <1>2, <1>4, <1>5, DeliverForLeafKeeps
<1> QED BY <1>2, <1>6, BecomesSound

\* Of a pane that lost the mailbox no probe is under way, unless probes may be late.
LEMMA AfterProbeKeeps ==
  ASSUME IInv, NEW p \in Ptys, AfterProbe(p)
  PROVE  IInv'
<1> PICK n : n = Now
  OBVIOUS
<1> DEFINE over == [n EXCEPT !.mem.probing = @ \ {p}]
<1>1. Sound(n, 0) /\ n \in State /\ n.outstanding \subseteq DOMAIN n.rows /\ n.mem = mem
  BY NowSound DEF Sound, Typed
<1>2. over \in State
  BY <1>1 DEF State, MemType
<1>3. /\ over.rows = n.rows /\ over.outstanding = n.outstanding /\ over.owner = n.owner /\ over.keys = n.keys
      /\ over.term = n.term /\ over.mem.flights = n.mem.flights /\ over.mem.current = n.mem.current
      /\ over.mem.parked = n.mem.parked /\ over.mem.probing \subseteq n.mem.probing
      /\ over.mem.mark = n.mem.mark
  BY <1>1 DEF State, MemType
<1>4. p \in mem.probing /\ (Becomes(over) \/ \E s \in Deliver(over, p, TRUE) \cup {over} : Becomes(s))
  BY DEF AfterProbe
<1> HIDE DEF over
<1>5. Sound(over, 0)
  <2>1. over.mem.probing \subseteq n.mem.probing \cup {n.owner}
    BY <1>3
  <2> QED BY <1>1, <1>2, <1>3, <2>1, Unpointed
<1>6. LateProbes \/ p = over.owner
  BY <1>1, <1>3, <1>4 DEF Sound, ProbesOwner
<1>7. PICK s : Becomes(s) /\ (s = over \/ s \in Deliver(over, p, TRUE))
  BY <1>4
<1>8. Sound(s, 0)
  BY <1>5, <1>6, <1>7, DeliverKeeps
<1> QED BY <1>7, <1>8, BecomesSound

LEMMA IdleTitleKeeps ==
  ASSUME IInv, NEW p \in Ptys, IdleTitle(p)
  PROVE  IInv'
<1> PICK n : n = Now
  OBVIOUS
<1> DEFINE f == n.mem.current[p]
           woken == IF f = 0 THEN n
                    ELSE [n EXCEPT !.mem.flights[f].step = IF @ = "held" THEN "probing" ELSE @]
           seen == [woken EXCEPT !.term[p].status = "idle"]
           rechecked == [seen EXCEPT !.mem.recheck = @ \cup {p}]
           unchecked == [seen EXCEPT !.mem.recheck = @ \ {p}]
<1>1. Sound(n, 0) /\ n.mem = mem
  BY NowSound
<1>2. Sound(woken, 0)
  BY <1>1, WakingKeeps
<1>3. \/ Becomes(rechecked)
      \/ \E s \in DeliverForLeaf(unchecked, p) : Becomes(s)
      \/ Becomes(seen)
  BY <1>1 DEF IdleTitle
<1> HIDE DEF woken
<1>4. Sound(seen, 0)
  BY <1>2, SeenKeeps
<1>5. seen \in State
  BY <1>4 DEF Sound, Typed
<1> HIDE DEF seen
<1>6. Sound(rechecked, 0) /\ Sound(unchecked, 0)
  <2>1. seen.mem.recheck \cup {p} \in SUBSET Ptys /\ seen.mem.recheck \ {p} \in SUBSET Ptys
    BY <1>5, Notes
  <2>2. rechecked = [seen EXCEPT !.mem.recheck = seen.mem.recheck \cup {p}]
        /\ unchecked = [seen EXCEPT !.mem.recheck = seen.mem.recheck \ {p}]
    OBVIOUS
  <2> HIDE DEF rechecked, unchecked
  <2> QED BY <1>4, <2>1, <2>2, RecheckKeeps
<1> HIDE DEF rechecked, unchecked
<1>7. PICK s : Becomes(s) /\ (s \in {rechecked, seen} \/ s \in DeliverForLeaf(unchecked, p))
  BY <1>3
<1>8. Sound(s, 0)
  BY <1>4, <1>6, <1>7, DeliverForLeafKeeps
<1> QED BY <1>7, <1>8, BecomesSound

\* An agent that works has taken what was in its composer.  The rows of a flight of
\* another pane are reserved for that one.
LEMMA ReleasedForPtyKeeps ==
  ASSUME NEW s, Sound(s, 0), NEW p \in Ptys, s.mem.current[p] = 0
  PROVE  Sound([s EXCEPT !.rows = ReleasedForPty(@, p)], 0)
<1> DEFINE out == ReleasedForPty(s.rows, p)
           ids == {m \in DOMAIN s.rows : s.rows[m].at[1] = p}
           t == [s EXCEPT !.rows = out]
<1>0. s \in State /\ s.rows \in Seq(RowType) /\ Tidy(s.rows)
  BY DEF Sound, Typed, State
<1>1. /\ LetGo(s.rows, out, ids)
      /\ \A m \in DOMAIN s.rows :
            \/ out[m] = s.rows[m]
            \/ s.rows[m].phase > 0 /\ (s.rows[m].phase # RESERVED /\ ~s.rows[m].read => out[m].delivered)
  BY <1>0, ReleasedForPtyDoes
<1> HIDE DEF out
<1>2. \A m \in DOMAIN s.rows : out[m] = s.rows[m] \/ s.rows[m].at[1] = p
  BY <1>1 DEF LetGo
<1>3. \A m \in DOMAIN s.rows : out[m] = s.rows[m] \/ out[m].delivered \/ ~Past(s.rows[m], Known(s, s.owner))
  <2> SUFFICES ASSUME NEW m \in DOMAIN s.rows, out[m] # s.rows[m], ~out[m].delivered
               PROVE  ~Past(s.rows[m], Known(s, s.owner))
    OBVIOUS
  <2>1. s.rows[m].phase > 0 /\ ~s.rows[m].read
    BY <1>0, <1>1 DEF Tidy
  <2>2. s.rows[m].phase = RESERVED
    BY <1>1, <2>1
  <2> QED BY <1>0, <2>2, NotPast
<1>4. ASSUME RetiredStaysRetired, NEW f \in Others(0), Flying(s, f), NEW m \in s.mem.flights[f].batch
      PROVE  out[m] = s.rows[m]
  <2>1. m \in DOMAIN s.rows /\ Whole(s.rows, s.mem.flights[f])
    BY <1>4 DEF Sound, Typed, FlightsHold, Flying, Others
  <2>2. CASE s.rows[m].read
    BY <1>0, <1>1, <2>1, <2>2 DEF Tidy
  <2>3. CASE ~s.rows[m].read
    <3>1. s.rows[m].at = <<s.mem.flights[f].pty, s.mem.flights[f].inc>>
      BY <1>4, <2>1, <2>3 DEF Whole
    <3>2. s.mem.flights[f].pty # p
      BY <1>4, PointerAssumption DEF Flying, IsCurrent, Others
    <3>3. s.rows[m].at[1] # p
      BY <3>1, <3>2
    <3> QED BY <1>2, <2>1, <3>3
  <2> QED BY <2>2, <2>3
<1> HIDE DEF ids
<1>5. /\ t \in State /\ t.rows = out /\ t.outstanding = s.outstanding /\ t.owner = s.owner /\ t.keys = s.keys
      /\ t.term = s.term /\ t.mem = s.mem
  BY <1>0, <1>1 DEF State, LetGo
<1>6. \A f \in Others(0) : RetiredStaysRetired /\ Flying(s, f) => \A m \in s.mem.flights[f].batch : t.rows[m] = s.rows[m]
  BY <1>4, <1>5
<1>7. \A m \in DOMAIN s.rows : t.rows[m] = s.rows[m] \/ t.rows[m].delivered \/ ~Past(s.rows[m], Known(s, s.owner))
  BY <1>3, <1>5
<1>8. LetGo(s.rows, t.rows, ids)
  BY <1>1, <1>5
<1>9. [s EXCEPT !.rows = ReleasedForPty(@, p)] = t
  BY DEF out
<1> HIDE DEF t
<1>10. Sound(t, 0)
  BY <1>5, <1>6, <1>7, <1>8, RowsKeep
<1> QED BY <1>9, <1>10

LEMMA BusyTitleKeeps ==
  ASSUME IInv, NEW p \in Ptys, BusyTitle(p)
  PROVE  IInv'
<1> PICK n : n = Now
  OBVIOUS
<1> DEFINE r == RetirePty(n, p)
           u == IF n.mem.current[p] # 0 THEN n ELSE [r EXCEPT !.rows = ReleasedForPty(@, p)]
<1>1. Sound(n, 0) /\ n \in State /\ n.mem = mem
  BY NowSound
<1>2. PICK status \in {"working", "permission"} : Becomes([u EXCEPT !.term[p].status = status])
  BY <1>1 DEF BusyTitle
<1>3. Sound(r, 0)
  BY <1>1, RetirePtyKeeps
<1>4. n.mem.current[p] = 0 => r.mem.current[p] = 0
  BY <1>1 DEF RetirePty, Redrive, ClearMark, State, MemType
<1> HIDE DEF r
<1>5. Sound(u, 0)
  BY <1>1, <1>3, <1>4, ReleasedForPtyKeeps
<1> HIDE DEF u
<1>6. PICK s : s = [u EXCEPT !.term[p].status = status] /\ Becomes(s)
  BY <1>2 DEF Becomes
<1>7. Sound(s, 0)
  BY <1>5, <1>6, SeenKeeps
<1> QED BY <1>6, <1>7, BecomesSound

-----------------------------------------------------------------------------
(* Restarts *)

LEMMA FreshIsEmpty ==
  /\ FreshMemory \in MemType /\ FreshMemory.repoint = FALSE
  /\ ~FreshMemory.mark.active /\ FreshMemory.parked = {} /\ FreshMemory.probing = {}
  /\ \A f \in 1..MaxFlights : FreshMemory.flights[f] = Free
  /\ \A p \in Ptys : FreshMemory.current[p] = 0
<1> DEFINE flights == [f \in 1..MaxFlights |-> Free]
           current == [p \in Ptys |-> 0]
<1>1. FreshMemory = [flights |-> flights, current |-> current, mark |-> NoMark, parked |-> {},
                     reoffer |-> FALSE, repoint |-> FALSE, recheck |-> {}, probing |-> {}]
  BY DEF FreshMemory
<1>2. flights \in [1..MaxFlights -> {Free} \cup FlightType] /\ \A f \in 1..MaxFlights : flights[f] = Free
  OBVIOUS
<1>3. current \in [Ptys -> 0..MaxFlights] /\ \A p \in Ptys : current[p] = 0
  BY PointerAssumption
<1> HIDE DEF flights, current
<1>4. FreshMemory \in MemType
  BY <1>1, <1>2, <1>3 DEF MemType
<1>5. /\ FreshMemory.mark = NoMark /\ FreshMemory.parked = {} /\ FreshMemory.probing = {}
      /\ FreshMemory.flights = flights /\ FreshMemory.current = current /\ FreshMemory.repoint = FALSE
  BY <1>1
<1> QED BY <1>2, <1>3, <1>4, <1>5 DEF NoMark

LEMMA FreshKeeps ==
  ASSUME NEW repoint \in BOOLEAN
  PROVE  LET m == [FreshMemory EXCEPT !.repoint = repoint] IN
         /\ m \in MemType /\ ~m.mark.active /\ m.parked = {} /\ m.probing = {}
         /\ \A f \in 1..MaxFlights : m.flights[f] = Free
         /\ \A p \in Ptys : m.current[p] = 0
<1> DEFINE m == [FreshMemory EXCEPT !.repoint = repoint]
<1>1. m \in MemType
  BY FreshIsEmpty DEF MemType
<1>2. /\ m.mark = FreshMemory.mark /\ m.parked = FreshMemory.parked /\ m.probing = FreshMemory.probing
      /\ m.flights = FreshMemory.flights /\ m.current = FreshMemory.current
  BY FreshIsEmpty DEF MemType
<1> HIDE DEF m
<1> QED BY <1>1, <1>2, FreshIsEmpty DEF m

\* The rows, the binding and the delivery survive; the pointers under way do not.
LEMMA RestartedKeeps ==
  ASSUME IInv, NEW s, Restarted(s), s.rows \in Seq(RowType), DOMAIN s.rows = DOMAIN rows,
         Len(s.rows) = Len(rows), Tidy(s.rows), Uniform(s.rows),
         \A m \in DOMAIN rows : s.rows[m] = rows[m] \/ ~Past(rows[m], Known(Now, owner))
  PROVE  IInv'
<1> PICK n : n = Now
  OBVIOUS
<1> DEFINE repoint == Offerable(s.rows) # {} \/ Pending(s.rows) # {}
           memory == [FreshMemory EXCEPT !.repoint = repoint]
           seen == [p \in Ptys |-> [n.term[p] EXCEPT !.writable = n.term[p].runs # 0, !.exiting = FALSE,
                                                     !.status = "unseen"]]
           t == [rows |-> s.rows, outstanding |-> n.outstanding, owner |-> n.owner, waiter |-> FALSE,
                 term |-> seen, mem |-> memory, keys |-> n.keys, offered |-> FALSE]
<1>1. /\ Sound(n, 0) /\ n \in State /\ n.rows = rows /\ n.outstanding = outstanding /\ n.owner = owner
      /\ n.term = term /\ n.keys = keys /\ n.outstanding \subseteq DOMAIN rows
      /\ n.term \in [Ptys -> TermType] /\ Len(rows) <= MaxMessages
  BY NowSound DEF Sound, Typed, State
<1>2. Now' = t
  BY <1>1 DEF Restarted, Now
<1>3. /\ memory \in MemType /\ ~memory.mark.active /\ memory.parked = {} /\ memory.probing = {}
      /\ \A f \in 1..MaxFlights : memory.flights[f] = Free
      /\ \A p \in Ptys : memory.current[p] = 0
  <2>1. repoint \in BOOLEAN
    OBVIOUS
  <2> HIDE DEF repoint
  <2> QED BY <2>1, FreshKeeps
<1> HIDE DEF memory
<1>4. \A p \in Ptys : seen[p] \in TermType /\ seen[p].runs = n.term[p].runs /\ seen[p].known = n.term[p].known
  <2> SUFFICES ASSUME NEW p \in Ptys
               PROVE seen[p] \in TermType /\ seen[p].runs = n.term[p].runs /\ seen[p].known = n.term[p].known
    OBVIOUS
  <2>1. n.term[p] \in TermType
    BY <1>1
  <2>2. seen[p] = [n.term[p] EXCEPT !.writable = n.term[p].runs # 0, !.exiting = FALSE, !.status = "unseen"]
    OBVIOUS
  <2> HIDE DEF seen
  <2>3. (n.term[p].runs # 0) \in BOOLEAN
    OBVIOUS
  <2> QED BY <2>1, <2>2, <2>3 DEF TermType
<1>5. seen \in [Ptys -> TermType]
  BY <1>4
<1> HIDE DEF seen
<1>6. t \in State
  BY <1>1, <1>3, <1>5 DEF State
<1>7. /\ t.rows = s.rows /\ t.outstanding = n.outstanding /\ t.owner = n.owner /\ t.keys = n.keys
      /\ t.term = seen /\ t.mem = memory
  OBVIOUS
<1> HIDE DEF t
<1>8. n.owner \in Ptys
  BY <1>1 DEF State
<1>9. Typed(t) /\ Uniform(t.rows)
  BY <1>1, <1>3, <1>6, <1>7 DEF Typed
<1>10. ProcessesKnown(t)
  BY <1>1, <1>4, <1>7 DEF Sound, ProcessesKnown
<1>11. TextLands(t) /\ PanesFly(t) /\ ParkedBehind(t)
  BY <1>3, <1>7 DEF TextLands, PanesFly, ParkedBehind
<1>12. ProbesOwner(t) /\ NoStray(t)
  BY <1>1, <1>3, <1>7 DEF Sound, ProbesOwner, NoStray
<1>13. MarkStands(t, 0)
  BY <1>3, <1>7 DEF MarkStands
<1>14. FlightsHold(t, 0)
  BY <1>3, <1>7 DEF FlightsHold, Flying, Others
<1>15. EntersOnce(t)
  <2> SUFFICES ASSUME RetiredStaysRetired, ~LateProbes PROVE EntersOnce(t)
    BY DEF EntersOnce
  <2>1. ~n.keys.twice /\ \A k \in n.keys.submitted :
              /\ k[2] = n.owner /\ n.term[n.owner].runs # 0
              /\ k[1] \in DOMAIN rows /\ Past(rows[k[1]], Known(n, n.owner))
    BY <1>1 DEF Sound, EntersOnce
  <2>2. Known(t, t.owner) = Known(n, n.owner) /\ t.term[t.owner].runs = n.term[n.owner].runs
    BY <1>4, <1>7, <1>8 DEF Known
  <2>3. ASSUME NEW k \in n.keys.submitted PROVE s.rows[k[1]] = rows[k[1]]
    <3>1. Past(rows[k[1]], Known(Now, owner)) /\ k[1] \in DOMAIN rows
      BY <1>1, <2>1
    <3> QED BY <3>1
  <2> QED BY <1>7, <2>1, <2>2, <2>3 DEF EntersOnce
<1>16. Sound(t, 0)
  BY <1>9, <1>10, <1>11, <1>12, <1>13, <1>14, <1>15 DEF Sound
<1>17. restarts' \in 0..MaxRestarts
  <2>1. restarts < MaxRestarts /\ restarts' = restarts + 1
    BY DEF Restarted
  <2>2. restarts \in 0..MaxRestarts
    BY NowSound
  <2> QED BY <2>1, <2>2, PointerAssumption
<1>18. Sound(Now', 0)
  BY <1>2, <1>16
<1> QED BY <1>17, <1>18 DEF IInv

LEMMA RuntimeRestartKeeps ==
  ASSUME IInv, RuntimeRestart
  PROVE  IInv'
<1>1. Restarted(Now) /\ Now.rows = rows /\ rows \in Seq(RowType) /\ Tidy(rows) /\ Uniform(rows)
  BY NowSound DEF RuntimeRestart, Sound
<1>2. PICK n : n = Now /\ Restarted(n)
  BY <1>1 DEF Restarted
<1> QED BY <1>1, <1>2, RestartedKeeps

\* A reservation whose text was never noted is still no pointer.
LEMMA CrashKeeps ==
  ASSUME IInv, NEW p \in Ptys, CrashBeforeWrite(p)
  PROVE  IInv'
<1> PICK n : n = Now
  OBVIOUS
<1> DEFINE held == Row(FALSE, FALSE, RESERVED, Known(n, p))
           batch == Offerable(rows)
           out == [m \in DOMAIN rows |-> IF m \in batch THEN held ELSE rows[m]]
<1>1. n \in State /\ n.rows = rows /\ rows \in Seq(RowType) /\ Tidy(rows)
  BY NowSound
<1>2. PICK s : s = [n EXCEPT !.rows = out] /\ Restarted(s)
  <2>1. PICK s : /\ s = [n EXCEPT !.rows = [m \in DOMAIN @ |-> IF m \in Offerable(rows)
                                         THEN Row(FALSE, FALSE, RESERVED, Known(n, p)) ELSE @[m]]]
                 /\ Restarted(s)
    BY DEF CrashBeforeWrite, Restarted
  <2> QED BY <1>1, <2>1
<1>3. held \in RowType /\ ~held.read /\ ~held.delivered /\ held.phase = RESERVED /\ held.at = Known(n, p)
  <2>1. Known(n, p) \in Process
    BY <1>1, KnownType
  <2> QED BY <2>1 DEF Row, RowType, RESERVED
<1>4. Known(n, p) # <<>>
  BY <1>1, KnownType
<1> HIDE DEF held
<1>5. out \in [DOMAIN rows -> RowType]
  BY <1>1, <1>3
<1>6. out \in Seq(RowType) /\ DOMAIN out = DOMAIN rows /\ Len(out) = Len(rows)
  BY <1>1, <1>5, RowsMapped
<1>7. \A m \in DOMAIN rows : rows[m].phase = 0
  <2>1. \A m \in DOMAIN rows : rows[m].read \/ ~(rows[m].phase > 0)
    BY DEF CrashBeforeWrite, Pending, Unread
  <2>2. \A m \in DOMAIN rows : rows[m].phase \in 0..3
    <3>1. \A m \in DOMAIN rows : rows[m] \in RowType
      BY <1>1
    <3> QED BY <3>1 DEF RowType
  <2> QED BY <1>1, <2>1, <2>2 DEF Tidy
<1>8. \A m \in DOMAIN rows : out[m] = IF m \in batch THEN held ELSE rows[m]
  OBVIOUS
<1> HIDE DEF out
<1>9. Tidy(out) /\ Uniform(out)
  <2>1. Tidy(out)
    BY <1>1, <1>3, <1>4, <1>6, <1>8 DEF Tidy, RESERVED
  <2>2. Uniform(out)
    BY <1>3, <1>6, <1>7, <1>8 DEF Uniform
  <2> QED BY <2>1, <2>2
<1>10. \A m \in batch : ~Past(rows[m], Known(n, owner))
  <2>1. \A m \in batch : m \in DOMAIN rows /\ ~rows[m].read /\ ~rows[m].delivered
    BY DEF Offerable, Unread
  <2> HIDE DEF batch
  <2> QED BY <1>7, <2>1 DEF Past, ENTER_ATTEMPTED
<1>11. \A m \in DOMAIN rows : out[m] = rows[m] \/ ~Past(rows[m], Known(Now, owner))
  BY <1>8, <1>10
<1>12. s.rows = out
  BY <1>1, <1>2 DEF State
<1> HIDE DEF batch
<1> QED BY <1>2, <1>6, <1>9, <1>11, <1>12, RestartedKeeps

-----------------------------------------------------------------------------
(* The invariant *)

LEMMA InitSound == Init => IInv
<1> SUFFICES ASSUME Init PROVE IInv
  OBVIOUS
<1> PICK n : n = Now
  OBVIOUS
<1>1. /\ n.rows = <<>> /\ n.outstanding = {} /\ n.owner \in Ptys /\ n.waiter = FALSE
      /\ n.term = [p \in Ptys |-> [runs |-> 1, known |-> 1, writable |-> TRUE,
                                   status |-> "unseen", exiting |-> FALSE]]
      /\ n.mem = FreshMemory /\ n.keys = [submitted |-> {}, twice |-> FALSE, stray |-> FALSE]
      /\ n.offered = FALSE /\ restarts = 0
  BY DEF Init, Now
<1>2. /\ n.mem \in MemType /\ ~n.mem.mark.active /\ n.mem.parked = {} /\ n.mem.probing = {}
      /\ \A f \in 1..MaxFlights : n.mem.flights[f] = Free
      /\ \A p \in Ptys : n.mem.current[p] = 0
  BY <1>1, FreshIsEmpty
<1>3. n.term \in [Ptys -> TermType] /\ \A p \in Ptys : n.term[p].runs = 1 /\ n.term[p].known = 1
  <2>1. 1 \in 0..MaxIncarnation /\ 1 \in 1..MaxIncarnation
    BY PointerAssumption
  <2>2. [runs |-> 1, known |-> 1, writable |-> TRUE, status |-> "unseen", exiting |-> FALSE] \in TermType
    BY <2>1 DEF TermType
  <2> QED BY <1>1, <2>2
<1>4. n.keys \in KeyType /\ n.keys.submitted = {} /\ n.keys.twice = FALSE /\ n.keys.stray = FALSE
  BY <1>1 DEF KeyType
<1>5. n.rows \in Seq(RowType) /\ Len(n.rows) = 0 /\ DOMAIN n.rows = {}
  BY <1>1
<1>6. n \in State
  <2>1. n = [rows |-> n.rows, outstanding |-> n.outstanding, owner |-> n.owner, waiter |-> n.waiter,
             term |-> n.term, mem |-> n.mem, keys |-> n.keys, offered |-> n.offered]
    BY DEF Now
  <2>2. n.outstanding \in SUBSET (1..MaxMessages) /\ n.waiter \in BOOLEAN /\ n.offered \in BOOLEAN
    BY <1>1
  <2> QED BY <1>1, <1>2, <1>3, <1>4, <1>5, <2>1, <2>2 DEF State
<1>7. Typed(n) /\ Uniform(n.rows)
  BY <1>1, <1>2, <1>5, <1>6, PointerAssumption DEF Typed, Tidy, Uniform
<1>8. ProcessesKnown(n) /\ TextLands(n) /\ PanesFly(n) /\ ParkedBehind(n) /\ ProbesOwner(n) /\ NoStray(n)
  BY <1>2, <1>3, <1>4 DEF ProcessesKnown, TextLands, PanesFly, ParkedBehind, ProbesOwner, NoStray
<1>9. MarkStands(n, 0) /\ FlightsHold(n, 0)
  BY <1>2 DEF MarkStands, FlightsHold, Flying, Others
<1>10. EntersOnce(n)
  BY <1>4 DEF EntersOnce
<1>11. Sound(n, 0)
  BY <1>7, <1>8, <1>9, <1>10 DEF Sound
<1> QED BY <1>1, <1>11, PointerAssumption DEF IInv

LEMMA NextSound == IInv /\ [Next]_vars => IInv'
<1> SUFFICES ASSUME IInv, [Next]_vars PROVE IInv'
  OBVIOUS
<1>1. ASSUME NEW f \in 1..MaxFlights, FlightStep(f) PROVE IInv'
  BY <1>1, SettlePasteKeeps, EnterTimerKeeps, SubmitKeeps, SettleEnterKeeps DEF FlightStep
<1>2. CASE Send \/ Repoint
  BY <1>2, SendKeeps, RepointKeeps
<1>3. ASSUME NEW p \in Ptys,
             \/ Recheck(p) \/ AfterProbe(p)
             \/ IdleTitle(p) \/ BusyTitle(p) \/ NeutralTitle(p)
             \/ Exit(p) \/ ReportExit(p) \/ Register(p)
             \/ Disconnect(p) \/ Reconnect(p)
             \/ CrashBeforeWrite(p)
      PROVE  IInv'
  BY <1>3, RecheckStepKeeps, AfterProbeKeeps, IdleTitleKeeps, BusyTitleKeeps, NeutralTitleKeeps,
     ExitKeeps, ReportExitKeeps, RegisterKeeps, DisconnectKeeps, ReconnectKeeps, CrashKeeps
<1>4. CASE Consumes
  <2>1. CASE Wait \/ WaitEnds
    BY <2>1, WaitKeeps DEF Wait, WaitEnds
  <2>2. CASE Check \/ Ack
    BY <2>2, CheckKeeps, AckKeeps
  <2>3. ASSUME NEW p \in Ptys, Rebind(p) PROVE IInv'
    BY <2>3, RebindKeeps
  <2> QED BY <1>4, <2>1, <2>2, <2>3 DEF Consumes
<1>5. CASE RuntimeRestart
  BY <1>5, RuntimeRestartKeeps
<1>6. CASE UNCHANGED vars
  <2>1. Now' = Now /\ restarts' = restarts
    BY <1>6 DEF vars, Now
  <2>2. Sound(Now, 0) /\ restarts \in 0..MaxRestarts
    BY DEF IInv
  <2>3. Sound(Now', 0)
    BY <2>1, <2>2
  <2> QED BY <2>1, <2>2, <2>3 DEF IInv
<1> QED BY <1>1, <1>2, <1>3, <1>4, <1>5, <1>6 DEF Next

\* The invariant holds in every state, for every number of panes, messages, processes,
\* flights and restarts.
THEOREM Invariance == Spec => []IInv
BY InitSound, NextSound, PTL DEF Spec

\* Every variable has its type, and a row names a process exactly while it is reserved
\* (orchestration_messages, the flights and the watermark of mailbox-pointer-*.ts).
THEOREM MailboxTypes == Spec => []TypeOK
<1>1. IInv => TypeOK
  <2> SUFFICES ASSUME IInv PROVE TypeOK
    OBVIOUS
  <2>1. /\ Now \in State /\ rows \in Seq(RowType) /\ Tidy(rows) /\ restarts \in 0..MaxRestarts
        /\ Now.rows = rows /\ Now.outstanding = outstanding /\ Now.owner = owner
        /\ Now.waiter = waiter /\ Now.term = term /\ Now.mem = mem /\ Now.keys = keys
        /\ Typed(Now)
    BY NowSound DEF Sound
  <2>2. owner \in Ptys /\ waiter \in BOOLEAN /\ term \in [Ptys -> TermType] /\ mem \in MemType /\ keys \in KeyType
    BY <2>1 DEF State
  <2>3. Len(rows) <= MaxMessages /\ outstanding \subseteq DOMAIN rows
    BY <2>1 DEF Typed
  <2>4. \A m \in DOMAIN rows : rows[m].phase = 0 <=> rows[m].at = <<>>
    BY <2>1 DEF Tidy
  <2> QED BY <2>1, <2>2, <2>3, <2>4 DEF TypeOK, KeyType
<1> QED BY <1>1, Invariance, PTL

\* Enter is only pressed in the process that got the text, whatever ended, was respawned,
\* lost or restarted in between (mailbox-pointer-submit.ts:68-76).
THEOREM EnterAlwaysFollowsItsText == Spec => []EnterFollowsItsText
<1>1. IInv => EnterFollowsItsText
  BY NowSound DEF Sound, NoStray, EnterFollowsItsText
<1> QED BY <1>1, Invariance, PTL

\* Where no probe outlives the binding of its run, and no flight that was retired answers
\* for a later one, a process gets Enter at most once for a message.
THEOREM EnterAlwaysOncePerPointer ==
  ASSUME ~LateProbes, RetiredStaysRetired
  PROVE  Spec => []EnterOncePerPointer
<1>1. IInv => EnterOncePerPointer
  BY NowSound DEF Sound, EntersOnce, EnterOncePerPointer
<1> QED BY <1>1, Invariance, PTL

\* Where no flight that was retired answers for a later one, the watermark and what is
\* parked stand for a flight under way, whose unread rows are reserved for its process.
THEOREM FlightsAlwaysWhole ==
  ASSUME RetiredStaysRetired
  PROVE  Spec => []FlightsAreWhole
<1>1. IInv => FlightsAreWhole
  <2> SUFFICES ASSUME IInv PROVE FlightsAreWhole
    OBVIOUS
  <2>1. /\ Sound(Now, 0) /\ Now.mem = mem /\ Now.rows = rows /\ rows \in Seq(RowType)
    BY NowSound
  <2>2. \A f \in 1..MaxFlights : f \in Others(0)
    BY PointerAssumption DEF Others
  <2>3. mem.mark.active => \E f \in 1..MaxFlights : mem.flights[f] # Free /\ IsCurrent(Now, f) /\ Marks(Now, f)
    BY <2>1 DEF Sound, MarkStands, Flying, Others
  <2>4. \A p \in mem.parked : mem.current[p] # 0
    BY <2>1 DEF Sound, ParkedBehind
  <2>5. ASSUME NEW f \in 1..MaxFlights, mem.flights[f] # Free, IsCurrent(Now, f),
               NEW m \in mem.flights[f].batch \cap Unread(rows)
        PROVE  /\ rows[m].phase = IF mem.flights[f].step = "entering" THEN ENTER_ATTEMPTED ELSE WRITE_ATTEMPTED
               /\ rows[m].at = <<mem.flights[f].pty, mem.flights[f].inc>>
    <3>1. Flying(Now, f)
      BY <2>1, <2>5 DEF Flying
    <3>2. Whole(rows, mem.flights[f])
      BY <2>1, <2>2, <3>1 DEF Sound, FlightsHold
    <3> QED BY <3>2 DEF Whole, Unread
  <2> QED BY <2>3, <2>4, <2>5 DEF FlightsAreWhole
<1> QED BY <1>1, Invariance, PTL

-----------------------------------------------------------------------------
(* The idle edge *)

\* What no handler that points at mail changes: what the runtime sees of its sessions.
HasTerm(s) == "term" \in DOMAIN s /\ "offered" \in DOMAIN s
KeepsTerm(s, t) == HasTerm(t) /\ t.term = s.term
Quiet(s, t) == KeepsTerm(s, t) /\ t.offered = s.offered

LEMMA QuietSteps ==
  ASSUME NEW s, HasTerm(s)
  PROVE  /\ \A force \in BOOLEAN : KeepsTerm(s, Redrive(s, force))
         /\ Quiet(s, ClearMark(s)) /\ Quiet(s, DeactivateMark(s))
         /\ \A rs : Quiet(s, [s EXCEPT !.rows = rs])
         /\ \A memory : Quiet(s, [s EXCEPT !.mem = memory])
BY DEF HasTerm, KeepsTerm, Quiet, Redrive, ClearMark, DeactivateMark

LEMMA PointQuiet ==
  ASSUME NEW s, HasTerm(s), NEW p, NEW probed, NEW t \in Point(s, p, probed)
  PROVE  Quiet(s, t)
<1> DEFINE u == ClearMark(s)
<1>1. t = s \/ \E v \in {s, u} : t \in Stage(v, p) \/ t = [v EXCEPT !.mem.probing = @ \cup {p}]
  BY DEF Point
<1>2. ASSUME NEW v, HasTerm(v) PROVE \A w \in Stage(v, p) : Quiet(v, w)
  <2> SUFFICES ASSUME NEW w \in Stage(v, p) PROVE Quiet(v, w)
    OBVIOUS
  <2>1. PICK f, into : w = Staged(v, p, f, into)
    BY DEF Stage
  <2> QED BY <1>2, <2>1 DEF Staged, HasTerm, KeepsTerm, Quiet
<1>3. ASSUME NEW v, HasTerm(v) PROVE Quiet(v, [v EXCEPT !.mem.probing = @ \cup {p}])
  BY <1>3, QuietSteps
<1>4. Quiet(s, s) /\ Quiet(s, u)
  BY QuietSteps DEF Quiet, KeepsTerm
<1> HIDE DEF u
<1>5. HasTerm(u)
  BY <1>4 DEF Quiet, KeepsTerm
<1>6. \E v \in {s, u} : Quiet(v, t)
  BY <1>1, <1>2, <1>3, <1>4, <1>5
<1> QED BY <1>4, <1>6 DEF Quiet, KeepsTerm

LEMMA ResumePendingQuiet ==
  ASSUME NEW s, HasTerm(s), NEW p, NEW probed, NEW t \in ResumePending(s, p, probed)
  PROVE  Quiet(s, t)
<1>1. \E rs : t = [s EXCEPT !.rows = rs] \/ t \in Point([s EXCEPT !.rows = rs], p, probed)
  BY DEF ResumePending
<1>2. PICK rs : t = [s EXCEPT !.rows = rs] \/ t \in Point([s EXCEPT !.rows = rs], p, probed)
  BY <1>1
<1> DEFINE u == [s EXCEPT !.rows = rs]
<1>3. Quiet(s, u) /\ HasTerm(u)
  BY QuietSteps DEF Quiet, KeepsTerm
<1> HIDE DEF u
<1>4. CASE t \in Point(u, p, probed)
  <2>1. Quiet(u, t)
    BY <1>3, <1>4, PointQuiet
  <2> QED BY <1>3, <2>1 DEF Quiet, KeepsTerm
<1> QED BY <1>2, <1>3, <1>4 DEF u

LEMMA DeliverSettledQuiet ==
  ASSUME NEW s, HasTerm(s), NEW p, NEW probed, NEW t \in DeliverSettled(s, p, probed)
  PROVE  Quiet(s, t)
<1>1. t = s \/ (\E memory : t = [s EXCEPT !.mem = memory]) \/ t \in ResumePending(s, p, probed)
  BY DEF DeliverSettled
<1>2. Quiet(s, s)
  BY DEF Quiet, KeepsTerm
<1> QED BY <1>1, <1>2, QuietSteps, ResumePendingQuiet

LEMMA DeliverQuiet ==
  ASSUME NEW s, HasTerm(s), NEW p, NEW probed, NEW t \in Deliver(s, p, probed)
  PROVE  Quiet(s, t)
<1> DEFINE u == [s EXCEPT !.mem.recheck = @ \ {p}]
<1>1. t = s \/ (\E memory : t = [s EXCEPT !.mem = memory]) \/ t \in DeliverSettled(u, p, probed)
  BY DEF Deliver
<1>2. Quiet(s, s)
  BY DEF Quiet, KeepsTerm
<1>3. Quiet(s, u) /\ HasTerm(u)
  BY QuietSteps DEF Quiet, KeepsTerm
<1> HIDE DEF u
<1>4. CASE t \in DeliverSettled(u, p, probed)
  <2>1. Quiet(u, t)
    BY <1>3, <1>4, DeliverSettledQuiet
  <2> QED BY <1>3, <2>1 DEF Quiet, KeepsTerm
<1> QED BY <1>1, <1>2, <1>4, QuietSteps

LEMMA BecomesTerm ==
  ASSUME NEW s, HasTerm(s), Becomes(s)
  PROVE  term' = s.term
<1> DEFINE u == [s EXCEPT !.offered = FALSE]
<1>1. PICK t \in IF s.offered THEN DeliverForHandle(u) ELSE {s} : term' = t.term
  BY DEF Becomes
<1>2. HasTerm(u) /\ u.term = s.term
  BY DEF HasTerm
<1> HIDE DEF u
<1>3. t = s \/ t = u \/ t \in Deliver(u, u.owner, FALSE)
  BY <1>1 DEF DeliverForHandle
<1>4. t.term = s.term
  BY <1>2, <1>3, DeliverQuiet, ZenonT(60) DEF Quiet, KeepsTerm
<1> QED BY <1>1, <1>4

LEMMA DeliverForLeafQuiet ==
  ASSUME NEW s, HasTerm(s), NEW p, NEW t \in DeliverForLeaf(s, p)
  PROVE  Quiet(s, t)
<1>1. t = s \/ t \in DeliverSettled(s, p, FALSE)
  BY DEF DeliverForLeaf
<1> QED BY <1>1, DeliverSettledQuiet DEF Quiet, KeepsTerm

LEMMA SettleFlightTerm ==
  ASSUME NEW s, HasTerm(s), NEW f, NEW t \in SettleFlight(s, f)
  PROVE  KeepsTerm(s, t)
<1> DEFINE p == s.mem.flights[f].pty
           freed == [s EXCEPT !.mem.flights[f] = Free]
           ended == [freed EXCEPT !.mem.current[p] = 0, !.mem.parked = @ \ {p}]
           noted == [ended EXCEPT !.mem.reoffer = TRUE]
<1>1. t \in {freed, ended} \/ t \in Deliver(ended, p, FALSE) \/ t = Redrive(noted, FALSE)
  BY DEF SettleFlight
<1>2. KeepsTerm(s, freed)
  BY QuietSteps DEF Quiet
<1>3. KeepsTerm(s, ended)
  BY <1>2 DEF KeepsTerm, HasTerm
<1> HIDE DEF freed
<1>4. KeepsTerm(s, noted)
  BY <1>3 DEF KeepsTerm, HasTerm
<1> HIDE DEF ended
<1>5. t \in Deliver(ended, p, FALSE) => KeepsTerm(s, t)
  BY <1>3, DeliverQuiet, ZenonT(60) DEF Quiet, KeepsTerm
<1> HIDE DEF noted
<1>6. KeepsTerm(noted, Redrive(noted, FALSE))
  BY <1>4, QuietSteps DEF KeepsTerm
<1> QED BY <1>1, <1>2, <1>3, <1>4, <1>5, <1>6 DEF KeepsTerm

LEMMA SubmittedTerm ==
  ASSUME NEW s, HasTerm(s), NEW f, NEW rs, NEW redrive \in BOOLEAN, NEW force \in BOOLEAN,
         NEW t \in Submitted(s, f, rs, redrive, force) \cup InDoubt(s, f)
  PROVE  KeepsTerm(s, t)
<1> DEFINE u == [s EXCEPT !.rows = rs]
<1>1. KeepsTerm(s, u) /\ KeepsTerm(s, DeactivateMark(s)) /\ KeepsTerm(s, s)
  BY QuietSteps DEF Quiet, KeepsTerm
<1>2. \E v \in {u, ClearMark(u), s, DeactivateMark(s)} : \E w \in SettleFlight(v, f) :
         t = w \/ t = Redrive(w, force) \/ t = Redrive(w, FALSE)
  BY DEF Submitted, InDoubt
<1> HIDE DEF u
<1>3. KeepsTerm(u, ClearMark(u))
  BY <1>1, QuietSteps DEF Quiet, KeepsTerm
<1>4. PICK v, w : /\ KeepsTerm(s, v) /\ w \in SettleFlight(v, f)
                  /\ t = w \/ t = Redrive(w, force) \/ t = Redrive(w, FALSE)
  BY <1>1, <1>2, <1>3 DEF KeepsTerm
<1>5. KeepsTerm(v, w)
  BY <1>4, SettleFlightTerm DEF KeepsTerm
<1>6. KeepsTerm(w, t)
  BY <1>4, <1>5, QuietSteps DEF KeepsTerm
<1> QED BY <1>4, <1>5, <1>6 DEF KeepsTerm

LEMMA RetirePtyTerm ==
  ASSUME NEW s, HasTerm(s), NEW p
  PROVE  KeepsTerm(s, RetirePty(s, p))
<1> DEFINE f == s.mem.current[p]
           flight == s.mem.flights[f]
           ended == IF f = 0 THEN s
                    ELSE [s EXCEPT
                            !.mem.current[p] = 0, !.mem.parked = @ \ {p},
                            !.mem.flights[f] = IF @.step \in {"armed", "held"} THEN Free ELSE @,
                            !.rows = Released(@, flight.batch, <<p, flight.inc>>,
                                              {RESERVED, WRITE_ATTEMPTED})]
<1>1. RetirePty(s, p) \in {ended, Redrive(ClearMark(ended), TRUE)}
  BY DEF RetirePty
<1>2. KeepsTerm(s, ended)
  BY DEF KeepsTerm, HasTerm
<1> HIDE DEF ended
<1>3. KeepsTerm(ended, ClearMark(ended))
  BY <1>2, QuietSteps DEF Quiet, KeepsTerm
<1>4. KeepsTerm(ClearMark(ended), Redrive(ClearMark(ended), TRUE))
  BY <1>3, QuietSteps DEF KeepsTerm
<1> QED BY <1>1, <1>2, <1>3, <1>4 DEF KeepsTerm


\* A row that may be pointed at is on its way, or a pointer of rs was settled instead.
OnItsWay(t, p, rs) ==
    \/ Offerable(t.rows) = {}
    \/ p \in t.mem.recheck \cup t.mem.probing
    \/ t.mem.current[p] # 0
    \/ t.mem.mark.active /\ t.mem.reoffer
    \/ \E m \in Pending(rs) : t.rows[m].delivered

\* No pointer to pane p is in doubt.
Clear(s, p) == s.mem.mark # NoMark /\ ~s.mem.mark.active => s.mem.mark.pty # p

LEMMA StageOffers ==
  ASSUME NEW s \in State, NEW p \in Ptys, NEW t \in Stage(s, p)
  PROVE  t.mem.current[p] # 0
<1>1. PICK f, into : f \in 1..MaxFlights /\ t = Staged(s, p, f, into)
  BY DEF Stage, FreeFlights
<1>2. t.mem.current = [s.mem.current EXCEPT ![p] = f]
  BY <1>1 DEF Staged, State, MemType
<1>3. s.mem.current \in [Ptys -> 0..MaxFlights] /\ f # 0
  BY <1>1 DEF State, MemType
<1> QED BY <1>2, <1>3

LEMMA PointOffers ==
  ASSUME NEW s \in State, DOMAIN s.rows \subseteq 1..MaxMessages, NEW p \in Ptys,
         s.term[p].writable, ~s.mem.mark.active, Clear(s, p),
         NEW rs, NEW t \in Point(s, p, FALSE)
  PROVE  OnItsWay(t, p, rs)
<1> DEFINE u == ClearMark(s)
<1>1. ~Refused(s, p) \/ Offerable(s.rows) = {}
  <2> SUFFICES ASSUME Refused(s, p), Offerable(s.rows) # {} PROVE FALSE
    OBVIOUS
  <2>1. CASE s.mem.mark = NoMark
    <3>1. Offerable(s.rows) \in SUBSET (1..MaxMessages)
      BY DEF Offerable, Unread
    <3>2. Max(Offerable(s.rows)) \in 1..MaxMessages
      BY <3>1, MaxOf
    <3>3. Max(Offerable(s.rows)) <= 0
      BY <2>1 DEF Refused, NoMark
    <3> QED BY <3>2, <3>3
  <2>2. CASE s.mem.mark # NoMark
    BY <2>2 DEF Refused, Clear
  <2> QED BY <2>1, <2>2
<1>2. CASE Offerable(s.rows) = {}
  BY <1>2 DEF Point, OnItsWay
<1>3. CASE Offerable(s.rows) # {}
  <2>1. PICK v \in {s, u} : t \in Stage(v, p) \/ t = [v EXCEPT !.mem.probing = @ \cup {p}]
    BY <1>1, <1>3 DEF Point
  <2>2. v \in State
    <3>1. u \in State
      BY DEF ClearMark, State, MemType
    <3> HIDE DEF u
    <3> QED BY <3>1
  <2> HIDE DEF u
  <2>3. CASE t \in Stage(v, p)
    BY <2>2, <2>3, StageOffers DEF OnItsWay
  <2>4. CASE t = [v EXCEPT !.mem.probing = @ \cup {p}]
    <3>1. p \in t.mem.probing
      BY <2>2, <2>4 DEF State, MemType
    <3> QED BY <3>1 DEF OnItsWay
  <2> QED BY <2>1, <2>3, <2>4
<1> QED BY <1>2, <1>3

LEMMA ResumePendingOffers ==
  ASSUME NEW s \in State, DOMAIN s.rows \subseteq 1..MaxMessages, NEW p \in Ptys,
         s.term[p].writable, ~s.mem.mark.active, Clear(s, p),
         NEW t \in ResumePending(s, p, FALSE)
  PROVE  OnItsWay(t, p, s.rows)
<1> DEFINE pending == Pending(s.rows)
           here == \A m \in pending : s.rows[m].at = Known(s, p)
           attempted == \E m \in pending : s.rows[m].phase # RESERVED
<1>0. s.rows \in Seq(RowType)
  BY DEF State
<1>1. CASE pending # {} /\ here /\ attempted
  <2> DEFINE out == Settled(s.rows, pending, Known(s, p), {WRITE_ATTEMPTED, ENTER_ATTEMPTED})
  <2>1. t = [s EXCEPT !.rows = out]
    BY <1>1 DEF ResumePending
  <2>2. PICK m \in pending : s.rows[m].phase # RESERVED
    BY <1>1
  <2>3. m \in DOMAIN s.rows /\ s.rows[m].at = Known(s, p) /\ s.rows[m].phase > 0
    BY <1>1 DEF Pending, Unread
  <2>4. s.rows[m].phase \in {WRITE_ATTEMPTED, ENTER_ATTEMPTED}
    <3>1. s.rows[m] \in RowType
      BY <1>0, <2>3
    <3>2. s.rows[m].phase \in 0..3
      BY <3>1 DEF RowType
    <3> QED BY <2>2, <2>3, <3>2 DEF RESERVED, WRITE_ATTEMPTED, ENTER_ATTEMPTED
  <2>5. out[m].delivered
    BY <1>0, <2>3, <2>4, SettledDoes
  <2> HIDE DEF out
  <2>6. t.rows = out
    BY <2>1 DEF State
  <2> QED BY <2>5, <2>6 DEF OnItsWay
<1>2. CASE ~(pending # {} /\ here /\ attempted)
  <2> DEFINE out == MarkedUndelivered(s.rows, pending)
             u == [s EXCEPT !.rows = out]
  <2>1. t \in Point(u, p, FALSE)
    BY <1>2 DEF ResumePending
  <2>2. LetGo(s.rows, out, pending)
    BY <1>0, MarkedUndeliveredDoes
  <2> HIDE DEF out
  <2>3. u \in State /\ u.rows = out /\ u.term = s.term /\ u.mem = s.mem
    BY <2>2 DEF State, LetGo
  <2>4. DOMAIN u.rows \subseteq 1..MaxMessages
    BY <2>2, <2>3 DEF LetGo
  <2> HIDE DEF u, pending
  <2>5. Clear(u, p) /\ u.term[p].writable /\ ~u.mem.mark.active
    BY <2>3 DEF Clear
  <2> QED BY <2>1, <2>3, <2>4, <2>5, PointOffers
<1> QED BY <1>1, <1>2

LEMMA DeliverSettledOffers ==
  ASSUME NEW s \in State, DOMAIN s.rows \subseteq 1..MaxMessages, NEW p \in Ptys,
         s.term[p].writable, Clear(s, p), s.outstanding = {}, ~s.waiter,
         NEW t \in DeliverSettled(s, p, FALSE)
  PROVE  OnItsWay(t, p, s.rows)
<1> DEFINE f == s.mem.current[p]
<1>1. CASE f # 0
  <2>1. t = [s EXCEPT !.mem.parked = @ \cup {p},
                      !.mem.flights[f].step = IF @ = "held" THEN "probing" ELSE @]
    BY <1>1 DEF DeliverSettled
  <2>2. t.mem.current = s.mem.current
    BY <2>1 DEF State, MemType
  <2> QED BY <1>1, <2>2 DEF OnItsWay
<1>2. CASE f = 0 /\ s.mem.mark.active
  <2>1. t = [s EXCEPT !.mem.reoffer = TRUE]
    BY <1>2 DEF DeliverSettled
  <2>2. t.mem.mark.active /\ t.mem.reoffer
    BY <1>2, <2>1 DEF State, MemType
  <2> QED BY <2>2 DEF OnItsWay
<1>3. CASE f = 0 /\ ~s.mem.mark.active
  <2>1. t \in ResumePending(s, p, FALSE)
    BY <1>3 DEF DeliverSettled
  <2> QED BY <1>3, <2>1, ResumePendingOffers
<1> QED BY <1>1, <1>2, <1>3

\* An idle title of the owning pane arms the re-check, or delivers at once.
LEMMA IdleTitleOffers ==
  ASSUME IInv, NEW p \in Ptys, IdleTitle(p), ~LiveIdle(Now, p), ~InDoubtAt(p),
         owner = p, outstanding = {}, ~waiter
  PROVE  OnItsWay(Now', p, rows)
<1> PICK n : n = Now
  OBVIOUS
<1> DEFINE f == n.mem.current[p]
           woken == IF f = 0 THEN n
                    ELSE [n EXCEPT !.mem.flights[f].step = IF @ = "held" THEN "probing" ELSE @]
           seen == [woken EXCEPT !.term[p].status = "idle"]
           rechecked == [seen EXCEPT !.mem.recheck = @ \cup {p}]
           unchecked == [seen EXCEPT !.mem.recheck = @ \ {p}]
<1>1. /\ Sound(n, 0) /\ n.mem = mem /\ n.term = term /\ n.rows = rows /\ n.owner = p
      /\ n.outstanding = {} /\ ~n.waiter /\ ~n.offered
  BY NowSound
<1>2. term[p].writable /\ Clear(n, p)
  BY <1>1 DEF IdleTitle, InDoubtAt, Clear
<1>3. \/ Becomes(rechecked)
      \/ \E s \in DeliverForLeaf(unchecked, p) : Becomes(s)
  BY <1>1, ZenonT(60) DEF IdleTitle
<1>4. Sound(woken, 0)
  BY <1>1, WakingKeeps
<1>5. n \in State
  BY <1>1 DEF Sound, Typed
<1>6. /\ woken.rows = rows /\ woken.owner = p /\ woken.outstanding = {} /\ ~woken.waiter /\ ~woken.offered
      /\ woken.mem.mark = n.mem.mark /\ woken.term = term
  BY <1>1, <1>5 DEF State, MemType
<1> HIDE DEF woken
<1>7. Sound(seen, 0)
  BY <1>4, SeenKeeps
<1>8. woken \in State
  BY <1>4 DEF Sound, Typed
<1>9. /\ seen.rows = rows /\ seen.owner = p /\ seen.outstanding = {} /\ ~seen.waiter /\ ~seen.offered
      /\ seen.mem.mark = n.mem.mark /\ seen.term[p].writable
  <2>1. term[p] \in TermType
    BY <1>1, <1>5 DEF State
  <2> QED BY <1>2, <1>6, <1>8, <2>1 DEF State, TermType
<1> HIDE DEF seen
<1>10. seen \in State /\ Len(seen.rows) <= MaxMessages
  BY <1>7 DEF Sound, Typed
<1>11. DOMAIN rows \subseteq 1..MaxMessages
  <2>1. rows \in Seq(RowType) /\ Len(rows) <= MaxMessages
    BY <1>9, <1>10 DEF State
  <2> QED BY <2>1, PointerAssumption
<1>12. CASE Becomes(rechecked)
  <2>1. ~rechecked.offered /\ p \in rechecked.mem.recheck
    BY <1>9, <1>10 DEF State, MemType
  <2> HIDE DEF rechecked
  <2>2. mem' = rechecked.mem
    BY <1>12, <2>1 DEF Becomes
  <2>3. Now'.mem = mem'
    BY DEF Now
  <2> QED BY <2>1, <2>2, <2>3 DEF OnItsWay
<1>13. CASE \E s \in DeliverForLeaf(unchecked, p) : Becomes(s)
  <2>1. /\ unchecked \in State /\ unchecked.rows = rows /\ unchecked.owner = p /\ unchecked.outstanding = {}
        /\ ~unchecked.waiter /\ ~unchecked.offered /\ unchecked.mem.mark = n.mem.mark
        /\ unchecked.term[p].writable
    BY <1>9, <1>10 DEF State, MemType
  <2> HIDE DEF unchecked
  <2>2. PICK s \in DeliverSettled(unchecked, p, FALSE) : Becomes(s)
    BY <1>13, <2>1 DEF DeliverForLeaf
  <2>3. Clear(unchecked, p)
    BY <1>2, <2>1 DEF Clear
  <2>4. OnItsWay(s, p, rows)
    BY <1>11, <2>1, <2>2, <2>3, DeliverSettledOffers
  <2>5. HasTerm(unchecked)
    BY <2>1 DEF State, HasTerm
  <2>6. s.offered = unchecked.offered
    BY <2>2, <2>5, DeliverSettledQuiet DEF Quiet
  <2>7. rows' = s.rows /\ mem' = s.mem
    BY <2>1, <2>2, <2>6 DEF Becomes
  <2>8. Now'.rows = rows' /\ Now'.mem = mem'
    BY DEF Now
  <2> QED BY <2>4, <2>7, <2>8 DEF OnItsWay
<1> QED BY <1>3, <1>12, <1>13

\* Only an idle title makes a pane idle.
NotIdled(p) == term'[p].status = "idle" => term[p].status = "idle"

LEMMA NowTerm == HasTerm(Now) /\ Now.term = term
BY DEF HasTerm, Now

LEMMA SettlePasteTerm ==
  ASSUME NEW f \in 1..MaxFlights, SettlePaste(f)
  PROVE  term' = term
<1> PICK n : n = Now
  OBVIOUS
<1> DEFINE flight == n.mem.flights[f]
           cleared == IF Marks(n, f) THEN Redrive(ClearMark(n), FALSE) ELSE n
           refused == [cleared EXCEPT !.rows = MarkedUndelivered(@, flight.batch)]
           submitted == [ClearMark(n) EXCEPT !.rows = MarkedDelivered(@, flight.batch)]
           armed == [n EXCEPT !.mem.flights[f].step = "armed"]
<1>1. HasTerm(n) /\ n.term = term /\ n.mem = mem
  BY NowTerm DEF Now
<1>2. \/ \E v \in {n, DeactivateMark(n), cleared, refused, Redrive(submitted, FALSE)} :
           \E s \in SettleFlight(v, f) : Becomes(s)
      \/ Becomes(armed)
  BY <1>1 DEF SettlePaste
<1>3. KeepsTerm(n, n) /\ KeepsTerm(n, DeactivateMark(n)) /\ KeepsTerm(n, ClearMark(n)) /\ KeepsTerm(n, armed)
  <2>1. KeepsTerm(n, n) /\ KeepsTerm(n, armed)
    BY <1>1 DEF KeepsTerm, HasTerm
  <2> HIDE DEF armed
  <2> QED BY <1>1, <2>1, QuietSteps DEF Quiet
<1>4. KeepsTerm(n, cleared)
  BY <1>1, <1>3, QuietSteps DEF KeepsTerm
<1> HIDE DEF cleared
<1>5. KeepsTerm(n, refused)
  BY <1>4 DEF KeepsTerm, HasTerm
<1>6. KeepsTerm(n, submitted)
  BY <1>3 DEF KeepsTerm, HasTerm
<1> HIDE DEF submitted, refused, armed
<1>7. KeepsTerm(n, Redrive(submitted, FALSE))
  BY <1>6, QuietSteps DEF KeepsTerm
<1>8. PICK s : Becomes(s) /\ (s = armed \/ \E v : KeepsTerm(n, v) /\ s \in SettleFlight(v, f))
  BY <1>2, <1>3, <1>4, <1>5, <1>7
<1>9. KeepsTerm(n, s)
  BY <1>3, <1>8, SettleFlightTerm DEF KeepsTerm
<1> QED BY <1>1, <1>8, <1>9, BecomesTerm DEF KeepsTerm

LEMMA SubmitTerm ==
  ASSUME IInv, NEW f \in 1..MaxFlights, Submit(f)
  PROVE  term' = term
<1> PICK n : n = Now
  OBVIOUS
<1>1. HasTerm(n) /\ n.term = term
  BY NowTerm
<1>2. \/ \E rs : \E s \in Submitted(n, f, rs, TRUE, TRUE) \cup Submitted(n, f, rs, FALSE, FALSE) : Becomes(s)
      \/ \E s \in SettleFlight(n, f) \cup InDoubt(n, f) : Becomes(s)
      \/ \E rs, flight, ks : Becomes([n EXCEPT !.rows = rs, !.mem.flights[f] = flight, !.keys = ks])
      \/ Becomes([Now EXCEPT !.mem.flights[f].step = "held"])
  <2> DEFINE flight == mem.flights[f]
             target == <<flight.pty, flight.inc>>
             released == Released(rows, flight.batch, target, {WRITE_ATTEMPTED})
             settled == Settled(rows, flight.batch, target, {WRITE_ATTEMPTED})
  <2>1. \/ \E s \in Submitted(n, f, released, TRUE, TRUE) \cup Submitted(n, f, settled, FALSE, FALSE) : Becomes(s)
        \/ \E s \in SettleFlight(n, f) \cup InDoubt(n, f) : Becomes(s)
        \/ \E into : Becomes([n EXCEPT !.rows = EnteredRows(n, f), !.mem.flights[f] = EnteringFlight(n, f, into),
                                        !.keys = KeysPressed(n, f, into)])
        \/ Becomes([Now EXCEPT !.mem.flights[f].step = "held"])
    <3> HIDE DEF Now
    <3> QED BY SubmitDoes
  <2> HIDE DEF released, settled
  <2>2. ASSUME NEW s, Becomes(s),
               s \in Submitted(n, f, released, TRUE, TRUE) \cup Submitted(n, f, settled, FALSE, FALSE)
        PROVE  \E rs : \E u \in Submitted(n, f, rs, TRUE, TRUE) \cup Submitted(n, f, rs, FALSE, FALSE) : Becomes(u)
    BY <2>2
  <2>3. ASSUME NEW into, Becomes([n EXCEPT !.rows = EnteredRows(n, f), !.mem.flights[f] = EnteringFlight(n, f, into),
                                           !.keys = KeysPressed(n, f, into)])
        PROVE  \E rs, g, ks : Becomes([n EXCEPT !.rows = rs, !.mem.flights[f] = g, !.keys = ks])
    BY <2>3
  <2> HIDE DEF Now
  <2> QED BY <2>1, <2>2, <2>3
<1>3. PICK s : Becomes(s) /\ KeepsTerm(n, s)
  <2>1. CASE \E rs : \E s \in Submitted(n, f, rs, TRUE, TRUE) \cup Submitted(n, f, rs, FALSE, FALSE) : Becomes(s)
    BY <1>1, <2>1, SubmittedTerm
  <2>2. CASE \E s \in SettleFlight(n, f) \cup InDoubt(n, f) : Becomes(s)
    BY <1>1, <2>2, SettleFlightTerm, SubmittedTerm
  <2>3. CASE \E rs, flight, ks : Becomes([n EXCEPT !.rows = rs, !.mem.flights[f] = flight, !.keys = ks])
    <3>1. PICK rs, flight, ks : Becomes([n EXCEPT !.rows = rs, !.mem.flights[f] = flight, !.keys = ks])
      BY <2>3
    <3>2. PICK s : s = [n EXCEPT !.rows = rs, !.mem.flights[f] = flight, !.keys = ks] /\ Becomes(s)
      BY <3>1 DEF Becomes
    <3>3. KeepsTerm(n, s)
      BY <1>1, <3>2 DEF KeepsTerm, HasTerm
    <3> QED BY <3>2, <3>3
  <2>4. CASE Becomes([Now EXCEPT !.mem.flights[f].step = "held"])
    <3>1. PICK s : s = [n EXCEPT !.mem.flights[f].step = "held"] /\ Becomes(s)
      BY <2>4 DEF Becomes
    <3>2. KeepsTerm(n, s)
      BY <1>1, <3>1 DEF KeepsTerm, HasTerm
    <3> QED BY <3>1, <3>2
  <2> QED BY <1>2, <2>1, <2>2, <2>3, <2>4
<1> QED BY <1>1, <1>3, BecomesTerm DEF KeepsTerm

LEMMA SettleEnterTerm ==
  ASSUME NEW f \in 1..MaxFlights, SettleEnter(f)
  PROVE  term' = term
<1> DEFINE rs == Settled(rows, mem.flights[f].batch, <<mem.flights[f].pty, mem.flights[f].inc>>, {ENTER_ATTEMPTED})
<1> PICK n : n = Now
  OBVIOUS
<1>1. HasTerm(n) /\ n.term = term
  BY NowTerm
<1>2. \/ \E redrive \in BOOLEAN : \E s \in Submitted(n, f, rs, redrive, FALSE) : Becomes(s)
      \/ \E s \in SettleFlight(n, f) \cup InDoubt(n, f) : Becomes(s)
  BY DEF SettleEnter, Outcomes
<1>3. PICK s : Becomes(s) /\ KeepsTerm(n, s)
  BY <1>1, <1>2, SubmittedTerm, SettleFlightTerm
<1> QED BY <1>1, <1>3, BecomesTerm DEF KeepsTerm

LEMMA FlightStepTerm ==
  ASSUME IInv, NEW f \in 1..MaxFlights, FlightStep(f)
  PROVE  term' = term
<1>1. CASE EnterTimer(f)
  <2>1. PICK s : Becomes(s) /\ s = [Now EXCEPT !.mem.flights[f].step = "probing"]
    BY <1>1 DEF EnterTimer
  <2>2. HasTerm(s) /\ s.term = term
    BY <2>1, NowTerm DEF HasTerm
  <2> QED BY <2>1, <2>2, BecomesTerm
<1> QED BY <1>1, SettlePasteTerm, SubmitTerm, SettleEnterTerm DEF FlightStep

\* No step but an idle title of pane p makes that pane idle.
LEMMA OnlyTitlesIdle ==
  ASSUME IInv, Next, NEW p \in Ptys, ~IdleTitle(p)
  PROVE  NotIdled(p)
<1> USE DEF NotIdled
<1>0. HasTerm(Now) /\ Now.term = term /\ term \in [Ptys -> TermType] /\ term[p] \in TermType
  BY NowTerm, NowSound DEF State
<1>1. ASSUME NEW f \in 1..MaxFlights, FlightStep(f) PROVE NotIdled(p)
  BY <1>1, FlightStepTerm
<1>2. ASSUME NEW s, Becomes(s), HasTerm(s), s.term[p].status = term[p].status \/ s.term[p].status # "idle"
      PROVE  NotIdled(p)
  BY <1>2, BecomesTerm
<1> HIDE DEF NotIdled
<1>3. CASE Send
  <2>1. PICK s : s = [Now EXCEPT !.rows = Append(@, Row(FALSE, FALSE, 0, <<>>)), !.waiter = FALSE,
                                 !.mem.repoint = TRUE, !.offered = ~waiter] /\ Becomes(s)
    BY <1>3 DEF Send, Becomes
  <2>2. HasTerm(s) /\ s.term = term
    BY <1>0, <2>1 DEF HasTerm
  <2> QED BY <1>2, <2>1, <2>2
<1>4. CASE Repoint
  <2> DEFINE u == [Now EXCEPT !.mem.repoint = FALSE]
  <2>1. PICK s \in DeliverForHandle(u) : Becomes(s)
    BY <1>4 DEF Repoint
  <2>2. HasTerm(u) /\ u.term = term
    BY <1>0 DEF HasTerm
  <2> HIDE DEF u
  <2>3. HasTerm(s) /\ s.term = term
    BY <2>1, <2>2, DeliverQuiet DEF DeliverForHandle, Quiet, KeepsTerm
  <2> QED BY <1>2, <2>1, <2>3
<1>5. ASSUME NEW q \in Ptys, Recheck(q) PROVE NotIdled(p)
  <2> DEFINE u == [Now EXCEPT !.mem.recheck = @ \ {q}]
  <2>1. PICK s \in DeliverForLeaf(u, q) : Becomes(s)
    BY <1>5 DEF Recheck
  <2>2. HasTerm(u) /\ u.term = term
    BY <1>0 DEF HasTerm
  <2> HIDE DEF u
  <2>3. HasTerm(s) /\ s.term = term
    BY <2>1, <2>2, DeliverForLeafQuiet DEF Quiet, KeepsTerm
  <2> QED BY <1>2, <2>1, <2>3
<1>6. ASSUME NEW q \in Ptys, AfterProbe(q) PROVE NotIdled(p)
  <2> DEFINE u == [Now EXCEPT !.mem.probing = @ \ {q}]
  <2>1. PICK s \in {u} \cup Deliver(u, q, TRUE) : Becomes(s)
    BY <1>6 DEF AfterProbe
  <2>2. HasTerm(u) /\ u.term = term
    BY <1>0 DEF HasTerm
  <2> HIDE DEF u
  <2>3. HasTerm(s) /\ s.term = term
    BY <2>1, <2>2, DeliverQuiet DEF Quiet, KeepsTerm
  <2> QED BY <1>2, <2>1, <2>3
<1>7. ASSUME NEW q \in Ptys, IdleTitle(q), q # p PROVE NotIdled(p)
  <2> PICK n : n = Now
    OBVIOUS
  <2> DEFINE woken == IF n.mem.current[q] = 0 THEN n
                      ELSE [n EXCEPT !.mem.flights[n.mem.current[q]].step = IF @ = "held" THEN "probing" ELSE @]
             seen == [woken EXCEPT !.term[q].status = "idle"]
             rechecked == [seen EXCEPT !.mem.recheck = @ \cup {q}]
             unchecked == [seen EXCEPT !.mem.recheck = @ \ {q}]
  <2>1. n.mem = mem /\ HasTerm(n) /\ n.term = term
    BY <1>0, NowSound DEF Now
  <2>2. HasTerm(woken) /\ woken.term = term
    BY <2>1 DEF HasTerm
  <2>3. \/ Becomes(rechecked)
        \/ \E s \in DeliverForLeaf(unchecked, q) : Becomes(s)
        \/ Becomes(seen)
    BY <1>7, <2>1, ZenonT(60) DEF IdleTitle
  <2> HIDE DEF woken
  <2>4. HasTerm(seen) /\ seen.term[p] = term[p]
    BY <1>0, <1>7, <2>2 DEF HasTerm
  <2> HIDE DEF seen
  <2>5. HasTerm(rechecked) /\ rechecked.term[p] = term[p] /\ HasTerm(unchecked) /\ unchecked.term[p] = term[p]
    BY <2>4 DEF HasTerm
  <2> HIDE DEF rechecked, unchecked
  <2>6. PICK s : Becomes(s) /\ (s \in {rechecked, seen} \/ s \in DeliverForLeaf(unchecked, q))
    BY <2>3
  <2>7. HasTerm(s) /\ s.term[p] = term[p]
    BY <2>4, <2>5, <2>6, DeliverForLeafQuiet DEF Quiet, KeepsTerm
  <2> QED BY <1>2, <2>6, <2>7
<1>8. ASSUME NEW q \in Ptys, BusyTitle(q) PROVE NotIdled(p)
  <2> PICK n : n = Now
    OBVIOUS
  <2> DEFINE r == RetirePty(n, q)
             u == IF n.mem.current[q] # 0 THEN n ELSE [r EXCEPT !.rows = ReleasedForPty(@, q)]
  <2>1. n.mem = mem /\ HasTerm(n) /\ n.term = term
    BY <1>0, NowSound DEF Now
  <2>2. PICK status \in {"working", "permission"} : Becomes([u EXCEPT !.term[q].status = status])
    BY <1>8, <2>1 DEF BusyTitle
  <2>3. HasTerm(r) /\ r.term = term
    BY <2>1, RetirePtyTerm DEF KeepsTerm
  <2> HIDE DEF r
  <2>4. HasTerm(u) /\ u.term = term
    BY <2>1, <2>3 DEF HasTerm
  <2> HIDE DEF u
  <2>5. PICK s : s = [u EXCEPT !.term[q].status = status] /\ Becomes(s)
    BY <2>2 DEF Becomes
  <2>6. HasTerm(s) /\ (s.term[p] = term[p] \/ s.term[p].status = status)
    BY <1>0, <2>4, <2>5 DEF HasTerm, TermType
  <2> QED BY <1>2, <2>5, <2>6
<1>9. ASSUME NEW q \in Ptys, NeutralTitle(q) PROVE NotIdled(p)
  <2>1. PICK s : s = [Now EXCEPT !.term[q].status = "none"] /\ Becomes(s)
    BY <1>9 DEF NeutralTitle, Becomes
  <2>2. HasTerm(s) /\ (s.term[p] = term[p] \/ s.term[p].status = "none")
    BY <1>0, <2>1 DEF HasTerm, TermType
  <2> QED BY <1>2, <2>1, <2>2
<1>10. ASSUME NEW q \in Ptys, Exit(q) \/ Reconnect(q) PROVE NotIdled(p)
  <2> PICK n : n = Now
    OBVIOUS
  <2>1. HasTerm(n) /\ n.term = term
    BY <1>0
  <2>2. CASE Exit(q)
    <3>1. PICK s : s = [n EXCEPT !.term[q].runs = 0, !.term[q].exiting = TRUE,
                                 !.keys.submitted = {k \in @ : k[2] # q}] /\ Becomes(s)
      BY <2>2 DEF Exit, Becomes
    <3>2. HasTerm(s) /\ s.term[p].status = term[p].status
      BY <1>0, <2>1, <3>1 DEF HasTerm, TermType
    <3> QED BY <1>2, <3>1, <3>2
  <2>3. CASE Reconnect(q)
    <3>1. PICK s : s = [n EXCEPT !.term[q].writable = TRUE] /\ Becomes(s)
      BY <2>3 DEF Reconnect, Becomes
    <3>2. HasTerm(s) /\ s.term[p].status = term[p].status
      BY <1>0, <2>1, <3>1 DEF HasTerm, TermType
    <3> QED BY <1>2, <3>1, <3>2
  <2> QED BY <1>10, <2>2, <2>3
<1>11. ASSUME NEW q \in Ptys, Register(q) PROVE NotIdled(p)
  <2>1. PICK s : s = [Now EXCEPT !.term[q] = [@ EXCEPT !.runs = term[q].known + 1, !.known = term[q].known + 1,
                                                       !.writable = TRUE, !.exiting = FALSE]] /\ Becomes(s)
    BY <1>11 DEF Register, Becomes
  <2>2. HasTerm(s) /\ s.term[p].status = term[p].status
    BY <1>0, <2>1 DEF HasTerm, TermType
  <2> QED BY <1>2, <2>1, <2>2
<1>12. ASSUME NEW q \in Ptys, NEW v, HasTerm(v), v.term \in [Ptys -> TermType],
              v.term[p].status = term[p].status, Becomes(Ended(v, q))
       PROVE  NotIdled(p)
  <2> DEFINE r == RetirePty(v, q)
  <2>1. HasTerm(r) /\ r.term = v.term
    BY <1>12, RetirePtyTerm DEF KeepsTerm
  <2>2. PICK s : s = [r EXCEPT !.term[q].writable = FALSE, !.term[q].status = "unseen",
                               !.mem.repoint = @ \/ v.owner = q] /\ Becomes(s)
    BY <1>12 DEF Ended, Becomes
  <2> HIDE DEF r
  <2>3. HasTerm(s) /\ (s.term[p].status = v.term[p].status \/ s.term[p].status = "unseen")
    BY <1>12, <2>1, <2>2 DEF HasTerm, TermType
  <2> QED BY <1>2, <1>12, <2>2, <2>3
<1>13. ASSUME NEW q \in Ptys, ReportExit(q) \/ Disconnect(q) PROVE NotIdled(p)
  <2> PICK n : n = Now
    OBVIOUS
  <2>0. HasTerm(n) /\ n.term = term
    BY <1>0
  <2>1. PICK v : v \in {n, [n EXCEPT !.term[q].exiting = FALSE]} /\ Becomes(Ended(v, q))
    BY <1>13 DEF ReportExit, Disconnect
  <2>2. HasTerm(v) /\ v.term \in [Ptys -> TermType] /\ v.term[p].status = term[p].status
    <3>1. CASE v = n
      BY <1>0, <2>0, <3>1
    <3>2. CASE v = [n EXCEPT !.term[q].exiting = FALSE]
      <4>1. HasTerm(v) /\ v.term = [term EXCEPT ![q].exiting = FALSE]
        BY <2>0, <3>2 DEF HasTerm
      <4> DEFINE e == [term[q] EXCEPT !.exiting = FALSE]
      <4>2. term[q] \in TermType
        BY <1>0
      <4>3. e \in TermType /\ e.status = term[q].status
        BY <4>2 DEF TermType
      <4>4. v.term = [term EXCEPT ![q] = e]
        BY <4>1
      <4> HIDE DEF e
      <4> QED BY <1>0, <4>1, <4>3, <4>4
    <3> QED BY <2>1, <3>1, <3>2
  <2> QED BY <1>12, <2>1, <2>2
<1>14. ASSUME NEW v, Restarted(v) PROVE NotIdled(p)
  <2>1. term'[p].status = "unseen"
    BY <1>0, <1>14 DEF Restarted, TermType
  <2> QED BY <2>1 DEF NotIdled
<1>15. CASE Consumes
  <2> PICK n : n = Now
    OBVIOUS
  <2>1. HasTerm(n) /\ n.term = term
    BY <1>0
  <2>2. ASSUME NEW s, Becomes(s), HasTerm(s), s.term = n.term PROVE NotIdled(p)
    BY <1>2, <2>1, <2>2
  <2>3. CASE Wait \/ WaitEnds
    <3>1. PICK w, s : s = [n EXCEPT !.waiter = w] /\ Becomes(s)
      BY <2>3 DEF Wait, WaitEnds, Becomes
    <3> QED BY <2>1, <2>2, <3>1 DEF HasTerm
  <2>4. CASE Check
    <3>1. PICK s : s = [n EXCEPT !.outstanding = Unread(rows)] /\ Becomes(s)
      BY <2>4 DEF Check, Becomes
    <3> QED BY <2>1, <2>2, <3>1 DEF HasTerm
  <2>5. CASE Ack
    <3>1. PICK s : s = [n EXCEPT !.outstanding = {},
                                 !.rows = On(@, outstanding, LAMBDA row : TRUE,
                                             LAMBDA row : Row(TRUE, TRUE, 0, <<>>))] /\ Becomes(s)
      BY <2>5 DEF Ack, Becomes
    <3> QED BY <2>1, <2>2, <3>1 DEF HasTerm
  <2>6. ASSUME NEW q \in Ptys, Rebind(q) PROVE NotIdled(p)
    <3>1. PICK s : s = [n EXCEPT !.owner = q, !.outstanding = {},
                                 !.keys.submitted = IF q = owner THEN @ ELSE {}] /\ Becomes(s)
      BY <2>6 DEF Rebind, Becomes
    <3> QED BY <2>1, <2>2, <3>1 DEF HasTerm
  <2> QED BY <1>15, <2>3, <2>4, <2>5, <2>6 DEF Consumes
<1> QED BY <1>1, <1>3, <1>4, <1>5, <1>6, <1>7, <1>8, <1>9, <1>10, <1>11, <1>13, <1>14, <1>15
        DEF Next, CrashBeforeWrite, RuntimeRestart

\* Whenever the pane that owns the mailbox is seen idle, unread mail is on its way
\* again, unless a pointer to that pane is in doubt, whatever happened before
\* (orca-runtime-apply-tracked-pty-title.ts:135-152).
THEOREM IdleEdgesOfferMail == Spec => IdleEdgeOffersMail
<1>1. IInv /\ [Next]_vars => [\A p \in Ptys : ~InDoubtAt(p) => EdgeOffers(p)]_vars
  <2> SUFFICES ASSUME IInv, Next, NEW p \in Ptys, ~InDoubtAt(p) PROVE EdgeOffers(p)
    OBVIOUS
  <2> SUFFICES ASSUME IdleEdge(p), owner = p, outstanding = {}, ~waiter
               PROVE  \/ Offerable(rows') = {}
                      \/ p \in mem'.recheck \cup mem'.probing
                      \/ mem'.current[p] # 0
                      \/ mem'.mark.active /\ mem'.reoffer
                      \/ \E m \in Pending(rows) : rows'[m].delivered
    BY DEF EdgeOffers
  <2>1. Now'.rows = rows' /\ Now'.mem = mem'
    BY DEF Now
  <2>2. ~LiveIdle(Now, p) /\ ~NotIdled(p)
    BY DEF IdleEdge, LiveIdle, NotIdled, Now
  <2>3. IdleTitle(p)
    BY <2>2, OnlyTitlesIdle
  <2>4. OnItsWay(Now', p, rows)
    BY <2>2, <2>3, IdleTitleOffers
  <2> QED BY <2>1, <2>4 DEF OnItsWay
<1> QED BY <1>1, Invariance, PTL DEF Spec, IdleEdgeOffersMail
=============================================================================
