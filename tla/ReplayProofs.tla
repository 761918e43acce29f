---------------------------- MODULE ReplayProofs ----------------------------
(***************************************************************************)
(* What the replay loop guarantees for any input, any windows, any signal  *)
(* and any delays.  What the merger guarantees is taken from MergeProofs.  *)
(***************************************************************************)
EXTENDS Replay, FiniteSetTheorems, SequenceTheorems, TLAPS

Proved == INSTANCE MergeProofs

-----------------------------------------------------------------------------
(* The merger inside the loop: MergeProofs speaks of the same formulas.      *)

LEMMA SameTypeOK == Merger!TypeOK <=> Proved!TypeOK
BY DEF Merger!TypeOK, Merger!Rows, Merger!HeadItem, Merger!RowTs,
       Proved!TypeOK, Proved!Rows, Proved!HeadItem, Proved!RowTs

LEMMA MergerInit == Merger!Init => Merger!TypeOK
<1>1. Merger!Init => Proved!Init
  BY DEF Merger!Init, Merger!NextGood, Merger!Rows, Merger!HeadItem, Merger!RowTs,
         Proved!Init, Proved!NextGood, Proved!Rows, Proved!HeadItem, Proved!RowTs
<1>2. Proved!Init => Proved!TypeOK
  BY Proved!InitTypeOK, SourcesAssumption, InputsAssumption, WindowsAssumption
<1> QED
  BY <1>1, <1>2, SameTypeOK

LEMMA MergerNext ==
    ASSUME Merger!TypeOK, [Merger!Next]_mergeVars
    PROVE  Merger!TypeOK'
<1>1. [Proved!Next]_(Proved!mergeVars)
  BY DEF mergeVars, Merger!Next, Merger!Retire, Merger!DropEarly, Merger!Emit, Merger!Advance,
         Merger!IsTop, Merger!Before, Merger!PastEnd, Merger!BeforeStart, Merger!NextGood,
         Merger!Rows, Merger!HeadItem, Merger!RowTs,
         Proved!mergeVars, Proved!Next, Proved!Retire, Proved!DropEarly, Proved!Emit, Proved!Advance,
         Proved!IsTop, Proved!Before, Proved!PastEnd, Proved!BeforeStart, Proved!NextGood,
         Proved!Rows, Proved!HeadItem, Proved!RowTs
<1>2. Proved!TypeOK'
  BY <1>1, SameTypeOK, Proved!NextTypeOK, SourcesAssumption, InputsAssumption, WindowsAssumption
<1>3. Merger!TypeOK' <=> Proved!TypeOK'
  BY DEF Merger!TypeOK, Merger!Rows, Merger!HeadItem, Merger!RowTs,
         Proved!TypeOK, Proved!Rows, Proved!HeadItem, Proved!RowTs
<1> QED
  BY <1>2, <1>3

-----------------------------------------------------------------------------
(* A prompt stop: no assumption on the input or the clock is needed.         *)

\* After a nap that began with stop set only the wake-up and the tests are left,
\* after a write only the next test of the loop.
StopInv ==
    /\ late \in [naps : {0, 1}, writes : {0, 1}]
    /\ late.naps = 1 => stop /\ pc \in {"sleep", "wait", "check", "finish", "done"}
    /\ late.writes = 1 => stop /\ pc \in {"loop", "finish", "done"}

LEMMA InitStopInv == Init => StopInv
BY DEF Init, StopInv

LEMMA NextStopInv == ASSUME StopInv, [Next]_vars PROVE StopInv'
<1> USE DEF StopInv
<1>1. CASE TestStop \/ NextDrops \/ NextReturns \/ NextIsNone \/ EnterPace \/ Wake \/ Finish
  BY <1>1 DEF TestStop, NextDrops, NextReturns, NextIsNone, EnterPace, Wake, Finish
<1>2. CASE WaitTestsStop \/ TestStopAgain
  BY <1>2 DEF WaitTestsStop, WaitStops, TestStopAgain, StopSeen
<1>3. CASE WaitReadsClock
  <2>1. late.naps = 0 /\ late.writes = 0 /\ pc = "clock" /\ stop' = stop
    BY <1>3 DEF WaitReadsClock
  <2>2. \/ pc' = "check" /\ late' = late
        \/ pc' = "sleep" /\ late' = [late EXCEPT !.naps = IF stop THEN @ + 1 ELSE @]
    BY <1>3 DEF WaitReadsClock
  <2> QED
    BY <2>1, <2>2
<1>4. CASE Write
  <2>1. late.naps = 0 /\ late.writes = 0 /\ stop' = stop /\ pc' = "loop"
    BY <1>4 DEF Write
  <2>2. late' = [late EXCEPT !.writes = IF stop THEN @ + 1 ELSE @]
    BY <1>4 DEF Write
  <2> QED
    BY <2>1, <2>2
<1>5. CASE Signal \/ TimePasses
  BY <1>5 DEF Signal, TimePasses
<1>6. CASE UNCHANGED vars
  BY <1>6 DEF vars
<1> QED
  BY <1>1, <1>2, <1>3, <1>4, <1>5, <1>6 DEF Next, MainStep

\* Wherever the signal comes, for any input, schedule and tick, at most one more
\* nap is begun and at most one more record written.
THEOREM StopsPromptly == Spec => []StopIsPrompt
<1>1. StopInv /\ [Next]_vars => StopInv'
  BY NextStopInv
<1>2. StopInv => StopIsPrompt
  BY DEF StopInv, StopIsPrompt
<1> QED
  BY <1>1, <1>2, InitStopInv, PTL DEF Spec

-----------------------------------------------------------------------------
(* Type correctness *)

\* The records in hand and played are rows of the input.
LEMMA OutFacts ==
    ASSUME Merger!TypeOK
    PROVE  /\ Len(out) \in Nat
           /\ out # <<>> => /\ Current.src \in Sources
                            /\ Current.row \in Merger!Rows(Current.src)
<1> DEFINE Record == [ts : Int, src : Sources, row : Nat]
<1>1. out \in Seq(Record) /\ \A k \in DOMAIN out : out[k].row \in Merger!Rows(out[k].src)
  BY DEF Merger!TypeOK
<1>2. Len(out) \in Nat /\ (out # <<>> => Len(out) \in DOMAIN out /\ out[Len(out)] \in Record)
  <2> HIDE DEF Record
  <2>1. Len(out) \in Nat /\ DOMAIN out = 1 .. Len(out) /\ (out # <<>> => Len(out) >= 1)
    BY <1>1, LenProperties, EmptySeq
  <2> QED
    BY <1>1, <2>1, ElementOfSeq
<1> QED
  BY <1>1, <1>2 DEF Current

LEMMA RowFacts ==
    ASSUME Merger!TypeOK, NEW s \in Sources, NEW i \in Merger!Rows(s)
    PROVE  /\ Row(s, i).ts \in Int /\ Row(s, i).lid \in Lids /\ Row(s, i).uid \in Nat
           /\ i \in Nat /\ UnitOf[s] \in Units
<1>1. file \in Inputs
  BY DEF Merger!TypeOK
<1>2. Len(file[s]) \in Nat /\ i \in DOMAIN file[s] /\ i \in Nat
  BY <1>1, InputsAssumption DEF Merger!Rows
<1> QED
  BY <1>1, <1>2, InputsAssumption DEF Row, Units

LEMMA CurrentFacts ==
    ASSUME Merger!TypeOK, out # <<>>
    PROVE  /\ CurrentRow.ts \in Int /\ CurrentRow.lid \in Lids /\ CurrentRow.uid \in Nat
           /\ Current.src \in Sources /\ Current.row \in Merger!Rows(Current.src)
           /\ Current.row \in Nat /\ RouteOf(Current.src) \in Units
BY OutFacts, RowFacts DEF CurrentRow, RouteOf

\* The scheduled instant of a record is an integer.
LEMMA TargetIsInt ==
    ASSUME realtime \in Realtimes, ts0 \in Int, wall0 \in Nat, NEW ts \in Int
    PROVE  Target(ts) \in Int
<1>1. \A a \in Int, b \in Nat, d \in Nat \ {0} : (a * b) \div d \in Int
  OBVIOUS
<1>2. ts - ts0 \in Int /\ realtime.num \in Nat /\ realtime.den \in Nat \ {0}
  BY RealtimeAssumption
<1>3. ((ts - ts0) * realtime.num) \div realtime.den \in Int
  BY <1>1, <1>2
<1> QED
  BY <1>3 DEF Target, OffsetNs

LEMMA InitTypeOK == Init => TypeOK
<1> SUFFICES ASSUME Init PROVE TypeOK
  OBVIOUS
<1>1. Merger!TypeOK
  BY MergerInit DEF Init
<1>2. /\ best \in [Units -> [Lids -> Nat]] /\ kept \in [Units -> [Lids -> Nat]]
  BY KeptAssumption DEF Init
<1>3. ts0 \in Int /\ have_ts0 \in BOOLEAN
  BY TimeAssumption DEF Init
<1>4. played \in Seq([src : Sources, row : Nat, at : Nat]) /\ DOMAIN played = {}
  BY EmptySeq DEF Init
<1>5. late \in [naps : Nat, writes : Nat] /\ deduped \in [Units -> Nat] /\ book \in Nat /\ trade \in Nat
  BY DEF Init
<1>6. /\ pc = "loop" /\ realtime \in Realtimes /\ stop \in BOOLEAN /\ started \in BOOLEAN
      /\ wall \in Nat /\ wall0 \in 0 .. wall /\ wake \in Nat
  <2>1. wall = 0 /\ wall0 = 0 /\ wake = 0 /\ started = FALSE
    BY DEF Init
  <2>2. pc = "loop" /\ realtime \in Realtimes /\ stop \in BOOLEAN
    BY DEF Init
  <2>3. wall \in Nat /\ wall0 \in 0 .. wall /\ wake \in Nat
    BY <2>1
  <2>4. started \in BOOLEAN
    BY <2>1
  <2> QED
    BY <2>2, <2>3, <2>4, Zenon
<1>7. \A k \in DOMAIN played : played[k].row \in Merger!Rows(played[k].src)
  BY <1>4
<1> QED
  BY <1>1, <1>2, <1>3, <1>4, <1>5, <1>6, <1>7 DEF TypeOK

\* A step either is one of the merger's or leaves the merger alone.
LEMMA MergerSteps == [Next]_vars => [Merger!Next]_mergeVars
<1> SUFFICES ASSUME [Next]_vars PROVE [Merger!Next]_mergeVars
  OBVIOUS
<1>1. NextDrops \/ NextReturns => Merger!Next
  BY DEF NextDrops, NextReturns, Merger!Next
<1>2. [Next]_vars => NextDrops \/ NextReturns \/ UNCHANGED mergeVars
  BY DEF Next, MainStep, vars, TestStop, NextIsNone, EnterPace, WaitTestsStop, WaitReadsClock,
         Wake, TestStopAgain, Write, Finish, Signal, TimePasses
<1> QED
  BY <1>1, <1>2

\* What is written and what the sinks then hold has its type.
LEMMA WriteTypes ==
    ASSUME TypeOK, Write
    PROVE  /\ best' \in [Units -> [Lids -> Nat]] /\ deduped' \in [Units -> Nat]
           /\ book' \in Nat /\ trade' \in Nat
           /\ played' = Append(played, [src |-> Current.src, row |-> Current.row, at |-> wall])
           /\ [src |-> Current.src, row |-> Current.row, at |-> wall] \in [src : Sources, row : Nat, at : Nat]
           /\ played' \in Seq([src : Sources, row : Nat, at : Nat])
           /\ \A k \in DOMAIN played' : played'[k].row \in Merger!Rows(played'[k].src)
<1> DEFINE rec == [src |-> Current.src, row |-> Current.row, at |-> wall]
           Record == [src : Sources, row : Nat, at : Nat]
           u == RouteOf(Current.src)
<1>1. /\ CurrentRow.lid \in Lids /\ CurrentRow.uid \in Nat /\ Current.src \in Sources
      /\ Current.row \in Merger!Rows(Current.src) /\ Current.row \in Nat /\ u \in Units
  BY CurrentFacts DEF TypeOK, Write
<1>2. /\ best \in [Units -> [Lids -> Nat]] /\ deduped \in [Units -> Nat]
      /\ book \in Nat /\ trade \in Nat /\ wall \in Nat
      /\ played \in Seq(Record) /\ \A k \in DOMAIN played : played[k].row \in Merger!Rows(played[k].src)
  BY DEF TypeOK
<1>3. played' = Append(played, rec) /\ rec \in Record
  BY <1>1, <1>2 DEF Write
<1>4. played' \in Seq(Record) /\ \A k \in DOMAIN played' : played'[k].row \in Merger!Rows(played'[k].src)
  <2>1. rec.src = Current.src /\ rec.row = Current.row
    OBVIOUS
  <2>2. /\ played' \in Seq(Record)
        /\ \A k \in DOMAIN played' :
               (k \in DOMAIN played /\ played'[k] = played[k]) \/ played'[k] = rec
    <3> HIDE DEF rec, Record
    <3> QED
      BY <1>2, <1>3, AppendProperties, LenProperties
  <2> QED
    BY <1>1, <1>2, <2>1, <2>2
<1>5. CASE KindOf[u] = "book"
  <2>1. WriteBook(u, CurrentRow)
    BY <1>5 DEF Write
  <2>2. book' = book + 1 /\ trade' = trade
    BY <2>1 DEF WriteBook
  <2>3. best' \in [Units -> [Lids -> Nat]] /\ deduped' \in [Units -> Nat]
    <3>1. CASE Newer(u, CurrentRow)
      <4>1. /\ best' = [best EXCEPT ![u] = [@ EXCEPT ![CurrentRow.lid] = CurrentRow.uid]]
            /\ deduped' = deduped
        BY <2>1, <3>1 DEF WriteBook
      <4> QED
        BY <1>1, <1>2, <4>1
    <3>2. CASE ~Newer(u, CurrentRow)
      <4>1. best' = best /\ deduped' = [deduped EXCEPT ![u] = @ + 1]
        BY <2>1, <3>2 DEF WriteBook
      <4> QED
        BY <1>1, <1>2, <4>1
    <3> QED
      BY <3>1, <3>2
  <2> QED
    BY <1>2, <1>3, <1>4, <2>2, <2>3
<1>6. CASE KindOf[u] # "book"
  <2>1. WriteTrade(u)
    BY <1>6 DEF Write
  <2> QED
    BY <1>1, <1>2, <1>3, <1>4, <2>1 DEF WriteTrade
<1> QED
  BY <1>5, <1>6

LEMMA NextTypeOK == TypeOK /\ [Next]_vars => TypeOK'
<1> SUFFICES ASSUME TypeOK, [Next]_vars PROVE TypeOK'
  OBVIOUS
<1>1. Merger!TypeOK /\ Merger!TypeOK'
  BY MergerSteps, MergerNext DEF TypeOK
<1>2. file' = file
  BY MergerSteps DEF Merger!Next, Merger!Retire, Merger!DropEarly, Merger!Emit, mergeVars
\* Steps that touch neither the sinks nor the clock.
<1>3. CASE \/ TestStop \/ NextDrops \/ NextReturns \/ NextIsNone \/ WaitTestsStop \/ Wake
           \/ TestStopAgain \/ Finish
  <2>1. UNCHANGED <<stop, wall, clockVars, outputVars, late>>
    BY <1>3 DEF TestStop, NextDrops, NextReturns, NextIsNone, WaitTestsStop, Wake, TestStopAgain, Finish
  <2>2. pc' \in {"loop", "next", "pace", "wait", "clock", "sleep", "check", "write", "finish", "done"}
    BY <1>3 DEF TestStop, NextDrops, NextReturns, NextIsNone, WaitTestsStop, Wake, TestStopAgain,
                Finish
  <2>3. pc' \in {"pace", "wait", "clock", "sleep", "check", "write"} => out' # <<>>
    <3>1. CASE NextReturns
      <4>1. PICK x \in heap : out' = Append(out, [ts |-> x.ts, src |-> x.src, row |-> pos[x.src]])
        BY <3>1 DEF NextReturns, Merger!Emit
      <4>2. /\ out \in Seq([ts : Int, src : Sources, row : Nat]) /\ x \in [ts : Int, src : Sources]
            /\ pos \in [Sources -> Nat \ {0}]
        BY <1>1 DEF Merger!TypeOK
      <4>3. [ts |-> x.ts, src |-> x.src, row |-> pos[x.src]] \in [ts : Int, src : Sources, row : Nat]
        BY <4>2
      <4> DEFINE rec == [ts |-> x.ts, src |-> x.src, row |-> pos[x.src]]
                 Record == [ts : Int, src : Sources, row : Nat]
      <4>4. out' # <<>>
        <5> HIDE DEF rec, Record
        <5> QED
          BY <4>1, <4>2, <4>3, AppendProperties DEF rec, Record
      <4> QED
        BY <4>4
    <3>2. CASE NextDrops
      BY <3>2 DEF NextDrops
    <3>3. CASE TestStop \/ NextIsNone \/ WaitTestsStop \/ Wake \/ TestStopAgain \/ Finish
      BY <3>3 DEF TypeOK, TestStop, NextIsNone, WaitTestsStop, Wake, TestStopAgain, Finish, mergeVars
    <3> QED
      BY <1>3, <3>1, <3>2, <3>3
  <2> QED
    BY <1>1, <1>2, <2>1, <2>2, <2>3 DEF TypeOK, clockVars, outputVars, Merger!Rows
<1>4. CASE EnterPace
  <2>1. CurrentRow.ts \in Int
    BY <1>1, <1>4, CurrentFacts DEF EnterPace, TypeOK
  <2>2. ts0' \in Int /\ started' \in BOOLEAN /\ have_ts0' \in BOOLEAN /\ wall0' \in 0 .. wall
        /\ wake' = wake /\ realtime' = realtime /\ pc' \in {"check", "wait"} /\ pc = "pace"
    <3>1. /\ ts0 \in Int /\ started \in BOOLEAN /\ have_ts0 \in BOOLEAN /\ wall0 \in 0 .. wall
          /\ wall \in Nat
      BY DEF TypeOK
    <3>2. \/ UNCHANGED clockVars
          \/ /\ started' = TRUE /\ wall0' = wall /\ have_ts0' = TRUE
             /\ ts0' = (IF have_ts0 THEN ts0 ELSE CurrentRow.ts)
             /\ UNCHANGED <<realtime, wake>>
      BY <1>4 DEF EnterPace
    <3>3. pc' \in {"check", "wait"} /\ pc = "pace"
      BY <1>4 DEF EnterPace
    <3>4. CASE UNCHANGED clockVars
      BY <3>1, <3>3, <3>4 DEF clockVars
    <3>5. CASE /\ started' = TRUE /\ wall0' = wall /\ have_ts0' = TRUE
               /\ ts0' = (IF have_ts0 THEN ts0 ELSE CurrentRow.ts)
               /\ UNCHANGED <<realtime, wake>>
      <4>1. wall0' \in 0 .. wall
        BY <3>1, <3>5
      <4>2. ts0' \in Int
        BY <2>1, <3>1, <3>5
      <4> QED
        BY <3>3, <3>5, <4>1, <4>2
    <3> QED
      BY <3>2, <3>4, <3>5
  <2> QED
    BY <1>1, <1>4, <2>2 DEF TypeOK, EnterPace, mergeVars, outputVars, Merger!Rows
<1>5. CASE WaitReadsClock
  <2>1. Target(CurrentRow.ts) \in Int
    BY <1>1, <1>5, CurrentFacts, TargetIsInt DEF WaitReadsClock, TypeOK
  <2>2. wake' \in Nat
    BY <1>5, <2>1, TimeAssumption DEF WaitReadsClock, TypeOK, Nap
  <2>3. late' \in [naps : Nat, writes : Nat] /\ pc' \in {"check", "sleep"} /\ pc = "clock"
    BY <1>5 DEF WaitReadsClock, TypeOK
  <2> QED
    BY <1>1, <1>5, <2>2, <2>3 DEF TypeOK, WaitReadsClock, mergeVars, outputVars, Merger!Rows
<1>6. CASE Write
  <2>1. late' \in [naps : Nat, writes : Nat] /\ pc' = "loop"
    <3>1. late \in [naps : Nat, writes : Nat]
      BY DEF TypeOK
    <3>2. late' = [late EXCEPT !.writes = IF stop THEN @ + 1 ELSE @] /\ pc' = "loop"
      BY <1>6 DEF Write
    <3> QED
      BY <3>1, <3>2
  <2>2. UNCHANGED <<mergeVars, stop, wall, clockVars, segdepth, kept>>
    BY <1>6 DEF Write
  <2>3. /\ best' \in [Units -> [Lids -> Nat]] /\ deduped' \in [Units -> Nat]
        /\ book' \in Nat /\ trade' \in Nat
        /\ played' \in Seq([src : Sources, row : Nat, at : Nat])
        /\ \A k \in DOMAIN played' : played'[k].row \in Merger!Rows(played'[k].src)
    BY <1>6, WriteTypes
  <2> QED
    BY <1>1, <2>1, <2>2, <2>3 DEF TypeOK, mergeVars, clockVars, Merger!Rows
<1>7. CASE Signal \/ TimePasses
  <2>1. /\ UNCHANGED <<mergeVars, pc, clockVars, outputVars, late>>
        /\ stop' \in BOOLEAN /\ wall' \in {wall, wall + 1}
    BY <1>7 DEF Signal, TimePasses, TypeOK
  <2> QED
    BY <1>1, <2>1 DEF TypeOK, mergeVars, clockVars, outputVars, Merger!Rows
<1>8. CASE UNCHANGED vars
  BY <1>1, <1>8 DEF TypeOK, vars, mergeVars, clockVars, outputVars, Merger!Rows
<1> QED
  BY <1>3, <1>4, <1>5, <1>6, <1>7, <1>8 DEF Next, MainStep

\* Every reachable state of a replay is well typed: what is in hand and what was
\* played are rows of the input, and no clock value or count is ever negative.
THEOREM TypeCorrect == Spec => []TypeOK
BY InitTypeOK, NextTypeOK, PTL DEF Spec

-----------------------------------------------------------------------------
(* The absolute schedule *)

OnTime(k) == played[k].at >= Target(RowOf(played[k]).ts)

\* The origins of the schedule are fixed before the first record is played, and
\* what is let through to a sink waited for its instant.
PacedInv ==
    realtime.num > 0 =>
        /\ played # <<>> \/ pc \in {"wait", "clock", "sleep", "check", "write"} => started
        /\ \A k \in DOMAIN played : OnTime(k)
        /\ pc = "check" => stop \/ wall >= Target(CurrentRow.ts)
        /\ pc = "write" => wall >= Target(CurrentRow.ts)

NapInv == pc = "sleep" => wake <= Target(CurrentRow.ts) /\ wake <= wall + KTick

ScheduleInv == TypeOK /\ PacedInv /\ NapInv

LEMMA InitScheduleInv == Init => ScheduleInv
<1> SUFFICES ASSUME Init PROVE PacedInv /\ NapInv
  BY InitTypeOK DEF ScheduleInv
<1>1. played = <<>> /\ pc = "loop"
  BY DEF Init
<1>2. DOMAIN played = {}
  BY <1>1
<1> QED
  BY <1>1, <1>2 DEF PacedInv, NapInv

\* While the origins stay, so does every instant of the schedule.
LEMMA SameTargets ==
    ASSUME UNCHANGED <<realtime, ts0, wall0>>
    PROVE  \A ts : Target(ts)' = Target(ts)
BY DEF Target, OffsetNs

LEMMA CurrentTarget ==
    ASSUME TypeOK, pc \in {"wait", "clock", "sleep", "check", "write"}
    PROVE  Target(CurrentRow.ts) \in Int
<1>1. Merger!TypeOK /\ out # <<>>
  BY DEF TypeOK
<1>2. realtime \in Realtimes /\ ts0 \in Int
  BY DEF TypeOK
<1>3. wall0 \in Nat
  BY DEF TypeOK
<1>4. CurrentRow.ts \in Int
  BY <1>1, CurrentFacts
<1> QED
  BY <1>2, <1>3, <1>4, TargetIsInt

LEMMA NextScheduleInv == ASSUME ScheduleInv, [Next]_vars PROVE ScheduleInv'
<1>1. TypeOK /\ TypeOK' /\ PacedInv /\ NapInv
  BY NextTypeOK DEF ScheduleInv
<1>2. wall \in Nat /\ wake \in Nat /\ KTick \in Nat \ {0}
  BY <1>1, TimeAssumption DEF TypeOK
<1> SUFFICES PacedInv' /\ NapInv'
  BY <1>1 DEF ScheduleInv
<1>3. file' = file
  BY MergerSteps DEF Merger!Next, Merger!Retire, Merger!DropEarly, Merger!Emit, mergeVars
<1>4. ASSUME UNCHANGED <<clockVars, played>>
      PROVE  /\ \A k \in DOMAIN played' : OnTime(k)' <=> OnTime(k)
             /\ UNCHANGED out => Target(CurrentRow.ts)' = Target(CurrentRow.ts)
             /\ DOMAIN played' = DOMAIN played /\ (played' # <<>> <=> played # <<>>)
             /\ realtime' = realtime /\ started' = started /\ wake' = wake
  <2>1. \A ts : Target(ts)' = Target(ts)
    BY <1>4, SameTargets DEF clockVars
  <2>2. \A k \in DOMAIN played : OnTime(k)' <=> OnTime(k)
    <3> TAKE k \in DOMAIN played
    <3>1. RowOf(played[k])' = RowOf(played[k])
      BY <1>3, <1>4 DEF RowOf, Row
    <3>2. Target(RowOf(played[k]).ts)' = Target(RowOf(played[k]).ts)
      BY <1>4, <3>1 DEF clockVars, Target, OffsetNs
    <3> QED
      BY <1>4, <3>2 DEF OnTime
  <2>3. UNCHANGED out => Target(CurrentRow.ts)' = Target(CurrentRow.ts)
    BY <1>3, <1>4 DEF clockVars, Target, OffsetNs, CurrentRow, Current, Row
  <2> QED
    BY <1>4, <2>2, <2>3 DEF clockVars
\* Steps after which the record in hand is not paced yet.
<1>5. CASE TestStop \/ NextDrops \/ NextReturns \/ NextIsNone \/ Finish
  <2>1. /\ UNCHANGED <<clockVars, played>>
        /\ pc' \in {"next", "pace", "finish", "done"}
    BY <1>5 DEF TestStop, NextDrops, NextReturns, NextIsNone, Finish, outputVars
  <2> QED
    BY <1>1, <1>4, <2>1 DEF PacedInv, NapInv
\* The first record fixes the origins; none was played before.
<1>6. CASE EnterPace
  <2>1. UNCHANGED <<played, stop, wall, out, realtime>> /\ pc' \in {"check", "wait"}
    BY <1>6 DEF EnterPace, mergeVars, outputVars, clockVars
  <2>2. CASE realtime.num > 0 /\ ~started
    <3>1. played = <<>> /\ started' = TRUE /\ pc' = "wait"
      BY <1>1, <1>2, <1>6, <2>2 DEF EnterPace, PacedInv
    <3>2. DOMAIN played' = {}
      BY <2>1, <3>1
    <3> QED
      BY <3>1, <3>2 DEF PacedInv, NapInv
  <2>3. CASE ~(realtime.num > 0 /\ ~started)
    <3>1. UNCHANGED clockVars /\ (realtime.num > 0 => started /\ pc' = "wait")
      <4>1. realtime.num \in Nat
        BY <1>1, RealtimeAssumption DEF TypeOK
      <4> QED
        BY <1>6, <2>3, <4>1 DEF EnterPace
    <3> QED
      BY <1>1, <1>4, <2>1, <3>1 DEF PacedInv, NapInv
  <2> QED
    BY <2>2, <2>3
<1>7. CASE WaitTestsStop
  <2>1. /\ UNCHANGED <<clockVars, played, out, wall, stop>>
        /\ pc = "wait" /\ pc' = IF stop THEN "check" ELSE "clock"
    BY <1>7 DEF WaitTestsStop, WaitStops, mergeVars, outputVars
  <2> QED
    BY <1>1, <1>4, <2>1 DEF PacedInv, NapInv
\* Either the instant has come or the nap ends no later than it.
<1>8. CASE WaitReadsClock
  <2> DEFINE T == Target(CurrentRow.ts)
  <2>1. T \in Int
    BY <1>1, <1>8, CurrentTarget DEF WaitReadsClock
  <2>2. UNCHANGED <<out, played, stop, wall, realtime, started, have_ts0, ts0, wall0>> /\ pc = "clock"
    BY <1>8 DEF WaitReadsClock, mergeVars, outputVars
  <2>3. T' = T
    BY <1>3, <2>2 DEF Target, OffsetNs, CurrentRow, Current, Row
  <2>4. \A k \in DOMAIN played : OnTime(k)' <=> OnTime(k)
    <3> TAKE k \in DOMAIN played
    <3>1. Target(RowOf(played[k]).ts)' = Target(RowOf(played[k]).ts)
      BY <1>3, <2>2 DEF Target, OffsetNs, RowOf, Row
    <3> QED
      BY <2>2, <3>1 DEF OnTime
  <2> HIDE DEF T
  <2>5. \/ wall >= T /\ pc' = "check"
        \/ wall < T /\ pc' = "sleep" /\ wake' = wall + Nap(T - wall)
    BY <1>8 DEF WaitReadsClock, T
  <2>6. pc' = "sleep" => wake' <= T /\ wake' <= wall + KTick
    BY <1>2, <2>1, <2>5 DEF Nap
  <2>7. NapInv'
    BY <2>2, <2>3, <2>6 DEF NapInv, T
  <2>8. PacedInv'
    BY <1>1, <2>2, <2>3, <2>4, <2>5 DEF PacedInv, T
  <2> QED
    BY <2>7, <2>8
<1>9. CASE Wake
  <2>1. UNCHANGED <<clockVars, played, out, wall, stop>> /\ pc = "sleep" /\ pc' = "wait"
    BY <1>9 DEF Wake, mergeVars, outputVars
  <2> QED
    BY <1>1, <1>4, <2>1 DEF PacedInv, NapInv
<1>10. CASE TestStopAgain
  <2>1. /\ UNCHANGED <<clockVars, played, out, wall, stop>>
        /\ pc = "check" /\ pc' = IF stop THEN "finish" ELSE "write"
    BY <1>10 DEF TestStopAgain, StopSeen, mergeVars, outputVars
  <2> QED
    BY <1>1, <1>4, <2>1 DEF PacedInv, NapInv
\* What is played now is on time, what was played before stays so.
<1>11. CASE Write
  <2> DEFINE rec == [src |-> Current.src, row |-> Current.row, at |-> wall]
             Record == [src : Sources, row : Nat, at : Nat]
  <2>1. played' = Append(played, rec) /\ rec \in Record /\ played \in Seq(Record)
    BY <1>1, <1>11, WriteTypes DEF TypeOK
  <2>2. UNCHANGED <<realtime, started, ts0, wall0>> /\ pc = "write" /\ pc' = "loop"
    BY <1>11 DEF Write, clockVars
  <2>3. \A k \in DOMAIN played' : (k \in DOMAIN played /\ played'[k] = played[k]) \/ played'[k] = rec
    <3> HIDE DEF rec, Record
    <3> QED
      BY <2>1, AppendProperties, LenProperties
  <2>4. ASSUME realtime.num > 0, NEW k \in DOMAIN played' PROVE OnTime(k)'
    <3>1. CASE k \in DOMAIN played /\ played'[k] = played[k]
      <4>1. Target(RowOf(played[k]).ts)' = Target(RowOf(played[k]).ts)
        BY <1>3, <2>2, <3>1 DEF Target, OffsetNs, RowOf, Row
      <4>2. played[k].at >= Target(RowOf(played[k]).ts)
        BY <1>1, <2>4, <3>1 DEF PacedInv, OnTime
      <4> QED
        BY <3>1, <4>1, <4>2 DEF OnTime
    <3>2. CASE played'[k] = rec
      <4>1. played'[k].at = wall /\ RowOf(played[k])' = CurrentRow
        BY <1>3, <3>2 DEF RowOf, CurrentRow, Row
      <4>2. Target(RowOf(played[k]).ts)' = Target(CurrentRow.ts)
        BY <2>2, <4>1 DEF Target, OffsetNs
      <4>3. wall >= Target(CurrentRow.ts)
        BY <1>1, <2>2, <2>4 DEF PacedInv
      <4> QED
        BY <4>1, <4>2, <4>3 DEF OnTime
    <3> QED
      BY <2>3, <3>1, <3>2
  <2> QED
    BY <1>1, <2>2, <2>4 DEF PacedInv, NapInv
<1>12. CASE Signal \/ TimePasses
  <2>1. /\ UNCHANGED <<clockVars, played, out, pc>> /\ (stop => stop') /\ wall' \in {wall, wall + 1}
    BY <1>12 DEF Signal, TimePasses, mergeVars, outputVars
  <2>2. pc \in {"sleep", "check", "write"} => Target(CurrentRow.ts) \in Int
    BY <1>1, CurrentTarget
  <2>3. wall' \in Nat /\ wall <= wall'
    BY <1>2, <2>1
  <2>4. NapInv'
    <3> SUFFICES ASSUME pc' = "sleep"
                 PROVE  wake' <= Target(CurrentRow.ts)' /\ wake' <= wall' + KTick
      BY DEF NapInv
    <3>1. wake' = wake /\ Target(CurrentRow.ts)' = Target(CurrentRow.ts)
      BY <1>4, <2>1, <2>2 DEF clockVars
    <3>2. wake <= Target(CurrentRow.ts) /\ wake <= wall + KTick
      BY <1>1, <2>1 DEF NapInv
    <3>3. wake <= wall' + KTick
      <4>1. wake \in Int /\ wall \in Int /\ wall' \in Int /\ KTick \in Int
        BY <1>2, <2>3
      <4>2. wake <= wall + KTick /\ wall <= wall'
        BY <2>3, <3>2
      <4>3. \A a, b, c, t \in Int : a <= b + t /\ b <= c => a <= c + t
        OBVIOUS
      <4> QED
        BY <4>1, <4>2, <4>3
    <3> QED
      BY <3>1, <3>2, <3>3
  <2>5. PacedInv'
    <3> SUFFICES ASSUME realtime.num > 0 PROVE PacedInv'
      BY <1>4, <2>1 DEF PacedInv
    <3>1. pc' = "check" => stop' \/ wall' >= Target(CurrentRow.ts)'
      BY <1>1, <1>2, <1>4, <2>1, <2>2, <2>3 DEF PacedInv
    <3>2. pc' = "write" => wall' >= Target(CurrentRow.ts)'
      BY <1>1, <1>2, <1>4, <2>1, <2>2, <2>3 DEF PacedInv
    <3> QED
      BY <1>1, <1>4, <2>1, <3>1, <3>2 DEF PacedInv
  <2> QED
    BY <2>4, <2>5
<1>13. CASE UNCHANGED vars
  <2>1. UNCHANGED <<clockVars, played, out, pc, stop, wall>>
    BY <1>13 DEF vars, mergeVars, outputVars
  <2> QED
    BY <1>1, <1>4, <2>1 DEF PacedInv, NapInv
<1> QED
  BY <1>5, <1>6, <1>7, <1>8, <1>9, <1>10, <1>11, <1>12, <1>13 DEF Next, MainStep

\* For any input, speed, tick, delays and signals: no record is played before its
\* instant, and no nap goes beyond the instant of the record in hand.
THEOREM ScheduleIsKept == Spec => []KeepsTheSchedule
<1>1. ScheduleInv /\ [Next]_vars => ScheduleInv'
  BY NextScheduleInv
<1>2. ScheduleInv => KeepsTheSchedule
  BY DEF ScheduleInv, PacedInv, NapInv, OnTime, KeepsTheSchedule
<1> QED
  BY <1>1, <1>2, InitScheduleInv, PTL DEF Spec

-----------------------------------------------------------------------------
(* What a board's sink skips *)

Uid(k) == RowOf(played[k]).uid
Lid(k) == RowOf(played[k]).lid

\* Record k brought unit u an update_id no newer than one it already had.
Stale(u, k) ==
    \/ Uid(k) <= kept[u][Lid(k)]
    \/ \E j \in PlayedFor(u, Lid(k)) : j < k /\ Uid(k) <= Uid(j)

Repeats(u) == {k \in PlayedBy(u) : Stale(u, k)}

\* best of a symbol is the greatest of what the segment held at the start and
\* of what was played of that symbol since.
BestInv ==
    \A u \in Units : KindOf[u] = "book" =>
        \A l \in Lids :
            /\ kept[u][l] <= best[u][l]
            /\ \A k \in PlayedFor(u, l) : Uid(k) <= best[u][l]
            /\ \/ best[u][l] = kept[u][l]
               \/ \E k \in PlayedFor(u, l) : Uid(k) = best[u][l]

CountInv == \A u \in Units : KindOf[u] = "book" => deduped[u] = Cardinality(Repeats(u))

SinkInv == TypeOK /\ BestInv /\ CountInv

LEMMA CountIsDeduped == CountInv <=> DedupedIsExact
BY DEF CountInv, DedupedIsExact, Repeats, Stale, Uid, Lid

LEMMA PlayedFacts ==
    ASSUME TypeOK
    PROVE  /\ Len(played) \in Nat /\ DOMAIN played = 1 .. Len(played)
           /\ \A k \in DOMAIN played : Uid(k) \in Nat /\ Lid(k) \in Lids
<1> DEFINE Record == [src : Sources, row : Nat, at : Nat]
<1>1. Merger!TypeOK /\ played \in Seq(Record)
      /\ \A k \in DOMAIN played : played[k].row \in Merger!Rows(played[k].src)
  BY DEF TypeOK
<1>2. /\ Len(played) \in Nat /\ DOMAIN played = 1 .. Len(played)
      /\ \A k \in DOMAIN played : played[k] \in Record
  <2> HIDE DEF Record
  <2> QED
    BY <1>1, LenProperties, ElementOfSeq
<1> QED
  BY <1>1, <1>2, RowFacts DEF Uid, Lid, RowOf

LEMMA InitSinkInv == Init => SinkInv
<1> SUFFICES ASSUME Init PROVE SinkInv
  OBVIOUS
<1>1. TypeOK
  BY InitTypeOK
<1>2. DOMAIN played = {} /\ best = kept /\ deduped = [u \in Units |-> 0]
  BY DEF Init
<1>3. BestInv
  BY <1>1, <1>2 DEF BestInv, TypeOK, PlayedFor, PlayedBy
<1>4. \A u : Repeats(u) = {}
  BY <1>2 DEF Repeats, PlayedBy
<1> QED
  BY <1>1, <1>2, <1>3, <1>4, FS_EmptySet DEF SinkInv, CountInv

\* A write adds one record to what its unit played of its symbol, and changes
\* nothing else that was played.
LEMMA WriteAdds ==
    ASSUME TypeOK, Write, NEW u, u = RouteOf(Current.src), NEW c, c = CurrentRow,
           NEW n, n = Len(played) + 1
    PROVE  /\ u \in Units /\ c.lid \in Lids /\ c.uid \in Nat /\ n \in Nat
           /\ Uid(n)' = c.uid /\ Lid(n)' = c.lid
           /\ \A k \in DOMAIN played : Uid(k)' = Uid(k) /\ Lid(k)' = Lid(k) /\ k < n
           /\ \A v : PlayedBy(v)' = PlayedBy(v) \cup {k \in {n} : v = u}
           /\ \A v, l : PlayedFor(v, l)' = PlayedFor(v, l) \cup {k \in {n} : v = u /\ l = c.lid}
<1> DEFINE rec == [src |-> Current.src, row |-> Current.row, at |-> wall]
           Record == [src : Sources, row : Nat, at : Nat]
<1>1. Merger!TypeOK /\ out # <<>> /\ file' = file /\ played \in Seq(Record)
  BY DEF TypeOK, Write, mergeVars
<1>2. u \in Units /\ c.lid \in Lids /\ c.uid \in Nat /\ rec \in Record
  BY <1>1, CurrentFacts, WriteTypes
<1>3. played' = Append(played, rec)
  BY DEF Write
<1>4. /\ Len(played) \in Nat /\ DOMAIN played = 1 .. Len(played)
      /\ DOMAIN played' = 1 .. Len(played) + 1
      /\ \A k \in DOMAIN played : played'[k] = played[k]
      /\ played'[Len(played) + 1] = rec
  <2> HIDE DEF rec, Record
  <2> QED
    BY <1>1, <1>2, <1>3, AppendProperties, LenProperties
<1>5. DOMAIN played' = DOMAIN played \cup {n} /\ n \notin DOMAIN played
      /\ \A k \in DOMAIN played : k < n
  BY <1>4
<1>6. \A k \in DOMAIN played : RowOf(played[k])' = RowOf(played[k]) /\ played'[k].src = played[k].src
  BY <1>1, <1>4 DEF RowOf, Row
<1>7. RowOf(played[n])' = c /\ UnitOf[played'[n].src] = u
  BY <1>1, <1>4 DEF RowOf, Row, CurrentRow, RouteOf
<1>8. Uid(n)' = c.uid /\ Lid(n)' = c.lid
  BY <1>7 DEF Uid, Lid
<1>9. \A k \in DOMAIN played : Uid(k)' = Uid(k) /\ Lid(k)' = Lid(k)
  BY <1>6 DEF Uid, Lid
<1>10. ASSUME NEW v PROVE PlayedBy(v)' = PlayedBy(v) \cup {k \in {n} : v = u}
  BY <1>5, <1>6, <1>7 DEF PlayedBy
<1>11. ASSUME NEW v, NEW l
       PROVE  PlayedFor(v, l)' = PlayedFor(v, l) \cup {k \in {n} : v = u /\ l = c.lid}
  BY <1>5, <1>6, <1>7, <1>10 DEF PlayedFor, PlayedBy
<1> QED
  BY <1>2, <1>4, <1>5, <1>8, <1>9, <1>10, <1>11

LEMMA WriteSinkInv == ASSUME SinkInv, Write PROVE BestInv' /\ CountInv'
<1>1. TypeOK /\ BestInv /\ CountInv
  BY DEF SinkInv
<1>2. PICK u, c, n : u = RouteOf(Current.src) /\ c = CurrentRow /\ n = Len(played) + 1
  OBVIOUS
<1>3. /\ u \in Units /\ c.lid \in Lids /\ c.uid \in Nat /\ n \in Nat
      /\ Uid(n)' = c.uid /\ Lid(n)' = c.lid
      /\ \A k \in DOMAIN played : Uid(k)' = Uid(k) /\ Lid(k)' = Lid(k) /\ k < n
      /\ \A v : PlayedBy(v)' = PlayedBy(v) \cup {k \in {n} : v = u}
      /\ \A v, l : PlayedFor(v, l)' = PlayedFor(v, l) \cup {k \in {n} : v = u /\ l = c.lid}
  BY <1>1, <1>2, WriteAdds
<1>4. /\ best \in [Units -> [Lids -> Nat]] /\ kept \in [Units -> [Lids -> Nat]]
      /\ deduped \in [Units -> Nat] /\ kept' = kept
  BY <1>1 DEF TypeOK, Write
<1>5. /\ \A k \in DOMAIN played : Uid(k) \in Nat /\ Lid(k) \in Lids
      /\ DOMAIN played = 1 .. Len(played) /\ Len(played) \in Nat
      /\ n \notin DOMAIN played
  BY <1>1, <1>2, PlayedFacts
<1>6. \A v, l : PlayedFor(v, l) \subseteq DOMAIN played /\ PlayedBy(v) \subseteq DOMAIN played
  BY DEF PlayedFor, PlayedBy
\* What the sink does: it raises best of the symbol, or counts one more.
<1>7. ASSUME KindOf[u] = "book"
      PROVE  \/ /\ c.uid > best[u][c.lid] /\ deduped' = deduped
                /\ best' = [best EXCEPT ![u] = [@ EXCEPT ![c.lid] = c.uid]]
             \/ /\ ~(c.uid > best[u][c.lid]) /\ best' = best
                /\ deduped' = [deduped EXCEPT ![u] = @ + 1]
  BY <1>2, <1>7 DEF Write, WriteBook, Newer
<1>8. ASSUME KindOf[u] # "book" PROVE best' = best /\ deduped' = deduped
  BY <1>2, <1>8 DEF Write, WriteTrade
<1>9. ASSUME NEW v \in Units, KindOf[v] = "book", NEW l \in Lids, ~(v = u /\ l = c.lid)
      PROVE  best'[v][l] = best[v][l] /\ PlayedFor(v, l)' = PlayedFor(v, l)
  BY <1>3, <1>4, <1>7, <1>8, <1>9
<1>10. BestInv'
  <2> SUFFICES ASSUME NEW v \in Units, KindOf[v] = "book", NEW l \in Lids
               PROVE  /\ kept[v][l] <= best'[v][l]
                      /\ \A k \in PlayedFor(v, l)' : Uid(k)' <= best'[v][l]
                      /\ \/ best'[v][l] = kept[v][l]
                         \/ \E k \in PlayedFor(v, l)' : Uid(k)' = best'[v][l]
    BY <1>4 DEF BestInv
  <2>1. /\ kept[v][l] <= best[v][l]
        /\ \A k \in PlayedFor(v, l) : Uid(k) <= best[v][l]
        /\ \/ best[v][l] = kept[v][l]
           \/ \E k \in PlayedFor(v, l) : Uid(k) = best[v][l]
    BY <1>1 DEF BestInv
  <2>2. \A k \in PlayedFor(v, l) : Uid(k)' = Uid(k) /\ Uid(k) \in Nat
    BY <1>3, <1>5, <1>6
  <2>3. CASE ~(v = u /\ l = c.lid)
    BY <1>9, <2>1, <2>2, <2>3
  <2>4. CASE v = u /\ l = c.lid
    <3>1. PlayedFor(v, l)' = PlayedFor(v, l) \cup {n}
      BY <1>3, <2>4
    <3>2. best[v][l] \in Nat /\ kept[v][l] \in Nat
      BY <1>4
    <3>3. \/ c.uid > best[v][l] /\ best'[v][l] = c.uid
          \/ c.uid <= best[v][l] /\ best'[v][l] = best[v][l]
      BY <1>3, <1>4, <1>7, <2>4, <3>2
    <3> QED
      BY <1>3, <2>1, <2>2, <3>1, <3>2, <3>3
  <2> QED
    BY <2>3, <2>4
\* A record already played stays stale or fresh.
<1>11. ASSUME NEW v, NEW k \in DOMAIN played PROVE Stale(v, k)' <=> Stale(v, k)
  <2>1. Uid(k)' = Uid(k) /\ Lid(k)' = Lid(k) /\ k < n /\ k \in Nat
    BY <1>3, <1>5
  <2>2. \A j \in PlayedFor(v, Lid(k))' : j < k => j \in PlayedFor(v, Lid(k))
    BY <1>3, <2>1
  <2>3. \A j \in PlayedFor(v, Lid(k)) : j \in PlayedFor(v, Lid(k))' /\ Uid(j)' = Uid(j)
    BY <1>3, <1>6
  <2> QED
    BY <1>4, <2>1, <2>2, <2>3 DEF Stale
\* The new one is stale exactly if best was already as high.
<1>12. ASSUME KindOf[u] = "book" PROVE Stale(u, n)' <=> c.uid <= best[u][c.lid]
  <2>1. /\ kept[u][c.lid] <= best[u][c.lid]
        /\ \A k \in PlayedFor(u, c.lid) : Uid(k) <= best[u][c.lid]
        /\ \/ best[u][c.lid] = kept[u][c.lid]
           \/ \E k \in PlayedFor(u, c.lid) : Uid(k) = best[u][c.lid]
    BY <1>1, <1>3, <1>12 DEF BestInv
  <2>2. PlayedFor(u, c.lid)' = PlayedFor(u, c.lid) \cup {n}
    BY <1>3
  <2>3. \A j \in PlayedFor(u, c.lid) : j < n /\ Uid(j)' = Uid(j) /\ Uid(j) \in Nat
    BY <1>3, <1>5, <1>6
  <2>4. Stale(u, n)' <=> \/ c.uid <= kept[u][c.lid]
                         \/ \E j \in PlayedFor(u, c.lid) : c.uid <= Uid(j)
    BY <1>3, <1>4, <2>2, <2>3 DEF Stale
  <2>5. best[u][c.lid] \in Nat /\ kept[u][c.lid] \in Nat /\ c.uid \in Nat
    BY <1>3, <1>4
  <2> QED
    BY <2>1, <2>3, <2>4, <2>5
<1>13. CountInv'
  <2> SUFFICES ASSUME NEW v \in Units, KindOf[v] = "book"
               PROVE  deduped'[v] = Cardinality(Repeats(v)')
    BY DEF CountInv
  <2>1. deduped[v] = Cardinality(Repeats(v)) /\ deduped[v] \in Nat
    BY <1>1, <1>4 DEF CountInv
  <2>2. IsFiniteSet(Repeats(v)) /\ n \notin Repeats(v)
    <3>1. Repeats(v) \subseteq DOMAIN played
      BY <1>6 DEF Repeats
    <3>2. IsFiniteSet(DOMAIN played)
      <4>1. IsFiniteSet(1 .. Len(played))
        BY <1>5, FS_Interval
      <4> QED
        BY <1>5, <4>1
    <3> QED
      BY <1>5, <3>1, <3>2, FS_Subset
  <2>3. Repeats(v)' = Repeats(v) \cup {k \in {n} : v = u /\ Stale(v, n)'}
    BY <1>3, <1>6, <1>11 DEF Repeats
  <2>4. CASE v = u /\ c.uid <= best[u][c.lid]
    <3>1. Repeats(v)' = Repeats(v) \cup {n}
      BY <1>12, <2>3, <2>4
    <3>2. deduped'[v] = deduped[v] + 1
      <4>1. best[u][c.lid] \in Nat
        BY <1>3, <1>4
      <4> QED
        BY <1>3, <1>4, <1>7, <2>4, <4>1
    <3> QED
      BY <2>1, <2>2, <3>1, <3>2, FS_AddElement
  <2>5. CASE ~(v = u /\ c.uid <= best[u][c.lid])
    <3>1. Repeats(v)' = Repeats(v)
      BY <1>12, <2>3, <2>5
    <3>2. deduped'[v] = deduped[v]
      <4>1. best[u][c.lid] \in Nat
        BY <1>3, <1>4
      <4> QED
        BY <1>3, <1>4, <1>7, <1>8, <2>5, <4>1
    <3> QED
      BY <2>1, <3>1, <3>2
  <2> QED
    BY <2>4, <2>5
<1> QED
  BY <1>10, <1>13

LEMMA NextSinkInv == SinkInv /\ [Next]_vars => SinkInv'
<1> SUFFICES ASSUME SinkInv, [Next]_vars PROVE SinkInv'
  OBVIOUS
<1>1. TypeOK'
  BY NextTypeOK DEF SinkInv
<1>2. file' = file
  BY MergerSteps DEF Merger!Next, Merger!Retire, Merger!DropEarly, Merger!Emit, mergeVars
<1>3. CASE Write
  BY <1>1, <1>3, WriteSinkInv DEF SinkInv
<1>4. CASE ~Write
  <2>1. UNCHANGED <<best, kept, played, deduped>>
    BY <1>4 DEF Next, MainStep, vars, TestStop, NextDrops, NextReturns, NextIsNone, EnterPace,
       WaitTestsStop, WaitReadsClock, Wake, TestStopAgain, Finish, Signal, TimePasses, outputVars
  <2>2. /\ \A v : PlayedBy(v)' = PlayedBy(v)
        /\ \A k : Uid(k)' = Uid(k) /\ Lid(k)' = Lid(k)
    BY <1>2, <2>1 DEF PlayedBy, Uid, Lid, RowOf, Row
  <2>3. \A v, l : PlayedFor(v, l)' = PlayedFor(v, l)
    BY <1>2, <2>1, <2>2 DEF PlayedFor, RowOf, Row
  <2>4. \A v : Repeats(v)' = Repeats(v)
    <3>1. \A v, k : Stale(v, k)' <=> Stale(v, k)
      BY <2>1, <2>2, <2>3 DEF Stale
    <3> QED
      BY <2>2, <3>1 DEF Repeats
  <2> QED
    BY <1>1, <2>1, <2>2, <2>3, <2>4 DEF SinkInv, BestInv, CountInv
<1> QED
  BY <1>3, <1>4

\* For any input and any leftovers in the segments: the count of a board's sink
\* is the number of its records that brought nothing newer.
THEOREM SkippedAreCounted == Spec => []DedupedIsExact
<1>1. SinkInv => DedupedIsExact
  BY CountIsDeduped DEF SinkInv
<1> QED
  BY <1>1, InitSinkInv, NextSinkInv, PTL DEF Spec

-----------------------------------------------------------------------------
(* What is in the segments *)

Pair(p) == [src |-> p.src, row |-> p.row]

\* From the return of next() to the write one record is in hand.
InHandInv ==
    /\ Len(out) - Len(played) \in {0, 1}
    /\ pc \in {"loop", "next"} => Len(out) = Len(played)
    /\ pc \in {"pace", "wait", "clock", "sleep", "check", "write"} => Len(out) = Len(played) + 1
    /\ \A k \in DOMAIN played : played[k].src = out[k].src /\ played[k].row = out[k].row

\* A board's slot shows best_uid, and all levels as long as the depths agree.
ShownInv ==
    /\ shown = [u \in Units |-> [l \in Lids |-> shown[u][l]]]
    /\ \A u \in Units : KindOf[u] = "book" =>
           /\ ring[u] = <<>>
           /\ \A l \in Lids : shown[u][l].uid = best[u][l]
           /\ (\A k \in PlayedBy(u) : RowOf(played[k]).depth = segdepth[u]) =>
                  \A l \in Lids : shown[u][l].levels = segdepth[u]

RingsInv ==
    /\ ring \in [Units -> Seq([src : Sources, row : Nat])]
    /\ \A u \in Units : KindOf[u] = "trade" =>
           /\ Len(ring[u]) = Cardinality(PlayedBy(u))
           /\ \A k \in PlayedBy(u) : ring[u][Rank(u, k)] = Pair(played[k])

OutputInv == SinkInv /\ InHandInv /\ ShownInv /\ RingsInv

\* The greatest element of a set is Newest.
LEMMA NewestIsGreatest ==
    ASSUME NEW S, NEW n \in S, \A m \in S : m \in Nat /\ m <= n
    PROVE  Newest(S) = n
<1>1. Newest(S) \in S /\ \A m \in S : m <= Newest(S)
  BY DEF Newest
<1>2. n <= Newest(S) /\ Newest(S) <= n /\ n \in Nat /\ Newest(S) \in Nat
  BY <1>1
<1> QED
  BY <1>2

LEMMA OutputInvSuffices == ASSUME OutputInv PROVE OutputsHoldThePlayed
<1>1. TypeOK /\ BestInv /\ InHandInv /\ ShownInv /\ RingsInv
  BY DEF OutputInv, SinkInv
<1>2. ASSUME NEW u \in Units PROVE KindOf[u] \in {"book", "trade"}
  BY KindsAssumption DEF Units
<1>3. ASSUME NEW u \in Units, KindOf[u] = "book", NEW l \in Lids
      PROVE  shown[u][l].uid = Newest({kept[u][l]} \cup {RowOf(played[k]).uid : k \in PlayedFor(u, l)})
  <2> DEFINE S == {kept[u][l]} \cup {RowOf(played[k]).uid : k \in PlayedFor(u, l)}
  <2>1. /\ kept[u][l] <= best[u][l]
        /\ \A k \in PlayedFor(u, l) : Uid(k) <= best[u][l]
        /\ \/ best[u][l] = kept[u][l]
           \/ \E k \in PlayedFor(u, l) : Uid(k) = best[u][l]
    BY <1>1, <1>3 DEF BestInv
  <2>2. \A k \in PlayedFor(u, l) : Uid(k) \in Nat /\ Uid(k) = RowOf(played[k]).uid
    BY <1>1, PlayedFacts DEF PlayedFor, PlayedBy, Uid
  <2>3. kept[u][l] \in Nat
    BY <1>1 DEF TypeOK
  <2>4. best[u][l] \in S /\ \A m \in S : m \in Nat /\ m <= best[u][l]
    BY <2>1, <2>2, <2>3
  <2> HIDE DEF S
  <2>5. Newest(S) = best[u][l]
    BY <2>4, NewestIsGreatest
  <2> QED
    BY <1>1, <1>3, <2>5 DEF ShownInv, S
<1>4. ASSUME NEW u \in Units
      PROVE  IF KindOf[u] = "trade"
             THEN /\ Len(ring[u]) = Cardinality(PlayedBy(u))
                  /\ \A k \in PlayedBy(u) :
                         ring[u][Rank(u, k)] = [src |-> played[k].src, row |-> played[k].row]
             ELSE /\ ring[u] = <<>>
                  /\ \A l \in Lids :
                       shown[u][l].uid =
                           Newest({kept[u][l]} \cup {RowOf(played[k]).uid : k \in PlayedFor(u, l)})
                  /\ (\A k \in PlayedBy(u) : RowOf(played[k]).depth = segdepth[u]) =>
                         \A l \in Lids : shown[u][l].levels = segdepth[u]
  <2>1. CASE KindOf[u] = "trade"
    BY <1>1, <2>1 DEF RingsInv, Pair
  <2>2. CASE KindOf[u] = "book"
    BY <1>1, <1>3, <2>2 DEF ShownInv
  <2> QED
    BY <1>2, <2>1, <2>2
<1> QED
  BY <1>1, <1>4 DEF OutputsHoldThePlayed, InHandInv

LEMMA InitOutputInv == Init => OutputInv
<1> SUFFICES ASSUME Init PROVE OutputInv
  OBVIOUS
<1>1. SinkInv
  BY InitSinkInv
<1>2. played = <<>> /\ DOMAIN played = {} /\ Len(played) = 0 /\ pc = "loop"
  BY DEF Init
<1>3. out = <<>>
  BY DEF Init, Merger!Init
<1>4. \A u : PlayedBy(u) = {}
  BY <1>2 DEF PlayedBy
<1>5. InHandInv
  BY <1>2, <1>3 DEF InHandInv
<1>6. ShownInv
  <2>1. /\ shown = [u \in Units |-> [l \in Lids |-> [uid |-> best[u][l], levels |-> segdepth[u]]]]
        /\ ring = [u \in Units |-> <<>>]
    BY DEF Init
  <2> QED
    BY <2>1 DEF ShownInv
<1>7. RingsInv
  <2>1. ring = [u \in Units |-> <<>>]
    BY DEF Init
  <2> QED
    BY <1>4, <2>1, EmptySeq, FS_EmptySet DEF RingsInv
<1> QED
  BY <1>1, <1>5, <1>6, <1>7 DEF OutputInv

\* What a write does to the record in hand, the board or the ring.
LEMMA WriteInHand == ASSUME TypeOK, InHandInv, Write PROVE InHandInv'
<1> DEFINE rec == [src |-> Current.src, row |-> Current.row, at |-> wall]
           Record == [src : Sources, row : Nat, at : Nat]
<1>1. played' = Append(played, rec) /\ rec \in Record /\ played \in Seq(Record)
  BY WriteTypes DEF TypeOK
<1>2. out' = out /\ pc = "write" /\ pc' = "loop" /\ Len(out) = Len(played) + 1
  BY DEF Write, mergeVars, InHandInv
<1>3. /\ Len(played) \in Nat /\ Len(played') = Len(played) + 1
      /\ DOMAIN played = 1 .. Len(played) /\ DOMAIN played' = 1 .. Len(played) + 1
      /\ \A k \in 1 .. Len(played) : played'[k] = played[k]
      /\ played'[Len(played) + 1] = rec
  <2> HIDE DEF rec, Record
  <2> QED
    BY <1>1, AppendProperties, LenProperties
<1>4. rec.src = out[Len(played) + 1].src /\ rec.row = out[Len(played) + 1].row
  BY <1>2 DEF Current
<1>5. \A k \in DOMAIN played' : k \in DOMAIN played \/ k = Len(played) + 1
  BY <1>3
<1>6. \A k \in DOMAIN played' : played'[k].src = out[k].src /\ played'[k].row = out[k].row
  <2> HIDE DEF rec
  <2> QED
    BY <1>3, <1>4, <1>5 DEF InHandInv
<1>7. Len(out') - Len(played') = 0 /\ Len(out') = Len(played')
  BY <1>2, <1>3
<1> QED
  BY <1>2, <1>6, <1>7 DEF InHandInv

LEMMA WriteShown == ASSUME SinkInv, ShownInv, Write PROVE ShownInv'
<1>1. TypeOK
  BY DEF SinkInv
<1>2. PICK u, c, n : u = RouteOf(Current.src) /\ c = CurrentRow /\ n = Len(played) + 1
  OBVIOUS
<1>3. /\ u \in Units /\ c.lid \in Lids
      /\ \A v : PlayedBy(v)' = PlayedBy(v) \cup {k \in {n} : v = u}
  BY <1>1, <1>2, WriteAdds
<1>4. /\ best \in [Units -> [Lids -> Nat]]
      /\ shown = [v \in Units |-> [l \in Lids |-> shown[v][l]]]
      /\ segdepth' = segdepth
  BY <1>1 DEF TypeOK, ShownInv, Write
<1> DEFINE rec == [src |-> Current.src, row |-> Current.row, at |-> wall]
           Record == [src : Sources, row : Nat, at : Nat]
<1>5. /\ \A k \in DOMAIN played : RowOf(played[k])' = RowOf(played[k])
      /\ RowOf(played[n])' = c
  <2>1. played' = Append(played, rec) /\ rec \in Record /\ played \in Seq(Record) /\ file' = file
    BY <1>1, WriteTypes DEF TypeOK, Write, mergeVars
  <2>2. /\ \A k \in DOMAIN played : played'[k] = played[k]
        /\ played'[n] = rec
    <3> HIDE DEF rec, Record
    <3> QED
      BY <1>2, <2>1, AppendProperties, LenProperties
  <2> QED
    BY <1>2, <2>1, <2>2 DEF RowOf, Row, CurrentRow
<1>6. CASE KindOf[u] = "book"
  <2> DEFINE new == [uid |-> c.uid, levels |-> IF segdepth[u] = 1 THEN 1 ELSE c.depth]
  <2>1. /\ ring' = ring
        /\ \/ /\ shown' = [shown EXCEPT ![u] = [@ EXCEPT ![c.lid] = new]]
              /\ best' = [best EXCEPT ![u] = [@ EXCEPT ![c.lid] = c.uid]]
           \/ shown' = shown /\ best' = best
    BY <1>2, <1>6 DEF Write, WriteBook
  <2>2. shown' = [v \in Units |-> [l \in Lids |-> shown'[v][l]]]
    BY <1>3, <1>4, <2>1
  <2>3. ASSUME NEW v \in Units, NEW l \in Lids
        PROVE  \/ shown'[v][l] = shown[v][l] /\ best'[v][l] = best[v][l]
               \/ v = u /\ l = c.lid /\ shown'[v][l] = new /\ best'[v][l] = c.uid
    BY <1>3, <1>4, <2>1
  <2>4. new.uid = c.uid /\ new.levels = IF segdepth[u] = 1 THEN 1 ELSE c.depth
    OBVIOUS
  <2> HIDE DEF new
  <2>5. ASSUME NEW v \in Units, KindOf[v] = "book"
        PROVE  /\ ring'[v] = <<>>
               /\ \A l \in Lids : shown'[v][l].uid = best'[v][l]
    BY <2>1, <2>3, <2>4, <2>5 DEF ShownInv
  <2>6. ASSUME NEW v \in Units, KindOf[v] = "book",
               \A k \in PlayedBy(v)' : RowOf(played[k])'.depth = segdepth[v],
               NEW l \in Lids
        PROVE  shown'[v][l].levels = segdepth[v]
    <3>1. \A k \in PlayedBy(v) : k \in DOMAIN played /\ RowOf(played[k]).depth = segdepth[v]
      BY <1>3, <1>5, <2>6 DEF PlayedBy
    <3>2. shown[v][l].levels = segdepth[v]
      BY <2>6, <3>1 DEF ShownInv
    <3>3. CASE v = u
      <4>1. c.depth = segdepth[u]
        BY <1>3, <1>5, <2>6, <3>3
      <4>2. new.levels = segdepth[u]
        BY <2>4, <4>1
      <4> QED
        BY <2>3, <3>2, <3>3, <4>2
    <3>4. CASE v # u
      BY <2>3, <3>2, <3>4
    <3> QED
      BY <3>3, <3>4
  <2> QED
    BY <1>4, <2>2, <2>5, <2>6 DEF ShownInv
<1>7. CASE KindOf[u] # "book"
  <2>1. shown' = shown /\ best' = best /\ \A v : v # u => ring'[v] = ring[v]
    <3>1. WriteTrade(u)
      BY <1>2, <1>7 DEF Write
    <3> QED
      BY <3>1 DEF WriteTrade
  <2>2. ASSUME NEW v \in Units, KindOf[v] = "book"
        PROVE  v # u /\ PlayedBy(v)' = PlayedBy(v)
    BY <1>3, <1>7, <2>2
  <2>3. \A v : \A k \in PlayedBy(v) : RowOf(played[k])' = RowOf(played[k])
    BY <1>5 DEF PlayedBy
  <2>4. ASSUME NEW v \in Units, KindOf[v] = "book"
        PROVE  /\ ring'[v] = <<>>
               /\ \A l \in Lids : shown'[v][l].uid = best'[v][l]
               /\ (\A k \in PlayedBy(v)' : RowOf(played[k])'.depth = segdepth[v]) =>
                      \A l \in Lids : shown'[v][l].levels = segdepth[v]
    <3>1. ring'[v] = ring[v] /\ PlayedBy(v)' = PlayedBy(v)
      BY <2>1, <2>2, <2>4
    <3>2. \A k \in PlayedBy(v) : RowOf(played[k])' = RowOf(played[k])
      BY <2>3
    <3> QED
      BY <2>1, <2>4, <3>1, <3>2 DEF ShownInv
  <2>5. shown' = [v \in Units |-> [l \in Lids |-> shown'[v][l]]]
    BY <1>4, <2>1
  <2> QED
    BY <1>4, <2>4, <2>5 DEF ShownInv
<1> QED
  BY <1>6, <1>7

LEMMA WriteRings == ASSUME SinkInv, RingsInv, Write PROVE RingsInv'
<1>1. TypeOK
  BY DEF SinkInv
<1>2. PICK u, n : u = RouteOf(Current.src) /\ n = Len(played) + 1
  OBVIOUS
<1>3. /\ u \in Units /\ n \in Nat
      /\ \A k \in DOMAIN played : k < n
      /\ \A v : PlayedBy(v)' = PlayedBy(v) \cup {k \in {n} : v = u}
  BY <1>1, <1>2, WriteAdds
<1> DEFINE rec == [src |-> Current.src, row |-> Current.row, at |-> wall]
           Record == [src : Sources, row : Nat, at : Nat]
           item == [src |-> Current.src, row |-> Current.row]
           Item == [src : Sources, row : Nat]
<1>4. /\ \A k \in DOMAIN played : Pair(played[k])' = Pair(played[k])
      /\ Pair(played[n])' = item
  <2>1. played' = Append(played, rec) /\ rec \in Record /\ played \in Seq(Record)
    BY <1>1, WriteTypes DEF TypeOK
  <2>2. /\ \A k \in DOMAIN played : played'[k] = played[k]
        /\ played'[n] = rec
    <3> HIDE DEF rec, Record
    <3> QED
      BY <1>2, <2>1, AppendProperties, LenProperties
  <2> QED
    BY <2>2 DEF Pair
<1>5. item \in Item
  BY <1>1, CurrentFacts DEF Write, TypeOK
<1>6. DOMAIN played = 1 .. Len(played) /\ Len(played) \in Nat /\ n \notin DOMAIN played
  BY <1>1, <1>2, PlayedFacts
<1>7. \A v : PlayedBy(v) \subseteq DOMAIN played /\ IsFiniteSet(PlayedBy(v))
  <2>1. IsFiniteSet(1 .. Len(played))
    BY <1>6, FS_Interval
  <2>2. \A v : PlayedBy(v) \in SUBSET (1 .. Len(played))
    BY <1>6 DEF PlayedBy
  <2> QED
    BY <1>6, <2>1, <2>2, FS_Subset
\* A record's place does not change when a later one is played.
<1>8. ASSUME NEW v, NEW k \in PlayedBy(v) PROVE Rank(v, k)' = Rank(v, k)
  <2>1. k < n /\ k \in Nat /\ ~(n <= k)
    BY <1>3, <1>6, <1>7
  <2>2. {j \in PlayedBy(v)' : j <= k} = {j \in PlayedBy(v) : j <= k}
    BY <1>3, <2>1
  <2> QED
    BY <2>2 DEF Rank
<1>9. CASE KindOf[u] = "book"
  <2>1. ring' = ring
    BY <1>2, <1>9 DEF Write, WriteBook
  <2>2. ASSUME NEW v \in Units, KindOf[v] = "trade" PROVE PlayedBy(v)' = PlayedBy(v)
    BY <1>3, <1>9, <2>2
  <2>3. ASSUME NEW v \in Units, KindOf[v] = "trade"
        PROVE  /\ Len(ring'[v]) = Cardinality(PlayedBy(v)')
               /\ \A k \in PlayedBy(v)' : ring'[v][Rank(v, k)'] = Pair(played[k])'
    <3>1. PlayedBy(v)' = PlayedBy(v)
      BY <2>2, <2>3
    <3>2. \A k \in PlayedBy(v) : Rank(v, k)' = Rank(v, k) /\ Pair(played[k])' = Pair(played[k])
      BY <1>4, <1>7, <1>8
    <3> QED
      BY <2>1, <2>3, <3>1, <3>2 DEF RingsInv
  <2>4. ring' \in [Units -> Seq([src : Sources, row : Nat])]
    BY <2>1 DEF RingsInv
  <2> QED
    BY <2>3, <2>4 DEF RingsInv
<1>10. CASE KindOf[u] # "book"
  <2>1. ring' = [ring EXCEPT ![u] = Append(ring[u], item)] /\ ring \in [Units -> Seq(Item)]
    <3>1. WriteTrade(u)
      BY <1>2, <1>10 DEF Write
    <3> QED
      BY <3>1 DEF WriteTrade, RingsInv
  <2>2. /\ Append(ring[u], item) \in Seq(Item) /\ Len(Append(ring[u], item)) = Len(ring[u]) + 1
        /\ \A k \in 1 .. Len(ring[u]) : Append(ring[u], item)[k] = ring[u][k]
        /\ Append(ring[u], item)[Len(ring[u]) + 1] = item
    <3>1. ring[u] \in Seq(Item)
      BY <1>3, <2>1
    <3> HIDE DEF item, Item
    <3> QED
      BY <1>5, <3>1, AppendProperties
  <2>3. ring' \in [Units -> Seq(Item)]
    BY <2>1, <2>2
  <2>4. ASSUME NEW v \in Units, KindOf[v] = "trade", v # u
        PROVE  /\ Len(ring'[v]) = Cardinality(PlayedBy(v)')
               /\ \A k \in PlayedBy(v)' : ring'[v][Rank(v, k)'] = Pair(played[k])'
    <3>1. PlayedBy(v)' = PlayedBy(v) /\ ring'[v] = ring[v]
      BY <1>3, <2>1, <2>4
    <3> QED
      BY <1>4, <1>7, <1>8, <2>4, <3>1 DEF RingsInv
  <2>5. ASSUME KindOf[u] = "trade"
        PROVE  /\ Len(ring'[u]) = Cardinality(PlayedBy(u)')
               /\ \A k \in PlayedBy(u)' : ring'[u][Rank(u, k)'] = Pair(played[k])'
    <3>1. ring'[u] = Append(ring[u], item)
      BY <1>3, <2>1
    <3>2. /\ Len(ring[u]) = Cardinality(PlayedBy(u))
          /\ \A k \in PlayedBy(u) : ring[u][Rank(u, k)] = Pair(played[k])
      BY <1>3, <2>5 DEF RingsInv
    <3>3. PlayedBy(u)' = PlayedBy(u) \cup {n} /\ n \notin PlayedBy(u)
      BY <1>3, <1>6, <1>7
    <3>4. Cardinality(PlayedBy(u)') = Len(ring[u]) + 1
      BY <1>7, <3>2, <3>3, FS_AddElement
    <3>5. Rank(u, n)' = Len(ring[u]) + 1
      <4>1. \A j \in PlayedBy(u) : j <= n
        BY <1>3, <1>6, <1>7
      <4>2. {j \in PlayedBy(u)' : j <= n} = PlayedBy(u)'
        BY <1>3, <3>3, <4>1
      <4> QED
        BY <3>4, <4>2 DEF Rank
    <3>6. ASSUME NEW k \in PlayedBy(u) PROVE Rank(u, k) \in 1 .. Len(ring[u])
      <4> DEFINE S == {j \in PlayedBy(u) : j <= k}
      <4>1. k \in Nat
        BY <1>6, <1>7
      <4>2. S \in SUBSET PlayedBy(u) /\ S # {}
        BY <4>1
      <4> HIDE DEF S
      <4>3. IsFiniteSet(S) /\ Cardinality(S) <= Cardinality(PlayedBy(u))
        BY <1>7, <4>2, FS_Subset
      <4>4. Cardinality(S) \in Nat /\ Cardinality(S) # 0
        BY <4>2, <4>3, FS_CardinalityType, FS_EmptySet
      <4>5. Cardinality(S) \in 1 .. Len(ring[u])
        BY <1>7, <3>2, <4>3, <4>4, FS_CardinalityType
      <4> QED
        BY <4>5 DEF Rank, S
    <3>7. ASSUME NEW k \in PlayedBy(u) PROVE ring'[u][Rank(u, k)'] = Pair(played[k])'
      <4>1. Rank(u, k)' = Rank(u, k) /\ Pair(played[k])' = Pair(played[k])
        BY <1>4, <1>7, <1>8
      <4> QED
        BY <2>2, <3>1, <3>2, <3>6, <4>1
    <3>8. ring'[u][Rank(u, n)'] = Pair(played[n])'
      BY <1>4, <2>2, <3>1, <3>5
    <3> QED
      BY <2>2, <3>1, <3>3, <3>4, <3>7, <3>8
  <2> QED
    BY <2>3, <2>4, <2>5 DEF RingsInv
<1> QED
  BY <1>9, <1>10

LEMMA NextInHand == ASSUME TypeOK, InHandInv, [Next]_vars, ~Write PROVE InHandInv'
<1>1. played' = played
  BY DEF Next, MainStep, vars, TestStop, NextDrops, NextReturns, NextIsNone, EnterPace,
     WaitTestsStop, WaitReadsClock, Wake, TestStopAgain, Finish, Signal, TimePasses, outputVars
<1>2. CASE NextReturns
  <2>1. PICK x \in heap : Merger!Emit(x)
    BY <1>2 DEF NextReturns
  <2> DEFINE rec == [ts |-> x.ts, src |-> x.src, row |-> pos[x.src]]
             Record == [ts : Int, src : Sources, row : Nat]
  <2>2. out' = Append(out, rec)
    BY <2>1 DEF Merger!Emit
  <2>3. out \in Seq(Record) /\ rec \in Record
    <3>1. Merger!TypeOK
      BY DEF TypeOK
    <3>2. x \in [ts : Int, src : Sources] /\ pos \in [Sources -> Nat \ {0}] /\ out \in Seq(Record)
      BY <3>1 DEF Merger!TypeOK
    <3> QED
      BY <3>2
  <2>4. Len(out) \in Nat /\ Len(out') = Len(out) + 1 /\ \A k \in 1 .. Len(out) : out'[k] = out[k]
    <3> HIDE DEF rec, Record
    <3> QED
      BY <2>2, <2>3, AppendProperties, LenProperties
  <2>5. Len(out) = Len(played) /\ pc' = "pace" /\ DOMAIN played = 1 .. Len(out)
    BY <1>2, PlayedFacts DEF NextReturns, InHandInv
  <2> QED
    BY <1>1, <2>4, <2>5 DEF InHandInv
<1>3. CASE ~NextReturns
  <2>1. /\ out' = out
        /\ pc' \in {"loop", "next"} => pc \in {"loop", "next"}
        /\ pc' \in {"pace", "wait", "clock", "sleep", "check", "write"} =>
               pc \in {"pace", "wait", "clock", "sleep", "check", "write"}
    <3>1. CASE TestStop \/ NextDrops \/ NextIsNone
      BY <3>1 DEF TestStop, NextDrops, NextIsNone, mergeVars, Merger!Retire, Merger!DropEarly
    <3>2. CASE EnterPace \/ WaitTestsStop \/ WaitReadsClock \/ Wake
      BY <3>2 DEF EnterPace, WaitTestsStop, WaitReadsClock, Wake, mergeVars
    <3>3. CASE TestStopAgain \/ Finish \/ Signal \/ TimePasses
      BY <3>3 DEF TestStopAgain, Finish, Signal, TimePasses, mergeVars
    <3>4. CASE UNCHANGED vars
      BY <3>4 DEF vars, mergeVars
    <3> QED
      BY <1>3, <3>1, <3>2, <3>3, <3>4 DEF Next, MainStep
  <2> QED
    BY <1>1, <2>1 DEF InHandInv
<1> QED
  BY <1>2, <1>3

LEMMA NextOutputInv == OutputInv /\ [Next]_vars => OutputInv'
<1> SUFFICES ASSUME OutputInv, [Next]_vars PROVE OutputInv'
  OBVIOUS
<1>1. SinkInv' /\ SinkInv /\ TypeOK /\ InHandInv /\ ShownInv /\ RingsInv
  BY NextSinkInv DEF OutputInv, SinkInv
<1>2. CASE Write
  BY <1>1, <1>2, WriteInHand, WriteShown, WriteRings DEF OutputInv
<1>3. CASE ~Write
  <2>1. UNCHANGED <<played, segdepth, best, shown, ring>>
    BY <1>3 DEF Next, MainStep, vars, TestStop, NextDrops, NextReturns, NextIsNone, EnterPace,
       WaitTestsStop, WaitReadsClock, Wake, TestStopAgain, Finish, Signal, TimePasses, outputVars
  <2>2. file' = file
    BY MergerSteps DEF Merger!Next, Merger!Retire, Merger!DropEarly, Merger!Emit, mergeVars
  <2>3. /\ \A v : PlayedBy(v)' = PlayedBy(v)
        /\ \A k : RowOf(played[k])' = RowOf(played[k]) /\ Pair(played[k])' = Pair(played[k])
    BY <2>1, <2>2 DEF PlayedBy, RowOf, Row, Pair
  <2>4. \A v, k : Rank(v, k)' = Rank(v, k)
    BY <2>3 DEF Rank
  <2>5. ShownInv'
    BY <1>1, <2>1, <2>3 DEF ShownInv
  <2>6. RingsInv'
    BY <1>1, <2>1, <2>3, <2>4 DEF RingsInv
  <2> QED
    BY <1>1, <1>3, <2>5, <2>6, NextInHand DEF OutputInv
<1> QED
  BY <1>2, <1>3

\* For any input, any kept segments, any windows and any signal: the segments
\* hold what was played and nothing else, and at most one record returned by the
\* merger was not played.
THEOREM SegmentsHoldThePlayed == Spec => []OutputsHoldThePlayed
<1>1. OutputInv => OutputsHoldThePlayed
  BY OutputInvSuffices
<1> QED
  BY <1>1, InitOutputInv, NextOutputInv, PTL DEF Spec
-----------------------------------------------------------------------------
(* Completeness *)

\* The merger's own invariants, and what the loop knows of it when it ends.
MergerInv == Proved!MergeInv /\ Proved!OnceInv

EndInv == pc \in {"finish", "done"} /\ ~stop => heap = {} /\ Len(out) = Len(played)

TotalsInv ==
    book = Cardinality(PlayedOf("book")) /\ trade = Cardinality(PlayedOf("trade"))

CompleteInv == OutputInv /\ MergerInv /\ EndInv /\ TotalsInv

LEMMA InitMergerInv == Init => MergerInv
<1>1. Merger!Init => Proved!Init
  BY DEF Merger!Init, Merger!NextGood, Merger!Rows, Merger!HeadItem, Merger!RowTs,
         Proved!Init, Proved!NextGood, Proved!Rows, Proved!HeadItem, Proved!RowTs
<1>2. Proved!Init => Proved!MergeInv /\ Proved!OnceInv
  BY Proved!InitMergeInv, Proved!InitOnce, SourcesAssumption, InputsAssumption, WindowsAssumption
<1> QED
  BY <1>1, <1>2 DEF Init, MergerInv

LEMMA NextMergerInv == ASSUME MergerInv, [Next]_vars PROVE MergerInv'
<1>1. [Proved!Next]_(Proved!mergeVars)
  BY MergerSteps
     DEF mergeVars, Merger!Next, Merger!Retire, Merger!DropEarly, Merger!Emit, Merger!Advance,
         Merger!IsTop, Merger!Before, Merger!PastEnd, Merger!BeforeStart, Merger!NextGood,
         Merger!Rows, Merger!HeadItem, Merger!RowTs,
         Proved!mergeVars, Proved!Next, Proved!Retire, Proved!DropEarly, Proved!Emit, Proved!Advance,
         Proved!IsTop, Proved!Before, Proved!PastEnd, Proved!BeforeStart, Proved!NextGood,
         Proved!Rows, Proved!HeadItem, Proved!RowTs
<1>2. Proved!MergeInv /\ Proved!OnceInv /\ Proved!TypeOK
  BY DEF MergerInv, Proved!MergeInv
<1>3. Proved!MergeInv'
  BY <1>1, <1>2, Proved!NextMergeInv, SourcesAssumption, InputsAssumption, WindowsAssumption
<1>4. Proved!OnceInv'
  BY <1>1, <1>2, Proved!NextOnce, SourcesAssumption, InputsAssumption, WindowsAssumption
<1> QED
  BY <1>3, <1>4 DEF MergerInv

LEMMA NextEnd == ASSUME InHandInv, EndInv, [Next]_vars PROVE EndInv'
<1>1. CASE NextIsNone
  BY <1>1 DEF NextIsNone, mergeVars, outputVars, InHandInv, EndInv
<1>2. CASE TestStop \/ TestStopAgain
  BY <1>2 DEF TestStop, TestStopAgain, StopSeen, EndInv
<1>3. CASE NextDrops \/ NextReturns \/ EnterPace \/ WaitTestsStop \/ WaitReadsClock \/ Wake \/ Write
  BY <1>3 DEF NextDrops, NextReturns, EnterPace, WaitTestsStop, WaitReadsClock, Wake, Write, EndInv
<1>4. CASE Finish \/ Signal \/ TimePasses \/ UNCHANGED vars
  BY <1>4 DEF Finish, Signal, TimePasses, vars, mergeVars, outputVars, EndInv
<1> QED
  BY <1>1, <1>2, <1>3, <1>4 DEF Next, MainStep

LEMMA WriteTotals == ASSUME TypeOK, TotalsInv, Write PROVE TotalsInv'
<1>1. PICK u, n : u = RouteOf(Current.src) /\ n = Len(played) + 1
  OBVIOUS
<1>2. u \in Units /\ \A v : PlayedBy(v)' = PlayedBy(v) \cup {k \in {n} : v = u}
  BY <1>1, WriteAdds
<1>3. DOMAIN played = 1 .. Len(played) /\ Len(played) \in Nat /\ n \notin DOMAIN played
  BY <1>1, PlayedFacts
<1>4. \A kind : IsFiniteSet(PlayedOf(kind)) /\ n \notin PlayedOf(kind)
  <2>1. IsFiniteSet(1 .. Len(played))
    BY <1>3, FS_Interval
  <2>2. \A kind : PlayedOf(kind) \in SUBSET (1 .. Len(played))
    BY <1>3 DEF PlayedOf
  <2> QED
    BY <1>3, <2>1, <2>2, FS_Subset
<1>5. \A kind : PlayedOf(kind)' = PlayedOf(kind) \cup {k \in {n} : KindOf[u] = kind}
  <2> DEFINE rec == [src |-> Current.src, row |-> Current.row, at |-> wall]
             Record == [src : Sources, row : Nat, at : Nat]
  <2>1. played' = Append(played, rec) /\ rec \in Record /\ played \in Seq(Record)
    BY WriteTypes DEF TypeOK
  <2>2. /\ DOMAIN played' = DOMAIN played \cup {n}
        /\ \A k \in DOMAIN played : played'[k] = played[k]
        /\ played'[n] = rec
    <3> HIDE DEF rec, Record
    <3>1. Len(played') = n /\ DOMAIN played' = 1 .. n /\ played'[n] = rec
          /\ \A k \in 1 .. Len(played) : played'[k] = played[k]
      BY <1>1, <2>1, AppendProperties, LenProperties
    <3>2. 1 .. n = 1 .. Len(played) \cup {n}
      BY <1>1, <1>3
    <3> QED
      BY <1>3, <3>1, <3>2
  <2>3. KindOf[UnitOf[rec.src]] = KindOf[u]
    BY <1>1 DEF RouteOf
  <2> HIDE DEF rec
  <2> QED
    BY <1>3, <2>2, <2>3 DEF PlayedOf
<1>6. Cardinality(PlayedOf("book")) = book /\ Cardinality(PlayedOf("trade")) = trade
  BY DEF TotalsInv
<1>7. CASE KindOf[u] = "book"
  <2>1. book' = book + 1 /\ trade' = trade
    BY <1>1, <1>7 DEF Write, WriteBook
  <2>2. PlayedOf("book")' = PlayedOf("book") \cup {n} /\ PlayedOf("trade")' = PlayedOf("trade")
    BY <1>5, <1>7
  <2>3. Cardinality(PlayedOf("book")') = book + 1
    BY <1>4, <1>6, <2>2, FS_AddElement
  <2> QED
    BY <1>6, <2>1, <2>2, <2>3 DEF TotalsInv
<1>8. CASE KindOf[u] = "trade"
  <2>1. book' = book /\ trade' = trade + 1
    BY <1>1, <1>8 DEF Write, WriteTrade
  <2>2. PlayedOf("trade")' = PlayedOf("trade") \cup {n} /\ PlayedOf("book")' = PlayedOf("book")
    BY <1>5, <1>8
  <2>3. Cardinality(PlayedOf("trade")') = trade + 1
    BY <1>4, <1>6, <2>2, FS_AddElement
  <2> QED
    BY <1>6, <2>1, <2>2, <2>3 DEF TotalsInv
<1> QED
  BY <1>2, <1>7, <1>8, KindsAssumption DEF Units

LEMMA NextCompleteInv == CompleteInv /\ [Next]_vars => CompleteInv'
<1> SUFFICES ASSUME CompleteInv, [Next]_vars PROVE CompleteInv'
  OBVIOUS
<1>1. OutputInv' /\ MergerInv' /\ EndInv'
  BY NextOutputInv, NextMergerInv, NextEnd DEF CompleteInv, OutputInv
<1>2. TotalsInv'
  <2>1. CASE Write
    BY <2>1, WriteTotals DEF CompleteInv, OutputInv, SinkInv
  <2>2. CASE ~Write
    <3>1. UNCHANGED <<played, book, trade>>
      BY <2>2 DEF Next, MainStep, vars, TestStop, NextDrops, NextReturns, NextIsNone, EnterPace,
         WaitTestsStop, WaitReadsClock, Wake, TestStopAgain, Finish, Signal, TimePasses, outputVars
    <3> QED
      BY <3>1 DEF CompleteInv, TotalsInv, PlayedOf
  <2> QED
    BY <2>1, <2>2
<1> QED
  BY <1>1, <1>2 DEF CompleteInv

LEMMA InitCompleteInv == Init => CompleteInv
<1> SUFFICES ASSUME Init PROVE EndInv /\ TotalsInv
  BY InitOutputInv, InitMergerInv DEF CompleteInv
<1>1. DOMAIN played = {} /\ book = 0 /\ trade = 0 /\ pc = "loop"
  BY DEF Init
<1>2. \A kind : PlayedOf(kind) = {}
  BY <1>1 DEF PlayedOf
<1> QED
  BY <1>1, <1>2, FS_EmptySet DEF EndInv, TotalsInv

LEMMA CompleteInvSuffices == ASSUME CompleteInv PROVE CompleteWhenDone
<1> SUFFICES ASSUME pc = "done", ~stop, Merger!SortedInput,
                    NEW s \in Sources, NEW i \in Merger!Rows(s)
             PROVE  Cardinality({k \in DOMAIN played : played[k].src = s /\ played[k].row = i})
                        = IF Merger!Due(s, i) THEN 1 ELSE 0
  BY DEF CompleteInv, TotalsInv, CompleteWhenDone
<1> DEFINE S == {k \in DOMAIN played : played[k].src = s /\ played[k].row = i}
<1>1. TypeOK /\ InHandInv /\ MergerInv /\ heap = {} /\ Len(out) = Len(played)
  BY DEF CompleteInv, OutputInv, SinkInv, EndInv
<1>2. /\ DOMAIN played = 1 .. Len(played) /\ Len(played) \in Nat /\ DOMAIN out = DOMAIN played
  <2>1. DOMAIN out = 1 .. Len(out)
    BY <1>1, LenProperties DEF TypeOK, Merger!TypeOK
  <2> QED
    BY <1>1, <2>1, PlayedFacts
<1>3. \A k \in DOMAIN played : played[k].src = out[k].src /\ played[k].row = out[k].row
  BY <1>1 DEF InHandInv
<1>4. Proved!SortedInput /\ i \in Proved!Rows(s) /\ (Proved!Due(s, i) <=> Merger!Due(s, i))
  BY DEF Merger!SortedInput, Merger!Rows, Merger!RowTs, Merger!Due,
         Proved!SortedInput, Proved!Rows, Proved!RowTs, Proved!Due
<1>5. Proved!AllDueReturned /\ Proved!NothingOvertaken
  <2>1. Proved!MergeInv
    BY <1>1 DEF MergerInv
  <2> QED
    BY <1>4, <2>1, Proved!NothingDueIsLeft, SourcesAssumption, InputsAssumption, WindowsAssumption
       DEF Proved!MergeInv, Proved!OrderInv
<1>6. \A j, k \in DOMAIN out : j < k => out[j].src # out[k].src \/ out[j].row # out[k].row
  BY <1>1 DEF MergerInv, Proved!OnceInv
<1>7. IsFiniteSet(S)
  <2>1. IsFiniteSet(1 .. Len(played)) /\ S \in SUBSET (1 .. Len(played))
    BY <1>2, FS_Interval
  <2> HIDE DEF S
  <2> QED
    BY <2>1, FS_Subset
<1>8. CASE Merger!Due(s, i)
  <2>1. PICK k \in DOMAIN out : out[k].src = s /\ out[k].row = i
    BY <1>1, <1>4, <1>5, <1>8 DEF Proved!AllDueReturned, Proved!Emitted
  <2>2. k \in S
    BY <1>2, <1>3, <2>1
  <2>3. ASSUME NEW j \in S PROVE j = k
    <3>1. j \in DOMAIN out /\ out[j].src = s /\ out[j].row = i
      BY <1>2, <1>3
    <3>2. ~(j < k) /\ ~(k < j)
      BY <1>6, <2>1, <3>1
    <3>3. j \in Int /\ k \in Int
      BY <1>2, <2>1, <3>1
    <3> QED
      BY <3>2, <3>3
  <2>4. S = {k}
    <3> HIDE DEF S
    <3> QED
      BY <2>2, <2>3
  <2> HIDE DEF S
  <2>5. Cardinality(S) = 1
    BY <2>4, FS_Singleton
  <2> QED
    BY <1>8, <2>5 DEF S
<1>9. CASE ~Merger!Due(s, i)
  <2>1. \A k \in DOMAIN out : ~(out[k].src = s /\ out[k].row = i)
    BY <1>4, <1>5, <1>9 DEF Proved!NothingOvertaken
  <2>2. S = {}
    BY <1>2, <1>3, <2>1
  <2> HIDE DEF S
  <2>3. Cardinality(S) = 0
    BY <2>2, FS_EmptySet
  <2> QED
    BY <1>9, <2>3 DEF S
<1> QED
  BY <1>8, <1>9

\* For any files in order, any windows and any speed: a replay nobody stopped has
\* played every row inside the windows exactly once, and counted them right.
THEOREM ReplayIsComplete == Spec => []CompleteWhenDone
<1>1. CompleteInv => CompleteWhenDone
  BY CompleteInvSuffices
<1> QED
  BY <1>1, InitCompleteInv, NextCompleteInv, PTL DEF Spec
=============================================================================
