------------------------------- MODULE Replay -------------------------------
(***************************************************************************)
(* A replay from the opened segments to the exit: main's replay loop with  *)
(* the Merger, the Clock, the stop flag that SIGINT and SIGTERM set, the   *)
(* sinks of the units and the Reporter's counts.                           *)
(*                                                                         *)
(* The process has one thread; a signal handler interrupts it between any  *)
(* two actions and wall time passes at any point.  Rows are those of       *)
(* module Merge with the fields a sink looks at: [ok, ts, lid, uid,        *)
(* depth].  What a sink does to its segment is one action here; how        *)
(* consumers see it is the matter of Board and TradeRing.  A wall clock    *)
(* unit stands for any length of time.                                     *)
(***************************************************************************)
EXTENDS Integers, Sequences, FiniteSets

CONSTANTS Sources, UnitOf, Inputs, Windows,   \* as in Merge
          KindOf,      \* KindOf[u]: "book" or "trade"
          Lids,        \* symbols
          KeptUids,    \* what best_uid of an attached segment may hold
          InitTs,      \* the init_ts values tried, FromFirst for none
          Realtimes,   \* the values of realtime tried, as [num, den]
          KTick,       \* the longest single sleep of the clock
          MaxWall      \* bound: wall time by which delays outside sleeps are over

FromFirst == -1

ASSUME RealtimeAssumption ==
    \A x \in Realtimes : x.num \in Nat /\ x.den \in Nat \ {0} /\ x.num <= x.den
ASSUME TimeAssumption == KTick \in Nat \ {0} /\ MaxWall \in Nat /\ InitTs \subseteq Int
ASSUME SourcesAssumption == Sources \subseteq Nat
ASSUME InputsAssumption ==
    \A input \in Inputs :
        /\ DOMAIN input = Sources
        /\ \A s \in Sources :
               /\ Len(input[s]) \in Nat /\ DOMAIN input[s] = 1 .. Len(input[s])
               /\ \A i \in DOMAIN input[s] :
                      /\ input[s][i].ok \in BOOLEAN /\ input[s][i].ts \in Int
                      /\ input[s][i].lid \in Lids /\ input[s][i].uid \in Nat
ASSUME WindowsAssumption ==
    \A bounds \in Windows : \A s \in Sources :
        bounds[UnitOf[s]].start \in Int /\ bounds[UnitOf[s]].end \in Int
ASSUME KeptAssumption == KeptUids \subseteq Nat
ASSUME KindsAssumption == \A s \in Sources : KindOf[UnitOf[s]] \in {"book", "trade"}

VARIABLES
    file, window, pos, heap, out,    \* the Merger, as in Merge
    pc,           \* where main is
    stop,         \* g_stop_requested
    wall,         \* steady_clock
    realtime,     \* Clock::realtime_; never changes
    started,      \* Clock::started_
    have_ts0,     \* Clock::have_ts0_
    ts0,          \* Clock::ts0_
    wall0,        \* Clock::wall0_
    wake,         \* when the sleep in progress ends
    segdepth,     \* segdepth[u]: 1 for a BookTickBoard, more for a DepthBoard
    best,         \* best[u][l]: best_uid of a book unit's segment
    shown,        \* shown[u][l]: [uid, levels] in the slot of a book unit
    ring,         \* ring[u]: what a trade unit has published, as [src, row]
    deduped,      \* deduped[u]: the book sink's deduped_
    book, trade,  \* Reporter::book_ and trade_
    kept,         \* history: best when the replay began
    played,       \* history: records handed to a sink, as [src, row, at]
    late          \* history: naps and writes begun after stop was set

mergeVars  == <<file, window, pos, heap, out>>
clockVars  == <<realtime, started, have_ts0, ts0, wall0, wake>>
outputVars == <<segdepth, best, shown, ring, deduped, book, trade, kept, played>>
vars == <<mergeVars, pc, stop, wall, clockVars, outputVars, late>>

Merger == INSTANCE Merge

Units == {UnitOf[s] : s \in Sources}
Row(s, i) == file[s][i]
Current == out[Len(out)]
CurrentRow == Row(Current.src, Current.row)
CurrentUnit == UnitOf[Current.src]

-----------------------------------------------------------------------------
(* The decisions of the code, each preceded by the forms that a bug would    *)
(* give it.                                                                  *)

\* The test between pacing and writing.
StopSeen == stop

StopUnseen == FALSE
\* The test in the wait loop of the clock.
WaitStops == stop

\* Clock::offset_ns, once ts0 is set.
OffsetNs(ts) == IF ts > ts0 THEN ((ts - ts0) * realtime.num) \div realtime.den ELSE 0

Target(ts) == wall0 + OffsetNs(ts)

WholeTick(remain) == KTick
\* remain < kTick ? remain : kTick
Nap(remain) == IF remain < KTick THEN remain ELSE KTick

FirstUnit(s) == UnitOf[0]
\* tagged->unit, which picks the output.
RouteOf(s) == UnitOf[s]

NotOlder(u, row) == row.uid >= best[u][row.lid]
\* claim_if_newer of the one writer of the segment.
Newer(u, row) == row.uid > best[u][row.lid]

-----------------------------------------------------------------------------
(* detect_depth: the depth of the first record of each source of a unit that *)
(* has one.  A unit whose sources differ there is refused at start-up.       *)

FirstDepths(u) ==
    {Row(s, pos[s]).depth : s \in {s \in Sources : UnitOf[s] = u /\ pos[s] \in 1 .. Len(file[s])}}

DetectedDepth(u) ==
    IF FirstDepths(u) = {} THEN 1 ELSE CHOOSE d \in FirstDepths(u) : TRUE

Init ==
    /\ Merger!Init
    /\ \A u \in Units : KindOf[u] = "book" => Cardinality(FirstDepths(u)) <= 1
    /\ pc = "loop"
    /\ stop \in BOOLEAN
    /\ wall = 0
    /\ realtime \in Realtimes
    /\ started = FALSE
    /\ ts0 \in InitTs
    /\ have_ts0 = (ts0 # FromFirst)
    /\ wall0 = 0
    /\ wake = 0
    /\ segdepth = [u \in Units |-> DetectedDepth(u)]
    /\ best \in [Units -> [Lids -> KeptUids]]
    /\ \A u \in Units : KindOf[u] = "trade" => best[u] = [l \in Lids |-> 0]
    /\ shown = [u \in Units |-> [l \in Lids |-> [uid |-> best[u][l], levels |-> segdepth[u]]]]
    /\ ring = [u \in Units |-> <<>>]
    /\ deduped = [u \in Units |-> 0]
    /\ book = 0
    /\ trade = 0
    /\ kept = best
    /\ played = <<>>
    /\ late = [naps |-> 0, writes |-> 0]

-----------------------------------------------------------------------------
(* The environment *)

\* request_stop, at any instant; a second signal changes nothing.
Signal ==
    /\ pc # "done" /\ ~stop
    /\ stop' = TRUE
    /\ UNCHANGED <<mergeVars, pc, wall, clockVars, outputVars, late>>

\* Time passes in a sleep and, up to MaxWall, at any other point.
TimePasses ==
    /\ pc # "done"
    /\ wall < MaxWall \/ (pc = "sleep" /\ wall < wake)
    /\ wall' = wall + 1
    /\ UNCHANGED <<mergeVars, pc, stop, clockVars, outputVars, late>>

-----------------------------------------------------------------------------
(* The replay loop *)

SkipsTheMerger ==
    /\ pc = "loop"
    /\ pc' = IF stop THEN "finish" ELSE "pace"
    /\ UNCHANGED <<mergeVars, stop, wall, clockVars, outputVars, late>>

\* while (!stop_requested())
TestStop ==
    /\ pc = "loop"
    /\ pc' = IF stop THEN "finish" ELSE "next"
    /\ UNCHANGED <<mergeVars, stop, wall, clockVars, outputVars, late>>

\* merger.next() drops a record and goes on; the loop there ignores stop.
NextDrops ==
    /\ pc = "next"
    /\ \E x \in heap : Merger!Retire(x) \/ Merger!DropEarly(x)
    /\ UNCHANGED <<pc, stop, wall, clockVars, outputVars, late>>

NextReturns ==
    /\ pc = "next"
    /\ \E x \in heap : Merger!Emit(x)
    /\ pc' = "pace"
    /\ UNCHANGED <<stop, wall, clockVars, outputVars, late>>

ContinuesAtEnd ==
    /\ pc = "next" /\ heap = {}
    /\ pc' = "loop"
    /\ UNCHANGED <<mergeVars, stop, wall, clockVars, outputVars, late>>

\* nullopt: break.
NextIsNone ==
    /\ pc = "next" /\ heap = {}
    /\ pc' = "finish"
    /\ UNCHANGED <<mergeVars, stop, wall, clockVars, outputVars, late>>

\* pace_to before its wait: the first record fixes the two origins.
EnterPace ==
    /\ pc = "pace"
    /\ \/ /\ realtime.num = 0
          /\ pc' = "check"
          /\ UNCHANGED clockVars
       \/ /\ realtime.num > 0 /\ started
          /\ pc' = "wait"
          /\ UNCHANGED clockVars
       \/ /\ realtime.num > 0 /\ ~started
          /\ pc' = "wait"
          /\ started' = TRUE
          /\ wall0' = wall
          /\ have_ts0' = TRUE
          /\ ts0' = IF have_ts0 THEN ts0 ELSE CurrentRow.ts
          /\ UNCHANGED <<realtime, wake>>
    /\ UNCHANGED <<mergeVars, stop, wall, outputVars, late>>

\* sleep_until_or_stop: while (!stop.load())
WaitTestsStop ==
    /\ pc = "wait"
    /\ pc' = IF WaitStops THEN "check" ELSE "clock"
    /\ UNCHANGED <<mergeVars, stop, wall, clockVars, outputVars, late>>

\* now >= target ends the wait, otherwise sleep at most kTick.
WaitReadsClock ==
    /\ pc = "clock"
    /\ \/ /\ wall >= Target(CurrentRow.ts)
          /\ pc' = "check"
          /\ UNCHANGED <<wake, late>>
       \/ /\ wall < Target(CurrentRow.ts)
          /\ pc' = "sleep"
          /\ wake' = wall + Nap(Target(CurrentRow.ts) - wall)
          /\ late' = [late EXCEPT !.naps = IF stop THEN @ + 1 ELSE @]
    /\ UNCHANGED <<mergeVars, stop, wall, realtime, started, have_ts0, ts0, wall0, outputVars>>

Wake ==
    /\ pc = "sleep" /\ wall >= wake
    /\ pc' = "wait"
    /\ UNCHANGED <<mergeVars, stop, wall, clockVars, outputVars, late>>

\* if (stop_requested()) break; the record in hand is not played.
TestStopAgain ==
    /\ pc = "check"
    /\ pc' = IF StopSeen THEN "finish" ELSE "write"
    /\ UNCHANGED <<mergeVars, stop, wall, clockVars, outputVars, late>>

\* BookSink::write stores level 0 only, DepthSink::write all of the record.
WriteBook(u, row) ==
    /\ IF Newer(u, row)
       THEN /\ best' = [best EXCEPT ![u][row.lid] = row.uid]
            /\ shown' = [shown EXCEPT ![u][row.lid] =
                   [uid |-> row.uid, levels |-> IF segdepth[u] = 1 THEN 1 ELSE row.depth]]
            /\ UNCHANGED deduped
       ELSE /\ deduped' = [deduped EXCEPT ![u] = @ + 1]
            /\ UNCHANGED <<best, shown>>
    /\ book' = book + 1
    /\ UNCHANGED <<ring, trade>>

\* TradeSink::write
WriteTrade(u) ==
    /\ ring' = [ring EXCEPT ![u] = Append(@, [src |-> Current.src, row |-> Current.row])]
    /\ trade' = trade + 1
    /\ UNCHANGED <<best, shown, deduped, book>>

\* opens[unit].sink->write(rec) and reporter.on_event(rec)
Write ==
    /\ pc = "write"
    /\ LET u == RouteOf(Current.src)
       IN  IF KindOf[u] = "book" THEN WriteBook(u, CurrentRow) ELSE WriteTrade(u)
    /\ played' = Append(played, [src |-> Current.src, row |-> Current.row, at |-> wall])
    /\ late' = [late EXCEPT !.writes = IF stop THEN @ + 1 ELSE @]
    /\ pc' = "loop"
    /\ UNCHANGED <<mergeVars, stop, wall, clockVars, segdepth, kept>>

\* reporter.finish, on_finish of every sink, the summaries, return 0.
Finish ==
    /\ pc = "finish"
    /\ pc' = "done"
    /\ UNCHANGED <<mergeVars, stop, wall, clockVars, outputVars, late>>

MainStep ==
    \/ TestStop \/ NextDrops \/ NextReturns \/ NextIsNone
    \/ EnterPace \/ WaitTestsStop \/ WaitReadsClock \/ Wake
    \/ TestStopAgain \/ Write \/ Finish

Next == MainStep \/ Signal \/ TimePasses

Spec == Init /\ [][Next]_vars

\* The process is scheduled and time goes on; a signal need not come.
FairSpec == Spec /\ WF_vars(MainStep) /\ WF_vars(TimePasses)

-----------------------------------------------------------------------------
(* Properties *)

\* Every variable has its type.
TypeOK ==
    /\ Merger!TypeOK
    /\ pc \in {"loop", "next", "pace", "wait", "clock", "sleep", "check", "write",
               "finish", "done"}
    /\ realtime \in Realtimes
    /\ stop \in BOOLEAN /\ started \in BOOLEAN /\ have_ts0 \in BOOLEAN
    /\ wall \in Nat /\ wall0 \in 0 .. wall
    /\ ts0 \in Int /\ wake \in Nat
    /\ best \in [Units -> [Lids -> Nat]] /\ kept \in [Units -> [Lids -> Nat]]
    /\ deduped \in [Units -> Nat] /\ book \in Nat /\ trade \in Nat
    /\ played \in Seq([src : Sources, row : Nat, at : Nat])
    /\ \A k \in DOMAIN played : played[k].row \in Merger!Rows(played[k].src)
    /\ late \in [naps : Nat, writes : Nat]
    /\ pc \in {"pace", "wait", "clock", "sleep", "check", "write"} => out # <<>>

RowOf(p) == Row(p.src, p.row)
PlayedBy(u) == {k \in DOMAIN played : UnitOf[played[k].src] = u}
PlayedOf(kind) == {k \in DOMAIN played : KindOf[UnitOf[played[k].src]] = kind}
PlayedFor(u, l) == {k \in PlayedBy(u) : RowOf(played[k]).lid = l}
\* The place of record k among those played of its unit.
Rank(u, k) == Cardinality({j \in PlayedBy(u) : j <= k})
Newest(S) == CHOOSE n \in S : \A m \in S : m <= n

\* Stopped or not, what is played is what the merger returned, in its order,
\* but for at most the one record in hand; and each unit's output holds what
\* was played of that unit and nothing else: a trade ring all of it in order, a
\* board per symbol the newest update_id, with all levels if the depths agree.
OutputsHoldThePlayed ==
    /\ Len(out) - Len(played) \in {0, 1}
    /\ \A k \in DOMAIN played : played[k].src = out[k].src /\ played[k].row = out[k].row
    /\ \A u \in Units :
         IF KindOf[u] = "trade"
         THEN /\ Len(ring[u]) = Cardinality(PlayedBy(u))
              /\ \A k \in PlayedBy(u) :
                     ring[u][Rank(u, k)] = [src |-> played[k].src, row |-> played[k].row]
         ELSE /\ ring[u] = <<>>
              /\ \A l \in Lids :
                   shown[u][l].uid =
                       Newest({kept[u][l]} \cup {RowOf(played[k]).uid : k \in PlayedFor(u, l)})
              /\ (\A k \in PlayedBy(u) : RowOf(played[k]).depth = segdepth[u]) =>
                     \A l \in Lids : shown[u][l].levels = segdepth[u]

\* deduped_ of a board's sink, which the final warning reports, is the number of
\* its records whose update_id was no newer than one already in the segment.
DedupedIsExact ==
    \A u \in Units : KindOf[u] = "book" =>
        deduped[u] = Cardinality({k \in PlayedBy(u) :
            LET uid == RowOf(played[k]).uid
                l == RowOf(played[k]).lid
            IN  \/ uid <= kept[u][l]
                \/ \E j \in PlayedFor(u, l) : j < k /\ uid <= RowOf(played[j]).uid})

\* A replay that ends without a signal has played every row inside its unit's
\* window exactly once and no other row, and the Reporter's totals say so.
CompleteWhenDone ==
    pc = "done" /\ ~stop /\ Merger!SortedInput =>
        /\ \A s \in Sources : \A i \in Merger!Rows(s) :
               Cardinality({k \in DOMAIN played : played[k].src = s /\ played[k].row = i})
                   = IF Merger!Due(s, i) THEN 1 ELSE 0
        /\ book = Cardinality(PlayedOf("book")) /\ trade = Cardinality(PlayedOf("trade"))

\* clock.hpp:2-4: with realtime > 0 no record reaches a segment before its instant
\* on the absolute schedule, whatever signals and delays came before it, and a
\* late record does not push the later ones back: no sleep ever reaches beyond
\* the scheduled instant of the record in hand, or beyond kTick.
KeepsTheSchedule ==
    /\ realtime.num > 0 => \A k \in DOMAIN played : played[k].at >= Target(RowOf(played[k]).ts)
    /\ pc = "sleep" => wake <= Target(CurrentRow.ts) /\ wake <= wall + KTick

\* clock.hpp:35-36 and main.cpp:238: after a signal the process begins at most
\* one more sleep, and at most one more record reaches a segment (the one that
\* had passed the second test when the signal came).
StopIsPrompt == late.naps <= 1 /\ late.writes <= 1

\* Every replay ends, with or without a signal.
Terminates == <>(pc = "done")
=============================================================================
