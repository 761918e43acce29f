# A verification project for mdreplay

mdreplay reads market data files (book updates and trades, CSV or JSON lines), merges
them into one stream ordered by timestamp, paces that stream against the wall clock and
writes it into shared-memory segments that other processes poll. The program has one
thread and no locks; what is hard about it is everything it shares: memory with readers
it does not know, segments that outlive it, signals, time, and files it does not control.

This directory holds TLA+ modules for that behaviour, TLC configurations that check them
on small instances, and proofs of their safety properties for every instance, from the
decoding of a row to the last word of a segment. `PROJECT.json` lists the runs, which source lines each
definition stands for, the mutants that show each property can fail, the theorems, and the
hazards with the properties that cover them.

    tlc -workers 2 -config MCBoard_single.cfg MCBoard.tla     # any run
    tlapm BoardProofs.tla                                     # the proofs of a module

Paths below are relative to the repository; `v2/` is `gconf/include/gconf/shm/v2/`.

## 1. The system

| component | state | operations | interacts with |
|---|---|---|---|
| Book segments (`v2/booktick_board.h`, `v2/seqlock.h`, `src/output/depth_board.h`) | per symbol `best_uid`, `seq`, payload | `claim_if_newer`, `slot.write`, `slot.read` | written by the sinks, read by other processes |
| Trade ring (`v2/event.h`, `v2/trade.h`) | `head`, per cell `seq` and payload; the consumer's `tail` outside | `publish`, `drain` | the same |
| Segment life cycle (`src/output/shm.hpp`, `v2/seg_header.h`) | the object, its size, its header | `ShmSegment::open` (create or attach), `seg_init`, `seg_check` | other replays and consumers of the same name |
| Sinks (`src/output/shm.hpp`) | `deduped_`, `published_` | `write`, `on_finish` | called by the replay loop |
| Sources (`src/input/csv.hpp`, `json.hpp`, `record_build.hpp`) | file position, one buffered record, `SkipStats` | `peek`, `advance` | pulled by the Merger |
| Merger (`src/core/merge.hpp`) | heap of source heads, window and unit of each source | `next` | called by the replay loop |
| Clock and stop flag (`src/core/clock.hpp`, `signal.hpp`) | origins `ts0`, `wall0`; `g_stop_requested` | `pace_to`, the signal handler | replay loop, operating system |
| Start-up (`src/main.cpp`, `src/core/config.hpp`, `src/input/discover.hpp`) | configuration, global source list, `src_unit`, `unit_window`, `opens` | validate, choose format, load, agree on depth, open | hands its lists to `replay()` |
| Record builders, fixed point (`record_build.hpp`, `src/core/fixed.hpp`) | none kept | `make_book_record`, `make_trade_record`, `encode_group` | called per row |
| Symbols (`src/core/gid.hpp`, `symbol_idx.h`) | constant tables | `gid_of`, `lid_of` | called per row; readers use `to_gid` |
| Depth of a book file (`record_build.hpp`, `csv.hpp`) | none kept | `book_depth_of`, `resolve_csv_cols` | decides the segment type |
| Reporter, SkipStats (`report.hpp`, `skip.hpp`) | counters | `on_event`, `add` | log lines |

What makes them correct, and where it is hard:

* **Book segments.** A copy that `read` accepts is one record, whole; `best_uid` only
  rises; the newest record wins; readers converge. Hard: word-by-word interleaving,
  racing claims, writers killed between two stores, re-creation under readers.
* **Trade ring.** Whatever is delivered is what was published, once and in order; every
  trade is delivered or counted lost, and lost only if overwritten. Hard: lapping during a
  copy, out-of-order completion, killed producers, unsigned arithmetic.
* **Segments.** Nobody attaches to another shape or touches memory outside the object.
  Hard: truncate, resize and header are separate steps visible to others.
* **Merger.** A fully determined order; exactly the rows of each unit's closed window.
  Hard: ties, closed ends, retiring a source early.
* **Sources.** A record says what its row says, whichever the format; every other row is
  counted once, under one reason. Hard: quoting, types, ranges, the order of the tests.
* **Replay loop.** Each unit's segment holds what was played of that unit; never early,
  no drift, a prompt stop, and an end. Hard: signals and delays at any instant.
* **Start-up.** Lists that are indexed by unit agree; only usable units empty a segment.
* **Fixed point and depth.** Exact values at the greatest common scale that fits; files
  accepted with exactly their depth. Hard: limits, wrap-around, partly written groups.

## 2. Modules

Every module states its abstractions in its header comment. Definitions keep the names
of the source where there is one; each decision of the code that could plausibly be wrong
is a definition of its own (`Newer`, `Verified`, `OldestKept`, `PastEnd`, ...), preceded by
wrong forms of it that the mutants use and no specification does.

**LatestBoard** - the promise of a book segment: a register per symbol; `Publish`
replaces the record by a newer one, `Read` returns the whole current one.

**Board** - the code of that promise. One action per access to an atomic or to one
payload word: `Offer` (load of `prev`), `ClaimCas`/`ClaimRetry`/`ClaimLose`, `LoadSeq`,
`Mark`, `Store`, `End`; `Snapshot`, `Copy`, `Verify` for readers; `Die`, `Attach`,
`Recreate` for processes. The fences of `seqlock.h` order payload accesses against `seq`
only, so words are stored and copied in any order. A word holds the `update_id` of its
record, which makes a torn copy visible. BookTickBoard and DepthBoard differ only in
the number of words, so one module stands for both. `ImplementsLatestBoard` maps
`latest` to the record of the last write that ended and `seen` to the accepted copies.

**TradeRing** - `publish` (`TakeSlot`, `BeginCell`, `StoreWord`, `EndCell`) and `drain`
(`StartDrain` with the jump of a lapped consumer, `SnapshotCell`, `CopyWord`, `Deliver`,
`Discard`, `StopDrain`); `Die`, `Attach`, `Recreate`. `NobodyLapped` is the assumption that no
publish lasts while others go round the ring (4096 cells); `MayStall` drops it.

**BroadcastLog** - the promise of a trade segment: one append-only log, producers that
reserve places and finish them in any order, and a cursor per consumer, which reads every
trade in order or is told how many it missed, and can miss only what is more than a lap
behind. `ImplementsBroadcastLog` maps `size` to `head`, `finished` to the slots whose `EndCell`
happened, `heard` and `missed` to what `drain` delivered and reported. Place 0 counts
as finished from the start: that is what a zeroed segment says of slot 0, and what the
violation below is about.

**Merge** - the Merger over sources whose `advance()` passes over bad rows; one action
per turn of the loop in `next`: `Retire`, `DropEarly`, `Emit`. Which rows are bad is a
Boolean here and the matter of Rows.

**Replay** - `INSTANCE Merge` plus the loop of `replay()`, the clock, the stop flag and
the sinks; `Signal` and `TimePasses` are the environment. What a sink writes is one step
here, as Board and TradeRing look inside it.

**Segment** - several processes opening one name, the object measured in pages; `shm_open`,
`ftruncate` and `mmap` are steps of their own that may fail and leave behind what was done
before, and a mapping that is touched beyond the end of the object faults.

**Startup** - `main` up to `replay()`, including every way out with an error.

**Fixed** - `decimals_of`, `mantissa_at` and `encode_group`, and exact arithmetic to compare
them with. A loop of the code is a recursive function over the places it goes through
(`Mantissas`, `Attempts`), which is what makes it possible to prove what it computes.

**Rows** - `EXTENDS Fixed`. Both sources, from the line to a record or a `SkipReason`: the
header and `resolve_csv_cols`, `book_depth_of`, `split_csv` with its quotes, the tests of
`build_from_fields` and `build_from_line` in their order, the lookup of the symbol (`gid_of`,
`lid_of`, `to_gid`), the two builders, and the SkipStats that all sources share. One table is
written as a CSV file by a writer of RFC 4180 and as a JSON file, and both are read: `Open`,
`EmptyLine`, `SkipRow`, `HoldRecord`, `Advance`, `EndOfFile` per source, in any order, as the
Merger calls them. The writer and `split_csv` are recursive functions over places as well
(`Escaped`, `Joined`, `Quoted`, `Fields`). `IsTable` says what a table may be: any number of
rows and columns, cells that are whole numbers, decimal texts or words over any alphabet.

**MC*** modules give the inputs and the symmetry sets. **BoardProofs**, **TradeRingProofs**,
**SegmentProofs**, **MergeProofs**, **ReplayProofs**, **StartupProofs** and **RowsProofs** hold
the theorems; **FiniteFacts** what they take in place of the library's induction theorems: a
set of naturals that is not empty has a least element, among sets with a finite member one
is minimal, and, from the first, induction over a set of numbers, up and down, and the
existence of functions defined by recursion along a rank (`Recursion`).

## 3. Runs

All runs that pass are exhaustive within their bounds.

| run | what it asks | bounds, and why they reach the case |
|---|---|---|
| MCBoard_single | whole copies, slot at rest, refinement of LatestBoard, readers converge | 1 writer (killed once), 1 reader, 2 symbols, 2 words, 3 records with ids 0..3: two writes of one slot fall within one copy |
| MCBoard_claims | one winner, newest wins, `best_uid` only rises | 2 writers, 3 offers each, ids 0..3: a stale `prev` can be stale twice |
| MCBoard_restart | a slot is never ahead of `best_uid` | 2 deaths at any step, each followed by an attach or a re-creation, 3 offers |
| MCTradeRing_lapped | delivered, lost, ordered, refinement of BroadcastLog, caught up | 2 producers that finish in any order, one killed and attached again; a ring of 2 and 5 trades: two and a half laps, so a jump during and between drains |
| MCTradeRing_restart | last lap at rest | 1 producer, 2 deaths, attach or create, more trades than cells |
| MCMerge_small | order, windows, completeness | every 3 files of up to 2 rows, timestamps 0..2, windows that start and end on them |
| MCReplay_signals | routing, dedup, completeness, pacing, stop, end | 2 book files, 1 trade file, ids that repeat and fall, attached segments; realtime 0 and 1/2, ticks of 2 that do not divide the gaps of 5, up to 2 units of delay outside the sleeps, a signal anywhere |
| MCSegment_restart | who gets in, what is behind it | a creator started twice, attachers of the same layout, of another schema and of a larger shape |
| MCStartup_pairs | routing, emptying | 2 entries, every kind and format, good, unloadable, empty and mixed files |
| MCRows_files | record = row, greatest scale, CSV = JSON, skips told, depth | depths 1 and 3 of 3, a 32-bit limit scaled to 42, 2^64 to 500, a sample of 2. Families of tables, each varying one thing: every set of levels up to the probe's end; every two prices around the limit; every two faulty rows, quoted or not, with CRLF or not; three rows of up to three unknown symbols; JSON lines of several depths |

The scaled constants (`U32Max`, `U64`, `U8`, `kMaxDepth`, `Supported`, `kMaxUnknownSamples`,
`Letters`, `Cap`, `KTick`) are parameters of the modules; no definition uses a property of the small
values. CHECK_DEADLOCK
is off where the program ends or the input does: a finished replay, an idle consumer
whose writers have nothing left.

`MCTradeRing_first` expects a violation: `v2/trade.h:42` says that a cell's sequence number
0 means never written, but slot 0 is marked done with that very number, so a consumer that
drains between `fetch_add` and `begin` of the first trade is handed a blank one
(`FirstIsPublished`; `findings` in PROJECT.json has the quotes). `DeliveredIsPublished` is
the same property from slot 1 on, and holds.

`MCRows_mixed` expects one too: the depth of a segment is decided from first records
(`detect_depth`, `src/main.cpp:181`), while `StreamingJsonSource` recognises the depth line by
line. A file that starts with a one-level line gets a BookTickBoard, and of its later,
deeper lines `BookSink::write` keeps level 0, where `src/main.cpp:176` and README:43 say that
nothing is ever cut (`NothingIsCut`).

### Where a property stops holding

Some properties hold under a condition that a constant of the run states. Changing it
shows what the code does not promise:

| change | what TLC then refutes |
|---|---|
| MCBoard_single with two writers | `NoTornRead`: two claim winners are in `slot.write` of one symbol at once; the claim decides who may write, not when |
| MCBoard_single with `Restarts = {"attach"}` | `SlotShowsTheClaimed` and `NoTornRead`: a writer killed between `begin` and `end` leaves `seq` odd, and the next one writes with the parity inverted; one killed before `begin` leaves `best_uid` ahead of the slot |
| MCBoard_single with `Restarts = {"create"}` | `ImplementsLatestBoard` and `NoTornRead`: `seq` starts again under a reader and may repeat the number it saw |
| MCRows_files with two entries of `kLocalToGid` exchanged | `RecordIsTheRow`: `lid_of` returns the GID, so a book goes into a slot that readers take for another symbol's |
| MCTradeRing_lapped with `MayStall = TRUE` | `DeliveredIsPublished`: a producer overtaken by a lap stores into a cell that belongs to a later slot |
| MCTradeRing_lapped with `Restarts = {"create"}` | `OnlyLappedIsLost`: a tail beyond the new head, an unsigned lag that wraps |

Further places where the models follow the code and its comments or documents say more;
no run is spent on them:

* An empty slot has `best_uid` 0, so a first record with `update_id` 0 counts as a repeat
  (`shm.hpp:119`).
* Attaching to a segment that is just being created may fault (empty object) or be refused
  for a header half stored, and `SchemaDrift` is accepted, where README:128 says that any
  mismatch refuses to start.
* `config.hpp:174` wants distinct segment names; `/a` and `a` are distinct texts and one
  object. Both range tests of realtime (`config.hpp:151`, `main.cpp:122`) let NaN pass.
* `mantissa_at` looks at no character behind the scale it is asked for; at a lowered scale a
  text such as `4.2x` passes, and all members of a group lose decimals, where README:111
  calls the encoding lossless.
* `book_depth_of` looks at `bid_px` columns up to level `2 * kMaxDepth + 2`; levels that only
  other columns have, or that lie beyond, are ignored.
* A JSON number out of range wraps round (`json.hpp:67`, `:83`): an `update_id` of -1 becomes 2^64 - 1 and
  shuts every later record of its symbol out; the same text in a CSV file is `BadField`.
  `RecordIsTheRow` names this as its exception.

## 4. Fairness

* Board: a call in progress goes on (weak fairness of `WriterStep`, `ReaderStep`); neither
  sinks nor `read` block. A consumer polls every slot again and again. While it reads one
  slot it cannot begin another, so `Snapshot` of a slot is enabled again and again but not
  all the time: strong fairness. It leaves out a consumer that looks at a slot only at
  the instants of a write, which ends with the input at the latest. Offers are not forced.
* TradeRing: the same, weak fairness only: an unready cell makes `drain` return and
  the consumer calls it again.
* Replay: the process is scheduled and time passes; a signal need not come. Nothing else is
  needed for `Terminates`: every loop of the code consumes a row or waits for time.

## 5. Proofs

The theorems hold for every value of the constants that satisfies the assumptions of the
modules - any numbers of processes, symbols, cells, words, files, rows, any windows and any
bounds - under the conditions named here. Every safety property that a passing run checks
is proved, and so are both refinements. Each proof shows that an inductive invariant holds at first and survives
every action, one step per action.

**BoardProofs** - `TypeCorrect` needs nothing. Three arguments about claims:

* `WinnersAreUnique`, `ClaimsNeverFall`: unless a segment is created anew (`NoRecreate`).
  `OneWinnerPerUpdate` is not inductive, as a later claim could repeat an older winner's
  id; `ClaimInv` adds that no winner is newer than `best_uid`.
* `NoClaimIsLost`: for writers that are not killed. `OfferInv` adds that as long as `best_uid`
  has not reached the newest offer, somebody still claims it.
* `SlotsStayBehind`: for one writer, whatever its deaths and restarts; `BehindInv`.

Three about the seqlock, for one writer that may die but does not come back (`SeqlockUse`;
section 3 shows that both are needed). `SeqlockInv` adds: an even slot holds the published
record in every word; where the writer stands determines the parity and the words already
stored; and - the heart of it - a reader in the middle of a copy saw an even number, `seq`
has not fallen below it, and *if* it still equals it then every word copied so far is of the
published record. `Verify` turns the condition into a fact.

* `ReadsAreWhole`; `SeqlockIsARegister`: `End` is `Publish`, `Verify` is `Read`, other steps stutter;
  `ClaimedIsShown`, with `ShownInv`: a live writer that is not in a write has published `best_uid`.

**TradeRingProofs** - all under `NoRecreate`. `TypeCorrect`, `LossesAreExact` and
`NothingReadableIsLost` hold however long a publish lasts: `CountInv` bounds slots, tails and
what was delivered by `head`, so that the unsigned differences are the true ones.
`DeliveriesAreWhole`, `LastLapIsKept` and `RingIsALog` also need `NoStall`, that no publish lasts
a lap: `WordsInv` says that every slot has one owner (`OwnersInv`), a mark in a cell is
of a slot that was taken and not of an unfinished one (`MarksInv`), words under a mark are of its slot
(`StoreInv`, `DoneInv`), finished slots of the last lap are in their cells (`KeptInv`), and what a consumer
has copied is of its slot as long as the mark stands (`CopyInv`). The arithmetic is
`CellsDiffer`: two slots less than a lap apart have different cells.

**SegmentProofs** - `TypeCorrect`; `OnlySameShapeGetsIn`, by `PassedInv`: a header field may change
after its test, but only to 0 and back, so whoever passed a test has the creators' value,
whenever that was; `AttachedStaysBacked`, by `LifeInv`: the size is set before the first field is
stored and never again, so that any field that is not 0 is evidence of the size.

**MergeProofs** - `TypeCorrect`, `OutputStaysOrdered`, `NothingIsOvertaken`,
`EverythingDueIsReturned`. Files are in order of time, the contract of `source.hpp:4`
(`SortedInput`, a premise within the properties). `OrderInv` adds: the heap holds the next row of
every source that was not retired; what a source has gone past and was due was returned; the
record last returned precedes everything in the heap. `OnceInv`: no row is returned twice.

**ReplayProofs** - takes MergeProofs' invariants for its `INSTANCE Merge`, which has the same
formulas, and adds one argument per property:

* `StopsPromptly` (`StopInv`): where the loop can be after a late nap or a late write.
* `ScheduleIsKept` (`PacedInv`, `NapInv`): a nap never passes the target, which is in the origins
  and not in the steps before, so that delays do not add up.
* `SkippedAreCounted` (`BestInv`): `best` is the greatest id kept or played of a symbol.
* `SegmentsHoldThePlayed` (`InHandInv`, `ShownInv`, `RingsInv`): at most one record is in hand; a
  slot shows the newest played; the ring holds the unit's trades in the order of play.
* `ReplayIsComplete` (`EndInv`, `TotalsInv`): without a stop the loop ends on an empty heap; with
  the merger's completeness every row in its window was played, exactly once.

**StartupProofs** - `ListsAgree` (`RoutedInv`: every source in the global list is routed to the unit
that loaded it), `OrderIsByUnitAndPath`, `OnlyUsableUnitsEmpty`, `TypeCorrect`, by `SettingInv` (the
configuration keeps its entries) and `UnitInv` (what is known of the current unit at each
place of the loop). That a finite directory can be sorted at all is proved with `SmallestSet`.

**RowsProofs** - what is computed first, then the state. A recursive function is shown to
exist and to satisfy its equation with `Recursion`, and what it returns by `Induction` over
the places, so nothing here is bounded: texts, rows, tables and alphabets are as long as
they like.

* Numbers. `MantissaIsExact`: as long as a mantissa fits, it is the number in exact
  arithmetic times 10^scale, rounded down, and once it has passed 32 bits it says so for good
  - the argument behind `push`, which needs that 10 * U32Max + 9 does not wrap. Hence
  `EncodeGroupIsExact`: a group comes out exactly, at the greatest scale at which all of it
  fits, and is refused only if a member is no number or has too great an integer part.
* Lines. `QuotedBack`: behind an opening quote, `read_quoted_field` returns what was escaped
  and stops behind the closing quote; `FieldsBack` goes through the columns from the last to
  the first. Hence `RoundTrip`: whatever is in quotes, and with either line end, the texts
  of a row come back, one field per column.
* Rows. `CsvReads` and `JsonReads` bring both formats to one description of what a row may
  come to, `Built` follows the builders to the record, and `RowIsRead` joins them.
* State. `ReadingInv` says that what each source has made of the lines before its position
  is what those lines alone determine, whatever the other source did in between. From it
  follow `TypeCorrect`, `RecordsSayTheirRow`, `NoDecimalInVain`, `FormatDoesNotMatter` and
  `AcceptedAreComplete`. `SkipsAreTold` relates counters that both sources share to the lines
  both have read, reason by reason; `CountInv` adds only their types, and each step that takes a line
  adds it to exactly one side (`SkipsAreAllTold`).
* `RecordsSayTheirRow` has a premise, `SameOrder`: `kLocalToGid` is the identity, as it is
  today and as `lid_of` takes for granted. The table is a constant of Rows; the run gives it in order.

These take from `TablesAssumption` that no number has 256 decimals or more, since a
scale is returned in 8 bits; that no text contains a CR, which `chomp_cr` would take for a line end
if it came last; that a line of one column is not empty, which nothing could tell from an
empty line; and that a JSON number in a column of integers is whole and has 64 bits.

Only model-checked: liveness (`ReadersConverge`, `CatchesUp`, `Terminates`), which the prover
does not handle. `FirstIsPublished` and `NothingIsCut` do not hold.

## 6. Not modelled

* The texts of the command line, of TOML and of dates: one Boolean each. Log lines and
  summaries, `highest_book_level`, which only words one, and `TradeSink::published_`. The tests and the build.
* JSON's syntax (a line is an object or not), a key or column given twice, blanks around
  column names, text between a closing quote and the comma (there is none).
* JSON numbers that are no 64-bit integer in a column of integers: the parser makes a double of
  them, and its conversion is not modelled. Numbers of 256 decimals and more, whose scale
  would not fit `uint8_t`. The notes of two hazards name them.
* `to_decimal` (tests only); what is in the symbol tables, which are constants; the
  payloads of `event.h` that mdreplay does not write. `write_fails` never rises, as every `write`
  returns ok.
* The 64-bit wrap of `seq` and `head` (2^63 writes) and double rounding in `offset_ns`.
* Memory-model effects beyond those the fences leave open between payload words: an
  access to an atomic is one step.
* A second name for one object (`/a` and `a`): a segment is its path.

## 7. What could be added

* Segment and Board in one run. Board's `Recreate` already stands for a creation under readers
  and Segment's `Attached` for who may be such a reader; joined, a reader could also fault in
  the middle of a copy, which `MCSegment_restart` shows to be possible.
* Liveness of start-up: every pass of the loop of `main` goes through one entry, so its end is
  plain, and no run is spent on it.
* A clock in doubles, for spans beyond 2^53 ns.
