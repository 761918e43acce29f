--------------------------- MODULE StartupProofs ---------------------------
(***************************************************************************)
(* What main hands to replay(), for any configuration and any files.       *)
(***************************************************************************)
EXTENDS Startup, FiniteFacts, SequenceTheorems, TLAPS

-----------------------------------------------------------------------------
(* Listing a directory *)

Greatest(T) == \E f \in T : \A g \in T : g.path <= f.path

LEMMA GreatestPath ==
    ASSUME NEW F, IsFiniteSet(F), F # {}, \A f \in F : f.path \in Int
    PROVE  Greatest(F)
<1> DEFINE C == {T \in SUBSET F : T # {} /\ ~Greatest(T)}
<1> SUFFICES ASSUME F \in C PROVE FALSE
  OBVIOUS
<1>1. PICK S \in C : \A x \in S : S \ {x} \notin C
  BY SmallestSet
<1>2. PICK x \in S : TRUE
  BY <1>1
<1>3. S \ {x} = {} \/ Greatest(S \ {x})
  BY <1>1, <1>2
<1>4. x.path \in Int /\ \A g \in S : g.path \in Int
  BY <1>1, <1>2
<1>5. CASE S \ {x} = {}
  <2>1. \A g \in S : g = x
    BY <1>5
  <2>2. x.path <= x.path
    BY <1>4
  <2> QED
    BY <1>1, <1>2, <2>1, <2>2 DEF Greatest
<1>6. CASE Greatest(S \ {x})
  <2>1. PICK m \in S \ {x} : \A g \in S \ {x} : g.path <= m.path
    BY <1>6 DEF Greatest
  <2>2. CASE x.path <= m.path
    BY <1>1, <2>1, <2>2 DEF Greatest
  <2>3. CASE ~(x.path <= m.path)
    <3>1. \A g \in S : g.path <= x.path
      BY <1>4, <2>1, <2>3
    <3> QED
      BY <1>1, <1>2, <3>1 DEF Greatest
  <2> QED
    BY <2>2, <2>3
<1> QED
  BY <1>3, <1>5, <1>6

Ascending(l) == \A i, j \in DOMAIN l : i < j => l[i].path < l[j].path
Sortable(T) == \E l \in Listings(T) : Ascending(l)

\* std::sort puts files with different paths in one ascending list.
LEMMA EverySetIsSortable ==
    ASSUME NEW F, IsFiniteSet(F),
           \A f \in F : f.path \in Int, \A f, g \in F : f.path = g.path => f = g
    PROVE  Sortable(F)
<1> DEFINE C == {T \in SUBSET F : ~Sortable(T)}
<1> SUFFICES ASSUME F \in C PROVE FALSE
  OBVIOUS
<1>1. PICK S \in C : IsFiniteSet(S) /\ \A x \in S : S \ {x} \notin C
  BY SmallestSet
<1>2. CASE S = {}
  <2>1. Cardinality(S) = 0
    BY <1>2, FS_EmptySet
  <2> DEFINE l == [i \in 1 .. 0 |-> i]
  <2>2. l \in Listings(S) /\ Ascending(l)
    BY <1>2, <2>1 DEF Listings, Ascending
  <2> QED
    BY <1>1, <2>2 DEF Sortable
<1>3. CASE S # {}
  <2>1. PICK f \in S : \A g \in S : g.path <= f.path
    BY <1>1, <1>3, GreatestPath DEF Greatest
  <2> DEFINE R == S \ {f}
             n == Cardinality(S)
  <2>2. Sortable(R)
    BY <1>1, <2>1
  <2>3. n \in Nat \ {0} /\ Cardinality(R) = n - 1
    BY <1>1, <1>3, FS_CardinalityType, FS_EmptySet, FS_RemoveElement
  <2>4. PICK k \in [1 .. n - 1 -> R] : Ascending(k)
    BY <2>2, <2>3 DEF Sortable, Listings
  <2>5. \A i \in 1 .. n - 1 : k[i] \in S /\ k[i].path < f.path
    <3> TAKE i \in 1 .. n - 1
    <3>1. k[i] \in S /\ k[i] # f
      BY <2>4
    <3>2. k[i].path <= f.path /\ k[i].path # f.path /\ k[i].path \in Int /\ f.path \in Int
      BY <1>1, <2>1, <3>1
    <3> QED
      BY <3>1, <3>2
  <2> DEFINE l == [i \in 1 .. n |-> IF i < n THEN k[i] ELSE f]
  <2> HIDE DEF n
  <2>6. \A i \in 1 .. n : IF i < n THEN i \in 1 .. n - 1 ELSE i = n
    BY <2>3
  <2>7. l \in [1 .. n -> S]
    BY <2>1, <2>5, <2>6
  <2>8. Ascending(l)
    <3> SUFFICES ASSUME NEW i \in 1 .. n, NEW j \in 1 .. n, i < j
                 PROVE  l[i].path < l[j].path
      BY DEF Ascending
    <3>1. i \in 1 .. n - 1 /\ l[i] = k[i]
      BY <2>3
    <3>2. CASE j < n
      <4>1. j \in 1 .. n - 1 /\ l[j] = k[j]
        BY <2>3, <3>2
      <4> QED
        BY <2>4, <3>1, <4>1 DEF Ascending
    <3>3. CASE ~(j < n)
      <4>1. l[j] = f
        BY <3>3
      <4> QED
        BY <2>5, <3>1, <4>1
    <3> QED
      BY <3>2, <3>3
  <2> QED
    BY <1>1, <2>7, <2>8 DEF Sortable, Listings, n
<1> QED
  BY <1>2, <1>3

\* The sources of a unit are files of its directory and kind, ordered by path.
LEMMA LoadedFacts ==
    ASSUME files \in FileSets, NEW dir, NEW kind, NEW fmt
    PROVE  LET ss == load_sources(dir, kind, fmt)
           IN  /\ ss \in Seq(files) /\ Ascending(ss)
               /\ \A i \in DOMAIN ss : ss[i].dir = dir /\ ss[i].kind = kind
<1> DEFINE F == {f \in discover(dir, kind, fmt) : f.loads}
           ss == load_sources(dir, kind, fmt)
<1>1. F \subseteq files /\ \A f \in F : f.dir = dir /\ f.kind = kind
  BY DEF discover
<1>2. /\ IsFiniteSet(files) /\ \A f \in files : f.path \in Int
      /\ \A f, g \in files : f.dir = g.dir /\ f.path = g.path => f = g
  BY FilesAssumption
<1>3. IsFiniteSet(F) /\ Cardinality(F) \in Nat
  BY <1>1, <1>2, FS_Subset, FS_CardinalityType
<1>4. Sortable(F)
  <2> HIDE DEF F
  <2> QED
    BY <1>1, <1>2, <1>3, EverySetIsSortable
<1>5. ss \in Listings(F) /\ Ascending(ss)
  BY <1>4 DEF Sortable, Ascending, load_sources, ByPath
<1>6. ss \in [1 .. Cardinality(F) -> files] /\ \A i \in DOMAIN ss : ss[i] \in F
  <2> HIDE DEF F, ss
  <2> QED
    BY <1>1, <1>5 DEF Listings
<1>7. ss \in Seq(files)
  <2> HIDE DEF F, ss
  <2>1. ss = [i \in 1 .. Cardinality(F) |-> ss[i]]
    BY <1>6
  <2> QED
    BY <1>3, <1>6
<1> QED
  BY <1>1, <1>5, <1>6, <1>7

\* Non-zero depths that agree are one depth.
LEMMA OneDepth ==
    ASSUME NEW ss, NEW S, ss \in Seq(S), DepthsAgree(ss),
           NEW i \in DOMAIN ss, NEW j \in DOMAIN ss, ss[i].depth # 0, ss[j].depth # 0
    PROVE  ss[i].depth = ss[j].depth
<1> DEFINE T == {ss[k].depth : k \in DOMAIN ss}
           f == [k \in DOMAIN ss |-> ss[k].depth]
<1>1. DOMAIN ss = 1 .. Len(ss) /\ Len(ss) \in Nat
  BY LenProperties
<1>2. IsFiniteSet(DOMAIN ss)
  <2>1. IsFiniteSet(1 .. Len(ss))
    BY <1>1, FS_Interval
  <2> QED
    BY <1>1, <2>1
<1>3. f \in Surjection(DOMAIN ss, T)
  BY DEF Surjection
<1>4. IsFiniteSet(T)
  <2> HIDE DEF T, f
  <2> QED
    BY <1>2, <1>3, FS_Surjection
<1>5. IsFiniteSet(Depths(ss)) /\ ss[i].depth \in Depths(ss) /\ ss[j].depth \in Depths(ss)
  <2>1. Depths(ss) \in SUBSET T
    BY DEF Depths
  <2>2. IsFiniteSet(Depths(ss))
    <3> HIDE DEF T
    <3> QED
      BY <1>4, <2>1, FS_Subset
  <2> QED
    BY <2>2 DEF Depths
<1>6. Cardinality(Depths(ss)) \in Nat /\ Cardinality(Depths(ss)) <= 1
  BY <1>5, FS_CardinalityType DEF DepthsAgree
<1>7. Cardinality(Depths(ss)) = 0 \/ Cardinality(Depths(ss)) = 1
  BY <1>6
<1>8. Depths(ss) = {} \/ \E d : Depths(ss) = {d}
  BY <1>5, <1>7, FS_EmptySet, FS_Singleton
<1> QED
  BY <1>5, <1>8

-----------------------------------------------------------------------------
(* The unit in hand *)

\* The command line changes neither the entries nor the files.
SettingInv ==
    /\ {"realtime", "replays"} \subseteq DOMAIN config
    /\ config.replays \in Seq(Entries)
    /\ files \in FileSets
    /\ pc \notin {"parse", "exit"} => \A u \in Units : ValidEntry(u)

\* What load_one_replay has found out about the unit before it opens the output.
UnitInv ==
    /\ pc \in {"load", "depth", "open"} =>
           /\ unit \in Units
           /\ format \in {"csv", "json"} /\ Replay(unit).format \in {format, "auto"}
    /\ pc \in {"depth", "open"} =>
           /\ sources = load_sources(Replay(unit).dir, Replay(unit).kind, format)
           /\ sources # <<>>
    /\ pc = "open" /\ Replay(unit).kind = "book" =>
           /\ DepthsAgree(sources)
           /\ \A i \in DOMAIN sources : sources[i].depth # 0 => depth = sources[i].depth

LEMMA InitSetting == Init => SettingInv
BY ConfigsAssumption DEF Init, SettingInv

LEMMA SameReplays ==
    ASSUME SettingInv, [Next]_vars
    PROVE  config'.replays = config.replays /\ files' = files
           /\ {"realtime", "replays"} \subseteq DOMAIN config'
<1>1. CASE ApplyOverrides
  <2>1. files' = files /\ config' \in {config, [config EXCEPT !.realtime = override]}
    BY <1>1 DEF ApplyOverrides
  <2> QED
    BY <2>1 DEF SettingInv
<1>2. CASE ~ApplyOverrides
  <2>1. UNCHANGED <<config, files>>
    BY <1>2 DEF Next, vars, ParseConfig, ChooseFormat, LoadSources, DetectDepth, OpenFails,
       OpenOutput, CallReplay
  <2> QED
    BY <2>1 DEF SettingInv
<1> QED
  BY <1>1, <1>2

LEMMA NextSetting == ASSUME SettingInv, [Next]_vars PROVE SettingInv'
<1>1. config'.replays = config.replays /\ files' = files
      /\ {"realtime", "replays"} \subseteq DOMAIN config'
  BY SameReplays
<1>2. Units' = Units /\ \A u : ValidEntry(u)' <=> ValidEntry(u)
  BY <1>1 DEF Units, ValidEntry, Replay
<1>3. pc' \notin {"parse", "exit"} => \A u \in Units : ValidEntry(u)
  <2>1. CASE ParseConfig
    BY <2>1 DEF ParseConfig
  <2>2. CASE ~ParseConfig
    <3>1. pc' \notin {"parse", "exit"} => pc \notin {"parse", "exit"}
      BY <2>2 DEF Next, vars, ApplyOverrides, ChooseFormat, LoadSources, DetectDepth, OpenFails,
         OpenOutput, CallReplay
    <3> QED
      BY <3>1 DEF SettingInv
  <2> QED
    BY <2>1, <2>2
<1> QED
  BY <1>1, <1>2, <1>3 DEF SettingInv

LEMMA UnitsFacts ==
    ASSUME SettingInv
    PROVE  /\ Len(config.replays) \in Nat /\ Units = 1 .. Len(config.replays)
           /\ \A u \in Units : Replay(u) \in Entries
BY LenProperties, ElementOfSeq DEF SettingInv, Units, Replay

LEMMA NextUnitInv == ASSUME SettingInv, UnitInv, [Next]_vars PROVE UnitInv'
<1>1. config'.replays = config.replays /\ files' = files
  BY SameReplays
<1>2. /\ Units' = Units /\ \A u : Replay(u)' = Replay(u)
      /\ \A d, k, f : load_sources(d, k, f)' = load_sources(d, k, f)
  BY <1>1 DEF Units, Replay, load_sources, discover
<1>3. CASE ParseConfig \/ ApplyOverrides \/ OpenFails \/ OpenOutput \/ CallReplay
  <2>1. pc' \notin {"load", "depth", "open"}
    BY <1>3 DEF ParseConfig, ApplyOverrides, OpenFails, OpenOutput, CallReplay
  <2> QED
    BY <2>1 DEF UnitInv
<1>4. CASE ChooseFormat
  <2>1. unit \in Units /\ unit' = unit /\ pc = "format" /\ pc' \in {"exit", "load"}
    BY <1>4 DEF ChooseFormat
  <2>2. Replay(unit).format \in {"csv", "json", "auto"}
    BY <2>1 DEF SettingInv, ValidEntry
  <2>3. ASSUME pc' = "load"
        PROVE  format' \in {"csv", "json"} /\ Replay(unit).format \in {format', "auto"}
    <3> DEFINE there == {fmt \in {"csv", "json"} : discover(Replay(unit).dir, Replay(unit).kind, fmt) # {}}
    <3>1. CASE Replay(unit).format = "auto"
      <4>1. Cardinality(there) = 1 /\ format' = CHOOSE fmt \in there : TRUE
        BY <1>4, <2>3, <3>1 DEF ChooseFormat
      <4>2. there # {}
        BY <4>1, FS_EmptySet
      <4>3. format' \in there
        BY <4>1, <4>2
      <4> QED
        BY <3>1, <4>3
    <3>2. CASE Replay(unit).format # "auto"
      <4>1. format' = Replay(unit).format
        BY <1>4, <3>2 DEF ChooseFormat
      <4> QED
        BY <2>2, <3>2, <4>1
    <3> QED
      BY <3>1, <3>2
  <2> QED
    BY <1>2, <2>1, <2>3 DEF UnitInv
<1>5. CASE LoadSources
  BY <1>2, <1>5 DEF LoadSources, UnitInv, HasSources
<1>6. CASE DetectDepth
  <2>1. UNCHANGED <<unit, format, sources>> /\ pc = "depth" /\ pc' \in {"exit", "open"}
    BY <1>6 DEF DetectDepth
  <2>2. sources \in Seq(files)
    <3>1. sources = load_sources(Replay(unit).dir, Replay(unit).kind, format)
      BY <2>1 DEF UnitInv
    <3> QED
      BY <3>1, LoadedFacts DEF SettingInv
  <2>3. ASSUME pc' = "open", Replay(unit).kind = "book"
        PROVE  /\ DepthsAgree(sources)
               /\ \A i \in DOMAIN sources : sources[i].depth # 0 => depth' = sources[i].depth
    <3>1. CASE Depths(sources) = {}
      <4>1. \A i \in DOMAIN sources : sources[i].depth = 0
        BY <3>1 DEF Depths
      <4> QED
        BY <3>1, <4>1, FS_EmptySet DEF DepthsAgree
    <3>2. CASE Depths(sources) # {}
      <4>1. /\ DepthsAgree(sources)
            /\ \E i \in DOMAIN sources : sources[i].depth # 0 /\ depth' = sources[i].depth
        BY <1>6, <2>3, <3>2 DEF DetectDepth
      <4> QED
        BY <2>2, <4>1, OneDepth
    <3> QED
      BY <3>1, <3>2
  <2>4. DepthsAgree(sources)' <=> DepthsAgree(sources)
    BY <2>1 DEF DepthsAgree, Depths
  <2> QED
    BY <1>2, <2>1, <2>3, <2>4 DEF UnitInv
<1>7. CASE UNCHANGED vars
  <2>1. UNCHANGED <<pc, unit, format, sources, depth>>
    BY <1>7 DEF vars, unitVars
  <2>2. DepthsAgree(sources)' <=> DepthsAgree(sources)
    BY <2>1 DEF DepthsAgree, Depths
  <2> QED
    BY <1>2, <2>1, <2>2 DEF UnitInv
<1> QED
  BY <1>3, <1>4, <1>5, <1>6, <1>7 DEF Next

-----------------------------------------------------------------------------
(* Type correctness *)

\* The sources of the unit in hand are files.
LEMMA SourcesFacts ==
    ASSUME SettingInv, UnitInv, pc \in {"depth", "open"}
    PROVE  /\ sources \in Seq(files) /\ Ascending(sources)
           /\ \A i \in DOMAIN sources :
                  sources[i].dir = Replay(unit).dir /\ sources[i].kind = Replay(unit).kind
<1>1. sources = load_sources(Replay(unit).dir, Replay(unit).kind, format) /\ files \in FileSets
  BY DEF UnitInv, SettingInv
<1> QED
  BY <1>1, LoadedFacts

\* OpenOutput appends the unit's sources with its number.
LEMMA Appended ==
    ASSUME SettingInv, UnitInv, TypeOK, OpenOutput
    PROVE  /\ global_sources' \in Seq(files) /\ src_unit' \in Seq(1 .. unit)
           /\ Len(global_sources') = Len(src_unit')
           /\ DOMAIN global_sources = 1 .. Len(global_sources) /\ Len(global_sources) \in Nat
           /\ \A i \in DOMAIN global_sources :
                  global_sources'[i] = global_sources[i] /\ src_unit'[i] = src_unit[i]
           /\ DOMAIN sources = 1 .. Len(sources) /\ Len(sources) \in Nat
           /\ \A k \in DOMAIN sources :
                  /\ global_sources'[Len(global_sources) + k] = sources[k]
                  /\ src_unit'[Len(global_sources) + k] = unit
           /\ DOMAIN global_sources' = 1 .. Len(global_sources) + Len(sources)
<1> DEFINE units == [i \in DOMAIN sources |-> unit]
<1>1. /\ sources \in Seq(files) /\ unit \in Nat \ {0}
      /\ global_sources' = global_sources \o sources /\ src_unit' = src_unit \o units
  <2>1. unit \in Units /\ pc = "open"
    BY DEF OpenOutput, UnitInv
  <2> QED
    BY <2>1, SourcesFacts, UnitsFacts DEF OpenOutput
<1>2. global_sources \in Seq(files) /\ src_unit \in Seq(1 .. unit - 1)
      /\ Len(global_sources) = Len(src_unit)
  BY DEF TypeOK
<1>3. DOMAIN sources = 1 .. Len(sources) /\ Len(sources) \in Nat
  BY <1>1, LenProperties
<1>4. units \in Seq(1 .. unit) /\ Len(units) = Len(sources)
  <2>1. units \in [1 .. Len(sources) -> 1 .. unit]
    BY <1>1, <1>3
  <2> QED
    BY <1>3, <2>1
<1>5. src_unit \in Seq(1 .. unit)
  <2>1. src_unit \in [1 .. Len(src_unit) -> 1 .. unit - 1] /\ Len(src_unit) \in Nat
    BY <1>2, LenProperties
  <2>2. \A v \in 1 .. unit - 1 : v \in 1 .. unit
    BY <1>1
  <2>3. src_unit = [i \in 1 .. Len(src_unit) |-> src_unit[i]]
        /\ \A i \in 1 .. Len(src_unit) : src_unit[i] \in 1 .. unit
    BY <2>1, <2>2
  <2> HIDE DEF units
  <2> DEFINE k == Len(src_unit)
             S == 1 .. unit
  <2>4. \A q : q \in [1 .. k -> S] => q \in Seq(S)
    <3> HIDE DEF k, S
    <3> QED
      BY <2>1 DEF k
  <2>5. src_unit \in [1 .. k -> S]
    <3> HIDE DEF S
    <3>1. \A i \in 1 .. k : src_unit[i] \in S
      BY <2>3 DEF S
    <3> QED
      BY <2>3, <3>1
  <2> QED
    BY <2>4, <2>5
<1> DEFINE m == Len(global_sources)
           n == Len(sources)
<1>6. m \in Nat /\ DOMAIN global_sources = 1 .. m
  BY <1>2, LenProperties
<1>7. /\ global_sources' \in Seq(files) /\ Len(global_sources') = m + n
      /\ \A i \in 1 .. m + n : global_sources'[i] = IF i <= m THEN global_sources[i] ELSE sources[i - m]
  BY <1>1, <1>2, ConcatProperties
<1>8. /\ src_unit' \in Seq(1 .. unit) /\ Len(src_unit') = m + n
      /\ \A i \in 1 .. m + n : src_unit'[i] = IF i <= m THEN src_unit[i] ELSE units[i - m]
  <2> DEFINE S == 1 .. unit
  <2>1. src_unit \in Seq(S) /\ units \in Seq(S)
    BY <1>4, <1>5
  <2>2. Len(src_unit) = m /\ Len(units) = n /\ src_unit' = src_unit \o units
    BY <1>1, <1>2, <1>4
  <2> HIDE DEF units, m, n, S
  <2>3. /\ src_unit \o units \in Seq(S) /\ Len(src_unit \o units) = m + n
        /\ \A i \in 1 .. m + n :
              (src_unit \o units)[i] = IF i <= m THEN src_unit[i] ELSE units[i - m]
    BY <2>1, <2>2, ConcatProperties
  <2> QED
    BY <2>2, <2>3 DEF S
<1>9. DOMAIN global_sources' = 1 .. m + n
  BY <1>7, LenProperties
<1>10. \A i \in DOMAIN global_sources :
          global_sources'[i] = global_sources[i] /\ src_unit'[i] = src_unit[i]
  <2> HIDE DEF m, n, units
  <2>1. \A i \in 1 .. m : i \in 1 .. m + n /\ i <= m
    BY <1>3, <1>6 DEF n
  <2> QED
    BY <1>6, <1>7, <1>8, <2>1
<1>11. \A k \in DOMAIN sources :
          global_sources'[m + k] = sources[k] /\ src_unit'[m + k] = unit
  <2> SUFFICES ASSUME NEW k \in DOMAIN sources
               PROVE  global_sources'[m + k] = sources[k] /\ src_unit'[m + k] = unit
    OBVIOUS
  <2>1. units[k] = unit
    OBVIOUS
  <2> HIDE DEF m, n, units
  <2>2. k \in 1 .. n
    BY <1>3 DEF n
  <2>3. m + k \in 1 .. m + n /\ ~(m + k <= m) /\ (m + k) - m = k
    BY <1>3, <1>6, <2>2 DEF n
  <2> QED
    BY <1>7, <1>8, <2>1, <2>3
<1> QED
  BY <1>3, <1>6, <1>7, <1>8, <1>9, <1>10, <1>11

LEMMA Opened ==
    ASSUME SettingInv, UnitInv, TypeOK, OpenOutput
    PROVE  /\ opens' \in Seq([path : STRING, segment : {"TradeRing", "BookTickBoard", "DepthBoard"}])
           /\ unit_window' \in Seq([start : Int, end : Int])
           /\ Len(opens') = unit /\ Len(unit_window') = unit
           /\ \A u \in 1 .. unit - 1 : opens'[u] = opens[u] /\ unit_window'[u] = unit_window[u]
           /\ opens'[unit] = [path |-> Replay(unit).path, segment |-> SegmentOf(Replay(unit).kind, depth)]
           /\ unit_window'[unit] = [start |-> Replay(unit).start, end |-> Replay(unit).end]
<1> DEFINE o == [path |-> Replay(unit).path, segment |-> SegmentOf(Replay(unit).kind, depth)]
           w == [start |-> Replay(unit).start, end |-> Replay(unit).end]
           O == [path : STRING, segment : {"TradeRing", "BookTickBoard", "DepthBoard"}]
           W == [start : Int, end : Int]
<1>1. Replay(unit) \in Entries /\ unit \in Nat \ {0}
  BY UnitsFacts DEF OpenOutput, UnitInv
<1>2. o \in O /\ w \in W
  BY <1>1 DEF Entries, SegmentOf
<1>3. opens' = Append(opens, o) /\ unit_window' = Append(unit_window, w)
  BY DEF OpenOutput, WithWindow
<1>4. opens \in Seq(O) /\ unit_window \in Seq(W) /\ Len(opens) = unit - 1 /\ Len(unit_window) = unit - 1
  BY DEF TypeOK
<1> HIDE DEF o, w, O, W
<1>5. /\ opens' \in Seq(O) /\ Len(opens') = Len(opens) + 1 /\ opens'[Len(opens) + 1] = o
      /\ \A u \in 1 .. Len(opens) : opens'[u] = opens[u]
  BY <1>2, <1>3, <1>4, AppendProperties
<1>6. /\ unit_window' \in Seq(W) /\ Len(unit_window') = Len(unit_window) + 1
      /\ unit_window'[Len(unit_window) + 1] = w
      /\ \A u \in 1 .. Len(unit_window) : unit_window'[u] = unit_window[u]
  BY <1>2, <1>3, <1>4, AppendProperties
<1>7. (unit - 1) + 1 = unit
  BY <1>1
<1> QED
  BY <1>4, <1>5, <1>6, <1>7 DEF o, w, O, W

StartupInv == SettingInv /\ UnitInv /\ TypeOK

LEMMA InitStartupInv == Init => StartupInv
<1> SUFFICES ASSUME Init PROVE StartupInv
  OBVIOUS
<1>1. SettingInv
  BY InitSetting
<1>2. UnitInv
  BY DEF Init, UnitInv
<1>3. TypeOK
  <2>1. Len(config.replays) \in Nat
    BY <1>1, UnitsFacts
  <2> QED
    BY <2>1, EmptySeq DEF Init, TypeOK
<1> QED
  BY <1>1, <1>2, <1>3 DEF StartupInv

LEMMA NextStartupInv == StartupInv /\ [Next]_vars => StartupInv'
<1> SUFFICES ASSUME StartupInv, [Next]_vars PROVE StartupInv'
  OBVIOUS
<1>1. SettingInv /\ UnitInv /\ TypeOK /\ SettingInv' /\ UnitInv'
  BY NextSetting, NextUnitInv DEF StartupInv
<1>2. config'.replays = config.replays /\ files' = files /\ Units' = Units
  BY <1>1, SameReplays DEF Units
<1> SUFFICES TypeOK'
  BY <1>1 DEF StartupInv
<1>3. CASE ParseConfig \/ ApplyOverrides \/ CallReplay \/ UNCHANGED vars
  <2>1. UNCHANGED <<unit, unitVars, lists, emptied>>
        /\ (pc' = pc \/ pc' \in {"exit", "override", "format", "replay"})
    BY <1>3 DEF ParseConfig, ApplyOverrides, CallReplay, vars
  <2> QED
    BY <1>1, <1>2, <2>1 DEF TypeOK, unitVars, lists
<1>4. CASE ChooseFormat
  <2>1. UNCHANGED <<unit, sources, depth, lists, emptied>> /\ pc' \in {"exit", "load"}
    BY <1>4 DEF ChooseFormat
  <2>2. format' \in {"none", "csv", "json"}
    <3>1. pc' = "load" \/ format' = format
      BY <1>4 DEF ChooseFormat
    <3> QED
      BY <1>1, <3>1 DEF UnitInv, TypeOK
  <2> QED
    BY <1>1, <1>2, <2>1, <2>2 DEF TypeOK, lists
<1>5. CASE LoadSources
  <2>1. UNCHANGED <<unit, format, depth, lists, emptied>> /\ pc' \in {"exit", "depth"}
    BY <1>5 DEF LoadSources
  <2>2. sources' \in Seq(files)
    BY <1>1, <1>5, LoadedFacts DEF LoadSources, SettingInv
  <2> QED
    BY <1>1, <1>2, <2>1, <2>2 DEF TypeOK, lists
<1>6. CASE DetectDepth
  <2>1. UNCHANGED <<unit, format, sources, lists, emptied>> /\ pc' \in {"exit", "open"}
    BY <1>6 DEF DetectDepth
  <2>2. \A i \in DOMAIN sources : sources[i].depth \in Nat
    <3>1. sources \in Seq(files) /\ \A f \in files : f.depth \in Nat
      BY <1>1, FilesAssumption DEF TypeOK, SettingInv
    <3> QED
      BY <3>1, LenProperties, ElementOfSeq
  <2>3. depth' \in Nat \ {0}
    <3>1. depth' = depth \/ depth' = 1 \/ \E i \in DOMAIN sources : sources[i].depth # 0 /\ depth' = sources[i].depth
      BY <1>6 DEF DetectDepth
    <3> QED
      BY <1>1, <2>2, <3>1 DEF TypeOK
  <2> QED
    BY <1>1, <1>2, <2>1, <2>3 DEF TypeOK, lists
<1>7. CASE OpenFails
  <2>1. UNCHANGED <<unit, unitVars, lists>> /\ pc' = "exit" /\ emptied' \in {emptied, emptied \cup {unit}}
    BY <1>7 DEF OpenFails
  <2>2. unit \in Units
    BY <1>1, <1>7 DEF OpenFails, UnitInv
  <2> QED
    BY <1>1, <1>2, <2>1, <2>2 DEF TypeOK, unitVars, lists
<1>8. CASE OpenOutput
  <2>1. /\ UNCHANGED unitVars /\ unit' = unit + 1 /\ pc' = "format"
        /\ emptied' \in {emptied, emptied \cup {unit}}
    BY <1>8 DEF OpenOutput
  <2>2. unit \in Units /\ Units = 1 .. Len(config.replays) /\ Len(config.replays) \in Nat
    BY <1>1, <1>8, UnitsFacts DEF OpenOutput, UnitInv
  <2>3. unit' \in 1 .. Len(config'.replays) + 1 /\ unit' - 1 = unit
    BY <1>2, <2>1, <2>2
  <2>4. /\ global_sources' \in Seq(files) /\ src_unit' \in Seq(1 .. unit)
        /\ Len(global_sources') = Len(src_unit')
    BY <1>1, <1>8, Appended
  <2>5. /\ opens' \in Seq([path : STRING, segment : {"TradeRing", "BookTickBoard", "DepthBoard"}])
        /\ unit_window' \in Seq([start : Int, end : Int])
        /\ Len(opens') = unit /\ Len(unit_window') = unit
    BY <1>1, <1>8, Opened
  <2>6. format' = format /\ sources' = sources /\ depth' = depth /\ emptied' \subseteq Units
    BY <1>1, <2>1, <2>2 DEF unitVars, TypeOK
  <2> QED
    BY <1>1, <1>2, <2>1, <2>3, <2>4, <2>5, <2>6 DEF TypeOK
<1> QED
  BY <1>3, <1>4, <1>5, <1>6, <1>7, <1>8 DEF Next

\* The lists that replay() indexes by unit never differ in length when a unit is
\* done, whatever the configuration and the files.
THEOREM TypeCorrect == Spec => []TypeOK
<1>1. StartupInv => TypeOK
  BY DEF StartupInv
<1> QED
  BY <1>1, InitStartupInv, NextStartupInv, PTL DEF Spec

-----------------------------------------------------------------------------
(* Routing *)

\* What RoutesAgree says of one source; it holds from the moment it is appended.
Routed(i) ==
    LET u == src_unit[i]
        s == global_sources[i]
    IN  /\ s.dir = Replay(u).dir /\ s.kind = Replay(u).kind
        /\ opens[u].path = Replay(u).path
        /\ unit_window[u] = [start |-> Replay(u).start, end |-> Replay(u).end]
        /\ s.kind = "trade" => opens[u].segment = "TradeRing"
        /\ s.kind = "book" /\ s.depth # 0 =>
               opens[u].segment = IF s.depth = 1 THEN "BookTickBoard" ELSE "DepthBoard"

RoutedInv == \A i \in DOMAIN global_sources : Routed(i)

LEMMA UnitOfSource ==
    ASSUME TypeOK
    PROVE  \A i \in DOMAIN global_sources : src_unit[i] \in 1 .. unit - 1
<1>1. global_sources \in Seq(files) /\ src_unit \in Seq(1 .. unit - 1)
      /\ Len(global_sources) = Len(src_unit)
  BY DEF TypeOK
<1>2. DOMAIN global_sources = 1 .. Len(src_unit)
  BY <1>1, LenProperties
<1> DEFINE S == 1 .. unit - 1
<1> HIDE DEF S
<1>3. src_unit \in Seq(S)
  BY <1>1 DEF S
<1> QED
  BY <1>2, <1>3, ElementOfSeq DEF S

LEMMA NextRouted == ASSUME StartupInv, RoutedInv, [Next]_vars PROVE RoutedInv'
<1>1. SettingInv /\ UnitInv /\ TypeOK /\ config'.replays = config.replays
  BY SameReplays DEF StartupInv
<1>2. \A u : Replay(u)' = Replay(u)
  BY <1>1 DEF Replay
<1>3. CASE OpenOutput
  <2>1. /\ DOMAIN global_sources = 1 .. Len(global_sources) /\ Len(global_sources) \in Nat
        /\ \A i \in DOMAIN global_sources :
               global_sources'[i] = global_sources[i] /\ src_unit'[i] = src_unit[i]
        /\ DOMAIN sources = 1 .. Len(sources) /\ Len(sources) \in Nat
        /\ \A k \in DOMAIN sources :
               /\ global_sources'[Len(global_sources) + k] = sources[k]
               /\ src_unit'[Len(global_sources) + k] = unit
        /\ DOMAIN global_sources' = 1 .. Len(global_sources) + Len(sources)
    BY <1>1, <1>3, Appended
  <2>2. /\ \A u \in 1 .. unit - 1 : opens'[u] = opens[u] /\ unit_window'[u] = unit_window[u]
        /\ opens'[unit] = [path |-> Replay(unit).path, segment |-> SegmentOf(Replay(unit).kind, depth)]
        /\ unit_window'[unit] = [start |-> Replay(unit).start, end |-> Replay(unit).end]
    BY <1>1, <1>3, Opened
  <2>3. ASSUME NEW i \in DOMAIN global_sources PROVE Routed(i)'
    <3>1. src_unit[i] \in 1 .. unit - 1
      BY <1>1, UnitOfSource
    <3>2. Routed(i)
      BY DEF RoutedInv
    <3> QED
      BY <1>2, <2>1, <2>2, <3>1, <3>2 DEF Routed
  <2>4. ASSUME NEW k \in DOMAIN sources, NEW i, i = Len(global_sources) + k PROVE Routed(i)'
    <3>1. pc = "open"
      BY <1>3 DEF OpenOutput
    <3>2. sources[k].dir = Replay(unit).dir /\ sources[k].kind = Replay(unit).kind
      BY <1>1, <3>1, SourcesFacts
    <3>3. sources[k].kind = "book" /\ sources[k].depth # 0 => depth = sources[k].depth
      BY <1>1, <3>1, <3>2 DEF UnitInv
    <3>4. global_sources'[i] = sources[k] /\ src_unit'[i] = unit
      BY <2>1, <2>4
    <3>5. opens'[unit].path = Replay(unit).path
          /\ opens'[unit].segment = SegmentOf(Replay(unit).kind, depth)
      BY <2>2
    <3>6. sources[k].kind = "trade" => opens'[unit].segment = "TradeRing"
      BY <3>2, <3>5 DEF SegmentOf
    <3>7. sources[k].kind = "book" /\ sources[k].depth # 0 =>
              opens'[unit].segment = IF sources[k].depth = 1 THEN "BookTickBoard" ELSE "DepthBoard"
      BY <3>2, <3>3, <3>5 DEF SegmentOf
    <3> QED
      BY <1>2, <2>2, <3>2, <3>4, <3>5, <3>6, <3>7 DEF Routed
  <2>5. ASSUME NEW i \in DOMAIN global_sources'
        PROVE  i \in DOMAIN global_sources \/ \E k \in DOMAIN sources : i = Len(global_sources) + k
    <3>1. i \in 1 .. Len(global_sources) \/ i - Len(global_sources) \in 1 .. Len(sources)
      BY <2>1
    <3>2. i = Len(global_sources) + (i - Len(global_sources))
      BY <2>1
    <3> QED
      BY <2>1, <3>1, <3>2
  <2> QED
    <3> SUFFICES ASSUME NEW i \in DOMAIN global_sources' PROVE Routed(i)'
      BY DEF RoutedInv
    <3> QED
      BY <2>3, <2>4, <2>5
<1>4. CASE ~OpenOutput
  <2>1. UNCHANGED lists
    BY <1>4 DEF Next, vars, ParseConfig, ApplyOverrides, ChooseFormat, LoadSources, DetectDepth,
       OpenFails, CallReplay
  <2>2. \A i : Routed(i)' <=> Routed(i)
    BY <1>2, <2>1 DEF Routed, lists
  <2> QED
    BY <2>1, <2>2 DEF RoutedInv, lists
<1> QED
  BY <1>3, <1>4

\* For any configuration: the lists replay() indexes by unit agree for every
\* source, and every source's records fit the segment they are routed to.
THEOREM ListsAgree == Spec => []RoutesAgree
<1>1. Init => RoutedInv
  BY DEF Init, RoutedInv
<1>2. RoutedInv => RoutesAgree
  BY DEF RoutedInv, Routed, RoutesAgree
<1>3. StartupInv /\ RoutedInv /\ [Next]_vars => StartupInv' /\ RoutedInv'
  BY NextStartupInv, NextRouted
<1> QED
  BY <1>1, <1>2, <1>3, InitStartupInv, PTL DEF Spec

-----------------------------------------------------------------------------
(* The global order of the sources *)

LEMMA NextOrder == ASSUME StartupInv, SourcesAreUnitMajor, [Next]_vars PROVE SourcesAreUnitMajor'
<1>1. SettingInv /\ UnitInv /\ TypeOK
  BY DEF StartupInv
<1>2. CASE OpenOutput
  <2> DEFINE m == Len(global_sources)
             n == Len(sources)
  <2>1. /\ DOMAIN global_sources = 1 .. m /\ m \in Nat
        /\ \A i \in 1 .. m : global_sources'[i] = global_sources[i] /\ src_unit'[i] = src_unit[i]
        /\ DOMAIN sources = 1 .. n /\ n \in Nat
        /\ \A k \in 1 .. n : global_sources'[m + k] = sources[k] /\ src_unit'[m + k] = unit
        /\ DOMAIN global_sources' = 1 .. m + n
    BY <1>1, <1>2, Appended
  <2>2. Ascending(sources)
    BY <1>1, <1>2, SourcesFacts DEF OpenOutput
  <2>3. unit \in Nat /\ \A i \in 1 .. m : src_unit[i] \in 1 .. unit - 1
    <3>1. unit \in Units /\ Units = 1 .. Len(config.replays) /\ Len(config.replays) \in Nat
      BY <1>1, <1>2, UnitsFacts DEF OpenOutput, UnitInv
    <3>2. \A i \in DOMAIN global_sources : src_unit[i] \in 1 .. unit - 1
      BY <1>1, UnitOfSource
    <3> HIDE DEF m, n
    <3> QED
      BY <2>1, <3>1, <3>2
  <2> HIDE DEF m, n
  <2> SUFFICES ASSUME NEW i \in 1 .. m + n, NEW j \in 1 .. m + n, i < j
               PROVE  \/ src_unit'[i] < src_unit'[j]
                      \/ /\ src_unit'[i] = src_unit'[j]
                         /\ global_sources'[i].path < global_sources'[j].path
    BY <2>1 DEF SourcesAreUnitMajor
  <2>4. CASE j <= m
    <3>1. i \in 1 .. m /\ j \in 1 .. m
      BY <2>1, <2>4
    <3> QED
      BY <2>1, <3>1 DEF SourcesAreUnitMajor
  <2>5. CASE i <= m /\ ~(j <= m)
    <3>1. i \in 1 .. m /\ j - m \in 1 .. n /\ m + (j - m) = j
      BY <2>1, <2>5
    <3>2. src_unit'[i] \in 1 .. unit - 1 /\ src_unit'[j] = unit
      BY <2>1, <2>3, <3>1
    <3> QED
      BY <2>3, <3>2
  <2>6. CASE ~(i <= m)
    <3>1. /\ i - m \in 1 .. n /\ j - m \in 1 .. n /\ i - m < j - m
          /\ m + (i - m) = i /\ m + (j - m) = j
      BY <2>1, <2>6
    <3>2. sources[i - m].path < sources[j - m].path
      BY <2>1, <2>2, <3>1 DEF Ascending
    <3>3. src_unit'[i] = unit /\ src_unit'[j] = unit
          /\ global_sources'[i] = sources[i - m] /\ global_sources'[j] = sources[j - m]
      BY <2>1, <3>1
    <3> QED
      BY <3>2, <3>3
  <2> QED
    BY <2>4, <2>5, <2>6
<1>3. CASE ~OpenOutput
  <2>1. UNCHANGED lists
    BY <1>3 DEF Next, vars, ParseConfig, ApplyOverrides, ChooseFormat, LoadSources, DetectDepth,
       OpenFails, CallReplay
  <2> QED
    BY <2>1 DEF SourcesAreUnitMajor, lists
<1> QED
  BY <1>2, <1>3

\* However a directory happens to be listed, a source's place among all sources
\* is decided by its unit and its path.
THEOREM OrderIsByUnitAndPath == Spec => []SourcesAreUnitMajor
<1>1. Init => SourcesAreUnitMajor
  BY DEF Init, SourcesAreUnitMajor
<1>2. StartupInv /\ SourcesAreUnitMajor /\ [Next]_vars => StartupInv' /\ SourcesAreUnitMajor'
  BY NextStartupInv, NextOrder
<1> QED
  BY <1>1, <1>2, InitStartupInv, PTL DEF Spec

-----------------------------------------------------------------------------
(* What is emptied *)

Usable(u) ==
    \E fmt \in {"csv", "json"} :
        LET ss == load_sources(Replay(u).dir, Replay(u).kind, fmt)
        IN  /\ Replay(u).format \in {fmt, "auto"}
            /\ ss # <<>>
            /\ Replay(u).kind = "book" => Cardinality(Depths(ss)) <= 1

\* A unit whose output is opened has passed every test of its input.
LEMMA NextEmptied ==
    ASSUME StartupInv, EmptiedForUsableInput, [Next]_vars PROVE EmptiedForUsableInput'
<1>1. SettingInv /\ UnitInv /\ config'.replays = config.replays /\ files' = files
  BY SameReplays DEF StartupInv
<1>2. \A u : Usable(u)' <=> Usable(u)
  BY <1>1 DEF Usable, Replay, load_sources, discover
<1>3. \A u \in emptied : Usable(u)
  BY DEF EmptiedForUsableInput, Usable
<1>4. \A u \in emptied' : Usable(u)
  <2>1. CASE OpenFails \/ OpenOutput
    <3>1. emptied' \subseteq emptied \cup {unit} /\ pc = "open"
      BY <2>1 DEF OpenFails, OpenOutput
    <3>2. Usable(unit)
      <4>1. /\ format \in {"csv", "json"} /\ Replay(unit).format \in {format, "auto"}
            /\ sources = load_sources(Replay(unit).dir, Replay(unit).kind, format)
            /\ sources # <<>>
            /\ Replay(unit).kind = "book" => DepthsAgree(sources)
        BY <1>1, <3>1 DEF UnitInv
      <4> QED
        BY <4>1 DEF Usable, DepthsAgree
    <3> QED
      BY <1>3, <3>1, <3>2
  <2>2. CASE ~(OpenFails \/ OpenOutput)
    <3>1. emptied' = emptied
      BY <2>2 DEF Next, vars, ParseConfig, ApplyOverrides, ChooseFormat, LoadSources, DetectDepth,
         CallReplay
    <3> QED
      BY <1>3, <3>1
  <2> QED
    BY <2>1, <2>2
<1>5. \A u \in emptied' : Usable(u)'
  BY <1>2, <1>4
<1> QED
  BY <1>5 DEF EmptiedForUsableInput, Usable

\* No segment is emptied for a unit whose format is ambiguous, that has no input
\* or whose books differ in depth.
THEOREM OnlyUsableUnitsEmpty == Spec => []EmptiedForUsableInput
<1>1. Init => EmptiedForUsableInput
  BY DEF Init, EmptiedForUsableInput
<1>2. StartupInv /\ EmptiedForUsableInput /\ [Next]_vars => StartupInv' /\ EmptiedForUsableInput'
  BY NextStartupInv, NextEmptied
<1> QED
  BY <1>1, <1>2, InitStartupInv, PTL DEF Spec
=============================================================================
