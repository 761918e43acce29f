------------------------------ MODULE Startup ------------------------------
(***************************************************************************)
(* The start of a replay, main up to the call of replay(): parse_config    *)
(* and the command line's overrides, then for each [[replays]] entry, a    *)
(* "unit", load_one_replay - choose the format, open the sources, agree on *)
(* the depth, open the output - and the three lists that replay() indexes  *)
(* by unit: src_unit, unit_window and opens.                               *)
(*                                                                         *)
(* A configuration is [parses, realtime, replays]; parses = FALSE is one   *)
(* with a missing table, a bad date or a bad init_ts.  An entry is [kind,  *)
(* format, dir, path, create, start, end].  A file is [dir, path, kind,    *)
(* format, loads, depth]: loads = FALSE is a file that load_*_source       *)
(* rejects, depth is that of its first good record, 0 if it has none.      *)
(***************************************************************************)
EXTENDS Integers, Sequences, FiniteSets

CONSTANTS Configs,    \* the config.toml contents tried
          Overrides,  \* values of --realtime, NotGiven for none, BadValue
                      \* for an --init_ts or a log level that main refuses
          FileSets,   \* the sets of input files tried
          Nan,        \* the floating point value that is no number
          NotGiven, BadValue

\* An entry of config.toml; a replay of nothing is refused.
Entries == [kind : STRING, format : STRING, dir : Int, path : STRING, create : BOOLEAN,
            start : Int, end : Int]

ASSUME ConfigsAssumption ==
    \A c \in Configs : {"realtime", "replays"} \subseteq DOMAIN c /\ c.replays \in Seq(Entries)
\* Two files of one directory have different paths.
ASSUME FilesAssumption ==
    \A fs \in FileSets :
        /\ IsFiniteSet(fs)
        /\ \A f \in fs : f.path \in Int /\ f.depth \in Nat
        /\ \A f, g \in fs : f.dir = g.dir /\ f.path = g.path => f = g

VARIABLES
    config,       \* what main works on
    override,     \* what the command line gives
    files,        \* what the directories contain; never changes
    pc,           \* where main is
    unit,         \* u of main's loop, from 1
    format,       \* in.format of the unit
    sources,      \* the unit's sources
    depth,        \* the unit's depth
    global_sources, src_unit, unit_window,
    opens,        \* outputs, as [path, segment]
    emptied       \* history: units whose segment was created, that is emptied

unitVars == <<format, sources, depth>>
lists == <<global_sources, src_unit, unit_window, opens>>
vars == <<config, override, files, pc, unit, unitVars, lists, emptied>>

Replay(u) == config.replays[u]
Units == 1 .. Len(config.replays)

\* < and > of double: with a NaN both are false.
Less(x, y) == x # Nan /\ y # Nan /\ x < y

-----------------------------------------------------------------------------
(* The decisions of the code, each preceded by the forms that a bug would    *)
(* give it.                                                                  *)

\* realtime < 0.0 || realtime > 1.0
BadRealtime(x) == Less(x, 0) \/ Less(1, x)

\* discover: regular files of the directory with the suffix .<kind>.<format>.
discover(dir, kind, fmt) == {f \in files : f.dir = dir /\ f.kind = kind /\ f.format = fmt}

Listings(fs) == [1 .. Cardinality(fs) -> fs]
DirectoryOrder(fs) ==
    CHOOSE l \in Listings(fs) : \A i, j \in DOMAIN l : i < j => l[i].path > l[j].path
\* std::sort by path.
ByPath(fs) ==
    CHOOSE l \in Listings(fs) : \A i, j \in DOMAIN l : i < j => l[i].path < l[j].path

\* Files that cannot be opened, or whose columns are wrong, are passed over.
load_sources(dir, kind, fmt) == ByPath({f \in discover(dir, kind, fmt) : f.loads})

Depths(ss) == {ss[i].depth : i \in DOMAIN ss} \ {0}

FirstDepthDecides(ss) == TRUE
\* detect_depth refuses sources whose first records differ in depth.
DepthsAgree(ss) == Cardinality(Depths(ss)) <= 1

EmptyIsFine(ss) == TRUE
\* sources.empty() refuses the unit.
HasSources(ss) == ss # <<>>

\* The segment types of open_output.
SegmentOf(kind, d) ==
    IF kind = "trade" THEN "TradeRing" ELSE IF d = 1 THEN "BookTickBoard" ELSE "DepthBoard"

-----------------------------------------------------------------------------

Init ==
    /\ config \in Configs /\ override \in Overrides /\ files \in FileSets
    /\ pc = "parse"
    /\ unit = 1
    /\ format = "none" /\ sources = <<>> /\ depth = 1
    /\ global_sources = <<>> /\ src_unit = <<>> /\ unit_window = <<>> /\ opens = <<>>
    /\ emptied = {}

\* parse_config's checks of an entry and of the entries before it.
ValidEntry(u) ==
    /\ Replay(u).kind \in {"book", "trade"}
    /\ Replay(u).format \in {"csv", "json", "auto"}
    /\ Replay(u).path # ""
    /\ \A v \in 1 .. u - 1 : Replay(v).path # Replay(u).path
    /\ Replay(u).start <= Replay(u).end

ParseConfig ==
    /\ pc = "parse"
    /\ pc' = IF config.parses /\ ~BadRealtime(config.realtime) /\ Units # {} /\ \A u \in Units : ValidEntry(u)
             THEN "override" ELSE "exit"
    /\ UNCHANGED <<config, override, files, unit, unitVars, lists, emptied>>

\* apply_overrides, which checks the range of realtime again, and the log level.
ApplyOverrides ==
    /\ pc = "override"
    /\ config' = IF override \in {NotGiven, BadValue} THEN config
                 ELSE [config EXCEPT !.realtime = override]
    /\ pc' = IF override = BadValue \/ BadRealtime(config'.realtime) THEN "exit" ELSE "format"
    /\ UNCHANGED <<override, files, unit, unitVars, lists, emptied>>

\* format = "auto": exactly one of csv and json must be there.
ChooseFormat ==
    /\ pc = "format" /\ unit \in Units
    /\ LET r == Replay(unit)
           there == {fmt \in {"csv", "json"} : discover(r.dir, r.kind, fmt) # {}}
       IN  IF r.format = "auto" /\ Cardinality(there) # 1
           THEN /\ pc' = "exit" /\ UNCHANGED format
           ELSE /\ pc' = "load"
                /\ format' = IF r.format = "auto" THEN CHOOSE fmt \in there : TRUE ELSE r.format
    /\ UNCHANGED <<config, override, files, unit, sources, depth, lists, emptied>>

LoadSources ==
    /\ pc = "load"
    /\ sources' = load_sources(Replay(unit).dir, Replay(unit).kind, format)
    /\ pc' = IF HasSources(sources') THEN "depth" ELSE "exit"
    /\ UNCHANGED <<config, override, files, unit, format, depth, lists, emptied>>

DetectDepth ==
    /\ pc = "depth"
    /\ \/ /\ Replay(unit).kind = "book" /\ ~DepthsAgree(sources)
          /\ pc' = "exit" /\ UNCHANGED depth
       \/ /\ Replay(unit).kind # "book" \/ Depths(sources) = {}
          /\ pc' = "open" /\ depth' = 1
       \/ /\ Replay(unit).kind = "book" /\ DepthsAgree(sources)
          /\ \E i \in DOMAIN sources :
                /\ sources[i].depth # 0 /\ \A j \in 1 .. i - 1 : sources[j].depth = 0
                /\ pc' = "open" /\ depth' = sources[i].depth
    /\ UNCHANGED <<config, override, files, unit, format, sources, lists, emptied>>

\* open_output fails: after O_TRUNC, on a segment that does not match, on none.
OpenFails ==
    /\ pc = "open"
    /\ pc' = "exit"
    /\ emptied' \in {emptied, IF Replay(unit).create THEN emptied \cup {unit} ELSE emptied}
    /\ UNCHANGED <<config, override, files, unit, unitVars, lists>>

ForgetsWindow(u) == unit_window
\* unit_window.emplace_back(rc.start_ns, rc.end_ns)
WithWindow(u) == Append(unit_window, [start |-> Replay(u).start, end |-> Replay(u).end])

\* open_output succeeds; the unit's sources, output and window are appended.
OpenOutput ==
    /\ pc = "open"
    /\ opens' = Append(opens, [path |-> Replay(unit).path, segment |-> SegmentOf(Replay(unit).kind, depth)])
    /\ global_sources' = global_sources \o sources
    /\ src_unit' = src_unit \o [i \in DOMAIN sources |-> unit]
    /\ unit_window' = WithWindow(unit)
    /\ emptied' = IF Replay(unit).create THEN emptied \cup {unit} ELSE emptied
    /\ unit' = unit + 1
    /\ pc' = "format"
    /\ UNCHANGED <<config, override, files, unitVars>>

\* All units are open: replay() is called with the lists.
CallReplay ==
    /\ pc = "format" /\ unit \notin Units
    /\ pc' = "replay"
    /\ UNCHANGED <<config, override, files, unit, unitVars, lists, emptied>>

Next ==
    \/ ParseConfig \/ ApplyOverrides \/ ChooseFormat \/ LoadSources \/ DetectDepth
    \/ OpenFails \/ OpenOutput \/ CallReplay

Spec == Init /\ [][Next]_vars

-----------------------------------------------------------------------------
(* Properties *)

\* Every variable has its type, and the lists grow unit by unit together.
TypeOK ==
    /\ pc \in {"parse", "override", "format", "load", "depth", "open", "replay", "exit"}
    /\ unit \in 1 .. Len(config.replays) + 1
    /\ format \in {"none", "csv", "json"}
    /\ sources \in Seq(files) /\ global_sources \in Seq(files)
    /\ depth \in Nat \ {0}
    /\ src_unit \in Seq(1 .. unit - 1) /\ Len(global_sources) = Len(src_unit)
    /\ opens \in Seq([path : STRING, segment : {"TradeRing", "BookTickBoard", "DepthBoard"}])
    /\ unit_window \in Seq([start : Int, end : Int])
    /\ Len(opens) = unit - 1 /\ Len(unit_window) = unit - 1
    /\ emptied \subseteq Units

\* replay() indexes by unit: every source is routed to the output and cut to the
\* window of the very entry it was loaded for, and the segment there is of the
\* type its records need.
RoutesAgree ==
    pc = "replay" => \A i \in DOMAIN global_sources :
        LET u == src_unit[i]
            s == global_sources[i]
        IN  /\ s.dir = Replay(u).dir /\ s.kind = Replay(u).kind
            /\ opens[u].path = Replay(u).path
            /\ unit_window[u] = [start |-> Replay(u).start, end |-> Replay(u).end]
            /\ s.kind = "trade" => opens[u].segment = "TradeRing"
            /\ s.kind = "book" /\ s.depth # 0 =>
                   opens[u].segment = IF s.depth = 1 THEN "BookTickBoard" ELSE "DepthBoard"

\* merge.hpp:9-10: the place of a source in the global list is decided by unit
\* and path alone, never by how a directory happens to be listed.
SourcesAreUnitMajor ==
    \A i, j \in DOMAIN global_sources : i < j =>
        \/ src_unit[i] < src_unit[j]
        \/ src_unit[i] = src_unit[j] /\ global_sources[i].path < global_sources[j].path

\* A segment is emptied only for a unit whose input was found usable: a unit with
\* no files, an ambiguous format or mixed depths leaves its old segment alone.
EmptiedForUsableInput ==
    \A u \in emptied :
        \E fmt \in {"csv", "json"} :
            LET ss == load_sources(Replay(u).dir, Replay(u).kind, fmt)
            IN  /\ Replay(u).format \in {fmt, "auto"}
                /\ ss # <<>>
                /\ Replay(u).kind = "book" => Cardinality(Depths(ss)) <= 1
=============================================================================
