------------------------------ MODULE Segment ------------------------------
(***************************************************************************)
(* One shared-memory segment under its name: ShmSegment::open, creating    *)
(* and attaching, with seg_init and seg_check of its header.  Processes    *)
(* that open the same name run at the same time - two replays, a replay    *)
(* and its consumers - end or are killed anywhere and start again.         *)
(*                                                                         *)
(* A layout is what a process was compiled with: [kind, entry, capacity,   *)
(* schema].  The object is measured in pages; the header is in page 0.  An *)
(* access beyond the end of the object is SIGBUS, "faulted" here.  Header  *)
(* fields are plain memory: seg_init stores them in any order.  seg_check  *)
(* reads them in the order of its tests; as the stores come in any order,  *)
(* reading in another one shows it nothing more.                           *)
(***************************************************************************)
EXTENDS Naturals, Sequences, FiniteSets

CONSTANTS Processes,
          Creators,     \* those that open with create = true
          LayoutOf,     \* LayoutOf[p]: the layout p asks for
          MaxStarts     \* MaxStarts[p], bound: times p is started

ASSUME CreatorsAssumption == Creators \subseteq Processes /\ IsFiniteSet(Creators)
ASSUME LayoutAssumption ==
    \A p \in Processes :
        LayoutOf[p] \in [kind : Nat \ {0}, entry : Nat \ {0}, capacity : Nat \ {0}, schema : Nat \ {0}]
ASSUME StartsAssumption == \A p \in Processes : MaxStarts[p] \in Nat

VARIABLES
    exists,    \* the name exists
    size,      \* pages of the object
    header,    \* header[f]: field f, 0 in a zeroed page
    pc,        \* where p is in ShmSegment::open
    todo,      \* header fields p has still to store
    test,      \* the test of seg_check that p is at
    error,     \* the SegError or Error that p's open returned
    starts     \* times p was started                              (bound)

vars == <<exists, size, header, pc, todo, test, error, starts>>

Fields == {"magic", "version", "kind", "entry", "capacity", "schema"}
kSegMagic == 1
kLayoutVer == 2
Zeroed == [f \in Fields |-> 0]

\* The header that seg_init leaves for a layout.
HeaderOf(layout) ==
    [f \in Fields |-> CASE f = "magic" -> kSegMagic
                        [] f = "version" -> kLayoutVer
                        [] OTHER -> layout[f]]

\* sizeof the segment: the header and the array of entries.
PagesOf(layout) == 1 + layout.entry * layout.capacity

-----------------------------------------------------------------------------
(* The decisions of the code, each preceded by the forms that a bug would    *)
(* give it.                                                                  *)

SizeUnchecked(p, f) == f \in {"entry", "capacity"} \/ header[f] = HeaderOf(LayoutOf[p])[f]
\* One test of seg_check: the field is what this process was compiled with.
Matches(p, f) == header[f] = HeaderOf(LayoutOf[p])[f]

\* The tests of seg_check, in order, and what each of them returns.
Tests == <<"magic", "version", "kind", "entry", "capacity", "schema">>
ErrorOf(f) == CASE f = "magic" -> "BadMagic"
                [] f = "version" -> "BadVersion"
                [] f = "kind" -> "BadKind"
                [] f \in {"entry", "capacity"} -> "AbiMismatch"
                [] f = "schema" -> "SchemaDrift"

Init ==
    /\ exists = FALSE
    /\ size = 0
    /\ header = Zeroed
    /\ pc = [p \in Processes |-> "off"]
    /\ todo = [p \in Processes |-> {}]
    /\ test = [p \in Processes |-> 1]
    /\ error = [p \in Processes |-> "Ok"]
    /\ starts = [p \in Processes |-> 0]

-----------------------------------------------------------------------------
(* ShmSegment::open *)

Start(p) ==
    /\ pc[p] = "off" /\ starts[p] < MaxStarts[p]
    /\ starts' = [starts EXCEPT ![p] = @ + 1]

\* shm_open with O_CREAT | O_TRUNC empties the object, mapped elsewhere or not.
OpenCreate(p) ==
    /\ p \in Creators /\ Start(p)
    /\ exists' = TRUE
    /\ size' = 0
    /\ header' = Zeroed
    /\ pc' = [pc EXCEPT ![p] = "resize"]
    /\ UNCHANGED <<todo, test, error>>

TruncateToHeader(p) ==
    /\ pc[p] = "resize"
    /\ size' = 1
    /\ pc' = [pc EXCEPT ![p] = "map"]
    /\ UNCHANGED <<exists, header, todo, test, error, starts>>
\* ftruncate to the size of the layout: new pages are zeroed.
Truncate(p) ==
    /\ pc[p] = "resize"
    /\ size' = PagesOf(LayoutOf[p])
    /\ pc' = [pc EXCEPT ![p] = "map"]
    /\ UNCHANGED <<exists, header, todo, test, error, starts>>

\* mmap succeeds, whatever the size has become.
Map(p) ==
    /\ pc[p] = "map"
    /\ pc' = [pc EXCEPT ![p] = "init"]
    /\ todo' = [todo EXCEPT ![p] = Fields]
    /\ UNCHANGED <<exists, size, header, test, error, starts>>

\* shm_open without O_CREAT; mmap succeeds whatever the size of the object.
OpenAttach(p) ==
    /\ p \notin Creators /\ exists /\ Start(p)
    /\ pc' = [pc EXCEPT ![p] = "check"]
    /\ test' = [test EXCEPT ![p] = 1]
    /\ UNCHANGED <<exists, size, header, todo, error>>

\* Error::ShmOpen: shm_open fails (there may be no such name to attach to), or mmap
\* does when attaching; or ftruncate or mmap fails after O_TRUNC.  What was done to
\* the object by then stays done.
OpenFails(p) ==
    /\ Start(p) \/ (pc[p] \in {"resize", "map"} /\ UNCHANGED starts)
    /\ pc' = [pc EXCEPT ![p] = "refused"]
    /\ error' = [error EXCEPT ![p] = "ShmOpen"]
    /\ UNCHANGED <<exists, size, header, todo, test>>

\* seg_init stores one field.
StoreField(p, f) ==
    /\ pc[p] = "init" /\ f \in todo[p] /\ size > 0
    /\ header' = [header EXCEPT ![f] = HeaderOf(LayoutOf[p])[f]]
    /\ todo' = [todo EXCEPT ![p] = @ \ {f}]
    /\ UNCHANGED <<exists, size, pc, test, error, starts>>

InitEnds(p) ==
    /\ pc[p] = "init" /\ todo[p] = {}
    /\ pc' = [pc EXCEPT ![p] = "open"]
    /\ error' = [error EXCEPT ![p] = "Ok"]
    /\ UNCHANGED <<exists, size, header, todo, test, starts>>

\* A test of seg_check passes; after the last one the segment is Ok.
TestPasses(p) ==
    /\ pc[p] = "check" /\ size > 0 /\ Matches(p, Tests[test[p]])
    /\ IF test[p] < Len(Tests)
       THEN /\ test' = [test EXCEPT ![p] = @ + 1]
            /\ UNCHANGED <<pc, error>>
       ELSE /\ pc' = [pc EXCEPT ![p] = "open"]
            /\ error' = [error EXCEPT ![p] = "Ok"]
            /\ UNCHANGED test
    /\ UNCHANGED <<exists, size, header, todo, starts>>

\* A test fails: SchemaDrift is tolerated, anything else refuses the segment.
TestFails(p) ==
    /\ pc[p] = "check" /\ size > 0 /\ ~Matches(p, Tests[test[p]])
    /\ LET e == ErrorOf(Tests[test[p]])
       IN  /\ pc' = [pc EXCEPT ![p] = IF e = "SchemaDrift" THEN "open" ELSE "refused"]
           /\ error' = [error EXCEPT ![p] = e]
    /\ UNCHANGED <<exists, size, header, todo, test, starts>>

\* The header of an empty object, or an entry past the end of a shorter one.
Fault(p) ==
    /\ \/ pc[p] = "init" /\ todo[p] # {} /\ size = 0
       \/ pc[p] = "check" /\ size = 0
       \/ pc[p] = "open" /\ size < PagesOf(LayoutOf[p])
    /\ pc' = [pc EXCEPT ![p] = "faulted"]
    /\ UNCHANGED <<exists, size, header, todo, test, error, starts>>

\* The process ends or is killed; the object stays under its name.
End(p) ==
    /\ pc[p] # "off"
    /\ pc' = [pc EXCEPT ![p] = "off"]
    /\ todo' = [todo EXCEPT ![p] = {}]
    /\ test' = [test EXCEPT ![p] = 1]
    /\ error' = [error EXCEPT ![p] = "Ok"]
    /\ UNCHANGED <<exists, size, header, starts>>

Next ==
    \E p \in Processes :
        \/ OpenCreate(p) \/ Truncate(p) \/ Map(p) \/ OpenAttach(p) \/ OpenFails(p)
        \/ \E f \in Fields : StoreField(p, f)
        \/ InitEnds(p) \/ TestPasses(p) \/ TestFails(p) \/ Fault(p) \/ End(p)

Spec == Init /\ [][Next]_vars

-----------------------------------------------------------------------------
(* Properties *)

FieldValues(f) == {0} \cup {HeaderOf(LayoutOf[p])[f] : p \in Processes}

\* Every variable has its type.
TypeOK ==
    /\ exists \in BOOLEAN
    /\ size \in {0} \cup {PagesOf(LayoutOf[p]) : p \in Processes}
    /\ header \in [Fields -> Nat] /\ \A f \in Fields : header[f] \in FieldValues(f)
    /\ pc \in [Processes -> {"off", "resize", "map", "init", "check", "open", "refused", "faulted"}]
    /\ todo \in [Processes -> SUBSET Fields]
    /\ test \in [Processes -> 1 .. Len(Tests)]
    /\ error \in [Processes -> {"Ok", "BadMagic", "BadVersion", "BadKind", "AbiMismatch",
                                "SchemaDrift", "ShmOpen"}]
    /\ starts \in [Processes -> Nat] /\ \A p \in Processes : starts[p] <= MaxStarts[p]

Attached(p) == p \notin Creators /\ pc[p] = "open"
SameShape(a, b) == a.kind = b.kind /\ a.entry = b.entry /\ a.capacity = b.capacity

\* When all creators of a name agree on the layout, an attaching process gets in
\* only with the same kind, entry size and capacity: not on a header half
\* written, not on one that a killed creator left, not while another creator
\* empties the segment.
OnlySameShapeAttaches ==
    (\A c, d \in Creators : LayoutOf[c] = LayoutOf[d]) =>
        \A p \in Processes, c \in Creators : Attached(p) => SameShape(LayoutOf[p], LayoutOf[c])

\* A segment that is created once never fails its consumers: an attached process
\* finds every entry of its layout inside the object, at all times.
AttachedIsBacked ==
    Cardinality(Creators) = 1 /\ (\A c \in Creators : starts[c] <= 1) =>
        \A p \in Processes : Attached(p) => size = PagesOf(LayoutOf[p])
=============================================================================
