--------------------------- MODULE SegmentProofs ---------------------------
(***************************************************************************)
(* What ShmSegment::open and seg_check guarantee for any number of         *)
(* processes of any layouts, started any number of times.                  *)
(***************************************************************************)
EXTENDS Segment, FiniteSetTheorems, TLAPS

Steps == {"off", "resize", "map", "init", "check", "open", "refused", "faulted"}
Errors == {"Ok", "BadMagic", "BadVersion", "BadKind", "AbiMismatch", "SchemaDrift", "ShmOpen"}

-----------------------------------------------------------------------------
(* The header and the sizes that a layout gives. *)

\* What seg_init stores in a field is never the 0 of an empty page.
LEMMA HeaderIsSet ==
    \A p \in Processes, f \in Fields : HeaderOf(LayoutOf[p])[f] \in Nat \ {0}
<1> TAKE p \in Processes, f \in Fields
<1>1. LayoutOf[p] \in [kind : Nat \ {0}, entry : Nat \ {0}, capacity : Nat \ {0}, schema : Nat \ {0}]
  BY LayoutAssumption
<1>2. CASE f = "magic"
  BY <1>2 DEF HeaderOf, Fields, kSegMagic
<1>3. CASE f = "version"
  BY <1>3 DEF HeaderOf, Fields, kLayoutVer
<1>4. CASE f \in {"kind", "entry", "capacity", "schema"}
  <2>1. HeaderOf(LayoutOf[p])[f] = LayoutOf[p][f]
    BY <1>4 DEF HeaderOf, Fields
  <2> QED
    BY <1>1, <1>4, <2>1
<1> QED
  BY <1>2, <1>3, <1>4 DEF Fields

\* The three fields that seg_check compares besides magic, version and schema.
LEMMA HeaderFields ==
    \A p \in Processes : /\ HeaderOf(LayoutOf[p])["kind"] = LayoutOf[p].kind
                         /\ HeaderOf(LayoutOf[p])["entry"] = LayoutOf[p].entry
                         /\ HeaderOf(LayoutOf[p])["capacity"] = LayoutOf[p].capacity
BY DEF HeaderOf, Fields

LEMMA TestsAreFields ==
    /\ Len(Tests) = 6
    /\ \A i \in 1 .. 6 : Tests[i] \in Fields /\ ErrorOf(Tests[i]) \in Errors
    /\ Tests[3] = "kind" /\ Tests[4] = "entry" /\ Tests[5] = "capacity" /\ Tests[6] = "schema"
    /\ \A i \in 1 .. 6 : ErrorOf(Tests[i]) = "SchemaDrift" => i = 6
<1>1. /\ Len(Tests) = 6
      /\ Tests[1] = "magic" /\ Tests[2] = "version" /\ Tests[3] = "kind"
      /\ Tests[4] = "entry" /\ Tests[5] = "capacity" /\ Tests[6] = "schema"
  BY DEF Tests
<1>2. \A i \in 1 .. 6 : i = 1 \/ i = 2 \/ i = 3 \/ i = 4 \/ i = 5 \/ i = 6
  OBVIOUS
<1>3. \A i \in 1 .. 6 : Tests[i] \in Fields
  BY <1>1, <1>2 DEF Fields
<1>4. /\ ErrorOf("magic") = "BadMagic" /\ ErrorOf("version") = "BadVersion"
      /\ ErrorOf("kind") = "BadKind" /\ ErrorOf("entry") = "AbiMismatch"
      /\ ErrorOf("capacity") = "AbiMismatch" /\ ErrorOf("schema") = "SchemaDrift"
  BY DEF ErrorOf
<1>5. \A i \in 1 .. 6 : ErrorOf(Tests[i]) \in Errors /\ (ErrorOf(Tests[i]) = "SchemaDrift" => i = 6)
  <2> TAKE i \in 1 .. 6
  <2> QED
    BY <1>1, <1>2, <1>4 DEF Errors
<1> QED
  BY <1>1, <1>3, <1>5

LEMMA PagesArePositive == \A p \in Processes : PagesOf(LayoutOf[p]) \in Nat \ {0}
<1> TAKE p \in Processes
<1>1. LayoutOf[p].entry \in Nat /\ LayoutOf[p].capacity \in Nat
  BY LayoutAssumption
<1>2. \A a, b \in Nat : 1 + a * b \in Nat \ {0}
  OBVIOUS
<1> QED
  BY <1>1, <1>2 DEF PagesOf

-----------------------------------------------------------------------------
(* Type correctness *)

LEMMA InitTypeOK == Init => TypeOK
<1> SUFFICES ASSUME Init PROVE TypeOK
  OBVIOUS
<1>1. header \in [Fields -> Nat] /\ \A f \in Fields : header[f] \in FieldValues(f)
  BY DEF Init, Zeroed, FieldValues
<1>2. test \in [Processes -> 1 .. Len(Tests)]
  BY TestsAreFields DEF Init
<1>3. starts \in [Processes -> Nat] /\ \A p \in Processes : starts[p] <= MaxStarts[p]
  BY StartsAssumption DEF Init
<1> QED
  BY <1>1, <1>2, <1>3 DEF Init, TypeOK

LEMMA NextTypeOK == TypeOK /\ [Next]_vars => TypeOK'
<1> SUFFICES ASSUME TypeOK, [Next]_vars PROVE TypeOK'
  OBVIOUS
<1> USE DEF TypeOK
<1>0. ASSUME NEW p \in Processes, Start(p)
      PROVE  starts' \in [Processes -> Nat] /\ \A q \in Processes : starts'[q] <= MaxStarts[q]
  BY <1>0, StartsAssumption DEF Start
<1>1. ASSUME NEW p \in Processes, OpenCreate(p) PROVE TypeOK'
  <2>1. header' \in [Fields -> Nat] /\ \A f \in Fields : header'[f] \in FieldValues(f)'
    BY <1>1 DEF OpenCreate, Zeroed, FieldValues
  <2> QED
    BY <1>0, <1>1, <2>1 DEF OpenCreate, FieldValues
<1>2. ASSUME NEW p \in Processes, Truncate(p) PROVE TypeOK'
  BY <1>2 DEF Truncate, FieldValues
<1>3. ASSUME NEW p \in Processes, OpenAttach(p) PROVE TypeOK'
  BY <1>0, <1>3, TestsAreFields DEF OpenAttach, FieldValues
<1>4. ASSUME NEW p \in Processes, OpenFails(p) PROVE TypeOK'
  BY <1>0, <1>4 DEF OpenFails, FieldValues
<1>5. ASSUME NEW p \in Processes, NEW f \in Fields, StoreField(p, f) PROVE TypeOK'
  <2>1. header' \in [Fields -> Nat] /\ \A g \in Fields : header'[g] \in FieldValues(g)'
    BY <1>5, HeaderIsSet DEF StoreField, FieldValues
  <2> QED
    BY <1>5, <2>1 DEF StoreField
<1>6. ASSUME NEW p \in Processes, InitEnds(p) PROVE TypeOK'
  BY <1>6 DEF InitEnds, FieldValues
<1>7. ASSUME NEW p \in Processes, TestPasses(p) PROVE TypeOK'
  BY <1>7, TestsAreFields DEF TestPasses, FieldValues
<1>8. ASSUME NEW p \in Processes, TestFails(p) PROVE TypeOK'
  <2>1. ErrorOf(Tests[test[p]]) \in Errors
    BY TestsAreFields
  <2> QED
    BY <1>8, <2>1 DEF TestFails, FieldValues, Errors
<1>9. ASSUME NEW p \in Processes, Fault(p) PROVE TypeOK'
  BY <1>9 DEF Fault, FieldValues
<1>10. ASSUME NEW p \in Processes, End(p) PROVE TypeOK'
  BY <1>10, TestsAreFields DEF End, FieldValues
<1>11. CASE UNCHANGED vars
  BY <1>11 DEF vars, FieldValues
<1>12. ASSUME NEW p \in Processes, Map(p) PROVE TypeOK'
  BY <1>12 DEF Map, FieldValues
<1> QED
  BY <1>1, <1>2, <1>3, <1>4, <1>5, <1>6, <1>7, <1>8, <1>9, <1>10, <1>11, <1>12 DEF Next

\* Every reachable state of a segment and of the processes that open it is well
\* typed: the header never holds a value that no process stores there.
THEOREM TypeCorrect == Spec => []TypeOK
BY InitTypeOK, NextTypeOK, PTL DEF Spec

-----------------------------------------------------------------------------
(* Who gets in: creators of one layout and processes of any layout attaching *)
(* at any instant of a creation, of a second one, or of one cut short.       *)

OneLayout == \A c, d \in Creators : LayoutOf[c] = LayoutOf[d]

\* Every field that is set was set by a creator.
HeaderInv == \A f \in Fields :
    header[f] = 0 \/ \E c \in Creators : header[f] = HeaderOf(LayoutOf[c])[f]

\* The layout of p agrees with a creator's in the tests before the n-th.
Passed(p, n) == \A i \in 1 .. 6 : i < n =>
    \E c \in Creators : HeaderOf(LayoutOf[p])[Tests[i]] = HeaderOf(LayoutOf[c])[Tests[i]]

\* A field may change after its test, but only to 0 and back: whoever passes a
\* test has the layout of a creator in that field, whenever the test was made.
\* Only creators store.
PassedInv == \A p \in Processes :
    /\ pc[p] \in {"resize", "map", "init"} => p \in Creators
    /\ pc[p] = "check" => Passed(p, test[p])
    /\ Attached(p) => Passed(p, 6)

ShapeInv == TypeOK /\ HeaderInv /\ PassedInv

LEMMA InitShapeInv == Init => ShapeInv
BY InitTypeOK DEF Init, ShapeInv, HeaderInv, PassedInv, Attached, Zeroed

LEMMA NextShapeInv == ASSUME ShapeInv, [Next]_vars PROVE ShapeInv'
<1> DEFINE Goal == HeaderInv' /\ PassedInv'
<1>0. TypeOK /\ TypeOK' /\ HeaderInv /\ PassedInv
  BY NextTypeOK DEF ShapeInv
<1>a. /\ header \in [Fields -> Nat] /\ pc \in [Processes -> Steps]
      /\ test \in [Processes -> 1 .. 6]
  BY <1>0, TestsAreFields DEF TypeOK, Steps
<1>b. \A p \in Processes, n, m \in Nat : Passed(p, n) /\ m <= n => Passed(p, m)
  BY DEF Passed
<1>c. \A p \in Processes : Passed(p, 1)
  BY DEF Passed
<1> SUFFICES Goal
  BY <1>0 DEF ShapeInv
<1>1. ASSUME NEW p \in Processes, OpenCreate(p) PROVE Goal
  BY <1>0, <1>a, <1>1 DEF OpenCreate, HeaderInv, PassedInv, Attached, Zeroed
<1>2. ASSUME NEW p \in Processes, Truncate(p) PROVE Goal
  BY <1>0, <1>a, <1>2 DEF Truncate, HeaderInv, PassedInv, Attached
<1>3. ASSUME NEW p \in Processes, OpenAttach(p) PROVE Goal
  BY <1>0, <1>a, <1>c, <1>3 DEF OpenAttach, HeaderInv, PassedInv, Attached
<1>4. ASSUME NEW p \in Processes, OpenFails(p) PROVE Goal
  BY <1>0, <1>a, <1>4 DEF OpenFails, HeaderInv, PassedInv, Attached
<1>5. ASSUME NEW p \in Processes, NEW f \in Fields, StoreField(p, f) PROVE Goal
  <2>1. p \in Creators
    BY <1>0, <1>5 DEF StoreField, PassedInv
  <2>2. HeaderInv'
    BY <1>0, <1>a, <1>5, <2>1 DEF StoreField, HeaderInv
  <2> QED
    BY <1>0, <1>5, <2>2 DEF StoreField, PassedInv, Attached
<1>6. ASSUME NEW p \in Processes, InitEnds(p) PROVE Goal
  BY <1>0, <1>a, <1>6 DEF InitEnds, HeaderInv, PassedInv, Attached
\* A field that matches is not 0, so a creator has stored it.
<1>7. ASSUME NEW p \in Processes, TestPasses(p) PROVE Goal
  <2>1. \E c \in Creators :
           HeaderOf(LayoutOf[p])[Tests[test[p]]] = HeaderOf(LayoutOf[c])[Tests[test[p]]]
    <3>1. Tests[test[p]] \in Fields
      BY <1>a, TestsAreFields
    <3>2. header[Tests[test[p]]] = HeaderOf(LayoutOf[p])[Tests[test[p]]]
      BY <1>7 DEF TestPasses, Matches
    <3>3. header[Tests[test[p]]] # 0
      BY <3>1, <3>2, HeaderIsSet
    <3> QED
      BY <1>0, <3>1, <3>2, <3>3 DEF HeaderInv
  <2>2. Passed(p, test[p])
    BY <1>0, <1>7 DEF TestPasses, PassedInv
  <2>3. Passed(p, test[p] + 1)
    BY <1>a, <2>1, <2>2 DEF Passed
  <2>4. HeaderInv'
    BY <1>0, <1>7 DEF TestPasses, HeaderInv
  <2>5. CASE test[p] < 6
    <3>1. test' = [test EXCEPT ![p] = @ + 1] /\ pc' = pc
      BY <1>7, <2>5, TestsAreFields DEF TestPasses
    <3> QED
      BY <1>0, <1>a, <2>3, <2>4, <3>1 DEF PassedInv, Attached
  <2>6. CASE test[p] = 6
    <3>1. pc' = [pc EXCEPT ![p] = "open"] /\ test' = test
      BY <1>7, <2>6, TestsAreFields DEF TestPasses
    <3>2. Passed(p, 6)
      BY <2>2, <2>6
    <3> QED
      BY <1>0, <1>a, <2>4, <3>1, <3>2 DEF PassedInv, Attached
  <2> QED
    BY <1>a, <2>5, <2>6
\* A failed test lets the process in only when it was the one of the schema.
<1>8. ASSUME NEW p \in Processes, TestFails(p) PROVE Goal
  <2>1. /\ pc' = [pc EXCEPT ![p] = IF ErrorOf(Tests[test[p]]) = "SchemaDrift"
                                   THEN "open" ELSE "refused"]
        /\ UNCHANGED <<header, test>> /\ pc[p] = "check"
    BY <1>8 DEF TestFails
  <2>2. pc'[p] = "open" => Passed(p, 6)
    BY <1>0, <1>a, <2>1, TestsAreFields DEF PassedInv
  <2> QED
    BY <1>0, <1>a, <2>1, <2>2 DEF HeaderInv, PassedInv, Attached
<1>9. ASSUME NEW p \in Processes, Fault(p) PROVE Goal
  BY <1>0, <1>a, <1>9 DEF Fault, HeaderInv, PassedInv, Attached
<1>10. ASSUME NEW p \in Processes, End(p) PROVE Goal
  BY <1>0, <1>a, <1>10 DEF End, HeaderInv, PassedInv, Attached
<1>11. CASE UNCHANGED vars
  BY <1>0, <1>11 DEF vars, HeaderInv, PassedInv, Attached
<1>12. ASSUME NEW p \in Processes, Map(p) PROVE Goal
  BY <1>0, <1>a, <1>12 DEF Map, HeaderInv, PassedInv, Attached
<1> QED
  BY <1>1, <1>2, <1>3, <1>4, <1>5, <1>6, <1>7, <1>8, <1>9, <1>10, <1>11, <1>12 DEF Next

LEMMA PassedIsSameShape == ASSUME ShapeInv PROVE OnlySameShapeAttaches
<1> SUFFICES ASSUME OneLayout, NEW p \in Processes, NEW c \in Creators, Attached(p)
             PROVE  SameShape(LayoutOf[p], LayoutOf[c])
  BY DEF OnlySameShapeAttaches, OneLayout
<1>1. Passed(p, 6)
  BY DEF ShapeInv, PassedInv
<1>2. c \in Processes /\ \A d \in Creators : LayoutOf[d] = LayoutOf[c]
  BY CreatorsAssumption DEF OneLayout
<1>3. \A i \in 3 .. 5 : HeaderOf(LayoutOf[p])[Tests[i]] = HeaderOf(LayoutOf[c])[Tests[i]]
  BY <1>1, <1>2 DEF Passed
<1>4. /\ HeaderOf(LayoutOf[p])["kind"] = HeaderOf(LayoutOf[c])["kind"]
      /\ HeaderOf(LayoutOf[p])["entry"] = HeaderOf(LayoutOf[c])["entry"]
      /\ HeaderOf(LayoutOf[p])["capacity"] = HeaderOf(LayoutOf[c])["capacity"]
  BY <1>3, TestsAreFields
<1> QED
  BY <1>2, <1>4, HeaderFields DEF SameShape

\* With any number of processes that create a segment of one layout, are killed
\* and start again, no process of another kind, entry size or capacity is ever
\* attached, although the six header fields are neither stored nor read at once.
THEOREM OnlySameShapeGetsIn == Spec => []OnlySameShapeAttaches
<1>1. ShapeInv /\ [Next]_vars => ShapeInv'
  BY NextShapeInv
<1>2. ShapeInv => OnlySameShapeAttaches
  BY PassedIsSameShape
<1> QED
  BY <1>1, <1>2, InitShapeInv, PTL DEF Spec

-----------------------------------------------------------------------------
(* One life of a segment: its only creator has been started at most once.    *)

\* Whoever holds evidence of the header knows that the object has its full size:
\* the size is set before the first field is stored and never changed again.
BackedBy(c) ==
    LET full == size = PagesOf(LayoutOf[c])
    IN  /\ starts[c] = 0 => ~exists
        /\ pc[c] = "resize" => exists /\ header = Zeroed
        /\ pc[c] \in {"map", "init"} => full
        /\ \A f \in Fields : header[f] # 0 => full
        /\ ~exists => size = 0 /\ header = Zeroed /\ \A p \in Processes : pc[p] # "check" /\ ~Attached(p)
        /\ \A p \in Processes : pc[p] = "check" /\ test[p] > 1 => full
        /\ \A p \in Processes : Attached(p) => full

LifeInv == ShapeInv /\ \A c \in Creators : Creators = {c} /\ starts[c] <= 1 => BackedBy(c)

LEMMA InitLifeInv == Init => LifeInv
<1> SUFFICES ASSUME Init PROVE \A c \in Creators : BackedBy(c)
  BY InitShapeInv DEF LifeInv
<1> QED
  BY CreatorsAssumption DEF Init, BackedBy, Attached, Zeroed

LEMMA NextLifeInv == ASSUME LifeInv, [Next]_vars PROVE LifeInv'
<1>1. ShapeInv /\ ShapeInv' /\ TypeOK /\ TypeOK' /\ PassedInv
  BY NextShapeInv DEF LifeInv, ShapeInv
<1> SUFFICES ASSUME NEW c \in Creators, Creators = {c}, starts'[c] <= 1
             PROVE  BackedBy(c)'
  BY <1>1 DEF LifeInv
<1>a. /\ header \in [Fields -> Nat] /\ pc \in [Processes -> Steps]
      /\ test \in [Processes -> 1 .. 6] /\ starts \in [Processes -> Nat] /\ c \in Processes
  BY <1>1, TestsAreFields, CreatorsAssumption DEF TypeOK, Steps
<1>b. PagesOf(LayoutOf[c]) \in Nat \ {0}
  BY <1>a, PagesArePositive
<1>c. starts[c] <= starts'[c]
  BY <1>a DEF Next, vars, OpenCreate, Truncate, Map, OpenAttach, OpenFails, Start, StoreField,
              InitEnds, TestPasses, TestFails, Fault, End
<1>2. BackedBy(c)
  BY <1>1, <1>a, <1>c DEF LifeInv, TypeOK
\* The one creation: nothing was there before.
<1>3. ASSUME NEW p \in Processes, OpenCreate(p) PROVE BackedBy(c)'
  <2>1. p = c /\ starts[c] = 0 /\ ~exists
    BY <1>2, <1>3, <1>a DEF OpenCreate, Start, BackedBy
  <2>2. \A q \in Processes : pc'[q] # "check" /\ ~Attached(q)'
    BY <1>2, <1>3, <1>a, <2>1 DEF OpenCreate, BackedBy, Attached
  <2> QED
    BY <1>3, <1>a, <2>1, <2>2 DEF OpenCreate, Start, BackedBy, Zeroed
<1>4. ASSUME NEW p \in Processes, Truncate(p) PROVE BackedBy(c)'
  <2>1. p = c
    BY <1>1, <1>4 DEF Truncate, PassedInv
  <2> QED
    BY <1>2, <1>4, <1>a, <2>1 DEF Truncate, BackedBy, Attached, Zeroed
<1>5. ASSUME NEW p \in Processes, OpenAttach(p) PROVE BackedBy(c)'
  BY <1>2, <1>5, <1>a DEF OpenAttach, Start, BackedBy, Attached
<1>6. ASSUME NEW p \in Processes, OpenFails(p) PROVE BackedBy(c)'
  BY <1>2, <1>6, <1>a DEF OpenFails, Start, BackedBy, Attached
<1>7. ASSUME NEW p \in Processes, NEW f \in Fields, StoreField(p, f) PROVE BackedBy(c)'
  <2>1. p = c /\ size = PagesOf(LayoutOf[c]) /\ size > 0
    BY <1>1, <1>2, <1>7 DEF StoreField, PassedInv, BackedBy
  <2> QED
    BY <1>2, <1>7, <1>a, <1>b, <2>1 DEF StoreField, BackedBy, Attached
<1>8. ASSUME NEW p \in Processes, InitEnds(p) PROVE BackedBy(c)'
  BY <1>1, <1>2, <1>8, <1>a DEF InitEnds, BackedBy, Attached, PassedInv
\* A test that passes has seen a field that is not 0.
<1>9. ASSUME NEW p \in Processes, TestPasses(p) PROVE BackedBy(c)'
  <2>1. Tests[test[p]] \in Fields /\ header[Tests[test[p]]] # 0
    BY <1>9, <1>a, TestsAreFields, HeaderIsSet DEF TestPasses, Matches
  <2>2. size = PagesOf(LayoutOf[c])
    BY <1>2, <2>1 DEF BackedBy
  <2>3. exists
    BY <1>2, <1>9 DEF BackedBy, TestPasses
  <2> QED
    BY <1>2, <1>9, <1>a, <2>2, <2>3 DEF TestPasses, BackedBy, Attached
\* The test of the schema is not the first.
<1>10. ASSUME NEW p \in Processes, TestFails(p) PROVE BackedBy(c)'
  <2>1. ErrorOf(Tests[test[p]]) = "SchemaDrift" => size = PagesOf(LayoutOf[c])
    BY <1>2, <1>10, <1>a, TestsAreFields DEF TestFails, BackedBy
  <2>2. exists
    BY <1>2, <1>10 DEF BackedBy, TestFails
  <2>3. /\ pc' = [pc EXCEPT ![p] = IF ErrorOf(Tests[test[p]]) = "SchemaDrift"
                                   THEN "open" ELSE "refused"]
        /\ UNCHANGED <<exists, size, header, test, starts>>
    BY <1>10 DEF TestFails
  <2> QED
    BY <1>2, <1>a, <2>1, <2>2, <2>3 DEF BackedBy, Attached
<1>11. ASSUME NEW p \in Processes, Fault(p) PROVE BackedBy(c)'
  BY <1>2, <1>11, <1>a DEF Fault, BackedBy, Attached
<1>12. ASSUME NEW p \in Processes, End(p) PROVE BackedBy(c)'
  BY <1>2, <1>12, <1>a DEF End, BackedBy, Attached
<1>13. CASE UNCHANGED vars
  BY <1>2, <1>13 DEF vars, BackedBy, Attached
<1>14. ASSUME NEW p \in Processes, Map(p) PROVE BackedBy(c)'
  BY <1>1, <1>2, <1>14, <1>a DEF Map, BackedBy, Attached, PassedInv
<1> QED
  BY <1>3, <1>4, <1>5, <1>6, <1>7, <1>8, <1>9, <1>10, <1>11, <1>12, <1>13, <1>14 DEF Next

\* A segment that is created once is inside its object for every process that is
\* attached to it, whatever the sizes, at whatever instants of the creation the others open it.
THEOREM AttachedStaysBacked == Spec => []AttachedIsBacked
<1>1. LifeInv /\ [Next]_vars => LifeInv'
  BY NextLifeInv
<1>2. ASSUME LifeInv PROVE AttachedIsBacked
  <2> SUFFICES ASSUME Cardinality(Creators) = 1, \A c \in Creators : starts[c] <= 1,
                      NEW p \in Processes, Attached(p)
               PROVE  size = PagesOf(LayoutOf[p])
    BY DEF AttachedIsBacked
  <2>1. PICK c : Creators = {c}
    BY CreatorsAssumption, FS_Singleton
  <2>2. size = PagesOf(LayoutOf[c])
    BY <1>2, <2>1 DEF LifeInv, BackedBy
  <2>3. SameShape(LayoutOf[p], LayoutOf[c])
    BY <1>2, <2>1, PassedIsSameShape DEF LifeInv, OnlySameShapeAttaches
  <2> QED
    BY <2>2, <2>3 DEF SameShape, PagesOf
<1> QED
  BY <1>1, <1>2, InitLifeInv, PTL DEF Spec
=============================================================================
