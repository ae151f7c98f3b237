----------------------------- MODULE SourceProofs -----------------------------
(***************************************************************************)
(* Theorems about SourceTables: what the four backends, the gates, the     *)
(* predefined values and the loader of the source give, for any libraries  *)
(* and machines.  The hypotheses of DispatchProofs on gates and error      *)
(* codes are proved of the source here.                                    *)
(***************************************************************************)
EXTENDS SourceTables, DispatchProofs, MergingProofs

-----------------------------------------------------------------------------
(* The version gates.  In each of the six tables they are those of the MPI *)
(* standard.                                                               *)
Slots30 == {"matched_probe", "large_count", "nonblocking", "ialltoallw", "neighbor",
            "neighbor_vw", "comm_3x", "rma_3x"}
Slots31 == {"aint", "io_all", "comm_idup"}
SinceMPI(s) == IF s \in Slots30 THEN 30 ELSE IF s \in Slots31 THEN 31 ELSE 22

HasGates(b) == \A s \in DOMAIN b : {"since", "late"} \subseteq DOMAIN b[s]
Gated(b) == HasGates(b) /\ \A s \in DOMAIN b : b[s].since = SinceMPI(s)
Leveled(t) == \A s \in DOMAIN t : t[s] = SinceMPI(s)

LEMMA MergeHasGates ==
  ASSUME NEW f, NEW g, HasGates(f), HasGates(g) PROVE HasGates(f ++ g)
<1>1. ASSUME NEW s \in DOMAIN (f ++ g) PROVE {"since", "late"} \subseteq DOMAIN (f ++ g)[s]
  <2>1. s \in DOMAIN f \/ s \in DOMAIN g
    BY MergedDomain
  <2> QED
    BY <2>1, MergedEntry DEF HasGates
<1> QED
  BY <1>1 DEF HasGates

LEMMA MergeGated ==
  ASSUME NEW f, NEW g, Gated(f), Gated(g) PROVE Gated(f ++ g)
<1>1. ASSUME NEW s \in DOMAIN (f ++ g) PROVE (f ++ g)[s].since = SinceMPI(s)
  <2>1. s \in DOMAIN f \/ s \in DOMAIN g
    BY MergedDomain
  <2>2. CASE s \in DOMAIN f
    BY <2>2, MergedEntry DEF Gated
  <2>3. CASE s \notin DOMAIN f
    BY <2>1, <2>3, MergedEntry DEF Gated
  <2> QED
    BY <2>2, <2>3
<1> QED
  BY <1>1, MergeHasGates DEF Gated

LEMMA MergeLeveled ==
  ASSUME NEW f, NEW g, Leveled(f), Leveled(g) PROVE Leveled(f ++ g)
<1>1. ASSUME NEW s \in DOMAIN (f ++ g) PROVE (f ++ g)[s] = SinceMPI(s)
  <2>1. s \in DOMAIN f \/ s \in DOMAIN g
    BY MergedDomain
  <2> QED
    BY <2>1, MergedEntry DEF Leveled
<1> QED
  BY <1>1 DEF Leveled

LEMMA BoundHasGates == \A way, S : DOMAIN Bound(way, S) = S /\ HasGates(Bound(way, S))
BY DEF Bound, HasGates

LEMMA BoundGated ==
  \A way, S : S \cap (Slots30 \cup Slots31) = {} => Gated(Bound(way, S))
BY BoundHasGates DEF Gated, Bound, SinceMPI

LEMMA GateGated ==
  \A v, b : HasGates(b) /\ (\A s \in DOMAIN b : v = SinceMPI(s)) => Gated(Gate(v, b))
BY DEF Gated, Gate, HasGates

LEMMA LateGated == \A b : Gated(b) => Gated(Late(b))
BY DEF Gated, Late, HasGates

LEMMA OpenMPIGated == Gated(OpenMPIBinding)
<1> USE BoundGated, BoundHasGates, GateGated, MergedDomain, MergeHasGates, MergeGated
    DEF Slots30, Slots31, SinceMPI
<1>1. Gated(OpenMPIBasics)
  BY DEF OpenMPIBasics, Direct
<1>2. Gated(OpenMPICollectives)
  BY DEF OpenMPICollectives, Direct
<1>3. Gated(OpenMPIDatatypes)
  BY DEF OpenMPIDatatypes, Direct
<1>4. Gated(OpenMPINonblocking)
  BY DEF OpenMPINonblocking, Direct
<1>5. Gated(OpenMPIGroups)
  BY DEF OpenMPIGroups, Direct
<1>6. Gated(OpenMPIRMA)
  BY DEF OpenMPIRMA, Direct
<1>7. Gated(OpenMPIIO)
  BY DEF OpenMPIIO, Direct
<1>8. Gated(OpenMPIProcess)
  BY DEF OpenMPIProcess, Direct
<1>9. Gated(OpenMPIMisc)
  BY DEF OpenMPIMisc, Direct, Local
<1>10. Gated(OpenMPIAttributes)
  BY DEF OpenMPIAttributes, Direct
<1>11. Gated(OpenMPILate)
  BY LateGated DEF OpenMPILate, Direct, Fallback
<1> QED
  BY <1>1, <1>2, <1>3, <1>4, <1>5, <1>6, <1>7, <1>8, <1>9, <1>10, <1>11
  DEF OpenMPIBinding

LEMMA MpichGated == Gated(MpichBinding)
<1> USE BoundGated, BoundHasGates, GateGated, MergedDomain, MergeHasGates, MergeGated
    DEF Slots30, Slots31, SinceMPI
<1>1. Gated(MpichBasics)
  BY DEF MpichBasics, Direct, Wrapped
<1>2. Gated(MpichCollectives)
  BY DEF MpichCollectives, Direct, Guarded
<1>3. Gated(MpichNonblocking)
  BY DEF MpichNonblocking, Direct, Guarded
<1>4. Gated(MpichGroups)
  BY DEF MpichGroups, Direct
<1>5. Gated(MpichRMA)
  BY DEF MpichRMA, Direct
<1>6. Gated(MpichIO)
  BY DEF MpichIO, Direct
<1>7. Gated(MpichProcess)
  BY DEF MpichProcess, Direct, Guarded
<1>8. Gated(MpichMisc)
  BY DEF MpichMisc, Direct, Guarded, Local
<1>9. Gated(MpichAttributes)
  BY DEF MpichAttributes, Direct
<1>10. Gated(MpichLate)
  BY LateGated DEF MpichLate, Direct, Fallback
<1> QED
  BY <1>1, <1>2, <1>3, <1>4, <1>5, <1>6, <1>7, <1>8, <1>9, <1>10
  DEF MpichBinding

LEMMA IntelGated == Gated(IntelBinding)
<1> USE BoundGated, BoundHasGates, GateGated, MergedDomain, MergeHasGates, MergeGated
    DEF Slots30, Slots31, SinceMPI
<1>1. Gated(IntelBasics)
  BY DEF IntelBasics, Direct, Wrapped
<1>2. Gated(IntelCollectives)
  BY DEF IntelCollectives, Direct, Guarded
<1>3. Gated(IntelGroups)
  BY DEF IntelGroups, Direct
<1>4. Gated(IntelDatatypes)
  BY DEF IntelDatatypes, Direct, Guarded
<1>5. Gated(IntelNonblocking)
  BY DEF IntelNonblocking, Direct, Guarded
<1>6. Gated(IntelRMA)
  BY DEF IntelRMA, Direct
<1>7. Gated(IntelIO)
  BY DEF IntelIO, Direct
<1>8. Gated(IntelProcess)
  BY DEF IntelProcess, Direct, Guarded
<1>9. Gated(IntelMisc)
  BY DEF IntelMisc, Direct, Guarded, Local
<1>10. Gated(IntelAttributes)
  BY DEF IntelAttributes, Direct
<1>11. Gated(IntelLate)
  BY LateGated DEF IntelLate, Direct, Fallback
<1> QED
  BY <1>1, <1>2, <1>3, <1>4, <1>5, <1>6, <1>7, <1>8, <1>9, <1>10, <1>11
  DEF IntelBinding

LEMMA MSGated == Gated(MSBinding)
<1> USE BoundGated, BoundHasGates, GateGated, MergedDomain, MergeHasGates, MergeGated
    DEF Slots30, Slots31, SinceMPI
<1>1. Gated(MSBasics)
  BY DEF MSBasics, Direct, Wrapped
<1>2. Gated(MSCollectives)
  BY DEF MSCollectives, Direct, Guarded
<1>3. Gated(MSNonblocking)
  BY DEF MSNonblocking, Direct, Guarded
<1>4. Gated(MSGroups)
  BY DEF MSGroups, Direct
<1>5. Gated(MSDatatypes)
  BY DEF MSDatatypes, Direct, Guarded
<1>6. Gated(MSRMA)
  BY DEF MSRMA, Direct
<1>7. Gated(MSIO)
  BY DEF MSIO, Direct
<1>8. Gated(MSProcess)
  BY DEF MSProcess, Direct, Guarded
<1>9. Gated(MSMisc)
  BY DEF MSMisc, Direct, Guarded, Local
<1>10. Gated(MSAttributes)
  BY DEF MSAttributes, Direct
<1>11. Gated(MSLate)
  BY LateGated DEF MSLate, Direct, Fallback
<1> QED
  BY <1>1, <1>2, <1>3, <1>4, <1>5, <1>6, <1>7, <1>8, <1>9, <1>10, <1>11
  DEF MSBinding

LEMMA FromLeveled ==
  ASSUME NEW v, NEW S, \A s \in S : v = SinceMPI(s) PROVE Leveled(From(v, S))
BY DEF Leveled, From

LEMMA SlotDeclaredLeveled == Leveled(SlotDeclared)
<1> USE FromLeveled, MergeLeveled DEF Slots30, Slots31, SinceMPI
<1>1. Leveled(DeclaredBasics)
  BY DEF DeclaredBasics
<1>2. Leveled(DeclaredCollectives)
  BY DEF DeclaredCollectives
<1>3. Leveled(DeclaredNonblocking)
  BY DEF DeclaredNonblocking
<1>4. Leveled(DeclaredGroups)
  BY DEF DeclaredGroups
<1>5. Leveled(DeclaredRMA)
  BY DEF DeclaredRMA
<1>6. Leveled(DeclaredIO)
  BY DEF DeclaredIO
<1>7. Leveled(DeclaredMisc)
  BY DEF DeclaredMisc
<1>8. Leveled(DeclaredAttributes)
  BY DEF DeclaredAttributes
<1>9. Leveled(DeclaredDatatypes)
  BY DEF DeclaredDatatypes
<1> QED
  BY <1>1, <1>2, <1>3, <1>4, <1>5, <1>6, <1>7, <1>8, <1>9
  DEF SlotDeclared

LEMMA SlotNamedLeveled == Leveled(SlotNamed)
<1> USE FromLeveled, MergeLeveled DEF Slots30, Slots31, SinceMPI
<1>1. Leveled(NamedBasics)
  BY DEF NamedBasics
<1>2. Leveled(NamedCollectives)
  BY DEF NamedCollectives
<1>3. Leveled(NamedDatatypes)
  BY DEF NamedDatatypes
<1>4. Leveled(NamedNonblocking)
  BY DEF NamedNonblocking
<1>5. Leveled(NamedGroups)
  BY DEF NamedGroups
<1>6. Leveled(NamedRMA)
  BY DEF NamedRMA
<1>7. Leveled(NamedIO)
  BY DEF NamedIO
<1>8. Leveled(NamedMisc)
  BY DEF NamedMisc
<1>9. Leveled(NamedAttributes)
  BY DEF NamedAttributes
<1>10. Leveled(NamedLargeCount)
  BY DEF NamedLargeCount
<1>11. Leveled(Named31)
  BY DEF Named31
<1> QED
  BY <1>1, <1>2, <1>3, <1>4, <1>5, <1>6, <1>7, <1>8, <1>9, <1>10, <1>11
  DEF SlotNamed

(* Every assignment stands behind the gate of its slot, and every standard *)
(* name: the agreement needs no assumption.                                *)
LEMMA SourceGates == GatesAgree
<1>1. \A k \in Kinds : Gated(Binding[k])
  BY SourceAssumption, OpenMPIGated, MpichGated, IntelGated, MSGated
     DEF SourceBinding, BackendTypes, Backends
<1>2. \A k \in Kinds : DOMAIN Binding[k] = Slots
  BY BindingAssumption
<1>3. \A s \in Slots : Declared[s] = SinceMPI(s) /\ Named[s] = SinceMPI(s)
  BY SourceAssumption, BindingAssumption, SlotDeclaredLeveled, SlotNamedLeveled DEF Leveled
<1> QED
  BY <1>1, <1>2, <1>3 DEF GatesAgree, Gated

-----------------------------------------------------------------------------
(* The error classes.  All backends number the classes of MPI-2.2 from 1   *)
(* on, each in an order of its own, and agree on the numbers of the later  *)
(* classes they know.                                                      *)
EarlyClasses == {OpenMPIOrder[i] : i \in 1..53}
LaterCode ==
  [RMA_RANGE |-> 55, RMA_ATTACH |-> 56, RMA_SHARED |-> 57, RMA_FLAVOR |-> 58,
   SESSION |-> 75, PROC_ABORTED |-> 76, VALUE_TOO_LARGE |-> 77, ERRHANDLER |-> 80,
   ABI |-> 81]
LaterClasses == DOMAIN LaterCode
LastCodes == {54, 92, 1073741823}

WellNumbered(codes) ==
  /\ DOMAIN codes \subseteq EarlyClasses \cup LaterClasses \cup {"LASTCODE"}
  /\ EarlyClasses \subseteq DOMAIN codes
  /\ \A n \in EarlyClasses : codes[n] \in 1..53
  /\ \A m, n \in EarlyClasses : codes[m] = codes[n] => m = n
  /\ \A n \in LaterClasses \cap DOMAIN codes : codes[n] = LaterCode[n]
  /\ "LASTCODE" \in DOMAIN codes /\ codes["LASTCODE"] \in LastCodes

(* The i-th name is found again by its number.                             *)
LEMMA NumberedNames ==
  ASSUME NEW names, NEW n \in {names[i] : i \in DOMAIN names}
  PROVE  /\ n \in DOMAIN Numbered(names)
         /\ Numbered(names)[n] \in DOMAIN names
         /\ names[Numbered(names)[n]] = n
BY DEF Numbered

LEMMA NumberedDomain ==
  ASSUME NEW names PROVE DOMAIN Numbered(names) = {names[i] : i \in DOMAIN names}
BY DEF Numbered

LEMMA OrderLengths == DOMAIN OpenMPIOrder = 1..53 /\ DOMAIN MpichOrder = 1..53
BY DEF OpenMPIOrder, MpichOrder

LEMMA SameClasses == EarlyClasses = {MpichOrder[i] : i \in 1..53}
<1>1. \A i \in 1..53 : \E j \in 1..53 : OpenMPIOrder[i] = MpichOrder[j]
  BY DEF OpenMPIOrder, MpichOrder
<1>2. \A i \in 1..53 : \E j \in 1..53 : MpichOrder[i] = OpenMPIOrder[j]
  BY DEF OpenMPIOrder, MpichOrder
<1>3. ASSUME NEW n \in EarlyClasses PROVE n \in {MpichOrder[i] : i \in 1..53}
  <2>1. PICK i \in 1..53 : n = OpenMPIOrder[i]
    BY DEF EarlyClasses
  <2> QED
    BY <1>1, <2>1
<1>4. ASSUME NEW n \in {MpichOrder[i] : i \in 1..53} PROVE n \in EarlyClasses
  <2>1. PICK i \in 1..53 : n = MpichOrder[i]
    OBVIOUS
  <2> QED
    BY <1>2, <2>1 DEF EarlyClasses
<1> QED
  BY <1>3, <1>4

LEMMA ClassesApart ==
  /\ \A i, j \in 1..53 : OpenMPIOrder[i] = OpenMPIOrder[j] => i = j
  /\ EarlyClasses \cap (LaterClasses \cup {"LASTCODE", "SUCCESS"}) = {}
<1>1. \A i, j \in 1..53 : OpenMPIOrder[i] = OpenMPIOrder[j] => i = j
  BY DEF OpenMPIOrder
<1>2. \A i \in 1..53 : OpenMPIOrder[i] \notin LaterClasses \cup {"LASTCODE", "SUCCESS"}
  BY DEF OpenMPIOrder, LaterClasses, LaterCode
<1> QED
  BY <1>1, <1>2 DEF EarlyClasses

(* The numbers of an order, completed by later classes.                    *)
LEMMA OrderWellNumbered ==
  ASSUME NEW names, DOMAIN names = 1..53, EarlyClasses = {names[i] : i \in 1..53},
         NEW own, DOMAIN own \subseteq LaterClasses \cup {"LASTCODE"},
         \A n \in LaterClasses \cap DOMAIN own : own[n] = LaterCode[n],
         "LASTCODE" \in DOMAIN own, own["LASTCODE"] \in LastCodes
  PROVE  WellNumbered(Numbered(names) ++ own)
<1> DEFINE codes == Numbered(names) ++ own
<1>1. DOMAIN Numbered(names) = EarlyClasses
  BY NumberedDomain
<1>2. ASSUME NEW n \in EarlyClasses
      PROVE  n \in DOMAIN codes /\ codes[n] \in 1..53 /\ names[codes[n]] = n
  <2>1. n \in DOMAIN codes
    BY <1>1, MergedDomain
  <2>2. codes[n] = Numbered(names)[n]
    BY <1>1, <2>1, MergedEntry
  <2> QED
    BY <2>1, <2>2, NumberedNames
<1>3. ASSUME NEW n \in DOMAIN own PROVE n \in DOMAIN codes /\ codes[n] = own[n]
  <2>1. n \in DOMAIN codes
    BY MergedDomain
  <2>2. n \notin EarlyClasses
    BY ClassesApart
  <2> QED
    BY <1>1, <2>1, <2>2, MergedEntry
<1>4. \A n \in DOMAIN codes : n \in EarlyClasses \/ n \in DOMAIN own
  BY <1>1, MergedDomain
<1>5. \A n \in LaterClasses \cap DOMAIN codes : n \in DOMAIN own
  BY <1>4, ClassesApart
<1>6. \A m, n \in EarlyClasses : codes[m] = codes[n] => m = n
  BY <1>2
<1> QED
  BY <1>2, <1>3, <1>4, <1>5, <1>6 DEF WellNumbered

(* What the backends have besides the 53.                                  *)
OwnCodes(own) ==
  /\ DOMAIN own \subseteq LaterClasses \cup {"LASTCODE"}
  /\ \A n \in LaterClasses \cap DOMAIN own : own[n] = LaterCode[n]
  /\ "LASTCODE" \in DOMAIN own /\ own["LASTCODE"] \in LastCodes

LEMMA OwnCodesOfSource ==
  /\ OwnCodes([LASTCODE |-> 92]) /\ OwnCodes([LASTCODE |-> 54])
  /\ OwnCodes([RMA_RANGE |-> 55, LASTCODE |-> 1073741823]) /\ OwnCodes(IntelOwnCodes)
BY DEF OwnCodes, IntelOwnCodes, LaterClasses, LaterCode, LastCodes

LEMMA SourceCodes ==
  /\ WellNumbered(OpenMPICodes) /\ WellNumbered(MpichCodes)
  /\ WellNumbered(IntelCodes) /\ WellNumbered(MSCodes)
<1>1. ASSUME NEW own, OwnCodes(own)
      PROVE  /\ WellNumbered(Numbered(OpenMPIOrder) ++ own)
             /\ WellNumbered(Numbered(MpichOrder) ++ own)
  BY <1>1, OrderLengths, SameClasses, OrderWellNumbered DEF EarlyClasses, OwnCodes
<1> QED
  BY <1>1, OwnCodesOfSource DEF OpenMPICodes, MpichCodes, IntelCodes, MSCodes

(* What a backend assigns to an error class is its code and nothing else.  *)
Families == {"communicators", "null_handles", "status_ignore", "topology", "datatypes",
             "ops", "lock", "any_source", "proc_null", "in_place", "dup_fn", "null_fn",
             "tool_codes", "tool_enums", "tool_family"}

LEMMA ClassNames ==
  /\ ErrorClasses = EarlyClasses \cup LaterClasses \cup {"SUCCESS", "LASTCODE"}
  /\ ErrorClasses \cap Families = {}
<1>1. \A i \in 1..53 : OpenMPIOrder[i] \notin Families
  BY DEF OpenMPIOrder, Families
<1>2. ErrorClasses = EarlyClasses \cup LaterClasses \cup {"SUCCESS", "LASTCODE"}
  <2>1. DOMAIN ErrorStringOrder = 1..64
    BY DEF ErrorStringOrder, OpenMPIOrder
  <2>2. \A i \in 1..53 : ErrorStringOrder[i + 1] = OpenMPIOrder[i]
    BY DEF ErrorStringOrder, OpenMPIOrder
  <2>3. /\ ErrorStringOrder[1] = "SUCCESS" /\ ErrorStringOrder[64] = "LASTCODE"
        /\ LaterClasses = {ErrorStringOrder[i] : i \in 55..63}
    BY DEF ErrorStringOrder, OpenMPIOrder, LaterClasses, LaterCode
  <2> QED
    BY <2>1, <2>2, <2>3 DEF ErrorClasses, EarlyClasses
<1> QED
  BY <1>1, <1>2 DEF EarlyClasses, Families, LaterClasses, LaterCode

(* The assignments A number the classes of codes, success among them, and  *)
(* keep the others.                                                        *)
Numbers(A, codes) ==
  \A n \in ErrorClasses :
    /\ A[n].since = 22
    /\ IF n = "SUCCESS" THEN A[n].how = "number" /\ A[n].num = 0
       ELSE IF n \in DOMAIN codes THEN A[n].how = "number" /\ A[n].num = codes[n]
       ELSE A[n].how = "keep"

LEMMA NumericRows ==
  ASSUME NEW v
  PROVE  /\ DOMAIN Numeric(v) = DOMAIN v
         /\ \A n \in DOMAIN v : Numeric(v)[n] = [how |-> "number", num |-> v[n], since |-> 22, late |-> FALSE]
BY DEF Numeric

LEMMA KeptRows ==
  /\ DOMAIN Keep(AllValues) = AllValues
  /\ \A n \in AllValues : Keep(AllValues)[n] = [how |-> "keep", num |-> 0, since |-> 22, late |-> FALSE]
BY DEF Keep

LEMMA DefaultClasses ==
  ErrorClasses \subseteq AllValues /\ \A n \in ErrorClasses : DefaultValues[n] = 0
<1>1. ASSUME NEW n \in ErrorClasses PROVE n \in DOMAIN DefaultValues /\ DefaultValues[n] = 0
  <2>1. n \in DOMAIN DefaultCodes /\ DefaultCodes[n] = 0
    BY DEF DefaultCodes
  <2>2. n \notin DOMAIN DefaultHandles
    BY ClassNames DEF DefaultHandles, Families
  <2>3. n \in DOMAIN (DefaultHandles ++ DefaultCodes)
        /\ (DefaultHandles ++ DefaultCodes)[n] = 0
    BY <2>1, <2>2, MergedDomain, MergedEntry
  <2> QED
    BY <2>3, MergedDomain, MergedEntry DEF DefaultValues
<1> QED
  BY <1>1 DEF AllValues

(* The classes in f are those in g, with the same code.                    *)
NoClasses(f) == \A n \in ErrorClasses : n \notin DOMAIN f
Agree(f, g) ==
  \A n \in ErrorClasses :
    /\ n \in DOMAIN f <=> n \in DOMAIN g
    /\ n \in DOMAIN f =>
         /\ {"how", "num", "since"} \subseteq DOMAIN f[n]
         /\ f[n].how = g[n].how /\ f[n].num = g[n].num /\ f[n].since = g[n].since

LEMMA NoClassesMerged ==
  ASSUME NEW f, NEW g, NoClasses(f), NoClasses(g) PROVE NoClasses(f ++ g)
BY MergedDomain DEF NoClasses

LEMMA ClassesOnRight ==
  ASSUME NEW f, NEW g, NEW h, NoClasses(f), Agree(g, h) PROVE Agree(f ++ g, h)
<1>1. ASSUME NEW n \in ErrorClasses
      PROVE  /\ n \in DOMAIN (f ++ g) <=> n \in DOMAIN g
             /\ n \in DOMAIN (f ++ g) => (f ++ g)[n] = g[n]
  <2>1. n \in DOMAIN (f ++ g) <=> n \in DOMAIN g
    BY MergedDomain DEF NoClasses
  <2> QED
    BY <2>1, MergedEntry DEF NoClasses
<1> QED
  BY <1>1 DEF Agree

LEMMA ClassesOnLeft ==
  ASSUME NEW f, NEW g, NEW h, Agree(f, h), NoClasses(g) PROVE Agree(f ++ g, h)
<1>1. ASSUME NEW n \in ErrorClasses
      PROVE  /\ n \in DOMAIN (f ++ g) <=> n \in DOMAIN f
             /\ n \in DOMAIN (f ++ g) => (f ++ g)[n] = f[n]
  <2>1. n \in DOMAIN (f ++ g) <=> n \in DOMAIN f
    BY MergedDomain DEF NoClasses
  <2> QED
    BY <2>1, MergedEntry DEF NoClasses
<1> QED
  BY <1>1 DEF Agree

LEMMA ClassesAfterComm ==
  ASSUME NEW f, NEW h, Agree(f, h) PROVE Agree(AfterComm(f), h)
BY DEF Agree, AfterComm

LEMMA NoClassesAfterComm == ASSUME NEW f, NoClasses(f) PROVE NoClasses(AfterComm(f))
BY DEF NoClasses, AfterComm

LEMMA NoClassesTool == ASSUME NEW f, NoClasses(f) PROVE NoClasses(ToolGate(f))
BY DEF NoClasses, ToolGate

LEMMA FamiliesNoClasses == ASSUME NEW f, DOMAIN f \subseteq Families PROVE NoClasses(f)
BY ClassNames DEF NoClasses

LEMMA NumericSame ==
  ASSUME NEW own, DOMAIN own \subseteq Families \cup {"SUCCESS"}, own["SUCCESS"] = 0,
         "SUCCESS" \in DOMAIN own, NEW codes, WellNumbered(codes),
         NEW f, Agree(f, Numeric(own) ++ Numeric(codes))
  PROVE  Numbers(f ++ Keep(AllValues), codes)
<1> DEFINE s == Numeric(own) ++ Numeric(codes)  A == f ++ Keep(AllValues)
<1>1. ASSUME NEW n \in ErrorClasses
      PROVE  /\ A[n].since = 22
             /\ IF n = "SUCCESS" THEN A[n].how = "number" /\ A[n].num = 0
                ELSE IF n \in DOMAIN codes THEN A[n].how = "number" /\ A[n].num = codes[n]
                ELSE A[n].how = "keep"
  <2>1. n \in DOMAIN A /\ n \in AllValues
    BY DefaultClasses, KeptRows, MergedDomain
  <2>2. n \in DOMAIN s <=> n = "SUCCESS" \/ n \in DOMAIN codes
    BY ClassNames, NumericRows, MergedDomain
  <2>3. CASE n = "SUCCESS"
    <3>1. s[n] = [how |-> "number", num |-> 0, since |-> 22, late |-> FALSE]
      <4>1. n \in DOMAIN own /\ n \in DOMAIN Numeric(own) /\ own[n] = 0
        BY <2>3, NumericRows
      <4>2. s[n] = Numeric(own)[n]
        BY <2>2, <2>3, <4>1, MergedEntry
      <4> QED
        BY <4>1, <4>2, NumericRows
    <3>2. A[n] = f[n] /\ n \in DOMAIN f
      BY <2>1, <2>2, <2>3, MergedEntry DEF Agree
    <3> QED
      BY <2>3, <3>1, <3>2 DEF Agree
  <2>4. CASE n # "SUCCESS" /\ n \in DOMAIN codes
    <3>1. n \notin DOMAIN own
      BY <2>4, ClassNames
    <3>2. s[n] = [how |-> "number", num |-> codes[n], since |-> 22, late |-> FALSE]
      BY <2>2, <2>4, <3>1, NumericRows, MergedEntry
    <3>3. A[n] = f[n] /\ n \in DOMAIN f
      BY <2>1, <2>2, <2>4, MergedEntry DEF Agree
    <3> QED
      BY <2>4, <3>2, <3>3 DEF Agree
  <2>5. CASE n # "SUCCESS" /\ n \notin DOMAIN codes
    <3>1. n \notin DOMAIN f
      BY <2>2, <2>5 DEF Agree
    <3>2. A[n] = [how |-> "keep", num |-> 0, since |-> 22, late |-> FALSE]
      BY <2>1, <3>1, KeptRows, MergedEntry
    <3> QED
      BY <2>5, <3>2
  <2> QED
    BY <2>3, <2>4, <2>5
<1> QED
  BY <1>1 DEF Numbers

LEMMA NumericHas ==
  ASSUME NEW v, NEW n \in DOMAIN v PROVE {"how", "num", "since"} \subseteq DOMAIN Numeric(v)[n]
<1>1. DOMAIN [how |-> "number", num |-> v[n], since |-> 22, late |-> FALSE] = {"how", "num", "since", "late"}
  OBVIOUS
<1> QED
  BY <1>1, NumericRows

LEMMA SentinelsAgree ==
  ASSUME NEW own, NEW codes PROVE Agree(Numeric(own) ++ Numeric(codes), Numeric(own) ++ Numeric(codes))
<1> DEFINE s == Numeric(own) ++ Numeric(codes)
<1>1. ASSUME NEW n \in DOMAIN s PROVE {"how", "num", "since"} \subseteq DOMAIN s[n]
  <2>1. n \in DOMAIN own \/ n \in DOMAIN codes
    BY MergedDomain, NumericRows
  <2>2. CASE n \in DOMAIN own
    <3>1. s[n] = Numeric(own)[n]
      BY <2>2, MergedEntry, NumericRows
    <3> QED
      BY <2>2, <3>1, NumericHas
  <2>3. CASE n \notin DOMAIN own
    <3>1. s[n] = Numeric(codes)[n]
      BY <2>3, MergedEntry, NumericRows
    <3> QED
      BY <2>1, <2>3, <3>1, NumericHas
  <2> QED
    BY <2>2, <2>3
<1> QED
  BY <1>1 DEF Agree

(* The parts without classes, and where the classes are in the whole.      *)
LEMMA PartsWithoutClasses ==
  /\ NoClasses(OpenMPICallbacks) /\ NoClasses(OpenMPICommValues) /\ NoClasses(OpenMPITypeHandles)
  /\ NoClasses(OpenMPIOps) /\ NoClasses(OpenMPITopology) /\ NoClasses(OpenMPITool)
  /\ NoClasses(MpichCommunicators) /\ NoClasses(MpichPredefined) /\ NoClasses(MpichCallbacks)
  /\ NoClasses(MpichTool)
  /\ NoClasses(IntelCommunicators) /\ NoClasses(IntelPredefined) /\ NoClasses(IntelCallbacks)
  /\ NoClasses(IntelTool)
  /\ NoClasses(MSPredefined) /\ NoClasses(MSCallbacks) /\ NoClasses(MSTool)
<1> USE FamiliesNoClasses, NumericRows, NoClassesMerged, NoClassesTool DEF Families, Symbol
<1>1. /\ NoClasses(OpenMPICallbacks) /\ NoClasses(OpenMPITypeHandles) /\ NoClasses(OpenMPIOps)
      /\ NoClasses(MpichCallbacks) /\ NoClasses(IntelCallbacks) /\ NoClasses(MSCallbacks)
  BY DEF OpenMPICallbacks, OpenMPITypeHandles, OpenMPIOps, MpichCallbacks, IntelCallbacks, MSCallbacks
<1>2. /\ NoClasses(OpenMPICommValues) /\ NoClasses(OpenMPITopology) /\ NoClasses(OpenMPITool)
  BY DEF OpenMPICommValues, OpenMPITopology, OpenMPITool
<1>3. NoClasses(MpichCommunicators) /\ NoClasses(MpichPredefined) /\ NoClasses(MpichTool)
  BY DEF MpichCommunicators, MpichPredefined, MpichTool
<1>4. NoClasses(IntelCommunicators) /\ NoClasses(IntelPredefined) /\ NoClasses(IntelTool)
  BY DEF IntelCommunicators, IntelPredefined, IntelTool
<1>5. NoClasses(MSPredefined) /\ NoClasses(MSTool)
  BY DEF MSPredefined, MSTool
<1> QED
  BY <1>1, <1>2, <1>3, <1>4, <1>5

LEMMA SourceNumbers ==
  /\ Numbers(OpenMPIAssigned, OpenMPICodes) /\ Numbers(MpichAssigned, MpichCodes)
  /\ Numbers(IntelAssigned, IntelCodes) /\ Numbers(MSAssigned, MSCodes)
<1> USE PartsWithoutClasses, NoClassesMerged, ClassesOnLeft, ClassesOnRight, SentinelsAgree
<1>1. Numbers(OpenMPIAssigned, OpenMPICodes)
  <2> DEFINE own == [SUCCESS |-> 0, any_source |-> -1, proc_null |-> -2, in_place |-> 1]
             late == OpenMPICommValues ++ OpenMPITypeHandles ++ OpenMPIOps ++ OpenMPISentinels
                     ++ OpenMPITopology ++ OpenMPITool
  <2>1. Agree(OpenMPISentinels, Numeric(own) ++ Numeric(OpenMPICodes))
    BY DEF OpenMPISentinels
  <2> HIDE DEF own
  <2>2. Agree(late, Numeric(own) ++ Numeric(OpenMPICodes))
    BY <2>1
  <2>3. Agree(OpenMPICallbacks ++ AfterComm(late), Numeric(own) ++ Numeric(OpenMPICodes))
    BY <2>2, ClassesAfterComm
  <2> QED
    BY <2>3, SourceCodes, NumericSame DEF own, OpenMPIAssigned, Families
<1>2. Numbers(MpichAssigned, MpichCodes)
  <2> DEFINE own == [SUCCESS |-> 0, any_source |-> -2]
  <2>1. Agree(MpichSentinels, Numeric(own) ++ Numeric(MpichCodes))
    BY DEF MpichSentinels
  <2> HIDE DEF own
  <2>2. Agree(MpichCommunicators ++ MpichPredefined ++ MpichSentinels ++ MpichCallbacks ++ MpichTool,
              Numeric(own) ++ Numeric(MpichCodes))
    BY <2>1
  <2> QED
    BY <2>2, SourceCodes, NumericSame DEF own, MpichAssigned, Families
<1>3. Numbers(IntelAssigned, IntelCodes)
  <2> DEFINE own == [SUCCESS |-> 0, any_source |-> -2]
  <2>1. Agree(IntelSentinels, Numeric(own) ++ Numeric(IntelCodes))
    BY DEF IntelSentinels
  <2> HIDE DEF own
  <2>2. Agree(IntelCommunicators ++ IntelPredefined ++ IntelSentinels ++ IntelCallbacks ++ IntelTool,
              Numeric(own) ++ Numeric(IntelCodes))
    BY <2>1
  <2> QED
    BY <2>2, SourceCodes, NumericSame DEF own, IntelAssigned, Families
<1>4. Numbers(MSAssigned, MSCodes)
  <2> DEFINE own == [SUCCESS |-> 0, any_source |-> -2]
  <2>1. Agree(MSSentinels, Numeric(own) ++ Numeric(MSCodes))
    BY DEF MSSentinels
  <2> HIDE DEF own
  <2>2. Agree(MSPredefined ++ MSSentinels ++ MSCallbacks ++ MSTool, Numeric(own) ++ Numeric(MSCodes))
    BY <2>1, SMTT(60)
  <2> QED
    BY <2>2, SourceCodes, NumericSame DEF own, MSAssigned, Families
<1> QED
  BY <1>1, <1>2, <1>3, <1>4

-----------------------------------------------------------------------------
(* The names of the classes, and their order.                              *)
LEMMA OrderOfClasses ==
  /\ DOMAIN ErrorStringOrder = 1..64
  /\ ErrorStringOrder[1] = "SUCCESS"
  /\ \A i, j \in 1..64 : ErrorStringOrder[i] = ErrorStringOrder[j] => i = j
<1> DEFINE last == << "RMA_RANGE", "RMA_ATTACH", "RMA_SHARED", "RMA_FLAVOR", "SESSION",
                     "PROC_ABORTED", "VALUE_TOO_LARGE", "ERRHANDLER", "ABI", "LASTCODE" >>
           name(i) == IF i = 1 THEN "SUCCESS"
                      ELSE IF i <= 54 THEN OpenMPIOrder[i - 1] ELSE last[i - 54]
<1>1. DOMAIN ErrorStringOrder = 1..64
  BY DEF ErrorStringOrder, OpenMPIOrder
<1>2. \A i \in 1..64 : ErrorStringOrder[i] = name(i)
  BY DEF ErrorStringOrder, OpenMPIOrder
<1>3. \A i \in 1..10 : last[i] \in LaterClasses \cup {"LASTCODE"}
  BY DEF LaterClasses, LaterCode
<1>4. \A i, j \in 1..10 : last[i] = last[j] => i = j
  OBVIOUS
<1>5. "SUCCESS" \notin LaterClasses \cup {"LASTCODE"}
  BY DEF LaterClasses, LaterCode
<1>6. \A i \in 1..53 : OpenMPIOrder[i] \in EarlyClasses
  BY DEF EarlyClasses
<1> HIDE DEF last
<1>7. \A i, j \in 1..64 : name(i) = name(j) => i = j
  <2> SUFFICES ASSUME NEW i \in 1..64, NEW j \in 1..64, name(i) = name(j) PROVE i = j
    OBVIOUS
  <2>1. CASE i = 1 \/ j = 1
    BY <1>3, <1>5, <1>6, <2>1, ClassesApart
  <2>2. CASE i \in 2..54 /\ j \in 2..54
    <3>1. i - 1 \in 1..53 /\ j - 1 \in 1..53
      BY <2>2
    <3> QED
      BY <2>2, <3>1, ClassesApart
  <2>3. CASE i \in 55..64 /\ j \in 55..64
    BY <1>4, <2>3
  <2>4. CASE (i \in 2..54 /\ j \in 55..64) \/ (i \in 55..64 /\ j \in 2..54)
    BY <1>3, <1>6, <2>4, ClassesApart
  <2> QED
    BY <2>1, <2>2, <2>3, <2>4
<1>8. name(1) = "SUCCESS"
  OBVIOUS
<1> HIDE DEF name
<1> QED
  BY <1>1, <1>2, <1>7, <1>8

LEMMA LaterCodes ==
  /\ \A n \in LaterClasses : LaterCode[n] \in 55..81
  /\ \A m, n \in LaterClasses : LaterCode[m] = LaterCode[n] => m = n
BY DEF LaterClasses, LaterCode

(* A number leaves no doubt about the class, not even across backends,     *)
(* except among the 53 early classes.                                      *)
LEMMA NumbersApart ==
  ASSUME NEW A, NEW c, Numbers(A, c), WellNumbered(c),
         NEW B, NEW d, Numbers(B, d), WellNumbered(d),
         NEW m \in ErrorClasses, NEW n \in ErrorClasses, m # n,
         A[m].how # "keep", B[n].how # "keep",
         m \notin EarlyClasses \/ n \notin EarlyClasses
  PROVE  A[m].num # B[n].num
<1> DEFINE Of(num, x) ==
      \/ x = "SUCCESS" /\ num = 0
      \/ x \in EarlyClasses /\ num \in 1..53
      \/ x \in LaterClasses /\ num = LaterCode[x]
      \/ x = "LASTCODE" /\ num \in LastCodes
<1>1. Of(A[m].num, m)
  BY ClassNames DEF Numbers, WellNumbered
<1>2. Of(B[n].num, n)
  BY ClassNames DEF Numbers, WellNumbered
<1> QED
  BY <1>1, <1>2, LaterCodes, SMTT(60) DEF LastCodes

LEMMA SameBackendApart ==
  ASSUME NEW A, NEW c, Numbers(A, c), WellNumbered(c),
         NEW m \in ErrorClasses, NEW n \in ErrorClasses, m # n,
         A[m].how # "keep", A[n].how # "keep"
  PROVE  A[m].num # A[n].num
<1>1. CASE m \in EarlyClasses /\ n \in EarlyClasses
  <2>1. A[m].num = c[m] /\ A[n].num = c[n]
    BY <1>1, ClassesApart DEF Numbers, WellNumbered
  <2> QED
    BY <1>1, <2>1 DEF WellNumbered
<1> QED
  BY <1>1, NumbersApart

LEMMA NumbersShape ==
  ASSUME NEW A, NEW c, Numbers(A, c), WellNumbered(c), NEW n \in ErrorClasses
  PROVE  /\ A[n].how \in {"keep", "number"} /\ A[n].since = 22
         /\ A[n].how = "keep" => n \in LaterClasses
         /\ A[n].how # "keep" /\ n # "SUCCESS" => A[n].num # 0
<1>1. A[n].how = "keep" => n \in LaterClasses
  BY ClassNames DEF Numbers, WellNumbered
<1>2. ASSUME A[n].how # "keep", n # "SUCCESS" PROVE A[n].num # 0
  <2>1. n \in DOMAIN c /\ A[n].num = c[n]
    BY <1>2 DEF Numbers
  <2> QED
    BY <2>1, LaterCodes DEF WellNumbered, LastCodes
<1> QED
  BY <1>1, <1>2 DEF Numbers

LEMMA BackendNumbers == \A k \in Kinds : \E c : Numbers(Assigned[k], c) /\ WellNumbered(c)
<1>1. Kinds = {"openmpi", "mpich", "intelmpi", "msmpi"}
  BY SourceAssumption DEF BackendTypes, Backends
<1>2. /\ Assigned["openmpi"] = OpenMPIAssigned /\ Assigned["mpich"] = MpichAssigned
      /\ Assigned["intelmpi"] = IntelAssigned /\ Assigned["msmpi"] = MSAssigned
  BY SourceAssumption DEF SourceAssigned
<1> QED
  BY <1>1, <1>2, SourceNumbers, SourceCodes

LEMMA SourceCodesApart == CodesApart
<1>1. /\ ErrorOrder = ErrorStringOrder /\ DOMAIN ErrorOrder = 1..64
      /\ \A i \in DOMAIN ErrorOrder : ErrorOrder[i] \in ErrorClasses
  BY SourceAssumption, OrderOfClasses DEF ErrorClasses
<1>2. \A i \in DOMAIN ErrorOrder : ErrorOrder[i] \in Values \ {"status_ignore"}
  BY <1>1, SourceAssumption, DefaultClasses, ClassNames DEF Families
<1>3. ASSUME NEW k \in Kinds, NEW i \in DOMAIN ErrorOrder
      PROVE  Code(k, i).how \in {"keep", "number"} /\ Code(k, i).since = 22
  BY <1>1, <1>3, BackendNumbers, NumbersShape DEF Code
<1>4. ASSUME NEW k \in Kinds, NEW i \in DOMAIN ErrorOrder, NEW j \in DOMAIN ErrorOrder,
             j < i, Code(k, i).how # "keep"
      PROVE  IF Code(k, j).how # "keep" THEN Code(k, j).num # Code(k, i).num
             ELSE /\ Default[ErrorOrder[j]] # Code(k, i).num
                  /\ \A other \in Kinds :
                       Code(other, j).how # "keep" => Code(other, j).num # Code(k, i).num
  <2> DEFINE n == ErrorOrder[i]  m == ErrorOrder[j]
  <2>1. n \in ErrorClasses /\ m \in ErrorClasses /\ m # n /\ n # "SUCCESS"
    <3>1. i \in 1..64 /\ j \in 1..64 /\ i # j /\ i # 1
      BY <1>1, <1>4
    <3> QED
      BY <1>1, <3>1, OrderOfClasses
  <2>2. PICK c : Numbers(Assigned[k], c) /\ WellNumbered(c)
    BY BackendNumbers
  <2>3. CASE Code(k, j).how # "keep"
    BY <1>4, <2>1, <2>2, <2>3, SameBackendApart DEF Code
  <2>4. CASE Code(k, j).how = "keep"
    <3>1. m \in LaterClasses /\ m \notin EarlyClasses
      BY <2>1, <2>2, <2>4, NumbersShape, ClassesApart DEF Code
    <3>2. Default[m] = 0 /\ Code(k, i).num # 0
      BY <1>4, <2>1, <2>2, SourceAssumption, DefaultClasses, NumbersShape DEF Code
    <3>3. ASSUME NEW other \in Kinds, Code(other, j).how # "keep"
          PROVE  Code(other, j).num # Code(k, i).num
      <4>1. PICK d : Numbers(Assigned[other], d) /\ WellNumbered(d)
        BY BackendNumbers
      <4> QED
        BY <1>4, <2>1, <2>2, <3>1, <3>3, <4>1, NumbersApart DEF Code
    <3> QED
      BY <2>4, <3>2, <3>3
  <2> QED
    BY <2>3, <2>4
<1>5. DOMAIN ErrorOrder \subseteq Nat
  BY <1>1
<1> QED
  BY <1>2, <1>3, <1>4, <1>5, SMTT(60) DEF CodesApart

-----------------------------------------------------------------------------
(* Which backend a file is taken for, without the order of the probes.     *)
LEMMA FirstHit ==
  ASSUME NEW H \in SUBSET Nat, NEW i \in H, \A j \in H : i <= j
  PROVE  (CHOOSE n \in H : \A j \in H : n <= j) = i
<1>1. ASSUME NEW n \in H, \A j \in H : n <= j PROVE n = i
  BY <1>1
<1> QED
  BY <1>1

Answers(host, file) ==
  LET has(symbol) == symbol \in file.symbols IN
  IF host = "windows" /\ has("MSMPI_Get_version") THEN "msmpi"
  ELSE IF has("ompi_mpi_comm_world") THEN "openmpi"
  ELSE IF has("__I_MPI___cpu_core_type") THEN "intelmpi"
  ELSE IF has("MPIR_Err_create_code") \/ has("MPIR_Dup_fn") \/ has("MPIR_Comm_world") THEN "mpich"
  ELSE "unknown"

LEMMA UnixProbes ==
  ASSUME NEW host, host # "windows"
  PROVE  /\ DOMAIN Probes(host) = 1..4
         /\ Probes(host)[1] = [any |-> {"ompi_mpi_comm_world"}, type |-> "openmpi"]
         /\ Probes(host)[2] = [any |-> {"__I_MPI___cpu_core_type"}, type |-> "intelmpi"]
         /\ Probes(host)[3] = [any |-> {"MPIR_Err_create_code", "MPIR_Dup_fn"}, type |-> "mpich"]
         /\ Probes(host)[4] = [any |-> {"MPIR_Comm_world"}, type |-> "mpich"]
<1> DEFINE four == << [any |-> {"ompi_mpi_comm_world"}, type |-> "openmpi"],
                      [any |-> {"__I_MPI___cpu_core_type"}, type |-> "intelmpi"],
                      [any |-> {"MPIR_Err_create_code", "MPIR_Dup_fn"}, type |-> "mpich"],
                      [any |-> {"MPIR_Comm_world"}, type |-> "mpich"] >>
<1>1. Probes(host) = <<>> \o four
  BY DEF Probes
<1>2. four \in Seq({four[i] : i \in 1..4}) /\ Len(four) = 4
  OBVIOUS
<1>3. \A i \in 1..4 : (<<>> \o four)[i] = four[i]
  BY <1>2
<1>4. DOMAIN (<<>> \o four) = 1..4
  BY <1>2
<1> QED
  BY <1>1, <1>3, <1>4

LEMMA WindowsProbes ==
  /\ DOMAIN Probes("windows") = 1..5
  /\ Probes("windows")[1] = [any |-> {"MSMPI_Get_version"}, type |-> "msmpi"]
  /\ Probes("windows")[2] = [any |-> {"ompi_mpi_comm_world"}, type |-> "openmpi"]
  /\ Probes("windows")[3] = [any |-> {"__I_MPI___cpu_core_type"}, type |-> "intelmpi"]
  /\ Probes("windows")[4] = [any |-> {"MPIR_Err_create_code", "MPIR_Dup_fn"}, type |-> "mpich"]
  /\ Probes("windows")[5] = [any |-> {"MPIR_Comm_world"}, type |-> "mpich"]
BY DEF Probes

LEMMA IdentifyAnswers ==
  ASSUME NEW host, NEW file PROVE Identify(host, file) = Answers(host, file)
<1> DEFINE H == {i \in DOMAIN Probes(host) : Probes(host)[i].any \cap file.symbols # {}}
<1>1. ASSUME NEW i \in H, \A j \in H : i <= j, H \subseteq Nat
      PROVE  Identify(host, file) = Probes(host)[i].type
  BY <1>1, FirstHit DEF Identify
<1>2. H = {} => Identify(host, file) = "unknown"
  BY DEF Identify
<1>3. CASE host # "windows"
  <2>1. H \subseteq 1..4
    BY <1>3, UnixProbes
  <2>2. /\ 1 \in H <=> "ompi_mpi_comm_world" \in file.symbols
        /\ 2 \in H <=> "__I_MPI___cpu_core_type" \in file.symbols
        /\ 3 \in H <=> "MPIR_Err_create_code" \in file.symbols \/ "MPIR_Dup_fn" \in file.symbols
        /\ 4 \in H <=> "MPIR_Comm_world" \in file.symbols
    BY <1>3, UnixProbes
  <2> HIDE DEF H
  <2>3. CASE 1 \in H
    BY <1>1, <1>3, <2>1, <2>2, <2>3, UnixProbes DEF Answers
  <2>4. CASE 1 \notin H /\ 2 \in H
    BY <1>1, <1>3, <2>1, <2>2, <2>4, UnixProbes DEF Answers
  <2>5. CASE 1 \notin H /\ 2 \notin H /\ 3 \in H
    BY <1>1, <1>3, <2>1, <2>2, <2>5, UnixProbes DEF Answers
  <2>6. CASE 1 \notin H /\ 2 \notin H /\ 3 \notin H /\ 4 \in H
    BY <1>1, <1>3, <2>1, <2>2, <2>6, UnixProbes DEF Answers
  <2>7. CASE 1 \notin H /\ 2 \notin H /\ 3 \notin H /\ 4 \notin H
    <3>1. H = {}
      BY <2>1, <2>7
    <3> QED
      BY <1>2, <1>3, <2>2, <2>7, <3>1 DEF Answers
  <2> QED
    BY <2>3, <2>4, <2>5, <2>6, <2>7
<1>4. CASE host = "windows"
  <2>1. H \subseteq 1..5
    BY <1>4, WindowsProbes
  <2>2. /\ 1 \in H <=> "MSMPI_Get_version" \in file.symbols
        /\ 2 \in H <=> "ompi_mpi_comm_world" \in file.symbols
        /\ 3 \in H <=> "__I_MPI___cpu_core_type" \in file.symbols
        /\ 4 \in H <=> "MPIR_Err_create_code" \in file.symbols \/ "MPIR_Dup_fn" \in file.symbols
        /\ 5 \in H <=> "MPIR_Comm_world" \in file.symbols
    BY <1>4, WindowsProbes
  <2> HIDE DEF H
  <2>3. CASE 1 \in H
    BY <1>1, <1>4, <2>1, <2>2, <2>3, WindowsProbes DEF Answers
  <2>4. CASE 1 \notin H /\ 2 \in H
    BY <1>1, <1>4, <2>1, <2>2, <2>4, WindowsProbes DEF Answers
  <2>5. CASE 1 \notin H /\ 2 \notin H /\ 3 \in H
    BY <1>1, <1>4, <2>1, <2>2, <2>5, WindowsProbes DEF Answers
  <2>6. CASE 1 \notin H /\ 2 \notin H /\ 3 \notin H /\ 4 \in H
    BY <1>1, <1>4, <2>1, <2>2, <2>6, WindowsProbes DEF Answers
  <2>7. CASE 1 \notin H /\ 2 \notin H /\ 3 \notin H /\ 4 \notin H /\ 5 \in H
    BY <1>1, <1>4, <2>1, <2>2, <2>7, WindowsProbes DEF Answers
  <2>8. CASE 1 \notin H /\ 2 \notin H /\ 3 \notin H /\ 4 \notin H /\ 5 \notin H
    <3>1. H = {}
      BY <2>1, <2>8
    <3> QED
      BY <1>2, <1>4, <2>2, <2>8, <3>1 DEF Answers
  <2> QED
    BY <2>3, <2>4, <2>5, <2>6, <2>7, <2>8
<1> QED
  BY <1>3, <1>4

(* A library that is identified is identified rightly: Intel MPI's and     *)
(* MS-MPI's own symbols are looked up before those they share with MPICH.  *)
LEMMA RightlyIdentified ==
  ASSUME NEW l \in Libs, KindOf[l] # "unknown" PROVE KindOf[l] = RealKind[l]
<1>1. KindOf[l] = Answers(HostOf[l], File[l])
  BY FilesAssumption, IdentifyAnswers
<1> QED
  BY <1>1, SymbolsAssumption DEF Answers

LEMMA NativeKnown ==
  ASSUME NEW l \in Libs, Native(l) PROVE KindOf[l] # "unknown" /\ File[l].exists
<1>1. LoadOutcome(HostOf[l], File[l]) = "native" /\ HostOf[l] \in Hosts
  BY FilesAssumption DEF Native
<1> QED
  BY <1>1, FilesAssumption DEF LoadOutcome, Supported

(* What a backend asked for by name opens is installed under a name that   *)
(* only that implementation has.                                           *)
LEMMA BackendTable ==
  /\ DOMAIN Backends = 1..4
  /\ Backends[1] = [type |-> "openmpi", lib |-> "libmpi.so.40", alt |-> "libmpi.so.20"]
  /\ Backends[2] = [type |-> "mpich", lib |-> "libmpich.so", alt |-> NoPath]
  /\ Backends[3] = [type |-> "intelmpi", lib |-> "libmpi.so", alt |-> NoPath]
  /\ Backends[4] = [type |-> "msmpi", lib |-> "msmpi.dll", alt |-> NoPath]
BY DEF Backends

LEMMA BackendsApart ==
  /\ DOMAIN Backends = 1..4
  /\ \A i, j \in 1..4 :
       Backends[i].type = Backends[j].type \/ Backends[i].lib = Backends[j].lib => i = j
BY DEF Backends

LEMMA NamedPath ==
  ASSUME NEW host, NEW env, env.library = "", NEW i \in 1..4, env.backend = Backends[i].type
  PROVE  Select(host, env) = Backends[i].lib
<1> DEFINE named == {j \in DOMAIN Backends : Backends[j].type = env.backend}
<1>1. named = {i}
  BY BackendsApart
<1> QED
  BY <1>1 DEF Select

LEMMA NamedAttempts ==
  ASSUME NEW i \in 1..4
  PROVE  Attempts(Backends[i].lib) =
           IF i = 1 THEN <<"libmpi.so.40", "libmpi.so.20">> ELSE <<Backends[i].lib>>
<1> DEFINE named == {j \in DOMAIN Backends : Backends[j].lib = Backends[i].lib}
<1>1. named = {i}
  BY BackendsApart
<1>2. (CHOOSE j \in named : \A n \in named : j <= n) = i
  BY <1>1
<1>3. Attempts(Backends[i].lib) =
        IF Backends[i].alt = NoPath THEN <<Backends[i].lib>>
        ELSE <<Backends[i].lib, Backends[i].alt>>
  BY <1>1, <1>2 DEF Attempts
<1> QED
  BY <1>3, BackendTable DEF NoPath

LEMMA NamedOpens ==
  ASSUME NEW installed, NEW i \in {1, 2, 4}
  PROVE  LET path == Opened(installed, Backends[i].lib) IN
         path = NoPath \/ (path \in installed /\ path \in OwnNames[Backends[i].type])
<1> DEFINE names == Attempts(Backends[i].lib)
           hits == {n \in DOMAIN names : names[n] \in installed}
<1>1. names = IF i = 1 THEN <<"libmpi.so.40", "libmpi.so.20">> ELSE <<Backends[i].lib>>
  BY NamedAttempts
<1>2. /\ hits \subseteq 1..2
      /\ \A n \in hits : names[n] \in installed /\ names[n] \in OwnNames[Backends[i].type]
  BY <1>1, BackendTable DEF OwnNames
<1>3. hits = {} => Opened(installed, Backends[i].lib) = NoPath
  BY DEF Opened
<1>4. ASSUME NEW n \in hits, \A j \in hits : n <= j
      PROVE  Opened(installed, Backends[i].lib) = names[n]
  <2>1. hits \in SUBSET Nat
    BY <1>2
  <2>2. (CHOOSE m \in hits : \A j \in hits : m <= j) = n
    BY <1>4, <2>1, FirstHit
  <2> QED
    BY <2>2 DEF Opened
<1> HIDE DEF hits, names
<1>5. hits = {} \/ \E n \in hits : \A j \in hits : n <= j
  <2>1. CASE 1 \in hits
    BY <1>2, <2>1
  <2>2. CASE 1 \notin hits
    BY <1>2, <2>2
  <2> QED
    BY <2>1, <2>2
<1> QED
  BY <1>2, <1>3, <1>4, <1>5

LEMMA AskedGetsBound ==
  ASSUME NEW s \in Settings, s.asked \in Kinds \ {"intelmpi"}, Native(s.library)
  PROVE  RealKind[s.library] = s.asked
<1>1. PICK m \in Machines : s = SettingOn(m)
  BY ProcessesAssumption
<1> DEFINE path == Opened(DOMAIN m.installed, Select(m.host, m.env))
<1>2. s.library = (IF path = NoPath THEN Missing ELSE m.installed[path])
  BY <1>1 DEF SettingOn
<1>3. m.env.library = "" /\ m.env.backend \in BackendTypes /\ s.asked = m.env.backend
  <2>1. s.asked # "any"
    BY SourceAssumption DEF BackendTypes, Backends
  <2> QED
    BY <1>1, <2>1 DEF SettingOn
<1>4. PICK i \in {1, 2, 4} : m.env.backend = Backends[i].type
  <2>1. PICK i \in 1..4 : m.env.backend = Backends[i].type
    BY <1>3, BackendTable DEF BackendTypes
  <2>2. m.env.backend # "intelmpi"
    BY <1>3
  <2>3. Backends[3].type = "intelmpi"
    BY BackendTable
  <2> QED
    BY <2>1, <2>2, <2>3
<1>5. path = NoPath \/ (path \in DOMAIN m.installed /\ path \in OwnNames[s.asked])
  <2>1. i \in 1..4
    OBVIOUS
  <2>2. Select(m.host, m.env) = Backends[i].lib
    BY <1>3, <1>4, <2>1, NamedPath, ZenonT(60)
  <2> QED
    BY <1>3, <1>4, <2>2, NamedOpens
<1>6. path # NoPath
  BY <1>2, NativeKnown, FilesAssumption
<1>7. s.asked \in DOMAIN OwnNames
  <2>1. Backends[i].type \in {"openmpi", "mpich", "msmpi"}
    BY BackendTable
  <2> QED
    BY <1>3, <1>4, <2>1 DEF OwnNames
<1> QED
  BY <1>2, <1>5, <1>6, <1>7, MachinesAssumption

-----------------------------------------------------------------------------
(***************************************************************************)
(* The theorems.                                                           *)
(***************************************************************************)

(* No assignment is compiled without its slot, no standard name without    *)
(* the assignment, in any build (src/backends/*.c, unimpi_vtable.h,        *)
(* unimpi_std_macros.h).                                                   *)
THEOREM SourceGatesAgree == TablesSpec => []GatesAgree
BY SourceGates, PTL

(* With the bindings of the source a call by a standard name leads into    *)
(* the library the table was filled from, after any loads and failures.    *)
THEOREM SourceSlotsLeadHome == TablesSpec => []SlotsLeadHome
BY SourceGatesAgree, SlotsAlwaysLeadHome, PTL

(* While MPI is active such a call ends in a mapped library whose native   *)
(* MPI runs, as long as MPI-T is left alone while unimpi_init_with is in   *)
(* the native MPI_Init (src/core.c with src/vtable.c, src/backends/*.c).   *)
THEOREM SourceCallsReachMPI == Quiet => (TablesSpec => []ActiveCallsLand)
<1> SUFFICES ASSUME Quiet PROVE TablesSpec => []ActiveCallsLand
  OBVIOUS
<1>1. TablesSpec /\ []GatesAgree => []ActiveCallsLand
  BY ActiveCallsReachMPI
<1> QED
  BY <1>1, SourceGatesAgree, PTL

(* The code of an error class is named as that class, whatever classes an  *)
(* earlier backend left behind (src/error.c:164).                          *)
THEOREM SourceClassesToldApart == TablesSpec => []ErrorsNamedRight
BY SourceCodesApart, ClassesToldApart, PTL

(* UniMPI's own failures map to classes every backend has a number for     *)
(* (src/error.c:262).                                                      *)
LEMMA FailureClasses ==
  ASSUME NEW k \in Kinds, NEW code \in UniMPIErrors
  PROVE  \E i \in DOMAIN ErrorOrder :
           ErrorOrder[i] = ErrorClass(code) /\ Assigned[k][ErrorOrder[i]].how # "keep"
<1>1. ErrorClass(code) \in ErrorClasses \ LaterClasses
  <2>1. /\ ErrorStringOrder[1] = "SUCCESS" /\ ErrorStringOrder[14] = "ARG"
        /\ ErrorStringOrder[15] = "UNKNOWN" /\ ErrorStringOrder[17] = "OTHER"
    BY DEF ErrorStringOrder, OpenMPIOrder
  <2>2. {"SUCCESS", "ARG", "OTHER", "UNKNOWN"} \cap LaterClasses = {}
    BY DEF LaterClasses, LaterCode
  <2>3. ErrorClass(code) \in {"SUCCESS", "ARG", "OTHER", "UNKNOWN"}
    BY DEF ErrorClass
  <2> QED
    BY <2>1, <2>2, <2>3, OrderOfClasses DEF ErrorClasses
<1>2. PICK i \in DOMAIN ErrorOrder : ErrorOrder[i] = ErrorClass(code)
  BY <1>1, SourceAssumption DEF ErrorClasses
<1>3. PICK c : Numbers(Assigned[k], c) /\ WellNumbered(c)
  BY BackendNumbers
<1>4. Assigned[k][ErrorClass(code)].how # "keep"
  BY <1>1, <1>3, NumbersShape
<1> QED
  BY <1>2, <1>4

(* After any load none of UniMPI's own failures is taken for success or    *)
(* for another class than its own (src/error.c:262).                       *)
THEOREM SourceFailuresClassed == TablesSpec => []FailuresClassed
<1>1. DInv /\ ErrorsNamedRight => FailuresClassed
  <2> SUFFICES ASSUME DInv, ErrorsNamedRight, Filled, NEW code \in UniMPIErrors
               PROVE  ErrorString(value[ErrorClass(code)]) = ErrorClass(code)
    BY DEF FailuresClassed
  <2>1. KindOf[vt] \in Kinds
    BY KnownKind DEF DInv, Filled, Tables, Native
  <2>2. PICK i \in DOMAIN ErrorOrder :
          ErrorOrder[i] = ErrorClass(code) /\ Assigned[KindOf[vt]][ErrorOrder[i]].how # "keep"
    BY <2>1, FailureClasses
  <2> QED
    BY <2>2 DEF ErrorsNamedRight
<1> QED
  BY <1>1, SourceClassesToldApart, TablesInvariant, PTL

(* The initialization that filled the table is the one written for the     *)
(* implementation behind the handle (src/loader.c:173).                    *)
THEOREM SourceOwnBackend == TablesSpec => []OwnBackend
<1>1. DInv => OwnBackend
  BY NativeKnown, RightlyIdentified DEF DInv, Filled, Tables, OwnBackend
<1> QED
  BY <1>1, TablesInvariant, PTL

(* The backend UNIMPI_BACKEND asks for by name is bound or none is         *)
(* (src/loader.c:11-35, src/loader.c:78).                                  *)
THEOREM SourceNamedBackend == TablesSpec => NamedBackend
<1>1. ASSUME DInv, [TablesNext]_tvars, handle' # handle, handle' # NoLib,
             frame' # "init_with", setting.asked \in Kinds \ {"intelmpi"}
      PROVE  RealKind[handle'] = setting.asked
  <2>1. TablesNext
    BY <1>1 DEF tvars, vars, globals
  <2>2. \A l \in Libs : ~LoadByName(l)
    BY <1>1 DEF LoadByName, InitWithLoadFails, InitWithBegin, Enter, LoadFrom
  <2>3. ~(CleanUp \/ LeaveContents)
    <3>1. ASSUME CleanUp \/ LeaveContents PROVE handle' \in {handle, NoLib}
      BY <3>1, ReleaseKeeps
         DEF CleanUp, LeaveContents, InitFails, InitWithFails, FinalizeReturn, UnloadHandle,
             InitSucceeds, InitWithSucceeds, FinalizeBegin, RefuseInit, RefuseFinalize,
             RejectArgument, Answer, ToolFinalize, Dies, ToolFinalizeDies, ReturnDies, globals
    <3> QED
      BY <1>1, <3>1
  <2>4. PICK l \in Libs : LoadByEnv(l)
    BY <2>1, <2>2, <2>3 DEF TablesNext
  <2>5. EnsureLoaded(l) /\ l = setting.library
    BY <2>4 DEF LoadByEnv, InitLoadFails, InitBegin, ToolInitLoadFails, ToolInit
  <2>6. handle' = l /\ Native(l)
    BY <1>1, <2>5 DEF EnsureLoaded, LoadFrom
  <2>7. setting \in Settings
    BY <1>1 DEF DInv, TablesTypeOK
  <2> QED
    BY <1>1, <2>5, <2>6, <2>7, AskedGetsBound
<1>2. DInv /\ [TablesNext]_tvars =>
        [/\ handle' # handle /\ handle' # NoLib /\ frame' # "init_with"
         /\ setting.asked \in Kinds \ {"intelmpi"}
         => RealKind[handle'] = setting.asked]_tvars
  BY <1>1
<1> QED
  BY <1>2, TablesInvariant, PTL DEF TablesSpec, NamedBackend
===============================================================================
