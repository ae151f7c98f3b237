------------------------ MODULE HandleArraysProofs ------------------------
(***************************************************************************)
(* Proofs about HandleArrays, for every capacity, every set of arrays and  *)
(* every contents.  TypeOK holds in every use; the handles are intact when *)
(* no array is passed twice, and the statuses when memcpy reads before it  *)
(* writes.                                                                 *)
(***************************************************************************)
EXTENDS HandleArrays, TLAPS

(* Ranges of the indices.                                                  *)
LEMMA CellFacts ==
  /\ \A j \in 0..N-1 : j \in Cells /\ 2*j \in Cells /\ 2*j + 1 \in Cells
  /\ \A j \in 0..N-1, f \in 0..4 : 5*j + f \in StatusCells /\ 6*j + f \in StatusCells
  BY NAssumption DEF Cells, StatusCells

LEMMA ExtType == \A w \in Words : Ext(w) \in Words
  BY WordsAssumption DEF Ext

-----------------------------------------------------------------------------
(***************************************************************************)
(* Types and index ranges.                                                 *)
(***************************************************************************)
LEMMA TypeInit == Init => TypeOK
  BY NAssumption, ContentsAssumption DEF Init, TypeOK, Kinds, Stale

LEMMA CopiedType ==
  ASSUME NEW s \in [StatusCells -> -1..5*N-1], NEW to \in Nat, NEW from \in Nat,
         NEW len \in Nat, from <= to, to + len <= 6*N
  PROVE  Copied(s, to, from, len) \in [StatusCells -> -1..5*N-1]
<1> SUFFICES ASSUME NEW w \in StatusCells, w \in to..(to + len - 1)
             PROVE  from + (w - to) \in StatusCells
  BY DEF Copied
<1> QED
  BY NAssumption DEF StatusCells

LEMMA CopyRecordType ==
  ASSUME NEW s \in [StatusCells -> -1..5*N-1], NEW j \in 0..N-1
  PROVE  CopyRecord(s, j) \in [StatusCells -> -1..5*N-1]
<1>1. /\ 5*j \in Nat /\ 6*j \in Nat /\ 5*j <= 6*j /\ 6*j + 5 <= 6*N
      /\ 5*j + 4 \in Nat /\ 6*j + 4 \in Nat
  BY NAssumption
<1>2. Copied(s, 6*j, 5*j, 5) \in [StatusCells -> -1..5*N-1]
  BY <1>1, CopiedType, NAssumption
<1>3. Copied(s, 6*j, 5*j, 4) \in [StatusCells -> -1..5*N-1]
  BY <1>1, CopiedType, NAssumption
<1>4. Copied(Copied(s, 6*j, 5*j, 4), 6*j + 4, 5*j + 4, 1) \in [StatusCells -> -1..5*N-1]
  BY <1>1, <1>3, CopiedType, NAssumption
<1> QED
  BY <1>2, <1>4 DEF CopyRecord

LEMMA TypeStep == TypeOK /\ [Next]_vars => TypeOK'
<1> SUFFICES ASSUME TypeOK, [Next]_vars PROVE TypeOK'
  OBVIOUS
<1> USE NAssumption
<1>1. CASE User
  <2> PICK kd \in Kinds, x \in Arrays, y \in Arrays, n1 \in 0..N, n2 \in 0..N,
           c1 \in Contents, c2 \in Contents : Call(kd, x, y, n1, n2, c1, c2)
    BY <1>1 DEF User
  <2>1. mem' \in [Arrays -> [Cells -> Words]] /\ given' \in [Arrays -> [Cells -> Words]]
    BY ContentsAssumption DEF Call, TypeOK
  <2>2. args' \in [1..2 -> Arrays] /\ lens' \in [1..2 -> 0..N]
    BY DEF Call
  <2>3. /\ pc' \in {"native", "compress"} /\ k' = 1 /\ i' = 1 /\ kind' = kd
        /\ rc' = rc /\ st' = st /\ out' = out /\ written' = written /\ filled' = filled
    BY DEF Call
  <2> HIDE DEF Call
  <2> QED
    BY <2>1, <2>2, <2>3 DEF TypeOK
<1>2. CASE \E done \in SUBSET (0..N-1), o \in -1..N, wr \in 0..N, code \in {"ok", "error"} :
             NativeRequests(done, o, wr, code)
  <2> PICK done \in SUBSET (0..N-1), o \in -1..N, wr \in 0..N, code \in {"ok", "error"} :
           NativeRequests(done, o, wr, code)
    BY <1>2
  <2>1. mem' \in [Arrays -> [Cells -> Words]] /\ given' \in [Arrays -> [Cells -> Words]]
    BY WordsAssumption DEF NativeRequests, TypeOK
  <2>2. st' \in [StatusCells -> -1..5*N-1]
    BY DEF NativeRequests, TypeOK, StatusCells
  <2> QED
    BY <2>1, <2>2 DEF NativeRequests, ToRestore, TypeOK
<1>3. CASE \E code \in {"ok", "error"} : NativeTypes(code)
  BY <1>3 DEF NativeTypes, ToRestore, TypeOK
<1>4. CASE \E wr \in 0..N, h \in Contents : NativeContents(wr, h)
  <2> PICK wr \in 0..N, h \in Contents : NativeContents(wr, h)
    BY <1>4
  <2>1. \A c \in Cells : h[c] \in Words /\ c \div 2 \in Cells
    BY ContentsAssumption DEF Cells
  <2>3. mem' \in [Arrays -> [Cells -> Words]]
    BY <2>1 DEF NativeContents, TypeOK
  <2>4. given' \in [Arrays -> [Cells -> Words]]
    BY <2>1 DEF NativeContents, TypeOK
  <2> QED
    BY <2>3, <2>4 DEF NativeContents, ToRestore, TypeOK
<1>5. CASE NativeContentsFails
  BY <1>5 DEF NativeContentsFails, TypeOK
<1>6. CASE CompressStep
  <2>1. i \in 1..N-1 /\ i \in Cells /\ 2*i \in Cells /\ args[k] \in Arrays
    BY <1>6 DEF CompressStep, TypeOK, Cells
  <2>2. mem' \in [Arrays -> [Cells -> Words]]
    BY <1>6, <2>1 DEF CompressStep, TypeOK
  <2> QED
    BY <1>6, <2>2 DEF CompressStep, TypeOK
<1>7. CASE CompressDone
  BY <1>7 DEF CompressDone, TypeOK
<1>8. CASE ExpandStep
  <2>1. i \in 0..N-1 /\ args[k] \in Arrays
    BY <1>8 DEF ExpandStep, TypeOK
  <2>2. mem[args[k]][i] \in Words /\ Ext(mem[args[k]][i]) \in Words
    BY <2>1, CellFacts, ExtType DEF TypeOK
  <2>3. mem' \in [Arrays -> [Cells -> Words]]
    BY <1>8, <2>1, <2>2 DEF ExpandStep, TypeOK
  <2> QED
    BY <1>8, <2>1, <2>3 DEF ExpandStep, TypeOK
<1>9. CASE ExpandDone
  BY <1>9 DEF ExpandDone, TypeOK
<1>10. CASE StatusStep
  <2>1. i \in 0..N-1
    BY <1>10 DEF StatusStep, TypeOK
  <2>2. st' \in [StatusCells -> -1..5*N-1]
    BY <1>10, <2>1, CopyRecordType DEF StatusStep, TypeOK
  <2> QED
    BY <1>10, <2>1, <2>2 DEF StatusStep, TypeOK
<1>11. CASE StatusDone
  BY <1>11 DEF StatusDone, TypeOK
<1>12. CASE Return
  <2>1. st' \in [StatusCells -> -1..5*N-1]
    BY <1>12 DEF Return, Stale
  <2> QED
    BY <1>12, <2>1 DEF Return, TypeOK, Kinds
<1>13. CASE UNCHANGED vars
  BY <1>13 DEF vars, TypeOK
<1> QED
  BY <1>1, <1>2, <1>3, <1>4, <1>5, <1>6, <1>7, <1>8, <1>9, <1>10, <1>11, <1>12, <1>13
  DEF Next, Native, Wrapper

(* Every variable keeps its type and every loop index stays inside its     *)
(* array, also for arrays passed twice and for any memcpy.                 *)
THEOREM TypeCorrect == Spec => []TypeOK
<1>1. Init => TypeOK
  BY TypeInit
<1>2. TypeOK /\ [Next]_vars => TypeOK'
  BY TypeStep
<1> QED
  BY <1>1, <1>2, PTL DEF Spec

-----------------------------------------------------------------------------
(***************************************************************************)
(* Handles.  Argument a before its loop, between p steps of packing and    *)
(* the next, fully packed, and between the spreading of p+1 and of p.      *)
(* Packed and spread concern the entries that hold a handle of the call.   *)
(***************************************************************************)
Untouched(a) == \A c \in Cells : mem[args[a]][c] = given[args[a]][c]

Beyond(a) == \A c \in Cells : c >= 2*lens[a] => mem[args[a]][c] = given[args[a]][c]

Packing(a, p) ==
  /\ \A j \in 0..lens[a]-1 : j < p => mem[args[a]][j] = given[args[a]][2*j]
  /\ \A c \in Cells : c = 0 \/ c >= p => mem[args[a]][c] = given[args[a]][c]

Spreading(a, p) ==
  /\ \A j \in 0..Shown(a)-1 : j <= p => mem[args[a]][j] = given[args[a]][2*j]
  /\ \A j \in 0..Shown(a)-1 : j > p =>
       /\ mem[args[a]][2*j] = given[args[a]][2*j]
       /\ mem[args[a]][2*j + 1] = Ext(given[args[a]][2*j])
  /\ Beyond(a)

Packed(a) == Spreading(a, lens[a] - 1)
Spread(a) == Spreading(a, -1)

HandleInv ==
  /\ pc # "user" => args[1] # args[2]
  /\ kind # "types" => lens[2] = 0
  /\ filled <= lens[1]
  /\ pc \in {"user", "compress", "native"} => filled = 0
  /\ pc \in {"restore", "statuses"} /\ kind = "contents" => rc = "ok"
  /\ pc = "compress" =>
       /\ kind # "contents"
       /\ i = 1 \/ i <= lens[k]
       /\ Packing(k, i)
       /\ IF k = 1 THEN Untouched(2) ELSE Packed(1)
  /\ pc = "native" =>
       IF kind = "contents" THEN Untouched(1) /\ Untouched(2)
                            ELSE Packed(1) /\ Packed(2)
  /\ pc = "restore" =>
       /\ Spreading(k, i)
       /\ i >= -1
       /\ IF k = 1 THEN Packed(2) ELSE Spread(1)
  /\ pc = "statuses" => Spread(1) /\ Spread(2)
  /\ pc = "return" =>
       \A a \in 1..2 : IF kind = "contents" /\ rc = "error" THEN Untouched(a) ELSE Spread(a)

(* The entries that hold a handle are among those that were passed.        *)
LEMMA ShownFacts ==
  ASSUME TypeOK, HandleInv, NEW a \in 1..2
  PROVE  /\ Shown(a) \in 0..N /\ lens[a] \in 0..N /\ Shown(a) <= lens[a]
         /\ kind # "contents" => Shown(a) = lens[a]
BY NAssumption DEF TypeOK, HandleInv, Shown

(* What Spread and Untouched say of the caller's array.                    *)
LEMMA SpreadRestores ==
  ASSUME TypeOK, HandleInv, NEW a \in 1..2, Spread(a)
  PROVE  Restored(args[a], Shown(a), lens[a])
<1>0. Shown(a) \in 0..N /\ lens[a] \in 0..N /\ Shown(a) <= lens[a] /\ Cells \subseteq Int
  BY ShownFacts DEF Cells
<1> SUFFICES ASSUME NEW c \in Cells, c < 2*Shown(a)
             PROVE mem[args[a]][c] = IF c % 2 = 0 THEN given[args[a]][c]
                                     ELSE Ext(given[args[a]][c - 1])
  <2>1. \A c \in Cells : c >= 2*lens[a] => mem[args[a]][c] = given[args[a]][c]
    BY DEF Spread, Spreading, Beyond
  <2>2. \A c \in Cells : (c >= 2*lens[a] => c >= 2*Shown(a))
                        /\ (c < 2*Shown(a) <=> ~(c >= 2*Shown(a)))
    BY <1>0
  <2> QED
    BY <2>1, <2>2 DEF Restored, Ext
<1>1. PICK j \in 0..Shown(a)-1 : c = 2*j \/ c = 2*j + 1
  <2>1. c \div 2 \in 0..Shown(a)-1 /\ (c = 2*(c \div 2) \/ c = 2*(c \div 2) + 1)
    BY <1>0, NAssumption DEF Cells
  <2> QED
    BY <2>1
<1>2. j > -1
  BY <1>1
<1>3. CASE c = 2*j
  <2>1. c % 2 = 0
    BY <1>3, <1>1
  <2> QED
    BY <1>1, <1>2, <1>3, <2>1 DEF Spread, Spreading
<1>4. CASE c = 2*j + 1
  <2>1. c % 2 # 0 /\ c - 1 = 2*j
    BY <1>4, <1>1
  <2> QED
    BY <1>1, <1>2, <1>4, <2>1 DEF Spread, Spreading
<1> QED
  BY <1>1, <1>3, <1>4

LEMMA HandlesImply == TypeOK /\ HandleInv => NativeSeesHandles /\ CallerSeesHandles
<1> SUFFICES ASSUME TypeOK, HandleInv PROVE NativeSeesHandles /\ CallerSeesHandles
  OBVIOUS
<1>1. NativeSeesHandles
  <2> SUFFICES ASSUME pc = "native", kind # "contents", NEW a \in 1..2,
                      NEW j \in 0..lens[a]-1
               PROVE  mem[args[a]][j] = given[args[a]][2*j]
    BY DEF NativeSeesHandles
  <2>1. Packed(a) /\ Shown(a) = lens[a]
    BY ShownFacts DEF HandleInv
  <2> QED
    BY <2>1 DEF Packed, Spreading, TypeOK
<1>2. CallerSeesHandles
  <2> SUFFICES ASSUME pc = "return", NEW a \in 1..2
               PROVE  IF kind = "contents" /\ rc = "error" THEN Restored(args[a], 0, 0)
                      ELSE Restored(args[a], Shown(a), lens[a])
    BY DEF CallerSeesHandles
  <2>1. CASE kind = "contents" /\ rc = "error"
    BY <2>1 DEF HandleInv, Untouched, Restored, Cells
  <2>2. CASE ~(kind = "contents" /\ rc = "error")
    <3>1. Spread(a)
      BY <2>2 DEF HandleInv
    <3> QED
      BY <2>2, <3>1, SpreadRestores
  <2> QED
    BY <2>1, <2>2
<1> QED
  BY <1>1, <1>2

(* An argument whose array, contents and length a step leaves alone.       *)
LEMMA SameArgument ==
  ASSUME NEW a \in 1..2, NEW p, args' = args, lens' = lens, kind' = kind, filled' = filled,
         mem'[args[a]] = mem[args[a]], given'[args[a]] = given[args[a]]
  PROVE  /\ Untouched(a) => Untouched(a)'
         /\ Packing(a, p) => Packing(a, p)'
         /\ Spreading(a, p) => Spreading(a, p)'
         /\ Packed(a) => Packed(a)'
         /\ Spread(a) => Spread(a)'
<1>1. mem'[args'[a]] = mem[args[a]] /\ given'[args'[a]] = given[args[a]] /\ lens'[a] = lens[a]
      /\ Shown(a)' = Shown(a)
  BY DEF Shown
<1>2. Untouched(a) => Untouched(a)'
  BY <1>1 DEF Untouched
<1>3. Beyond(a) => Beyond(a)'
  BY <1>1 DEF Beyond
<1>4. Packing(a, p) => Packing(a, p)'
  BY <1>1 DEF Packing
<1>5. Spreading(a, p) => Spreading(a, p)'
  BY <1>1, <1>3 DEF Spreading
<1>6. Packed(a) => Packed(a)'
  BY <1>1, <1>3 DEF Packed, Spreading
<1>7. Spread(a) => Spread(a)'
  BY <1>1, <1>3 DEF Spread, Spreading
<1> QED
  BY <1>2, <1>4, <1>5, <1>6, <1>7, Zenon

(* Packing that has reached the length is packed.                          *)
LEMMA PackingEnds ==
  ASSUME TypeOK, NEW a \in 1..2, NEW p \in 1..N+1, p >= lens[a], p = 1 \/ p <= lens[a],
         Packing(a, p), kind # "contents"
  PROVE  Packed(a)
  BY NAssumption DEF TypeOK, Packing, Packed, Spreading, Beyond, Cells, Shown

(* One step of packing, and one of spreading.                              *)
LEMMA PackingStep ==
  ASSUME TypeOK, CompressStep, Packing(k, i)
  PROVE  Packing(k, i)'
<1> DEFINE a == args[k]
<1>1. /\ i \in 1..N-1 /\ i < lens[k] /\ lens[k] \in 0..N
      /\ i \in Cells /\ 2*i \in Cells /\ a \in Arrays
  BY NAssumption DEF CompressStep, TypeOK, Cells
<1>2. mem'[a] = [mem[a] EXCEPT ![i] = mem[a][2*i]]
  BY <1>1 DEF CompressStep, TypeOK
<1>3. mem'[a][i] = mem[a][2*i] /\ \A c \in Cells \ {i} : mem'[a][c] = mem[a][c]
  BY <1>1, <1>2 DEF TypeOK
<1>4. mem[a][2*i] = given[a][2*i]
  BY <1>1 DEF Packing
<1>5. \A j \in 0..lens[k]-1 : j < i + 1 => mem'[a][j] = given[a][2*j]
  BY <1>1, <1>3, <1>4, NAssumption DEF Packing, Cells
<1>6. \A c \in Cells : c = 0 \/ c >= i + 1 => mem'[a][c] = given[a][c]
  BY <1>1, <1>3 DEF Packing, Cells
<1> QED
  BY <1>5, <1>6 DEF Packing, CompressStep

LEMMA SpreadingStep ==
  ASSUME TypeOK, HandleInv, ExpandStep, Spreading(k, i)
  PROVE  Spreading(k, i)'
<1> DEFINE a == args[k]
           v == mem[a][i]
<1>1. /\ i \in 0..N-1 /\ i < lens[k] /\ lens[k] \in 0..N
      /\ i \in Cells /\ 2*i \in Cells /\ 2*i + 1 \in Cells /\ a \in Arrays
      /\ Shown(k) \in 0..N /\ Shown(k) <= lens[k]
  BY NAssumption, ShownFacts DEF ExpandStep, TypeOK, Cells
<1>2. mem'[a] = [mem[a] EXCEPT ![2*i] = v, ![2*i + 1] = Ext(v)]
  BY <1>1 DEF ExpandStep, TypeOK
<1>3. /\ mem'[a][2*i] = v /\ mem'[a][2*i + 1] = Ext(v)
      /\ \A c \in Cells \ {2*i, 2*i + 1} : mem'[a][c] = mem[a][c]
  BY <1>1, <1>2 DEF TypeOK
<1>4. i < Shown(k) => v = given[a][2*i]
  BY <1>1 DEF Spreading
<1>5. \A j \in 0..Shown(k)-1 : j <= i - 1 => mem'[a][j] = given[a][2*j]
  BY <1>1, <1>3, NAssumption DEF Spreading, Cells
<1>6. \A j \in 0..Shown(k)-1 : j > i - 1 =>
        mem'[a][2*j] = given[a][2*j] /\ mem'[a][2*j + 1] = Ext(given[a][2*j])
  <2> SUFFICES ASSUME NEW j \in 0..Shown(k)-1, j > i - 1
               PROVE  /\ mem'[a][2*j] = given[a][2*j]
                      /\ mem'[a][2*j + 1] = Ext(given[a][2*j])
    OBVIOUS
  <2>1. CASE j = i
    <3>1. i < Shown(k)
      BY <1>1, <2>1
    <3> QED
      BY <2>1, <3>1, <1>3, <1>4
  <2>2. CASE j # i
    <3>1. j > i /\ 2*j \in Cells \ {2*i, 2*i + 1} /\ 2*j + 1 \in Cells \ {2*i, 2*i + 1}
      BY <2>2, <1>1, NAssumption DEF Cells
    <3>2. mem[a][2*j] = given[a][2*j] /\ mem[a][2*j + 1] = Ext(given[a][2*j])
      BY <3>1 DEF Spreading
    <3>3. mem'[a][2*j] = mem[a][2*j] /\ mem'[a][2*j + 1] = mem[a][2*j + 1]
      BY <3>1, <1>3
    <3> QED
      BY <3>2, <3>3
  <2> QED
    BY <2>1, <2>2
<1>7. \A c \in Cells : c >= 2*lens[k] => mem'[a][c] = given[a][c]
  BY <1>1, <1>3 DEF Spreading, Beyond, Cells
<1>8. Shown(k)' = Shown(k)
  BY DEF ExpandStep, Shown
<1> QED
  BY <1>5, <1>6, <1>7, <1>8 DEF Spreading, Beyond, ExpandStep

LEMMA HandleInit == Init => HandleInv
  BY DEF Init, HandleInv

(* A step of the packing loop, or from one argument to the next.           *)
LEMMA HandleCompress ==
  ASSUME TypeOK, HandleInv, CompressStep \/ CompressDone
  PROVE  HandleInv'
<1>1. /\ pc = "compress" /\ args[1] # args[2] /\ args' = args /\ lens' = lens
      /\ given' = given /\ kind' = kind /\ args \in [1..2 -> Arrays] /\ kind # "contents"
      /\ kind # "types" => lens[2] = 0
      /\ filled' = filled /\ filled = 0 /\ filled <= lens[1]
      /\ i = 1 \/ i <= lens[k]
      /\ i \in 1..N+1 /\ lens \in [1..2 -> 0..N] /\ k \in 1..2
  BY DEF HandleInv, TypeOK, CompressStep, CompressDone
<1>2. Packing(k, i) /\ (k = 1 => Untouched(2)) /\ (k = 2 => Packed(1))
  BY <1>1 DEF HandleInv
<1>3. CASE CompressStep
  <2>1. Packing(k, i)'
    BY <1>2, <1>3, PackingStep
  <2>2. /\ pc' = "compress" /\ k' = k /\ i' = i + 1 /\ i < lens[k]
        /\ mem' = [mem EXCEPT ![args[k]][i] = mem[args[k]][2*i]]
    BY <1>3 DEF CompressStep
  <2>3. \A b \in Arrays : b # args[k] => mem'[b] = mem[b]
    BY <2>2 DEF TypeOK
  <2>4. i' = 1 \/ i' <= lens'[k']
    BY <1>1, <2>2
  <2>5. CASE k = 1
    <3>1. mem'[args[2]] = mem[args[2]]
      BY <1>1, <2>3, <2>5
    <3>2. Untouched(2)'
      BY <3>1, <1>1, <1>2, <2>5, SameArgument
    <3> QED
      BY <1>1, <2>1, <2>2, <2>4, <2>5, <3>2 DEF HandleInv
  <2>6. CASE k = 2
    <3>1. mem'[args[1]] = mem[args[1]]
      BY <1>1, <2>3, <2>6
    <3>2. Packed(1)'
      BY <3>1, <1>1, <1>2, <2>6, SameArgument
    <3> QED
      BY <1>1, <2>1, <2>2, <2>4, <2>6, <3>2 DEF HandleInv
  <2> QED
    BY <1>1, <2>5, <2>6
<1>4. CASE CompressDone
  <2>1. mem' = mem /\ i >= lens[k] /\ Packed(k)
    BY <1>1, <1>2, <1>4, PackingEnds DEF CompressDone
  <2>2. CASE k = 1
    <3>1. k' = 2 /\ i' = 1 /\ pc' = "compress"
      BY <1>1, <1>4, <2>2 DEF CompressDone
    <3>2. Untouched(2)' /\ Packed(1)'
      BY <1>1, <1>2, <2>1, <2>2, SameArgument
    <3>3. Packing(2, 1)'
      <4>1. \A j \in 0..lens'[2]-1 : j < 1 => j = 0 /\ 2*j = 0 /\ j \in Cells
        BY <1>1, NAssumption DEF Cells
      <4> QED
        BY <3>2, <4>1 DEF Untouched, Packing
    <3>4. Packing(k, i)'
      BY <3>1, <3>3 DEF Packing
    <3> QED
      BY <1>1, <3>1, <3>2, <3>4 DEF HandleInv
  <2>3. CASE k = 2
    <3>1. pc' = "native"
      BY <1>4, <2>3 DEF CompressDone
    <3>2. Packed(1)' /\ Packed(2)'
      BY <1>1, <1>2, <2>1, <2>3, SameArgument
    <3>3. kind # "contents"
      BY <1>1 DEF HandleInv
    <3> QED
      BY <1>1, <3>1, <3>2, <3>3 DEF HandleInv
  <2> QED
    BY <1>1, <2>2, <2>3
<1> QED
  BY <1>3, <1>4

(* A step of the spreading loop, or from one argument to the next.         *)
LEMMA HandleExpand ==
  ASSUME TypeOK, HandleInv, ExpandStep \/ ExpandDone
  PROVE  HandleInv'
<1>1. /\ pc = "restore" /\ args[1] # args[2] /\ args' = args /\ lens' = lens
      /\ given' = given /\ kind' = kind /\ rc' = rc /\ args \in [1..2 -> Arrays]
      /\ kind # "types" => lens[2] = 0
      /\ filled' = filled /\ filled <= lens[1]
      /\ kind = "contents" => rc = "ok"
      /\ i \in Int /\ i >= -1 /\ lens \in [1..2 -> 0..N] /\ k \in 1..2
  BY DEF HandleInv, TypeOK, ExpandStep, ExpandDone
<1>2. Spreading(k, i) /\ (k = 1 => Packed(2)) /\ (k = 2 => Spread(1))
  BY <1>1 DEF HandleInv
<1>3. CASE ExpandStep
  <2>1. Spreading(k, i)'
    BY <1>2, <1>3, SpreadingStep
  <2>2. /\ pc' = "restore" /\ k' = k /\ i' = i - 1 /\ i >= 0
        /\ \E d \in {mem'[args[k]]} : mem' = [mem EXCEPT ![args[k]] = d]
    BY <1>1, <1>3 DEF ExpandStep, TypeOK
  <2>3. \A b \in Arrays : b # args[k] => mem'[b] = mem[b]
    BY <2>2 DEF TypeOK
  <2>4. i' >= -1
    BY <1>1, <2>2
  <2>5. CASE k = 1
    <3>1. mem'[args[2]] = mem[args[2]]
      BY <1>1, <2>3, <2>5
    <3>2. Packed(2)'
      BY <3>1, <1>1, <1>2, <2>5, SameArgument
    <3> QED
      BY <1>1, <2>1, <2>2, <2>4, <2>5, <3>2 DEF HandleInv
  <2>6. CASE k = 2
    <3>1. mem'[args[1]] = mem[args[1]]
      BY <1>1, <2>3, <2>6
    <3>2. Spread(1)'
      BY <3>1, <1>1, <1>2, <2>6, SameArgument
    <3> QED
      BY <1>1, <2>1, <2>2, <2>4, <2>6, <3>2 DEF HandleInv
  <2> QED
    BY <1>1, <2>5, <2>6
<1>4. CASE ExpandDone
  <2>1. mem' = mem /\ i = -1
    BY <1>1, <1>4 DEF ExpandDone
  <2>2. Spread(k)
    BY <1>2, <2>1 DEF Spread
  <2>3. CASE k = 1
    <3>1. k' = 2 /\ i' = lens[2] - 1 /\ pc' = "restore"
      BY <1>1, <1>4, <2>3 DEF ExpandDone
    <3>2. Packed(2)' /\ Spread(1)'
      BY <1>1, <1>2, <2>1, <2>2, <2>3, SameArgument
    <3>3. Spreading(k, i)'
      BY <1>1, <3>1, <3>2 DEF Packed, Spreading
    <3>4. i' >= -1
      BY <1>1, <3>1
    <3> QED
      BY <1>1, <3>1, <3>2, <3>3, <3>4 DEF HandleInv
  <2>4. CASE k = 2
    <3>1. pc' = "statuses"
      BY <1>4, <2>4 DEF ExpandDone
    <3>2. Spread(1)' /\ Spread(2)'
      BY <1>1, <1>2, <2>1, <2>2, <2>4, SameArgument
    <3> QED
      BY <1>1, <3>1, <3>2 DEF HandleInv
  <2> QED
    BY <1>1, <2>3, <2>4
<1> QED
  BY <1>3, <1>4

(* A native call on packed arrays, or into an untouched one.               *)
LEMMA HandleNative ==
  ASSUME TypeOK, HandleInv, Native
  PROVE  HandleInv'
<1>1. /\ pc = "native" /\ args[1] # args[2] /\ args' = args /\ lens' = lens
      /\ kind' = kind /\ args \in [1..2 -> Arrays] /\ args[1] \in Arrays /\ args[2] \in Arrays
      /\ kind # "types" => lens[2] = 0
      /\ lens \in [1..2 -> 0..N] /\ lens[1] \in 0..N /\ filled = 0
  BY DEF HandleInv, TypeOK, Native, NativeRequests, NativeTypes, NativeContents,
         NativeContentsFails
<1>2. ASSUME Packed(1)', Packed(2)', kind = "contents" => rc' = "ok", ToRestore, pc' = "restore",
             filled' <= lens[1]
      PROVE  HandleInv'
  <2>1. Spreading(k, i)'
    BY <1>1, <1>2 DEF ToRestore, Packed, Spreading, Shown
  <2>2. k' = 1 /\ i' >= -1
    BY <1>1, <1>2 DEF ToRestore
  <2> QED
    BY <1>1, <1>2, <2>1, <2>2 DEF HandleInv
<1>3. ASSUME NEW done \in SUBSET (0..N-1), NEW o \in -1..N, NEW wr \in 0..N,
             NEW code \in {"ok", "error"}, NativeRequests(done, o, wr, code)
      PROVE  HandleInv'
  <2>1. /\ Packed(1) /\ Packed(2) /\ kind # "contents" /\ filled' = filled
        /\ Shown(1) = lens[1] /\ Shown(1)' = lens[1]
    BY <1>1, <1>3 DEF HandleInv, NativeRequests, Shown
  <2>2. /\ done \subseteq 0..lens[1]-1
        /\ \A c \in Cells : mem'[args[1]][c] = IF c \in done THEN Null ELSE mem[args[1]][c]
        /\ \A c \in Cells : given'[args[1]][c] = IF \E j \in done : c = 2*j THEN Null
                                                 ELSE given[args[1]][c]
        /\ mem'[args[2]] = mem[args[2]] /\ given'[args[2]] = given[args[2]]
    BY <1>1, <1>3 DEF NativeRequests, TypeOK
  <2>3. ASSUME NEW j \in 0..lens[1]-1
        PROVE  mem'[args[1]][j] = given'[args[1]][2*j]
    <3>1. j \in Cells /\ 2*j \in Cells /\ mem[args[1]][j] = given[args[1]][2*j]
      BY <1>1, <2>1, NAssumption DEF Packed, Spreading, Cells
    <3>2. (\E l \in done : 2*j = 2*l) <=> j \in done
      BY <2>2
    <3> QED
      BY <2>2, <3>1, <3>2
  <2>4. \A c \in Cells : c >= 2*lens[1] =>
          c \notin done /\ \A j \in done : c # 2*j
    BY <1>1, <2>2 DEF Cells
  <2>5. \A c \in Cells : c >= 2*lens[1] => mem'[args[1]][c] = given'[args[1]][c]
    BY <2>1, <2>2, <2>4 DEF Packed, Spreading, Beyond
  <2>6. Packed(1)'
    BY <1>1, <2>1, <2>3, <2>5 DEF Packed, Spreading, Beyond
  <2>7. Packed(2)'
    BY <1>1, <2>1, <2>2, SameArgument
  <2> QED
    BY <1>1, <1>2, <1>3, <2>1, <2>6, <2>7 DEF NativeRequests, ToRestore
<1>4. ASSUME NEW code \in {"ok", "error"}, NativeTypes(code)
      PROVE  HandleInv'
  <2>1. /\ Packed(1) /\ Packed(2) /\ kind # "contents" /\ mem' = mem /\ given' = given
        /\ filled' = filled
    BY <1>1, <1>4 DEF HandleInv, NativeTypes
  <2>2. Packed(1)' /\ Packed(2)'
    BY <1>1, <2>1, SameArgument
  <2> QED
    BY <1>1, <1>2, <1>4, <2>1, <2>2 DEF NativeTypes, ToRestore
<1>5. ASSUME NEW wr \in 0..N, NEW h \in Contents, NativeContents(wr, h)
      PROVE  HandleInv'
  <2>1. /\ Untouched(1) /\ Untouched(2) /\ kind = "contents" /\ lens[2] = 0
        /\ wr \in 0..lens[1] /\ filled' = wr /\ Shown(1)' = wr /\ Shown(2)' = 0
    BY <1>1, <1>5 DEF HandleInv, NativeContents, Shown
  <2>2. /\ \A c \in Cells : mem'[args[1]][c] = IF c < wr THEN h[c] ELSE mem[args[1]][c]
        /\ \A c \in Cells : given'[args[1]][c] = IF \E j \in 0..wr-1 : c = 2*j THEN h[c \div 2]
                                                 ELSE given[args[1]][c]
        /\ mem'[args[2]] = mem[args[2]] /\ given'[args[2]] = given[args[2]]
    BY <1>1, <1>5 DEF NativeContents, TypeOK
  <2>3. \A j \in 0..wr-1 : 2*j \in Cells /\ j \in Cells /\ (2*j) \div 2 = j
    BY <1>1, <2>1, NAssumption DEF Cells
  <2>4. \A j \in 0..wr-1 : mem'[args[1]][j] = given'[args[1]][2*j]
    BY <2>2, <2>3
  <2>5. \A c \in Cells : c >= 2*lens[1] => ~(c < wr) /\ \A j \in 0..wr-1 : c # 2*j
    BY <1>1, <2>1 DEF Cells
  <2>6. \A c \in Cells : c >= 2*lens[1] => mem'[args[1]][c] = given'[args[1]][c]
    BY <2>1, <2>2, <2>5 DEF Untouched
  <2>7. \A j \in 0..wr-1 : ~(j > lens[1] - 1)
    BY <1>1, <2>1
  <2>8. Packed(1)'
    BY <1>1, <2>1, <2>4, <2>6, <2>7 DEF Packed, Spreading, Beyond
  <2>9. Packed(2)'
    <3>1. \A c \in Cells : mem'[args'[2]][c] = given'[args'[2]][c]
      BY <1>1, <2>1, <2>2 DEF Untouched
    <3> QED
      BY <2>1, <3>1 DEF Packed, Spreading, Beyond
  <2> QED
    BY <1>1, <1>2, <1>5, <2>1, <2>8, <2>9 DEF NativeContents, ToRestore
<1>6. CASE NativeContentsFails
  <2>1. Untouched(1) /\ Untouched(2) /\ kind = "contents"
    BY <1>1, <1>6 DEF HandleInv, NativeContentsFails
  <2>2. mem' = mem /\ given' = given /\ pc' = "return" /\ rc' = "error" /\ filled' = filled
    BY <1>6 DEF NativeContentsFails
  <2>3. Untouched(1)' /\ Untouched(2)'
    BY <1>1, <2>1, <2>2, SameArgument
  <2>4. \A a \in 1..2 : Untouched(a)'
    BY <2>3
  <2> QED
    BY <1>1, <2>1, <2>2, <2>4 DEF HandleInv
<1> QED
  BY <1>3, <1>4, <1>5, <1>6 DEF Native

(* Entering a wrapper, the statuses, and returning.                        *)
LEMMA HandleStep ==
  ASSUME ~MayAlias, TypeOK, HandleInv, [Next]_vars
  PROVE  HandleInv'
<1>1. ASSUME NEW kd \in Kinds, NEW x \in Arrays, NEW y \in Arrays, NEW n1 \in 0..N,
             NEW n2 \in 0..N, NEW c1 \in Contents, NEW c2 \in Contents,
             Call(kd, x, y, n1, n2, c1, c2)
      PROVE  HandleInv'
  <2>1. /\ pc' \in {"compress", "native"} /\ kind' = kd /\ args' = <<x, y>> /\ x # y
        /\ lens' = <<n1, n2>> /\ k' = 1 /\ i' = 1 /\ given' = mem'
        /\ kd # "types" => n2 = 0
        /\ pc' = "compress" <=> kd # "contents"
        /\ filled' = 0 /\ 0 <= n1
    BY <1>1 DEF Call, HandleInv
  <2>2. Untouched(1)' /\ Untouched(2)'
    BY <2>1 DEF Untouched
  <2>3. Packing(1, 1)'
    <3>1. \A j \in 0..lens'[1]-1 : j < 1 => 2*j = j
      BY <2>1
    <3> QED
      BY <2>1, <3>1 DEF Packing
  <2>4. Packing(k, i)'
    BY <2>1, <2>3 DEF Packing
  <2> QED
    BY <2>1, <2>2, <2>4 DEF HandleInv
<1>2. CASE CompressStep \/ CompressDone
  BY <1>2, HandleCompress
<1>3. CASE Native
  BY <1>3, HandleNative
<1>4. CASE ExpandStep \/ ExpandDone
  BY <1>4, HandleExpand
<1>5. CASE StatusStep \/ StatusDone
  <2>1. /\ pc = "statuses" /\ pc' \in {"statuses", "return"} /\ Spread(1) /\ Spread(2)
        /\ UNCHANGED <<mem, given, args, lens, kind, rc, filled>> /\ filled <= lens[1]
        /\ kind = "contents" => rc = "ok"
        /\ args[1] # args[2] /\ (kind # "types" => lens[2] = 0)
    BY <1>5 DEF StatusStep, StatusDone, HandleInv
  <2>2. Spread(1)' /\ Spread(2)'
    BY <2>1, SameArgument
  <2>3. \A a \in 1..2 : Spread(a)'
    BY <2>2
  <2> QED
    BY <2>1, <2>2, <2>3 DEF HandleInv
<1>6. CASE Return
  BY <1>6 DEF Return, HandleInv
<1>7. CASE UNCHANGED vars
  BY <1>7 DEF vars, HandleInv, Untouched, Packing, Packed, Spread, Spreading, Beyond, Shown
<1> QED
  BY <1>1, <1>2, <1>3, <1>4, <1>5, <1>6, <1>7 DEF Next, User, Wrapper

LEMMA HandlesSafe ==
  ASSUME ~MayAlias
  PROVE  Spec => [](NativeSeesHandles /\ CallerSeesHandles)
<1>1. Init => TypeOK /\ HandleInv
  BY TypeInit, HandleInit
<1>2. TypeOK /\ HandleInv /\ [Next]_vars => TypeOK' /\ HandleInv'
  BY TypeStep, HandleStep
<1>3. TypeOK /\ HandleInv => NativeSeesHandles /\ CallerSeesHandles
  BY HandlesImply
<1> QED
  BY <1>1, <1>2, <1>3, PTL DEF Spec

(* The native function gets, in every entry of every array, the handle the *)
(* caller put there, if no array is passed twice.                          *)
THEOREM NativeHandles ==
  ASSUME ~MayAlias
  PROVE  Spec => []NativeSeesHandles
BY HandlesSafe, PTL

(* Every wrapper gives the arrays back as the caller means them, on success *)
(* and on error, if no array is passed twice.                              *)
THEOREM CallerHandles ==
  ASSUME ~MayAlias
  PROVE  Spec => []CallerSeesHandles
BY HandlesSafe, PTL

-----------------------------------------------------------------------------
(***************************************************************************)
(* Statuses.  Those from j on are spread, those before are still records   *)
(* of the native call.                                                     *)
(***************************************************************************)
StatusesSpread(from) ==
  /\ \A j \in 0..written-1, f \in 0..4 : j <= from => st[5*j + f] = 5*j + f
  /\ \A j \in 0..written-1, f \in 0..4 : j > from  => st[6*j + f] = 5*j + f

StatusInv ==
  /\ written \in {0, out}
  /\ pc \in {"user", "compress", "native"} => written = 0 /\ out = 0
  /\ pc = "restore"  => StatusesSpread(written - 1)
  /\ pc = "statuses" => StatusesSpread(i) /\ (written > 0 => i >= -1)
  /\ pc = "return"   => StatusesSpread(-1)

LEMMA StatusInit == Init => StatusInv
  BY DEF Init, StatusInv

(* One memcpy, from the end: record j moves to its place, the records      *)
(* before it are not touched.                                              *)
LEMMA StatusCopy ==
  ASSUME AtOnce, TypeOK, StatusInv, StatusStep, written > 0
  PROVE  StatusesSpread(i)'
<1>1. /\ pc = "statuses" /\ i \in 0..N-1 /\ i < out /\ out = written /\ written \in 1..N
      /\ written' = written /\ i' = i - 1 /\ st' = Copied(st, 6*i, 5*i, 5)
      /\ StatusesSpread(i)
  BY NAssumption DEF StatusStep, TypeOK, StatusInv, CopyRecord
<1>2. \A w \in StatusCells : st'[w] = IF w \in 6*i..(6*i + 5 - 1) THEN st[5*i + (w - 6*i)]
                                      ELSE st[w]
  BY <1>1 DEF Copied
<1>3. ASSUME NEW j \in 0..written-1, NEW f \in 0..4, j <= i - 1
      PROVE  st'[5*j + f] = 5*j + f
  <2>1. 5*j + f \in StatusCells /\ 5*j + f \notin 6*i..(6*i + 5 - 1)
    BY <1>1, <1>3, NAssumption DEF StatusCells
  <2>2. st[5*j + f] = 5*j + f
    BY <1>1, <1>3 DEF StatusesSpread
  <2> QED
    BY <1>2, <2>1, <2>2
<1>4. ASSUME NEW j \in 0..written-1, NEW f \in 0..4, j > i - 1
      PROVE  st'[6*j + f] = 5*j + f
  <2>1. 6*j + f \in StatusCells
    BY <1>1, NAssumption DEF StatusCells
  <2>2. CASE j = i
    <3>1. 6*j + f \in 6*i..(6*i + 5 - 1) /\ 5*i + ((6*j + f) - 6*i) = 5*j + f
      BY <1>1, <2>2
    <3>2. st[5*j + f] = 5*j + f
      BY <1>1, <2>2 DEF StatusesSpread
    <3> QED
      BY <1>2, <2>1, <3>1, <3>2
  <2>3. CASE j # i
    <3>1. j > i /\ 6*j + f \notin 6*i..(6*i + 5 - 1)
      BY <1>1, <1>4, <2>3
    <3>2. st[6*j + f] = 5*j + f
      BY <1>1, <3>1 DEF StatusesSpread
    <3> QED
      BY <1>2, <2>1, <3>1, <3>2
  <2> QED
    BY <2>2, <2>3
<1> QED
  BY <1>1, <1>3, <1>4 DEF StatusesSpread

LEMMA StatusInvStep ==
  ASSUME AtOnce, TypeOK, StatusInv, [Next]_vars
  PROVE  StatusInv'
<1>1. CASE User
  BY <1>1 DEF User, Call, StatusInv
<1>2. ASSUME NEW done \in SUBSET (0..N-1), NEW o \in -1..N, NEW wr \in 0..N,
             NEW code \in {"ok", "error"}, NativeRequests(done, o, wr, code)
      PROVE  StatusInv'
  <2>1. /\ wr \in {0, o} /\ out' = o /\ written' = wr /\ pc' = "restore"
        /\ st' = [w \in StatusCells |-> IF w < 5*wr THEN w ELSE st[w]]
    BY <1>2 DEF NativeRequests, ToRestore
  <2>2. \A j \in 0..wr-1, f \in 0..4 : 5*j + f \in StatusCells /\ 5*j + f < 5*wr
    BY NAssumption DEF StatusCells
  <2>3. \A j \in 0..wr-1, f \in 0..4 : st'[5*j + f] = 5*j + f
    BY <2>1, <2>2
  <2>4. \A j \in 0..wr-1 : ~(j > wr - 1)
    OBVIOUS
  <2>5. StatusesSpread(written - 1)'
    BY <2>1, <2>3, <2>4 DEF StatusesSpread
  <2> QED
    BY <2>1, <2>5 DEF StatusInv
<1>3. ASSUME NEW code \in {"ok", "error"}, NativeTypes(code)
      PROVE  StatusInv'
  BY <1>3 DEF NativeTypes, ToRestore, StatusInv, StatusesSpread
<1>4. ASSUME NEW wr \in 0..N, NEW h \in Contents, NativeContents(wr, h)
      PROVE  StatusInv'
  BY <1>4 DEF NativeContents, ToRestore, StatusInv, StatusesSpread
<1>5. CASE NativeContentsFails
  BY <1>5 DEF NativeContentsFails, StatusInv, StatusesSpread
<1>6. CASE CompressStep \/ CompressDone
  BY <1>6 DEF CompressStep, CompressDone, StatusInv
<1>7. CASE ExpandStep
  BY <1>7 DEF ExpandStep, StatusInv, StatusesSpread
<1>8. CASE ExpandDone
  <2>1. CASE k = 1
    BY <1>8, <2>1 DEF ExpandDone, StatusInv, StatusesSpread
  <2>2. CASE k # 1
    <3>1. /\ pc' = "statuses" /\ i' = out - 1 /\ StatusesSpread(written - 1)
          /\ written \in {0, out} /\ UNCHANGED <<written, out, st>> /\ written \in 0..N
      BY <1>8, <2>2 DEF ExpandDone, StatusInv, TypeOK
    <3>2. CASE written = 0
      BY <3>1, <3>2 DEF StatusInv, StatusesSpread
    <3>3. CASE written # 0
      <4>1. written = out /\ i' = written - 1 /\ i' >= -1
        BY <3>1, <3>3
      <4>2. StatusesSpread(i)'
        BY <3>1, <4>1 DEF StatusesSpread
      <4> QED
        BY <3>1, <4>1, <4>2 DEF StatusInv
    <3> QED
      BY <3>2, <3>3
  <2> QED
    BY <2>1, <2>2
<1>9. CASE StatusStep
  <2>1. /\ pc' = "statuses" /\ i \in 0..N-1 /\ i' = i - 1 /\ written' = written /\ out' = out
        /\ written \in {0, out} /\ written \in 0..N
    BY <1>9, NAssumption DEF StatusStep, StatusInv, TypeOK
  <2>2. CASE written = 0
    BY <2>1, <2>2 DEF StatusInv, StatusesSpread
  <2>3. CASE written # 0
    <3>1. StatusesSpread(i)'
      BY <1>9, <2>1, <2>3, StatusCopy
    <3> QED
      BY <2>1, <3>1 DEF StatusInv
  <2> QED
    BY <2>2, <2>3
<1>10. CASE StatusDone
  <2>1. /\ pc' = "return" /\ i < 0 /\ UNCHANGED <<written, out, st>> /\ i \in Int
        /\ StatusesSpread(i) /\ (written > 0 => i >= -1)
        /\ written \in {0, out} /\ written \in 0..N
    BY <1>10 DEF StatusDone, StatusInv, TypeOK
  <2>2. CASE written = 0
    BY <2>1, <2>2 DEF StatusInv, StatusesSpread
  <2>3. CASE written # 0
    <3>1. i = -1
      BY <2>1, <2>3
    <3> QED
      BY <2>1, <3>1 DEF StatusInv, StatusesSpread
  <2> QED
    BY <2>2, <2>3
<1>11. CASE Return
  BY <1>11 DEF Return, StatusInv
<1>12. CASE UNCHANGED vars
  BY <1>12 DEF vars, StatusInv, StatusesSpread
<1> QED
  BY <1>1, <1>2, <1>3, <1>4, <1>5, <1>6, <1>7, <1>8, <1>9, <1>10, <1>11, <1>12
  DEF Next, Native, Wrapper

(* The status at index j is the one the native call wrote at index j, for  *)
(* any number of statuses, if memcpy reads all it copies before it writes. *)
THEOREM StatusesIntact ==
  ASSUME AtOnce
  PROVE  Spec => []StatusesInPlace
<1>1. Init => TypeOK /\ StatusInv
  BY TypeInit, StatusInit
<1>2. TypeOK /\ StatusInv /\ [Next]_vars => TypeOK' /\ StatusInv'
  BY TypeStep, StatusInvStep
<1>3. TypeOK /\ StatusInv => StatusesInPlace
  <2> SUFFICES ASSUME TypeOK, StatusInv, pc = "return", NEW j \in 0..written-1, NEW f \in 0..4
               PROVE  st[6*j + f] = 5*j + f
    BY DEF StatusesInPlace
  <2>1. j > -1
    OBVIOUS
  <2>2. StatusesSpread(-1)
    BY DEF StatusInv
  <2> QED
    BY <2>1, <2>2 DEF StatusesSpread
<1> QED
  BY <1>1, <1>2, <1>3, PTL DEF Spec

-----------------------------------------------------------------------------
(***************************************************************************)
(* The wrappers implement HandleCalls.                                     *)
(***************************************************************************)

(* Arrays that take no part in the call.                                   *)
OutsideInv ==
  /\ pc = "user" => given = mem /\ lens = [a \in 1..2 |-> 0]
  /\ \A x \in Arrays : x # args[1] /\ x # args[2] => mem[x] = given[x]

CallInv == TypeOK /\ HandleInv /\ OutsideInv

(* Is the handle narrow for the call that is under way?                    *)
InCall(x, j) == \E a \in 1..2 : args[a] = x /\ j < lens[a]
Narrowed(x, j) ==
  /\ pc # "user" /\ InCall(x, j)
  /\ ~(kind = "contents" /\ (pc = "native" \/ rc = "error"))

(* An entry of an array to be filled that the native call did not write.   *)
Unwritten(x, j) ==
  /\ kind = "contents" /\ rc = "ok" /\ pc \in {"restore", "statuses", "return"}
  /\ args[1] = x /\ filled <= j /\ j < lens[1]

(* The handles, by what the caller and the native function mean; one that  *)
(* nobody has given a meaning is what the wrapper has there.               *)
Meant(x, j) ==
  IF Unwritten(x, j) THEN HandleOf(1, j)
  ELSE IF Narrowed(x, j) THEN AsWord(given[x][2*j])
  ELSE [low |-> given[x][2*j], high |-> given[x][2*j + 1]]
MeantNow == [x \in Arrays |-> [j \in 0..N-1 |-> Meant(x, j)]]

LEMMA OutsideStep ==
  ASSUME TypeOK, OutsideInv, [Next]_vars PROVE OutsideInv'
<1>1. ASSUME NEW kd \in Kinds, NEW x \in Arrays, NEW y \in Arrays, NEW n1 \in 0..N,
             NEW n2 \in 0..N, NEW c1 \in Contents, NEW c2 \in Contents,
             Call(kd, x, y, n1, n2, c1, c2)
      PROVE  OutsideInv'
  BY <1>1 DEF Call, OutsideInv
<1>2. ASSUME NEW a \in 1..2, UNCHANGED <<args, lens>>, pc' # "user",
             \A x \in Arrays : x # args[a] => mem'[x] = mem[x] /\ given'[x] = given[x]
      PROVE  OutsideInv'
  BY <1>2 DEF OutsideInv
<1>3. CASE CompressStep \/ ExpandStep
  <2>1. k \in 1..2 /\ UNCHANGED <<args, lens, given>> /\ pc' # "user"
        /\ \A x \in Arrays : x # args[k] => mem'[x] = mem[x]
    BY <1>3 DEF CompressStep, ExpandStep, TypeOK
  <2> QED
    BY <1>2, <2>1
<1>4. CASE Native
  <2>1. /\ UNCHANGED <<args, lens>> /\ pc' # "user"
        /\ \A x \in Arrays : x # args[1] => mem'[x] = mem[x] /\ given'[x] = given[x]
    BY <1>4 DEF Native, NativeRequests, NativeTypes, NativeContents, NativeContentsFails,
                ToRestore, TypeOK
  <2> QED
    BY <1>2, <2>1
<1>5. CASE CompressDone \/ ExpandDone \/ StatusStep \/ StatusDone
  <2>1. UNCHANGED <<args, lens, mem, given>> /\ pc' # "user"
    BY <1>5 DEF CompressDone, ExpandDone, StatusStep, StatusDone
  <2> QED
    BY <1>2, <2>1
<1>6. CASE Return
  BY <1>6 DEF Return, OutsideInv
<1>7. CASE UNCHANGED vars
  BY <1>7 DEF vars, OutsideInv
<1> QED
  BY <1>1, <1>3, <1>4, <1>5, <1>6, <1>7 DEF Next, User, Wrapper

LEMMA CallInvInit == Init => CallInv
<1>1. Init => OutsideInv
  BY DEF Init, OutsideInv
<1> QED
  BY <1>1, TypeInit, HandleInit DEF CallInv

LEMMA CallInvStep == ASSUME ~MayAlias PROVE CallInv /\ [Next]_vars => CallInv'
BY TypeStep, HandleStep, OutsideStep DEF CallInv

(* A handle that takes part, wherever the wrapper has it.                  *)
LEMMA HandleOfArgument ==
  ASSUME CallInv, NEW a \in 1..2, NEW j \in 0..N-1, j < lens[a]
  PROVE  HandleOf(a, j) = Meant(args[a], j)
<1> DEFINE x == args[a]
<1>1. /\ TypeOK /\ HandleInv /\ OutsideInv /\ x \in Arrays /\ lens[a] \in 0..N
      /\ pc # "user" /\ InCall(x, j)
      /\ j \in 0..lens[a]-1 /\ 2*j \in Cells /\ 2*j + 1 \in Cells /\ j \in Cells
      /\ k \in 1..2 /\ i \in Int
  BY CellFacts DEF CallInv, TypeOK, OutsideInv, InCall
<1>2. ASSUME Untouched(a) PROVE AsStored(x, j) = [low |-> given[x][2*j], high |-> given[x][2*j + 1]]
  BY <1>1, <1>2 DEF Untouched, AsStored
<1>3. ASSUME NEW p \in Int, Spreading(a, p), j < Shown(a)
      PROVE  IF j > p THEN AsStored(x, j) = AsWord(given[x][2*j])
             ELSE mem[x][j] = given[x][2*j]
  <2>1. Shown(a) \in 0..N /\ j \in 0..Shown(a)-1
    BY <1>1, <1>3, ShownFacts
  <2> QED
    BY <1>3, <2>1 DEF Spreading, AsStored, AsWord, Ext
<1>4. CASE kind = "contents" /\ (pc = "native" \/ (pc = "return" /\ rc = "error"))
  <2>1. Untouched(a) /\ InTwoWords(a, j) /\ ~Narrowed(x, j) /\ ~Unwritten(x, j)
    BY <1>1, <1>4 DEF HandleInv, InTwoWords, Narrowed, Unwritten
  <2> QED
    BY <1>2, <2>1 DEF HandleOf, Meant
<1>6. CASE Unwritten(x, j)
  <2>1. a = 1
    BY <1>1, <1>6 DEF HandleInv, Unwritten
  <2> QED
    BY <1>6, <2>1 DEF Meant
<1>5. CASE ~Unwritten(x, j)
           /\ ~(kind = "contents" /\ (pc = "native" \/ (pc = "return" /\ rc = "error")))
  <2>0. j < Shown(a)
    <3>1. kind = "contents" /\ pc \in {"restore", "statuses"} => rc = "ok"
      BY <1>1 DEF HandleInv
    <3>2. kind = "contents" => pc # "compress"
      BY <1>1 DEF HandleInv
    <3>3. pc \in {"user", "compress", "native", "restore", "statuses", "return"}
          /\ rc \in {"ok", "error"} /\ filled \in 0..N
      BY <1>1 DEF TypeOK
    <3> QED
      BY <1>1, <1>5, <3>1, <3>2, <3>3 DEF Shown, Unwritten
  <2>1. Narrowed(x, j) /\ Meant(x, j) = AsWord(given[x][2*j])
    <3>1. kind = "contents" /\ pc \in {"restore", "statuses"} => rc = "ok"
      BY <1>1 DEF HandleInv
    <3>2. kind = "contents" => pc # "compress"
      BY <1>1 DEF HandleInv
    <3>3. pc \in {"user", "compress", "native", "restore", "statuses", "return"}
      BY <1>1 DEF TypeOK
    <3> QED
      BY <1>1, <1>5, <3>1, <3>2, <3>3 DEF Narrowed, Meant
  <2>2. CASE pc \in {"statuses", "return"}
    <3>1. Spreading(a, -1) /\ -1 \in Int /\ j > -1 /\ InTwoWords(a, j)
      BY <1>1, <1>5, <2>2 DEF HandleInv, Spread, InTwoWords
    <3> QED
      BY <1>3, <2>0, <2>1, <3>1 DEF HandleOf
  <2>3. CASE pc = "native"
    <3>1. Spreading(a, lens[a] - 1) /\ lens[a] - 1 \in Int /\ ~(j > lens[a] - 1)
          /\ ~InTwoWords(a, j) /\ ~StillUnpacked(a, j)
      BY <1>1, <1>5, <2>3 DEF HandleInv, Packed, InTwoWords, StillUnpacked
    <3> QED
      BY <1>3, <2>0, <2>1, <3>1 DEF HandleOf
  <2>4. CASE pc = "restore"
    <3>1. CASE a = k
      <4>1. Spreading(a, i) /\ (InTwoWords(a, j) <=> j > i) /\ ~StillUnpacked(a, j)
        BY <1>1, <2>4, <3>1 DEF HandleInv, InTwoWords, StillUnpacked
      <4> QED
        BY <1>1, <1>3, <2>0, <2>1, <4>1 DEF HandleOf
    <3>2. CASE a < k
      <4>1. Spreading(a, -1) /\ InTwoWords(a, j) /\ j > -1
        BY <1>1, <2>4, <3>2 DEF HandleInv, Spread, InTwoWords
      <4> QED
        BY <1>3, <2>0, <2>1, <4>1 DEF HandleOf
    <3>3. CASE a > k
      <4>1. Spreading(a, lens[a] - 1) /\ lens[a] - 1 \in Int /\ ~(j > lens[a] - 1)
            /\ ~InTwoWords(a, j) /\ ~StillUnpacked(a, j)
        BY <1>1, <2>4, <3>3 DEF HandleInv, Packed, InTwoWords, StillUnpacked
      <4> QED
        BY <1>3, <2>0, <2>1, <4>1 DEF HandleOf
    <3> QED
      BY <1>1, <3>1, <3>2, <3>3
  <2>5. CASE pc = "compress"
    <3>0. ~InTwoWords(a, j) /\ kind # "contents"
      BY <1>1, <2>5 DEF HandleInv, InTwoWords
    <3>1. CASE a = k
      <4>1. Packing(a, i) /\ (StillUnpacked(a, j) <=> j >= i) /\ i >= 1
        BY <1>1, <2>5, <3>1 DEF HandleInv, StillUnpacked, TypeOK
      <4>2. mem[x][IF StillUnpacked(a, j) THEN 2*j ELSE j] = given[x][2*j]
        BY <1>1, <4>1 DEF Packing
      <4> QED
        BY <2>1, <3>0, <4>2 DEF HandleOf
    <3>2. CASE a < k
      <4>1. Spreading(a, lens[a] - 1) /\ lens[a] - 1 \in Int /\ ~(j > lens[a] - 1)
            /\ ~StillUnpacked(a, j)
        BY <1>1, <2>5, <3>2 DEF HandleInv, Packed, StillUnpacked
      <4> QED
        BY <1>3, <2>0, <2>1, <3>0, <4>1 DEF HandleOf
    <3>3. CASE a > k
      <4>1. Untouched(a) /\ StillUnpacked(a, j)
        BY <1>1, <2>5, <3>3 DEF HandleInv, StillUnpacked
      <4> QED
        BY <1>1, <2>1, <3>0, <4>1 DEF HandleOf, Untouched
    <3> QED
      BY <1>1, <3>1, <3>2, <3>3
  <2> QED
    BY <1>1, <2>2, <2>3, <2>4, <2>5 DEF TypeOK
<1> QED
  BY <1>4, <1>5, <1>6

(* One that takes no part.                                                 *)
LEMMA HandleOutside ==
  ASSUME CallInv, NEW x \in Arrays, NEW j \in 0..N-1, ~InCall(x, j)
  PROVE  AsStored(x, j) = Meant(x, j)
<1>1. /\ TypeOK /\ HandleInv /\ OutsideInv /\ 2*j \in Cells /\ 2*j + 1 \in Cells
      /\ ~Narrowed(x, j) /\ ~Unwritten(x, j)
  BY CellFacts DEF CallInv, Narrowed, Unwritten, InCall
<1>2. CASE (x # args[1] /\ x # args[2]) \/ pc = "user"
  BY <1>1, <1>2 DEF OutsideInv, AsStored, Meant
<1>3. ASSUME pc # "user", NEW a \in 1..2, x = args[a]
      PROVE  mem[x][2*j] = given[x][2*j] /\ mem[x][2*j + 1] = given[x][2*j + 1]
  <2>1. j >= lens[a] /\ lens[a] \in 0..N /\ k \in 1..2 /\ i \in Int
    BY <1>1, <1>3 DEF InCall, TypeOK
  <2>2. \/ Untouched(a)
        \/ \E p \in Int : Spreading(a, p)
        \/ pc = "compress" /\ a = k /\ Packing(a, i) /\ (i = 1 \/ i <= lens[a])
    <3>1. lens[a] - 1 \in Int /\ -1 \in Int
      BY <2>1
    <3> QED
      BY <1>1, <1>3, <2>1, <3>1 DEF HandleInv, Packed, Spread, TypeOK
  <2>3. CASE Untouched(a)
    BY <1>1, <1>3, <2>3 DEF Untouched
  <2>4. CASE \E p \in Int : Spreading(a, p)
    BY <1>1, <1>3, <2>1, <2>4 DEF Spreading, Beyond
  <2>5. CASE Packing(a, i) /\ (i = 1 \/ i <= lens[a])
    BY <1>1, <1>3, <2>1, <2>5 DEF Packing
  <2> QED
    BY <2>2, <2>3, <2>4, <2>5
<1> QED
  BY <1>1, <1>2, <1>3 DEF AsStored, Meant

LEMMA HandlesMeant == CallInv => HandlesNow = MeantNow
<1> SUFFICES ASSUME CallInv, NEW x \in Arrays, NEW j \in 0..N-1
             PROVE  (IF args[1] = x /\ j < lens[1] THEN HandleOf(1, j)
                     ELSE IF args[2] = x /\ j < lens[2] THEN HandleOf(2, j)
                     ELSE AsStored(x, j)) = Meant(x, j)
  BY DEF HandlesNow, MeantNow
<1>1. CASE args[1] = x /\ j < lens[1]
  BY <1>1, HandleOfArgument
<1>2. CASE ~(args[1] = x /\ j < lens[1]) /\ args[2] = x /\ j < lens[2]
  BY <1>2, HandleOfArgument
<1>3. CASE ~(args[1] = x /\ j < lens[1]) /\ ~(args[2] = x /\ j < lens[2])
  BY <1>3, HandleOutside DEF InCall
<1> QED
  BY <1>1, <1>2, <1>3

LEMMA HandlesMeantNext == CallInv' => (HandlesNow = MeantNow)'
BY HandlesMeant, PTL

LEMMA MeantType ==
  ASSUME TypeOK
  PROVE  MeantNow \in [Arrays -> [Calls!Entries -> Calls!Handles]]
<1> SUFFICES ASSUME NEW x \in Arrays, NEW j \in 0..N-1 PROVE Meant(x, j) \in Calls!Handles
  BY DEF MeantNow, Calls!Entries
<1>1. given[x][2*j] \in Words /\ given[x][2*j + 1] \in Words
  BY CellFacts DEF TypeOK
<1>2. \A w \in Words : AsWord(w) \in Calls!Handles
  BY WordsAssumption DEF AsWord, Calls!Handles
<1>3. HandleOf(1, j) \in Calls!Handles
  <2>1. args[1] \in Arrays /\ j \in Cells /\ 2*j \in Cells /\ 2*j + 1 \in Cells
    BY CellFacts DEF TypeOK
  <2>2. mem[args[1]][j] \in Words /\ mem[args[1]][2*j] \in Words
        /\ mem[args[1]][2*j + 1] \in Words
    BY <2>1 DEF TypeOK
  <2>3. AsStored(args[1], j) \in Calls!Handles
    BY <2>2 DEF AsStored, Calls!Handles
  <2> QED
    BY <1>2, <2>2, <2>3 DEF HandleOf
<1> QED
  BY <1>1, <1>2, <1>3 DEF Meant, Calls!Handles

LEMMA MeantTypeNext ==
  TypeOK' => (MeantNow \in [Arrays -> [Calls!Entries -> Calls!Handles]])'
<1>1. TypeOK => MeantNow \in [Arrays -> [Calls!Entries -> Calls!Handles]]
  BY MeantType
<1> QED
  BY <1>1, PTL

LEMMA WordIsWide == \A w : AsWord(w) = Calls!Wide(w) /\ Calls!IsWide(AsWord(w))
BY DEF AsWord, Calls!Wide, Calls!IsWide

(* The loops leave the call and every handle as they are.                  *)
LEMMA UnwrittenStutters ==
  ASSUME CallInv, NEW j \in 0..N-1, Unwritten(args[1], j),
         ExpandStep \/ ExpandDone \/ StatusStep \/ StatusDone
  PROVE  HandleOf(1, j)' = HandleOf(1, j)
<1> DEFINE x1 == args[1]
<1>1. /\ x1 \in Arrays /\ k \in 1..2 /\ i \in Int /\ lens[2] = 0 /\ lens[1] \in 0..N
      /\ kind = "contents" /\ args' = args /\ kind' = kind
      /\ pc = "restore" => i < lens[k] /\ i >= -1
      /\ j \in Cells /\ 2*j \in Cells /\ 2*j + 1 \in Cells
  BY CellFacts DEF CallInv, HandleInv, TypeOK, Unwritten, ExpandStep, ExpandDone,
                   StatusStep, StatusDone
<1>2. CASE ExpandStep
  <2>1. /\ k = 1 /\ i \in 0..N-1 /\ pc = "restore" /\ pc' = "restore" /\ k' = 1 /\ i' = i - 1
    BY <1>1, <1>2, NAssumption DEF ExpandStep
  <2>2. mem'[x1] = [mem[x1] EXCEPT ![2*i] = mem[x1][i], ![2*i + 1] = Ext(mem[x1][i])]
    BY <1>1, <1>2, <2>1 DEF ExpandStep, CallInv, TypeOK
  <2>3. 2*i \in Cells /\ 2*i + 1 \in Cells
    BY <2>1, CellFacts
  <2>4. /\ mem'[x1][2*i] = mem[x1][i] /\ mem'[x1][2*i + 1] = Ext(mem[x1][i])
        /\ \A c \in Cells \ {2*i, 2*i + 1} : mem'[x1][c] = mem[x1][c]
    BY <1>1, <2>2, <2>3 DEF CallInv, TypeOK
  <2>5. (InTwoWords(1, j) <=> j > i) /\ (InTwoWords(1, j)' <=> j > i - 1)
        /\ ~StillUnpacked(1, j) /\ ~StillUnpacked(1, j)'
    BY <1>1, <2>1 DEF InTwoWords, StillUnpacked
  <2>6. CASE j = i
    <3>1. HandleOf(1, j) = AsWord(mem[x1][i])
      BY <2>1, <2>5, <2>6 DEF HandleOf
    <3>2. HandleOf(1, j)' = [low |-> mem'[x1][2*i], high |-> mem'[x1][2*i + 1]]
      BY <1>1, <2>1, <2>5, <2>6 DEF HandleOf, AsStored
    <3> QED
      BY <2>4, <3>1, <3>2 DEF AsWord, Ext
  <2>7. CASE j < i
    <3>1. j \in Cells \ {2*i, 2*i + 1}
      BY <1>1, <2>1, <2>7
    <3> QED
      BY <1>1, <2>1, <2>4, <2>5, <2>7, <3>1 DEF HandleOf, AsWord
  <2>8. CASE j > i
    <3>1. 2*j \in Cells \ {2*i, 2*i + 1} /\ 2*j + 1 \in Cells \ {2*i, 2*i + 1}
      BY <1>1, <2>1, <2>8
    <3> QED
      BY <1>1, <2>1, <2>4, <2>5, <2>8, <3>1 DEF HandleOf, AsStored
  <2> QED
    BY <2>1, <2>6, <2>7, <2>8
<1>3. CASE ExpandDone \/ StatusStep \/ StatusDone
  <2>1. InTwoWords(1, j) /\ InTwoWords(1, j)' /\ mem' = mem
    BY <1>1, <1>3 DEF ExpandDone, StatusStep, StatusDone, InTwoWords
  <2> QED
    BY <1>1, <2>1 DEF HandleOf, AsStored
<1> QED
  BY <1>2, <1>3

LEMMA LoopStutters ==
  ASSUME CallInv, CallInv',
         CompressStep \/ CompressDone \/ ExpandStep \/ ExpandDone \/ StatusStep \/ StatusDone
  PROVE  UNCHANGED Calls!calls
<1>1. UNCHANGED <<args, lens, kind, given, rc, filled>>
  BY DEF CompressStep, CompressDone, ExpandStep, ExpandDone, StatusStep, StatusDone
<1>2. /\ pc # "user" /\ pc' # "user"
      /\ pc \in {"compress", "native"} <=> pc' \in {"compress", "native"}
      /\ kind = "contents" => pc # "native" /\ pc' # "native"
  BY DEF CompressStep, CompressDone, ExpandStep, ExpandDone, StatusStep, StatusDone,
         CallInv, HandleInv
<1>3. CallNow' = CallNow
  BY <1>1, <1>2 DEF CallNow
<1>4. ASSUME NEW x \in Arrays, NEW j \in 0..N-1 PROVE Meant(x, j)' = Meant(x, j)
  <2>1. Unwritten(x, j)' <=> Unwritten(x, j)
    <3>1. kind = "contents" => pc # "compress" /\ pc' # "compress"
      BY <1>1 DEF CallInv, HandleInv
    <3>2. pc' \in {"compress", "native", "restore", "statuses", "return"}
          /\ pc \in {"compress", "native", "restore", "statuses", "return"}
      BY <1>2 DEF CallInv, TypeOK
    <3> QED
      BY <1>1, <1>2, <3>1, <3>2 DEF Unwritten
  <2>2. CASE Unwritten(x, j)
    <3>1. x = args[1] /\ (ExpandStep \/ ExpandDone \/ StatusStep \/ StatusDone)
      BY <2>2 DEF Unwritten, CompressStep, CompressDone
    <3>2. HandleOf(1, j)' = HandleOf(1, j)
      BY <2>2, <3>1, UnwrittenStutters
    <3> QED
      BY <2>1, <2>2, <3>2 DEF Meant
  <2>3. CASE ~Unwritten(x, j)
    BY <1>1, <1>2, <2>1, <2>3 DEF Meant, Narrowed, InCall
  <2> QED
    BY <2>2, <2>3
<1>5. MeantNow' = MeantNow
  BY <1>4 DEF MeantNow
<1> QED
  BY <1>3, <1>5, HandlesMeant, HandlesMeantNext DEF Calls!calls

LEMMA ReturnAnswers ==
  ASSUME CallInv, Return PROVE Calls!Answer
<1>1. /\ pc = "return" /\ pc' = "user" /\ UNCHANGED <<mem, args>>
      /\ lens' = [a \in 1..2 |-> 0]
  BY DEF Return
<1>2. HandlesNow = [x \in Arrays |-> [j \in 0..N-1 |-> AsStored(x, j)]]
  <2>1. \A x \in Arrays, j \in 0..N-1 :
          (args[1] = x => HandleOf(1, j) = AsStored(x, j))
          /\ (args[2] = x => HandleOf(2, j) = AsStored(x, j))
    BY <1>1 DEF HandleOf, InTwoWords
  <2> QED
    BY <2>1 DEF HandlesNow
<1>3. HandlesNow' = [x \in Arrays |-> [j \in 0..N-1 |-> AsStored(x, j)]]
  <2>1. \A j \in 0..N-1 : ~(j < lens'[1]) /\ ~(j < lens'[2])
    BY <1>1, NAssumption
  <2>2. \A x \in Arrays, j \in 0..N-1 : AsStored(x, j)' = AsStored(x, j)
    BY <1>1 DEF AsStored
  <2> QED
    BY <2>1, <2>2 DEF HandlesNow
<1>4. CallNow.phase = "answered" /\ CallNow' = Calls!NoCall
  BY <1>1 DEF CallNow, Calls!NoCall
<1> QED
  BY <1>2, <1>3, <1>4 DEF Calls!Answer

LEMMA CallAsks ==
  ASSUME ~MayAlias, CallInv, CallInv', NEW kd \in Kinds, NEW x \in Arrays, NEW y \in Arrays,
         NEW n1 \in 0..N, NEW n2 \in 0..N, NEW c1 \in Contents, NEW c2 \in Contents,
         Call(kd, x, y, n1, n2, c1, c2)
  PROVE  Calls!Ask(x, y, n1, n2) \/ Calls!AskForFill(x, y, n1)
<1>1. /\ pc = "user" /\ x # y /\ args' = <<x, y>> /\ lens' = <<n1, n2>> /\ kind' = kd
      /\ pc' = (IF kd = "contents" THEN "native" ELSE "compress")
      /\ kd # "types" => n2 = 0
      /\ given' = mem' /\ \A z \in Arrays \ {x, y} : mem'[z] = mem[z]
  BY DEF Call, CallInv, TypeOK
<1>2. CallNow = Calls!NoCall
  BY <1>1 DEF CallNow, Calls!NoCall
<1>3. CallNow' = [phase |-> IF kd = "contents" THEN "fill" ELSE "asked",
                  on |-> <<x, y>>, lens |-> <<n1, n2>>]
  BY <1>1 DEF CallNow
<1>4. HandlesNow = MeantNow /\ HandlesNow' = MeantNow'
  BY HandlesMeant, HandlesMeantNext
<1>5. HandlesNow' \in [Arrays -> [Calls!Entries -> Calls!Handles]]
  <2>1. MeantNow' \in [Arrays -> [Calls!Entries -> Calls!Handles]]
    BY MeantTypeNext DEF CallInv
  <2> QED
    BY <1>4, <2>1
<1>6. ASSUME NEW z \in Arrays \ {x, y} PROVE HandlesNow'[z] = HandlesNow[z]
  <2>1. given'[z] = given[z]
    BY <1>1 DEF CallInv, OutsideInv
  <2>2. \A j : /\ ~Narrowed(z, j) /\ ~Narrowed(z, j)'
              /\ ~Unwritten(z, j) /\ ~Unwritten(z, j)'
    BY <1>1 DEF Narrowed, InCall, Unwritten
  <2>3. \A j : Meant(z, j)' = Meant(z, j)
    BY <2>1, <2>2 DEF Meant
  <2> QED
    BY <1>4, <2>3 DEF MeantNow
<1>7. CASE kd = "contents"
  BY <1>1, <1>2, <1>3, <1>5, <1>6, <1>7 DEF Calls!AskForFill
<1>8. CASE kd # "contents"
  <2>1. ASSUME NEW j \in 0..N-1, NEW z \in {x, y}, InCall(z, j)'
        PROVE  Calls!IsWide(HandlesNow'[z][j])
    <3>1. Meant(z, j)' = AsWord(given'[z][2*j])
      BY <1>1, <1>8, <2>1 DEF Meant, Narrowed, Unwritten
    <3> QED
      BY <1>4, <3>1, WordIsWide DEF MeantNow
  <2>2. \A j \in Calls!Entries :
          (j < n1 => Calls!IsWide(HandlesNow'[x][j])) /\ (j < n2 => Calls!IsWide(HandlesNow'[y][j]))
    BY <1>1, <2>1 DEF Calls!Entries, InCall
  <2> QED
    BY <1>1, <1>2, <1>3, <1>5, <1>6, <1>8, <2>2 DEF Calls!Ask
<1> QED
  BY <1>7, <1>8

(* A native function that reads handles sets those it completes to null.   *)
LEMMA NativeCompletes ==
  ASSUME CallInv, CallInv', pc = "native", kind # "contents", pc' = "restore",
         UNCHANGED <<args, lens, kind>>, NEW done \in SUBSET (0..N-1),
         \A j \in done : j < lens[1],
         \A x \in Arrays : x # args[1] => given'[x] = given[x],
         \A c \in Cells : given'[args[1]][c] =
           IF \E j \in done : c = 2*j THEN Null ELSE given[args[1]][c]
  PROVE  Calls!Complete(done)
<1> DEFINE x1 == args[1]
           after == [HandlesNow EXCEPT ![x1] =
                      [j \in Calls!Entries |-> IF j \in done THEN Calls!Wide(Null) ELSE @[j]]]
<1>1. TypeOK /\ x1 \in Arrays /\ HandlesNow = MeantNow /\ HandlesNow' = MeantNow'
  BY HandlesMeant, HandlesMeantNext DEF CallInv, TypeOK
<1>2. \A x, j : ~Unwritten(x, j) /\ (Narrowed(x, j) <=> InCall(x, j))
  BY DEF Narrowed, Unwritten
<1>3. \A x, j : ~Unwritten(x, j)' /\ (Narrowed(x, j)' <=> InCall(x, j))
  BY DEF Narrowed, InCall, Unwritten
<1>4. ASSUME NEW x \in Arrays, x # x1, NEW j \in 0..N-1 PROVE Meant(x, j)' = Meant(x, j)
  BY <1>2, <1>3, <1>4 DEF Meant
<1>5. ASSUME NEW j \in done PROVE Meant(x1, j)' = Calls!Wide(Null)
  <2>1. InCall(x1, j) /\ 2*j \in Cells /\ j \in 0..N-1
    BY <1>5, CellFacts DEF InCall
  <2>2. given'[x1][2*j] = Null
    BY <1>5, <2>1
  <2> QED
    BY <1>3, <2>1, <2>2, WordIsWide DEF Meant
<1>6. ASSUME NEW j \in (0..N-1) \ done PROVE Meant(x1, j)' = Meant(x1, j)
  <2>1. 2*j \in Cells /\ 2*j + 1 \in Cells
    BY CellFacts
  <2>2. \A n \in done : 2*j # 2*n /\ 2*j + 1 # 2*n
    OBVIOUS
  <2>3. given'[x1][2*j] = given[x1][2*j] /\ given'[x1][2*j + 1] = given[x1][2*j + 1]
    BY <2>1, <2>2
  <2> QED
    BY <1>2, <1>3, <2>3 DEF Meant
<1>7. HandlesNow' = after
  <2>1. MeantNow \in [Arrays -> [Calls!Entries -> Calls!Handles]]
    BY <1>1, MeantType
  <2>2. after \in [Arrays -> [Calls!Entries -> Calls!Handles]]
    <3>1. Calls!Wide(Null) \in Calls!Handles
      BY WordsAssumption DEF Calls!Wide, Calls!Handles
    <3> QED
      BY <1>1, <2>1, <3>1
  <2>3. MeantNow' = [x \in Arrays |-> [j \in 0..N-1 |-> Meant(x, j)']]
    BY DEF MeantNow
  <2>4. ASSUME NEW x \in Arrays, NEW j \in 0..N-1 PROVE after[x][j] = Meant(x, j)'
    <3>1. HandlesNow[x][j] = Meant(x, j)
      BY <1>1 DEF MeantNow
    <3>2. CASE x # x1
      <4>1. after[x] = HandlesNow[x]
        BY <1>1, <2>1, <3>2
      <4> QED
        BY <1>4, <3>1, <3>2, <4>1
    <3>3. CASE x = x1
      <4>1. after[x][j] = IF j \in done THEN Calls!Wide(Null) ELSE HandlesNow[x][j]
        BY <1>1, <2>1, <3>3 DEF Calls!Entries
      <4> QED
        BY <1>5, <1>6, <3>1, <3>3, <4>1
    <3> QED
      BY <3>2, <3>3
  <2> HIDE DEF after
  <2>5. after = [x \in Arrays |-> [j \in 0..N-1 |-> after[x][j]]]
    BY <2>2 DEF Calls!Entries
  <2>6. MeantNow' = [x \in Arrays |-> [j \in 0..N-1 |-> after[x][j]]]
    BY <2>3, <2>4
  <2> QED
    BY <1>1, <2>5, <2>6
<1>8. CallNow = [phase |-> "asked", on |-> args, lens |-> lens]
      /\ CallNow' = [phase |-> "answered", on |-> args, lens |-> lens]
  BY DEF CallNow
<1> QED
  BY <1>7, <1>8 DEF Calls!Complete

LEMMA NativeFills ==
  ASSUME CallInv, CallInv', NEW wr \in 0..N, NEW h \in Contents, NativeContents(wr, h)
  PROVE  Calls!Fill
<1> DEFINE x1 == args[1]
<1>1. /\ TypeOK /\ x1 \in Arrays /\ HandlesNow = MeantNow /\ HandlesNow' = MeantNow'
      /\ pc = "native" /\ kind = "contents" /\ pc' = "restore" /\ rc' = "ok"
      /\ UNCHANGED <<args, lens, kind>> /\ lens[2] = 0
      /\ k' = 1 /\ i' = lens[1] - 1 /\ lens[1] \in 0..N /\ wr \in 0..lens[1] /\ filled' = wr
  BY HandlesMeant, HandlesMeantNext DEF CallInv, HandleInv, TypeOK, NativeContents, ToRestore
<1>2. \A x, j : ~Narrowed(x, j) /\ (Narrowed(x, j)' <=> InCall(x, j)) /\ ~Unwritten(x, j)
  BY <1>1 DEF Narrowed, InCall, Unwritten
<1>3. ASSUME NEW j \in 0..N-1, ~(j < lens[1]) PROVE ~InCall(x1, j)
  BY <1>1, <1>3 DEF InCall
<1>4. ASSUME NEW j \in 0..N-1, j < lens[1] PROVE Calls!IsWide(HandlesNow'[x1][j])
  <2>1. CASE Unwritten(x1, j)'
    <3>1. Meant(x1, j)' = HandleOf(1, j)'
      BY <2>1 DEF Meant
    <3>2. ~InTwoWords(1, j)' /\ ~StillUnpacked(1, j)'
      BY <1>1, <1>4 DEF InTwoWords, StillUnpacked
    <3>3. HandleOf(1, j)' = AsWord(mem'[x1][j])
      BY <1>1, <3>2 DEF HandleOf, AsWord
    <3> QED
      BY <1>1, <3>1, <3>3, WordIsWide DEF MeantNow
  <2>2. CASE ~Unwritten(x1, j)'
    <3>1. Meant(x1, j)' = AsWord(given'[x1][2*j])
      BY <1>1, <1>2, <1>4, <2>2 DEF Meant, InCall
    <3> QED
      BY <1>1, <3>1, WordIsWide DEF MeantNow
  <2> QED
    BY <2>1, <2>2
<1>5. ASSUME NEW j \in 0..N-1, ~(j < lens[1]) PROVE HandlesNow'[x1][j] = HandlesNow[x1][j]
  <2>1. 2*j \in Cells /\ 2*j + 1 \in Cells /\ lens[1] \in 0..N
    BY <1>1, CellFacts DEF TypeOK
  <2>2. \A n \in 0..wr-1 : 2*j # 2*n /\ 2*j + 1 # 2*n
    BY <1>1, <1>5, <2>1
  <2>3. given'[x1][2*j] = given[x1][2*j] /\ given'[x1][2*j + 1] = given[x1][2*j + 1]
    BY <1>1, <2>1, <2>2 DEF NativeContents, TypeOK
  <2>4. ~Narrowed(x1, j) /\ ~Narrowed(x1, j)' /\ ~Unwritten(x1, j)'
    <3>1. ~InCall(x1, j)
      BY <1>3, <1>5
    <3> QED
      BY <1>1, <1>5, <3>1 DEF Narrowed, InCall, Unwritten
  <2>5. args' = args
    BY <1>1
  <2>6. Meant(x1, j)' = Meant(x1, j)
    BY <1>2, <2>3, <2>4, <2>5 DEF Meant
  <2> QED
    BY <1>1, <2>6 DEF MeantNow
<1>6. ASSUME NEW z \in Arrays \ {x1} PROVE HandlesNow'[z] = HandlesNow[z]
  <2>1. given'[z] = given[z]
    BY <1>1 DEF NativeContents, TypeOK
  <2>2. \A j \in 0..N-1 : ~InCall(z, j) /\ ~Unwritten(z, j)'
    BY <1>1 DEF InCall, Unwritten
  <2>3. \A j \in 0..N-1 : Meant(z, j)' = Meant(z, j)
    BY <1>2, <2>1, <2>2 DEF Meant
  <2> QED
    BY <1>1, <2>3 DEF MeantNow
<1>7. HandlesNow' \in [Arrays -> [Calls!Entries -> Calls!Handles]]
  <2>1. MeantNow' \in [Arrays -> [Calls!Entries -> Calls!Handles]]
    BY MeantTypeNext DEF CallInv
  <2> QED
    BY <1>1, <2>1
<1>8. CallNow = [phase |-> "fill", on |-> args, lens |-> lens]
      /\ CallNow' = [phase |-> "answered", on |-> args, lens |-> lens]
  BY <1>1 DEF CallNow
<1>9. \A j \in Calls!Entries :
        IF j < lens[1] THEN Calls!IsWide(HandlesNow'[x1][j]) ELSE HandlesNow'[x1][j] = HandlesNow[x1][j]
  BY <1>4, <1>5 DEF Calls!Entries
<1> QED
  BY <1>6, <1>7, <1>8, <1>9 DEF Calls!Fill

LEMMA NativeFillFails ==
  ASSUME CallInv, CallInv', NativeContentsFails PROVE Calls!FillFails
<1>1. /\ pc = "native" /\ kind = "contents" /\ pc' = "return" /\ rc' = "error"
      /\ UNCHANGED <<args, lens, kind, given>>
  BY DEF NativeContentsFails
<1>2. \A x, j : Meant(x, j)' = Meant(x, j)
  <2>1. \A x, j : ~Unwritten(x, j) /\ ~Unwritten(x, j)' /\ ~Narrowed(x, j) /\ ~Narrowed(x, j)'
    BY <1>1 DEF Unwritten, Narrowed
  <2> QED
    BY <1>1, <2>1 DEF Meant
<1>3. HandlesNow' = HandlesNow
  BY <1>2, HandlesMeant, HandlesMeantNext DEF MeantNow
<1>4. CallNow = [phase |-> "fill", on |-> args, lens |-> lens]
      /\ CallNow' = [phase |-> "answered", on |-> args, lens |-> lens]
  BY <1>1 DEF CallNow
<1> QED
  BY <1>3, <1>4 DEF Calls!FillFails

LEMMA NativeIsOneStep ==
  ASSUME CallInv, CallInv', Native PROVE Calls!Next
<1>1. CASE \E done \in SUBSET (0..N-1), o \in -1..N, wr \in 0..N, code \in {"ok", "error"} :
             NativeRequests(done, o, wr, code)
  <2> PICK done \in SUBSET (0..N-1), o \in -1..N, wr \in 0..N, code \in {"ok", "error"} :
           NativeRequests(done, o, wr, code)
    BY <1>1
  <2>1. /\ pc = "native" /\ kind # "contents" /\ pc' = "restore" /\ UNCHANGED <<args, lens, kind>>
        /\ \A j \in done : j < lens[1]
    BY DEF NativeRequests, ToRestore, CallInv, TypeOK
  <2>2. \A x \in Arrays : x # args[1] => given'[x] = given[x]
    BY DEF NativeRequests, CallInv, TypeOK
  <2>3. \A c \in Cells : given'[args[1]][c] =
          IF \E j \in done : c = 2*j THEN Null ELSE given[args[1]][c]
    BY DEF NativeRequests, CallInv, TypeOK
  <2>4. Calls!Complete(done)
    BY <2>1, <2>2, <2>3, NativeCompletes
  <2> QED
    BY <2>4 DEF Calls!Next, Calls!Entries
<1>2. CASE \E code \in {"ok", "error"} : NativeTypes(code)
  <2>1. /\ pc = "native" /\ kind # "contents" /\ pc' = "restore"
        /\ UNCHANGED <<args, lens, kind, given>>
    BY <1>2 DEF NativeTypes, ToRestore
  <2>2. {} \in SUBSET (0..N-1) /\ \A j \in {} : j < lens[1]
    OBVIOUS
  <2>3. Calls!Complete({})
    BY <2>1, <2>2, NativeCompletes
  <2> QED
    BY <2>2, <2>3 DEF Calls!Next, Calls!Entries
<1>3. CASE \E wr \in 0..N, h \in Contents : NativeContents(wr, h)
  BY <1>3, NativeFills DEF Calls!Next
<1>4. CASE NativeContentsFails
  BY <1>4, NativeFillFails DEF Calls!Next
<1> QED
  BY <1>1, <1>2, <1>3, <1>4 DEF Native

(* The loops, the packing and the way back, on success and on error, are   *)
(* the native call on the caller's handles and nothing more, for every     *)
(* wrapper and any arrays, none of which is passed twice.                  *)
THEOREM WrappersImplementCalls ==
  ASSUME ~MayAlias
  PROVE  Spec => CallSpec
<1>1. Init => Calls!Init
  <2> SUFFICES ASSUME Init PROVE Calls!Init
    OBVIOUS
  <2>1. CallInv /\ CallNow = Calls!NoCall
    BY CallInvInit DEF Init, CallNow, Calls!NoCall
  <2> QED
    BY <2>1, HandlesMeant, MeantType DEF Calls!Init, CallInv
<1>2. CallInv /\ CallInv' /\ [Next]_vars => [Calls!Next]_Calls!calls
  <2> SUFFICES ASSUME CallInv, CallInv', [Next]_vars PROVE [Calls!Next]_Calls!calls
    OBVIOUS
  <2>1. ASSUME User PROVE Calls!Next
    <3> PICK kd \in Kinds, x \in Arrays, y \in Arrays, n1 \in 0..N, n2 \in 0..N,
             c1 \in Contents, c2 \in Contents : Call(kd, x, y, n1, n2, c1, c2)
      BY <2>1 DEF User
    <3>1. Calls!Ask(x, y, n1, n2) \/ Calls!AskForFill(x, y, n1)
      BY CallAsks
    <3> QED
      BY <3>1 DEF Calls!Next
  <2>2. ASSUME Native PROVE Calls!Next
    BY <2>2, NativeIsOneStep
  <2>3. ASSUME Wrapper PROVE Calls!Answer \/ UNCHANGED Calls!calls
    BY <2>3, LoopStutters, ReturnAnswers DEF Wrapper
  <2>4. ASSUME UNCHANGED vars PROVE UNCHANGED Calls!calls
    <3>1. HandlesNow' = HandlesNow /\ CallNow' = CallNow
      BY <2>4 DEF vars, HandlesNow, CallNow, HandleOf, InTwoWords, StillUnpacked, AsStored, AsWord
    <3> QED
      BY <3>1 DEF Calls!calls
  <2> QED
    BY <2>1, <2>2, <2>3, <2>4 DEF Next, Calls!Next
<1>3. CallInv /\ [Next]_vars => CallInv'
  BY CallInvStep
<1> QED
  BY <1>1, <1>2, <1>3, CallInvInit, PTL DEF Spec, CallSpec, Calls!Spec
=============================================================================
