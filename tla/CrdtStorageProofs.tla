-------------------------- MODULE CrdtStorageProofs --------------------------
(***************************************************************************)
(* Proofs about CrdtStorage, for every set of updates, every bound and     *)
(* every set of faults unless a theorem says otherwise.                    *)
(***************************************************************************)
EXTENDS CrdtStorage, TLAPS

USE StorageAssumption

(* ------------------------- facts about segments ------------------------ *)

\* Cutting a segment after n records keeps exactly its first n records.
LEMMA CutFacts ==
    ASSUME NEW s \in Seq(Entries), NEW n \in 0..Len(s)
    PROVE  /\ SubSeq(s, 1, n) \in Seq(Entries)
           /\ Len(SubSeq(s, 1, n)) = n
           /\ \A i \in 1..n : SubSeq(s, 1, n)[i] = s[i]
  OBVIOUS

\* set_len gives a segment of records, cut or padded.
LEMMA SetLenFacts ==
    ASSUME NEW s \in Seq(Entries), NEW n \in Nat
    PROVE  /\ SetLen(s, n) \in Seq(Entries)
           /\ n <= Len(s) => SetLen(s, n) = SubSeq(s, 1, n)
<1>1. CASE n <= Len(s)
  BY <1>1, CutFacts DEF SetLen
<1>2. CASE ~(n <= Len(s))
  <2> DEFINE pad == [i \in 1..(n - Len(s)) |-> Zeros]
  <2>1. n - Len(s) \in Nat
    BY <1>2
  <2>2. Zeros \in Entries
    BY DEF Entries
  <2>3. pad \in Seq(Entries)
    BY <2>1, <2>2
  <2> QED
    BY <1>2, <2>3 DEF SetLen
<1> QED
  BY <1>1, <1>2

\* Replacing the last record of a segment by a tail of at most one record.
LEMMA TailFacts ==
    ASSUME NEW s \in Seq(Entries), s # <<>>,
           NEW e \in Entries, NEW t \in {<<>>, <<e>>}
    PROVE  LET r == SubSeq(s, 1, Len(s) - 1) \o t
           IN  /\ r \in Seq(Entries)
               /\ Len(r) = Len(s) - 1 + Len(t)
               /\ Len(t) \in {0, 1}
               /\ \A i \in 1..(Len(s) - 1) : r[i] = s[i]
<1>1. Len(s) \in Nat /\ Len(s) > 0
  OBVIOUS
<1>2. /\ SubSeq(s, 1, Len(s) - 1) \in Seq(Entries)
      /\ Len(SubSeq(s, 1, Len(s) - 1)) = Len(s) - 1
      /\ \A i \in 1..(Len(s) - 1) : SubSeq(s, 1, Len(s) - 1)[i] = s[i]
  <2>1. Len(s) - 1 \in 0..Len(s)
    BY <1>1
  <2> QED
    BY <2>1, CutFacts
<1>3. CASE t = <<>>
  BY <1>1, <1>2, <1>3
<1>4. CASE t = <<e>>
  BY <1>1, <1>2, <1>4
<1> QED
  BY <1>3, <1>4
(* ------------------ the invariant that no fault disturbs --------------- *)

\* Where an operation stands tells what it carries and what is written.
OpFacts ==
    /\ step # "idle" => loaded
    /\ step # "idle" /\ holder # "compactor" => update \in Updates
    /\ holder = "compactor" => step \in {"snapshot", "log", "manifest"}
    /\ step = "reject" => records > 0
    /\ step \in {"log", "manifest"} => generation < MaxGeneration
    /\ step = "manifest" => NextGeneration \in present

\* Memory is never ahead of the manifest, and at most one generation behind.
InForce == loaded => generation <= manifest /\ manifest <= generation + 1

Base == TypeOK /\ OpFacts /\ InForce /\ GenerationsInUsePresent

\* The segments stay segments under every truncation and tail.
LEMMA SegmentTypes ==
    ASSUME TypeOK
    PROVE  /\ \A n \in Nat : Cut(n) \in Seq(Entries)
           /\ \A n \in 0..Len(log[generation]) :
                 /\ Cut(n) = SubSeq(log[generation], 1, n)
                 /\ Len(Cut(n)) = n
           /\ \A t \in Written \cup {<<Zeros>>} : Before \o t \in Seq(Entries)
<1>1. log[generation] \in Seq(Entries)
  BY DEF TypeOK, DiskTypes, MemoryTypes
<1>2. \A n \in Nat : Cut(n) \in Seq(Entries)
  BY <1>1, SetLenFacts DEF Cut
<1>3. \A n \in 0..Len(log[generation]) :
         Cut(n) = SubSeq(log[generation], 1, n) /\ Len(Cut(n)) = n
  <2> TAKE n \in 0..Len(log[generation])
  <2>1. n \in Nat /\ n <= Len(log[generation])
    BY <1>1
  <2> QED
    BY <1>1, <2>1, SetLenFacts, CutFacts DEF Cut
<1>4. ASSUME NEW t \in Written \cup {<<Zeros>>}
      PROVE  Before \o t \in Seq(Entries)
  <2>1. update \in Entries /\ Short \in Entries /\ Zeros \in Entries
    BY DEF TypeOK, OperationTypes, NoUpdate, Entries
  <2>3. Before \in Seq(Entries)
    BY <1>1 DEF Before
  <2>2. CASE t = <<>>
    BY <2>2, <2>3
  <2>4. CASE t # <<>>
    <3>1. PICK e \in Entries : t = <<e>>
      BY <2>1, <2>4 DEF Written
    <3> QED
      BY <3>1, <2>3
  <2> QED
    BY <2>2, <2>4
<1> QED
  BY <1>2, <1>3, <1>4

\* Memory after a document is installed, and after it is forgotten.
LEMMA MemoryFacts ==
    /\ 0 \in Generations
    /\ \A g \in Generations, n \in Nat, c \in SUBSET Updates :
          Install(g, n, c) => MemoryTypes'
    /\ Forgotten => MemoryTypes'
<1>1. 0 \in Generations
  BY DEF Generations
<1>2. ASSUME NEW g \in Generations, NEW n \in Nat, NEW c \in SUBSET Updates,
             Install(g, n, c)
      PROVE  MemoryTypes'
  BY <1>2 DEF Install, MemoryTypes
<1>3. ASSUME Forgotten PROVE MemoryTypes'
  BY <1>1, <1>3 DEF Forgotten, MemoryTypes
<1> QED
  BY <1>1, <1>2, <1>3

\* Replacing the segment in memory's generation by a segment.
LEMMA SetLogTypes ==
    ASSUME TypeOK, NEW s \in Seq(Entries), SetLog(s)
    PROVE  log' \in [Generations -> Seq(Entries)]
  BY DEF TypeOK, DiskTypes, MemoryTypes, SetLog

\* What load_existing leaves, on disk and in memory.
LEMMA LoadFacts ==
    ASSUME TypeOK, manifest \in present,
           NEW segments \in [Generations -> Seq(Entries)],
           NEW n \in 0..Len(segments[manifest]), LoadExisting(segments, n)
    PROVE  /\ log' \in [Generations -> Seq(Entries)]
           /\ MemoryTypes'
           /\ loaded' /\ generation' = manifest
           /\ present' \subseteq present /\ manifest \in present'
<1>1. manifest \in Generations /\ segments[manifest] \in Seq(Entries)
  BY DEF TypeOK, DiskTypes
<1>2. SubSeq(segments[manifest], 1, n) \in Seq(Entries)
  BY <1>1, CutFacts
<1>3. log' \in [Generations -> Seq(Entries)]
  BY <1>1, <1>2 DEF LoadExisting
<1>4. snapshot[manifest] \cup {segments[manifest][i] : i \in 1..n}
         \in SUBSET Updates
  <2>1. \A i \in 1..n : segments[manifest][i] \in Updates
    BY DEF LoadExisting, Recovers, Integrable
  <2>2. snapshot[manifest] \subseteq Updates
    BY <1>1 DEF TypeOK, DiskTypes
  <2> QED
    BY <2>1, <2>2
<1>5. MemoryTypes'
  <2>1. n \in Nat
    BY <1>1
  <2> QED
    BY <1>1, <1>4, <2>1, MemoryFacts DEF LoadExisting
<1>6. loaded' /\ generation' = manifest
  BY DEF LoadExisting, Install
<1>7. present' \subseteq present /\ manifest \in present'
  BY <1>1 DEF LoadExisting, RemoveOldGenerations, Generations
<1> QED
  BY <1>3, <1>5, <1>6, <1>7

\* The empty store satisfies the invariant.
LEMMA BaseInit == Init => Base
<1> SUFFICES ASSUME Init PROVE Base
  OBVIOUS
<1>1. DiskTypes
  BY DEF Init, DiskTypes
<1>4. MemoryTypes
  BY MemoryFacts DEF Init, MemoryTypes
<1>2. OperationTypes
  BY DEF Init, OperationTypes, Steps, Holders, NoUpdate
<1>3. OpFacts /\ InForce /\ GenerationsInUsePresent
  BY DEF Init, OpFacts, InForce, GenerationsInUsePresent
<1> QED
  BY <1>1, <1>2, <1>3, <1>4 DEF Base, TypeOK

\* Every step keeps it, with any faults.
LEMMA BaseNext == Base /\ [Next]_vars => Base'
<1> SUFFICES ASSUME Base, [Next]_vars PROVE Base'
  OBVIOUS
<1> USE DEF Base, TypeOK
<1>1. CASE LoadOrCreate
  <2>1. DiskTypes'
    <3>1. (IF legacy THEN LegacyContents ELSE {}) \in SUBSET Updates
      OBVIOUS
    <3>2. snapshot' \in [Generations -> SUBSET Updates]
      BY <1>1, <3>1, MemoryFacts DEF LoadOrCreate, CreateDocument, DiskTypes
    <3>3. log' \in [Generations -> Seq(Entries)]
      BY <1>1, MemoryFacts DEF LoadOrCreate, CreateDocument, DiskTypes
    <3> QED
      BY <1>1, <3>2, <3>3, MemoryFacts DEF LoadOrCreate, CreateDocument, DiskTypes
  <2>2. MemoryTypes'
    <3>1. (IF legacy THEN LegacyContents ELSE {}) \in SUBSET Updates
      OBVIOUS
    <3> QED
      BY <1>1, <3>1, MemoryFacts DEF LoadOrCreate
  <2>3. OperationTypes'
    BY <1>1 DEF LoadOrCreate, CreateDocument, Install, Forgotten, op,
           OperationTypes, Steps, Holders
  <2>4. OpFacts'
    BY <1>1 DEF LoadOrCreate, CreateDocument, Install, Forgotten, op,
           OpFacts, MemoryTypes, OperationTypes, Holders, Generations,
           NextGeneration
  <2>5. InForce' /\ GenerationsInUsePresent'
    <3>1. InForce'
      BY <1>1 DEF LoadOrCreate, CreateDocument, Install, Forgotten, InForce
    <3>2. GenerationsInUsePresent'
      BY <1>1 DEF LoadOrCreate, CreateDocument, Install, Forgotten,
             GenerationsInUsePresent
    <3> QED
      BY <3>1, <3>2
  <2> QED
    BY <2>1, <2>2, <2>3, <2>4, <2>5
<1>2. CASE ImportYsweet
  <2>1. DiskTypes'
    BY <1>2 DEF ImportYsweet, CreateDocument, memory, op, DiskTypes,
           MemoryTypes, Generations, NoManifest
  <2>2. MemoryTypes'
    BY <1>2 DEF ImportYsweet, CreateDocument, memory, op, DiskTypes,
           MemoryTypes, Generations
  <2>3. OperationTypes'
    BY <1>2 DEF ImportYsweet, CreateDocument, memory, op, OperationTypes,
           Steps, Holders
  <2>4. OpFacts'
    BY <1>2 DEF ImportYsweet, CreateDocument, memory, op, OpFacts,
           MemoryTypes, OperationTypes, Holders, Generations, NextGeneration
  <2>5. InForce' /\ GenerationsInUsePresent'
    BY <1>2 DEF ImportYsweet, CreateDocument, memory, op, InForce,
           GenerationsInUsePresent, OpFacts, DiskTypes, MemoryTypes,
           Generations, NoManifest, NextGeneration
  <2> QED
    BY <2>1, <2>2, <2>3, <2>4, <2>5
<1>3. CASE Load
  <2>1. DiskTypes'
    <3>1. PICK n \in 0..Len(log[manifest]) : LoadExisting(log, n)
      BY <1>3 DEF Load
    <3>2. manifest \in present /\ log \in [Generations -> Seq(Entries)]
      BY <1>3 DEF Load, DiskTypes
    <3> QED
      BY <1>3, <3>1, <3>2, LoadFacts DEF Load, DiskTypes
  <2>2. MemoryTypes'
    <3>1. PICK n \in 0..Len(log[manifest]) : LoadExisting(log, n)
      BY <1>3 DEF Load
    <3>2. manifest \in present /\ log \in [Generations -> Seq(Entries)]
      BY <1>3 DEF Load, DiskTypes
    <3> QED
      BY <3>1, <3>2, LoadFacts
  <2>3. OperationTypes'
    BY <1>3 DEF Load, LoadExisting, Install, RemoveOldGenerations, op,
           OperationTypes, Steps, Holders
  <2>4. OpFacts'
    BY <1>3 DEF Load, LoadExisting, Install, RemoveOldGenerations, op,
           OpFacts, MemoryTypes, OperationTypes, Holders, Generations,
           NextGeneration
  <2>5. InForce' /\ GenerationsInUsePresent'
    BY <1>3 DEF Load, LoadExisting, Install, RemoveOldGenerations, op,
           InForce, GenerationsInUsePresent, OpFacts, DiskTypes,
           MemoryTypes, Generations, NoManifest, NextGeneration
  <2> QED
    BY <2>1, <2>2, <2>3, <2>4, <2>5
<1>4. CASE Repair
  <2>1. DiskTypes'
    BY <1>4 DEF Repair, RemoveOldGenerations, memory, op, DiskTypes,
           MemoryTypes, Generations, NoManifest
  <2>2. MemoryTypes'
    BY <1>4 DEF Repair, RemoveOldGenerations, memory, op, DiskTypes,
           MemoryTypes, Generations
  <2>3. OperationTypes'
    BY <1>4 DEF Repair, RemoveOldGenerations, memory, op, OperationTypes,
           Steps, Holders
  <2>4. OpFacts'
    BY <1>4 DEF Repair, RemoveOldGenerations, memory, op, OpFacts,
           MemoryTypes, OperationTypes, Holders, Generations, NextGeneration
  <2>5. InForce' /\ GenerationsInUsePresent'
    BY <1>4 DEF Repair, RemoveOldGenerations, memory, op, InForce,
           GenerationsInUsePresent, OpFacts, DiskTypes, MemoryTypes,
           Generations, NoManifest, NextGeneration
  <2> QED
    BY <2>1, <2>2, <2>3, <2>4, <2>5
<1>5. CASE Unload
  <2>1. DiskTypes'
    BY <1>5 DEF Unload, Forgotten, disk, op, DiskTypes, MemoryTypes,
           Generations, NoManifest
  <2>2. MemoryTypes'
    BY <1>5, MemoryFacts DEF Unload
  <2>3. OperationTypes'
    BY <1>5 DEF Unload, Forgotten, disk, op, OperationTypes, Steps, Holders
  <2>4. OpFacts'
    BY <1>5 DEF Unload, Forgotten, disk, op, OpFacts, MemoryTypes,
           OperationTypes, Holders, Generations, NextGeneration
  <2>5. InForce' /\ GenerationsInUsePresent'
    BY <1>5 DEF Unload, Forgotten, disk, op, InForce,
           GenerationsInUsePresent, OpFacts, DiskTypes, MemoryTypes,
           Generations, NoManifest, NextGeneration
  <2> QED
    BY <2>1, <2>2, <2>3, <2>4, <2>5
<1>6. ASSUME NEW u \in Updates, NEW by \in {"session", "request"},
             ApplyUpdate(u, by)
      PROVE  Base'
  <2>1. DiskTypes'
    BY <1>6 DEF ApplyUpdate, disk, memory, DiskTypes, MemoryTypes,
           Generations, NoManifest
  <2>2. MemoryTypes'
    BY <1>6 DEF ApplyUpdate, disk, memory, DiskTypes, MemoryTypes,
           Generations
  <2>3. OperationTypes'
    BY <1>6 DEF ApplyUpdate, disk, memory, OperationTypes, Steps, Holders
  <2>4. OpFacts'
    BY <1>6 DEF ApplyUpdate, disk, memory, OpFacts, MemoryTypes,
           OperationTypes, Holders, Generations, NextGeneration
  <2>5. InForce' /\ GenerationsInUsePresent'
    BY <1>6 DEF ApplyUpdate, disk, memory, InForce, GenerationsInUsePresent,
           OpFacts, DiskTypes, MemoryTypes, Generations, NoManifest,
           NextGeneration
  <2> QED
    BY <2>1, <2>2, <2>3, <2>4, <2>5
<1>7. CASE DiscardPartialRecord
  <2>1. DiskTypes'
    <3>1. log' \in [Generations -> Seq(Entries)]
      <4>1. Cut(records) \in Seq(Entries)
        BY SegmentTypes DEF MemoryTypes
      <4> QED
        BY <1>7, <4>1, SetLogTypes DEF DiscardPartialRecord
    <3> QED
      BY <1>7, <3>1 DEF DiscardPartialRecord, DiskTypes
  <2>2. MemoryTypes'
    BY <1>7 DEF DiscardPartialRecord, SetLog, op, DiskTypes, MemoryTypes,
           Generations
  <2>3. OperationTypes'
    BY <1>7 DEF DiscardPartialRecord, SetLog, op, OperationTypes, Steps,
           Holders
  <2>4. OpFacts'
    BY <1>7 DEF DiscardPartialRecord, SetLog, op, OpFacts, MemoryTypes,
           OperationTypes, Holders, Generations, NextGeneration
  <2>5. InForce' /\ GenerationsInUsePresent'
    BY <1>7 DEF DiscardPartialRecord, SetLog, op, InForce,
           GenerationsInUsePresent, OpFacts, DiskTypes, MemoryTypes,
           Generations, NoManifest, NextGeneration
  <2> QED
    BY <2>1, <2>2, <2>3, <2>4, <2>5
<1>8. CASE DiscardPartialFails
  <2>1. DiskTypes'
    <3>1. log' \in [Generations -> Seq(Entries)]
      <4>1. Cut(records) \in Seq(Entries)
        BY SegmentTypes DEF MemoryTypes
      <4>2. log[generation] \in Seq(Entries)
        BY DEF DiskTypes, MemoryTypes
      <4> QED
        BY <1>8, <4>1, <4>2, SetLogTypes DEF DiscardPartialFails
    <3> QED
      BY <1>8, <3>1 DEF DiscardPartialFails, DiskTypes
  <2>2. MemoryTypes'
    BY <1>8 DEF DiscardPartialFails, SetLog, Finish, Release, memory,
           DiskTypes, MemoryTypes, Generations
  <2>3. OperationTypes'
    BY <1>8 DEF DiscardPartialFails, SetLog, Finish, Release, memory,
           OperationTypes, Steps, Holders
  <2>4. OpFacts'
    BY <1>8 DEF DiscardPartialFails, SetLog, Finish, Release, memory,
           OpFacts, MemoryTypes, OperationTypes, Holders, Generations,
           NextGeneration
  <2>5. InForce' /\ GenerationsInUsePresent'
    BY <1>8 DEF DiscardPartialFails, SetLog, Finish, Release, memory,
           InForce, GenerationsInUsePresent, OpFacts, DiskTypes,
           MemoryTypes, Generations, NoManifest, NextGeneration
  <2> QED
    BY <2>1, <2>2, <2>3, <2>4, <2>5
<1>9. CASE WriteRecord
  <2>1. DiskTypes'
    <3>1. log' \in [Generations -> Seq(Entries)]
      <4>1. Append(log[generation], update) \in Seq(Entries)
        BY DEF DiskTypes, MemoryTypes, OperationTypes, Entries, NoUpdate
      <4> QED
        BY <1>9, <4>1, SetLogTypes DEF WriteRecord
    <3> QED
      BY <1>9, <3>1 DEF WriteRecord, DiskTypes
  <2>2. MemoryTypes'
    BY <1>9 DEF WriteRecord, SetLog, GoTo, memory, DiskTypes, MemoryTypes,
           Generations
  <2>3. OperationTypes'
    BY <1>9 DEF WriteRecord, SetLog, GoTo, memory, OperationTypes, Steps,
           Holders
  <2>4. OpFacts'
    BY <1>9 DEF WriteRecord, SetLog, GoTo, memory, OpFacts, MemoryTypes,
           OperationTypes, Holders, Generations, NextGeneration
  <2>5. InForce' /\ GenerationsInUsePresent'
    BY <1>9 DEF WriteRecord, SetLog, GoTo, memory, InForce,
           GenerationsInUsePresent, OpFacts, DiskTypes, MemoryTypes,
           Generations, NoManifest, NextGeneration
  <2> QED
    BY <2>1, <2>2, <2>3, <2>4, <2>5
<1>10. CASE AppendFails
  <2>1. DiskTypes'
    <3>1. log' \in [Generations -> Seq(Entries)]
      <4>1. PICK tail \in Written :
                \/ SetLog(SetLen(Before \o tail, records))
                \/ SetLog(Before \o tail)
        BY <1>10 DEF AppendFails
      <4>2. Before \o tail \in Seq(Entries)
        BY SegmentTypes
      <4>3. SetLen(Before \o tail, records) \in Seq(Entries)
        BY <4>2, SetLenFacts DEF MemoryTypes
      <4> QED
        BY <4>1, <4>2, <4>3, SetLogTypes
    <3> QED
      BY <1>10, <3>1 DEF AppendFails, DiskTypes
  <2>2. MemoryTypes'
    BY <1>10 DEF AppendFails, SetLog, Finish, Release, DiskTypes,
           MemoryTypes, Generations
  <2>3. OperationTypes'
    BY <1>10 DEF AppendFails, SetLog, Finish, Release, OperationTypes,
           Steps, Holders
  <2>4. OpFacts'
    BY <1>10 DEF AppendFails, SetLog, Finish, Release, OpFacts, MemoryTypes,
           OperationTypes, Holders, Generations, NextGeneration
  <2>5. InForce' /\ GenerationsInUsePresent'
    BY <1>10 DEF AppendFails, SetLog, Finish, Release, InForce,
           GenerationsInUsePresent, OpFacts, DiskTypes, MemoryTypes,
           Generations, NoManifest, NextGeneration
  <2> QED
    BY <2>1, <2>2, <2>3, <2>4, <2>5
<1>11. CASE Publish
  <2>1. DiskTypes'
    BY <1>11 DEF Publish, Release, disk, DiskTypes, MemoryTypes,
           Generations, NoManifest
  <2>2. MemoryTypes'
    BY <1>11 DEF Publish, MemoryTypes, Integrable
  <2>3. OperationTypes'
    BY <1>11 DEF Publish, Release, disk, OperationTypes, Steps, Holders,
           Integrable
  <2>4. OpFacts'
    BY <1>11 DEF Publish, Release, disk, OpFacts, MemoryTypes,
           OperationTypes, Holders, Generations, NextGeneration
  <2>5. InForce' /\ GenerationsInUsePresent'
    BY <1>11 DEF Publish, Release, disk, InForce, GenerationsInUsePresent,
           OpFacts, DiskTypes, MemoryTypes, Generations, NoManifest,
           NextGeneration
  <2> QED
    BY <2>1, <2>2, <2>3, <2>4, <2>5
<1>12. CASE IntegrationPanics
  <2>1. DiskTypes'
    BY <1>12 DEF IntegrationPanics, GoTo, disk, DiskTypes, MemoryTypes,
           Generations, NoManifest
  <2>2. MemoryTypes'
    BY <1>12 DEF IntegrationPanics, GoTo, disk, DiskTypes, MemoryTypes,
           Generations
  <2>3. OperationTypes'
    BY <1>12 DEF IntegrationPanics, GoTo, disk, OperationTypes, Steps,
           Holders
  <2>4. OpFacts'
    BY <1>12 DEF IntegrationPanics, GoTo, disk, OpFacts, MemoryTypes,
           OperationTypes, Holders, Generations, NextGeneration
  <2>5. InForce' /\ GenerationsInUsePresent'
    BY <1>12 DEF IntegrationPanics, GoTo, disk, InForce,
           GenerationsInUsePresent, OpFacts, DiskTypes, MemoryTypes,
           Generations, NoManifest, NextGeneration
  <2> QED
    BY <2>1, <2>2, <2>3, <2>4, <2>5
<1>13. CASE RejectAppendedUpdate
  <2>1. DiskTypes'
    <3> DEFINE cut == [log EXCEPT ![generation] = Cut(records - 1)]
    <3>1. manifest \in present
          /\ \E n \in 0..Len(cut[manifest]) : LoadExisting(cut, n)
      BY <1>13 DEF RejectAppendedUpdate
    <3>2. Cut(records - 1) \in Seq(Entries)
      BY <1>13, SegmentTypes DEF RejectAppendedUpdate, MemoryTypes, OpFacts
    <3>3. cut \in [Generations -> Seq(Entries)]
      BY <3>2 DEF DiskTypes, MemoryTypes
    <3> HIDE DEF cut
    <3> QED
      BY <1>13, <3>1, <3>3, LoadFacts DEF RejectAppendedUpdate, DiskTypes
  <2>2. MemoryTypes'
    <3> DEFINE cut == [log EXCEPT ![generation] = Cut(records - 1)]
    <3>1. manifest \in present
          /\ \E n \in 0..Len(cut[manifest]) : LoadExisting(cut, n)
      BY <1>13 DEF RejectAppendedUpdate
    <3>2. Cut(records - 1) \in Seq(Entries)
      BY <1>13, SegmentTypes DEF RejectAppendedUpdate, MemoryTypes, OpFacts
    <3>3. cut \in [Generations -> Seq(Entries)]
      BY <3>2 DEF DiskTypes, MemoryTypes
    <3> HIDE DEF cut
    <3> QED
      BY <3>1, <3>3, LoadFacts
  <2>3. OperationTypes'
    BY <1>13 DEF RejectAppendedUpdate, LoadExisting, Install,
           RemoveOldGenerations, Finish, Release, OperationTypes, Steps,
           Holders
  <2>4. OpFacts'
    BY <1>13 DEF RejectAppendedUpdate, LoadExisting, Install,
           RemoveOldGenerations, Finish, Release, OpFacts, MemoryTypes,
           OperationTypes, Holders, Generations, NextGeneration
  <2>5. InForce' /\ GenerationsInUsePresent'
    BY <1>13 DEF RejectAppendedUpdate, LoadExisting, Install,
           RemoveOldGenerations, Finish, Release, InForce,
           GenerationsInUsePresent, OpFacts, DiskTypes, MemoryTypes,
           Generations, NoManifest, NextGeneration
  <2> QED
    BY <2>1, <2>2, <2>3, <2>4, <2>5
<1>14. CASE ReloadFails
  <2>1. DiskTypes'
    <3>1. log' \in [Generations -> Seq(Entries)]
      <4>1. Cut(records - 1) \in Seq(Entries)
        BY <1>14, SegmentTypes DEF ReloadFails, MemoryTypes, OpFacts
      <4>2. log[generation] \in Seq(Entries)
        BY DEF DiskTypes, MemoryTypes
      <4> QED
        BY <1>14, <4>1, <4>2, SetLogTypes DEF ReloadFails
    <3> QED
      BY <1>14, <3>1 DEF ReloadFails, DiskTypes
  <2>2. MemoryTypes'
    BY <1>14 DEF ReloadFails, MemoryTypes, OpFacts
  <2>3. OperationTypes'
    BY <1>14 DEF ReloadFails, SetLog, Finish, Release, OperationTypes,
           Steps, Holders
  <2>4. OpFacts'
    BY <1>14 DEF ReloadFails, SetLog, Finish, Release, OpFacts, MemoryTypes,
           OperationTypes, Holders, Generations, NextGeneration
  <2>5. InForce' /\ GenerationsInUsePresent'
    BY <1>14 DEF ReloadFails, SetLog, Finish, Release, InForce,
           GenerationsInUsePresent, OpFacts, DiskTypes, MemoryTypes,
           Generations, NoManifest, NextGeneration
  <2> QED
    BY <2>1, <2>2, <2>3, <2>4, <2>5
<1>15. CASE DiscardLastFails
  <2>1. DiskTypes'
    <3>1. log' \in [Generations -> Seq(Entries)]
      <4>1. Cut(records - 1) \in Seq(Entries)
        BY <1>15, SegmentTypes DEF DiscardLastFails, MemoryTypes, OpFacts
      <4>2. log[generation] \in Seq(Entries)
        BY DEF DiskTypes, MemoryTypes
      <4> QED
        BY <1>15, <4>1, <4>2, SetLogTypes DEF DiscardLastFails
    <3> QED
      BY <1>15, <3>1 DEF DiscardLastFails, DiskTypes
  <2>2. MemoryTypes'
    BY <1>15 DEF DiscardLastFails, SetLog, Finish, Release, memory,
           DiskTypes, MemoryTypes, Generations
  <2>3. OperationTypes'
    BY <1>15 DEF DiscardLastFails, SetLog, Finish, Release, memory,
           OperationTypes, Steps, Holders
  <2>4. OpFacts'
    BY <1>15 DEF DiscardLastFails, SetLog, Finish, Release, memory, OpFacts,
           MemoryTypes, OperationTypes, Holders, Generations, NextGeneration
  <2>5. InForce' /\ GenerationsInUsePresent'
    BY <1>15 DEF DiscardLastFails, SetLog, Finish, Release, memory, InForce,
           GenerationsInUsePresent, OpFacts, DiskTypes, MemoryTypes,
           Generations, NoManifest, NextGeneration
  <2> QED
    BY <2>1, <2>2, <2>3, <2>4, <2>5
<1>16. CASE CompactIfNeeded
  <2>1. DiskTypes'
    BY <1>16 DEF CompactIfNeeded, disk, memory, op, DiskTypes, MemoryTypes,
           Generations, NoManifest
  <2>2. MemoryTypes'
    BY <1>16 DEF CompactIfNeeded, disk, memory, op, DiskTypes, MemoryTypes,
           Generations
  <2>3. OperationTypes'
    BY <1>16 DEF CompactIfNeeded, disk, memory, op, OperationTypes, Steps,
           Holders
  <2>4. OpFacts'
    BY <1>16 DEF CompactIfNeeded, disk, memory, op, OpFacts, MemoryTypes,
           OperationTypes, Holders, Generations, NextGeneration
  <2>5. InForce' /\ GenerationsInUsePresent'
    BY <1>16 DEF CompactIfNeeded, disk, memory, op, InForce,
           GenerationsInUsePresent, OpFacts, DiskTypes, MemoryTypes,
           Generations, NoManifest, NextGeneration
  <2> QED
    BY <2>1, <2>2, <2>3, <2>4, <2>5
<1>17. CASE WriteSnapshot
  <2>1. DiskTypes'
    <3>1. NextGeneration \in Generations
      BY <1>17 DEF WriteSnapshot, NextGeneration, Generations, MemoryTypes, OpFacts
    <3> QED
      BY <1>17, <3>1 DEF WriteSnapshot, DiskTypes, MemoryTypes
  <2>2. MemoryTypes'
    BY <1>17 DEF WriteSnapshot, Continue, GoTo, Finish, Release,
           NextGeneration, memory, DiskTypes, MemoryTypes, Generations
  <2>3. OperationTypes'
    BY <1>17 DEF WriteSnapshot, Continue, GoTo, Finish, Release,
           NextGeneration, memory, OperationTypes, Steps, Holders
  <2>4. OpFacts'
    BY <1>17 DEF WriteSnapshot, Continue, GoTo, Finish, Release,
           NextGeneration, memory, OpFacts, MemoryTypes, OperationTypes,
           Holders, Generations
  <2>5. InForce' /\ GenerationsInUsePresent'
    BY <1>17 DEF WriteSnapshot, Continue, GoTo, Finish, Release,
           NextGeneration, memory, InForce, GenerationsInUsePresent,
           OpFacts, DiskTypes, MemoryTypes, Generations, NoManifest
  <2> QED
    BY <2>1, <2>2, <2>3, <2>4, <2>5
<1>18. CASE WriteLog
  <2>1. DiskTypes'
    <3>1. NextGeneration \in Generations
      BY <1>18 DEF WriteLog, NextGeneration, Generations, MemoryTypes, OpFacts
    <3>2. log' \in [Generations -> Seq(Entries)]
      BY <1>18, <3>1 DEF WriteLog, DiskTypes
    <3> QED
      BY <1>18, <3>1, <3>2 DEF WriteLog, DiskTypes
  <2>2. MemoryTypes'
    BY <1>18 DEF WriteLog, Continue, GoTo, Finish, Release, NextGeneration,
           memory, DiskTypes, MemoryTypes, Generations
  <2>3. OperationTypes'
    BY <1>18 DEF WriteLog, Continue, GoTo, Finish, Release, NextGeneration,
           memory, OperationTypes, Steps, Holders
  <2>4. OpFacts'
    BY <1>18 DEF WriteLog, Continue, GoTo, Finish, Release, NextGeneration,
           memory, OpFacts, MemoryTypes, OperationTypes, Holders,
           Generations
  <2>5. InForce' /\ GenerationsInUsePresent'
    BY <1>18 DEF WriteLog, Continue, GoTo, Finish, Release, NextGeneration,
           memory, InForce, GenerationsInUsePresent, OpFacts, DiskTypes,
           MemoryTypes, Generations, NoManifest
  <2> QED
    BY <2>1, <2>2, <2>3, <2>4, <2>5
<1>19. CASE WriteManifest
  <2>1. DiskTypes'
    <3>1. NextGeneration \in Generations
      BY <1>19 DEF WriteManifest, NextGeneration, Generations, MemoryTypes, OpFacts
    <3> QED
      BY <1>19, <3>1 DEF WriteManifest, RemoveOldGenerations, DiskTypes
  <2>2. MemoryTypes'
    <3>1. NextGeneration \in Generations
      BY <1>19 DEF WriteManifest, NextGeneration, Generations, MemoryTypes, OpFacts
    <3>2. doc \in SUBSET Updates
      BY DEF MemoryTypes
    <3> QED
      BY <1>19, <3>1, <3>2, MemoryFacts DEF WriteManifest
  <2>3. OperationTypes'
    BY <1>19 DEF WriteManifest, Install, RemoveOldGenerations, GoTo, Finish,
           Release, NextGeneration, OperationTypes, Steps, Holders
  <2>4. OpFacts'
    BY <1>19 DEF WriteManifest, Install, RemoveOldGenerations, GoTo, Finish,
           Release, NextGeneration, OpFacts, MemoryTypes, OperationTypes,
           Holders, Generations
  <2>5. InForce' /\ GenerationsInUsePresent'
    BY <1>19 DEF WriteManifest, Install, RemoveOldGenerations, GoTo, Finish,
           Release, NextGeneration, InForce, GenerationsInUsePresent,
           OpFacts, DiskTypes, MemoryTypes, Generations, NoManifest
  <2> QED
    BY <2>1, <2>2, <2>3, <2>4, <2>5
<1>20. CASE ManifestUnsynced
  <2>1. DiskTypes'
    <3>1. NextGeneration \in Generations
      BY <1>20 DEF ManifestUnsynced, NextGeneration, Generations, MemoryTypes, OpFacts
    <3> QED
      BY <1>20, <3>1 DEF ManifestUnsynced, DiskTypes
  <2>2. MemoryTypes'
    BY <1>20 DEF ManifestUnsynced, Finish, Release, NextGeneration, memory,
           DiskTypes, MemoryTypes, Generations
  <2>3. OperationTypes'
    BY <1>20 DEF ManifestUnsynced, Finish, Release, NextGeneration, memory,
           OperationTypes, Steps, Holders
  <2>4. OpFacts'
    BY <1>20 DEF ManifestUnsynced, Finish, Release, NextGeneration, memory,
           OpFacts, MemoryTypes, OperationTypes, Holders, Generations
  <2>5. InForce' /\ GenerationsInUsePresent'
    BY <1>20 DEF ManifestUnsynced, Finish, Release, NextGeneration, memory,
           InForce, GenerationsInUsePresent, OpFacts, DiskTypes,
           MemoryTypes, Generations, NoManifest
  <2> QED
    BY <2>1, <2>2, <2>3, <2>4, <2>5
<1>21. CASE CompactionFails
  <2>1. DiskTypes'
    BY <1>21 DEF CompactionFails, Finish, Release, disk, memory, DiskTypes,
           MemoryTypes, Generations, NoManifest
  <2>2. MemoryTypes'
    BY <1>21 DEF CompactionFails, Finish, Release, disk, memory, DiskTypes,
           MemoryTypes, Generations
  <2>3. OperationTypes'
    BY <1>21 DEF CompactionFails, Finish, Release, disk, memory,
           OperationTypes, Steps, Holders
  <2>4. OpFacts'
    BY <1>21 DEF CompactionFails, Finish, Release, disk, memory, OpFacts,
           MemoryTypes, OperationTypes, Holders, Generations, NextGeneration
  <2>5. InForce' /\ GenerationsInUsePresent'
    BY <1>21 DEF CompactionFails, Finish, Release, disk, memory, InForce,
           GenerationsInUsePresent, OpFacts, DiskTypes, MemoryTypes,
           Generations, NoManifest, NextGeneration
  <2> QED
    BY <2>1, <2>2, <2>3, <2>4, <2>5
<1>22. CASE Crash
  <2>1. DiskTypes'
    <3>1. log' \in [Generations -> Seq(Entries)]
      <4>1. step = "reject" => Cut(records - 1) \in Seq(Entries)
        BY SegmentTypes DEF MemoryTypes, OpFacts
      <4>2. log[generation] \in Seq(Entries)
        BY DEF DiskTypes, MemoryTypes
      <4>3. \A tail \in Written \cup {<<Zeros>>} : Before \o tail \in Seq(Entries)
        BY SegmentTypes
      <4>4. \/ UNCHANGED log
            \/ step = "reject" /\ (SetLog(log[generation]) \/ SetLog(Cut(records - 1)))
            \/ \E tail \in Written \cup {<<Zeros>>} : SetLog(Before \o tail)
        BY <1>22 DEF Crash, InFlight
      <4> QED
        BY <4>1, <4>2, <4>3, <4>4, SetLogTypes DEF DiskTypes
    <3>2. manifest' \in Generations \cup {NoManifest}
      BY <1>22 DEF Crash, InFlight, NextGeneration, DiskTypes, MemoryTypes, OpFacts,
               Generations
    <3> QED
      BY <1>22, <3>1, <3>2 DEF Crash, DiskTypes
  <2>2. MemoryTypes'
    BY <1>22, MemoryFacts DEF Crash
  <2>3. OperationTypes'
    BY <1>22 DEF Crash, InFlight, SetLog, Forgotten, Release,
           NextGeneration, OperationTypes, Steps, Holders
  <2>4. OpFacts'
    BY <1>22 DEF Crash, InFlight, SetLog, Forgotten, Release,
           NextGeneration, OpFacts, MemoryTypes, OperationTypes, Holders,
           Generations
  <2>5. InForce' /\ GenerationsInUsePresent'
    BY <1>22 DEF Crash, InFlight, SetLog, Forgotten, Release,
           NextGeneration, InForce, GenerationsInUsePresent, OpFacts,
           DiskTypes, MemoryTypes, Generations, NoManifest
  <2> QED
    BY <2>1, <2>2, <2>3, <2>4, <2>5
<1>23. CASE CancelRequest
  <2>1. DiskTypes'
    <3>1. log' \in [Generations -> Seq(Entries)]
      <4>1. step = "reject" => Cut(records - 1) \in Seq(Entries)
        BY SegmentTypes DEF MemoryTypes, OpFacts
      <4>2. log[generation] \in Seq(Entries)
        BY DEF DiskTypes, MemoryTypes
      <4>3. \A tail \in Written \cup {<<Zeros>>} : Before \o tail \in Seq(Entries)
        BY SegmentTypes
      <4>4. \/ UNCHANGED log
            \/ step = "reject" /\ (SetLog(log[generation]) \/ SetLog(Cut(records - 1)))
            \/ \E tail \in Written \cup {<<Zeros>>} : SetLog(Before \o tail)
        BY <1>23 DEF CancelRequest, InFlight
      <4> QED
        BY <4>1, <4>2, <4>3, <4>4, SetLogTypes DEF DiskTypes
    <3>2. manifest' \in Generations \cup {NoManifest}
      BY <1>23 DEF CancelRequest, InFlight, NextGeneration, DiskTypes, MemoryTypes, OpFacts,
               Generations
    <3> QED
      BY <1>23, <3>1, <3>2 DEF CancelRequest, DiskTypes
  <2>2. MemoryTypes'
    BY <1>23 DEF CancelRequest, InFlight, SetLog, Release, NextGeneration,
           memory, DiskTypes, MemoryTypes, Generations
  <2>3. OperationTypes'
    BY <1>23 DEF CancelRequest, InFlight, SetLog, Release, NextGeneration,
           memory, OperationTypes, Steps, Holders
  <2>4. OpFacts'
    BY <1>23 DEF CancelRequest, InFlight, SetLog, Release, NextGeneration,
           memory, OpFacts, MemoryTypes, OperationTypes, Holders,
           Generations
  <2>5. InForce' /\ GenerationsInUsePresent'
    BY <1>23 DEF CancelRequest, InFlight, SetLog, Release, NextGeneration,
           memory, InForce, GenerationsInUsePresent, OpFacts, DiskTypes,
           MemoryTypes, Generations, NoManifest
  <2> QED
    BY <2>1, <2>2, <2>3, <2>4, <2>5
<1>24. CASE UNCHANGED vars
  <2>1. DiskTypes'
    BY <1>24 DEF vars, disk, memory, op, DiskTypes, MemoryTypes,
           Generations, NoManifest
  <2>2. MemoryTypes'
    BY <1>24 DEF vars, disk, memory, op, DiskTypes, MemoryTypes, Generations
  <2>3. OperationTypes'
    BY <1>24 DEF vars, disk, memory, op, OperationTypes, Steps, Holders
  <2>4. OpFacts'
    BY <1>24 DEF vars, disk, memory, op, OpFacts, MemoryTypes,
           OperationTypes, Holders, Generations, NextGeneration
  <2>5. InForce' /\ GenerationsInUsePresent'
    BY <1>24 DEF vars, disk, memory, op, InForce, GenerationsInUsePresent,
           OpFacts, DiskTypes, MemoryTypes, Generations, NoManifest,
           NextGeneration
  <2> QED
    BY <2>1, <2>2, <2>3, <2>4, <2>5
<1> QED
  BY <1>1, <1>2, <1>3, <1>4, <1>5, <1>6, <1>7, <1>8, <1>9, <1>10, <1>11,
         <1>12, <1>13, <1>14, <1>15, <1>16, <1>17, <1>18, <1>19, <1>20,
         <1>21, <1>22, <1>23, <1>24 DEF Next

\* Every reachable state is a state of the declared types (TypeOK), and the
\* invariant above holds in it, whatever faults the environment injects.
THEOREM BaseInvariant == Spec => []Base
  BY BaseInit, BaseNext, PTL DEF Spec

\* The declared types hold in every reachable state.
THEOREM TypeCorrect == Spec => []TypeOK
<1>1. Base => TypeOK
  BY DEF Base
<1> QED
  BY <1>1, BaseInvariant, PTL

\* Compaction, its clean-up and its failures never remove the files of the
\* generation the manifest names or memory appends to, under any faults.
THEOREM GenerationsInUseStay == Spec => []GenerationsInUsePresent
<1>1. Base => GenerationsInUsePresent
  BY DEF Base
<1> QED
  BY <1>1, BaseInvariant, PTL

\* The manifest and the generation in memory never go back, under any faults.
THEOREM GenerationMonotone == Spec => GenerationNeverBack
<1> DEFINE Forward == /\ manifest' >= manifest
                      /\ loaded /\ loaded' => generation' >= generation
<1>1. Base /\ [Next]_vars => [Forward]_vars
  <2> SUFFICES ASSUME Base, [Next]_vars PROVE Forward \/ UNCHANGED vars
    OBVIOUS
  <2>1. /\ manifest \in Int /\ generation \in Int
        /\ manifest = NoManifest => manifest < 0
        /\ manifest # NoManifest => manifest >= 0
    BY DEF Base, TypeOK, DiskTypes, MemoryTypes, Generations, NoManifest
  <2>2. CASE UNCHANGED <<manifest, generation>>
    BY <2>1, <2>2
  <2>3. CASE LoadOrCreate \/ ImportYsweet
    <3>1. ~loaded /\ manifest = NoManifest /\ manifest' = 0
      BY <2>3 DEF LoadOrCreate, ImportYsweet, CreateDocument
    <3> QED
      BY <2>1, <3>1
  <2>4. CASE Load \/ Unload
    BY <2>1, <2>4 DEF Load, Unload, Forgotten, disk
  <2>8. CASE Crash
    <3>1. loaded' = FALSE /\ manifest' \in {manifest, NextGeneration}
      BY <2>8 DEF Crash, InFlight, Forgotten
    <3> QED
      BY <2>1, <2>8, <3>1 DEF Crash, NextGeneration, Base, InForce
  <2>5. CASE RejectAppendedUpdate
    BY <2>1, <2>5 DEF RejectAppendedUpdate, LoadExisting, Install, Base,
                      InForce, OpFacts
  <2>6. CASE WriteManifest \/ ManifestUnsynced \/ CancelRequest
    BY <2>1, <2>6 DEF WriteManifest, ManifestUnsynced, CancelRequest, InFlight,
                      Install, memory, NextGeneration, Base, InForce, OpFacts
  <2>7. CASE \/ Repair \/ DiscardPartialRecord \/ DiscardPartialFails
             \/ WriteRecord \/ AppendFails \/ Publish \/ IntegrationPanics
             \/ ReloadFails \/ DiscardLastFails \/ CompactIfNeeded
             \/ WriteSnapshot \/ WriteLog \/ CompactionFails
             \/ \E u \in Updates, by \in {"session", "request"} :
                   ApplyUpdate(u, by)
    BY <2>2, <2>7
       DEF Repair, DiscardPartialRecord, DiscardPartialFails, WriteRecord,
           AppendFails, Publish, IntegrationPanics, ReloadFails,
           DiscardLastFails, CompactIfNeeded, WriteSnapshot, WriteLog,
           CompactionFails, ApplyUpdate, disk, memory
  <2> QED
    BY <2>2, <2>3, <2>4, <2>5, <2>6, <2>7, <2>8 DEF Next, vars, disk, memory
<1> QED
  BY <1>1, BaseInvariant, PTL DEF Spec, GenerationNeverBack

(* ----------- nothing acknowledged is lost, under Lossless faults ------- *)

\* How many leading records of the segment are good: the last one is being
\* thrown out while the operation stands at "reject".
Kept == IF step = "reject" THEN records - 1 ELSE records

\* Memory and the segment agree about the good records; a segment that is
\* longer than memory believes is marked by appendFailed.
SegmentFacts ==
    loaded =>
      /\ generation = manifest
      /\ Kept <= Len(log[generation])
      /\ \A i \in 1..Kept : log[generation][i] \in Integrable
      /\ step = "sync" => /\ Len(log[generation]) = records + 1
                          /\ log[generation][records + 1] = update
                          /\ ~appendFailed
      /\ step = "reject" => /\ Len(log[generation]) = records
                            /\ log[generation][records] \in Unintegrable
                            /\ ~appendFailed
      /\ step \notin {"sync", "reject"} /\ ~appendFailed
            => Len(log[generation]) = records

\* What is acknowledged is live and among the good records of its generation.
AckedFacts ==
    /\ loaded => acked \subseteq snapshot[generation] \cup
                                 {log[generation][i] : i \in 1..Kept}
    /\ loaded => acked \subseteq doc
    /\ ~loaded => AckedDurable

\* The next generation a compaction prepares is the live document.
CompactionFacts ==
    /\ step \in {"log", "manifest"} => snapshot[NextGeneration] = doc
    /\ step = "manifest" => log[NextGeneration] = <<>>

Safe == Base /\ SegmentFacts /\ AckedFacts /\ CompactionFacts

\* Good leading records are replayed.
LEMMA PrefixReplayed ==
    ASSUME NEW s \in Seq(Entries), NEW k \in 0..Len(s),
           \A i \in 1..k : s[i] \in Integrable
    PROVE  {s[i] : i \in 1..k} \subseteq Replayed(s)
<1>1. ASSUME NEW i \in 1..k PROVE i \in Clean(s)
  <2>1. i \in 1..Len(s) /\ \A j \in 1..i : j \in 1..k
    OBVIOUS
  <2> QED
    BY <2>1 DEF Clean
<1> QED
  BY <1>1 DEF Replayed

\* Neither a load nor a repair cuts off a record that replay applies.
LEMMA ReplayedKept ==
    ASSUME NEW s \in Seq(Entries), NEW n \in 0..Len(s),
           Recovers(s, n) \/ Repairs(s, n)
    PROVE  Replayed(s) = {s[i] : i \in 1..n}
<1>1. \A i \in 1..n : s[i] \in Integrable
  BY DEF Recovers, Repairs
<1>2. ASSUME NEW i \in Clean(s) PROVE i \in 1..n
  <2>1. i \in 1..Len(s) /\ \A j \in 1..i : s[j] \in Integrable
    BY DEF Clean
  <2>2. CASE i > n
    <3>1. n + 1 \in 1..i /\ n + 1 \in (n + 1)..Len(s) /\ n < Len(s)
      BY <2>1, <2>2
    <3>2. s[n + 1] \in Integrable
      BY <2>1, <3>1
    <3>3. s[n + 1] # Short /\ s[n + 1] # Zeros
      BY <3>2 DEF Integrable
    <3> QED
      BY <3>1, <3>2, <3>3 DEF Recovers, Repairs
  <2> QED
    BY <2>1, <2>2
<1>3. {s[i] : i \in 1..n} \subseteq Replayed(s)
  BY <1>1, PrefixReplayed
<1>4. Replayed(s) \subseteq {s[i] : i \in 1..n}
  BY <1>2 DEF Replayed
<1> QED
  BY <1>3, <1>4

\* In a safe state what is acknowledged would be found again.
LEMMA SafeIsDurable == Safe => AckedDurable
<1> SUFFICES ASSUME Safe, loaded PROVE AckedDurable
  BY DEF Safe, AckedFacts
<1>1. /\ generation = manifest
      /\ log[generation] \in Seq(Entries)
      /\ Kept \in 0..Len(log[generation])
      /\ \A i \in 1..Kept : log[generation][i] \in Integrable
  BY DEF Safe, Base, TypeOK, DiskTypes, MemoryTypes, OpFacts, SegmentFacts, Kept
<1>2. {log[generation][i] : i \in 1..Kept} \subseteq Replayed(log[generation])
  BY <1>1, PrefixReplayed
<1>3. manifest \in present /\ manifest # NoManifest
  <2>1. generation >= 0
    BY DEF Safe, Base, TypeOK, MemoryTypes, Generations
  <2> QED
    BY <1>1, <2>1 DEF Safe, Base, GenerationsInUsePresent, NoManifest
<1> QED
  BY <1>1, <1>2, <1>3 DEF Safe, AckedFacts, AckedDurable, Recoverable

\* An empty store is safe.
LEMMA SafeInit == Init => Safe
<1> SUFFICES ASSUME Init PROVE Safe
  OBVIOUS
<1>1. Base
  BY BaseInit
<1>2. SegmentFacts /\ CompactionFacts
  BY DEF Init, SegmentFacts, CompactionFacts
<1>3. AckedFacts
  BY DEF Init, AckedFacts, AckedDurable, Recoverable
<1> QED
  BY <1>1, <1>2, <1>3 DEF Safe

\* No step that the Lossless faults allow leaves the safe states.
LEMMA SafeNext ==
    ASSUME Lossless
    PROVE  Safe /\ [Next]_vars => Safe'
<1> SUFFICES ASSUME Safe, [Next]_vars PROVE Safe'
  OBVIOUS
<1> USE DEF Safe
<1>a. Base'
  BY BaseNext
<1>b. /\ log[generation] \in Seq(Entries)
      /\ Len(log[generation]) \in Nat
      /\ records \in Nat /\ generation \in Int /\ manifest \in Int
      /\ step = "reject" => records > 0
      /\ generation \in Generations
      /\ log \in [Generations -> Seq(Entries)]
      /\ snapshot \in [Generations -> SUBSET Updates]
  BY DEF Base, TypeOK, DiskTypes, MemoryTypes, OpFacts, Generations, NoManifest
<1>c. \A n \in 0..Len(log[generation]) :
         /\ Cut(n) = SubSeq(log[generation], 1, n)
         /\ Cut(n) \in Seq(Entries)
         /\ Len(Cut(n)) = n
         /\ \A i \in 1..n : Cut(n)[i] = log[generation][i]
  BY <1>b, SegmentTypes, CutFacts DEF Base
<1>d. AckedDurable
  BY SafeIsDurable
<1>e. \A x : SetLog(x) => log'[generation] = x
  BY <1>b DEF SetLog
<1>f. ASSUME loaded, loaded', step' \in {"idle", "append"},
             UNCHANGED <<generation, manifest, records, snapshot, doc, acked>>,
             Kept = records, Kept' = records,
             records <= Len(log'[generation]),
             \A i \in 1..records : log'[generation][i] = log[generation][i],
             ~appendFailed' => Len(log'[generation]) = records
      PROVE  Safe'
  <2>1. \A i \in 1..records : log[generation][i] \in Integrable
    BY <1>f DEF SegmentFacts
  <2>2. \A i \in 1..Kept' : log'[generation'][i] \in Integrable
    BY <1>f, <2>1
  <2>3. generation' = manifest' /\ Kept' <= Len(log'[generation'])
    BY <1>f DEF SegmentFacts
  <2>4. SegmentFacts'
    BY <1>f, <2>2, <2>3 DEF SegmentFacts
  <2>5. {log'[generation][i] : i \in 1..records}
           = {log[generation][i] : i \in 1..records}
    BY <1>f
  <2>6. /\ acked \subseteq snapshot[generation]
                            \cup {log[generation][i] : i \in 1..records}
        /\ acked \subseteq doc
    BY <1>f DEF AckedFacts
  <2>7. AckedFacts'
    BY <1>f, <2>5, <2>6 DEF AckedFacts
  <2>8. CompactionFacts'
    BY <1>f DEF CompactionFacts
  <2> QED
    BY <1>a, <2>4, <2>7, <2>8
<1>1. CASE LoadOrCreate
  <2> DEFINE old == IF legacy THEN LegacyContents ELSE {}
  <2>1. /\ manifest = NoManifest /\ manifest' = 0 /\ acked' = acked
        /\ step' = step /\ step = "idle"
        /\ snapshot'[0] = old /\ log'[0] = <<>> /\ 0 \in present'
    BY <1>1, <1>b, MemoryFacts
       DEF LoadOrCreate, CreateDocument, op, Base, OpFacts
  <2>2. acked \subseteq old
    BY <1>d, <2>1 DEF AckedDurable, Recoverable
  <2>3. AckedDurable'
    BY <2>1, <2>2 DEF AckedDurable, Recoverable, NoManifest
  <2>4. loaded' => generation' = 0 /\ records' = 0 /\ doc' = old
    BY <1>1 DEF LoadOrCreate, Install, Forgotten
  <2>5. SegmentFacts' /\ CompactionFacts'
    BY <2>1, <2>4 DEF SegmentFacts, CompactionFacts, Kept
  <2>6. AckedFacts'
    BY <2>1, <2>2, <2>3, <2>4 DEF AckedFacts
  <2> QED
    BY <1>a, <2>5, <2>6
<1>2. CASE ImportYsweet
  <2>1. /\ ~loaded' /\ manifest' = 0 /\ step' = "idle" /\ 0 \in present'
        /\ snapshot'[0] = ImportContents
        /\ manifest = NoManifest /\ ~legacy /\ acked' = acked \cup ImportContents
    BY <1>2, <1>b, MemoryFacts
       DEF ImportYsweet, CreateDocument, memory, op, Base, OpFacts
  <2>2. acked = {}
    BY <1>d, <2>1 DEF AckedDurable, Recoverable
  <2>3. AckedDurable'
    BY <2>1, <2>2 DEF AckedDurable, Recoverable, NoManifest
  <2> QED
    BY <1>a, <2>1, <2>3 DEF SegmentFacts, AckedFacts, CompactionFacts
<1>3. CASE Load
  <2>1. PICK n \in 0..Len(log[manifest]) : LoadExisting(log, n)
    BY <1>3 DEF Load
  <2>2. /\ manifest \in present /\ manifest \in Generations
        /\ manifest # NoManifest
        /\ log[manifest] \in Seq(Entries)
        /\ step' = "idle" /\ manifest' = manifest
        /\ snapshot' = snapshot /\ acked' = acked
    BY <1>3, <1>b DEF Load, op, Base, OpFacts, TypeOK, DiskTypes, Generations,
                      NoManifest
  <2>3. acked \subseteq snapshot[manifest] \cup {log[manifest][i] : i \in 1..n}
    BY <1>d, <2>1, <2>2, ReplayedKept
       DEF AckedDurable, Recoverable, LoadExisting
  <2>4. /\ generation' = manifest /\ records' = n /\ ~appendFailed'
        /\ doc' = snapshot[manifest] \cup {log[manifest][i] : i \in 1..n}
        /\ loaded'
        /\ log'[manifest] = SubSeq(log[manifest], 1, n)
    BY <1>b, <2>1, <2>2 DEF LoadExisting, Install
  <2>5. /\ Len(log'[manifest]) = n
        /\ \A i \in 1..n : log'[manifest][i] = log[manifest][i]
        /\ \A i \in 1..n : log'[manifest][i] \in Integrable
    BY <2>1, <2>2, <2>4, CutFacts, SMTT(20) DEF LoadExisting, Recovers
  <2>6. SegmentFacts' /\ CompactionFacts'
    BY <2>2, <2>4, <2>5, SMTT(20) DEF SegmentFacts, CompactionFacts, Kept
  <2>7. AckedFacts'
    BY <2>2, <2>3, <2>4, <2>5, SMTT(20) DEF AckedFacts, Kept
  <2> QED
    BY <1>a, <2>6, <2>7
<1>4. CASE Repair
  <2>1. PICK n \in 0..Len(log[manifest]) :
           /\ Repairs(log[manifest], n)
           /\ log' = [log EXCEPT ![manifest] = SubSeq(@, 1, n)]
    BY <1>4 DEF Repair
  <2>2. /\ manifest \in present /\ manifest \in Generations
        /\ manifest # NoManifest /\ manifest \in present'
        /\ log[manifest] \in Seq(Entries)
        /\ step' = "idle" /\ manifest' = manifest /\ ~loaded'
        /\ snapshot' = snapshot /\ acked' = acked
    BY <1>4, <1>b DEF Repair, RemoveOldGenerations, memory, op, Base, OpFacts,
                      TypeOK, DiskTypes, Generations, NoManifest
  <2>3. acked \subseteq snapshot[manifest] \cup {log[manifest][i] : i \in 1..n}
    BY <1>d, <2>1, <2>2, ReplayedKept DEF AckedDurable, Recoverable
  <2>4. /\ log'[manifest] = SubSeq(log[manifest], 1, n)
        /\ log'[manifest] \in Seq(Entries)
        /\ n \in 0..Len(log'[manifest])
        /\ \A i \in 1..n : log'[manifest][i] = log[manifest][i]
        /\ \A i \in 1..n : log'[manifest][i] \in Integrable
    <3>1. log'[manifest] = SubSeq(log[manifest], 1, n)
      BY <1>b, <2>1, <2>2
    <3>2. /\ SubSeq(log[manifest], 1, n) \in Seq(Entries)
          /\ Len(SubSeq(log[manifest], 1, n)) = n
          /\ \A i \in 1..n : SubSeq(log[manifest], 1, n)[i] = log[manifest][i]
      BY <2>2, CutFacts
    <3>3. \A i \in 1..n : log[manifest][i] \in Integrable
      BY <2>1 DEF Repairs
    <3>4. n \in 0..Len(log'[manifest])
      BY <3>1, <3>2
    <3>5. \A i \in 1..n : log'[manifest][i] = log[manifest][i]
      BY <3>1, <3>2
    <3>6. \A i \in 1..n : log'[manifest][i] \in Integrable
      BY <3>3, <3>5
    <3> QED
      BY <3>1, <3>2, <3>4, <3>5, <3>6
  <2>5. acked \subseteq snapshot[manifest] \cup Replayed(log'[manifest])
    <3>1. {log'[manifest][i] : i \in 1..n} \subseteq Replayed(log'[manifest])
      BY <2>4, PrefixReplayed
    <3>2. {log[manifest][i] : i \in 1..n} = {log'[manifest][i] : i \in 1..n}
      BY <2>4
    <3> QED
      BY <2>3, <3>1, <3>2
  <2>6. AckedDurable'
    BY <2>2, <2>5 DEF AckedDurable, Recoverable
  <2> QED
    BY <1>a, <2>2, <2>6 DEF SegmentFacts, AckedFacts, CompactionFacts
<1>5. CASE Unload
  <2>1. AckedDurable' /\ ~loaded' /\ step' = "idle"
    BY <1>5, <1>d DEF Unload, Forgotten, disk, op, AckedDurable, Recoverable
  <2> QED
    BY <1>a, <2>1 DEF SegmentFacts, AckedFacts, CompactionFacts
<1>6. ASSUME NEW u \in Updates, NEW by \in {"session", "request"},
             ApplyUpdate(u, by)
      PROVE  Safe'
  <2>1. /\ step = "idle" /\ step' \in {"snapshot", "append"}
        /\ UNCHANGED <<loaded, generation, manifest, records, appendFailed,
                       log, snapshot, doc, acked>>
    BY <1>6 DEF ApplyUpdate, disk, memory
  <2>2. loaded
    BY <1>6 DEF ApplyUpdate
  <2> QED
    BY <1>a, <2>1, <2>2 DEF SegmentFacts, AckedFacts, CompactionFacts, Kept
<1>7. CASE DiscardPartialRecord \/ DiscardPartialFails
  <2>1. /\ loaded /\ loaded' /\ step = "append" /\ step' \in {"append", "idle"}
        /\ UNCHANGED <<generation, manifest, records, snapshot, doc, acked>>
        /\ SetLog(log[generation]) \/ SetLog(Cut(records))
        /\ appendFailed
    BY <1>7 DEF DiscardPartialRecord, DiscardPartialFails, Finish, Release, op,
                memory, Base, OpFacts
  <2>2. /\ Kept = records /\ Kept' = records
        /\ records \in 0..Len(log[generation])
    BY <1>b, <2>1 DEF SegmentFacts, Kept
  <2>3. /\ records <= Len(log'[generation])
        /\ \A i \in 1..records : log'[generation][i] = log[generation][i]
        /\ ~appendFailed' => Len(log'[generation]) = records
    <3>1. CASE DiscardPartialRecord
      BY <1>b, <1>c, <1>e, <2>2, <3>1 DEF DiscardPartialRecord
    <3>2. CASE DiscardPartialFails
      BY <1>b, <1>c, <1>e, <2>1, <2>2, <3>2 DEF DiscardPartialFails, memory
    <3> QED
      BY <1>7, <3>1, <3>2
  <2> QED
    BY <1>f, <2>1, <2>2, <2>3
<1>8. CASE WriteRecord
  <2>1. /\ loaded /\ loaded' /\ step = "append" /\ step' = "sync"
        /\ UNCHANGED <<generation, manifest, records, snapshot, doc, acked,
                       appendFailed, update>>
        /\ ~appendFailed
        /\ Len(log[generation]) = records
        /\ log'[generation] = Append(log[generation], update)
    BY <1>8, <1>b, <1>e
       DEF WriteRecord, GoTo, memory, Base, OpFacts, SegmentFacts
  <2>2. update \in Entries
    BY DEF Base, TypeOK, OperationTypes, Entries, NoUpdate
  <2>3. /\ Len(log'[generation]) = records + 1
        /\ log'[generation][records + 1] = update
        /\ \A i \in 1..records : log'[generation][i] = log[generation][i]
    BY <1>b, <2>1, <2>2, SMTT(20)
  <2>4. Kept = records /\ Kept' = records
    BY <2>1 DEF Kept
  <2> QED
    BY <1>a, <1>b, <2>1, <2>3, <2>4 DEF SegmentFacts, AckedFacts, CompactionFacts
<1>9. CASE AppendFails
  <2>1. PICK tail \in Written :
           \/ /\ SetLog(SetLen(Before \o tail, records))
              /\ UNCHANGED appendFailed
           \/ SetLog(Before \o tail) /\ appendFailed' = TRUE
    BY <1>9 DEF AppendFails
  <2>2. /\ loaded /\ loaded' /\ step = "sync" /\ step' = "idle"
        /\ UNCHANGED <<generation, manifest, records, snapshot, doc, acked>>
        /\ ~appendFailed
        /\ Len(log[generation]) = records + 1
    BY <1>9 DEF AppendFails, Finish, Release, Base, OpFacts, SegmentFacts
  <2>3. /\ Before \o tail \in Seq(Entries)
        /\ Len(Before \o tail) >= records
        /\ \A i \in 1..records : (Before \o tail)[i] = log[generation][i]
    <3>1. update \in Entries /\ Short \in Entries
      BY DEF Base, TypeOK, OperationTypes, Entries, NoUpdate
    <3>2. PICK e \in Entries : tail \in {<<>>, <<e>>}
      BY <2>1, <3>1 DEF Written
    <3>3. log[generation] # <<>>
      BY <1>b, <2>2
    <3>4. LET r == SubSeq(log[generation], 1, Len(log[generation]) - 1) \o tail
          IN  /\ r \in Seq(Entries)
              /\ Len(r) = Len(log[generation]) - 1 + Len(tail)
              /\ Len(tail) \in {0, 1}
              /\ \A i \in 1..(Len(log[generation]) - 1) : r[i] = log[generation][i]
      BY <1>b, <3>2, <3>3, TailFacts
    <3>5. (Len(log[generation]) - 1) = records
      BY <1>b, <2>2
    <3> QED
      BY <1>b, <2>2, <3>4, <3>5, SMTT(20) DEF Before
  <2>4. /\ Len(SetLen(Before \o tail, records)) = records
        /\ \A i \in 1..records :
              SetLen(Before \o tail, records)[i] = log[generation][i]
    <3>1. records \in 0..Len(Before \o tail)
      BY <1>b, <2>3
    <3>2. SetLen(Before \o tail, records) = SubSeq(Before \o tail, 1, records)
      BY <1>b, <2>3, SetLenFacts
    <3> QED
      BY <2>3, <3>1, <3>2, CutFacts
  <2>5. /\ Len(log'[generation]) >= records
        /\ \A i \in 1..records : log'[generation][i] = log[generation][i]
        /\ ~appendFailed' => Len(log'[generation]) = records
    <3>1. CASE SetLog(Before \o tail) /\ appendFailed' = TRUE
      BY <1>e, <2>3, <3>1
    <3>2. CASE SetLog(SetLen(Before \o tail, records))
      <4>1. log'[generation] = SetLen(Before \o tail, records)
        BY <1>e, <3>2
      <4> QED
        BY <1>b, <2>4, <4>1
    <3> QED
      BY <2>1, <3>1, <3>2
  <2>6. Kept = records /\ Kept' = records
    BY <2>2 DEF Kept
  <2>7. records <= Len(log'[generation])
    BY <1>b, <2>3, <2>5
  <2> QED
    BY <1>f, <2>2, <2>5, <2>6, <2>7
<1>10. CASE Publish
  <2>1. /\ loaded /\ loaded' /\ step = "sync" /\ step' = "idle"
        /\ UNCHANGED <<generation, manifest, snapshot, log, appendFailed>>
        /\ records' = records + 1
        /\ acked' = acked \cup {update} /\ doc' = doc \cup {update}
        /\ update \in Integrable
        /\ ~appendFailed
        /\ Len(log[generation]) = records + 1
        /\ log[generation][records + 1] = update
    BY <1>10 DEF Publish, Release, disk, Base, OpFacts, SegmentFacts
  <2>2. Kept = records /\ Kept' = records + 1
    BY <2>1 DEF Kept
  <2>3. SegmentFacts'
    <3>1. \A i \in 1..records : log[generation][i] \in Integrable
      BY <2>1, <2>2 DEF SegmentFacts
    <3>2. \A i \in 1..(records + 1) : i \in 1..records \/ i = records + 1
      BY <1>b
    <3>3. \A i \in 1..Kept' : log'[generation'][i] \in Integrable
      BY <2>1, <2>2, <3>1, <3>2
    <3>4. Len(log'[generation']) = records' /\ Kept' = records' /\ records' \in Int
      BY <1>b, <2>1, <2>2
    <3>5. generation' = manifest'
      BY <2>1 DEF SegmentFacts
    <3> QED
      BY <2>1, <3>3, <3>4, <3>5 DEF SegmentFacts
  <2>4. AckedFacts'
    <3>1. acked \subseteq snapshot[generation]
                          \cup {log[generation][i] : i \in 1..records}
      BY <2>1, <2>2 DEF AckedFacts
    <3>2. update \in {log[generation][i] : i \in 1..(records + 1)}
      BY <1>b, <2>1
    <3>3. {log[generation][i] : i \in 1..records}
             \subseteq {log[generation][i] : i \in 1..(records + 1)}
      BY <1>b
    <3>4. acked' \subseteq snapshot[generation]
                           \cup {log[generation][i] : i \in 1..(records + 1)}
      BY <2>1, <3>1, <3>2, <3>3
    <3>5. acked' \subseteq doc'
      BY <2>1 DEF AckedFacts
    <3>6. acked' \subseteq snapshot'[generation']
                           \cup {log'[generation'][i] : i \in 1..Kept'}
      BY <2>1, <2>2, <3>4
    <3> QED
      BY <2>1, <3>5, <3>6 DEF AckedFacts
  <2> QED
    BY <1>a, <2>1, <2>3, <2>4 DEF CompactionFacts
<1>11. CASE IntegrationPanics
  <2>1. /\ loaded /\ loaded' /\ step = "sync" /\ step' = "reject"
        /\ UNCHANGED <<generation, manifest, snapshot, log, appendFailed, acked>>
        /\ records' = records + 1
        /\ doc \subseteq doc'
        /\ update \in Unintegrable
        /\ ~appendFailed
        /\ Len(log[generation]) = records + 1
        /\ log[generation][records + 1] = update
    BY <1>11 DEF IntegrationPanics, GoTo, disk, Base, OpFacts, SegmentFacts
  <2>2. Kept = records /\ Kept' = records
    BY <1>b, <2>1 DEF Kept
  <2> QED
    BY <1>a, <1>b, <2>1, <2>2 DEF SegmentFacts, AckedFacts, CompactionFacts
<1>12. CASE RejectAppendedUpdate
  <2> DEFINE cut == [log EXCEPT ![generation] = Cut(records - 1)]
  <2>1. /\ loaded /\ step = "reject" /\ step' = "idle"
        /\ generation = manifest
        /\ UNCHANGED <<manifest, snapshot, acked>>
        /\ Len(log[generation]) = records
        /\ records - 1 \in 0..Len(log[generation])
    BY <1>12, <1>b
       DEF RejectAppendedUpdate, Finish, Release, Base, OpFacts, SegmentFacts
  <2>2. PICK n \in 0..Len(cut[generation]) : LoadExisting(cut, n)
    BY <1>12, <2>1 DEF RejectAppendedUpdate
  <2>3. /\ cut[generation] = Cut(records - 1)
        /\ Cut(records - 1) \in Seq(Entries)
        /\ Len(Cut(records - 1)) = records - 1
        /\ \A i \in 1..(records - 1) :
              /\ Cut(records - 1)[i] = log[generation][i]
              /\ log[generation][i] \in Integrable
    BY <1>b, <1>c, <2>1 DEF SegmentFacts, Kept
  <2>4. n = records - 1
    <3>1. CASE n < records - 1
      <4>1. n + 1 \in 1..(records - 1)
        BY <1>b, <2>2, <2>3, <3>1
      <4>2. cut[generation][n + 1] \in Integrable
        BY <2>3, <4>1
      <4>3. cut[generation][n + 1] # Short /\ cut[generation][n + 1] # Zeros
        BY <4>2 DEF Integrable
      <4>4. Recovers(cut[generation], n)
        BY <2>1, <2>2 DEF LoadExisting
      <4>5. n < Len(cut[generation])
        BY <2>3, <3>1
      <4> HIDE DEF cut
      <4> QED
        BY <4>3, <4>4, <4>5 DEF Recovers
    <3>2. n \in Nat /\ n <= records - 1 /\ records \in Nat
      BY <1>b, <2>2, <2>3
    <3> QED
      BY <3>1, <3>2
  <2>5. /\ generation' = manifest /\ records' = n /\ ~appendFailed'
        /\ doc' = snapshot[manifest] \cup {cut[manifest][i] : i \in 1..n}
        /\ loaded'
        /\ log' = [cut EXCEPT ![manifest] = SubSeq(cut[manifest], 1, n)]
    BY <2>2 DEF LoadExisting, Install
  <2>6. cut \in [Generations -> Seq(Entries)]
    BY <1>b, <2>3
  <2>7. log'[generation] = SubSeq(Cut(records - 1), 1, n)
    BY <1>b, <2>1, <2>3, <2>5, <2>6
  <2>8. /\ Len(log'[generation]) = records - 1
        /\ \A i \in 1..(records - 1) : log'[generation][i] = log[generation][i]
    <3>1. n \in 0..Len(Cut(records - 1))
      BY <2>2, <2>3
    <3>2. /\ Len(SubSeq(Cut(records - 1), 1, n)) = n
          /\ \A i \in 1..n :
                SubSeq(Cut(records - 1), 1, n)[i] = Cut(records - 1)[i]
      BY <2>3, <3>1, CutFacts
    <3>3. /\ Len(log'[generation]) = n
          /\ \A i \in 1..n : log'[generation][i] = Cut(records - 1)[i]
      BY <2>7, <3>2
    <3> QED
      BY <2>3, <2>4, <3>3
  <2>9. Kept = records - 1 /\ Kept' = records - 1
    BY <2>1, <2>4, <2>5 DEF Kept
  <2>10. doc' = snapshot[generation]
                \cup {log[generation][i] : i \in 1..(records - 1)}
    <3>1. doc' = snapshot[generation]
                 \cup {Cut(records - 1)[i] : i \in 1..(records - 1)}
      BY <2>1, <2>3, <2>4, <2>5
    <3>2. {Cut(records - 1)[i] : i \in 1..(records - 1)}
             = {log[generation][i] : i \in 1..(records - 1)}
      BY <2>3
    <3> QED
      BY <3>1, <3>2
  <2>11. SegmentFacts' /\ CompactionFacts'
    <3>1. /\ generation' = generation /\ manifest' = manifest
          /\ records' = records - 1 /\ step' = "idle"
      BY <2>1, <2>4, <2>5
    <3>2. /\ Len(log'[generation']) = records' /\ Kept' = records'
          /\ records' \in Int
      BY <1>b, <2>8, <2>9, <3>1
    <3>3. \A i \in 1..Kept' : log'[generation'][i] \in Integrable
      BY <2>3, <2>8, <2>9, <3>1
    <3>4. SegmentFacts'
      BY <2>1, <3>1, <3>2, <3>3 DEF SegmentFacts
    <3>5. CompactionFacts'
      BY <3>1 DEF CompactionFacts
    <3> QED
      BY <3>4, <3>5
  <2>12. AckedFacts'
    <3>1. acked \subseteq snapshot[generation]
                          \cup {log[generation][i] : i \in 1..(records - 1)}
      BY <2>1, <2>9 DEF AckedFacts
    <3>2. {log'[generation][i] : i \in 1..(records - 1)}
             = {log[generation][i] : i \in 1..(records - 1)}
      BY <2>8
    <3>3. acked' \subseteq doc'
      BY <2>1, <2>10, <3>1
    <3>4. generation' = generation /\ snapshot' = snapshot /\ acked' = acked
      BY <2>1, <2>5
    <3>5. acked' \subseteq snapshot'[generation']
                           \cup {log'[generation'][i] : i \in 1..Kept'}
      BY <2>9, <3>1, <3>2, <3>4
    <3> QED
      BY <2>5, <3>3, <3>5 DEF AckedFacts
  <2> QED
    BY <1>a, <2>11, <2>12
<1>13. CASE ReloadFails \/ DiscardLastFails
  <2>1. loaded /\ step = "reject" /\ generation = manifest /\ ~appendFailed
        /\ Len(log[generation]) = records
        /\ log[generation][records] \in Unintegrable
    BY <1>13 DEF ReloadFails, DiscardLastFails, Base, OpFacts, SegmentFacts
  <2>2. ReloadFails
    BY <1>13, <2>1 DEF Lossless, DiscardLastFails
  <2>3. /\ loaded' /\ step' = "idle" /\ ~appendFailed'
        /\ records' = records - 1
        /\ UNCHANGED <<generation, manifest, snapshot, doc, acked>>
    BY <2>1, <2>2 DEF ReloadFails, Finish, Release
  <2>4. records - 1 \in 0..Len(log[generation]) /\ Kept = records - 1
        /\ Kept' = records - 1
    BY <1>b, <2>1, <2>3 DEF Kept
  <2>5. log'[generation] = Cut(records - 1)
    BY <1>e, <2>2 DEF ReloadFails
  <2>6. /\ Len(log'[generation]) = records - 1
        /\ \A i \in 1..(records - 1) : log'[generation][i] = log[generation][i]
    BY <1>c, <2>4, <2>5
  <2>7. \A i \in 1..(records - 1) : log[generation][i] \in Integrable
    BY <2>1, <2>4 DEF SegmentFacts
  <2>8. SegmentFacts'
    <3>1. \A i \in 1..Kept' : log'[generation'][i] \in Integrable
      BY <2>3, <2>4, <2>6, <2>7
    <3> QED
      BY <1>b, <2>1, <2>3, <2>4, <2>6, <3>1 DEF SegmentFacts
  <2>9. AckedFacts'
    <3>1. {log'[generation][i] : i \in 1..(records - 1)}
             = {log[generation][i] : i \in 1..(records - 1)}
      BY <2>6
    <3>2. acked \subseteq snapshot[generation]
                          \cup {log[generation][i] : i \in 1..(records - 1)}
          /\ acked \subseteq doc
      BY <2>1, <2>4 DEF AckedFacts
    <3>3. acked' \subseteq snapshot'[generation']
                           \cup {log'[generation'][i] : i \in 1..Kept'}
      BY <2>3, <2>4, <3>1, <3>2
    <3>4. acked' \subseteq doc'
      BY <2>3, <3>2
    <3> QED
      BY <2>3, <3>3, <3>4 DEF AckedFacts
  <2>10. CompactionFacts'
    BY <2>3 DEF CompactionFacts
  <2> QED
    BY <1>a, <2>8, <2>9, <2>10
<1>14. CASE CompactIfNeeded \/ CompactionFails
  <2>1. /\ loaded /\ loaded' /\ step \in {"idle", "snapshot", "log", "manifest"}
        /\ step' \in {"idle", "snapshot"}
        /\ UNCHANGED <<generation, manifest, records, appendFailed,
                       log, snapshot, doc, acked>>
    BY <1>14 DEF CompactIfNeeded, CompactionFails, Finish, Release, disk,
                 memory, op, Base, OpFacts
  <2> QED
    BY <1>a, <2>1 DEF SegmentFacts, AckedFacts, CompactionFacts, Kept
<1>15. CASE WriteSnapshot \/ WriteLog
  <2>1. /\ loaded /\ loaded' /\ step \in {"snapshot", "log"}
        /\ step' \in {"log", "manifest"}
        /\ UNCHANGED <<generation, manifest, records, appendFailed, doc, acked>>
    BY <1>15 DEF WriteSnapshot, WriteLog, Continue, GoTo, memory, Base,
                 OpFacts, Lossless
  <2>2. NextGeneration \in Generations /\ NextGeneration # generation
    BY <1>15, <1>b DEF WriteSnapshot, WriteLog, Base, OpFacts, NextGeneration,
                       Generations
  <2>3. snapshot'[generation] = snapshot[generation]
        /\ log'[generation] = log[generation]
    BY <1>15, <1>b, <2>2 DEF WriteSnapshot, WriteLog
  <2>4. /\ snapshot'[NextGeneration] = doc
        /\ step' = "manifest" => log'[NextGeneration] = <<>>
    <3>1. CASE WriteSnapshot
      BY <1>b, <2>2, <3>1 DEF WriteSnapshot, Continue, GoTo, Lossless
    <3>2. CASE WriteLog
      BY <1>b, <2>2, <3>2 DEF WriteLog, CompactionFacts
    <3> QED
      BY <1>15, <3>1, <3>2
  <2>5. NextGeneration' = NextGeneration
    BY <2>1 DEF NextGeneration
  <2>6. CompactionFacts'
    BY <2>1, <2>4, <2>5 DEF CompactionFacts
  <2> QED
    BY <1>a, <2>1, <2>3, <2>6 DEF SegmentFacts, AckedFacts, Kept
<1>16. CASE WriteManifest
  <2>1. /\ loaded /\ loaded' /\ step = "manifest" /\ step' \in {"idle", "append"}
        /\ generation' = NextGeneration /\ manifest' = NextGeneration
        /\ records' = 0 /\ doc' = doc
        /\ UNCHANGED <<snapshot, log, acked>>
    BY <1>16 DEF WriteManifest, Install, GoTo, Finish, Release, Base, OpFacts
  <2>2. snapshot[NextGeneration] = doc /\ log[NextGeneration] = <<>>
    BY <2>1 DEF CompactionFacts
  <2>3. acked \subseteq doc
    BY <2>1 DEF AckedFacts
  <2>4. Kept' = 0 /\ log'[generation'] = <<>> /\ Len(log'[generation']) = 0
    BY <2>1, <2>2 DEF Kept
  <2>5. SegmentFacts'
    <3>1. \A i \in 1..Kept' : log'[generation'][i] \in Integrable
      BY <2>4
    <3> QED
      BY <2>1, <2>4, <3>1 DEF SegmentFacts
  <2>6. acked' \subseteq snapshot'[generation'] /\ acked' \subseteq doc'
    BY <2>1, <2>2, <2>3
  <2>7. AckedFacts'
    BY <2>1, <2>6 DEF AckedFacts
  <2>8. CompactionFacts'
    BY <2>1 DEF CompactionFacts
  <2> QED
    BY <1>a, <2>5, <2>7, <2>8
<1>17. CASE ManifestUnsynced \/ CancelRequest
  BY <1>17 DEF ManifestUnsynced, CancelRequest, Lossless
<1>18. CASE Crash
  <2>1. /\ loaded /\ ~loaded' /\ step' = "idle"
        /\ UNCHANGED <<snapshot, present, acked, legacy>>
        /\ generation = manifest
    BY <1>18 DEF Crash, Forgotten, Release, SegmentFacts
  <2>2. manifest \in present /\ manifest # NoManifest /\ generation >= 0
    BY <1>b, <2>1 DEF Base, GenerationsInUsePresent, NoManifest, Generations
  <2>3. /\ Kept \in 0..Len(log[generation])
        /\ \A i \in 1..Kept : log[generation][i] \in Integrable
        /\ acked \subseteq snapshot[generation]
                           \cup {log[generation][i] : i \in 1..Kept}
    <3>1. Kept \in Nat
      BY <1>b DEF Kept
    <3>2. /\ Kept <= Len(log[generation])
          /\ \A i \in 1..Kept : log[generation][i] \in Integrable
      BY <2>1 DEF SegmentFacts
    <3>3. Kept \in 0..Len(log[generation])
      BY <1>b, <3>1, <3>2
    <3>4. acked \subseteq snapshot[generation]
                          \cup {log[generation][i] : i \in 1..Kept}
      BY <2>1 DEF AckedFacts
    <3> QED
      BY <3>2, <3>3, <3>4
  <2>4. CASE manifest' = manifest /\ log'[generation] \in Seq(Entries)
             /\ Kept <= Len(log'[generation])
             /\ \A i \in 1..Kept : log'[generation][i] = log[generation][i]
    <3>1. Kept \in 0..Len(log'[generation])
          /\ \A i \in 1..Kept : log'[generation][i] \in Integrable
      <4>1. Kept \in Nat /\ Len(log'[generation]) \in Nat
        <5>1. Kept \in 0..Len(log[generation])
          BY <2>3
        <5>2. log'[generation] \in Seq(Entries)
          BY <2>4
        <5> QED
          BY <5>1, <5>2
      <4>2. \A i \in 1..Kept : log'[generation][i] \in Integrable
        BY <2>3, <2>4
      <4>3. Kept <= Len(log'[generation])
        BY <2>4
      <4>4. Kept \in 0..Len(log'[generation])
        BY <4>1, <4>3
      <4> QED
        BY <4>2, <4>4
    <3>2. {log'[generation][i] : i \in 1..Kept} \subseteq Replayed(log'[generation])
      BY <2>4, <3>1, PrefixReplayed
    <3>3. {log[generation][i] : i \in 1..Kept} = {log'[generation][i] : i \in 1..Kept}
      BY <2>4
    <3>4. acked \subseteq snapshot[generation] \cup Replayed(log'[generation])
      BY <2>3, <3>2, <3>3
    <3>5. AckedDurable'
      BY <2>1, <2>2, <2>4, <3>4 DEF AckedDurable, Recoverable
    <3> QED
      BY <1>a, <2>1, <3>5 DEF SegmentFacts, AckedFacts, CompactionFacts
  <2>a. ASSUME manifest' = manifest, log' = log
        PROVE  Safe'
    <3>1. log'[generation] \in Seq(Entries)
      BY <1>b, <2>a
    <3>2. Kept <= Len(log[generation])
      BY <1>b, <2>3
    <3> QED
      BY <2>4, <2>a, <3>1, <3>2
  <2>5. CASE step = "sync"
    <3>1. PICK tail \in Written \cup {<<Zeros>>} : SetLog(Before \o tail)
      BY <1>18, <2>5 DEF Crash, InFlight
    <3>2. PICK e \in Entries : tail \in {<<>>, <<e>>}
      <4>1. update \in Entries /\ Short \in Entries /\ Zeros \in Entries
        BY DEF Base, TypeOK, OperationTypes, Entries, NoUpdate
      <4> QED
        BY <3>1, <4>1 DEF Written
    <3>3. /\ Len(log[generation]) = records + 1 /\ log[generation] # <<>>
          /\ Len(log[generation]) - 1 = records
          /\ Kept = records
      BY <1>b, <2>1, <2>5 DEF SegmentFacts, Kept
    <3>4. LET r == SubSeq(log[generation], 1, Len(log[generation]) - 1) \o tail
          IN  /\ r \in Seq(Entries)
              /\ Len(r) = Len(log[generation]) - 1 + Len(tail)
              /\ Len(tail) \in {0, 1}
              /\ \A i \in 1..(Len(log[generation]) - 1) : r[i] = log[generation][i]
      BY <1>b, <3>2, <3>3, TailFacts
    <3>5. log'[generation] = Before \o tail /\ manifest' = manifest
      BY <1>18, <1>e, <2>5, <3>1 DEF Crash, InFlight
    <3>6. /\ log'[generation] \in Seq(Entries)
          /\ Len(log'[generation]) = records + Len(tail)
          /\ Len(tail) \in {0, 1}
          /\ \A i \in 1..records : log'[generation][i] = log[generation][i]
      BY <3>3, <3>4, <3>5 DEF Before
    <3>7. Kept <= Len(log'[generation])
      BY <1>b, <3>3, <3>6
    <3>8. \A i \in 1..Kept : log'[generation][i] = log[generation][i]
      BY <3>3, <3>6
    <3> QED
      BY <2>4, <3>5, <3>6, <3>7, <3>8
  <2>6. CASE step = "reject"
    <3>1. manifest' = manifest /\ (SetLog(log[generation]) \/ SetLog(Cut(records - 1)))
      BY <1>18, <2>6 DEF Crash, InFlight
    <3>2. Kept = records - 1 /\ Len(log[generation]) = records
      BY <2>1, <2>6 DEF Kept, SegmentFacts
    <3>3. CASE SetLog(log[generation])
      BY <1>b, <1>e, <2>3, <2>4, <3>1, <3>3
    <3>4. CASE SetLog(Cut(records - 1))
      <4>1. log'[generation] = Cut(records - 1)
        BY <1>e, <3>4
      <4>2. records - 1 \in 0..Len(log[generation])
        BY <2>3, <3>2
      <4>3. /\ log'[generation] \in Seq(Entries)
            /\ Len(log'[generation]) = Kept
            /\ \A i \in 1..Kept : log'[generation][i] = log[generation][i]
        BY <1>c, <3>2, <4>1, <4>2
      <4>4. Kept <= Len(log'[generation])
        BY <2>3, <4>3
      <4> QED
        BY <2>4, <3>1, <4>3, <4>4
    <3> QED
      BY <3>1, <3>3, <3>4
  <2>7. CASE step = "manifest"
    <3>1. manifest' \in {manifest, NextGeneration} /\ log' = log
      BY <1>18, <2>7 DEF Crash, InFlight
    <3>2. CASE manifest' = manifest
      BY <2>a, <3>1, <3>2
    <3>3. CASE manifest' = NextGeneration
      <4>1. /\ NextGeneration \in present /\ NextGeneration # NoManifest
            /\ snapshot[NextGeneration] = doc /\ acked \subseteq doc
        BY <2>1, <2>2, <2>7, <1>b DEF Base, OpFacts, CompactionFacts, AckedFacts,
                                    NextGeneration, NoManifest
      <4>2. AckedDurable'
        BY <2>1, <3>1, <3>3, <4>1 DEF AckedDurable, Recoverable
      <4> QED
        BY <1>a, <2>1, <4>2 DEF SegmentFacts, AckedFacts, CompactionFacts
    <3> QED
      BY <3>1, <3>2, <3>3
  <2>8. CASE step \in {"idle", "append", "snapshot", "log"}
    <3>1. manifest' = manifest /\ log' = log
      BY <1>18, <2>8 DEF Crash, InFlight
    <3> QED
      BY <2>a, <3>1
  <2> QED
    BY <2>5, <2>6, <2>7, <2>8 DEF Base, TypeOK, OperationTypes, Steps
<1>19. CASE UNCHANGED vars
  BY <1>a, <1>19 DEF vars, disk, memory, op, SegmentFacts, AckedFacts,
                     CompactionFacts, Kept, NextGeneration, AckedDurable,
                     Recoverable
<1> QED
  BY <1>1, <1>2, <1>3, <1>4, <1>5, <1>6, <1>7, <1>8, <1>9, <1>10, <1>11,
     <1>12, <1>13, <1>14, <1>15, <1>16, <1>17, <1>18, <1>19 DEF Next

\* The main result: whatever crashes, failed appends, failed compactions,
\* repairs and reloads happen, every acknowledged update is found again by
\* the next load of the document.
THEOREM AckedStayDurable ==
    ASSUME Lossless
    PROVE  Spec => []AckedDurable
<1>1. Spec => []Safe
  BY SafeInit, SafeNext, PTL DEF Spec
<1> QED
  BY <1>1, SafeIsDurable, PTL

=============================================================================
