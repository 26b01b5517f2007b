--------------------------- MODULE BuilderProofs ---------------------------
(***************************************************************************)
(* Proofs about Builder, for any output directories, nested in any way,    *)
(* and any number of changes made by others: the inductive invariant IInv, *)
(* and what follows for packages and for what is on the disk.              *)
(***************************************************************************)
EXTENDS Builder, TLAPS

Creating == {"scaffold", "save", "generate"}
Building == {"regenerate", "lock", "copy", "copying", "install", "measure"}
Packing == {"check", "archive", "verify"}

Declaration == [config : Version, shape : Version, locks : BOOLEAN]
Tree == [inputs : Version, harness : Version, contract : Version \X Version,
         rest : Version, whole : BOOLEAN, foreign : BOOLEAN]
Source == [config : Version, shape : Version, locks : BOOLEAN, inputs : Version,
           harness : Version, contract : Version \X Version, rest : Version]
Measured == [inputs : Version, harness : Version, config : Version]
Archived == [inputs : Version, harness : Version, contract : Version \X Version,
             rest : Version, foreign : BOOLEAN, complete : BOOLEAN]

(* The call that holds the mutex has what it was begun with.               *)
CallInv ==
  /\ rpc \in [op : {"none"} \cup Creating \cup Building \cup Packing, dir : Dir \cup {None}]
  /\ rpc.op \in Building \cup Packing => rpc.dir \in Dir
  /\ rpc.op \in Creating => prepared = None /\ loaded \in Declaration
  /\ rpc.op \in Building => loaded # None
  /\ rpc.op \in Packing => prepared # None
  /\ rpc.op \in {"check", "archive"} => archive[rpc.dir] = None

(* The contract comes from the loaded declaration, whoever edits the one   *)
(* on disk, from the moment it is generated until it is prepared.          *)
BuildInv ==
  /\ At("lock") \/ At("copy") \/ At("copying") => source.contract[1] = loaded.config
  /\ At("copying") \/ At("install") => ~tree[rpc.dir].whole
  /\ At("measure") => tree[rpc.dir].whole
  /\ At("install") \/ At("measure") => tree[rpc.dir].contract[1] = loaded.config

(* Versions only go up: no change brings back what was measured.           *)
EditInv ==
  /\ Template <= edits
  /\ source.inputs <= edits /\ source.harness <= edits
  /\ \A d \in Dir : tree[d].inputs <= edits /\ tree[d].harness <= edits
PreparedInv ==
  prepared # None =>
    /\ build \in Measured
    /\ build.inputs <= tree[prepared].inputs /\ build.harness <= tree[prepared].harness
    /\ tree[prepared].contract[1] = build.config
ArchiveInv ==
  /\ archive = [d \in Dir |-> archive[d]]
  /\ At("verify") =>
       /\ archive[rpc.dir] \in Archived /\ archive[rpc.dir].complete
       /\ archive[rpc.dir].inputs \in build.inputs..tree[prepared].inputs
       /\ archive[rpc.dir].harness \in build.harness..tree[prepared].harness
       /\ archive[rpc.dir].contract[1] = build.config

IInv ==
  /\ TypeOK /\ CallInv /\ BuildInv /\ EditInv /\ PreparedInv /\ PreparedIsCurrent /\ ArchiveInv
  /\ PackagedIsPrepared /\ ContractIsDigested

(***************************************************************************)
(* Steps that leave the disk alone                                         *)
(***************************************************************************)
ReleasedInv == PackagedIsPrepared /\ ContractIsDigested

(* The first versions are versions.                                        *)
LEMMA Versions ==
  /\ 0 \in Version /\ Template \in Version
  /\ \A n \in Version : n \in Nat
BY MaxEditsAssumption DEF Version, Template

(* Load forgets, and a call begins with what it needs.                     *)
LEMMA BeginIInv ==
  ASSUME IInv,
         Load \/ Create \/ (\E d \in Dir : BuildInputs(d) \/ Package(d))
  PROVE  IInv'
<1> USE DEF IInv
<1>1. /\ UNCHANGED <<source, tree, archive, edits, released>> /\ rpc = Idle
  BY DEF Load, Create, BuildInputs, Package, disk, memory
<1>2. ReleasedInv' /\ EditInv'
  BY <1>1 DEF ReleasedInv, PackagedIsPrepared, ContractIsDigested, EditInv
<1>3. CASE Load
  <2>1. rpc' = Idle /\ prepared' = None /\ build' = None /\ loaded' \in {None, Declared}
    BY <1>1, <1>3 DEF Load
  <2>2. Declared \in Declaration
    BY DEF TypeOK, Declared, Declaration
  <2>3. TypeOK'
    BY <1>1, <2>1, <2>2 DEF TypeOK, Declaration, Idle
  <2>4. CallInv' /\ BuildInv' /\ PreparedInv' /\ PreparedIsCurrent' /\ ArchiveInv'
    BY <1>1, <2>1, NoneAssumption DEF CallInv, BuildInv, PreparedInv, PreparedIsCurrent, ArchiveInv, At, Idle,
       Creating, Building, Packing
  <2> QED
    BY <1>2, <2>3, <2>4 DEF ReleasedInv
<1>4. CASE Create
  <2>1. /\ rpc' = [op |-> "scaffold", dir |-> None] /\ UNCHANGED <<loaded, prepared, build>>
        /\ loaded # None /\ prepared = None
    BY <1>1, <1>4 DEF Create, Proceed, Idle, memory
  <2>3. TypeOK'
    BY <1>1, <2>1 DEF TypeOK
  <2>4. CallInv' /\ BuildInv' /\ PreparedInv' /\ PreparedIsCurrent' /\ ArchiveInv'
    BY <1>1, <2>1 DEF TypeOK, CallInv, BuildInv, PreparedInv, PreparedIsCurrent, ArchiveInv, At, Idle,
       Creating, Building, Packing, Declaration
  <2> QED
    BY <1>2, <2>3, <2>4 DEF ReleasedInv
<1>5. ASSUME NEW d \in Dir, BuildInputs(d) \/ Package(d)
      PROVE  IInv'
  <2>1. /\ UNCHANGED <<loaded, prepared, build>>
        /\ \/ rpc' = [op |-> "regenerate", dir |-> d] /\ loaded # None
           \/ rpc' = [op |-> "check", dir |-> d] /\ prepared # None /\ archive[d] = None
    BY <1>5 DEF BuildInputs, Package, memory
  <2>3. TypeOK'
    BY <1>1, <2>1 DEF TypeOK
  <2>4. CallInv' /\ BuildInv' /\ PreparedInv' /\ PreparedIsCurrent' /\ ArchiveInv'
    BY <1>1, <2>1 DEF CallInv, BuildInv, PreparedInv, PreparedIsCurrent, ArchiveInv, At,
       Creating, Building, Packing
  <2> QED
    BY <1>2, <2>3, <2>4 DEF ReleasedInv
<1> QED
  BY <1>3, <1>4, <1>5

(* A call that ends, by itself or with its process, leaves nothing to hold.*)
LEMMA EndIInv ==
  ASSUME IInv, Ends, UNCHANGED <<disk, edits, released>>,
         UNCHANGED memory \/ (loaded' = None /\ prepared' = None /\ build' = None)
  PROVE  IInv'
<1> USE DEF IInv, disk, memory, Ends
<1>1. TypeOK'
  BY DEF TypeOK, Idle
<1>2. CallInv' /\ BuildInv' /\ PreparedInv' /\ PreparedIsCurrent' /\ ArchiveInv'
  BY DEF CallInv, BuildInv, PreparedInv, PreparedIsCurrent, ArchiveInv, At, Idle,
       Creating, Building, Packing
<1>3. ReleasedInv' /\ EditInv'
  BY DEF ReleasedInv, PackagedIsPrepared, ContractIsDigested, EditInv
<1> QED
  BY <1>1, <1>2, <1>3 DEF ReleasedInv

(* Check goes on to the archive with the measured snapshot, or ends.       *)
LEMMA CheckIInv ==
  ASSUME IInv, Check
  PROVE  IInv'
<1>1. CASE Ends
  BY <1>1, EndIInv DEF Check
<1>2. CASE Proceed("archive")
  <2> USE DEF IInv
  <2>1. /\ UNCHANGED <<source, tree, archive, loaded, prepared, build, edits, released>>
        /\ At("check") /\ rpc' = [rpc EXCEPT !.op = "archive"]
    BY <1>2 DEF Check, Proceed, disk, memory
  <2>2. rpc' = [op |-> "archive", dir |-> rpc.dir] /\ rpc.dir \in Dir /\ archive[rpc.dir] = None
    BY <2>1 DEF CallInv, At, Packing
  <2>3. TypeOK'
    BY <2>1, <2>2 DEF TypeOK
  <2>4. CallInv' /\ BuildInv' /\ PreparedInv' /\ PreparedIsCurrent' /\ ArchiveInv'
    BY <2>1, <2>2 DEF CallInv, BuildInv, PreparedInv, PreparedIsCurrent, ArchiveInv, At,
       Creating, Building, Packing
  <2>5. ReleasedInv' /\ EditInv'
    BY <2>1 DEF ReleasedInv, PackagedIsPrepared, ContractIsDigested, EditInv
  <2> QED
    BY <2>3, <2>4, <2>5 DEF ReleasedInv
<1> QED
  BY <1>1, <1>2 DEF Check

(***************************************************************************)
(* Steps that change the source                                            *)
(***************************************************************************)
(* Create scaffolds and saves what was loaded.                             *)
LEMMA CreateIInv ==
  ASSUME IInv, Scaffold \/ Save
  PROVE  IInv'
<1> USE DEF IInv
<1>1. /\ rpc.op \in {"scaffold", "save"} /\ prepared = None /\ loaded \in Declaration
      /\ UNCHANGED <<tree, archive, prepared, build, edits, released>>
  BY DEF Scaffold, Save, At, CallInv, Creating, memory
<1>2. /\ loaded' \in Declaration
      /\ rpc' \in {[op |-> "save", dir |-> rpc.dir], [op |-> "generate", dir |-> rpc.dir]}
  BY <1>1 DEF Scaffold, Save, Proceed, CallInv, memory, Declaration
<1>3. /\ source' \in Source
      /\ source'.inputs <= edits /\ source'.harness = source.harness
  BY <1>1, Versions DEF Scaffold, Save, TypeOK, EditInv, Source, Declaration
<1>4. TypeOK'
  BY <1>1, <1>2, <1>3 DEF TypeOK, Source, Declaration, CallInv
<1>5. CallInv' /\ BuildInv' /\ PreparedInv' /\ PreparedIsCurrent' /\ ArchiveInv'
  BY <1>1, <1>2 DEF CallInv, BuildInv, PreparedInv, PreparedIsCurrent, ArchiveInv, At,
     Creating, Building, Packing
<1>6. ReleasedInv' /\ EditInv'
  BY <1>1, <1>3 DEF ReleasedInv, PackagedIsPrepared, ContractIsDigested, EditInv
<1> QED
  BY <1>4, <1>5, <1>6 DEF ReleasedInv

(* The contract generated is that of the loaded declaration.               *)
LEMMA GenerateIInv ==
  ASSUME IInv, Generate \/ GenerateFails
  PROVE  IInv'
<1> USE DEF IInv
<1>1. /\ rpc.op \in {"generate", "regenerate"}
      /\ UNCHANGED <<tree, archive, loaded, prepared, build, edits, released>>
  BY DEF Generate, GenerateFails, memory
<1>2. loaded \in Declaration
  BY <1>1 DEF TypeOK, CallInv, Creating, Building, Declaration
<1>3. /\ source' \in Source
      /\ source'.inputs = source.inputs /\ source'.harness \in {0, Template}
  <2>1. /\ source \in Source /\ 0 \in Version /\ Template \in Version
        /\ <<loaded.config, loaded.shape>> \in Version \X Version
        /\ NoContract \in Version \X Version
    BY <1>2, Versions DEF TypeOK, Source, Declaration, NoContract
  <2>2. CASE Generate
    BY <2>1, <2>2 DEF Generate, Source
  <2>3. CASE GenerateFails
    BY <2>1, <2>3 DEF GenerateFails, Source
  <2> QED
    BY <2>2, <2>3
<1>4. \/ rpc' = Idle
      \/ /\ rpc' = [op |-> "lock", dir |-> rpc.dir] /\ At("regenerate")
         /\ source'.contract = <<loaded.config, loaded.shape>>
  BY <1>1 DEF Generate, GenerateFails, Ends, Proceed, At, CallInv, TypeOK
<1>5. TypeOK'
  BY <1>1, <1>3, <1>4 DEF TypeOK, Source, CallInv, Idle
<1>6. CallInv' /\ BuildInv' /\ PreparedInv' /\ PreparedIsCurrent' /\ ArchiveInv'
  BY <1>1, <1>4 DEF CallInv, BuildInv, PreparedInv, PreparedIsCurrent, ArchiveInv, At, Idle,
     Creating, Building, Packing
<1>7. ReleasedInv' /\ EditInv'
  <2>1. source'.harness <= edits /\ source'.inputs <= edits
    BY <1>3 DEF TypeOK, EditInv, Version, Template
  <2> QED
    BY <1>1, <2>1 DEF ReleasedInv, PackagedIsPrepared, ContractIsDigested, EditInv
<1> QED
  BY <1>5, <1>6, <1>7 DEF ReleasedInv

(* uv changes nothing, or writes a lock file that was not there before.    *)
LEMMA LockIInv ==
  ASSUME IInv, Lock
  PROVE  IInv'
<1> USE DEF IInv
<1>1. /\ At("lock") /\ UNCHANGED <<tree, archive, loaded, prepared, build, released>>
      /\ rpc' = [op |-> "copy", dir |-> rpc.dir]
  BY DEF Lock, memory, Proceed, CallInv
<1>2. /\ source' \in Source /\ edits' \in Version /\ edits <= edits'
      /\ source'.inputs <= edits' /\ source'.harness <= edits'
      /\ source'.contract = source.contract
  <2>1. source \in Source /\ edits \in Nat /\ edits \in Version /\ MaxEdits \in Nat
        /\ source.inputs <= edits /\ source.harness <= edits /\ source.harness \in Nat
    BY MaxEditsAssumption DEF TypeOK, Source, Version, EditInv
  <2>2. CASE UNCHANGED <<source, edits>>
    BY <2>1, <2>2
  <2>3. CASE /\ edits < MaxEdits /\ edits' = edits + 1
             /\ source' = [source EXCEPT !.inputs = edits']
    <3>1. edits' \in Version /\ edits <= edits'
      BY <2>1, <2>3 DEF Version
    <3>2. source' \in Source /\ source'.inputs = edits' /\ source'.harness = source.harness
          /\ source'.contract = source.contract
      BY <2>1, <2>3, <3>1 DEF Source
    <3> QED
      BY <2>1, <2>3, <3>1, <3>2
  <2> QED
    BY <2>2, <2>3 DEF Lock
<1>3. TypeOK'
  BY <1>1, <1>2 DEF TypeOK, Source, CallInv
<1>4. CallInv' /\ BuildInv' /\ PreparedInv' /\ PreparedIsCurrent' /\ ArchiveInv'
  BY <1>1, <1>2 DEF CallInv, BuildInv, PreparedInv, PreparedIsCurrent, ArchiveInv, At,
     Creating, Building, Packing
<1>5. EditInv'
  <2>1. \A d \in Dir : tree[d].inputs \in Nat /\ tree[d].harness \in Nat
    BY Versions DEF TypeOK
  <2>2. edits \in Nat /\ edits' \in Nat
    BY <1>2, Versions DEF TypeOK
  <2> QED
    BY <1>1, <1>2, <2>1, <2>2 DEF EditInv, Template
<1>6. ReleasedInv'
  BY <1>1 DEF ReleasedInv, PackagedIsPrepared, ContractIsDigested
<1> QED
  BY <1>3, <1>4, <1>5, <1>6 DEF ReleasedInv

(***************************************************************************)
(* Steps that change an output directory                                   *)
(***************************************************************************)
Same(d) ==
  /\ tree'[d].inputs = tree[d].inputs /\ tree'[d].harness = tree[d].harness
  /\ tree'[d].contract = tree[d].contract /\ tree'[d].rest = tree[d].rest
  /\ tree'[d].whole = tree[d].whole

(* What is written to d changes the files of no other tree.                *)
LEMMA WritesOne ==
  ASSUME TypeOK, NEW d \in Dir, NEW t \in Tree, Writes(d, t)
  PROVE  /\ tree' \in [Dir -> Tree] /\ tree'[d] = t
         /\ \A e \in Dir : e # d => Same(e)
<1>1. ASSUME NEW e \in Dir
      PROVE  /\ tree[e] \in Tree /\ [tree[e] EXCEPT !.foreign = TRUE] \in Tree
             /\ tree'[e] = IF e = d THEN t
                           ELSE IF e \in Above(d) THEN [tree[e] EXCEPT !.foreign = TRUE]
                           ELSE tree[e]
  BY DEF TypeOK, Tree, Writes
<1>2. tree' \in [Dir -> Tree]
  <2>1. \A e \in Dir : tree'[e] \in Tree
    BY <1>1
  <2>2. tree' = [e \in Dir |-> tree'[e]]
    BY DEF Writes
  <2> QED
    BY <2>1, <2>2
<1>3. ASSUME NEW e \in Dir, e # d PROVE Same(e)
  <2>1. CASE tree'[e] = tree[e]
    BY <2>1 DEF Same
  <2>2. CASE tree'[e] = [tree[e] EXCEPT !.foreign = TRUE]
    BY <1>1, <2>2 DEF Same, Tree
  <2> QED
    BY <1>1, <1>3, <2>1, <2>2
<1> QED
  BY <1>1, <1>2, <1>3

(* The directory being built into is not the prepared one: that is whole.  *)
LEMMA CopyIInv ==
  ASSUME IInv, CopyInputs \/ CopyRest \/ Install
  PROVE  IInv' /\ \A d \in Dir : tree[d].whole => Same(d)
<1> USE DEF IInv
<1> DEFINE d == rpc.dir
<1>1. /\ rpc.op \in {"copy", "copying", "install"} /\ d \in Dir /\ tree[d] \in Tree
      /\ source \in Source
      /\ UNCHANGED <<source, archive, loaded, prepared, build, edits, released>>
  BY DEF CopyInputs, CopyRest, Install, At, CallInv, Building, TypeOK, Tree, Source, memory
<1>2. ~tree[d].whole /\ prepared # d
  <2>1. ~tree[d].whole
    <3>1. CASE CopyInputs
      <4>1. tree[d] = NoTree
        BY <1>1, <3>1 DEF CopyInputs, Empty
      <4>2. ~NoTree.whole
        BY DEF NoTree
      <4> QED
        BY <4>1, <4>2
    <3>2. CASE CopyRest \/ Install
      BY <3>2 DEF CopyRest, Install, BuildInv
    <3> QED
      BY <3>1, <3>2
  <2> QED
    BY <1>1, <2>1, NoneAssumption DEF PreparedIsCurrent
<1>3. /\ tree' \in [Dir -> Tree] /\ \A e \in Dir : e # d => Same(e)
      /\ tree'[d].inputs \in {tree[d].inputs, source.inputs}
      /\ tree'[d].harness \in {tree[d].harness, source.harness}
  <2>1. CASE CopyInputs
    <3> DEFINE t == [tree[d] EXCEPT !.inputs = source.inputs]
    <3>1. t \in Tree /\ t.inputs = source.inputs /\ t.harness = tree[d].harness
      BY <1>1 DEF Tree, Source
    <3> QED
      BY <1>1, <2>1, <3>1, WritesOne DEF CopyInputs
  <2>2. CASE CopyRest
    <3> DEFINE t == [tree[d] EXCEPT !.harness = source.harness, !.rest = source.rest,
                                    !.contract = source.contract]
    <3>1. t \in Tree /\ t.inputs = tree[d].inputs /\ t.harness = source.harness
      BY <1>1 DEF Tree, Source
    <3> QED
      BY <1>1, <2>2, <3>1, WritesOne DEF CopyRest
  <2>3. CASE Install
    <3> DEFINE t == [tree[d] EXCEPT !.whole = TRUE]
    <3>1. t \in Tree /\ t.inputs = tree[d].inputs /\ t.harness = tree[d].harness
      BY <1>1 DEF Tree
    <3> QED
      BY <1>1, <2>3, <3>1, WritesOne DEF Install
  <2> QED
    BY <2>1, <2>2, <2>3
<1>4. \/ At("copy") /\ rpc' = [op |-> "copying", dir |-> d] /\ ~tree'[d].whole
      \/ /\ At("copying") /\ rpc' = [op |-> "install", dir |-> d] /\ ~tree'[d].whole
         /\ tree'[d].contract = source.contract
      \/ /\ At("install") /\ rpc' = [op |-> "measure", dir |-> d] /\ tree'[d].whole
         /\ tree'[d].contract = tree[d].contract
  <2>1. CASE CopyInputs
    <3> DEFINE t == [tree[d] EXCEPT !.inputs = source.inputs]
    <3>1. t \in Tree /\ ~t.whole
      BY <1>1, <1>2 DEF Tree, Source
    <3> QED
      BY <1>1, <2>1, <3>1, WritesOne DEF CopyInputs, At, Proceed, CallInv
  <2>2. CASE CopyRest
    <3> DEFINE t == [tree[d] EXCEPT !.harness = source.harness, !.rest = source.rest,
                                    !.contract = source.contract]
    <3>1. t \in Tree /\ ~t.whole /\ t.contract = source.contract
      BY <1>1, <1>2 DEF Tree, Source
    <3> QED
      BY <1>1, <2>2, <3>1, WritesOne DEF CopyRest, At, Proceed, CallInv
  <2>3. CASE Install
    <3> DEFINE t == [tree[d] EXCEPT !.whole = TRUE]
    <3>1. t \in Tree /\ t.whole /\ t.contract = tree[d].contract
      BY <1>1 DEF Tree
    <3> QED
      BY <1>1, <2>3, <3>1, WritesOne DEF Install, At, Proceed, CallInv
  <2> QED
    BY <2>1, <2>2, <2>3
<1> HIDE DEF d
<1>5. TypeOK'
  BY <1>1, <1>3, <1>4 DEF TypeOK, Source, Tree
<1>6. CallInv' /\ BuildInv'
  BY <1>1, <1>3, <1>4 DEF d, CallInv, BuildInv, At, Creating, Building, Packing
<1>7. PreparedInv' /\ PreparedIsCurrent' /\ ArchiveInv'
  BY <1>1, <1>2, <1>3, <1>4 DEF PreparedInv, PreparedIsCurrent, ArchiveInv, At, Same, TypeOK
<1>8. ReleasedInv' /\ EditInv'
  BY <1>1, <1>3 DEF ReleasedInv, PackagedIsPrepared, ContractIsDigested, EditInv, Same
<1> QED
  BY <1>2, <1>3, <1>5, <1>6, <1>7, <1>8 DEF ReleasedInv

(* What is adopted is whole, and measured as it is.                        *)
LEMMA AdoptIInv ==
  ASSUME IInv, Adopt
  PROVE  IInv'
<1> USE DEF IInv
<1>1. /\ At("measure") /\ rpc' = Idle /\ prepared' = rpc.dir /\ build' = Measure(rpc.dir)
      /\ UNCHANGED <<source, tree, archive, loaded, edits, released>>
  BY DEF Adopt, Ends, disk
<1>2. rpc.dir \in Dir /\ loaded # None /\ loaded \in Declaration /\ tree[rpc.dir] \in Tree
  BY <1>1 DEF At, CallInv, Building, TypeOK, Declaration, Tree
<1>3. /\ build' \in Measured /\ build'.inputs = tree[rpc.dir].inputs
      /\ build'.harness = tree[rpc.dir].harness /\ build'.config = loaded.config
  BY <1>1, <1>2 DEF Measure, Measured, Tree, Declaration
<1>4. TypeOK'
  BY <1>1, <1>2, <1>3 DEF TypeOK, Measured, Idle
<1>5. CallInv' /\ BuildInv' /\ ArchiveInv'
  BY <1>1, <1>2 DEF CallInv, BuildInv, ArchiveInv, At, Idle, Creating, Building, Packing
<1>6. PreparedInv' /\ PreparedIsCurrent'
  <2>1. tree[rpc.dir].whole /\ tree[rpc.dir].contract[1] = loaded.config
    BY <1>1 DEF BuildInv, At
  <2>2. tree[rpc.dir].inputs \in Nat /\ tree[rpc.dir].harness \in Nat
    BY <1>2, Versions DEF Tree
  <2> QED
    BY <1>1, <1>2, <1>3, <2>1, <2>2 DEF PreparedInv, PreparedIsCurrent
<1>7. ReleasedInv' /\ EditInv'
  BY <1>1 DEF ReleasedInv, PackagedIsPrepared, ContractIsDigested, EditInv
<1> QED
  BY <1>4, <1>5, <1>6, <1>7 DEF ReleasedInv

(***************************************************************************)
(* Package                                                                 *)
(***************************************************************************)
(* The archive is of the tree as it is now, and replaces nothing.          *)
LEMMA ArchiveIInv ==
  ASSUME IInv, WriteArchive \/ WriteArchiveFails
  PROVE  /\ IInv' /\ \A d \in Dir : Same(d)
         /\ \A d \in Dir : archive[d] # None => archive'[d] = archive[d]
<1> USE DEF IInv
<1>1. /\ At("archive") /\ rpc.dir \in Dir /\ archive[rpc.dir] = None /\ prepared \in Dir
      /\ UNCHANGED <<source, loaded, prepared, build, edits, released>>
  BY NoneAssumption DEF WriteArchive, WriteArchiveFails, Archives, At, CallInv, Packing, TypeOK, memory
<1>2. /\ tree' \in [Dir -> Tree] /\ \A d \in Dir : Same(d)
  <2>1. tree' = [e \in Dir |-> IF e \in Above(rpc.dir) THEN [tree[e] EXCEPT !.foreign = TRUE] ELSE tree[e]]
    BY DEF WriteArchive, WriteArchiveFails, Archives
  <2>2. ASSUME NEW e \in Dir
        PROVE  /\ tree[e] \in Tree /\ [tree[e] EXCEPT !.foreign = TRUE] \in Tree
    BY DEF TypeOK, Tree
  <2> QED
    BY <2>1, <2>2 DEF Same, Tree
<1>3. \A d \in Dir : archive[d] # None => archive'[d] = archive[d]
  <2>1. PICK content : archive' = [archive EXCEPT ![rpc.dir] = content]
    BY DEF WriteArchive, WriteArchiveFails, Archives
  <2>2. \A d \in Dir : d # rpc.dir => archive'[d] = archive[d]
    BY <2>1 DEF ArchiveInv
  <2> QED
    BY <1>1, <2>2
<1>4. archive' = [d \in Dir |-> archive'[d]]
  BY <1>1 DEF WriteArchive, WriteArchiveFails, Archives, ArchiveInv
<1>5. ReleasedInv' /\ EditInv'
  BY <1>1, <1>2 DEF ReleasedInv, PackagedIsPrepared, ContractIsDigested, EditInv, Same
<1>6. PreparedInv' /\ PreparedIsCurrent'
  BY <1>1, <1>2 DEF PreparedInv, PreparedIsCurrent, Same
<1>7. CASE WriteArchive
  <2>1. /\ rpc' = [op |-> "verify", dir |-> rpc.dir]
        /\ archive'[rpc.dir] = Bytes(prepared)
    BY <1>1, <1>7 DEF WriteArchive, Archives, Proceed, CallInv, ArchiveInv
  <2>2. TypeOK' /\ CallInv' /\ BuildInv'
    BY <1>1, <1>2, <2>1 DEF TypeOK, Tree, CallInv, BuildInv, At, Creating, Building, Packing
  <2>3. /\ Bytes(prepared).inputs = tree'[prepared].inputs
        /\ Bytes(prepared).harness = tree'[prepared].harness
        /\ Bytes(prepared).contract = tree'[prepared].contract
        /\ Bytes(prepared) \in Archived /\ Bytes(prepared).complete
    BY <1>1, <1>2 DEF Bytes, Same, TypeOK, Archived
  <2>4. /\ build \in Measured /\ tree'[prepared] \in Tree
        /\ build.inputs <= tree'[prepared].inputs /\ build.harness <= tree'[prepared].harness
        /\ tree'[prepared].contract[1] = build.config
    BY <1>1, <1>2, NoneAssumption DEF PreparedInv, Same
  <2>5. ArchiveInv'
    <3>1. /\ build.inputs \in Nat /\ build.harness \in Nat
          /\ tree'[prepared].inputs \in Nat /\ tree'[prepared].harness \in Nat
      BY <2>4, Versions DEF Measured, Tree
    <3> QED
      BY <1>1, <1>4, <2>1, <2>3, <2>4, <3>1 DEF ArchiveInv
  <2> QED
    BY <1>2, <1>3, <1>5, <1>6, <2>2, <2>5 DEF ReleasedInv
<1>8. CASE WriteArchiveFails
  <2>1. rpc' = Idle
    BY <1>8 DEF WriteArchiveFails, Ends
  <2>2. TypeOK' /\ CallInv' /\ BuildInv' /\ ArchiveInv'
    BY <1>1, <1>2, <1>4, <2>1
       DEF TypeOK, Tree, CallInv, BuildInv, ArchiveInv, At, Idle, Creating, Building, Packing
  <2> QED
    BY <1>2, <1>3, <1>5, <1>6, <2>2 DEF ReleasedInv
<1> QED
  BY <1>7, <1>8

(* Where the snapshot is still as it was measured, it was so in between,   *)
(* when it was archived.                                                   *)
LEMMA VerifiedMatches ==
  ASSUME IInv, At("verify"), Measure(prepared) = build
  PROVE  LET a == archive[rpc.dir]
         IN  a.inputs = build.inputs /\ a.harness = build.harness /\ a.contract[1] = build.config
<1> DEFINE a == archive[rpc.dir]
<1>1. tree[prepared].inputs = build.inputs /\ tree[prepared].harness = build.harness
  BY DEF Measure
<1>2. prepared # None
  BY DEF IInv, CallInv, Packing, At
<1>3. build.inputs \in Nat /\ build.harness \in Nat
  BY <1>2, Versions DEF IInv, PreparedInv, Measured
<1>4. /\ a.inputs \in build.inputs..tree[prepared].inputs
      /\ a.harness \in build.harness..tree[prepared].harness
      /\ a.contract[1] = build.config
  BY DEF IInv, ArchiveInv
<1> QED
  BY <1>1, <1>3, <1>4

(* A package is released where the snapshot is still as it was measured,   *)
(* and then it was so in between, when it was archived.                    *)
LEMMA VerifyIInv ==
  ASSUME IInv, Verify
  PROVE  IInv'
<1> USE DEF IInv
<1>1. /\ At("verify") /\ rpc.dir \in Dir /\ prepared \in Dir /\ prepared # None
      /\ UNCHANGED <<source, tree, archive, loaded, prepared, build, edits>> /\ rpc' = Idle
  BY NoneAssumption DEF Verify, Ends, At, CallInv, Packing, TypeOK, disk, memory
<1>2. TypeOK' /\ CallInv' /\ BuildInv' /\ EditInv' /\ PreparedInv' /\ PreparedIsCurrent' /\ ArchiveInv'
  BY <1>1 DEF TypeOK, CallInv, BuildInv, EditInv, PreparedInv, PreparedIsCurrent, ArchiveInv, At, Idle,
     Creating, Building, Packing
<1>3. ASSUME released' = released
      PROVE  ReleasedInv'
  BY <1>3 DEF ReleasedInv, PackagedIsPrepared, ContractIsDigested
<1>4. ASSUME Measure(prepared) = build,
             released' = released \cup {[build |-> build, bytes |-> archive[rpc.dir]]}
      PROVE  ReleasedInv'
  BY <1>1, <1>4, VerifiedMatches DEF ReleasedInv, PackagedIsPrepared, ContractIsDigested
<1>5. ReleasedInv'
  BY <1>3, <1>4 DEF Verify
<1> QED
  BY <1>2, <1>5 DEF ReleasedInv

(***************************************************************************)
(* Everybody else                                                          *)
(***************************************************************************)
(* A change gives a version that was not there before, and touches neither *)
(* a contract nor whether a tree is whole.                                 *)
LEMMA EditIInv ==
  ASSUME IInv, Edit
  PROVE  IInv'
<1> USE DEF IInv
<1>1. /\ edits' = edits + 1 /\ edits' \in Version /\ edits \in Nat
      /\ UNCHANGED <<archive, loaded, prepared, build, rpc, released>>
  BY MaxEditsAssumption DEF Edit, memory, TypeOK, Version
<1>2. ASSUME NEW d \in Dir
      PROVE  /\ tree[d] \in Tree /\ tree[d].inputs \in Nat /\ tree[d].harness \in Nat
             /\ tree[d].inputs <= edits /\ tree[d].harness <= edits
  BY Versions DEF TypeOK, Tree, EditInv
<1>3. /\ source \in Source /\ source.inputs \in Nat /\ source.harness \in Nat
      /\ source.inputs <= edits /\ source.harness <= edits
  BY Versions DEF TypeOK, Source, EditInv
<1>4. /\ tree' \in [Dir -> Tree]
      /\ \A d \in Dir : /\ tree'[d].whole = tree[d].whole /\ tree'[d].contract = tree[d].contract
                        /\ tree'[d].inputs \in {tree[d].inputs, edits'}
                        /\ tree'[d].harness \in {tree[d].harness, edits'}
  <2>1. CASE UNCHANGED tree
    BY <2>1 DEF TypeOK, Tree
  <2>2. CASE \E d \in Dir, file \in {"inputs", "harness", "rest"} :
               tree' = [tree EXCEPT ![d][file] = edits']
    <3> PICK d \in Dir, file \in {"inputs", "harness", "rest"} :
               tree' = [tree EXCEPT ![d][file] = edits']
      BY <2>2
    <3> DEFINE t == [tree[d] EXCEPT ![file] = edits']
    <3>1. /\ t \in Tree /\ t.whole = tree[d].whole /\ t.contract = tree[d].contract
          /\ t.inputs \in {tree[d].inputs, edits'} /\ t.harness \in {tree[d].harness, edits'}
      BY <1>1, <1>2 DEF Tree
    <3>2. tree' = [tree EXCEPT ![d] = t]
      OBVIOUS
    <3>3. tree \in [Dir -> Tree]
      BY DEF TypeOK, Tree
    <3> HIDE DEF t
    <3> QED
      BY <3>1, <3>2, <3>3
  <2> QED
    BY <2>1, <2>2 DEF Edit
<1>5. /\ source' \in Source /\ source'.contract = source.contract
      /\ source'.harness = source.harness /\ source'.inputs \in {source.inputs, edits'}
  <2>1. CASE UNCHANGED source
    BY <1>3, <2>1
  <2>2. CASE \E file \in {"config", "shape", "inputs", "rest"} :
               source' = [source EXCEPT ![file] = edits']
    BY <1>1, <1>3, <2>2 DEF Source
  <2> QED
    BY <2>1, <2>2 DEF Edit
<1>6. TypeOK'
  BY <1>1, <1>4, <1>5 DEF TypeOK, Tree, Source
<1>7. CallInv' /\ BuildInv' /\ PreparedIsCurrent'
  BY <1>1, <1>4, <1>5, NoneAssumption
     DEF CallInv, BuildInv, PreparedIsCurrent, At, TypeOK, Building, Packing
<1>8. EditInv'
  BY <1>1, <1>2, <1>3, <1>4, <1>5 DEF EditInv, Template
<1>9. PreparedInv' /\ ArchiveInv'
  <2>1. CASE prepared = None
    BY <1>1, <2>1 DEF PreparedInv, ArchiveInv, CallInv, At, Packing
  <2>2. CASE prepared # None
    <3>1. prepared \in Dir /\ build \in Measured /\ build.inputs \in Nat /\ build.harness \in Nat
      BY <2>2, Versions DEF TypeOK, PreparedInv, Measured
    <3>2. /\ tree[prepared].inputs <= tree'[prepared].inputs
          /\ tree[prepared].harness <= tree'[prepared].harness
          /\ tree[prepared].inputs \in Nat /\ tree'[prepared].inputs \in Nat
          /\ tree[prepared].harness \in Nat /\ tree'[prepared].harness \in Nat
          /\ tree'[prepared].contract = tree[prepared].contract
      BY <1>1, <1>2, <1>4, <3>1
    <3>3. PreparedInv'
      BY <1>1, <3>1, <3>2 DEF PreparedInv
    <3>4. ArchiveInv'
      BY <1>1, <3>1, <3>2 DEF ArchiveInv, At
    <3> QED
      BY <3>3, <3>4
  <2> QED
    BY <2>1, <2>2
<1>10. ReleasedInv'
  BY <1>1 DEF ReleasedInv, PackagedIsPrepared, ContractIsDigested
<1> QED
  BY <1>6, <1>7, <1>8, <1>9, <1>10 DEF ReleasedInv

(***************************************************************************)
(* The inductive invariant holds                                           *)
(***************************************************************************)
(* Nothing was loaded, nothing is on the disk but the source.              *)
LEMMA InitIInv == Init => IInv
<1> SUFFICES ASSUME Init PROVE IInv
  OBVIOUS
<1>1. NoTree \in Tree /\ 0 \in Version /\ Template \in Version /\ NoContract \in Version \X Version
  BY Versions DEF NoTree, NoContract, Tree
<1>2. TypeOK
  BY <1>1 DEF Init, TypeOK, Tree, Idle
<1>3. CallInv /\ BuildInv /\ PreparedInv /\ PreparedIsCurrent /\ ArchiveInv
  BY DEF Init, CallInv, BuildInv, PreparedInv, PreparedIsCurrent, ArchiveInv, At, Idle,
     Creating, Building, Packing
<1>4. EditInv /\ ReleasedInv
  BY DEF Init, EditInv, ReleasedInv, PackagedIsPrepared, ContractIsDigested, NoTree, Template
<1> QED
  BY <1>2, <1>3, <1>4 DEF IInv, ReleasedInv

(* No step of the agent, its process or anybody else breaks it.            *)
LEMMA StepIInv ==
  ASSUME IInv, [Next]_vars
  PROVE  IInv'
<1>1. CASE StepFails \/ Restart
  BY <1>1, EndIInv DEF StepFails, Restart
<1>2. CASE UNCHANGED vars
  BY <1>2 DEF vars, disk, memory, IInv, TypeOK, CallInv, BuildInv, EditInv, PreparedInv, PreparedIsCurrent,
              ArchiveInv, At, PackagedIsPrepared, ContractIsDigested
<1>3. CASE Next /\ ~(StepFails \/ Restart)
  BY <1>3, BeginIInv, CheckIInv, CreateIInv, GenerateIInv, LockIInv, CopyIInv, AdoptIInv,
     ArchiveIInv, VerifyIInv, EditIInv DEF Next
<1> QED
  BY <1>1, <1>2, <1>3

(* IInv holds in every reachable state, for any directories and changes.   *)
THEOREM Invariance == Spec => []IInv
BY InitIInv, StepIInv, PTL DEF Spec

(***************************************************************************)
(* What follows                                                            *)
(***************************************************************************)
(* Every variable stays in range.                                          *)
THEOREM TypeCorrect == Spec => []TypeOK
<1>1. IInv => TypeOK
  BY DEF IInv
<1> QED
  BY <1>1, Invariance, PTL

(* A Package that succeeds archived the bytes that were measured.          *)
THEOREM PackagesThePrepared == Spec => []PackagedIsPrepared
<1>1. IInv => PackagedIsPrepared
  BY DEF IInv
<1> QED
  BY <1>1, Invariance, PTL

(* The contract in it has the configuration its build was digested with.   *)
THEOREM DigestsTheContract == Spec => []ContractIsDigested
<1>1. IInv => ContractIsDigested
  BY DEF IInv
<1> QED
  BY <1>1, Invariance, PTL

(* A prepared tree is whole and belongs to the loaded declaration.         *)
THEOREM PreparesTheCurrent == Spec => []PreparedIsCurrent
<1>1. IInv => PreparedIsCurrent
  BY DEF IInv
<1> QED
  BY <1>1, Invariance, PTL

(* No call overwrites an archive or builds into a whole tree: each step    *)
(* that writes one found none there.                                       *)
THEOREM OverwritesNothing == Spec => NothingIsOverwritten
<1> DEFINE Kept(d) == /\ archive[d] # None => archive'[d] = archive[d]
                      /\ tree[d].whole /\ edits' = edits => Files(tree'[d]) = Files(tree[d])
<1>1. ASSUME IInv, [Next]_vars, NEW d \in Dir
      PROVE  Kept(d)
  <2>1. CASE CopyInputs \/ CopyRest \/ Install
    <3>1. archive' = archive
      BY <2>1 DEF CopyInputs, CopyRest, Install
    <3> QED
      BY <1>1, <2>1, <3>1, CopyIInv DEF Same, Files
  <2>2. CASE WriteArchive \/ WriteArchiveFails
    BY <1>1, <2>2, ArchiveIInv DEF Same, Files
  <2>3. CASE Edit
    BY <1>1, <2>3 DEF Edit, IInv, TypeOK, Version
  <2>4. CASE UNCHANGED <<tree, archive>>
    BY <2>4
  <2> QED
    BY <1>1, <2>1, <2>2, <2>3, <2>4
       DEF Next, vars, disk, Load, Create, Scaffold, Save, Generate, GenerateFails, BuildInputs,
           Package, Lock, Adopt, Check, Verify, StepFails, Restart
<1>2. IInv /\ [Next]_vars => [\A d \in Dir : Kept(d)]_vars
  BY <1>1
<1> QED
  BY <1>2, Invariance, PTL DEF Spec, NothingIsOverwritten

(* Where no output directory is inside another, a snapshot stays its own:  *)
(* nesting them is all that the run which refutes SnapshotIsItsOwn needs.  *)
THEOREM ApartEachIsItsOwn ==
  ASSUME Under = {}
  PROVE  Spec => []SnapshotIsItsOwn
<1> DEFINE NoneForeign == \A d \in Dir : ~tree[d].foreign
<1>1. Init => NoneForeign
  BY DEF Init, NoTree
<1>2. ASSUME IInv, NoneForeign, [Next]_vars
      PROVE  NoneForeign'
  <2>0. \A d \in Dir : Above(d) = {}
    BY DEF Above
  <2>5. /\ \A d \in Dir : tree[d] \in Tree
        /\ tree = [d \in Dir |-> tree[d]] /\ source \in Source
    BY <1>2 DEF IInv, TypeOK, Tree, Source
  <2>1. CASE CopyInputs \/ CopyRest \/ Install
    <3> DEFINE u == tree[rpc.dir]
    <3>1. rpc.dir \in Dir /\ u \in Tree
      BY <1>2, <2>1, <2>5 DEF CopyInputs, CopyRest, Install, At, IInv, CallInv, Building
    <3>2. \E t \in {[u EXCEPT !.inputs = source.inputs],
                    [u EXCEPT !.harness = source.harness, !.rest = source.rest,
                              !.contract = source.contract],
                    [u EXCEPT !.whole = TRUE]} : Writes(rpc.dir, t)
      BY <2>1 DEF CopyInputs, CopyRest, Install
    <3>3. PICK t \in {[u EXCEPT !.inputs = source.inputs],
                     [u EXCEPT !.harness = source.harness, !.rest = source.rest,
                               !.contract = source.contract],
                     [u EXCEPT !.whole = TRUE]} : Writes(rpc.dir, t)
      BY <3>2
    <3>4. t.foreign = u.foreign
      BY <3>1, <3>3 DEF Tree
    <3>5. \A e \in Dir : tree'[e] = IF e = rpc.dir THEN t ELSE tree[e]
      BY <2>0, <3>1, <3>3 DEF Writes
    <3> QED
      BY <1>2, <3>1, <3>4, <3>5
  <2>2. CASE WriteArchive \/ WriteArchiveFails
    <3>1. rpc.dir \in Dir
      BY <1>2, <2>2 DEF WriteArchive, WriteArchiveFails, At, IInv, CallInv, Packing
    <3>2. tree' = [e \in Dir |-> IF e \in Above(rpc.dir) THEN [tree[e] EXCEPT !.foreign = TRUE] ELSE tree[e]]
      BY <2>2 DEF WriteArchive, WriteArchiveFails, Archives
    <3>3. tree' = tree
      BY <2>0, <2>5, <3>1, <3>2
    <3> QED
      BY <1>2, <3>3
  <2>3. CASE Edit
    <3>1. CASE UNCHANGED tree
      BY <1>2, <3>1
    <3>2. CASE \E d \in Dir, file \in {"inputs", "harness", "rest"} :
                 tree' = [tree EXCEPT ![d][file] = edits']
      <4> PICK d \in Dir, file \in {"inputs", "harness", "rest"} :
                 tree' = [tree EXCEPT ![d][file] = edits']
        BY <3>2
      <4> DEFINE t == [tree[d] EXCEPT ![file] = edits']
      <4>1. t.foreign = tree[d].foreign
        BY <2>5 DEF Tree
      <4>2. tree' = [tree EXCEPT ![d] = t]
        OBVIOUS
      <4> HIDE DEF t
      <4> QED
        BY <1>2, <2>5, <4>1, <4>2
    <3> QED
      BY <2>3, <3>1, <3>2 DEF Edit
  <2>4. CASE UNCHANGED tree
    BY <1>2, <2>4
  <2> QED
    BY <1>2, <2>1, <2>2, <2>3, <2>4
       DEF Next, vars, disk, Load, Create, Scaffold, Save, Generate, GenerateFails, BuildInputs,
           Package, Lock, Adopt, Check, Verify, StepFails, Restart
<1>3. IInv /\ NoneForeign => SnapshotIsItsOwn
  BY NoneAssumption DEF IInv, TypeOK, SnapshotIsItsOwn
<1> QED
  BY <1>1, <1>2, <1>3, Invariance, PTL DEF Spec

(***************************************************************************)
(* It implements what Release promises                                     *)
(***************************************************************************)
(* What a call does to the source and to the trees, and where it is, do    *)
(* not show.                                                               *)
LEMMA Unseen ==
  ASSUME UNCHANGED <<archive, prepared, build, released>>
  PROVE  UNCHANGED Promise!vars
BY DEF Promise!vars

(* Load and the end of the process forget; a build that came through       *)
(* prepares.                                                               *)
LEMMA SnapshotImplements ==
  ASSUME IInv, Load \/ Restart \/ Adopt
  PROVE  Promise!Next
<1>1. UNCHANGED <<archive, released>>
  BY DEF Load, Restart, Adopt, disk
<1>2. CASE Load \/ Restart
  <2>1. prepared' = None
    BY <1>2 DEF Load, Restart
  <2>2. Promise!Forget
    BY <1>1, <2>1 DEF Promise!Forget
  <2> QED
    BY <2>2 DEF Promise!Next
<1>3. CASE Adopt
  <2>1. IInv' /\ prepared' = rpc.dir /\ rpc.dir \in Dir
    BY <1>3, AdoptIInv DEF Adopt, At, IInv, CallInv, Building
  <2>2. prepared' # None /\ build' \in Measured
    BY <2>1, NoneAssumption DEF IInv, PreparedInv
  <2>3. Promise!Prepare
    BY <1>1, <2>2 DEF Promise!Prepare, Measured
  <2> QED
    BY <2>3 DEF Promise!Next
<1> QED
  BY <1>2, <1>3

(* An archive is written where there was none, finished or not.            *)
LEMMA ArchiveImplements ==
  ASSUME IInv, WriteArchive \/ WriteArchiveFails
  PROVE  Promise!Next
<1>1. /\ rpc.dir \in Dir /\ archive[rpc.dir] = None /\ prepared \in Dir /\ prepared # None
      /\ UNCHANGED <<prepared, build, released>>
  BY NoneAssumption
     DEF IInv, CallInv, Packing, TypeOK, At, WriteArchive, WriteArchiveFails, Archives, memory
<1>2. Bytes(prepared) \in Archived /\ [Bytes(prepared) EXCEPT !.complete = FALSE] \in Archived
  BY <1>1 DEF IInv, TypeOK, Bytes, Archived
<1>3. PICK content \in Archived : archive' = [archive EXCEPT ![rpc.dir] = content]
  BY <1>2 DEF WriteArchive, WriteArchiveFails, Archives
<1>4. /\ archive'[rpc.dir] \in Archived
      /\ \A other \in Dir \ {rpc.dir} : archive'[other] = archive[other]
  BY <1>1, <1>3 DEF IInv, ArchiveInv
<1>5. Promise!Write(rpc.dir)
  BY <1>1, <1>4 DEF Promise!Write, Archived
<1> QED
  BY <1>1, <1>5 DEF Promise!Next

(* Package answers with a finished archive of the measured snapshot, or    *)
(* with an error.                                                          *)
LEMMA VerifyImplements ==
  ASSUME IInv, Verify
  PROVE  [Promise!Next]_(Promise!vars)
<1>1. /\ At("verify") /\ rpc.dir \in Dir /\ prepared # None
      /\ UNCHANGED <<archive, prepared, build>>
  BY DEF IInv, CallInv, Packing, At, Verify, disk, memory
<1>2. CASE Measure(prepared) = build
  <2> DEFINE a == archive[rpc.dir]
  <2>1. a \in Archived /\ a.complete
    BY <1>1 DEF IInv, ArchiveInv
  <2>2. a.inputs = build.inputs /\ a.harness = build.harness /\ a.contract[1] = build.config
    BY <1>1, <1>2, VerifiedMatches
  <2>3. released' = released \cup {[build |-> build, bytes |-> a]}
    BY <1>2 DEF Verify
  <2>4. Promise!Matches(a, build)
    BY <2>1, <2>2 DEF Promise!Matches, Archived
  <2>5. Promise!Answer(rpc.dir)
    BY <1>1, <2>3, <2>4 DEF Promise!Answer
  <2> QED
    BY <1>1, <2>5 DEF Promise!Next
<1>3. CASE Measure(prepared) # build
  BY <1>1, <1>3, Unseen DEF Verify
<1> QED
  BY <1>2, <1>3

(* Whoever releases with the agent sees an archive only of a prepared      *)
(* snapshot, where there was none, and an answer only for a finished one   *)
(* of what was measured: whatever fails, restarts or is edited.            *)
THEOREM Refinement == Spec => ImplementsRelease
<1>1. Init => Promise!Init
  BY DEF Init, Promise!Init
<1>2. IInv /\ [Next]_vars => [Promise!Next]_(Promise!vars)
  <2> SUFFICES ASSUME IInv, [Next]_vars PROVE [Promise!Next]_(Promise!vars)
    OBVIOUS
  <2>1. CASE Load \/ Restart \/ Adopt
    BY <2>1, SnapshotImplements
  <2>2. CASE WriteArchive \/ WriteArchiveFails
    BY <2>2, ArchiveImplements
  <2>3. CASE Verify
    BY <2>3, VerifyImplements
  <2>4. CASE UNCHANGED <<archive, prepared, build, released>>
    BY <2>4, Unseen
  <2> QED
    BY <2>1, <2>2, <2>3, <2>4
       DEF Next, vars, disk, memory, Create, Scaffold, Save, Generate, GenerateFails, BuildInputs,
           Package, Lock, CopyInputs, CopyRest, Install, Check, StepFails, Edit
<1> QED
  BY <1>1, <1>2, Invariance, PTL DEF Spec, Promise!Spec, ImplementsRelease
=============================================================================
