------------------------------ MODULE Builder ------------------------------
(***************************************************************************)
(* The builder agent: pkg/agent's Load, Create, RunnableBuildInputs and    *)
(* Package, with what they make of the disk through pkg/generate,          *)
(* pkg/prepare and pkg/pack.  One mutex runs one call at a time, but a     *)
(* call is many steps on a disk that authors and others change under it,   *)
(* any step can fail and leave behind what it did, and the agent's process *)
(* can end between any two of them.                                        *)
(*                                                                         *)
(* Contents are version numbers.  A file's bytes matter only by whether    *)
(* they changed, and every change gives bytes that were not there before.  *)
(* The files of a Runnable are its declared inputs and handler (inputs),   *)
(* the harness's sources, the contract generated from the declaration, and *)
(* all the others (rest).  The declaration is its configuration, which     *)
(* ConfigurationDigest covers, and its shape, everything else it says.     *)
(***************************************************************************)
EXTENDS Naturals, FiniteSets

CONSTANTS
  Dir,       \* output directories, all of them apart from the source
  Under,     \* pairs of them: the first is inside the second
  None,
  MaxEdits   \* changes made by others: a bound on the model

ASSUME UnderAssumption == Under \subseteq Dir \X Dir
ASSUME NoneAssumption == None \notin Dir
ASSUME MaxEditsAssumption == MaxEdits \in Nat \ {0}   \* the first is Template's

VARIABLES
  source,    \* the Runnable's directory: declaration and files
  tree,      \* each output directory as a prepared tree
  archive,   \* the archive file in each output directory
  loaded,    \* Builder.runnable: the declaration Load read
  prepared,  \* Builder.prepared: the directory of the prepared tree
  build,     \* Builder.build: what was measured of it
  rpc,       \* the call that holds the mutex, and how far it is
  edits,     \* the last version anybody wrote
  released   \* every Package that succeeded (history)

memory == <<loaded, prepared, build>>
disk == <<source, tree, archive>>
vars == <<disk, memory, rpc, edits, released>>

(* What a handler scaffolded by Create says; 0 is a file that is not there.*)
Template == 1

NoContract == <<0, 0>>
NoTree == [inputs |-> 0, harness |-> 0, contract |-> NoContract, rest |-> 0,
           whole |-> FALSE, foreign |-> FALSE]
Idle == [op |-> "none", dir |-> None]
At(op) == rpc.op = op
Ends == rpc' = Idle
Proceed(op) == rpc' = [rpc EXCEPT !.op = op]

(* A definition may be preceded by a variant with one plausible mistake;   *)
(* no specification uses the variant.                                      *)
(* pack.Build measures the handler, the declared inputs and the harness's  *)
(* sources in the snapshot, and the configuration of the declaration.      *)
Measure(d) == [inputs |-> tree[d].inputs, harness |-> tree[d].harness, config |-> loaded.config]

Above(d) == {e \in Dir : <<d, e>> \in Under}
Empty(d) ==
  \A e \in Dir : e = d \/ <<e, d>> \in Under => tree[e] = NoTree /\ archive[e] = None

Init ==
  /\ source = [config |-> Template, shape |-> Template, locks |-> FALSE,
               inputs |-> 0, harness |-> 0, contract |-> NoContract, rest |-> 0]
  /\ tree = [d \in Dir |-> NoTree]
  /\ archive = [d \in Dir |-> None]
  /\ loaded = None /\ prepared = None /\ build = None
  /\ rpc = Idle
  /\ edits = Template
  /\ released = {}

(***************************************************************************)
(* Load and Create                                                         *)
(***************************************************************************)
Declared == [config |-> source.config, shape |-> source.shape, locks |-> source.locks]

LoadKeepingSnapshot ==
  /\ rpc = Idle
  /\ loaded' \in {None, Declared}
  /\ UNCHANGED <<disk, prepared, build, rpc, edits, released>>

(* Everything is forgotten first; a refused location stays unloaded.       *)
Load ==
  /\ rpc = Idle
  /\ loaded' \in {None, Declared}
  /\ prepared' = None /\ build' = None
  /\ UNCHANGED <<disk, rpc, edits, released>>

Create ==
  /\ rpc = Idle /\ loaded # None /\ prepared = None
  /\ Proceed("scaffold")
  /\ UNCHANGED <<disk, memory, edits, released>>

(* Files that are there are the author's; the lock inputs are declared in  *)
(* memory, before anything says so on disk.                                *)
Scaffold ==
  /\ At("scaffold")
  /\ source' = [source EXCEPT !.inputs = IF @ = 0 THEN Template ELSE @]
  /\ loaded' = [loaded EXCEPT !.locks = TRUE]
  /\ Proceed("save")
  /\ UNCHANGED <<tree, archive, prepared, build, edits, released>>

(* The declaration in memory replaces the one on disk, edited or not.      *)
Save ==
  /\ At("save")
  /\ source' = [source EXCEPT !.config = loaded.config, !.shape = loaded.shape,
                            !.locks = loaded.locks]
  /\ Proceed("generate")
  /\ UNCHANGED <<tree, archive, memory, edits, released>>

(* GenerateForRelease, of Create and of RunnableBuildInputs: the generated *)
(* directory is removed, then written from the loaded declaration.         *)
Generate ==
  /\ rpc.op \in {"generate", "regenerate"}
  /\ source' = [source EXCEPT !.harness = Template, !.contract = <<loaded.config, loaded.shape>>]
  /\ IF At("generate") THEN Ends ELSE Proceed("lock")
  /\ UNCHANGED <<tree, archive, memory, edits, released>>

GenerateFails ==
  /\ rpc.op \in {"generate", "regenerate"}
  /\ source' = [source EXCEPT !.harness = 0, !.contract = NoContract]
  /\ Ends
  /\ UNCHANGED <<tree, archive, memory, edits, released>>

(***************************************************************************)
(* RunnableBuildInputs                                                     *)
(***************************************************************************)
BuildInputsUngenerated(d) ==
  /\ rpc = Idle /\ loaded # None /\ loaded.locks
  /\ Empty(d)
  /\ rpc' = [op |-> IF source.harness # 0 THEN "lock" ELSE "regenerate", dir |-> d]
  /\ UNCHANGED <<disk, memory, edits, released>>

(* An empty directory, outside the source, into which nothing was built.   *)
BuildInputs(d) ==
  /\ rpc = Idle /\ loaded # None /\ loaded.locks
  /\ Empty(d)
  /\ rpc' = [op |-> "regenerate", dir |-> d]
  /\ UNCHANGED <<disk, memory, edits, released>>

(* Whatever is written to d is now inside every directory above it.        *)
Writes(d, t) ==
  tree' = [e \in Dir |-> IF e = d THEN t
                         ELSE IF e \in Above(d) THEN [tree[e] EXCEPT !.foreign = TRUE]
                         ELSE tree[e]]

(* uv lock rewrites the lock file of the source when the project has moved.*)
Lock ==
  /\ At("lock")
  /\ \/ UNCHANGED <<source, edits>>
     \/ /\ edits < MaxEdits
        /\ edits' = edits + 1
        /\ source' = [source EXCEPT !.inputs = edits']
  /\ Proceed("copy")
  /\ UNCHANGED <<tree, archive, memory, released>>

(* copyTree, after a second look at the destination: not one moment's      *)
(* source, but each file's own.                                            *)
CopyInputs ==
  /\ At("copy") /\ Empty(rpc.dir)
  /\ Writes(rpc.dir, [tree[rpc.dir] EXCEPT !.inputs = source.inputs])
  /\ Proceed("copying")
  /\ UNCHANGED <<source, archive, memory, edits, released>>

CopyRest ==
  /\ At("copying")
  /\ Writes(rpc.dir, [tree[rpc.dir] EXCEPT !.harness = source.harness, !.rest = source.rest,
                                          !.contract = source.contract])
  /\ Proceed("install")
  /\ UNCHANGED <<source, archive, memory, edits, released>>

(* The interpreter, the packages and the entry point are in place.         *)
Install ==
  /\ At("install")
  /\ Writes(rpc.dir, [tree[rpc.dir] EXCEPT !.whole = TRUE])
  /\ Proceed("measure")
  /\ UNCHANGED <<source, archive, memory, edits, released>>

(* Only now, with a complete replacement in hand.                          *)
Adopt ==
  /\ At("measure")
  /\ tree[rpc.dir].inputs # 0
  /\ prepared' = rpc.dir /\ build' = Measure(rpc.dir)
  /\ Ends
  /\ UNCHANGED <<disk, loaded, edits, released>>

(***************************************************************************)
(* Package                                                                 *)
(***************************************************************************)
Apart(d, e) == d # e /\ <<d, e>> \notin Under /\ <<e, d>> \notin Under

PackageOver(d) ==
  /\ rpc = Idle /\ prepared # None
  /\ Apart(d, prepared)
  /\ rpc' = [op |-> "check", dir |-> d]
  /\ UNCHANGED <<disk, memory, edits, released>>

(* Outside the source and the prepared tree, and nothing there to replace. *)
Package(d) ==
  /\ rpc = Idle /\ prepared # None
  /\ Apart(d, prepared)
  /\ archive[d] = None
  /\ rpc' = [op |-> "check", dir |-> d]
  /\ UNCHANGED <<disk, memory, edits, released>>

Check ==
  /\ At("check")
  /\ IF Measure(prepared) = build THEN Proceed("archive") ELSE Ends
  /\ UNCHANGED <<disk, memory, edits, released>>

(* writeArchive: the whole tree, or, failing, what it wrote so far.        *)
Bytes(d) == [inputs |-> tree[d].inputs, harness |-> tree[d].harness,
             contract |-> tree[d].contract, rest |-> tree[d].rest,
             foreign |-> tree[d].foreign, complete |-> TRUE]

Archives(d, content) ==
  /\ archive' = [archive EXCEPT ![d] = content]
  /\ tree' = [e \in Dir |-> IF e \in Above(d) THEN [tree[e] EXCEPT !.foreign = TRUE] ELSE tree[e]]
  /\ UNCHANGED <<source, memory, edits, released>>

WriteArchive ==
  /\ At("archive")
  /\ Archives(rpc.dir, Bytes(prepared))
  /\ Proceed("verify")

WriteArchiveFailsUnnoticed ==
  /\ At("archive")
  /\ Archives(rpc.dir, [Bytes(prepared) EXCEPT !.complete = FALSE])
  /\ Proceed("verify")

WriteArchiveFails ==
  /\ At("archive")
  /\ Archives(rpc.dir, [Bytes(prepared) EXCEPT !.complete = FALSE])
  /\ Ends

VerifyNothing ==
  /\ At("verify")
  /\ released' = released \cup {[build |-> build, bytes |-> archive[rpc.dir]]}
  /\ Ends
  /\ UNCHANGED <<disk, memory, edits>>

(* pack.Native measures the snapshot once more after archiving it.         *)
Verify ==
  /\ At("verify")
  /\ released' = released \cup
       (IF Measure(prepared) = build THEN {[build |-> build, bytes |-> archive[rpc.dir]]} ELSE {})
  /\ Ends
  /\ UNCHANGED <<disk, memory, edits>>

(***************************************************************************)
(* Failures, the agent's process, and everybody else                       *)
(***************************************************************************)
(* A step that failed before it changed anything ends the call.            *)
StepFails ==
  /\ rpc.op \in {"scaffold", "save", "generate", "regenerate", "lock", "copy", "copying",
                "install", "measure", "check", "verify"}
  /\ Ends
  /\ UNCHANGED <<disk, memory, edits, released>>

Restart ==
  /\ loaded' = None /\ prepared' = None /\ build' = None
  /\ Ends
  /\ UNCHANGED <<disk, edits, released>>

(* Anybody but the agent, at any moment, in the source or in a snapshot.   *)
(* Generated files of the source are left alone, as their headers ask.     *)
Edit ==
  /\ edits < MaxEdits
  /\ edits' = edits + 1
  /\ \/ \E file \in {"config", "shape", "inputs", "rest"} :
          source' = [source EXCEPT ![file] = edits'] /\ UNCHANGED tree
     \/ \E d \in Dir, file \in {"inputs", "harness", "rest"} :
          /\ tree[d][file] # 0
          /\ tree' = [tree EXCEPT ![d][file] = edits']
          /\ UNCHANGED source
  /\ UNCHANGED <<archive, memory, rpc, released>>

Next ==
  \/ Load \/ Create \/ Scaffold \/ Save \/ Generate \/ GenerateFails
  \/ \E d \in Dir : BuildInputs(d) \/ Package(d)
  \/ Lock \/ CopyInputs \/ CopyRest \/ Install \/ Adopt
  \/ Check \/ WriteArchive \/ WriteArchiveFails \/ Verify
  \/ StepFails \/ Restart \/ Edit

Spec == Init /\ [][Next]_vars

(***************************************************************************)
(* Properties                                                              *)
(***************************************************************************)
Version == 0..MaxEdits

(* Every variable stays in range.                                          *)
TypeOK ==
  /\ source \in [config : Version, shape : Version, locks : BOOLEAN, inputs : Version,
                 harness : Version, contract : Version \X Version, rest : Version]
  /\ tree \in [Dir -> [inputs : Version, harness : Version, contract : Version \X Version,
                       rest : Version, whole : BOOLEAN, foreign : BOOLEAN]]
  /\ loaded = None \/ loaded \in [config : Version, shape : Version, locks : BOOLEAN]
  /\ prepared \in Dir \cup {None}
  /\ build = None \/ build \in [inputs : Version, harness : Version, config : Version]
  /\ rpc.dir \in Dir \cup {None}
  /\ edits \in Version

(* A Package that succeeds archived exactly the measured bytes that        *)
(* RunnableBuildInputs reported, whoever changed the snapshot, whenever.   *)
PackagedIsPrepared ==
  \A r \in released : r.bytes.inputs = r.build.inputs /\ r.bytes.harness = r.build.harness

(* The contract a package is served under says the configuration its build *)
(* was digested with, whoever edits the declaration while it is built.     *)
ContractIsDigested ==
  \A r \in released : r.bytes.contract[1] = r.build.config

(* A prepared tree is a whole one and belongs to the declaration that is   *)
(* loaded: neither a failed build nor another Load leaves one to package.  *)
PreparedIsCurrent ==
  prepared # None => tree[prepared].whole /\ loaded # None /\ build.config = loaded.config

(* All in all, the steps of a call, their failures, restarts and edits show *)
(* whoever releases nothing but what Release allows.                       *)
Promise == INSTANCE Release WITH
  Archive  <- [inputs : Version, harness : Version, contract : Version \X Version,
               rest : Version, foreign : BOOLEAN, complete : BOOLEAN],
  Evidence <- [inputs : Version, harness : Version, config : Version],
  current  <- IF prepared = None THEN {} ELSE {build},
  store    <- archive,
  answered <- released

ImplementsRelease == Promise!Spec

(* No call of the agent overwrites an archive, finished or not, or builds  *)
(* into a tree that is there already, prepared by this process or before.  *)
Files(t) == <<t.inputs, t.harness, t.contract, t.rest, t.whole>>
NothingIsOverwritten ==
  [][\A d \in Dir :
       /\ archive[d] # None => archive'[d] = archive[d]
       /\ tree[d].whole /\ edits' = edits => Files(tree'[d]) = Files(tree[d])]_vars

(* RunnableBuildInputs: "A failed call leaves the previous snapshot        *)
(* loaded: it still describes a whole tree on disk".                       *)
SnapshotIsItsOwn == rpc = Idle /\ prepared # None => ~tree[prepared].foreign
=============================================================================
