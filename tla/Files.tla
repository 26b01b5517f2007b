------------------------------- MODULE Files -------------------------------
(***************************************************************************)
(* What one Runnable's way from its declaration to a package makes of the  *)
(* disk: Scaffold and GenerateForRelease, Prepare with its copies of the   *)
(* source and of the interpreter, the archive and the image's context.     *)
(* Each step is one call's work; what others do between its steps is in    *)
(* Builder.  Here it is where the bytes go, over links that authors and    *)
(* interpreters have in their trees.                                       *)
(***************************************************************************)
EXTENDS Paths

CONSTANTS
  Disks,     \* disks to begin with
  Dirs,      \* spellings of the Runnable's directory
  Handlers,  \* entrypoints as declared, relative to it
  Outputs    \* spellings of output directories

(* Names, as the source has them.                                          *)
GeneratedDirectory == ".codefly"
ProjectFile == "pyproject.toml"
TypesFile == "codefly_types.py"
LockFile == "uv.lock"
SourceDirectory == "runnable"
Environment == ".venv"
InterpreterDirectory == ".python"
PackagesDirectory == ".packages"
Bytecode == "__pycache__"
HarnessPackage == "codefly_runnable"
PythonFiles == {"h.py", "runner.py"}  \* names that end in .py

(* The managed interpreter: its prefix, and the executable uv finds in it  *)
(* with its links followed, which may be elsewhere.                        *)
RuntimePrefix == <<"uv", "cpython">>
Installed == RuntimePrefix \o <<"bin", "python3.12">>
Executable(d) == Place(d, Installed)

VARIABLES
  disk,
  dir,       \* the Runnable's directory, as spelled
  handler,   \* its declared entrypoint
  step,      \* the last step done; "refused" when one was not
  output,    \* the output directory of the last step
  tree,      \* the prepared tree
  build,     \* what pack.Build measured of it: declared paths and bytes
  archive    \* the entries archived, by their paths relative to the tree

vars == <<disk, dir, handler, step, output, tree, build, archive>>

Source == Place(disk, dir)
Inputs == {handler, <<ProjectFile>>, <<LockFile>>}
Nothing == [p \in {} |-> Directory]

Init ==
  /\ disk \in Disks /\ dir \in Dirs /\ handler \in Handlers
  /\ step = "new"
  /\ output = <<>> /\ tree = <<>>
  /\ build = {} /\ archive = Nothing

(* A step ends with the disk its operations leave, done or refused.        *)
Ends(result, name) ==
  /\ disk' = result.disk
  /\ step' = IF result.ok THEN name ELSE "refused"
  /\ UNCHANGED <<dir, handler>>

(***************************************************************************)
(* pkg/generate and harness.Write                                          *)
(***************************************************************************)
WriteIfAbsentBlindly(d, p, data) == WriteFile(d, p, data)

(* os.Stat follows links, so a dangling one counts as absent.              *)
WriteIfAbsent(d, p, data) ==
  CASE EvalSymlinks(d, p).is = "found" -> Done(d)
    [] EvalSymlinks(d, p).is = "absent" -> WriteFile(d, p, data)
    [] OTHER -> Failed(d)

Scaffold ==
  /\ step = "new"
  /\ LET confined == Confine(disk, dir, handler)
         path == CHOOSE p \in confined : TRUE
     IN Ends(IF confined = {} THEN Failed(disk)
             ELSE Then(MkdirAll(disk, Parent(path)), LAMBDA d :
                  Then(WriteIfAbsent(d, path, "stub"), LAMBDA e :
                       WriteIfAbsent(e, dir \o <<ProjectFile>>, "project"))), "scaffolded")
  /\ UNCHANGED <<output, tree, build, archive>>

(* HandlerModule: every name an identifier, the last one of a .py file.    *)
Importable(relative) ==
  /\ Base(relative) \in PythonFiles
  /\ \A i \in DOMAIN relative : relative[i] \notin {Up, Environment, ".git", PackagesDirectory}

(* The harness's sources and no bytecode, the contract, and the bindings.  *)
GenerateForRelease(d) ==
  LET generated == Append(Place(d, dir), GeneratedDirectory)
      package == Append(generated, HarnessPackage)
      fresh == MkdirAll(RemoveAll(d, generated), package)
  IN IF ~Importable(handler) THEN Failed(d)
     ELSE Then(fresh, LAMBDA e :
          Then(WriteFile(e, Append(package, "runner.py"), "harness"), LAMBDA f :
          Then(WriteFile(f, Append(generated, "contract.json"), "contract"), LAMBDA g :
               WriteFile(g, dir \o <<TypesFile>>, "types"))))

(***************************************************************************)
(* pkg/prepare.  A walk does not follow links, and leaves out directories  *)
(* of some names.  A copy that fails is taken to have copied all it could, *)
(* which bounds what it leaves behind.                                     *)
(***************************************************************************)
Walk(d, root, skipped) ==
  {p \in Below(d, root) :
     \A n \in Len(root)..Len(p) : LET q == SubSeq(p, 1, n)
                                  IN ~(d[q].kind = "dir" /\ n > 0 /\ Base(q) \in skipped)}

Moved(p, from, to) == to \o SubSeq(p, Len(from) + 1, Len(p))

Copy(d, paths, from, to, AsCopied(_)) ==
  LET copies == {Moved(p, from, to) : p \in paths}
  IN [q \in DOMAIN d \cup copies |-> IF q \in copies THEN AsCopied(Moved(q, to, from)) ELSE d[q]]

Leftovers == {Environment, Bytecode, ".git"}

CopyTreeWithLinks(d, from, to) ==
  LET root == Place(d, from)
  IN Done(Copy(d, Walk(d, root, Leftovers), root, to, LAMBDA p : d[p]))

(* A root that is itself a link is not walked into: it is not regular.     *)
CopyTree(d, from, to) ==
  LET root == Append(Place(d, Parent(from)), Base(from))
      paths == Walk(d, root, Leftovers)
      regular == {p \in paths : d[p].kind # "link"}
      copied == Copy(d, regular, root, to, LAMBDA p : d[p])
  IN IF regular = paths THEN Done(copied) ELSE Failed(copied)

(* copyRuntime: links are written anew, relative, to the copy of what they *)
(* lead to in the end, and refused if that is outside.                     *)
CopiedLinkVerbatim(d, p, from, to) == d[p]

CopiedLink(d, p, from, to) ==
  Link(Relative(Parent(Moved(p, from, to)), Moved(Place(d, p), from, to)))

CopyRuntime(d, from, to) ==
  LET paths == Walk(d, from, {Bytecode})
      kept == {p \in paths : d[p].kind = "link" => Leads(d, p) /\ IsPrefix(from, Place(d, p))}
      copied == Copy(d, kept, from, to,
                     LAMBDA p : IF d[p].kind = "link" THEN CopiedLink(d, p, from, to) ELSE d[p])
  IN IF kept = paths THEN Done(copied) ELSE Failed(copied)

(* bundleInterpreter: bin/python of the copy leads to its executable, which *)
(* must be one of the files copied.                                        *)
Launcher(root) == root \o <<InterpreterDirectory, "bin", "python">>

BundleInterpreter(d, root) ==
  LET target == Append(root, InterpreterDirectory)
      executable == Moved(Executable(d), RuntimePrefix, target)
  IN IF ~Leads(d, Installed) \/ ~IsPrefix(RuntimePrefix, Executable(d)) THEN Failed(d)
     ELSE Then(CopyRuntime(d, RuntimePrefix, target), LAMBDA e :
               IF Launcher(root) = executable THEN Done(e)
               ELSE Done(Put(e, Launcher(root), Link(Relative(Parent(Launcher(root)), executable)))))

(* outputDirectory: where the output really is, apart from the source.     *)
OutputDirectory(d, spelled, source) ==
  {p \in Resolve(d, spelled) :
     /\ Leads(d, source)
     /\ p # Place(d, source) /\ ~Within(p, Place(d, source)) /\ ~Within(Place(d, source), p)}

Occupied(d, p) == p \in DOMAIN d /\ (d[p].kind # "dir" \/ Below(d, p) # {p})

(* pack.Build: each declared path is confined to the snapshot and the file *)
(* there is digested; so is every source of the harness that is there.     *)
Sources(d, package) ==
  {p \in Walk(d, package, {Bytecode}) : d[p].kind = "file" /\ Base(p) \in PythonFiles}

Measured(d, root) ==
  LET snapshot == Append(root, SourceDirectory)
  IN {[path |-> i, bytes |-> d[p].data] :
        <<i, p>> \in {<<i, p>> \in Inputs \X DOMAIN d :
                        p \in Confine(d, snapshot, i) /\ d[p].kind = "file"}}
       \cup {[path |-> SubSeq(p, Len(snapshot) + 1, Len(p)), bytes |-> d[p].data] :
               p \in Sources(d, snapshot \o <<GeneratedDirectory, HarnessPackage>>)}

(* RunnableBuildInputs: uv writes the lock file, exports the requirements  *)
(* and installs packages.                                                  *)
Prepare(spelled) ==
  /\ step = "scaffolded"
  /\ LET accepted == OutputDirectory(disk, spelled, dir)
         root == CHOOSE p \in accepted : TRUE
         prepared ==
           Then(GenerateForRelease(disk), LAMBDA d :
           Then(WriteFile(d, dir \o <<LockFile>>, "lock"), LAMBDA e :
           Then(MkdirAll(e, root), LAMBDA f :
           Then(CopyTree(f, dir, Append(root, SourceDirectory)), LAMBDA g :
           Then(WriteFile(g, Append(root, "requirements.txt"), "lock"), LAMBDA h :
           Then(BundleInterpreter(h, root), LAMBDA i :
           Then(MkdirAll(i, Append(root, PackagesDirectory)), LAMBDA j :
                WriteFile(j, Append(root, "main.py"), "entry"))))))))
         measured == Measured(prepared.disk, root)
     IN IF accepted = {} \/ Occupied(disk, root)
        THEN Ends(Failed(disk), "refused") /\ UNCHANGED <<output, tree, build>>
        ELSE /\ Ends([prepared EXCEPT !.ok = @ /\ Inputs \subseteq {m.path : m \in measured}], "prepared")
             /\ output' = root
             /\ IF step' = "prepared" THEN tree' = root /\ build' = measured
                ELSE UNCHANGED <<tree, build>>
  /\ UNCHANGED archive

(***************************************************************************)
(* pkg/pack: the archive holds every entry of the tree, links as links.    *)
(* The tree is measured again before and after, which is in Builder.       *)
(***************************************************************************)
Package(spelled) ==
  /\ step = "prepared"
  /\ LET accepted == OutputDirectory(disk, spelled, dir) \cap OutputDirectory(disk, spelled, tree)
         root == CHOOSE p \in accepted : TRUE
         file == Append(root, "native.tar.gz")
     IN IF accepted = {} \/ file \in DOMAIN disk
        THEN Ends(Failed(disk), "refused") /\ UNCHANGED <<output, archive>>
        ELSE /\ Ends(Then(MkdirAll(disk, root), LAMBDA d : WriteFile(d, file, "archive")), "packaged")
             /\ output' = root
             /\ archive' = [r \in {SubSeq(p, Len(tree) + 1, Len(p)) : p \in Below(disk, tree) \ {tree}}
                              |-> disk[tree \o r]]
  /\ UNCHANGED <<tree, build>>

(***************************************************************************)
(* pkg/recipe: the context is the tree without its native directories, and *)
(* files that are links are copied as what they lead to.  Its directory is *)
(* its caller's to choose, who gives it one of its own.                    *)
(***************************************************************************)
Native == {Environment, InterpreterDirectory, PackagesDirectory}

CopyContext(d, root) ==
  LET files == Walk(d, tree, Native)
      opened == {p \in files : Leads(d, p) /\ (p # Place(d, p) => d[Place(d, p)].kind = "file")}
      copied == Copy(d, opened, tree, root, LAMBDA p : d[Place(d, p)])
  IN IF opened = files THEN Done(copied) ELSE Failed(copied)

Image(root) ==
  /\ step = "packaged" /\ Resolve(disk, root) = {root}
  /\ ~IsPrefix(root, tree) /\ ~IsPrefix(tree, root)
  /\ Ends(Then(MkdirAll(disk, root), LAMBDA d :
          Then(CopyContext(d, root), LAMBDA e :
          Then(WriteFile(e, Append(root, "Dockerfile"), "dockerfile"), LAMBDA f :
               WriteFile(f, Append(root, "image-recipe.json"), "recipe")))), "image")
  /\ output' = root
  /\ UNCHANGED <<tree, build, archive>>

Ended == step \in {"refused", "image"} /\ UNCHANGED vars

Next ==
  \/ Scaffold
  \/ \E spelled \in Outputs : Prepare(spelled) \/ Package(spelled) \/ Image(spelled)
  \/ Ended

Spec == Init /\ [][Next]_vars

(***************************************************************************)
(* Properties                                                              *)
(***************************************************************************)
Changed == {p \in DOMAIN disk \cup DOMAIN disk' :
              p \notin DOMAIN disk \/ p \notin DOMAIN disk' \/ disk'[p] # disk[p]}
Written(file) == EvalSymlinks(disk, Append(Source, file)).at
Owned(p) ==
  \/ IsPrefix(Append(Source, GeneratedDirectory), p)
  \/ p \in {Written(TypesFile), Written(LockFile)}

(* Scaffolding changes nothing that exists, and makes files only in the    *)
(* Runnable, or where its pyproject.toml leads.  Every later step changes  *)
(* only what is in the output directory and, while it prepares, what the   *)
(* agent owns: the generated directory and the two files at the top of the *)
(* Runnable, which are written where they lead.  No other link, in the     *)
(* source, in the interpreter or in the spelling of a directory, takes a   *)
(* write elsewhere (Confine, outputDirectory, copyTree, copyRuntime).      *)
WritesAreConfined ==
  [][\A p \in Changed :
       IF step = "new" THEN p \notin DOMAIN disk /\ (Within(p, Source) \/ p = Written(ProjectFile))
       ELSE \/ step = "scaffolded" /\ Owned(p)
            \/ ~IsPrefix(Source, p) /\ (IsPrefix(output', p) \/ IsPrefix(p, output'))]_vars

(* Extracted anywhere, on a machine that has nothing else, every link of   *)
(* the interpreter and its launcher lead to the copy of what they led to   *)
(* (copyRuntime, bundleInterpreter, appendEntry).                          *)
Extracted(at) ==
  LET paths == {at \o r : r \in DOMAIN archive} \cup Prefixes(at)
  IN [p \in paths |-> IF IsStrictPrefix(at, p) THEN archive[SubSeq(p, Len(at) + 1, Len(p))] ELSE Directory]

Relocates ==
  step = "packaged" =>
    LET there == <<"else", "where">>
        machine == Extracted(there)
        python == Append(there, InterpreterDirectory)
    IN /\ Leads(machine, Launcher(there))
       /\ Place(machine, Launcher(there)) = Moved(Executable(disk), RuntimePrefix, python)
       /\ \A p \in Below(disk, RuntimePrefix) :
            LET copy == Moved(p, RuntimePrefix, python)
            IN disk[p].kind = "link" /\ copy # Launcher(there) =>
                 /\ Leads(machine, copy)
                 /\ Place(machine, copy) = Moved(Place(disk, p), RuntimePrefix, python)

(* The bytes a build gives for a declared path are the bytes archived at   *)
(* that path, whatever the path's spelling (digestInput, writeArchive).    *)
MeasuredIsArchived ==
  step = "packaged" =>
    \A m \in build :
      LET r == Clean(<<SourceDirectory>> \o m.path)
      IN r \in DOMAIN archive /\ archive[r] = File(m.bytes)
=============================================================================
