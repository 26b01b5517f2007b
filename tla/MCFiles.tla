------------------------------ MODULE MCFiles ------------------------------
(* One Runnable at /ws/r, reached by its own path, through a link above it *)
(* or through a link to it; one interpreter; and what authors, tools and   *)
(* distributions leave about: one oddity in the source of each disk and    *)
(* one in the interpreter or where output goes.                            *)
EXTENDS Files, TLC

R == <<"ws", "r">>
C == RuntimePrefix

Runtime ==
  (<<"uv">> :> Directory @@ C :> Directory @@ C \o <<"bin">> :> Directory
     @@ Installed :> File("python") @@ C \o <<"bin", "python3">> :> Link(<<"python3.12">>)
     @@ C \o <<"lib">> :> Directory @@ C \o <<"lib", "so.1">> :> File("so"))

Plain ==
  (<<>> :> Directory @@ <<"ws">> :> Directory @@ R :> Directory
     @@ <<"out">> :> Directory @@ <<"out", "h.py">> :> File("other")
     @@ <<"alias">> :> RootedLink(<<"ws">>) @@ <<"link">> :> Link(R)
     @@ <<"into">> :> Link(<<"alias", "r">>) @@ <<"lost">> :> Link(<<"nowhere">>)) @@ Runtime

In(p, entry) == (R \o p) :> entry
SourceOddities ==
  {In(<<"h.py">>, File("mine")),
   In(<<"h.py">>, RootedLink(<<"out", "h.py">>)),
   In(<<"h.py">>, Link(<<Up, Up, "out", "new.py">>)),
   In(<<"src">>, RootedLink(<<"out">>)),
   In(<<"src">>, Directory) @@ In(<<"src", "h.py">>, Link(<<Up, "real.py">>)) @@ In(<<"real.py">>, File("real")),
   In(<<"src">>, File("src")),
   In(<<ProjectFile>>, File("mine")),
   In(<<ProjectFile>>, RootedLink(<<"out", "new.py">>)),
   In(<<TypesFile>>, RootedLink(<<"out", "h.py">>)),
   In(<<TypesFile>>, Link(<<Up, Up, "out", "new.py">>)),
   In(<<TypesFile>>, Link(<<"real.py">>)) @@ In(<<"real.py">>, File("real")),
   In(<<LockFile>>, RootedLink(<<"out", "h.py">>)),
   In(<<Environment>>, Directory) @@ In(<<Environment, "python">>, RootedLink(Installed)),
   In(<<Environment>>, RootedLink(<<"out">>)),
   In(<<Bytecode>>, Directory) @@ In(<<Bytecode, "h.pyc">>, File("code")),
   In(<<".git">>, File("worktree")),
   In(<<"lib">>, Directory) @@ In(<<"lib", PackagesDirectory>>, Directory)
     @@ In(<<"lib", PackagesDirectory, "mine">>, File("mine")),
   In(<<GeneratedDirectory>>, RootedLink(<<"out">>)),
   In(<<GeneratedDirectory>>, Directory) @@ In(<<GeneratedDirectory, "stale">>, File("stale"))}

Of(p, entry) == (C \o p) :> entry
RuntimeOddities ==
  {Of(<<"bin", "python">>, RootedLink(Installed)),
   Of(<<"bin", "python3.12">>, Link(<<Up, "lib", "so.1">>)),
   Of(<<"bin", "python3.12">>, RootedLink(<<"out", "h.py">>)),
   Of(<<"bin", "python3.12">>, RootedLink(<<"nowhere">>)),
   Of(<<"bin", "python">>, File("other")),
   Of(<<"lib64">>, Link(<<"lib">>)) @@ Of(<<"lib", "so">>, Link(<<Up, "lib64", "so.1">>)),
   Of(<<"share">>, RootedLink(C \o <<"lib", "so.1">>)),
   Of(<<"loop">>, Link(<<"loop">>)),
   Of(<<"lib", "self">>, Link(<<Up>>)),
   Of(<<"site">>, RootedLink(<<"out">>)),
   Of(<<"lib", Bytecode>>, Directory) @@ Of(<<"lib", Bytecode, "os.pyc">>, File("code"))}

OutputOddities == {<<"out", "d">> :> Directory, <<"out", "d">> :> RootedLink(R)}

With(oddities) == FoldSet(LAMBDA o, d : o @@ d, Plain, oddities)
MCDisks == {With({a, b}) : a \in SourceOddities, b \in RuntimeOddities \cup OutputOddities}

MCDirs == {R, <<"alias", "r">>, <<"link">>}
MCHandlers == {<<"h.py">>, <<"src", "h.py">>, <<"src", "h.txt">>, <<Up, "h.py">>, <<Bytecode, "h.py">>}
MCOutputs == {<<"out", "d">>, <<"out", "e">>, <<"out", Up, "out", "e">>, <<"into", "d">>,
              <<"lost", "d">>, <<"ws">>, <<"ws", "s">>}
=============================================================================
