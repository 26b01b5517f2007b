------------------------------- MODULE Paths -------------------------------
(***************************************************************************)
(* A disk and the paths over it: generate.Resolve, Within and Confine, on  *)
(* what the standard library does with links.  A path is the sequence of   *)
(* its names from the root; a disk maps the paths that exist to entries.   *)
(***************************************************************************)
EXTENDS Naturals, FiniteSets, Sequences, SequencesExt

CONSTANT MaxLinks   \* links followed before a path is refused as a cycle

ASSUME MaxLinksAssumption == MaxLinks \in Nat

Up == ".."

(* A link leads to a path from the root, or from where it is.              *)
Entry(kind, data, to, rooted) == [kind |-> kind, data |-> data, to |-> to, rooted |-> rooted]
Directory == Entry("dir", "", <<>>, FALSE)
File(data) == Entry("file", data, <<>>, FALSE)
Link(to) == Entry("link", "", to, FALSE)
RootedLink(to) == Entry("link", "", to, TRUE)

Base(p) == Last(p)
Parent(p) == IF p = <<>> THEN p ELSE Front(p)

(* filepath.Clean of a path from the root: no name, and nothing, is above. *)
Clean(p) == FoldLeft(LAMBDA q, name : IF name = Up THEN Parent(q) ELSE Append(q, name), <<>>, p)

(* filepath.Rel, of two clean paths.                                       *)
Relative(base, target) ==
  LET common == Len(LongestCommonPrefix({base, target}))
  IN [i \in 1..(Len(base) - common) |-> Up] \o SubSeq(target, common + 1, Len(target))

(***************************************************************************)
(* Where a path leads, every link followed.  "absent" is ErrNotExist: the  *)
(* path found missing is "at", and "left" is what would come after it.     *)
(* Anything else that goes wrong, a file used as a directory or links in a *)
(* cycle, is another error.                                                *)
(***************************************************************************)
RECURSIVE Follow(_, _, _, _)
Follow(disk, at, left, links) ==
  IF left = <<>> THEN [is |-> "found", at |-> at, left |-> left]
  ELSE IF Head(left) = Up THEN Follow(disk, Parent(at), Tail(left), links)
  ELSE LET next == Append(at, Head(left))
       IN IF next \notin DOMAIN disk THEN [is |-> "absent", at |-> next, left |-> Tail(left)]
          ELSE CASE disk[next].kind = "dir" -> Follow(disk, next, Tail(left), links)
                 [] disk[next].kind = "link" /\ links > 0 ->
                      Follow(disk, IF disk[next].rooted THEN <<>> ELSE at,
                             disk[next].to \o Tail(left), links - 1)
                 [] disk[next].kind = "file" /\ Tail(left) = <<>> ->
                      [is |-> "found", at |-> next, left |-> <<>>]
                 [] OTHER -> [is |-> "error", at |-> next, left |-> Tail(left)]

EvalSymlinks(disk, p) == Follow(disk, <<>>, p, MaxLinks)
Leads(disk, p) == EvalSymlinks(disk, p).is = "found"
Place(disk, p) == EvalSymlinks(disk, p).at

(* os.Lstat finds an entry, a link included.                               *)
Lexists(disk, p) ==
  \/ p = <<>>
  \/ Leads(disk, Parent(p)) /\ Append(Place(disk, Parent(p)), Base(p)) \in DOMAIN disk

(***************************************************************************)
(* Resolve: the longest part of the path that exists, its links followed,  *)
(* and the rest appended; nothing if that part ends in a dangling link or  *)
(* cannot be followed.  Results that may be an error are sets of at most   *)
(* one element.  A definition may be preceded by a variant with one        *)
(* plausible mistake; no specification uses the variant.                   *)
(***************************************************************************)
ResolveSpelling(disk, target) == {Clean(target)}

Resolve(disk, target) ==
  LET p == Clean(target)
      Absent(n) == EvalSymlinks(disk, SubSeq(p, 1, n)).is = "absent"
      known == CHOOSE n \in 0..Len(p) : ~Absent(n) /\ \A m \in (n + 1)..Len(p) : Absent(m)
      ancestor == SubSeq(p, 1, known)
  IN IF \/ ~Leads(disk, ancestor)
        \/ \E m \in (known + 1)..Len(p) : Lexists(disk, SubSeq(p, 1, m))
     THEN {}
     ELSE {Place(disk, ancestor) \o SubSeq(p, known + 1, Len(p))}

Within(p, directory) == IsStrictPrefix(directory, p)

Confine(disk, dir, relative) ==
  IF ~Leads(disk, dir) THEN {}
  ELSE {p \in Resolve(disk, Place(disk, dir) \o relative) :
          p = Place(disk, dir) \/ Within(p, Place(disk, dir))}

(***************************************************************************)
(* What operations leave of a disk, and whether they were done.            *)
(***************************************************************************)
Done(disk) == [disk |-> disk, ok |-> TRUE]
Failed(disk) == [disk |-> disk, ok |-> FALSE]
Then(result, Op(_)) == IF result.ok THEN Op(result.disk) ELSE result

Put(disk, p, entry) == [q \in DOMAIN disk \cup {p} |-> IF q = p THEN entry ELSE disk[q]]
Below(disk, dir) == {p \in DOMAIN disk : IsPrefix(dir, p)}
RemoveAll(disk, p) == [q \in DOMAIN disk \ Below(disk, p) |-> disk[q]]

(* os.MkdirAll of a path with no link on it.                               *)
MkdirAll(disk, p) ==
  IF \E q \in Prefixes(p) \cap DOMAIN disk : disk[q].kind # "dir" THEN Failed(disk)
  ELSE Done([q \in DOMAIN disk \cup Prefixes(p) |-> IF q \in DOMAIN disk THEN disk[q] ELSE Directory])

(* os.WriteFile: links are followed, the last one too, and a file that is  *)
(* missing is made if its directory is there.                              *)
WriteFile(disk, p, data) ==
  LET to == EvalSymlinks(disk, p)
  IN IF \/ to.is = "found" /\ disk[to.at].kind = "file"
        \/ to.is = "absent" /\ to.left = <<>>
     THEN Done(Put(disk, to.at, File(data)))
     ELSE Failed(disk)
=============================================================================
