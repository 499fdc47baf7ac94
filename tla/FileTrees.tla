------------------------------ MODULE FileTrees ------------------------------
(***************************************************************************)
(* core:path against a file system that other processes change: what the   *)
(* methods of a Path do to the tree (io_filesystem.go), and the traversals *)
(* that read it directory by directory.  The current directory is the root *)
(* of the tree.  Contents, modes and times of files are left out.          *)
(***************************************************************************)
EXTENDS Paths, FiniteSetsExt, TLC

CONSTANTS
  Names,         \* the names in directories, in the order os.ReadDir sorts them
  Depth,         \* of the locations that exist
  Trees,         \* the trees a program may start in
  Texts,         \* the texts a program makes paths of
  Home,          \* what os.UserHomeDir answers
  Suffixings,    \* the arguments of with_suffix, as segments
  Operands,      \* bound: the paths whose methods call the system
  Patterns,      \* a pattern without separator is the set of names it matches
  LinkLimit,     \* links the kernel follows in one lookup
  MaxPieces,     \* of the texts a program computes
  MaxOps,        \* bound: calls that may change the tree, or traverse it
  MaxChanges     \* bound: changes by other processes

ASSUME TextsAssumption ==
  /\ Texts \subseteq AllTexts /\ Home \in AllTexts
  /\ Suffixings \subseteq Seq(Segments)
  /\ MaxPieces \in Nat

VARIABLES
  tree,      \* the kernel's: from locations to nodes
  here,      \* the `path` of the Path the program works with
  job,       \* the call that is in progress, or has just answered
  ops, changes

vars == <<tree, here, job, ops, changes>>

-----------------------------------------------------------------------------
(* The file system.  A location is the sequence of names that leads to it  *)
(* without passing a link.                                                 *)

Directory == [kind |-> "directory", target |-> EmptyText]
File == [kind |-> "file", target |-> EmptyText]
LinkTo(text) == [kind |-> "link", target |-> text]
Nodes == [kind : {"directory", "file", "link"}, target : AllTexts]

IsTree(t) ==
  /\ t \in [DOMAIN t -> Nodes] /\ DOMAIN t \subseteq Seq(Pieces)
  /\ <<>> \in DOMAIN t /\ t[<<>>] = Directory
  /\ \A l \in DOMAIN t \ {<<>>} :
       Front(l) \in DOMAIN t /\ t[Front(l)].kind = "directory"
Creatable(location) ==                           \* bound
  Len(location) <= Depth /\ ToSet(location) \subseteq ToSet(Names)

ASSUME TreesAssumption ==
  /\ Names \in Seq(Pieces \ {Empty, Dot, DotDot}) /\ IsInjective(Names)
  /\ Depth \in Nat
  /\ \A t \in Trees : IsTree(t) /\ \A l \in DOMAIN t : Creatable(l)
  /\ LinkLimit \in Nat /\ MaxOps \in Nat /\ MaxChanges \in Nat

Above(location) == IF location = <<>> THEN <<>> ELSE Front(location)
Within(t, location) == {l \in DOMAIN t : IsStrictPrefix(location, l)}
Without(t, locations) == [l \in DOMAIN t \ locations |-> t[l]]
With(t, location, node) ==
  [l \in DOMAIN t \cup {location} |-> IF l = location THEN node ELSE t[l]]
Moved(t, from, to) ==
  LET moving == {from} \cup Within(t, from)
      Landing(l) == to \o SubSeq(l, Len(from) + 1, Len(l))
      left == Without(t, moving \cup {to})
  IN [l \in DOMAIN left \cup {Landing(m) : m \in moving} |->
        IF l \in DOMAIN left THEN left[l]
        ELSE t[CHOOSE m \in moving : Landing(m) = l]]

Answer(is, location) == [is |-> is, at |-> location]

(* The kernel's lookup: "vacant" when only the last name is missing.  A    *)
(* link in the last place is followed when `follow` says so.               *)
Looking(t) == [at : DOMAIN t, rest : Seq(Pieces), links : 0 .. LinkLimit]
Position(at, rest, links) == [at |-> at, rest |-> rest, links |-> links]

EntryAt(p) == Append(p.at, Head(p.rest))
Follows(t, p, follow) == t[EntryAt(p)].kind = "link" /\ (follow \/ Len(p.rest) > 1)

Verdict(t, p, follow) ==
  IF p.rest = <<>> THEN Answer("found", p.at)
  ELSE IF t[p.at].kind # "directory" THEN Answer("refused", p.at)
  ELSE IF Head(p.rest) \in {Dot, DotDot} THEN Answer("underway", p.at)
  ELSE IF EntryAt(p) \notin DOMAIN t
    THEN Answer(IF Len(p.rest) = 1 THEN "vacant" ELSE "missing", EntryAt(p))
  ELSE IF Follows(t, p, follow) /\ p.links = LinkLimit THEN Answer("refused", EntryAt(p))
  ELSE Answer("underway", p.at)

Onward(t, p, follow) ==
  IF Head(p.rest) = Dot THEN Position(p.at, Tail(p.rest), p.links)
  ELSE IF Head(p.rest) = DotDot THEN Position(Above(p.at), Tail(p.rest), p.links)
  ELSE IF ~Follows(t, p, follow) THEN Position(EntryAt(p), Tail(p.rest), p.links)
  ELSE LET target == t[EntryAt(p)].target
       IN Position(IF Rooted(target) THEN <<>> ELSE p.at,
                   Components(target) \o Tail(p.rest), p.links + 1)

Seek(t, text, follow) ==
  LET seek[p \in Looking(t)] ==
        LET verdict == Verdict(t, p, follow)
        IN IF verdict.is = "underway" THEN seek[Onward(t, p, follow)] ELSE verdict
  IN IF text = EmptyText THEN Answer("missing", <<>>)
     ELSE seek[Position(<<>>, Components(text), 0)]

Stat(t, text) == Seek(t, text, TRUE)
Lstat(t, text) == Seek(t, text, FALSE)

Exists(t, text) == Stat(t, text).is = "found"
IsDir(t, text) ==
  LET found == Stat(t, text) IN found.is = "found" /\ t[found.at].kind = "directory"

-----------------------------------------------------------------------------
(* What the calls of io_filesystem.go do to a tree: the trees that may     *)
(* result, none when the call fails.                                       *)

Create(t, found, node) ==
  IF found.is = "vacant" THEN {With(t, found.at, node)} ELSE {}

Mkdir(t, text, existOk) ==
  Create(t, Lstat(t, text), Directory)
    \cup IF existOk /\ Lstat(t, text).is = "found" THEN {t} ELSE {}

MkdirAll(t, text) ==
  LET made[path \in AllTexts] ==
        IF Exists(t, path) THEN IF IsDir(t, path) THEN {t} ELSE {}
        ELSE UNION {Mkdir(above, path, FALSE) : above \in made[ParentText(path)]}
  IN made[text]

Opened(t, text, exclusive) ==
  LET found == IF exclusive THEN Lstat(t, text) ELSE Stat(t, text)
  IN Create(t, found, File)
       \cup IF ~exclusive /\ found.is = "found" /\ ~IsDir(t, text) THEN {t} ELSE {}

(* As RemoveEntry, with every failure forgiven. *)
RemoveEntryForgiving(t, text, missingOk) ==
  LET found == Lstat(t, text)
  IN IF found.is = "found" /\ found.at # <<>> /\ Within(t, found.at) = {}
       THEN {Without(t, {found.at})}
     ELSE IF missingOk THEN {t} ELSE {}
(* os.Remove, for unlink and for rmdir. *)
RemoveEntry(t, text, missingOk) ==
  LET found == Lstat(t, text)
  IN IF found.is = "found" /\ found.at # <<>> /\ Within(t, found.at) = {}
       THEN {Without(t, {found.at})}
     ELSE IF missingOk /\ found.is \in {"vacant", "missing"} THEN {t} ELSE {}

(* os.Rename: files and links replace each other, directories nothing. *)
Rename(t, text, target) ==
  LET from == Lstat(t, text)
      to == Lstat(t, target)
      IsDirectory(location) == t[location].kind = "directory"
  IN IF from.is # "found" \/ from.at = <<>> \/ to.is \notin {"found", "vacant"} THEN {}
     ELSE IF to.at = from.at
       THEN IF IsDirectory(from.at) /\ text = target THEN {} ELSE {t}
     ELSE IF \/ to.is = "found" /\ (IsDirectory(to.at) \/ IsDirectory(from.at))
             \/ IsPrefix(from.at, to.at)
       THEN {}
     ELSE {Moved(t, from.at, to.at)}

(* The target does not lead through what is moved, nor what it replaces.   *)
Aside(t, text, target) ==
  LET from == Lstat(t, text).at
      to == Lstat(t, target).at
  IN Lstat(Without(t, {from, to} \cup Within(t, from)), target) = Answer("vacant", to)

Hardlink(t, target, text) ==
  LET from == Lstat(t, target)
  IN IF from.is = "found" /\ t[from.at].kind # "directory"
       THEN Create(t, Lstat(t, text), t[from.at]) ELSE {}

Symlink(t, target, text) ==
  IF target = EmptyText THEN {} ELSE Create(t, Lstat(t, text), LinkTo(target))

-----------------------------------------------------------------------------
(* Traversals.                                                             *)

Listing(t, text) ==
  LET directory == Stat(t, text).at
  IN Folded([turn \in Seq(Pieces) \X Pieces |->
               IF Append(directory, turn[2]) \in DOMAIN t THEN Append(turn[1], turn[2])
               ELSE turn[1]],
            <<>>, Names)
Child(text, name) == JoinTexts(text, <<<<name>>>>)

(* Everything that can be reached from `text` through directories, of      *)
(* which each is deeper than the one before, or a link further.            *)
Deepest == (LinkLimit + 1) * (Depth + 1)
Descendants(t, text) ==
  LET below[n \in 0 .. Deepest] ==
        [path \in AllTexts |->
          IF n = 0 \/ ~IsDir(t, path) THEN {}
          ELSE LET children == {Child(path, name) : name \in ToSet(Listing(t, path))}
               IN children \cup UNION {below[n - 1][child] : child \in children}]
  IN below[Deepest][text]

(* One frame for each activation of _walk_visit, _rglob_visit or           *)
(* _glob_segments: its directory and the children it has still to visit.   *)
Frame(text) == [dir |-> text, read |-> FALSE, todo |-> <<>>]

Level == Len(job.frames)
Pattern == job.patterns[IF job.call = "glob" THEN Level ELSE 1]
Collects(name) ==
  name \in Pattern /\ (job.call = "glob" => Level = Len(job.patterns))
Descends(name) ==
  job.call = "glob" => name \in Pattern /\ Level < Len(job.patterns)

(* What a traversal of an unchanging tree is to find. *)
Sought(t, call, patterns, base) ==
  LET depth == IF base \in {Root, Current} THEN 0 ELSE Len(Components(base))
      Below(text) == SubSeq(Components(text), depth + 1, Len(Components(text)))
  IN {text \in Descendants(t, base) :
        IF call = "glob"
          THEN /\ Len(Below(text)) = Len(patterns)
               /\ \A i \in DOMAIN patterns : Below(text)[i] \in patterns[i]
          ELSE Last(Below(text)) \in patterns[1]}
SoughtIn(t) == Sought(t, job.call, job.patterns, job.base)

-----------------------------------------------------------------------------
(* The program.                                                            *)

Idle == [call |-> "none", status |-> "idle"]
Finished(call, ok, target, flag) ==
  [call |-> call, status |-> IF ok THEN "done" ELSE "failed",
   target |-> target, flag |-> flag]
(* Between the two system calls of touch, and of mkdir with parents. *)
Halfway(call) == [call |-> call, status |-> "halfway"]
(* `always` and `ever` are history: what matched all the time, or once. *)
Traversal(call, patterns) ==
  LET sought == Sought(tree, call, patterns, here)
  IN [call |-> call, status |-> "active", patterns |-> patterns, base |-> here,
      frames |-> <<Frame(here)>>, found |-> <<>>,
      always |-> sought, ever |-> sought, since |-> changes]

TypeOK ==
  /\ IsTree(tree) /\ \A l \in DOMAIN tree : Creatable(l)
  /\ here \in AllTexts
  /\ job.status \in {"idle", "halfway", "active", "done", "failed"}
  /\ job.status = "active" => \A i \in DOMAIN job.frames :
       /\ job.frames[i].read \/ i = Level
       /\ ToSet(job.frames[i].todo) \subseteq ToSet(Names)
  /\ ops \in 0 .. MaxOps /\ changes \in 0 .. MaxChanges

Init ==
  /\ tree \in Trees
  /\ here \in {Clean(text) : text \in Texts}
  /\ job = Idle
  /\ ops = 0 /\ changes = 0

(* Methods that answer a path, of which the program goes on with one.      *)
GoOn(text) ==
  /\ job = Idle /\ ops = 0
  /\ Len(text) <= MaxPieces                          \* bound
  /\ here' = text
  /\ UNCHANGED <<tree, job, ops, changes>>

New == \E text \in Texts : GoOn(Clean(text))
JoinPath == \E text \in Texts : GoOn(JoinTexts(here, <<text>>))
Parent == GoOn(ParentText(here))
Ancestor == \E i \in DOMAIN Parents(here) : GoOn(Parents(here)[i])
RelativePath == \E base \in Texts : \E text \in RelativeTo(here, base) : GoOn(text)
Absolute == GoOn(IF Rooted(here) THEN here ELSE JoinTexts(Root, <<here>>))
ExpandUser ==
  GoOn(IF Head(here) # <<"~">> THEN here
       ELSE IF Len(here) = 1 THEN Clean(Home)
       ELSE JoinTexts(Home, [i \in 1 .. Len(here) - 1 |-> <<here[i + 1]>>]))

NewName(name) == \E text \in WithName(here, name) : GoOn(text)
NewStem(stem) == \E text \in WithStem(here, stem) : GoOn(text)
NewSuffix(suffix) == \E text \in WithSuffix(here, suffix) : GoOn(text)

ComputePath ==
  \/ New \/ JoinPath \/ Parent \/ Ancestor \/ RelativePath \/ Absolute \/ ExpandUser
  \/ \E text \in Texts : NewName(text) \/ NewStem(text)
  \/ \E suffix \in Suffixings : NewSuffix(suffix)

(* Methods that change the tree. *)
Call(call, target, flag, results) ==
  /\ \/ results = {} /\ UNCHANGED tree
     \/ tree' \in {t \in results : \A l \in DOMAIN t : Creatable(l)}
  /\ job' = Finished(call, results # {}, target, flag)
  /\ UNCHANGED <<here, changes>>
Begin == job = Idle /\ here \in Operands /\ ops < MaxOps /\ ops' = ops + 1

Touch(existOk) ==
  LET results == Opened(tree, here, ~existOk)
  IN /\ Begin
     /\ IF existOk /\ results # {}
          THEN /\ tree' \in {t \in results : \A l \in DOMAIN t : Creatable(l)}
               /\ job' = Halfway("touch")
               /\ UNCHANGED <<here, changes>>
          ELSE Call("touch", here, existOk, results)
(* os.Chtimes fails when the file is gone. *)
EndTouch ==
  /\ job = Halfway("touch")
  /\ Call("touch", here, TRUE, IF Exists(tree, here) THEN {tree} ELSE {})
  /\ UNCHANGED ops

MakeDirectory(existOk) == Begin /\ Call("mkdir", here, existOk, Mkdir(tree, here, existOk))
(* os.Stat tells that nothing is there yet. *)
MakeDirectories(existOk) ==
  /\ Begin
  /\ IF existOk THEN Call("mkdirs", here, existOk, MkdirAll(tree, here))
     ELSE IF Exists(tree, here) THEN Call("mkdirs", here, existOk, {})
     ELSE job' = Halfway("mkdirs") /\ UNCHANGED <<tree, here, changes>>
EndMakeDirectories ==
  /\ job = Halfway("mkdirs")
  /\ Call("mkdirs", here, FALSE, MkdirAll(tree, here))
  /\ UNCHANGED ops

Unlink(missingOk) == Begin /\ Call("unlink", here, missingOk, RemoveEntry(tree, here, missingOk))
Rmdir == Begin /\ Call("unlink", here, FALSE, RemoveEntry(tree, here, FALSE))
RenameTo(target) ==
  LET results == Rename(tree, here, target)
  IN Begin /\ Call("rename", target, results # {} /\ Aside(tree, here, target), results)
HardlinkTo(target) == Begin /\ Call("hardlink", target, FALSE, Hardlink(tree, target, here))
SymlinkTo(target) == Begin /\ Call("symlink", target, FALSE, Symlink(tree, target, here))
WriteText == Begin /\ Call("write", here, FALSE, Opened(tree, here, FALSE))

ChangeTree ==
  \/ \E flag \in BOOLEAN :
       Touch(flag) \/ MakeDirectory(flag) \/ MakeDirectories(flag) \/ Unlink(flag)
  \/ EndTouch \/ EndMakeDirectories \/ Rmdir \/ WriteText
  \/ \E target \in Texts : RenameTo(target) \/ HardlinkTo(target) \/ SymlinkTo(target)

-----------------------------------------------------------------------------
Start(call, patterns) ==
  Begin /\ job' = Traversal(call, patterns) /\ UNCHANGED <<tree, here, changes>>

Walk == Start("walk", <<ToSet(Names)>>)
Rglob(pattern) == Start("rglob", <<pattern>>)
Glob(patterns) ==
  IF IsDir(tree, here) THEN Start("glob", patterns)
  ELSE /\ Begin
       /\ job' = [Traversal("glob", patterns) EXCEPT !.status = "done", !.frames = <<>>]
       /\ UNCHANGED <<tree, here, changes>>

Step(newJob) == job.status = "active" /\ job' = newJob /\ UNCHANGED <<tree, here, ops, changes>>
Top == Last(job.frames)
AtTop(frame) == [job EXCEPT !.frames[Level] = frame]

(* As ReadDirectory, an unreadable directory being tried again. *)
ReadDirectoryAgain ==
  /\ job.status = "active" /\ Level > 0 /\ ~Top.read
  /\ Step(IF IsDir(tree, Top.dir)
            THEN AtTop([Top EXCEPT !.read = TRUE, !.todo = Listing(tree, Top.dir)])
            ELSE job)
(* _iterdir; its failure is the failure of the traversal. *)
ReadDirectory ==
  /\ job.status = "active" /\ Level > 0 /\ ~Top.read
  /\ Step(IF IsDir(tree, Top.dir)
            THEN AtTop([Top EXCEPT !.read = TRUE, !.todo = Listing(tree, Top.dir)])
            ELSE [job EXCEPT !.status = "failed", !.frames = <<>>])

(* As VisitChild, a child that does not match is not entered. *)
VisitChildMatching ==
  /\ job.status = "active" /\ Level > 0 /\ Top.todo # <<>>
  /\ LET name == Head(Top.todo)
         child == Child(Top.dir, name)
         advanced == AtTop([Top EXCEPT !.todo = Tail(@)])
         entering == name \in Pattern /\ Descends(name) /\ IsDir(tree, child)
     IN Step([advanced EXCEPT
                !.found = IF Collects(name) THEN Append(@, child) ELSE @,
                !.frames = IF entering THEN Append(@, Frame(child)) ELSE @])
VisitChild ==
  /\ job.status = "active" /\ Level > 0 /\ Top.todo # <<>>
  /\ LET name == Head(Top.todo)
         child == Child(Top.dir, name)
         advanced == AtTop([Top EXCEPT !.todo = Tail(@)])
         entering == Descends(name) /\ IsDir(tree, child)
     IN Step([advanced EXCEPT
                !.found = IF Collects(name) THEN Append(@, child) ELSE @,
                !.frames = IF entering THEN Append(@, Frame(child)) ELSE @])

LeaveDirectory ==
  /\ job.status = "active" /\ Level > 0 /\ Top.read /\ Top.todo = <<>>
  /\ Step([job EXCEPT !.frames = Front(@), !.status = IF Level = 1 THEN "done" ELSE @])

Return ==
  /\ job.status \in {"done", "failed"}
  /\ job' = Idle
  /\ UNCHANGED <<tree, here, ops, changes>>

Traverse ==
  \/ Walk \/ ReadDirectory \/ VisitChild \/ LeaveDirectory
  \/ \E pattern \in Patterns : Rglob(pattern)
  \/ \E first, second \in Patterns : Glob(<<first>>) \/ Glob(<<first, second>>)

-----------------------------------------------------------------------------
(* Another process changes the tree while a call of the program runs.      *)
Disturbs == job.status \in {"active", "halfway"} /\ changes < MaxChanges
World(t) ==
  LET sought == SoughtIn(t) IN
    /\ tree' = t /\ changes' = changes + 1
    /\ job' = IF job.status = "active"
                THEN [job EXCEPT !.always = @ \cap sought, !.ever = @ \cup sought]
                ELSE job
    /\ UNCHANGED <<here, ops>>

Appear ==
  /\ Disturbs
  /\ \E directory \in {l \in DOMAIN tree : tree[l].kind = "directory" /\ Len(l) < Depth},
        name \in ToSet(Names), node \in {Directory, File} :
       /\ Append(directory, name) \notin DOMAIN tree
       /\ World(With(tree, Append(directory, name), node))
Vanish ==
  /\ Disturbs
  /\ \E l \in DOMAIN tree \ {<<>>} : Within(tree, l) = {} /\ World(Without(tree, {l}))
Move ==
  /\ Disturbs
  /\ \E from \in DOMAIN tree \ {<<>>}, directory \in DOMAIN tree, name \in ToSet(Names) :
    LET to == Append(directory, name) IN
      /\ tree[directory].kind = "directory" /\ to \notin DOMAIN tree
      /\ ~IsPrefix(from, to)
      /\ \A l \in DOMAIN Moved(tree, from, to) : Creatable(l)
      /\ World(Moved(tree, from, to))

Program == ComputePath \/ ChangeTree \/ Traverse \/ Return
Next == Program \/ Appear \/ Vanish \/ Move

(* An interpreter inside a call goes on, and the system calls return. *)
Finishes == EndTouch \/ EndMakeDirectories \/ ReadDirectory \/ VisitChild \/ LeaveDirectory
Spec == Init /\ [][Next]_vars /\ WF_vars(Finishes)

-----------------------------------------------------------------------------
(* The properties computed for a Path agree: cleaning it again changes     *)
(* nothing, its parts joined and each ancestor joined with what follows    *)
(* give it back, stem and suffix make the name, the suffixes end in it.    *)
FieldsDescribePath ==
  /\ Clean(here) = here
  /\ JoinTexts(EmptyText, Parts(here)) = here
  /\ \A i \in DOMAIN Parents(here) :
       LET all == Components(here)
           below == SubSeq(all, Len(all) - i + 1, Len(all))
       IN JoinTexts(Parents(here)[i], [k \in DOMAIN below |-> <<below[k]>>]) = here
  /\ Suffixed(Stem(here), Suffix(here)) = NameOf(here)
  /\ Suffix(here) = IF SuffixList(here) = <<>> THEN <<>> ELSE <<Last(SuffixList(here))>>

(* Reference: where a text leads in a tree without links, from far below   *)
(* the root, in directories that no text names.                            *)
Far == [i \in 1 .. 2 * MaxPieces |-> Empty]
Leads(text) ==
  Folded([turn \in Seq(Pieces) \X Pieces |->
            IF turn[2] = Dot THEN turn[1]
            ELSE IF turn[2] = DotDot THEN Above(turn[1])
            ELSE Append(turn[1], turn[2])],
         IF Rooted(text) THEN <<>> ELSE Far, Components(text))

(* Joining leads where the texts lead one after the other, however it is   *)
(* cleaned; and what relative_to answers, joined to the base, is the path  *)
(* again.                                                                  *)
JoinsKeepPlace ==
  \A text \in Texts :
    /\ Leads(JoinTexts(here, <<text>>)) = Leads(Joined(here, text))
    /\ \A rest \in RelativeTo(here, text) : JoinTexts(text, <<rest>>) = here
    /\ ~Rooted(text) /\ DotDot \notin ToSet(text) /\ here # Current =>
         RelativeTo(JoinTexts(here, <<text>>), here) = {Clean(text)}

(* A call that succeeds leaves what it is called for: a file or directory  *)
(* that is there, a name that is gone, a path that leads to what was moved *)
(* or linked.  What is moved may be on the way to where it goes: "a" can   *)
(* become "a/../b".                                                        *)
SuccessIsVisible ==
  job.status = "done" =>
    CASE job.call \in {"touch", "write"} -> Exists(tree, here)
      [] job.call = "mkdir" ->
           Lstat(tree, here).is = "found" /\ (~job.flag => IsDir(tree, here))
      [] job.call = "mkdirs" -> IsDir(tree, here)
      [] job.call = "unlink" -> Lstat(tree, here).is # "found"
      [] job.call = "rename" -> job.flag => Lstat(tree, job.target).is = "found"
      [] job.call = "hardlink" ->
           tree[Lstat(tree, here).at] = tree[Lstat(tree, job.target).at]
      [] job.call = "symlink" -> tree[Lstat(tree, here).at] = LinkTo(job.target)
      [] OTHER -> TRUE

(* A traversal finds, once, everything that matches all the time it takes, *)
(* and nothing that never did; it fails only when the tree changed under   *)
(* it, or when there is no directory to begin with.                        *)
TraversalsAreExact ==
  /\ TypeOK
  /\ job.call \in {"walk", "rglob", "glob"} =>
       /\ IsInjective(job.found)
       /\ ToSet(job.found) \subseteq job.ever
       /\ job.status = "done" => job.always \subseteq ToSet(job.found)
       /\ job.status = "failed" => changes > job.since \/ ~IsDir(tree, here)

(* Every call answers, in trees whose links form cycles too. *)
CallsEnd == job.status \in {"active", "halfway"} ~> job.status \in {"done", "failed"}
=============================================================================
