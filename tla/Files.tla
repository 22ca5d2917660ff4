-------------------------------- MODULE Files -------------------------------
(***************************************************************************)
(* The working directory, stat and directory streams of                    *)
(* src/runtime/libc_absent.c, over the descriptor table and the root that  *)
(* the device descriptor (Device) shares with them.                        *)
(*                                                                         *)
(* The title's working directory is a string in the process.  Every        *)
(* question about a path is an open: one to see that it exists, one of     *)
(* "<path>/." to see that it is a directory, and other threads take and    *)
(* give back descriptors in between.                                       *)
(***************************************************************************)
EXTENDS Device, Sequences

CONSTANTS
  Tree,      \* what exists while /app0 is the title's: canonical path |-> "dir" or "file"
  Elsewhere, \* what exists once the root has been repointed
  Paths,     \* paths the title uses: [absolute, parts]
  PathMax,   \* PATH_MAX, in components
  Streams    \* bound: directory streams

\* What exists has a name of its own, one the platform takes.
CanonicalName(e) ==
  e \in Seq(STRING) /\ Len(e) \in 1 .. PathMax /\ \A k \in 1 .. Len(e) : e[k] \notin {".", ".."}

ASSUME FilesAssumption ==
  /\ PathMax \in Nat
  /\ \A p \in Paths : p.absolute \in BOOLEAN /\ p.parts \in Seq(STRING)
  /\ Tree[<<"app0">>] = "dir"
  /\ \A e \in DOMAIN Tree : CanonicalName(e) /\ Tree[e] \in {"dir", "file"}
  /\ \A e \in DOMAIN Elsewhere : CanonicalName(e) /\ Elsewhere[e] \in {"dir", "file"}

NoCall  == [path |-> "none"]
NoEntry == [name |-> "none", type |-> "none"]
NoDir   == [fd |-> Token, path |-> <<>>, seen |-> {}, entry |-> NoEntry, root |-> FALSE]

VARIABLES
  cwd,      \* s_cwd, as components
  dirs,     \* open directory streams
  query,    \* the stat or chdir under way between its two opens
  answer    \* history: how a stat that has just ended did

filesVars == <<cwd, dirs, query, answer>>
allVars   == <<vars, filesVars>>

----------------------------------------------------------------------------
\* What the platform knows.

Kind(path) ==
  LET tree == IF root THEN Tree ELSE Elsewhere
  IN  IF path \in DOMAIN tree THEN tree[path] ELSE "none"

\* An open, and the close that follows, need a free descriptor; so a full table looks
\* like a file that is not there.
Opens(path, kinds) == Free(file, 0) # {} /\ Kind(path) \in kinds

Starved == Free(file, 0) = {}

----------------------------------------------------------------------------
\* oops_mesa_absolute_path.

Front(path) == SubSeq(path, 1, Len(path) - 1)
Last(path)  == path[Len(path)]

Extended(done, p) ==
  CASE p = "."  -> done
    [] p = ".." -> IF done = <<>> THEN done ELSE Front(done)
    [] OTHER    -> Append(done, p)

\* ".", ".." and repeated separators removed, component by component.
Canonical(parts) ==
  LET done[k \in 0 .. Len(parts)] == IF k = 0 THEN <<>> ELSE Extended(done[k - 1], parts[k])
  IN  done[Len(parts)]

\* Mutant: relative to where the package is mounted.
JoinedToApp0(p) == IF p.absolute THEN p.parts ELSE <<"app0">> \o p.parts

Joined(p) == IF p.absolute THEN p.parts ELSE cwd \o p.parts

\* A path too long to join is used as written, which names nothing.
AsWritten == <<"as written">>

AbsolutePath(p) == IF Len(Joined(p)) > PathMax THEN AsWritten ELSE Canonical(Joined(p))

----------------------------------------------------------------------------
\* stat and chdir.

\* How a stat ended: what it said, and whether every open it made could have worked
\* under one root.
Stated(p, said, fair) ==
  [path |-> p, cwd |-> cwd, root |-> root, said |-> said, fair |-> fair]

\* The thread that asks about files does one thing at a time; the others open and close.
Between == started /\ query = NoCall

\* oops_fs_exists.
Exists(op, p) ==
  /\ Between
  /\ IF Opens(AbsolutePath(p), {"dir", "file"})
     THEN /\ query' = [op |-> op, path |-> p, canon |-> AbsolutePath(p), root |-> root]
          /\ answer' = NoCall
     ELSE /\ query' = NoCall
          /\ answer' = IF op = "stat" THEN Stated(p, "none", ~Starved) ELSE NoCall
  /\ UNCHANGED <<cwd, dirs, vars>>

\* stat_is_directory, of the path the question is about: "<path>/." has to fit too.
Roomy(path) == Len(path) + 1 <= PathMax

StatIsDirectory == Roomy(query.canon) /\ Opens(query.canon, {"dir"})

ChangeDir ==
  /\ query # NoCall /\ query.op = "chdir"
  /\ cwd' = IF StatIsDirectory THEN query.canon ELSE cwd
  /\ query' = NoCall
  /\ answer' = NoCall
  /\ UNCHANGED <<dirs, vars>>

\* What is not a directory is a file.
Stat ==
  /\ query # NoCall /\ query.op = "stat"
  /\ answer' = Stated(query.path, IF StatIsDirectory THEN "dir" ELSE "file",
                      ~Starved /\ root = query.root)
  /\ query' = NoCall
  /\ UNCHANGED <<cwd, dirs, vars>>

----------------------------------------------------------------------------
\* Directory streams.

Entries(path) ==
  {e \in DOMAIN Tree \cup DOMAIN Elsewhere : Len(e) = Len(path) + 1 /\ Front(e) = path /\ Kind(e) # "none"}

\* opendir: a block, the path, and a descriptor the stream keeps.
Opendir(s, p) ==
  /\ Between
  /\ dirs[s] = NoDir
  /\ Opens(AbsolutePath(p), {"dir"})
  /\ file' = [file EXCEPT ![Lowest(file, 0)] = "dir"]
  /\ dirs' = [dirs EXCEPT ![s] = [fd |-> Lowest(file, 0), path |-> AbsolutePath(p),
                                  seen |-> {}, entry |-> NoEntry, root |-> root]]
  /\ answer' = NoCall
  /\ UNCHANGED <<winsysFd, root, started, handed, cwd, query>>

\* readdir: the next entry, in the platform's order, over the one before it.
Readdir(s, e) ==
  /\ Between
  /\ dirs[s] # NoDir
  /\ root = dirs[s].root
  /\ e \in Entries(dirs[s].path) \ dirs[s].seen
  /\ dirs' = [dirs EXCEPT ![s].seen = @ \cup {e}, ![s].entry = [name |-> Last(e), type |-> Kind(e)]]
  /\ answer' = NoCall
  /\ UNCHANGED <<cwd, query, vars>>

Closedir(s) ==
  /\ Between
  /\ dirs[s] # NoDir
  /\ file' = [file EXCEPT ![dirs[s].fd] = "none"]
  /\ dirs' = [dirs EXCEPT ![s] = NoDir]
  /\ answer' = NoCall
  /\ UNCHANGED <<winsysFd, root, started, handed, cwd, query>>

----------------------------------------------------------------------------
FilesInit ==
  /\ Init
  /\ cwd = <<"app0">>
  /\ dirs = [s \in Streams |-> NoDir]
  /\ query = NoCall
  /\ answer = NoCall

FilesNext ==
  \/ Next /\ answer' = NoCall /\ UNCHANGED <<cwd, dirs, query>>
  \/ \E p \in Paths : Exists("stat", p) \/ Exists("chdir", p)
  \/ ChangeDir \/ Stat
  \/ \E s \in Streams :
       \/ \E p \in Paths : Opendir(s, p)
       \/ \E e \in DOMAIN Tree \cup DOMAIN Elsewhere : Readdir(s, e)
       \/ Closedir(s)

FilesSpec == FilesInit /\ [][FilesNext]_allVars

----------------------------------------------------------------------------
\* Properties.

\* What a title does to mount a folder works: after chdir, the name readdir gave for an
\* entry is found by stat, and as what readdir said it is.  The exceptions: a directory
\* whose name leaves no room for "/." is called a file, and an answer that had to do
\* without a descriptor, or with the root repointed between its two opens, may be wrong -
\* but never so as to call a file a directory, into which a title would go on listing.
ListingResolves ==
  \A s \in Streams :
    /\ answer # NoCall /\ dirs[s].entry # NoEntry
    /\ answer.path = [absolute |-> FALSE, parts |-> <<dirs[s].entry.name>>]
    /\ answer.cwd = dirs[s].path /\ answer.root = dirs[s].root
    => \/ answer.said = dirs[s].entry.type
       \/ ~answer.fair /\ answer.said # "dir"
       \/ answer.said = "file" /\ ~Roomy(Append(dirs[s].path, dirs[s].entry.name))

============================================================================
