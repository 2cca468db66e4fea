-------------------------------- MODULE Files --------------------------------
(***************************************************************************)
(* The simulated file system (fs.rs): one map from paths to inodes per     *)
(* node, inodes shared by every File opened on them, and what the runtime  *)
(* does to the map when a node is built, killed, restarted or deleted.     *)
(*                                                                         *)
(* The clients are tasks that use offsets within a length they have seen:  *)
(* they ask for the length of a file and read or write in a later step.    *)
(* A panic (an index out of bounds, a node that is not in the map) ends    *)
(* the simulation.  No operation has an await point of its own, and none   *)
(* writes back later: each is one step.                                    *)
(***************************************************************************)
EXTENDS Naturals, Sequences, SequencesExt

CONSTANTS
  Nodes, Main,   \* the supervisor's node has a map from the start
  Paths,
  Bytes,         \* bytes that clients write
  Handles,       \* File objects
  MaxLen,        \* bound: length of a file and of a buffer
  MaxInodes      \* bound: inodes created

ASSUME FilesAssumption ==
  /\ Main \in Nodes
  /\ MaxLen \in Nat /\ MaxInodes \in Nat

VARIABLES
  fs,      \* FsSim.handles: for each node in it, its map from paths to inodes
  unused,  \* node ids not handed out yet
  data,    \* INode.data, by order of creation
  files,   \* open File objects
  seen,    \* seen[h]: length the task that holds h was last told, at first 0
  cut,     \* history: files shortened on purpose since then
  panic    \* why the simulation ended

vars == <<fs, unused, data, files, seen, cut, panic>>

Bufs == BoundedSeq(Bytes, MaxLen) \ {<<>>}
Inodes == 1 .. Len(data)
Running == [why |-> "running"]

\* The function f with v at x, and f without the points of S.
With(f, x, v) == [y \in DOMAIN f \cup {x} |-> IF y = x THEN v ELSE f[y]]
Without(f, S) == [y \in DOMAIN f \ S |-> f[y]]
Init ==
  /\ fs = [n \in {Main} |-> <<>>]
  /\ unused = Nodes \ {Main}
  /\ data = <<>>
  /\ files = <<>>
  /\ seen = [h \in Handles |-> 0]
  /\ cut = {}
  /\ panic = Running

Open(h) == h \in DOMAIN files
LenOf(h) == Len(data[files[h].inode])
OnInode(i) == {h \in Handles : Open(h) /\ files[h].inode = i}

-----------------------------------------------------------------------------
(* Contents of a file.                                                      *)

MinLen(a, b) == IF a <= b THEN a ELSE b

\* Mutant: an overwrite ends the file where the buffer ends.
WriteEndsFile(d, buf, offset) == SubSeq(d, 1, offset) \o buf

\* File::write_all_at on the data of the inode: the part of the buffer that is
\* within the file replaces what is there, the rest is appended.
WriteAllAt(d, buf, offset) ==
  LET end == MinLen(Len(d), offset + Len(buf))
      len == end - offset
  IN SubSeq(d, 1, offset) \o SubSeq(buf, 1, len) \o SubSeq(d, end + 1, Len(d))
       \o SubSeq(buf, len + 1, Len(buf))

\* File::read_at with a buffer of size n.
ReadAt(d, n, offset) ==
  LET end == MinLen(Len(d), offset + n) IN SubSeq(d, offset + 1, end)

\* Vec::resize(size, 0), in set_len.
Resize(d, size) == [k \in 1 .. size |-> IF k <= Len(d) THEN d[k] ELSE 0]

-----------------------------------------------------------------------------
(* Opening.                                                                 *)

\* FsNodeHandle::current and FsSim::get_file_size index the map of nodes.
NoNode(n) ==
  /\ n \notin DOMAIN fs /\ n \notin unused
  /\ panic' = [why |-> "no_node"]
  /\ UNCHANGED <<fs, unused, data, files, seen, cut>>

\* FsNodeHandle::open, by a task on node n.  A missing file is an error and
\* changes nothing.
OpenFile(h, n, p) ==
  /\ n \in DOMAIN fs /\ p \in DOMAIN fs[n] /\ ~Open(h)
  /\ files' = With(files, h,
       [inode |-> fs[n][p], can_write |-> FALSE, path |-> p, on |-> n, holder |-> n])
  /\ UNCHANGED <<fs, unused, data, seen, cut, panic>>

\* Mutant: an existing file is replaced, not truncated.
InodeFresh(n, p) == Len(data) + 1

\* The inode that create returns: the one of the path, or a new one.
InodeFor(n, p) == IF p \in DOMAIN fs[n] THEN fs[n][p] ELSE Len(data) + 1

\* FsNodeHandle::create: truncates the inode of an existing file.
CreateFile(h, n, p) ==
  LET i == InodeFor(n, p) IN
  /\ n \in DOMAIN fs /\ ~Open(h) /\ i <= MaxInodes
  /\ data' = IF i \in Inodes THEN [data EXCEPT ![i] = <<>>] ELSE Append(data, <<>>)
  /\ fs' = [fs EXCEPT ![n] = With(@, p, i)]
  /\ files' = With(files, h,
       [inode |-> i, can_write |-> TRUE, path |-> p, on |-> n, holder |-> n])
  /\ cut' = cut \cup OnInode(i)
  /\ UNCHANGED <<unused, seen, panic>>

\* A File is dropped: the inode stays in the map of its node.
Close(h) ==
  /\ Open(h)
  /\ files' = Without(files, {h})
  /\ seen' = [seen EXCEPT ![h] = 0]
  /\ cut' = cut \ {h}
  /\ UNCHANGED <<fs, unused, data, panic>>

\* A File is not tied to a node: a task may hand it to one of another node.
Pass(h, n) ==
  /\ Open(h) /\ n \in DOMAIN fs /\ files[h].holder # n
  /\ files' = [files EXCEPT ![h].holder = n]
  /\ UNCHANGED <<fs, unused, data, seen, cut, panic>>

-----------------------------------------------------------------------------
(* Using an open file.                                                      *)

\* File::metadata.
Stat(h) ==
  /\ Open(h)
  /\ seen' = [seen EXCEPT ![h] = LenOf(h)]
  /\ cut' = cut \ {h}
  /\ UNCHANGED <<fs, unused, data, files, panic>>

\* FsNodeHandle::metadata, read and get_file_size find the inode by its path.
StatPath(h) ==
  /\ Open(h) /\ files[h].on \in DOMAIN fs
  /\ LET f == files[h] IN
       /\ f.path \in DOMAIN fs[f.on]
       /\ seen' = [seen EXCEPT ![h] = Len(data[fs[f.on][f.path]])]
  /\ cut' = cut \ {h}
  /\ UNCHANGED <<fs, unused, data, files, panic>>

\* `end - offset` underflows, or the slice that starts at offset is out of
\* bounds: read_at and write_all_at panic when the offset is past the end.
PanicAt(h, offset) ==
  /\ offset > LenOf(h)
  /\ panic' = [why |-> "offset", of |-> h]
  /\ UNCHANGED <<fs, unused, data, files, seen, cut>>

\* File::read_at: all it changes is the caller's buffer.
Read(h, offset) ==
  /\ Open(h) /\ offset <= seen[h]
  /\ PanicAt(h, offset)

\* File::write_all_at; a file opened read-only gives an error first.
Write(h, buf, offset) ==
  /\ Open(h) /\ offset <= seen[h] /\ files[h].can_write
  /\ \/ PanicAt(h, offset)
     \/ /\ offset <= LenOf(h) /\ offset + Len(buf) <= MaxLen
        /\ data' = [data EXCEPT ![files[h].inode] = WriteAllAt(@, buf, offset)]
        /\ UNCHANGED <<fs, unused, files, seen, cut, panic>>

\* File::set_len, which does not look at can_write.
SetLen(h, size) ==
  LET i == files[h].inode IN
  /\ Open(h) /\ size # LenOf(h)
  /\ data' = [data EXCEPT ![i] = Resize(@, size)]
  /\ cut' = IF size < LenOf(h) THEN cut \cup OnInode(i) ELSE cut
  /\ UNCHANGED <<fs, unused, files, seen, panic>>

-----------------------------------------------------------------------------
(* Nodes.                                                                   *)

\* NodeBuilder::build, FsSim::create_node.
CreateNode(n) ==
  /\ n \in unused
  /\ unused' = unused \ {n}
  /\ fs' = With(fs, n, <<>>)
  /\ UNCHANGED <<data, files, seen, cut, panic>>

\* The tasks of node n are dropped, with the files they hold.
DropTasks(n) ==
  LET gone == {h \in DOMAIN files : files[h].holder = n} IN
  /\ files' = Without(files, gone)
  /\ seen' = [h \in Handles |-> IF h \in gone THEN 0 ELSE seen[h]]
  /\ cut' = cut \ gone

\* FsSim::reset_node: power_fail does nothing.
PowerFail(n) == fs

\* Handle::kill and Handle::restart: the tasks of n drop their files.
ResetNode(n) ==
  /\ n \in DOMAIN fs \ {Main}
  /\ DropTasks(n)
  /\ fs' = PowerFail(n)
  /\ UNCHANGED <<unused, data, panic>>

\* Handle::delete_node, FsSim::delete_node: Files of its inodes that tasks of
\* other nodes hold stay usable.
DeleteNode(n) ==
  /\ n \in DOMAIN fs \ {Main}
  /\ DropTasks(n)
  /\ fs' = Without(fs, {n})
  /\ UNCHANGED <<unused, data, panic>>

-----------------------------------------------------------------------------
FileStep(h) ==
  \/ Close(h) \/ Stat(h) \/ StatPath(h)
  \/ \E n \in Nodes : Pass(h, n)
  \/ \E n \in Nodes, p \in Paths : OpenFile(h, n, p) \/ CreateFile(h, n, p)
  \/ \E o \in 0 .. MaxLen : Read(h, o) \/ SetLen(h, o)
  \/ \E buf \in Bufs, o \in 0 .. MaxLen : Write(h, buf, o)

NodeStep(n) == CreateNode(n) \/ ResetNode(n) \/ DeleteNode(n) \/ NoNode(n)

Next ==
  /\ panic = Running
  /\ (\E h \in Handles : FileStep(h)) \/ (\E n \in Nodes : NodeStep(n))

Spec == Init /\ [][Next]_vars

-----------------------------------------------------------------------------
(* Properties.                                                              *)

\* What is at position k of a file of contents d after buf is written at offset.
Written(d, buf, offset, k) ==
  IF k \in offset + 1 .. offset + Len(buf) THEN buf[k - offset] ELSE d[k]

\* A write changes the bytes the buffer covers and no other, extends the file
\* when it reaches past the end and never shortens it, and reading it back gives
\* the buffer, whatever the contents the history of the file has led to: what the
\* clipping of write_all_at and read_at must come to.
WriteSplices ==
  \A i \in Inodes : \A buf \in Bufs, o \in 0 .. Len(data[i]) :
    LET new == WriteAllAt(data[i], buf, o) IN
    /\ Len(new) = IF o + Len(buf) > Len(data[i]) THEN o + Len(buf) ELSE Len(data[i])
    /\ \A k \in DOMAIN new : new[k] = Written(data[i], buf, o, k)
    /\ ReadAt(new, Len(buf), o) = buf

\* A task that stays within the length it was told panics only if the file was
\* truncated (created again, or set_len) in between: no write of another task, no
\* kill and no restart shortens a file under it.
PanicMeansTruncated == panic.why = "offset" => panic.of \in cut
=============================================================================
