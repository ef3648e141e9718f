------------------------------ MODULE Publish ------------------------------
(***************************************************************************)
(* One file on its way from scan to the rename, and what other programs    *)
(* do to it meanwhile: the metadata taken by scan (threads/mod.rs), the    *)
(* reader's pass over the contents, publish, finish_*_file, verify_file    *)
(* and persist_file (threads/writer.rs), and the recheck of the source     *)
(* with the cached snapshot of open writers (threads/source_guard.rs).     *)
(*                                                                         *)
(* A file holds one version number per block, and one for its extended     *)
(* attributes and its access rights; every change by others has a number   *)
(* of its own.  A clock measures the age of the snapshot.                  *)
(***************************************************************************)
EXTENDS Integers

CONSTANTS
  BlockCount,     \* blocks of the file
  Routes,         \* a subset of {"direct", "scratch", "batch"}
  MaxEdits,       \* bound: changes other programs make
  MaxTime,        \* bound: the clock
  TimedEdits,     \* bound: changes while the clock moves; it stands still after more
  RefreshInterval,\* the age at which a snapshot is collected again
  CollectTime     \* the longest time that collecting a snapshot takes

ASSUME PublishAssumption ==
  /\ BlockCount \in Nat \ {0} /\ Routes \subseteq {"direct", "scratch", "batch"}
  /\ MaxEdits \in Nat \ {0} /\ MaxTime \in Nat /\ TimedEdits \in Nat
  /\ RefreshInterval \in Nat \ {0} /\ CollectTime \in Nat

Blocks == 1 .. BlockCount

\* The file that scan finds, one another program may put in its place, and the
\* temporary file that is to replace it.
Inodes == {"original", "other", "temporary"}

Garbage == 0    \* what a faulty encoder or a damaged payload yields

VARIABLES
  path,       \* the inode the path names, or "none"
  inode,      \* each inode's contents, attributes, change time and protected flag
  edits,      \* number of the last change
  writer,     \* the inode that another program has open for writing, or "none"
  openedAt,   \* since when
  hidden,     \* can that program not be inspected?
  now,        \* the clock
  snapshot,   \* OpenWriters.snapshot: when it was collected and with what result
  collecting, \* the collection of the next one under the mutex, if any
  route,      \* how the file travels: without scratch, with scratch, in a batch
  verify,     \* is the result verified?
  pc,         \* where the file is
  saved,      \* Context.orig_metadata: inode and change time
  source,     \* the inode of the open handle to the source, or "none"
  done,       \* blocks read, or verified
  staged,     \* what was read and encoded: the payload
  (* History variables *)
  first,      \* what the path showed when its metadata was saved
  exposed,    \* have others changed anything since the path was last looked at?
  checkedAt   \* when the snapshot was consulted

world == <<path, inode, edits, writer, openedAt, hidden>>
choice == <<route, verify>>
work == <<saved, source, done, staged>>
clock == <<now, snapshot, collecting>>
history == <<first, exposed, checkedAt>>
vars == <<world, clock, choice, pc, work, history>>

Contents(i) == [body |-> inode[i].body, xattrs |-> inode[i].xattrs,
                rights |-> inode[i].rights]

File == IF path = "none" THEN [gone |-> TRUE] ELSE Contents(path)
Protected == path # "none" /\ inode[path].protected

Ends == {"done", "skipped", "failed"}
Running == pc \notin Ends

-----------------------------------------------------------------------------
(* Other programs.  Every change of a file, and every rename of it, moves its change *)
(* time, so that no two states of a file have the same: a change number.  What they do *)
(* before the scan is in the initial state.                                          *)

Active == Running /\ pc # "scan"

Change(i, new) ==
  /\ Active /\ edits < MaxEdits /\ (now = 0 \/ edits < TimedEdits)
  /\ edits' = edits + 1
  /\ inode' = [inode EXCEPT ![i] = [new EXCEPT !.changed = edits']]
  /\ exposed' = TRUE
  /\ UNCHANGED <<clock, choice, pc, work, first, checkedAt>>

OthersWrite ==
  /\ writer # "none"
  /\ \E b \in Blocks :
       Change(writer, [inode[writer] EXCEPT !.body = [@ EXCEPT ![b] = edits + 1]])
  /\ UNCHANGED <<path, writer, openedAt, hidden>>

OthersSetAttributes ==
  /\ path # "none"
  /\ \/ Change(path, [inode[path] EXCEPT !.xattrs = edits + 1])
     \/ Change(path, [inode[path] EXCEPT !.rights = edits + 1])
     \/ Change(path, [inode[path] EXCEPT !.protected = ~@])
  /\ UNCHANGED <<path, writer, openedAt, hidden>>

\* A new file takes the place of the one at the path, or the original returns.
OthersRename ==
  /\ \E i \in {"original", "other"} \ {path} :
       /\ Change(i, IF i = "other"
                    THEN [inode[i] EXCEPT !.body = [b \in Blocks |-> edits + 1],
                                          !.xattrs = edits + 1, !.rights = edits + 1]
                    ELSE inode[i])
       /\ path' = i
  /\ UNCHANGED <<writer, openedAt, hidden>>

OthersRemove ==
  /\ Active /\ path # "none"
  /\ path' = "none"
  /\ exposed' = TRUE
  /\ UNCHANGED <<inode, edits, writer, openedAt, hidden, clock, choice, pc, work,
                 first, checkedAt>>

OthersOpen ==
  /\ Active /\ writer = "none" /\ path # "none"
  /\ writer' = path
  /\ openedAt' = now
  /\ UNCHANGED <<path, inode, edits, hidden, clock, choice, pc, work, history>>

OthersClose ==
  /\ Active /\ writer # "none"
  /\ writer' = "none" /\ openedAt' = 0
  /\ UNCHANGED <<path, inode, edits, hidden, clock, choice, pc, work,
                 first, exposed, checkedAt>>

Others ==
  \/ OthersWrite \/ OthersSetAttributes \/ OthersRename \/ OthersRemove
  \/ OthersOpen \/ OthersClose

Tick ==
  /\ Active /\ now < MaxTime /\ edits <= TimedEdits
  /\ collecting.by # "nobody" => now < collecting.since + CollectTime
  /\ now' = now + 1
  /\ UNCHANGED <<world, snapshot, collecting, choice, pc, work, history>>

-----------------------------------------------------------------------------
(* Applesauce, up to the finished temporary file.  Definitions marked "Seeded fault" *)
(* are not the code's: each is the next definition with a plausible bug.             *)

Temporary(new) == inode' = [inode EXCEPT !["temporary"] = new]
OthersUnchanged == UNCHANGED <<path, edits, writer, openedAt, hidden>>

\* scan takes the metadata that everything later is compared with.
Scan ==
  /\ pc = "scan" /\ path # "none"
  /\ saved' = [inode |-> path, changed |-> inode[path].changed]
  /\ first' = File
  /\ exposed' = FALSE
  /\ pc' = IF Protected THEN "skipped" ELSE "open"
  /\ UNCHANGED <<world, clock, choice, source, done, staged, checkedAt>>

\* The reader opens what the path names by now.
Open ==
  /\ pc = "open" /\ path # "none"
  /\ source' = path
  /\ pc' = "read"
  /\ UNCHANGED <<world, clock, choice, saved, done, staged, history>>

\* A block is read and encoded.  The encoder, and what keeps the payload, are only
\* trusted where nothing verifies their work.
ReadBlock ==
  /\ pc = "read" /\ done < BlockCount
  /\ done' = done + 1
  /\ \E v \in {inode[source].body[done + 1]} \cup (IF verify THEN {Garbage} ELSE {}) :
       staged' = [staged EXCEPT ![done + 1] = v]
  /\ UNCHANGED <<world, clock, choice, pc, saved, source, history>>

\* Without scratch the writer does it while the reader reads, else the publisher.
CopyXattrs ==
  /\ pc = IF route = "direct" THEN "read" ELSE "xattrs"
  /\ inode["temporary"].xattrs = 0
  /\ Temporary([inode["temporary"] EXCEPT !.xattrs = inode[source].xattrs])
  /\ pc' = IF route = "direct" THEN "read" ELSE "copy"
  /\ OthersUnchanged /\ UNCHANGED <<clock, choice, work, history>>

\* In a batch the handle is closed until the file is published.
AllRead ==
  /\ pc = "read" /\ done = BlockCount
  /\ route = "direct" => inode["temporary"].xattrs # 0
  /\ done' = 0
  /\ source' = IF route = "batch" THEN "none" ELSE source
  /\ pc' = CASE route = "direct" -> "copy" [] route = "scratch" -> "xattrs"
             [] route = "batch" -> "reopen"
  /\ UNCHANGED <<world, clock, choice, saved, staged, history>>

\* Seeded fault: only device and inode are compared.
SameInode(i) == i = saved.inode

\* same_source: the change time stands for all that is compared beside the inode, since
\* length, modification time, links and flags do not change without it.
SameSource(i) == i = saved.inode /\ inode[i].changed = saved.changed

Reopen ==
  /\ pc = "reopen" /\ path # "none" /\ SameSource(path)
  /\ source' = path
  /\ pc' = "xattrs"
  /\ UNCHANGED <<world, clock, choice, saved, done, staged, history>>

\* The contents count as the temporary file's once its metadata says how to read them.
CopyContents ==
  /\ pc = "copy"
  /\ Temporary([inode["temporary"] EXCEPT !.body = staged])
  /\ pc' = "rights"
  /\ OthersUnchanged /\ UNCHANGED <<clock, choice, work, history>>

\* copy_metadata, and set_flags with the saved flags less the protected ones.
CopyRights ==
  /\ pc = "rights"
  /\ Temporary([inode["temporary"] EXCEPT !.rights = inode[source].rights,
                                          !.protected = FALSE])
  /\ pc' = "verify"
  /\ OthersUnchanged /\ UNCHANGED <<clock, choice, work, history>>

\* Seeded fault: only the sizes are compared.
VerifySize ==
  /\ pc = "verify" /\ verify /\ done < BlockCount
  /\ done' = done + 1
  /\ UNCHANGED <<world, clock, choice, pc, saved, source, staged, history>>

\* verify_file.  Manual decompression does not read the original's contents through the
\* kernel but decodes its compressed blocks again, as far as they are still there: a file
\* that others have written to has lost them and fails, and a decoder's own fault, which
\* both passes share, stays unseen.  So there Garbage is damage after the decoding.
VerifyBlock ==
  /\ pc = "verify" /\ verify /\ done < BlockCount
  /\ inode["temporary"].body[done + 1] = inode[source].body[done + 1]
  /\ done' = done + 1
  /\ UNCHANGED <<world, clock, choice, pc, saved, source, staged, history>>

Verified ==
  /\ pc = "verify"
  /\ verify => done = BlockCount
  /\ source' = "none"
  /\ pc' = "look"
  /\ UNCHANGED <<world, clock, choice, saved, done, staged, history>>

-----------------------------------------------------------------------------
(* before_publish and the rename. *)

\* current_source: what the path names now must be what scan saw, and not protected.
CurrentSource(next) ==
  /\ path # "none"
  /\ exposed' = FALSE
  /\ pc' = IF Protected THEN "skipped" ELSE IF SameSource(path) THEN next ELSE "failed"
  /\ UNCHANGED <<world, clock, choice, work, first, checkedAt>>

Look ==
  /\ pc = "look"
  /\ CurrentSource("consult")

\* Seeded fault: a snapshot is one tick older when it is replaced.
NeedSnapshotLate == ~snapshot.taken \/ now - snapshot.at > RefreshInterval

NeedSnapshot == ~snapshot.taken \/ now - snapshot.at >= RefreshInterval

Visible == IF writer = "none" \/ hidden THEN {} ELSE {writer}

\* collect_open_writers fails, or finds what it can see, under the mutex; so may the
\* publisher of another file at any time, which shares the snapshot.
Collect(who) ==
  /\ Running /\ collecting.by = "nobody" /\ NeedSnapshot
  /\ who = "us" => pc = "consult"
  /\ \E ok \in BOOLEAN :
       collecting' = [by |-> who, since |-> now, ok |-> ok,
                      writers |-> IF ok THEN Visible ELSE {}]
  /\ UNCHANGED <<world, now, snapshot, choice, pc, work, history>>

\* has_writer's answer from a snapshot: an open writer or an error skips the file.
Answer(ok, writers) ==
  pc' = IF ~ok \/ saved.inode \in writers THEN "skipped" ELSE "look again"

\* Seeded fault: the snapshot holds the time at which it expires.
CollectedDeadline ==
  /\ Running /\ collecting.by # "nobody"
  /\ snapshot' = [taken |-> TRUE, at |-> now + RefreshInterval, ok |-> collecting.ok,
                  writers |-> collecting.writers]
  /\ collecting' = [by |-> "nobody", since |-> 0, ok |-> FALSE, writers |-> {}]
  /\ IF collecting.by = "us"
     THEN Answer(collecting.ok, collecting.writers) /\ checkedAt' = now
     ELSE UNCHANGED <<pc, checkedAt>>
  /\ UNCHANGED <<world, now, choice, work, first, exposed>>

\* The snapshot is dated by the end of its collection.
Collected ==
  /\ Running /\ collecting.by # "nobody"
  /\ snapshot' = [taken |-> TRUE, at |-> now, ok |-> collecting.ok,
                  writers |-> collecting.writers]
  /\ collecting' = [by |-> "nobody", since |-> 0, ok |-> FALSE, writers |-> {}]
  /\ IF collecting.by = "us"
     THEN Answer(collecting.ok, collecting.writers) /\ checkedAt' = now
     ELSE UNCHANGED <<pc, checkedAt>>
  /\ UNCHANGED <<world, now, choice, work, first, exposed>>

Consult ==
  /\ pc = "consult" /\ collecting.by = "nobody" /\ ~NeedSnapshot
  /\ Answer(snapshot.ok, snapshot.writers)
  /\ checkedAt' = now
  /\ UNCHANGED <<world, clock, choice, work, first, exposed>>

LookAgain ==
  /\ pc = "look again"
  /\ CurrentSource("rename")

\* The rename replaces whatever the path names, or nothing.
Rename ==
  /\ pc = "rename"
  /\ path' = "temporary"
  /\ pc' = "times"
  /\ UNCHANGED <<inode, edits, writer, openedAt, hidden, clock, choice, work, history>>

\* Best effort; the process may also die before.
ResetTimes ==
  /\ pc = "times"
  /\ pc' = "done"
  /\ UNCHANGED <<world, clock, choice, work, history>>

\* Any system call before the rename may fail, and the process may die at any moment: the
\* temporary file is removed, or left where nobody looks for it, and the path stays.
Stop ==
  /\ Running /\ pc # "times"
  /\ pc' = "failed"
  /\ UNCHANGED <<world, clock, choice, work, history>>

-----------------------------------------------------------------------------

Blank(v, protected) ==
  [body |-> [b \in Blocks |-> v], xattrs |-> v, rights |-> v, changed |-> v,
   protected |-> protected]

Init ==
  /\ path = "original" /\ edits = 1
  /\ \E protected \in BOOLEAN :
       inode = [i \in Inodes |-> IF i = "original" THEN Blank(1, protected)
                                                   ELSE Blank(0, FALSE)]
  /\ writer \in {"none", "original"} /\ openedAt = 0 /\ hidden \in BOOLEAN
  /\ now = 0
  /\ snapshot = [taken |-> FALSE, at |-> 0, ok |-> FALSE, writers |-> {}]
  /\ collecting = [by |-> "nobody", since |-> 0, ok |-> FALSE, writers |-> {}]
  /\ route \in Routes /\ verify \in BOOLEAN
  /\ pc = "scan" /\ saved = [inode |-> "none", changed |-> 0]
  /\ source = "none" /\ done = 0 /\ staged = [b \in Blocks |-> Garbage]
  /\ first = [gone |-> TRUE] /\ exposed = TRUE /\ checkedAt = 0

Prepare ==
  \/ Scan \/ Open \/ ReadBlock \/ CopyXattrs \/ AllRead \/ Reopen \/ CopyContents
  \/ CopyRights \/ VerifyBlock \/ Verified

Replace ==
  \/ Look \/ Collect("us") \/ Collected \/ Consult \/ LookAgain \/ Rename \/ ResetTimes

Terminated == ~Running /\ UNCHANGED vars

Next ==
  \/ Prepare \/ Replace \/ Stop
  \/ Others \/ Collect("another") \/ Tick \/ Terminated

Spec == Init /\ [][Next]_vars

-----------------------------------------------------------------------------
(* Properties. *)

TypeOK ==
  /\ path \in Inodes \cup {"none"} /\ edits \in 1 .. MaxEdits
  /\ inode \in [Inodes -> [body : [Blocks -> 0 .. MaxEdits], xattrs : 0 .. MaxEdits,
                           rights : 0 .. MaxEdits, changed : 0 .. MaxEdits,
                           protected : BOOLEAN]]
  /\ writer \in Inodes \cup {"none"} /\ openedAt \in 0 .. MaxTime /\ hidden \in BOOLEAN
  /\ now \in 0 .. MaxTime
  /\ snapshot \in [taken : BOOLEAN, at : 0 .. MaxTime, ok : BOOLEAN,
                   writers : SUBSET Inodes]
  /\ collecting \in [by : {"nobody", "us", "another"}, since : 0 .. MaxTime,
                     ok : BOOLEAN, writers : SUBSET Inodes]
  /\ route \in Routes /\ verify \in BOOLEAN
  /\ pc \in Ends \cup {"scan", "open", "read", "reopen", "xattrs", "copy", "rights",
                       "verify", "look", "consult", "look again", "rename", "times"}
  /\ saved \in [inode : Inodes \cup {"none"}, changed : 0 .. MaxEdits]
  /\ source \in Inodes \cup {"none"} /\ done \in 0 .. BlockCount
  /\ staged \in [Blocks -> 0 .. MaxEdits]
  /\ exposed \in BOOLEAN /\ checkedAt \in 0 .. MaxTime

Replacing == pc = "rename" /\ path' = "temporary"

\* Whatever others do and whenever, the file that appears at the path is complete and is
\* one that was there: contents and attributes as they were together when scan saw the
\* file, never a mixture of two states of it and never a damaged block if it was verified.
NoTornFile == [][Replacing => File' = first]_vars

\* A program that can be inspected, and that opened the file for writing longer ago than
\* a snapshot can be old, keeps the file from being replaced while it has it open: a
\* snapshot shared by all publishers is never used for too long (has_writer).
OldWritersSeen ==
  [][Replacing => ~(/\ writer = saved.inode /\ ~hidden
                    /\ openedAt + RefreshInterval + CollectTime <= checkedAt)]_vars

Promise == INSTANCE AtomicReplace
             WITH file <- File, protected <- Protected, exposed <- exposed,
                  replaced <- (pc \in {"times", "done"})

\* At every moment, and so after a crash at any step, the path names the old file or the
\* complete new one; the exchange changes nothing others can see, except what they did
\* themselves after the last look.
ImplementsAtomicReplace == Promise!Spec
=============================================================================
