--------------------------- MODULE PublishProofs ---------------------------
(***************************************************************************)
(* Whatever other programs do, the file that replaces the source is        *)
(* complete and shows one state of it, nobody sees a half of the exchange, *)
(* and the snapshot of open writers is never used for too long: module     *)
(* Publish for every number of blocks, of changes and of clock ticks.      *)
(***************************************************************************)
EXTENDS Publish, TLAPS

InodeType ==
  [body : [Blocks -> Nat], xattrs : Nat, rights : Nat, changed : Nat,
   protected : BOOLEAN]

PcType == Ends \cup {"scan", "open", "read", "reopen", "xattrs", "copy", "rights",
                     "verify", "look", "consult", "look again", "rename", "times"}

\* The types that matter here, with numbers instead of bounded ones.
Typed ==
  /\ path \in Inodes \cup {"none"} /\ edits \in Nat
  /\ inode \in [Inodes -> InodeType]
  /\ writer \in Inodes \cup {"none"}
  /\ route \in {"direct", "scratch", "batch"} /\ verify \in BOOLEAN
  /\ pc \in PcType
  /\ saved \in [inode : Inodes \cup {"none"}, changed : Nat]
  /\ source \in Inodes \cup {"none"} /\ done \in 0 .. BlockCount
  /\ staged \in [Blocks -> Nat]
  /\ pc \in {"read", "xattrs", "copy", "rights", "verify"} => source \in Inodes
  /\ pc \in {"reopen", "xattrs", "copy", "rights"} => done = 0

Working == Running /\ pc # "scan"

Renamed == pc \in {"times", "done"}

\* Nobody else knows the temporary file before it is renamed.
TemporaryPrivate == ~Renamed => path # "temporary" /\ writer # "temporary"

\* Numbers of changes are not used twice.
NumbersFresh ==
  /\ \A i \in Inodes : inode[i].changed <= edits
  /\ saved.changed <= edits

\* An original with the change time that scan saw holds what scan saw.
ChangeTimeTells ==
  Working =>
    /\ saved.inode = "original"
    /\ inode["original"].changed = saved.changed => Contents("original") = first

\* The path still names the file that scan saw, unchanged.
Intact == path = "original" /\ inode["original"].changed = saved.changed

AfterRead == {"reopen", "xattrs", "copy"}
AfterXattrs == {"copy", "rights", "verify", "look", "consult", "look again"}
AfterCopy == {"rights", "verify", "look", "consult", "look again"}
AfterRights == {"verify", "look", "consult", "look again"}
AfterVerify == {"look", "consult", "look again"}

\* As long as that is so, the handle is to that file, and all that was read from it, or
\* verified against it, is what scan saw.
CopiesTrue ==
  /\ pc # "open" => source \in {"none", "original"}
  /\ pc = "read" => source = "original"
  /\ pc \in {"xattrs", "copy", "rights", "verify"} => source = "original"
  /\ pc = "read" /\ ~verify => \A b \in Blocks : b <= done => staged[b] = first.body[b]
  /\ pc \in AfterRead /\ ~verify => \A b \in Blocks : staged[b] = first.body[b]
  /\ pc = "read" /\ inode["temporary"].xattrs # 0
       => inode["temporary"].xattrs = first.xattrs
  /\ pc \in AfterXattrs => inode["temporary"].xattrs = first.xattrs
  /\ pc \in AfterCopy /\ ~verify
       => \A b \in Blocks : inode["temporary"].body[b] = first.body[b]
  /\ pc \in AfterRights => inode["temporary"].rights = first.rights
  /\ pc = "verify" /\ verify
       => \A b \in Blocks : b <= done => inode["temporary"].body[b] = first.body[b]
  /\ pc \in AfterVerify
       => \A b \in Blocks : inode["temporary"].body[b] = first.body[b]

IntactCopies == Working /\ Intact => CopiesTrue

\* Before the reader starts nothing is in the temporary file.
TemporaryBlank == pc \in {"scan", "open"} => inode["temporary"].xattrs = 0 /\ done = 0

\* Before the scan nobody has touched the file, and it is where it was.
BeforeScan == pc = "scan" => path = "original"

\* After the last look the temporary file shows what scan saw, whatever happens now.
RenameReady == pc = "rename" => Contents("temporary") = first

IInv ==
  /\ Typed /\ TemporaryPrivate /\ NumbersFresh /\ ChangeTimeTells /\ TemporaryBlank
  /\ BeforeScan /\ IntactCopies /\ RenameReady

-----------------------------------------------------------------------------

LEMMA InitIInv == Init => IInv
<1> SUFFICES ASSUME Init PROVE IInv
  OBVIOUS
<1>1. PICK protected \in BOOLEAN :
         inode = [i \in Inodes |-> IF i = "original" THEN Blank(1, protected)
                                                     ELSE Blank(0, FALSE)]
  BY DEF Init
<1>2. inode \in [Inodes -> InodeType] /\ \A i \in Inodes : inode[i].changed \in {0, 1}
  <2>1. \A v \in {0, 1}, p \in BOOLEAN :
           Blank(v, p) \in InodeType /\ Blank(v, p).changed = v
    <3> SUFFICES ASSUME NEW v \in {0, 1}, NEW p \in BOOLEAN
                 PROVE  Blank(v, p) \in InodeType /\ Blank(v, p).changed = v
      OBVIOUS
    <3>1. v \in Nat /\ [b \in Blocks |-> v] \in [Blocks -> Nat]
      OBVIOUS
    <3> QED
      BY <3>1 DEF Blank, InodeType
  <2> QED
    BY <1>1, <2>1
<1>3. Typed
  <2>1. staged \in [Blocks -> Nat] /\ done \in 0 .. BlockCount
    BY PublishAssumption DEF Init, Garbage
  <2>2. /\ path \in Inodes \cup {"none"} /\ writer \in Inodes \cup {"none"}
        /\ saved \in [inode : Inodes \cup {"none"}, changed : Nat]
        /\ source \in Inodes \cup {"none"} /\ edits \in Nat /\ pc = "scan"
    BY DEF Init, Inodes
  <2>3. route \in {"direct", "scratch", "batch"} /\ verify \in BOOLEAN /\ pc \in PcType
    BY PublishAssumption DEF Init, PcType
  <2> QED
    BY <1>2, <2>1, <2>2, <2>3 DEF Typed
<1>4. NumbersFresh
  <2>1. edits = 1 /\ saved.changed = 0
    BY DEF Init
  <2> QED
    BY <1>2, <2>1 DEF NumbersFresh
<1>5. TemporaryBlank
  BY <1>1 DEF Init, TemporaryBlank, Inodes, Blank
<1> QED
  BY <1>3, <1>4, <1>5
     DEF Init, IInv, TemporaryPrivate, Renamed, ChangeTimeTells, Working,
     BeforeScan, IntactCopies, RenameReady

\* A change by others of any inode but the temporary file.
LEMMA ChangeIInv ==
  ASSUME IInv, NEW i \in Inodes, i = "temporary" => Renamed,
         NEW new \in InodeType, Change(i, new), UNCHANGED writer,
         path' = path \/ (path' = i /\ path' # "temporary")
  PROVE  IInv'
<1>1. /\ edits' = edits + 1 /\ Working
      /\ inode' = [inode EXCEPT ![i] = [new EXCEPT !.changed = edits + 1]]
      /\ UNCHANGED <<route, verify, pc, saved, source, done, staged, first>>
  BY DEF Change, Active, Working, choice, work
<1>2. [new EXCEPT !.changed = edits + 1] \in InodeType
  BY DEF IInv, Typed, InodeType
<1>3. Typed'
  BY <1>1, <1>2 DEF IInv, Typed
<1>4. NumbersFresh'
  BY <1>1, <1>2, <1>3 DEF IInv, Typed, NumbersFresh, InodeType
<1>5. i = "original" => inode'["original"].changed # saved.changed
  BY <1>1, <1>2 DEF IInv, Typed, NumbersFresh, InodeType, Inodes
<1>6. i # "original" => UNCHANGED inode["original"]
  BY <1>1 DEF IInv, Typed, Inodes
<1>7. ~Renamed => UNCHANGED inode["temporary"]
  BY <1>1 DEF IInv, Typed, Inodes
<1>8. TemporaryPrivate' /\ BeforeScan'
  BY <1>1 DEF IInv, TemporaryPrivate, BeforeScan, Renamed, Working
<1>9. ChangeTimeTells'
  BY <1>1, <1>5, <1>6 DEF IInv, ChangeTimeTells, Working, Running, Contents
<1>10. TemporaryBlank' /\ RenameReady'
  BY <1>1, <1>7 DEF IInv, TemporaryBlank, RenameReady, Renamed, Contents
<1>11. IntactCopies'
  <2>1. CASE Intact'
    <3>1. i # "original" /\ Intact
      BY <2>1, <1>1, <1>5, <1>6 DEF Intact
    <3>2. CopiesTrue
      BY <3>1, <1>1 DEF IInv, IntactCopies
    <3>3. CASE Renamed
      BY <3>2, <3>3, <1>1 DEF CopiesTrue, Renamed, AfterRead, AfterXattrs, AfterCopy,
         AfterRights, AfterVerify, IntactCopies
    <3>4. CASE ~Renamed
      BY <3>2, <3>4, <1>1, <1>7 DEF CopiesTrue, IntactCopies
    <3> QED
      BY <3>3, <3>4
  <2> QED
    BY <2>1 DEF IntactCopies
<1> QED
  BY <1>3, <1>4, <1>8, <1>9, <1>10, <1>11 DEF IInv

LEMMA OthersIInv == IInv /\ Others => IInv'
<1> SUFFICES ASSUME IInv, Others PROVE IInv'
  OBVIOUS
<1>1. CASE OthersWrite
  <2>1. PICK b \in Blocks :
           Change(writer, [inode[writer] EXCEPT !.body = [@ EXCEPT ![b] = edits + 1]])
    BY <1>1 DEF OthersWrite
  <2>2. writer \in Inodes /\ (writer = "temporary" => Renamed)
    BY <1>1 DEF OthersWrite, IInv, Typed, TemporaryPrivate
  <2>3. inode[writer] \in InodeType /\ edits + 1 \in Nat
    BY <2>2 DEF IInv, Typed
  <2>4. [inode[writer].body EXCEPT ![b] = edits + 1] \in [Blocks -> Nat]
    BY <2>3 DEF InodeType
  <2>5. [inode[writer] EXCEPT !.body = [@ EXCEPT ![b] = edits + 1]] \in InodeType
    BY <2>3, <2>4 DEF InodeType
  <2> QED
    BY <1>1, <2>1, <2>2, <2>5, ChangeIInv DEF OthersWrite
<1>2. CASE OthersSetAttributes
  <2>1. path \in Inodes /\ (path = "temporary" => Renamed)
    BY <1>2 DEF OthersSetAttributes, IInv, Typed, TemporaryPrivate
  <2>2. PICK new \in InodeType : Change(path, new)
    <3>1. inode[path] \in InodeType /\ edits + 1 \in Nat
      BY <2>1 DEF IInv, Typed
    <3>2. /\ [inode[path] EXCEPT !.xattrs = edits + 1] \in InodeType
          /\ [inode[path] EXCEPT !.rights = edits + 1] \in InodeType
          /\ [inode[path] EXCEPT !.protected = ~@] \in InodeType
      BY <3>1 DEF InodeType
    <3> QED
      BY <1>2, <3>2 DEF OthersSetAttributes
  <2> QED
    BY <1>2, <2>1, <2>2, ChangeIInv DEF OthersSetAttributes
<1>3. CASE OthersRename
  <2>1. PICK i \in {"original", "other"} \ {path} :
           /\ path' = i
           /\ Change(i, IF i = "other"
                        THEN [inode[i] EXCEPT !.body = [b \in Blocks |-> edits + 1],
                                              !.xattrs = edits + 1, !.rights = edits + 1]
                        ELSE inode[i])
    BY <1>3 DEF OthersRename
  <2>2. PICK new \in InodeType : Change(i, new)
    <3>1. inode[i] \in InodeType /\ edits + 1 \in Nat
      BY DEF IInv, Typed, Inodes
    <3>2. [b \in Blocks |-> edits + 1] \in [Blocks -> Nat]
      BY <3>1
    <3>3. [inode[i] EXCEPT !.body = [b \in Blocks |-> edits + 1],
                           !.xattrs = edits + 1, !.rights = edits + 1] \in InodeType
      BY <3>1, <3>2 DEF InodeType
    <3> QED
      BY <2>1, <3>1, <3>3
  <2> QED
    BY <1>3, <2>1, <2>2, ChangeIInv DEF OthersRename, Inodes
<1>4. CASE OthersRemove
  BY <1>4 DEF OthersRemove, Active, IInv, Typed, TemporaryPrivate, NumbersFresh,
     ChangeTimeTells, Contents, TemporaryBlank, BeforeScan, IntactCopies, Intact,
     RenameReady, Renamed, Working, Running, choice, work
<1>5. CASE OthersOpen
  BY <1>5 DEF OthersOpen, choice, work, history, IInv, Typed, TemporaryPrivate,
     NumbersFresh, ChangeTimeTells, Contents, TemporaryBlank, BeforeScan, IntactCopies,
     Intact, CopiesTrue, RenameReady, Renamed, Working, Running
<1>6. CASE OthersClose
  BY <1>6 DEF OthersClose, choice, work, IInv, Typed, TemporaryPrivate,
     NumbersFresh, ChangeTimeTells, Contents, TemporaryBlank, BeforeScan, IntactCopies,
     Intact, CopiesTrue, RenameReady, Renamed, Working, Running
<1> QED
  BY <1>1, <1>2, <1>3, <1>4, <1>5, <1>6 DEF Others

-----------------------------------------------------------------------------

\* What a step of Applesauce between the scan and the rename has to show.
LEMMA WorkIInv ==
  ASSUME IInv, Working, pc \notin {"rename", "times"},
         UNCHANGED <<path, edits, writer, route, verify, saved, first>>,
         UNCHANGED inode["original"], Typed',
         \A i \in Inodes : inode'[i].changed = inode[i].changed,
         pc' \notin {"scan", "open", "rename", "times", "done"},
         Intact /\ pc' \notin Ends => CopiesTrue'
  PROVE  IInv'
<1>1. TemporaryPrivate' /\ BeforeScan' /\ TemporaryBlank' /\ RenameReady'
  BY DEF IInv, Working, Running, Ends, TemporaryPrivate, Renamed, BeforeScan,
     TemporaryBlank, RenameReady
<1>2. NumbersFresh'
  BY DEF IInv, NumbersFresh
<1>3. ChangeTimeTells'
  BY DEF IInv, Working, Running, ChangeTimeTells, Contents
<1>4. IntactCopies'
  BY DEF IInv, Working, Running, IntactCopies, Intact
<1> QED
  BY <1>1, <1>2, <1>3, <1>4 DEF IInv

\* While the file is intact, what its handle shows is what scan saw.
LEMMA SourceTrue ==
  ASSUME IInv, Working, Intact, pc \in {"read", "xattrs", "copy", "rights", "verify"}
  PROVE  /\ source = "original" /\ CopiesTrue /\ Contents("original") = first
         /\ inode[source].xattrs = first.xattrs /\ inode[source].rights = first.rights
         /\ \A b \in Blocks : inode[source].body[b] = first.body[b]
<1>1. CopiesTrue /\ Contents("original") = first
  BY DEF IInv, IntactCopies, ChangeTimeTells, Intact
<1>2. source = "original"
  BY <1>1 DEF CopiesTrue
<1> QED
  BY <1>1, <1>2 DEF Contents

LEMMA ScanIInv == IInv /\ Scan => IInv'
<1> SUFFICES ASSUME IInv, Scan PROVE IInv'
  OBVIOUS
<1>1. /\ saved' = [inode |-> "original", changed |-> inode["original"].changed]
      /\ first' = Contents("original") /\ path = "original"
      /\ pc = "scan" /\ pc' \in {"skipped", "open"}
      /\ UNCHANGED <<path, inode, edits, writer, route, verify, source, done, staged>>
  BY DEF Scan, IInv, BeforeScan, File, world, choice
<1>2. Typed'
  BY <1>1 DEF IInv, Typed, InodeType, Inodes, PcType, Ends
<1>3. TemporaryPrivate' /\ TemporaryBlank' /\ BeforeScan' /\ RenameReady'
  BY <1>1 DEF IInv, TemporaryPrivate, Renamed, TemporaryBlank, BeforeScan, RenameReady
<1>4. NumbersFresh' /\ ChangeTimeTells'
  BY <1>1 DEF IInv, Typed, NumbersFresh, ChangeTimeTells, Contents, Inodes
<1>5. IntactCopies'
  BY <1>1 DEF IntactCopies, CopiesTrue, AfterRead, AfterXattrs, AfterCopy, AfterRights,
     AfterVerify, Working, Running, Ends
<1> QED
  BY <1>2, <1>3, <1>4, <1>5 DEF IInv

LEMMA OpenIInv == IInv /\ Open => IInv'
<1> SUFFICES ASSUME IInv, Open PROVE IInv'
  OBVIOUS
<1>1. /\ pc = "open" /\ path # "none" /\ source' = path /\ pc' = "read"
      /\ UNCHANGED <<path, inode, edits, writer, route, verify, saved, done, staged, first>>
  BY DEF Open, world, choice, history
<1>2. Working
  BY <1>1 DEF Working, Running, Ends
<1>3. Typed'
  BY <1>1 DEF IInv, Typed, PcType
<1>4. ASSUME Intact PROVE CopiesTrue'
  BY <1>1, <1>4, PublishAssumption DEF Intact, IInv, TemporaryBlank, CopiesTrue,
     AfterRead, AfterXattrs, AfterCopy, AfterRights, AfterVerify, Blocks
<1> QED
  BY <1>1, <1>2, <1>3, <1>4, WorkIInv

LEMMA ReadBlockIInv == IInv /\ ReadBlock => IInv'
<1> SUFFICES ASSUME IInv, ReadBlock PROVE IInv'
  OBVIOUS
<1>1. PICK v \in {inode[source].body[done + 1]} \cup (IF verify THEN {Garbage} ELSE {}) :
         staged' = [staged EXCEPT ![done + 1] = v]
  BY DEF ReadBlock
<1>2. /\ pc = "read" /\ done < BlockCount /\ done' = done + 1
      /\ UNCHANGED <<path, inode, edits, writer, route, verify, pc, saved, source, first>>
  BY DEF ReadBlock, world, choice, history
<1>3. Working
  BY <1>2 DEF Working, Running, Ends
<1>4. source \in Inodes /\ done + 1 \in Blocks /\ inode[source] \in InodeType
  BY <1>2, PublishAssumption DEF IInv, Typed, Blocks
<1>5. v \in Nat
  BY <1>1, <1>4 DEF InodeType, Garbage
<1>6. Typed'
  BY <1>1, <1>2, <1>4, <1>5, PublishAssumption DEF IInv, Typed
<1>7. ASSUME Intact PROVE CopiesTrue'
  <2>1. /\ source = "original" /\ CopiesTrue
        /\ \A b \in Blocks : inode[source].body[b] = first.body[b]
    BY <1>2, <1>3, <1>7, SourceTrue
  <2>2. ~verify => \A b \in Blocks : b <= done + 1 => staged'[b] = first.body[b]
    <3>1. ASSUME ~verify, NEW b \in Blocks, b <= done + 1 PROVE staged'[b] = first.body[b]
      <4>1. CASE b = done + 1
        BY <4>1, <3>1, <2>1, <1>1, <1>4 DEF IInv, Typed
      <4>2. CASE b # done + 1
        <5>1. b <= done
          BY <4>2, <3>1, <1>2 DEF IInv, Typed, Blocks
        <5> QED
          BY <5>1, <4>2, <3>1, <2>1, <1>1, <1>2 DEF CopiesTrue, IInv, Typed
      <4> QED
        BY <4>1, <4>2
    <3> QED
      BY <3>1
  <2> QED
    BY <2>1, <2>2, <1>2 DEF CopiesTrue, AfterRead, AfterXattrs, AfterCopy, AfterRights,
       AfterVerify
<1> QED
  BY <1>2, <1>3, <1>6, <1>7, WorkIInv

LEMMA CopyXattrsIInv == IInv /\ CopyXattrs => IInv'
<1> SUFFICES ASSUME IInv, CopyXattrs PROVE IInv'
  OBVIOUS
<1>1. /\ pc \in {"read", "xattrs"}
      /\ pc' = IF pc = "read" THEN "read" ELSE "copy"
      /\ inode' = [inode EXCEPT !["temporary"] =
                     [inode["temporary"] EXCEPT !.xattrs = inode[source].xattrs]]
      /\ UNCHANGED <<path, edits, writer, route, verify, saved, source, done, staged, first>>
  BY DEF CopyXattrs, Temporary, OthersUnchanged, choice, work, history
<1>2. Working
  BY <1>1 DEF Working, Running, Ends
<1>3. source \in Inodes /\ inode[source] \in InodeType /\ inode["temporary"] \in InodeType
  BY <1>1 DEF IInv, Typed, Inodes
<1>4. [inode["temporary"] EXCEPT !.xattrs = inode[source].xattrs] \in InodeType
  BY <1>3 DEF InodeType
<1>5. Typed'
  BY <1>1, <1>4 DEF IInv, Typed, PcType
<1>6. /\ UNCHANGED inode["original"]
      /\ \A i \in Inodes : inode'[i].changed = inode[i].changed
      /\ inode'["temporary"].xattrs = inode[source].xattrs
      /\ inode'["temporary"].body = inode["temporary"].body
  BY <1>1, <1>3 DEF IInv, Typed, InodeType, Inodes
<1>7. ASSUME Intact PROVE CopiesTrue'
  <2>1. source = "original" /\ CopiesTrue /\ inode[source].xattrs = first.xattrs
    BY <1>1, <1>2, <1>7, SourceTrue
  <2> QED
    BY <2>1, <1>1, <1>6 DEF CopiesTrue, AfterRead, AfterXattrs, AfterCopy, AfterRights,
       AfterVerify
<1> QED
  BY <1>1, <1>2, <1>5, <1>6, <1>7, WorkIInv

LEMMA AllReadIInv == IInv /\ AllRead => IInv'
<1> SUFFICES ASSUME IInv, AllRead PROVE IInv'
  OBVIOUS
<1>1. /\ pc = "read" /\ done = BlockCount /\ done' = 0
      /\ pc' \in {"copy", "xattrs", "reopen"}
      /\ pc' = "copy" => inode["temporary"].xattrs # 0
      /\ source' = IF pc' = "reopen" THEN "none" ELSE source
      /\ UNCHANGED <<path, inode, edits, writer, route, verify, saved, staged, first>>
  BY DEF AllRead, world, choice, history, IInv, Typed
<1>2. Working
  BY <1>1 DEF Working, Running, Ends
<1>3. Typed'
  <2>1. source \in Inodes /\ 0 \in 0 .. BlockCount
    BY <1>1, PublishAssumption DEF IInv, Typed
  <2> QED
    BY <2>1, <1>1 DEF IInv, Typed, PcType
<1>4. ASSUME Intact PROVE CopiesTrue'
  <2>1. source = "original" /\ CopiesTrue
    BY <1>1, <1>2, <1>4, SourceTrue
  <2>2. \A b \in Blocks : b <= done
    BY <1>1, PublishAssumption DEF Blocks
  <2> QED
    BY <2>1, <2>2, <1>1 DEF CopiesTrue, AfterRead, AfterXattrs, AfterCopy, AfterRights,
       AfterVerify
<1> QED
  BY <1>1, <1>2, <1>3, <1>4, WorkIInv

LEMMA ReopenIInv == IInv /\ Reopen => IInv'
<1> SUFFICES ASSUME IInv, Reopen PROVE IInv'
  OBVIOUS
<1>1. /\ pc = "reopen" /\ path # "none" /\ source' = path /\ pc' = "xattrs"
      /\ UNCHANGED <<path, inode, edits, writer, route, verify, saved, done, staged, first>>
  BY DEF Reopen, world, choice, history
<1>2. Working
  BY <1>1 DEF Working, Running, Ends
<1>3. Typed'
  BY <1>1 DEF IInv, Typed, PcType
<1>4. ASSUME Intact PROVE CopiesTrue'
  BY <1>1, <1>2, <1>4
     DEF Intact, IInv, IntactCopies, CopiesTrue, AfterRead, AfterXattrs,
     AfterCopy, AfterRights, AfterVerify
<1> QED
  BY <1>1, <1>2, <1>3, <1>4, WorkIInv

LEMMA CopyContentsIInv == IInv /\ CopyContents => IInv'
<1> SUFFICES ASSUME IInv, CopyContents PROVE IInv'
  OBVIOUS
<1>1. /\ pc = "copy" /\ pc' = "rights"
      /\ inode' = [inode EXCEPT !["temporary"] = [inode["temporary"] EXCEPT !.body = staged]]
      /\ UNCHANGED <<path, edits, writer, route, verify, saved, source, done, staged, first>>
  BY DEF CopyContents, Temporary, OthersUnchanged, choice, work, history
<1>2. Working
  BY <1>1 DEF Working, Running, Ends
<1>3. inode["temporary"] \in InodeType /\ staged \in [Blocks -> Nat]
  BY <1>1 DEF IInv, Typed, Inodes
<1>4. [inode["temporary"] EXCEPT !.body = staged] \in InodeType
  BY <1>3 DEF InodeType
<1>5. Typed'
  BY <1>1, <1>4 DEF IInv, Typed, PcType
<1>6. /\ UNCHANGED inode["original"]
      /\ \A i \in Inodes : inode'[i].changed = inode[i].changed
      /\ inode'["temporary"].xattrs = inode["temporary"].xattrs
      /\ inode'["temporary"].body = staged
  BY <1>1, <1>3 DEF IInv, Typed, InodeType, Inodes
<1>7. ASSUME Intact PROVE CopiesTrue'
  <2>1. source = "original" /\ CopiesTrue
    BY <1>1, <1>2, <1>7, SourceTrue
  <2> QED
    BY <2>1, <1>1, <1>6 DEF CopiesTrue, AfterRead, AfterXattrs, AfterCopy, AfterRights,
       AfterVerify
<1> QED
  BY <1>1, <1>2, <1>5, <1>6, <1>7, WorkIInv

LEMMA CopyRightsIInv == IInv /\ CopyRights => IInv'
<1> SUFFICES ASSUME IInv, CopyRights PROVE IInv'
  OBVIOUS
<1>1. /\ pc = "rights" /\ pc' = "verify"
      /\ inode' = [inode EXCEPT !["temporary"] =
                     [inode["temporary"] EXCEPT !.rights = inode[source].rights,
                                                !.protected = FALSE]]
      /\ UNCHANGED <<path, edits, writer, route, verify, saved, source, done, staged, first>>
  BY DEF CopyRights, Temporary, OthersUnchanged, choice, work, history
<1>2. Working
  BY <1>1 DEF Working, Running, Ends
<1>3. inode["temporary"] \in InodeType /\ source \in Inodes /\ inode[source] \in InodeType
  BY <1>1 DEF IInv, Typed, Inodes
<1>4. [inode["temporary"] EXCEPT !.rights = inode[source].rights, !.protected = FALSE]
        \in InodeType
  BY <1>3 DEF InodeType
<1>5. Typed'
  BY <1>1, <1>4 DEF IInv, Typed, PcType
<1>6. /\ UNCHANGED inode["original"]
      /\ \A i \in Inodes : inode'[i].changed = inode[i].changed
      /\ inode'["temporary"].xattrs = inode["temporary"].xattrs
      /\ inode'["temporary"].body = inode["temporary"].body
      /\ inode'["temporary"].rights = inode[source].rights
  BY <1>1, <1>3 DEF IInv, Typed, InodeType, Inodes
<1>7. ASSUME Intact PROVE CopiesTrue'
  <2>1. source = "original" /\ CopiesTrue /\ inode[source].rights = first.rights
    BY <1>1, <1>2, <1>7, SourceTrue
  <2>2. pc' = "verify" /\ verify' => \A b \in Blocks : b <= done' =>
           inode'["temporary"].body[b] = first'.body[b]
    BY <1>1, PublishAssumption DEF IInv, Typed, Blocks
  <2> QED
    BY <2>1, <2>2, <1>1, <1>6 DEF CopiesTrue, AfterRead, AfterXattrs, AfterCopy,
       AfterRights, AfterVerify
<1> QED
  BY <1>1, <1>2, <1>5, <1>6, <1>7, WorkIInv

LEMMA VerifyBlockIInv == IInv /\ VerifyBlock => IInv'
<1> SUFFICES ASSUME IInv, VerifyBlock PROVE IInv'
  OBVIOUS
<1>1. /\ pc = "verify" /\ verify /\ done < BlockCount /\ done' = done + 1
      /\ inode["temporary"].body[done + 1] = inode[source].body[done + 1]
      /\ UNCHANGED <<path, inode, edits, writer, route, verify, pc, saved, source, staged,
                     first>>
  BY DEF VerifyBlock, world, choice, history
<1>2. Working
  BY <1>1 DEF Working, Running, Ends
<1>3. Typed'
  BY <1>1, PublishAssumption DEF IInv, Typed
<1>4. ASSUME Intact PROVE CopiesTrue'
  <2>1. /\ source = "original" /\ CopiesTrue
        /\ \A b \in Blocks : inode[source].body[b] = first.body[b]
    BY <1>1, <1>2, <1>4, SourceTrue
  <2>2. \A b \in Blocks : b <= done + 1 => b <= done \/ b = done + 1
    BY DEF Blocks, IInv, Typed
  <2>3. \A b \in Blocks : b <= done + 1 => inode["temporary"].body[b] = first.body[b]
    BY <2>1, <2>2, <1>1 DEF CopiesTrue
  <2> QED
    BY <2>1, <2>3, <1>1 DEF CopiesTrue, AfterRead, AfterXattrs, AfterCopy, AfterRights,
       AfterVerify
<1> QED
  BY <1>1, <1>2, <1>3, <1>4, WorkIInv

LEMMA VerifiedIInv == IInv /\ Verified => IInv'
<1> SUFFICES ASSUME IInv, Verified PROVE IInv'
  OBVIOUS
<1>1. /\ pc = "verify" /\ (verify => done = BlockCount)
      /\ source' = "none" /\ pc' = "look"
      /\ UNCHANGED <<path, inode, edits, writer, route, verify, saved, done, staged, first>>
  BY DEF Verified, world, choice, history
<1>2. Working
  BY <1>1 DEF Working, Running, Ends
<1>3. Typed'
  BY <1>1 DEF IInv, Typed, PcType
<1>4. ASSUME Intact PROVE CopiesTrue'
  <2>1. CopiesTrue
    BY <1>1, <1>2, <1>4, SourceTrue
  <2>2. done = BlockCount => \A b \in Blocks : b <= done
    BY PublishAssumption DEF Blocks
  <2>3. \A b \in Blocks : inode["temporary"].body[b] = first.body[b]
    BY <2>1, <2>2, <1>1 DEF CopiesTrue, AfterCopy, IInv, Typed
  <2> QED
    BY <2>1, <2>3, <1>1 DEF CopiesTrue, AfterRead, AfterXattrs, AfterCopy, AfterRights,
       AfterVerify
<1> QED
  BY <1>1, <1>2, <1>3, <1>4, WorkIInv

LEMMA PrepareIInv == IInv /\ Prepare => IInv'
BY ScanIInv, OpenIInv, ReadBlockIInv, CopyXattrsIInv, AllReadIInv, ReopenIInv,
   CopyContentsIInv, CopyRightsIInv, VerifyBlockIInv, VerifiedIInv DEF Prepare

-----------------------------------------------------------------------------

\* A step from one look at the file to the next, or to the end, that changes neither the
\* files nor what was copied.
LEMMA CheckIInv ==
  ASSUME IInv, pc \in {"look", "consult", "look again"},
         pc' \in {"consult", "look again", "skipped", "failed"},
         UNCHANGED <<path, inode, edits, writer, route, verify, saved, source, done, staged,
                     first>>
  PROVE  IInv'
<1>1. Working /\ Typed'
  BY DEF Working, Running, Ends, IInv, Typed, PcType
<1>2. ASSUME Intact, pc' \notin Ends PROVE CopiesTrue'
  BY <1>1, <1>2 DEF IInv, IntactCopies, CopiesTrue, AfterRead, AfterXattrs, AfterCopy,
     AfterRights, AfterVerify, Ends
<1> QED
  BY <1>1, <1>2, WorkIInv

\* A step that changes nothing of what the invariant speaks of.
LEMMA SameIInv ==
  ASSUME IInv, UNCHANGED <<path, inode, edits, writer, route, verify, pc, saved, source,
                           done, staged, first>>
  PROVE  IInv'
BY DEF IInv, Typed, TemporaryPrivate, Renamed, NumbersFresh, ChangeTimeTells, Working,
   Running, Contents, Intact, CopiesTrue, IntactCopies, TemporaryBlank, BeforeScan,
   RenameReady

\* The last look finds the file intact, so that the copy shows what scan saw.
LEMMA LookAgainIInv == IInv /\ LookAgain => IInv'
<1> SUFFICES ASSUME IInv, LookAgain PROVE IInv'
  OBVIOUS
<1>1. /\ pc = "look again" /\ path # "none"
      /\ pc' \in {"skipped", "failed"} \/ (pc' = "rename" /\ SameSource(path))
      /\ UNCHANGED <<path, inode, edits, writer, route, verify, saved, source, done, staged,
                     first>>
  BY DEF LookAgain, CurrentSource, world, choice, work
<1>2. CASE pc' \in {"skipped", "failed"}
  BY <1>1, <1>2, CheckIInv
<1>3. CASE pc' = "rename" /\ SameSource(path)
  <2>1. Working /\ Intact
    BY <1>1, <1>3 DEF Working, Running, Ends, SameSource, Intact, IInv, ChangeTimeTells
  <2>2. CopiesTrue /\ Contents("original") = first
    BY <2>1 DEF IInv, IntactCopies, ChangeTimeTells, Intact
  <2>3. /\ inode["temporary"].xattrs = first.xattrs
        /\ inode["temporary"].rights = first.rights
        /\ \A b \in Blocks : inode["temporary"].body[b] = first.body[b]
    BY <2>2, <1>1 DEF CopiesTrue, AfterXattrs, AfterRights, AfterVerify
  <2>4. inode["temporary"].body = first.body
    <3>1. first.body \in [Blocks -> Nat] /\ inode["temporary"].body \in [Blocks -> Nat]
      BY <2>2 DEF IInv, Typed, InodeType, Inodes, Contents
    <3> QED
      BY <3>1, <2>3
  <2>5. Contents("temporary") = first
    BY <2>2, <2>3, <2>4 DEF Contents
  <2>6. RenameReady'
    BY <2>5, <1>1 DEF RenameReady, Contents
  <2>7. Typed' /\ TemporaryPrivate' /\ TemporaryBlank' /\ BeforeScan'
    BY <1>1, <1>3 DEF IInv, Typed, PcType, TemporaryPrivate, Renamed, TemporaryBlank,
       BeforeScan
  <2>8. NumbersFresh' /\ ChangeTimeTells'
    BY <2>1, <1>1 DEF IInv, NumbersFresh, ChangeTimeTells, Contents
  <2>9. IntactCopies'
    BY <2>2, <1>1, <1>3 DEF IntactCopies, CopiesTrue, AfterRead, AfterXattrs, AfterCopy,
       AfterRights, AfterVerify
  <2> QED
    BY <2>6, <2>7, <2>8, <2>9 DEF IInv
<1> QED
  BY <1>1, <1>2, <1>3

LEMMA RenameIInv == IInv /\ (Rename \/ ResetTimes) => IInv'
<1> SUFFICES ASSUME IInv, Rename \/ ResetTimes PROVE IInv'
  OBVIOUS
<1>1. /\ pc \in {"rename", "times"} /\ pc' \in {"times", "done"}
      /\ path' \in {path, "temporary"} /\ (pc = "rename" => path' = "temporary")
      /\ pc' = "times" => pc = "rename"
      /\ UNCHANGED <<inode, edits, writer, route, verify, saved, source, done, staged,
                     first>>
  BY DEF Rename, ResetTimes, world, choice, work, history
<1>2. Typed'
  <2>1. path' \in Inodes \cup {"none"} /\ pc' \in PcType
    BY <1>1 DEF IInv, Typed, PcType, Ends, Inodes
  <2> QED
    BY <2>1, <1>1 DEF IInv, Typed
<1>3. TemporaryPrivate' /\ TemporaryBlank' /\ BeforeScan' /\ RenameReady'
  BY <1>1 DEF TemporaryPrivate, Renamed, TemporaryBlank, BeforeScan, RenameReady
<1>4. NumbersFresh' /\ ChangeTimeTells'
  BY <1>1 DEF IInv, NumbersFresh, ChangeTimeTells, Contents, Working, Running, Ends
<1>5. IntactCopies'
  BY <1>1 DEF IInv, IntactCopies, Intact, Working, Running, Ends, CopiesTrue, AfterRead,
     AfterXattrs, AfterCopy, AfterRights, AfterVerify, TemporaryPrivate, Renamed
<1> QED
  BY <1>2, <1>4, <1>5, <1>3 DEF IInv

LEMMA StopIInv == IInv /\ Stop => IInv'
<1> SUFFICES ASSUME IInv, Stop PROVE IInv'
  OBVIOUS
<1>1. /\ pc \notin {"times", "done"} /\ pc' = "failed"
      /\ UNCHANGED <<path, inode, edits, writer, route, verify, saved, source, done, staged,
                     first>>
  BY DEF Stop, Running, Ends, world, choice, work, history
<1> QED
  BY <1>1 DEF IInv, Typed, PcType, Ends, TemporaryPrivate, Renamed, NumbersFresh,
     ChangeTimeTells, Working, Running, IntactCopies, TemporaryBlank, BeforeScan, RenameReady

\* Whoever collects a snapshot for this file waits for it.
CollectorWaits == Running /\ collecting.by = "us" => pc = "consult"

LEMMA CollectorWaitsNext == CollectorWaits /\ [Next]_vars => CollectorWaits'
<1> SUFFICES ASSUME CollectorWaits, [Next]_vars PROVE CollectorWaits'
  OBVIOUS
<1> USE DEF CollectorWaits, Running, Ends, clock
<1>1. CASE Prepare
  BY <1>1 DEF Prepare, Scan, Open, ReadBlock, CopyXattrs, AllRead, Reopen, CopyContents,
     CopyRights, VerifyBlock, Verified
<1>2. CASE Look \/ Consult \/ LookAgain \/ Rename \/ ResetTimes \/ Stop
  BY <1>2 DEF Look, Consult, LookAgain, CurrentSource, Rename, ResetTimes, Stop
<1>3. CASE \E who \in {"us", "another"} : Collect(who)
  BY <1>3 DEF Collect
<1>4. CASE Collected
  BY <1>4 DEF Collected
<1>5. CASE Others
  BY <1>5 DEF Others, OthersWrite, OthersSetAttributes, OthersRename, OthersRemove,
     OthersOpen, OthersClose, Change
<1>6. CASE Tick \/ UNCHANGED vars
  BY <1>6 DEF Tick, vars
<1> QED
  BY <1>1, <1>2, <1>3, <1>4, <1>5, <1>6 DEF Next, Replace, Terminated

LEMMA ReplaceIInv == IInv /\ CollectorWaits /\ Replace => IInv'
<1> SUFFICES ASSUME IInv, CollectorWaits, Replace PROVE IInv'
  OBVIOUS
<1>1. CASE Look
  BY <1>1, CheckIInv DEF Look, CurrentSource, world, choice, work
<1>2. CASE Collect("us")
  BY <1>2, SameIInv DEF Collect, world, choice, work, history
<1>3. CASE Collected
  <2>1. CASE collecting.by = "us"
    BY <1>3, <2>1, CheckIInv DEF Collected, CollectorWaits, Answer, world, choice, work
  <2>2. CASE collecting.by # "us"
    BY <1>3, <2>2, SameIInv DEF Collected, world, choice, work
  <2> QED
    BY <2>1, <2>2
<1>4. CASE Consult
  BY <1>4, CheckIInv DEF Consult, Answer, world, choice, work
<1> QED
  BY <1>1, <1>2, <1>3, <1>4, LookAgainIInv, RenameIInv DEF Replace

LEMMA NextIInv == IInv /\ CollectorWaits /\ [Next]_vars => IInv'
<1> SUFFICES ASSUME IInv, CollectorWaits, [Next]_vars PROVE IInv'
  OBVIOUS
<1>1. CASE Collect("another") \/ Tick
  BY <1>1, SameIInv DEF Collect, Tick, world, choice, work, history
<1>2. CASE UNCHANGED vars
  BY <1>2, SameIInv DEF vars, world, choice, work, history
<1> QED
  BY <1>1, <1>2, OthersIInv, PrepareIInv, ReplaceIInv, StopIInv DEF Next, Terminated

-----------------------------------------------------------------------------

\* The invariant holds throughout.
THEOREM PublishInvariant == Spec => [](IInv /\ CollectorWaits)
<1>1. Init => IInv /\ CollectorWaits
  <2>1. Init => CollectorWaits
    BY DEF Init, CollectorWaits
  <2> QED
    BY <2>1, InitIInv
<1>2. IInv /\ CollectorWaits /\ [Next]_vars => (IInv /\ CollectorWaits)'
  BY NextIInv, CollectorWaitsNext
<1> QED
  BY <1>1, <1>2, PTL DEF Spec

\* Whatever others do and whenever: the file that Rename puts at the path shows contents
\* and attributes as they were together when scan saw the file (writer.rs, persist_file).
THEOREM PublishedIsNotTorn == Spec => NoTornFile
<1>1. IInv /\ [Next]_vars => [Replacing => File' = first]_vars
  <2> SUFFICES ASSUME IInv, [Next]_vars, Replacing PROVE File' = first
    BY DEF vars
  <2>1. pc = "rename" /\ path' = "temporary"
    BY DEF Replacing
  <2>2. Contents("temporary") = first
    BY <2>1 DEF IInv, RenameReady
  <2>3. path' # path
    BY <2>1 DEF IInv, TemporaryPrivate, Renamed
  <2>4. ~Others
    BY <2>1, <2>3
       DEF Others, OthersWrite, OthersSetAttributes, OthersRename, OthersRemove,
       OthersOpen, OthersClose
  <2>5. UNCHANGED inode
    BY <2>1, <2>3, <2>4
       DEF Next, Prepare, Scan, Open, ReadBlock, CopyXattrs, AllRead, Reopen,
       CopyContents, CopyRights, VerifyBlock, Verified, Replace, Look, Collect, Collected,
       Consult, LookAgain, CurrentSource, Rename, ResetTimes, Stop, Tick, Terminated, vars,
       world
  <2> QED
    BY <2>1, <2>2, <2>5 DEF File, Contents
<1> QED
  BY <1>1, PublishInvariant, PTL DEF Spec, NoTornFile

-----------------------------------------------------------------------------
(* The refinement of AtomicReplace. *)

\* Nobody protects the temporary file before the rename, and if others have done nothing
\* since the last look, the file still shows what scan saw and may be replaced.
LastLook ==
  /\ exposed \in BOOLEAN
  /\ ~Renamed => inode["temporary"].protected = FALSE
  /\ pc = "rename" /\ exposed = FALSE => File = first /\ Protected = FALSE

\* Steps that show nobody anything: neither the file nor any of the abstract variables.
Hidden == UNCHANGED <<File, Protected, exposed, Renamed>>

LEMMA PrepareHidden ==
  ASSUME IInv, LastLook, Prepare, ~Scan
  PROVE  /\ Hidden /\ UNCHANGED exposed
         /\ ~Renamed /\ ~Renamed' /\ pc' # "rename"
         /\ inode'["temporary"].protected = FALSE
<1>1. /\ ~Renamed /\ ~Renamed' /\ pc' # "rename" /\ UNCHANGED <<path, exposed>>
      /\ \/ UNCHANGED inode
         \/ Temporary([inode["temporary"] EXCEPT !.xattrs = inode[source].xattrs])
         \/ Temporary([inode["temporary"] EXCEPT !.body = staged])
         \/ Temporary([inode["temporary"] EXCEPT !.rights = inode[source].rights,
                                                 !.protected = FALSE])
  <2>1. CASE Open \/ ReadBlock \/ Reopen \/ VerifyBlock \/ Verified
    BY <2>1 DEF Open, ReadBlock, Reopen, VerifyBlock, Verified, Renamed, world, history
  <2>2. CASE AllRead
    <3>1. pc' \in {"copy", "xattrs", "reopen"}
      BY <2>2 DEF AllRead, IInv, Typed
    <3> QED
      BY <2>2, <3>1 DEF AllRead, Renamed, world, history
  <2>3. CASE CopyXattrs
    BY <2>3 DEF CopyXattrs, OthersUnchanged, Renamed, history
  <2>4. CASE CopyContents
    BY <2>4 DEF CopyContents, OthersUnchanged, Renamed, history
  <2>5. CASE CopyRights
    BY <2>5 DEF CopyRights, OthersUnchanged, Renamed, history
  <2> QED
    BY <2>1, <2>2, <2>3, <2>4, <2>5 DEF Prepare
<1>2. /\ path # "temporary" /\ path \in Inodes \cup {"none"} /\ "temporary" \in Inodes
      /\ inode \in [Inodes -> InodeType]
  BY <1>1 DEF IInv, TemporaryPrivate, Typed, Inodes
<1>3. inode["temporary"] \in InodeType /\ inode["temporary"].protected = FALSE
  BY <1>1, <1>2 DEF LastLook
<1>4. /\ inode'["temporary"].protected = FALSE
      /\ path # "none" => UNCHANGED inode[path]
  <2>1. CASE UNCHANGED inode
    BY <2>1, <1>1, <1>3
  <2>2. ASSUME NEW new, Temporary(new), new.protected = FALSE
        PROVE  /\ inode'["temporary"].protected = FALSE
               /\ path # "none" => UNCHANGED inode[path]
    BY <2>2, <1>1, <1>2 DEF Temporary
  <2>3. /\ [inode["temporary"] EXCEPT !.xattrs = inode[source].xattrs].protected = FALSE
        /\ [inode["temporary"] EXCEPT !.body = staged].protected = FALSE
        /\ [inode["temporary"] EXCEPT !.rights = inode[source].rights,
                                     !.protected = FALSE].protected = FALSE
    BY <1>3 DEF InodeType
  <2> QED
    BY <1>1, <2>1, <2>2, <2>3
<1>5. UNCHANGED <<File, Protected>>
  BY <1>1, <1>4 DEF File, Protected, Contents
<1> QED
  BY <1>1, <1>4, <1>5 DEF Hidden, Renamed

LEMMA ReplaceHidden ==
  ASSUME CollectorWaits,
         \/ Collect("us") \/ Collect("another") \/ Collected \/ Consult \/ ResetTimes
         \/ Stop \/ Tick \/ OthersOpen \/ OthersClose \/ UNCHANGED vars
  PROVE  Hidden /\ UNCHANGED <<inode, first>> /\ (pc' = "rename" => pc = "rename")
<1>1. UNCHANGED <<path, inode, first, exposed>>
  BY DEF Collect, Collected, Consult, ResetTimes, Stop, Tick, OthersOpen, OthersClose,
     vars, world, history
<1>2. UNCHANGED <<File, Protected>>
  BY <1>1 DEF File, Protected, Contents
<1>3. UNCHANGED Renamed /\ (pc' = "rename" => pc = "rename")
  <2>1. CASE Collect("us") \/ Collect("another") \/ Tick \/ OthersOpen \/ OthersClose
             \/ UNCHANGED vars
    BY <2>1 DEF Collect, Tick, OthersOpen, OthersClose, vars, Renamed
  <2>2. CASE Consult
    <3>1. pc = "consult" /\ pc' \in {"skipped", "look again"}
      BY <2>2 DEF Consult, Answer
    <3>2. ~Renamed /\ ~Renamed' /\ pc' # "rename"
      BY <3>1 DEF Renamed
    <3> QED
      BY <3>2 DEF Renamed
  <2>3. CASE ResetTimes
    BY <2>3 DEF ResetTimes, Renamed
  <2>4. CASE Stop
    BY <2>4 DEF Stop, Running, Ends, Renamed
  <2>5. CASE Collected /\ collecting.by = "us"
    <3>1. pc = "consult" /\ pc' \in {"skipped", "look again"}
      BY <2>5 DEF Collected, Answer, CollectorWaits
    <3>2. ~Renamed /\ ~Renamed' /\ pc' # "rename"
      BY <3>1 DEF Renamed
    <3> QED
      BY <3>2 DEF Renamed
  <2>6. CASE Collected /\ collecting.by # "us"
    BY <2>6 DEF Collected, Renamed
  <2> QED
    BY <2>1, <2>2, <2>3, <2>4, <2>5, <2>6
<1> QED
  BY <1>1, <1>2, <1>3 DEF Hidden

\* Changes by others are seen as such.
LEMMA OthersSeen ==
  ASSUME IInv, LastLook,
         OthersWrite \/ OthersSetAttributes \/ OthersRename \/ OthersRemove
  PROVE  /\ exposed' = TRUE /\ UNCHANGED pc
         /\ ~Renamed => inode'["temporary"] = inode["temporary"]
<1>1. exposed' = TRUE /\ UNCHANGED pc
  BY DEF OthersWrite, OthersSetAttributes, OthersRename, OthersRemove, Change
<1>2. \A i, new : i # "temporary" /\ Change(i, new)
                   => inode'["temporary"] = inode["temporary"]
  BY DEF Change, IInv, Typed, Inodes
<1>3. CASE OthersRemove
  BY <1>1, <1>3 DEF OthersRemove
<1>4. CASE OthersWrite
  BY <1>1, <1>2, <1>4 DEF OthersWrite, IInv, TemporaryPrivate
<1>5. CASE OthersSetAttributes
  BY <1>1, <1>2, <1>5 DEF OthersSetAttributes, IInv, TemporaryPrivate
<1>6. CASE OthersRename
  BY <1>1, <1>2, <1>6 DEF OthersRename
<1> QED
  BY <1>3, <1>4, <1>5, <1>6

\* A look at the file changes nothing but what is known of it.
LEMMA LookSeen ==
  ASSUME IInv, LastLook, Scan \/ Look \/ LookAgain
  PROVE  /\ exposed' = FALSE /\ UNCHANGED <<path, inode, File, Protected>>
         /\ ~Renamed /\ ~Renamed'
         /\ pc' = "rename"
              => LookAgain /\ UNCHANGED first /\ SameSource(path) /\ ~Protected
<1>1. exposed' = FALSE /\ UNCHANGED <<path, inode>>
  BY DEF Scan, Look, LookAgain, CurrentSource, world
<1>2. UNCHANGED <<File, Protected>>
  BY <1>1 DEF File, Protected, Contents
<1>3. CASE Scan
  <2>1. pc = "scan" /\ pc' \in {"skipped", "open"}
    BY <1>3 DEF Scan
  <2> QED
    BY <1>1, <1>2, <2>1 DEF Renamed
<1>4. CASE Look
  <2>1. pc = "look" /\ pc' \in {"skipped", "consult", "failed"}
    BY <1>4 DEF Look, CurrentSource
  <2> QED
    BY <1>1, <1>2, <2>1 DEF Renamed
<1>5. CASE LookAgain
  <2>1. /\ pc = "look again" /\ pc' \in {"skipped", "rename", "failed"} /\ UNCHANGED first
        /\ pc' = "rename" => SameSource(path) /\ ~Protected
    BY <1>5 DEF LookAgain, CurrentSource
  <2> QED
    BY <1>1, <1>2, <1>5, <2>1 DEF Renamed
<1> QED
  BY <1>3, <1>4, <1>5

LEMMA LastLookNext == IInv /\ CollectorWaits /\ LastLook /\ [Next]_vars => LastLook'
<1> SUFFICES ASSUME IInv, CollectorWaits, LastLook, [Next]_vars PROVE LastLook'
  OBVIOUS
<1>1. CASE Prepare /\ ~Scan
  BY <1>1, PrepareHidden DEF Hidden, LastLook
<1>2. CASE \/ Collect("us") \/ Collect("another") \/ Collected \/ Consult \/ ResetTimes
           \/ Stop \/ Tick \/ OthersOpen \/ OthersClose \/ UNCHANGED vars
  BY <1>2, ReplaceHidden DEF Hidden, LastLook
<1>3. CASE OthersWrite \/ OthersSetAttributes \/ OthersRename \/ OthersRemove
  BY <1>3, OthersSeen DEF LastLook, Renamed
<1>4. CASE Scan \/ Look \/ LookAgain
  <2>1. ASSUME pc' = "rename" PROVE File' = first' /\ Protected' = FALSE
    <3>1. /\ UNCHANGED <<File, Protected, first>>
          /\ pc = "look again" /\ SameSource(path) /\ ~Protected
      BY <1>4, <2>1, LookSeen DEF LookAgain
    <3>2. path = "original" /\ Contents("original") = first
      BY <3>1 DEF SameSource, IInv, ChangeTimeTells, Working, Running, Ends
    <3>3. File = first
      BY <3>2 DEF File
    <3>4. Protected \in BOOLEAN
      BY DEF Protected, IInv, Typed, InodeType
    <3> QED
      BY <3>1, <3>3, <3>4
  <2> QED
    BY <1>4, <2>1, LookSeen DEF LastLook
<1>5. CASE Rename
  BY <1>5 DEF Rename, LastLook, Renamed, history
<1> QED
  BY <1>1, <1>2, <1>3, <1>4, <1>5 DEF Next, Replace, Others, Prepare, Terminated

\* Every step is a step of AtomicReplace or shows nothing.
LEMMA StepRefines ==
  IInv /\ CollectorWaits /\ LastLook /\ [Next]_vars
    => [Promise!Others \/ Promise!Look \/ Promise!Replace]_(Promise!vars)
<1> SUFFICES ASSUME IInv, CollectorWaits, LastLook, [Next]_vars
             PROVE  Promise!Others \/ Promise!Look \/ Promise!Replace
                    \/ UNCHANGED Promise!vars
  OBVIOUS
<1>1. CASE Prepare /\ ~Scan
  BY <1>1, PrepareHidden DEF Hidden, Promise!vars, Renamed
<1>2. CASE \/ Collect("us") \/ Collect("another") \/ Collected \/ Consult \/ ResetTimes
           \/ Stop \/ Tick \/ OthersOpen \/ OthersClose \/ UNCHANGED vars
  BY <1>2, ReplaceHidden DEF Hidden, Promise!vars, Renamed
<1>3. CASE OthersWrite \/ OthersSetAttributes \/ OthersRename \/ OthersRemove
  BY <1>3, OthersSeen DEF Promise!Others
<1>4. CASE Scan \/ Look \/ LookAgain
  <2>1. /\ exposed' = FALSE /\ UNCHANGED <<File, Protected>>
        /\ pc \notin {"times", "done"} /\ pc' \notin {"times", "done"}
    BY <1>4, LookSeen DEF Renamed
  <2> QED
    BY <2>1 DEF Promise!Look
<1>5. CASE Rename
  <2>1. /\ pc = "rename" /\ pc' = "times" /\ path' = "temporary"
        /\ UNCHANGED <<inode, first, exposed>>
    BY <1>5 DEF Rename, history
  <2>2. Contents("temporary") = first /\ inode["temporary"].protected = FALSE
    BY <2>1 DEF IInv, RenameReady, LastLook, Renamed
  <2>3. File' = first /\ Protected' = FALSE
    BY <2>1, <2>2 DEF File, Protected, Contents
  <2>4. exposed = FALSE => File = first /\ Protected = FALSE
    BY <2>1 DEF LastLook
  <2> QED
    BY <2>1, <2>3, <2>4 DEF Promise!Replace, LastLook
<1> QED
  BY <1>1, <1>2, <1>3, <1>4, <1>5 DEF Next, Replace, Others, Prepare, Terminated

\* At every moment, and so after a crash at any step, the path names the old file or the
\* complete new one, and the exchange itself shows nobody anything.
THEOREM PublishImplementsAtomicReplace == Spec => ImplementsAtomicReplace
<1>1. Init => LastLook /\ Promise!Init
  <2> SUFFICES ASSUME Init PROVE LastLook /\ Promise!Init
    OBVIOUS
  <2>1. inode["temporary"].protected = FALSE
    BY DEF Init, Inodes, Blank
  <2>2. pc = "scan" /\ exposed = TRUE
    BY DEF Init
  <2> QED
    BY <2>1, <2>2 DEF LastLook, Renamed, Promise!Init
<1>2. Spec => []LastLook
  BY <1>1, LastLookNext, PublishInvariant, PTL DEF Spec
<1> QED
  BY <1>1, <1>2, StepRefines, PublishInvariant, PTL
     DEF Spec, ImplementsAtomicReplace, Promise!Spec

-----------------------------------------------------------------------------
(* The bounds of the types. *)

BoundedInode ==
  [body : [Blocks -> 0 .. MaxEdits], xattrs : 0 .. MaxEdits, rights : 0 .. MaxEdits,
   changed : 0 .. MaxEdits, protected : BOOLEAN]
SnapshotType ==
  [taken : BOOLEAN, at : 0 .. MaxTime, ok : BOOLEAN, writers : SUBSET Inodes]
CollectingType ==
  [by : {"nobody", "us", "another"}, since : 0 .. MaxTime, ok : BOOLEAN,
   writers : SUBSET Inodes]
SavedType == [inode : Inodes \cup {"none"}, changed : 0 .. MaxEdits]
PayloadType == [Blocks -> 0 .. MaxEdits]

\* TypeOK in three parts.
Placed ==
  /\ path \in Inodes \cup {"none"} /\ inode \in [Inodes -> BoundedInode]
  /\ writer \in Inodes \cup {"none"} /\ hidden \in BOOLEAN
  /\ route \in Routes /\ verify \in BOOLEAN /\ pc \in PcType
  /\ saved \in SavedType /\ source \in Inodes \cup {"none"} /\ staged \in PayloadType
  /\ exposed \in BOOLEAN
Numbered ==
  /\ edits \in 1 .. MaxEdits /\ done \in 0 .. BlockCount
  /\ openedAt \in 0 .. MaxTime /\ now \in 0 .. MaxTime /\ checkedAt \in 0 .. MaxTime
Dated == snapshot \in SnapshotType /\ collecting \in CollectingType
Bounded == Placed /\ Numbered /\ Dated

\* What others change, with a number within the bound.
LEMMA ChangeBounded ==
  ASSUME Bounded, NEW i \in Inodes, NEW new, Change(i, new),
         edits + 1 \in 0 .. MaxEdits => [new EXCEPT !.changed = edits + 1] \in BoundedInode,
         path' \in Inodes \cup {"none"}, UNCHANGED <<writer, openedAt, hidden>>
  PROVE  Bounded'
<1>1. edits + 1 \in 1 .. MaxEdits /\ edits' = edits + 1 /\ exposed' = TRUE
  BY PublishAssumption DEF Change, Bounded, Numbered
<1>2. inode' \in [Inodes -> BoundedInode]
  BY <1>1 DEF Change, Bounded, Placed
<1> QED
  BY <1>1, <1>2
     DEF Change, Bounded, Placed, Numbered, Dated, BoundedInode, clock, choice, work

LEMMA OthersBounded == Bounded /\ Others => Bounded'
<1> SUFFICES ASSUME Bounded, Others PROVE Bounded'
  OBVIOUS
<1>1. \A i \in Inodes : inode[i] \in BoundedInode
  BY DEF Bounded, Placed
<1>2. CASE OthersWrite
  <2>1. PICK b \in Blocks :
           Change(writer, [inode[writer] EXCEPT !.body = [@ EXCEPT ![b] = edits + 1]])
    BY <1>2 DEF OthersWrite
  <2>2. writer \in Inodes
    BY <1>2 DEF OthersWrite, Bounded, Placed
  <2>3. ASSUME edits + 1 \in 0 .. MaxEdits
        PROVE  [[inode[writer] EXCEPT !.body = [@ EXCEPT ![b] = edits + 1]]
                  EXCEPT !.changed = edits + 1] \in BoundedInode
    <3>1. [inode[writer].body EXCEPT ![b] = edits + 1] \in [Blocks -> 0 .. MaxEdits]
      BY <1>1, <2>2, <2>3 DEF BoundedInode
    <3> QED
      BY <1>1, <2>2, <2>3, <3>1 DEF BoundedInode
  <2> QED
    BY <1>2, <2>1, <2>2, <2>3, ChangeBounded DEF OthersWrite, Bounded, Placed
<1>3. CASE OthersSetAttributes
  <2>1. path \in Inodes
    BY <1>3 DEF OthersSetAttributes, Bounded, Placed
  <2>2. PICK new :
           /\ Change(path, new)
           /\ edits + 1 \in 0 .. MaxEdits => [new EXCEPT !.changed = edits + 1] \in BoundedInode
    <3>1. inode[path] \in BoundedInode
      BY <1>1, <2>1
    <3>2. edits + 1 \in 0 .. MaxEdits =>
            /\ [[inode[path] EXCEPT !.xattrs = edits + 1] EXCEPT !.changed = edits + 1]
                 \in BoundedInode
            /\ [[inode[path] EXCEPT !.rights = edits + 1] EXCEPT !.changed = edits + 1]
                 \in BoundedInode
            /\ [[inode[path] EXCEPT !.protected = ~@] EXCEPT !.changed = edits + 1]
                 \in BoundedInode
      BY <3>1 DEF BoundedInode
    <3> QED
      BY <1>3, <3>2 DEF OthersSetAttributes
  <2> QED
    BY <1>3, <2>1, <2>2, ChangeBounded DEF OthersSetAttributes
<1>4. CASE OthersRename
  <2>1. PICK i \in {"original", "other"} \ {path} :
           /\ path' = i
           /\ Change(i, IF i = "other"
                        THEN [inode[i] EXCEPT !.body = [b \in Blocks |-> edits + 1],
                                              !.xattrs = edits + 1, !.rights = edits + 1]
                        ELSE inode[i])
    BY <1>4 DEF OthersRename
  <2>2. PICK new :
           /\ Change(i, new)
           /\ edits + 1 \in 0 .. MaxEdits => [new EXCEPT !.changed = edits + 1] \in BoundedInode
    <3>1. inode[i] \in BoundedInode
      BY <1>1 DEF Inodes
    <3>2. ASSUME edits + 1 \in 0 .. MaxEdits
          PROVE  /\ [inode[i] EXCEPT !.changed = edits + 1] \in BoundedInode
                 /\ [[inode[i] EXCEPT !.body = [b \in Blocks |-> edits + 1],
                                      !.xattrs = edits + 1, !.rights = edits + 1]
                       EXCEPT !.changed = edits + 1] \in BoundedInode
      <4>1. [b \in Blocks |-> edits + 1] \in [Blocks -> 0 .. MaxEdits]
        BY <3>2
      <4> QED
        BY <3>1, <3>2, <4>1 DEF BoundedInode
    <3> QED
      BY <2>1, <3>2
  <2> QED
    BY <1>4, <2>1, <2>2, ChangeBounded DEF OthersRename, Inodes
<1>5. CASE OthersRemove
  BY <1>5 DEF OthersRemove, Bounded, Placed, Numbered, Dated, clock, choice, work
<1>6. CASE OthersOpen
  BY <1>6 DEF OthersOpen, Bounded, Placed, Numbered, Dated, clock, choice, work, history
<1>7. CASE OthersClose
  BY <1>7, PublishAssumption
     DEF OthersClose, Bounded, Placed, Numbered, Dated, clock, choice, work
<1> QED
  BY <1>2, <1>3, <1>4, <1>5, <1>6, <1>7 DEF Others

\* What changes when the temporary file takes a value from the source or the payload.
LEMMA TemporaryBounded ==
  ASSUME Bounded, NEW new \in BoundedInode, Temporary(new)
  PROVE  inode' \in [Inodes -> BoundedInode]
BY DEF Bounded, Placed, Temporary

LEMMA PrepareBounded == IInv /\ Bounded /\ Prepare => Bounded'
<1> SUFFICES ASSUME IInv, Bounded, Prepare PROVE Bounded'
  OBVIOUS
<1>1. \A i \in Inodes : inode[i] \in BoundedInode
  BY DEF Bounded, Placed
<1>2. /\ inode["temporary"] \in BoundedInode
      /\ pc \in {"read", "xattrs", "copy", "rights", "verify"}
           => source \in Inodes /\ inode[source] \in BoundedInode
  BY <1>1 DEF IInv, Typed, Inodes
<1>3. CASE Scan
  <2>1. path \in Inodes /\ inode[path].changed \in 0 .. MaxEdits
    BY <1>1, <1>3 DEF Scan, Bounded, Placed, BoundedInode
  <2>2. saved' \in SavedType
    BY <1>3, <2>1 DEF Scan, SavedType
  <2>3. pc' \in {"skipped", "open"}
    BY <1>3 DEF Scan
  <2> QED
    BY <1>3, <2>2, <2>3
       DEF Scan, Bounded, Placed, Numbered, Dated, PcType, Ends, world, clock, choice
<1>4. CASE Open \/ Reopen
  BY <1>4
     DEF Open, Reopen, Bounded, Placed, Numbered, Dated, PcType, Ends, world, clock,
         choice, history
<1>5. CASE ReadBlock
  <2>1. PICK v \in {inode[source].body[done + 1]} \cup (IF verify THEN {Garbage} ELSE {}) :
           staged' = [staged EXCEPT ![done + 1] = v]
    BY <1>5 DEF ReadBlock
  <2>2. done + 1 \in Blocks /\ done' = done + 1 /\ pc = "read"
    BY <1>5, PublishAssumption DEF ReadBlock, Bounded, Numbered, Blocks
  <2>3. v \in 0 .. MaxEdits
    BY <1>2, <2>1, <2>2, PublishAssumption DEF BoundedInode, Garbage
  <2>4. staged' \in PayloadType
    BY <2>1, <2>2, <2>3 DEF Bounded, Placed, PayloadType
  <2>5. done' \in 0 .. BlockCount
    BY <2>2 DEF Blocks
  <2> QED
    BY <1>5, <2>4, <2>5
       DEF ReadBlock, Bounded, Placed, Numbered, Dated, PcType, Ends, world, clock,
           choice, history
<1>6. CASE CopyXattrs
  <2>1. pc \in {"read", "xattrs"} /\ pc' \in {"read", "copy"}
    BY <1>6 DEF CopyXattrs
  <2>2. [inode["temporary"] EXCEPT !.xattrs = inode[source].xattrs] \in BoundedInode
    BY <1>2, <2>1 DEF BoundedInode
  <2>3. inode' \in [Inodes -> BoundedInode]
    BY <1>6, <2>2, TemporaryBounded DEF CopyXattrs
  <2> QED
    BY <1>6, <2>1, <2>3
       DEF CopyXattrs, Bounded, Placed, Numbered, Dated, PcType, Ends, BoundedInode,
           OthersUnchanged, clock, choice, work, history
<1>7. CASE AllRead
  <2>1. pc' \in {"copy", "xattrs", "reopen"} /\ source' \in Inodes \cup {"none"} /\ done' = 0
    BY <1>7 DEF AllRead, IInv, Typed
  <2>2. Placed' /\ Dated'
    BY <1>7, <2>1
       DEF AllRead, Bounded, Placed, Dated, PcType, world, clock, choice, history
  <2>3. Numbered'
    BY <1>7, <2>1, PublishAssumption
       DEF AllRead, Bounded, Numbered, world, clock, history
  <2> QED
    BY <2>2, <2>3 DEF Bounded
<1>8. CASE CopyContents
  <2>1. [inode["temporary"] EXCEPT !.body = staged] \in BoundedInode
    BY <1>2 DEF BoundedInode, PayloadType, Bounded, Placed
  <2>2. inode' \in [Inodes -> BoundedInode]
    BY <1>8, <2>1, TemporaryBounded DEF CopyContents
  <2> QED
    BY <1>8, <2>2
       DEF CopyContents, Bounded, Placed, Numbered, Dated, PcType, Ends, BoundedInode,
           OthersUnchanged, clock, choice, work, history
<1>9. CASE CopyRights
  <2>1. [inode["temporary"] EXCEPT !.rights = inode[source].rights, !.protected = FALSE]
          \in BoundedInode
    BY <1>2, <1>9 DEF BoundedInode, CopyRights
  <2>2. inode' \in [Inodes -> BoundedInode]
    BY <1>9, <2>1, TemporaryBounded DEF CopyRights
  <2> QED
    BY <1>9, <2>2
       DEF CopyRights, Bounded, Placed, Numbered, Dated, PcType, Ends, BoundedInode,
           OthersUnchanged, clock, choice, work, history
<1>10. CASE VerifyBlock \/ Verified
  <2>1. Placed' /\ Dated'
    BY <1>10
       DEF VerifyBlock, Verified, Bounded, Placed, Dated, PcType, world, clock, choice,
           history
  <2>2. Numbered'
    BY <1>10, PublishAssumption
       DEF VerifyBlock, Verified, Bounded, Numbered, world, clock, history
  <2> QED
    BY <2>1, <2>2 DEF Bounded
<1> QED
  BY <1>3, <1>4, <1>5, <1>6, <1>7, <1>8, <1>9, <1>10 DEF Prepare

LEMMA ReplaceBounded ==
  Bounded /\ (Replace \/ Stop \/ Collect("another") \/ Tick \/ Terminated) => Bounded'
<1> SUFFICES ASSUME Bounded, Replace \/ Stop \/ Collect("another") \/ Tick \/ Terminated
             PROVE  Bounded'
  OBVIOUS
<1> USE DEF Ends, world, clock, choice, work, history
<1>1. ASSUME Look \/ LookAgain PROVE Bounded'
  <2>1. pc' \in {"skipped", "consult", "rename", "failed"}
    BY <1>1 DEF Look, LookAgain, CurrentSource
  <2> QED
    BY <1>1, <2>1
       DEF Look, LookAgain, CurrentSource, Bounded, Placed, Numbered, Dated, PcType,
           Ends
<1>2. ASSUME NEW who \in {"us", "another"}, Collect(who) PROVE Bounded'
  <2>1. Visible \in SUBSET Inodes
    BY DEF Visible, Bounded, Placed
  <2>2. collecting' \in CollectingType
    BY <1>2, <2>1 DEF Collect, Bounded, Numbered, CollectingType
  <2> QED
    BY <1>2, <2>2 DEF Collect, Bounded, Placed, Numbered, Dated, PcType, Ends
<1>3. ASSUME Collected PROVE Bounded'
  <2>1. pc' \in {"skipped", "look again"} \cup {pc} /\ checkedAt' \in {now, checkedAt}
    BY <1>3 DEF Collected, Answer
  <2>2. collecting' \in CollectingType /\ snapshot' \in SnapshotType
    BY <1>3, PublishAssumption
       DEF Collected, Bounded, Numbered, Dated, CollectingType, SnapshotType
  <2>3. Placed'
    BY <1>3, <2>1 DEF Collected, Bounded, Placed, PcType
  <2>4. Numbered'
    BY <1>3, <2>1 DEF Collected, Bounded, Numbered
  <2> QED
    BY <2>2, <2>3, <2>4 DEF Bounded, Dated
<1>4. ASSUME Consult PROVE Bounded'
  <2>1. pc' \in {"skipped", "look again"}
    BY <1>4 DEF Consult, Answer
  <2> QED
    BY <1>4, <2>1 DEF Consult, Bounded, Placed, Numbered, Dated, PcType, Ends
<1>5. ASSUME Rename \/ ResetTimes \/ Stop PROVE Bounded'
  <2>1. Placed'
    BY <1>5 DEF Rename, ResetTimes, Stop, Bounded, Placed, PcType, Inodes
  <2>2. Numbered' /\ Dated'
    BY <1>5 DEF Rename, ResetTimes, Stop, Bounded, Numbered, Dated
  <2> QED
    BY <2>1, <2>2 DEF Bounded
<1>6. ASSUME Tick PROVE Bounded'
  <2>1. Placed' /\ Dated'
    BY <1>6 DEF Tick, Bounded, Placed, Dated
  <2>2. Numbered'
    BY <1>6, PublishAssumption DEF Tick, Bounded, Numbered
  <2> QED
    BY <2>1, <2>2 DEF Bounded
<1> QED
  BY <1>1, <1>2, <1>3, <1>4, <1>5, <1>6
     DEF Replace, Terminated, vars, Bounded, Placed, Numbered, Dated, PcType, Ends

\* The invariant that the types are.
LEMMA BoundedHolds == Spec => []Bounded
<1>1. Init => Bounded
  <2> SUFFICES ASSUME Init PROVE Bounded
    OBVIOUS
  <2> USE PublishAssumption
  <2>1. PICK protected \in BOOLEAN :
           inode = [i \in Inodes |-> IF i = "original" THEN Blank(1, protected)
                                                       ELSE Blank(0, FALSE)]
    BY DEF Init
  <2>2. \A v \in {0, 1}, p \in BOOLEAN : Blank(v, p) \in BoundedInode
    <3> SUFFICES ASSUME NEW v \in {0, 1}, NEW p \in BOOLEAN
                 PROVE  Blank(v, p) \in BoundedInode
      OBVIOUS
    <3>1. v \in 0 .. MaxEdits /\ [b \in Blocks |-> v] \in [Blocks -> 0 .. MaxEdits]
      OBVIOUS
    <3> QED
      BY <3>1 DEF Blank, BoundedInode
  <2>3. inode \in [Inodes -> BoundedInode]
    BY <2>1, <2>2
  <2>4. snapshot \in SnapshotType /\ collecting \in CollectingType /\ saved \in SavedType
    BY DEF Init, SnapshotType, CollectingType, SavedType
  <2>5. staged \in PayloadType /\ done \in 0 .. BlockCount
    BY DEF Init, Garbage, PayloadType
  <2>6. path \in Inodes /\ writer \in Inodes \cup {"none"}
    BY DEF Init, Inodes
  <2>7. Placed
    BY <2>3, <2>4, <2>5, <2>6 DEF Init, Placed, PcType
  <2>8. Numbered
    BY <2>5 DEF Init, Numbered
  <2> QED
    BY <2>4, <2>7, <2>8 DEF Bounded, Dated
<1>2. IInv /\ Bounded /\ [Next]_vars => Bounded'
  <2>1. Bounded /\ UNCHANGED vars => Bounded'
    BY
       DEF Bounded, Placed, Numbered, Dated, PcType, Ends, vars, world, clock, choice,
           work, history
  <2> QED
    BY <2>1, OthersBounded, PrepareBounded, ReplaceBounded DEF Next
<1> QED
  BY <1>1, <1>2, PublishInvariant, PTL DEF Spec

\* Every variable stays within the type that Publish states for it (threads/writer.rs).
THEOREM TypeCorrect == Spec => []TypeOK
<1>1. Bounded => TypeOK
  BY
     DEF Bounded, Placed, Numbered, Dated, TypeOK, BoundedInode, SnapshotType,
         CollectingType, SavedType, PayloadType, PcType
<1> QED
  BY <1>1, BoundedHolds, PTL

-----------------------------------------------------------------------------
(* The snapshot of open writers. *)

\* Nothing is dated later than now, and a collection takes no longer than CollectTime.
Clocked ==
  /\ openedAt <= now /\ checkedAt <= now /\ snapshot.at <= now
  /\ collecting.by # "nobody"
       => collecting.since <= now /\ now <= collecting.since + CollectTime

\* A collection that succeeds finds the program that has a file open, if it can see it.
Sees(ok, writers) == ok /\ writer # "none" /\ ~hidden => writer \in writers

\* So does a collection that began after the program opened the file; and a snapshot that
\* ended long enough after that had begun after it.
Witnessed ==
  /\ collecting.by # "nobody" /\ openedAt < collecting.since
       => Sees(collecting.ok, collecting.writers)
  /\ snapshot.taken /\ openedAt + CollectTime < snapshot.at
       => Sees(snapshot.ok, snapshot.writers)

\* Whoever still has the source open when the snapshot has cleared it opened it lately.
Cleared ==
  pc \in {"look again", "rename"} /\ writer = saved.inode /\ writer # "none" /\ ~hidden
    => checkedAt < openedAt + RefreshInterval + CollectTime

Watched == Clocked /\ Witnessed /\ Cleared

\* Steps that touch neither the clock nor the program that has the file open.
LEMMA WatchedSame ==
  ASSUME Watched,
         UNCHANGED <<writer, openedAt, hidden, now, snapshot, collecting, checkedAt>>,
         UNCHANGED saved \/ pc' \notin {"look again", "rename"},
         pc' \in {"look again", "rename"} => pc \in {"look again", "rename"}
  PROVE  Watched'
BY DEF Watched, Clocked, Witnessed, Sees, Cleared

LEMMA WatchedNext ==
  IInv /\ CollectorWaits /\ Bounded /\ Watched /\ [Next]_vars => Watched'
<1> SUFFICES ASSUME IInv, CollectorWaits, Bounded, Watched, [Next]_vars PROVE Watched'
  OBVIOUS
<1> USE DEF world, clock, choice, work, history, Ends
<1>1. CASE Prepare
  <2>1. /\ UNCHANGED <<writer, openedAt, hidden, now, snapshot, collecting, checkedAt>>
        /\ pc' \notin {"look again", "rename"}
    <3>1. CASE AllRead
      <4>1. pc' \in {"copy", "xattrs", "reopen"}
        BY <3>1 DEF AllRead, IInv, Typed
      <4> QED
        BY <3>1, <4>1 DEF AllRead
    <3>2. CASE ~AllRead
      BY <1>1, <3>2
         DEF Prepare, Scan, Open, ReadBlock, CopyXattrs, Reopen, CopyContents,
             CopyRights, VerifyBlock, Verified, OthersUnchanged
    <3> QED
      BY <3>1, <3>2
  <2> QED
    BY <2>1, WatchedSame
<1>2. CASE Look \/ LookAgain \/ Rename \/ ResetTimes \/ Stop \/ UNCHANGED vars
  <2>1. /\ UNCHANGED <<writer, openedAt, hidden, now, snapshot, collecting, checkedAt, saved>>
        /\ pc' \in {"look again", "rename"} => pc \in {"look again", "rename"}
    BY <1>2 DEF Look, LookAgain, CurrentSource, Rename, ResetTimes, Stop, vars
  <2> QED
    BY <2>1, WatchedSame
<1>3. CASE OthersWrite \/ OthersSetAttributes \/ OthersRename \/ OthersRemove
  <2>1. UNCHANGED <<writer, openedAt, hidden, now, snapshot, collecting, checkedAt, saved, pc>>
    BY <1>3 DEF OthersWrite, OthersSetAttributes, OthersRename, OthersRemove, Change
  <2> QED
    BY <2>1, WatchedSame
<1>4. /\ now \in Nat /\ openedAt \in Nat /\ checkedAt \in Nat /\ snapshot.at \in Nat
      /\ collecting.since \in Nat /\ RefreshInterval \in Nat \ {0} /\ CollectTime \in Nat
  BY PublishAssumption DEF Bounded, Numbered, Dated, SnapshotType, CollectingType
<1>5. CASE OthersOpen
  <2>1. /\ openedAt' = now
        /\ UNCHANGED <<hidden, now, snapshot, collecting, checkedAt, saved, pc>>
    BY <1>5 DEF OthersOpen
  <2>2. Clocked'
    BY <1>4, <2>1 DEF Watched, Clocked
  <2>3. /\ collecting.by # "nobody" => ~(openedAt' < collecting.since)
        /\ ~(openedAt' + CollectTime < snapshot.at)
        /\ checkedAt < openedAt' + RefreshInterval + CollectTime
    BY <1>4, <2>1 DEF Watched, Clocked
  <2> QED
    BY <2>1, <2>2, <2>3 DEF Watched, Witnessed, Cleared
<1>6. CASE OthersClose
  <2>1. /\ openedAt' = 0 /\ writer' = "none"
        /\ UNCHANGED <<hidden, now, snapshot, collecting, checkedAt, saved, pc>>
    BY <1>6 DEF OthersClose
  <2>2. Clocked'
    BY <1>4, <2>1 DEF Watched, Clocked
  <2> QED
    BY <2>1, <2>2 DEF Watched, Witnessed, Sees, Cleared
<1>7. CASE Tick
  <2>1. /\ now' = now + 1
        /\ UNCHANGED <<writer, openedAt, hidden, snapshot, collecting, checkedAt, saved, pc>>
        /\ collecting.by # "nobody" => now < collecting.since + CollectTime
    BY <1>7 DEF Tick
  <2>2. Clocked'
    BY <1>4, <2>1 DEF Watched, Clocked
  <2> QED
    BY <2>1, <2>2 DEF Watched, Witnessed, Sees, Cleared
<1>8. CASE \E who \in {"us", "another"} : Collect(who)
  <2>1. PICK who \in {"us", "another"}, ok \in BOOLEAN :
           collecting' = [by |-> who, since |-> now, ok |-> ok,
                          writers |-> IF ok THEN Visible ELSE {}]
    BY <1>8 DEF Collect
  <2>2. UNCHANGED <<writer, openedAt, hidden, now, snapshot, checkedAt, saved, pc>>
    BY <1>8 DEF Collect
  <2>3. collecting'.since = now
    BY <2>1
  <2>4. Sees(collecting.ok, collecting.writers)'
    BY <2>1, <2>2 DEF Sees, Visible
  <2>5. Clocked'
    BY <1>4, <2>2, <2>3 DEF Watched, Clocked
  <2> QED
    BY <2>2, <2>4, <2>5 DEF Watched, Witnessed, Sees, Cleared
<1>9. CASE Collected
  <2>1. /\ snapshot'.taken /\ snapshot'.at = now /\ snapshot'.ok = collecting.ok
        /\ snapshot'.writers = collecting.writers /\ collecting'.by = "nobody"
        /\ UNCHANGED <<writer, openedAt, hidden, now, saved>>
        /\ collecting.by # "nobody"
    BY <1>9 DEF Collected
  <2>2. Clocked' /\ Witnessed'
    <3>1. checkedAt' \in {now, checkedAt}
      BY <1>9 DEF Collected
    <3> QED
      BY <1>4, <2>1, <3>1 DEF Watched, Clocked, Witnessed, Sees
  <2>3. Cleared'
    <3>1. CASE collecting.by = "us"
      <4>1. checkedAt' = now /\ Answer(collecting.ok, collecting.writers)
        BY <1>9, <3>1 DEF Collected
      <4>2. SUFFICES ASSUME pc' \in {"look again", "rename"}, writer = saved.inode,
                            writer # "none", ~hidden
                     PROVE  now < openedAt + RefreshInterval + CollectTime
        BY <2>1, <4>1 DEF Cleared
      <4>3. collecting.ok /\ writer \notin collecting.writers
        BY <4>1, <4>2 DEF Answer
      <4>4. ~(openedAt < collecting.since) /\ now <= collecting.since + CollectTime
        BY <2>1, <4>2, <4>3 DEF Watched, Clocked, Witnessed, Sees
      <4> QED
        BY ONLY <1>4, <4>4
    <3>2. CASE collecting.by # "us"
      <4>1. UNCHANGED <<pc, checkedAt>>
        BY <1>9, <3>2 DEF Collected
      <4> QED
        BY <2>1, <4>1 DEF Watched, Cleared
    <3> QED
      BY <3>1, <3>2
  <2> QED
    BY <2>2, <2>3 DEF Watched
<1>10. CASE Consult
  <2>1. /\ UNCHANGED <<writer, openedAt, hidden, now, snapshot, collecting, saved>>
        /\ checkedAt' = now /\ Answer(snapshot.ok, snapshot.writers)
        /\ snapshot.taken /\ now - snapshot.at < RefreshInterval
    BY <1>4, <1>10 DEF Consult, NeedSnapshot
  <2>2. Clocked' /\ Witnessed'
    BY <1>4, <2>1 DEF Watched, Clocked, Witnessed, Sees
  <2>3. Cleared'
    <3>1. SUFFICES ASSUME pc' \in {"look again", "rename"}, writer = saved.inode,
                          writer # "none", ~hidden
                   PROVE  now < openedAt + RefreshInterval + CollectTime
      BY <2>1 DEF Cleared
    <3>2. snapshot.ok /\ writer \notin snapshot.writers
      BY <2>1, <3>1 DEF Answer
    <3>3. ~(openedAt + CollectTime < snapshot.at) /\ now - snapshot.at < RefreshInterval
      BY <2>1, <3>1, <3>2 DEF Watched, Witnessed, Sees
    <3> QED
      BY ONLY <1>4, <3>3
  <2> QED
    BY <2>2, <2>3 DEF Watched
<1> QED
  BY <1>1, <1>2, <1>3, <1>5, <1>6, <1>7, <1>8, <1>9, <1>10
     DEF Next, Replace, Others, Terminated

\* A program that can be inspected and opened the source longer ago than the shared
\* snapshot can be old keeps it from being replaced (source_guard.rs, has_writer).
THEOREM OldWritersAreSeen == Spec => OldWritersSeen
<1>1. Init => Watched
  <2> SUFFICES ASSUME Init PROVE Watched
    OBVIOUS
  <2>1. /\ openedAt = 0 /\ checkedAt = 0 /\ now = 0 /\ snapshot.at = 0
        /\ ~snapshot.taken /\ collecting.by = "nobody" /\ pc = "scan"
    BY DEF Init
  <2> QED
    BY <2>1 DEF Watched, Clocked, Witnessed, Cleared
<1>2. Spec => []Watched
  BY <1>1, WatchedNext, PublishInvariant, BoundedHolds, PTL DEF Spec
<1>3. IInv /\ Bounded /\ Watched /\ [Next]_vars
        => [Replacing => ~(/\ writer = saved.inode /\ ~hidden
                           /\ openedAt + RefreshInterval + CollectTime <= checkedAt)]_vars
  <2> SUFFICES ASSUME IInv, Bounded, Watched, pc = "rename", writer = saved.inode, ~hidden
               PROVE  ~(openedAt + RefreshInterval + CollectTime <= checkedAt)
    BY DEF Replacing
  <2>1. saved.inode = "original"
    BY DEF IInv, ChangeTimeTells, Working, Running, Ends
  <2>2. checkedAt < openedAt + RefreshInterval + CollectTime
    BY <2>1 DEF Watched, Cleared
  <2> QED
    BY <2>2, PublishAssumption DEF Bounded, Numbered
<1> QED
  BY <1>2, <1>3, PublishInvariant, BoundedHolds, PTL DEF Spec, OldWritersSeen
=============================================================================
