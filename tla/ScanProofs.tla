----------------------------- MODULE ScanProofs -----------------------------
(***************************************************************************)
(* However the roots, files and directories are arranged, however many     *)
(* calls fail and in whatever order the files come to their end: the       *)
(* statistics are complete (StatsComplete), directories have their times   *)
(* back when scan returns (TimesKept), and no Context replaces a file by   *)
(* what it made of the output of another (NeverFromOutput).                *)
(***************************************************************************)
EXTENDS Scan, FiniteSetTheorems, TLAPS

USE DEF Working

Stage == {"unlisted", "listed", "submitted", "opened", "checked", "published", "dropping",
          "counted", "leaving", "gone"}

\* The types that matter here.
Typed ==
  /\ compressing \in BOOLEAN
  /\ disk \in [Files -> Metadata] /\ version \in [Files -> Nat]
  /\ touched \subseteq Dirs
  /\ phase \in {"roots", "walking", "waiting", "returned"} /\ root \in Nat
  /\ infos \in [Devices -> {"unknown", "yes", "no"}]
  /\ host \in [Devices -> Dirs \cup {Nowhere, Elsewhere}]
  /\ saved \in [Listings -> {"unlisted", "none", "original", "touched"}]
  /\ active \subseteq Listings
  /\ entry \in [Entries -> Stage]
  /\ orig \in [Entries -> [info : Info, version : Nat]]
  /\ source \in [Entries -> [version : Nat, compressed : BOOLEAN]]
  /\ started \in [Entries -> Seq(Info)] /\ final \in [Entries -> Seq(Info)]
  /\ operation \in {"alive", "sent", "gone"}

Waiting(e) == entry[e] \in {"unlisted", "listed"}

\* Roots are walked one after the other, each to its end.
InOrder ==
  \A e \in Entries :
    /\ phase = "roots" => entry[e] = "unlisted"
    /\ phase = "walking" /\ e[1] < root => ~Waiting(e)
    /\ phase = "walking" /\ e[1] > root => entry[e] = "unlisted"
    /\ phase \in {"waiting", "returned"} => ~Waiting(e)

\* The entries of a directory come up when it is listed, and it is listed once.
ListedOnce ==
  \A e \in Entries : saved[Listing(e)] = "unlisted" => entry[e] = "unlisted"

\* The end of the operation comes after that of the last file, and scan returns after it.
EndInOrder ==
  /\ operation # "alive" =>
       phase \in {"waiting", "returned"} /\ \A e \in Entries : ~HasOperation(e)
  /\ phase = "returned" => operation # "alive"

\* How often an entry has been counted by the time it has come so far.
CountedAt(e) ==
  /\ Waiting(e) => started[e] = <<>> /\ final[e] = <<>>
  /\ entry[e] \in Working => Len(started[e]) = 1 /\ final[e] = <<>>
  /\ entry[e] = "dropping" => Len(started[e]) = 1 /\ Len(final[e]) <= 1
  /\ entry[e] \in {"counted", "leaving"} => Len(started[e]) = 1 /\ Len(final[e]) = 1
  /\ entry[e] = "gone" => Len(started[e]) = Len(final[e]) /\ Len(final[e]) <= 1

Counted == \A e \in Entries : CountedAt(e)

\* What an entry is counted with, or would be, is what its file is.
TruthfulAt(e) ==
  /\ entry[e] \in {"submitted", "opened", "checked"}
       => orig[e].info.compressed = disk[e[2]].compressed
  /\ entry[e] = "dropping" /\ final[e] = <<>>
       => orig[e].info.compressed = disk[e[2]].compressed
  /\ final[e] # <<>> => final[e][1].compressed = disk[e[2]].compressed

Truthful == \A e \in Entries : e \notin missed /\ ReachedOnce(e) => TruthfulAt(e)

\* Only files are submitted.
FilesOnly == \A e \in Entries : HasOperation(e) => disk[e[2]].file

\* A volume that nobody knows has no temporary directory.
HostsKnown == \A v \in Devices : infos[v] = "unknown" => host[v] = Nowhere

Exempt(d) == d \in unlucky \/ Hosting(d) \/ SavedLate(d)

\* Somebody still holds an active Resetter for the directory.
Held(d) == \E e \in Entries : In[e[2]] = d /\ Listing(e) \in active /\ HasResetter(e)

\* A Resetter holds the times that the directory had, and if they have changed, one is
\* active and somebody still holds it.
TimesInHand ==
  /\ \A l \in Listings : ~Exempt(l[2]) => saved[l] \notin {"none", "touched"}
  /\ \A d \in touched : ~Exempt(d) => Held(d)

IInv == /\ Typed /\ InOrder /\ ListedOnce /\ EndInOrder /\ Counted /\ Truthful
        /\ FilesOnly /\ HostsKnown /\ TimesInHand

-----------------------------------------------------------------------------
(* The volumes. *)

\* What may be found out about a volume, or about a file on it.
Answers(v, d) ==
  LET known == Lookup(v, d) \cup {Error, NotAsked} IN
    known \cup {Found(a.answer, a.made, TRUE) : a \in known}

\* An answer is one of three, and comes with a temporary directory only if the volume was
\* not known.
LEMMA AnswerTypes ==
  ASSUME Typed, NEW v \in Devices, NEW d \in Dirs, NEW found \in Answers(v, d)
  PROVE  /\ found.answer \in {"unknown", "yes", "no"}
         /\ found.made = {} \/ found.made = {d}
         /\ found.made # {} => found.answer = "yes" /\ infos[v] = "unknown"
         /\ found.answer \in {"yes", "no"} =>
              \/ infos[v] = found.answer /\ found.made = {}
              \/ infos[v] = "unknown" /\ (found.answer = "yes" <=> found.made = {d})
<1> DEFINE Fits(a) == \/ a.answer = "unknown" /\ a.made = {}
                      \/ a.answer = infos[v] /\ a.made = {}
                      \/ infos[v] = "unknown" /\ a.answer = "yes" /\ a.made = {d}
                      \/ infos[v] = "unknown" /\ a.answer = "no" /\ a.made = {}
<1>1. ASSUME NEW a \in Lookup(v, d) \cup {Error, NotAsked}
      PROVE  Fits(a)
  <2>1. \/ a = [answer |-> "unknown", made |-> {}, failed |-> TRUE]
        \/ a = [answer |-> "unknown", made |-> {}, failed |-> FALSE]
        \/ a = [answer |-> infos[v], made |-> {}, failed |-> FALSE]
        \/ a = [answer |-> "yes", made |-> {d}, failed |-> FALSE] /\ infos[v] = "unknown"
        \/ a = [answer |-> "no", made |-> {}, failed |-> FALSE] /\ infos[v] = "unknown"
    BY Zenon DEF Lookup, Error, NotAsked, Found
  <2> QED BY <2>1
<1>2. Fits(found)
  <2>1. CASE found \in Lookup(v, d) \cup {Error, NotAsked}
    BY <1>1, <2>1
  <2>2. ASSUME NEW a \in Lookup(v, d) \cup {Error, NotAsked}, found = Found(a.answer, a.made, TRUE)
        PROVE  Fits(found)
    <3>1. found = [answer |-> a.answer, made |-> a.made, failed |-> TRUE]
      BY <2>2, Zenon DEF Found
    <3>2. found.answer = a.answer /\ found.made = a.made
      BY <3>1
    <3> QED BY <1>1, <3>2
  <2> QED BY <2>1, <2>2 DEF Answers
<1> QED
  BY <1>2 DEF Typed

\* What is found out for a file, before and on its way.
LEMMA AnswersForFiles ==
  ASSUME NEW f \in Files
  PROVE  /\ AskVolume(f) \subseteq Answers(DeviceOf[In[f]], In[f])
         /\ Lookup(DeviceOf[In[f]], In[f]) \cup {NotAsked}
              \subseteq Answers(DeviceOf[In[f]], In[f])
<1> QED
  BY DEF AskVolume, Answers

\* A directory that is once the host of a temporary directory remains it, and a new
\* temporary directory has one.
LEMMA RememberTypes ==
  ASSUME Typed, HostsKnown, NEW v \in Devices, NEW d \in Dirs,
         NEW found \in Answers(v, d), Remember(v, found)
  PROVE  /\ infos' \in [Devices -> {"unknown", "yes", "no"}]
         /\ host' \in [Devices -> Dirs \cup {Nowhere, Elsewhere}]
         /\ found.made \subseteq Dirs
         /\ HostsKnown'
         /\ \A dir \in Dirs : Hosting(dir) \/ dir \in found.made => Hosting(dir)'
<1>1. /\ found.answer \in {"unknown", "yes", "no"}
      /\ found.made = {} \/ found.made = {d}
      /\ found.made # {} => found.answer = "yes" /\ infos[v] = "unknown"
  BY AnswerTypes
<1>2. found.made # {} => (CHOOSE x \in found.made : TRUE) = d
  BY <1>1
<1>3. /\ infos' \in [Devices -> {"unknown", "yes", "no"}]
      /\ host' \in [Devices -> Dirs \cup {Nowhere, Elsewhere}]
  BY <1>1, <1>2 DEF Typed, Remember
<1>4. host' = [host EXCEPT ![v] = IF found.made = {} THEN @ ELSE d]
  BY <1>1, <1>2 DEF Remember
<1>5. HostsKnown'
  BY <1>1, <1>4 DEF Typed, Remember, HostsKnown
<1>6. ASSUME NEW dir \in Dirs, Hosting(dir) \/ dir \in found.made
      PROVE  Hosting(dir)'
  <2>1. CASE found.made = {}
    BY <1>4, <1>6, <2>1 DEF Typed, Hosting
  <2>2. CASE found.made # {}
    <3>1. found.made = {d} /\ host[v] = Nowhere
      BY <1>1, <2>2 DEF HostsKnown
    <3>2. host'[v] = d
      BY <1>4, <2>2 DEF Typed
    <3>3. ASSUME NEW u \in Devices, host[u] = dir, u # v
          PROVE  host'[u] = dir
      BY <1>4, <3>3 DEF Typed
    <3>4. CASE dir = d
      BY <3>2, <3>4 DEF Hosting
    <3>5. CASE dir # d /\ Hosting(dir)
      <4>1. PICK u \in Devices : host[u] = dir
        BY <3>5 DEF Hosting
      <4>2. u # v
        BY <3>1, <4>1, ScanAssumption
      <4> QED BY <3>3, <4>1, <4>2 DEF Hosting
    <3> QED BY <1>6, <3>1, <3>4, <3>5
  <2> QED BY <2>1, <2>2
<1> QED
  BY <1>1, <1>3, <1>5, <1>6

-----------------------------------------------------------------------------
(* The steps and the types. *)

\* An entry is a file that a root leads to.
LEMMA EntryTypes ==
  ASSUME NEW e \in Entries
  PROVE  /\ e[1] \in Roots /\ e[2] \in Files /\ e = <<e[1], e[2]>>
         /\ In[e[2]] \in Dirs /\ DeviceOf[In[e[2]]] \in Devices
         /\ Listing(e)[1] = e[1] /\ Listing(e)[2] = In[e[2]]
         /\ Listing(e) \in Listings
<1>1. /\ e[1] \in Roots /\ e[2] \in Files /\ e = <<e[1], e[2]>>
      /\ In[e[2]] \in Dirs /\ DeviceOf[In[e[2]]] \in Devices
      /\ In[e[2]] \in Under[e[1]] \/ e[2] \in Given[e[1]]
  BY ScanAssumption DEF Entries
<1>2. e[2] \in Given[e[1]] => In[e[2]] = Top[e[1]]
  BY <1>1, ScanAssumption
<1> QED
  BY <1>1, <1>2 DEF Listings, Listing

\* A listing is of one directory for one root.
LEMMA ListingTypes ==
  \A l \in Listings : l[1] \in Roots /\ l[2] \in Dirs /\ l = <<l[1], l[2]>>
<1> QED BY DEF Listings

LEMMA DropResetterTypes ==
  ASSUME Typed, NEW e \in Entries, NEW made \in SUBSET Dirs, NEW failed, 
         DropResetter(e, made, failed)
  PROVE  touched' \subseteq Dirs
<1> QED
  BY EntryTypes DEF Typed, DropResetter, reset_times

\* What is said of a file has its type, whatever is found.
LEMMA FileInfoTypes ==
  ASSUME Typed, NEW f \in Files, NEW found
  PROVE  FileInfo(f, found) \in Info /\ FileInfo(f, found).compressed = disk[f].compressed
<1>1. disk[f].compressed \in BOOLEAN
  BY DEF Typed, Metadata
<1> QED
  BY <1>1 DEF FileInfo, get_compression_state, Info

\* Counting an entry keeps the types.
LEMMA EndFileTypes ==
  ASSUME Typed, NEW e \in Entries, NEW info \in Info,
         add_end_file(e, info) \/ UNCHANGED final
  PROVE  final' \in [Entries -> Seq(Info)]
<1>1. Append(final[e], info) \in Seq(Info)
  BY DEF Typed
<1>2. final \in [Entries -> Seq(Info)]
  BY DEF Typed
<1>3. CASE add_end_file(e, info)
  BY <1>1, <1>2, <1>3 DEF add_end_file
<1> QED BY <1>2, <1>3

LEMMA TypedStep ==
  ASSUME Typed, HostsKnown, [Next]_vars
  PROVE  Typed'
<1> USE DEF world, volumes, times, stats, history
<1>1. CASE AddRoot
  <2>1. PICK found \in Answers(DeviceOf[Top[root]], Top[root]) :
          Remember(DeviceOf[Top[root]], found) /\ touched' = touched \cup found.made
    BY <1>1 DEF AddRoot, Answers
  <2>2. Top[root] \in Dirs /\ DeviceOf[Top[root]] \in Devices
    BY <1>1, ScanAssumption DEF AddRoot, Roots
  <2>3. /\ infos' \in [Devices -> {"unknown", "yes", "no"}]
        /\ host' \in [Devices -> Dirs \cup {Nowhere, Elsewhere}]
        /\ found.made \subseteq Dirs
    BY <2>1, <2>2, RememberTypes
  <2> QED BY <1>1, <2>1, <2>3 DEF AddRoot, Typed
<1>2. CASE StartWalking
  BY <1>2 DEF StartWalking, Typed
<1>3. CASE RootWalked
  BY <1>3 DEF RootWalked, Typed
<1>4. ASSUME NEW d \in Dirs, List(d)
      PROVE  Typed'
  BY <1>4 DEF List, get_times, Typed, Stage
<1>5. ASSUME NEW e \in Entries, Open(e)
      PROVE  Typed'
  <2>1. disk[e[2]].compressed \in BOOLEAN /\ version[e[2]] \in Nat
    BY EntryTypes DEF Typed, Metadata
  <2>2. [version |-> version[e[2]], compressed |-> disk[e[2]].compressed]
          \in [version : Nat, compressed : BOOLEAN]
    BY <2>1
  <2>3. source' \in [Entries -> [version : Nat, compressed : BOOLEAN]]
    BY <1>5, <2>2 DEF Open, Typed
  <2> QED BY <1>5, <2>3 DEF Open, Typed, Stage
<1>6. ASSUME NEW r \in Roots, DropWalker(r)
      PROVE  Typed'
  BY <1>6 DEF DropWalker, Typed
<1>7. ASSUME NEW e \in Entries, PassBy(e)
      PROVE  Typed'
  <2>1. touched' \subseteq Dirs
    BY <1>7, DropResetterTypes DEF PassBy
  <2> QED BY <1>7, <2>1 DEF PassBy, Typed, Stage
<1>8. ASSUME NEW e \in Entries, Visit(e)
      PROVE  Typed'
  <2>1. PICK found \in AskVolume(e[2]) :
          /\ Remember(DeviceOf[In[e[2]]], found)
          /\ add_start_file(e, FileInfo(e[2], found))
          /\ orig' = [orig EXCEPT ![e] = [info |-> FileInfo(e[2], found), version |-> version[e[2]]]]
          /\ LeaveAlone(e, found) \/ Submit(e, found)
    BY <1>8 DEF Visit
  <2>2. found \in Answers(DeviceOf[In[e[2]]], In[e[2]])
    BY EntryTypes, AnswersForFiles
  <2>3. /\ infos' \in [Devices -> {"unknown", "yes", "no"}]
        /\ host' \in [Devices -> Dirs \cup {Nowhere, Elsewhere}]
        /\ found.made \subseteq Dirs
    BY <2>1, <2>2, EntryTypes, RememberTypes
  <2>4. FileInfo(e[2], found) \in Info
    BY EntryTypes, FileInfoTypes
  <2>5. started' \in [Entries -> Seq(Info)]
    BY <2>1, <2>4 DEF Typed, add_start_file
  <2>6. orig' \in [Entries -> [info : Info, version : Nat]]
    BY <2>1, <2>4, EntryTypes DEF Typed
  <2>7. CASE LeaveAlone(e, found)
    <3>1. touched' \subseteq Dirs
      BY <2>3, <2>7, DropResetterTypes DEF LeaveAlone
    <3>2. final' \in [Entries -> Seq(Info)]
      BY <2>4, <2>7 DEF Typed, LeaveAlone, add_end_file
    <3> QED BY <1>8, <2>3, <2>5, <2>6, <2>7, <3>1, <3>2 DEF Visit, LeaveAlone, Typed, Stage
  <2>8. CASE Submit(e, found)
    BY <1>8, <2>3, <2>5, <2>6, <2>8 DEF Visit, Submit, Typed, Stage
  <2> QED BY <2>1, <2>7, <2>8
<1>9. ASSUME NEW e \in Entries, FileFails(e) \/ Check(e)
      PROVE  Typed'
  <2>1. PICK found \in Answers(DeviceOf[In[e[2]]], In[e[2]]) :
          Remember(DeviceOf[In[e[2]]], found) /\ touched' = touched \cup found.made
    BY <1>9, EntryTypes, AnswersForFiles DEF FileFails, Check
  <2>2. /\ infos' \in [Devices -> {"unknown", "yes", "no"}]
        /\ host' \in [Devices -> Dirs \cup {Nowhere, Elsewhere}]
        /\ found.made \subseteq Dirs
    BY <2>1, EntryTypes, RememberTypes
  <2> QED BY <1>9, <2>1, <2>2 DEF FileFails, Check, Typed, Stage
<1>10. ASSUME NEW e \in Entries, Rename(e)
       PROVE  Typed'
  <2>1. disk' \in [Files -> Metadata]
    <3>1. disk[e[2]] \in Metadata /\ compressing \in BOOLEAN
      BY EntryTypes DEF Typed
    <3>2. [disk[e[2]] EXCEPT !.compressed = compressing] \in Metadata
      BY <3>1 DEF Metadata
    <3>3. disk' = [disk EXCEPT ![e[2]] = [disk[e[2]] EXCEPT !.compressed = compressing]]
      BY <1>10 DEF Rename
    <3> QED BY <3>2, <3>3 DEF Typed
  <2>2. version' \in [Files -> Nat]
    BY <1>10, EntryTypes DEF Rename, Typed
  <2>3. active' \subseteq Listings
    BY <1>10 DEF Rename, Typed, activate
  <2>4. touched' \subseteq Dirs
    BY <1>10, EntryTypes DEF Rename, Typed
  <2> QED BY <1>10, <2>1, <2>2, <2>3, <2>4 DEF Rename, Typed, Stage
<1>11. ASSUME NEW e \in Entries, Report(e)
       PROVE  Typed'
  <2>1. final' \in [Entries -> Seq(Info)]
    <3>1. disk[e[2]].compressed \in BOOLEAN
      BY EntryTypes DEF Typed, Metadata
    <3>2. [compressed |-> disk[e[2]].compressed, state |-> "reported"] \in Info
      BY <3>1 DEF Info
    <3> QED BY <1>11, <3>2, EndFileTypes DEF Report
  <2> QED BY <1>11, <2>1 DEF Report, Typed, Stage
<1>12. ASSUME NEW e \in Entries, Count(e)
       PROVE  Typed'
  <2>1. final' \in [Entries -> Seq(Info)]
    <3>1. orig[e].info \in Info
      BY DEF Typed
    <3> QED BY <1>12, <3>1, EndFileTypes DEF Count
  <2> QED BY <1>12, <2>1 DEF Count, Typed, Stage
<1>13. ASSUME NEW e \in Entries, DropFirst(e)
       PROVE  Typed'
  <2>1. touched' \subseteq Dirs
    BY <1>13, DropResetterTypes DEF DropFirst
  <2> QED BY <1>13, <2>1 DEF DropFirst, Typed, Stage
<1>14. ASSUME NEW e \in Entries, DropSecond(e)
       PROVE  Typed'
  BY <1>14 DEF DropSecond, Typed, Stage
<1>15. CASE SendStats
  BY <1>15 DEF SendStats, Typed
<1>16. CASE RemoveTempDirs
  BY <1>16 DEF RemoveTempDirs, Typed
<1>17. CASE ScanReturns
  BY <1>17 DEF ScanReturns, Typed
<1>18. CASE UNCHANGED vars
  BY <1>18 DEF vars, Typed
<1> QED
  BY <1>1, <1>2, <1>3, <1>4, <1>5, <1>6, <1>7, <1>8, <1>9, <1>10, <1>11, <1>12, <1>13, <1>14,
     <1>15, <1>16, <1>17, <1>18 DEF Next, Terminated

-----------------------------------------------------------------------------
(* The order of things. *)

FileStep(e) == \/ PassBy(e) \/ Visit(e) \/ Open(e) \/ Check(e) \/ Rename(e) \/ FileFails(e)
               \/ Report(e) \/ Count(e) \/ DropFirst(e) \/ DropSecond(e)

\* The steps of an entry, once it has come up, lead forward.
LEMMA FileSteps ==
  ASSUME Typed, NEW e \in Entries, FileStep(e)
  PROVE  /\ UNCHANGED <<phase, root, saved, operation>>
         /\ entry[e] = "listed" \/ HasOperation(e)
         /\ entry[e] = "listed" => phase = "walking"
         /\ \E s \in Stage \ {"unlisted", "listed"} : entry' = [entry EXCEPT ![e] = s]
         /\ \A f \in Files : disk'[f].file = disk[f].file
         /\ HasOperation(e)' => HasOperation(e) \/ disk[e[2]].file
<1> USE DEF world, volumes, times, stats, history, Stage
<1>1. CASE PassBy(e)
  BY <1>1 DEF PassBy, HasOperation, Typed
<1>2. CASE Visit(e)
  BY <1>2 DEF Visit, LeaveAlone, Submit, HasOperation, Typed
<1>3. CASE FileFails(e) \/ Open(e) \/ Check(e)
  BY <1>3 DEF FileFails, Open, Check, HasOperation, Typed
<1>4. CASE Rename(e)
  <2>1. \A f \in Files : disk'[f].file = disk[f].file
    BY <1>4 DEF Rename, Typed, Metadata
  <2> QED BY <1>4, <2>1 DEF Rename, HasOperation, Typed
<1>5. CASE Report(e)
  BY <1>5 DEF Report, HasOperation, Typed
<1>6. CASE Count(e)
  BY <1>6 DEF Count, HasOperation, Typed
<1>7. CASE DropFirst(e)
  BY <1>7 DEF DropFirst, HasOperation, Typed
<1>8. CASE DropSecond(e)
  BY <1>8 DEF DropSecond, HasOperation, Typed
<1> QED
  BY <1>1, <1>2, <1>3, <1>4, <1>5, <1>6, <1>7, <1>8 DEF FileStep

\* All other steps but those of the walker leave the entries as they are.
OtherStep == \/ AddRoot \/ (\E r \in Roots : DropWalker(r))
             \/ SendStats \/ RemoveTempDirs \/ ScanReturns \/ UNCHANGED vars

LEMMA StepsAre ==
  ASSUME [Next]_vars
  PROVE  \/ \E e \in Entries : FileStep(e)
         \/ \E d \in Dirs : List(d)
         \/ StartWalking \/ RootWalked \/ OtherStep
<1> QED
  BY DEF Next, Terminated, FileStep, OtherStep

LEMMA OtherSteps ==
  ASSUME OtherStep
  PROVE  /\ UNCHANGED <<entry, saved, disk, started, final, orig, source, missed, active>>
         /\ phase' # phase => phase = "waiting" /\ phase' = "returned"
         /\ phase # "roots" => root' = root
<1> USE DEF world, volumes, times, stats, history
<1> QED
  BY DEF OtherStep, AddRoot, DropWalker, SendStats, RemoveTempDirs, ScanReturns, vars

LEMMA InOrderStep ==
  ASSUME Typed, InOrder, [Next]_vars
  PROVE  InOrder'
<1>1. \A e \in Entries : e[1] \in 1 .. Len(Top)
  BY EntryTypes DEF Roots
<1>2. Len(Top) \in Nat
  BY ScanAssumption
<1>3. ASSUME NEW e \in Entries, FileStep(e)
      PROVE  InOrder'
  <2>1. /\ UNCHANGED <<phase, root>> /\ entry[e] # "unlisted"
        /\ \E s \in Stage \ {"unlisted", "listed"} : entry' = [entry EXCEPT ![e] = s]
    BY <1>3, FileSteps DEF HasOperation
  <2>2. /\ entry'[e] \notin {"unlisted", "listed"}
        /\ \A x \in Entries : x # e => entry'[x] = entry[x]
    BY <2>1 DEF Typed
  <2>3. ~(phase = "roots") /\ ~(phase = "walking" /\ e[1] > root)
    BY <2>1 DEF InOrder
  <2> QED BY <2>1, <2>2, <2>3 DEF InOrder, Waiting
<1>4. ASSUME NEW d \in Dirs, List(d)
      PROVE  InOrder'
  <2>1. /\ phase = "walking" /\ UNCHANGED <<phase, root>> /\ root \in Nat
        /\ \A x \in Entries : entry'[x] = entry[x] \/ Listing(x) = <<root, d>>
    BY <1>4 DEF List, Typed
  <2>2. \A x \in Entries : Listing(x) = <<root, d>> => ~(x[1] < root) /\ ~(x[1] > root)
    BY <2>1 DEF Listing
  <2> QED BY <2>1, <2>2 DEF InOrder, Waiting
<1>5. CASE StartWalking
  <2>1. /\ phase' = "walking" /\ root' = 1 /\ UNCHANGED entry
        /\ \A e \in Entries : entry[e] = "unlisted" /\ ~(e[1] < 1)
    BY <1>1, <1>2, <1>5 DEF StartWalking, InOrder
  <2> QED BY <2>1 DEF InOrder
<1>6. CASE RootWalked
  <2>1. /\ entry' = entry /\ phase = "walking" /\ root \in Nat
        /\ \/ phase' = "walking" /\ root' = root + 1
           \/ phase' = "waiting" /\ root >= Len(Top)
    BY <1>2, <1>6 DEF RootWalked, Typed
  <2>2. \A e \in Entries : e[1] = root => ~Waiting(e)
    BY <1>6 DEF RootWalked, Waiting
  <2>3. ASSUME NEW e \in Entries, e[1] < root + 1
        PROVE  ~Waiting(e)
    <3>1. e[1] \in Nat /\ (e[1] = root \/ e[1] < root)
      BY <1>1, <1>2, <2>1, <2>3
    <3> QED BY <2>1, <2>2, <3>1 DEF InOrder
  <2>4. \A e \in Entries : Waiting(e)' <=> Waiting(e)
    BY <2>1 DEF Waiting
  <2>5. CASE phase' = "walking" /\ root' = root + 1
    <3>1. \A e \in Entries : e[1] \in Nat /\ (e[1] > root + 1 => e[1] > root)
      BY <1>1, <1>2, <2>1
    <3> QED BY <2>1, <2>3, <2>4, <2>5, <3>1 DEF InOrder
  <2>6. CASE phase' = "waiting" /\ root >= Len(Top)
    <3>1. \A e \in Entries : e[1] < root + 1
      BY <1>1, <1>2, <2>1, <2>6
    <3> QED BY <2>3, <2>4, <2>6, <3>1 DEF InOrder
  <2> QED BY <2>1, <2>5, <2>6
<1>7. CASE OtherStep
  <2>1. UNCHANGED entry /\ (phase' # phase => phase = "waiting" /\ phase' = "returned")
        /\ (phase # "roots" => root' = root)
    BY <1>7, OtherSteps
  <2> QED BY <2>1 DEF InOrder, Waiting
<1> QED
  BY <1>3, <1>4, <1>5, <1>6, <1>7, StepsAre

LEMMA ListedOnceStep ==
  ASSUME Typed, ListedOnce, [Next]_vars
  PROVE  ListedOnce'
<1>1. ASSUME NEW e \in Entries, FileStep(e)
      PROVE  ListedOnce'
  BY <1>1, FileSteps DEF ListedOnce, Listing, HasOperation, Typed
<1>2. ASSUME NEW d \in Dirs, List(d)
      PROVE  ListedOnce'
  <2>1. /\ <<root, d>> \in Listings
        /\ saved'[<<root, d>>] # "unlisted"
        /\ \A l \in Listings : l # <<root, d>> => saved'[l] = saved[l]
        /\ \A x \in Entries : entry'[x] = entry[x] \/ Listing(x) = <<root, d>>
    BY <1>2 DEF List, get_times, Typed, Listing
  <2> QED BY <2>1, EntryTypes DEF ListedOnce, Listing
<1>3. CASE StartWalking
  BY <1>3 DEF StartWalking, ListedOnce, Listing, times
<1>4. CASE RootWalked
  BY <1>4 DEF RootWalked, ListedOnce, Listing, times
<1>5. CASE OtherStep
  BY <1>5, OtherSteps DEF ListedOnce, Listing
<1> QED
  BY <1>1, <1>2, <1>3, <1>4, <1>5, StepsAre

LEMMA EndInOrderStep ==
  ASSUME Typed, InOrder, EndInOrder, [Next]_vars
  PROVE  EndInOrder'
<1>1. ASSUME NEW e \in Entries, FileStep(e)
      PROVE  EndInOrder'
  <2>1. UNCHANGED <<phase, operation>>
    BY <1>1, FileSteps
  <2>2. entry[e] = "listed" \/ HasOperation(e)
    BY <1>1, FileSteps
  <2>3. operation = "alive"
    BY <2>2 DEF EndInOrder, InOrder, Waiting, Typed
  <2> QED BY <2>1, <2>3 DEF EndInOrder
<1>2. ASSUME NEW d \in Dirs, List(d)
      PROVE  EndInOrder'
  BY <1>2 DEF List, get_times, EndInOrder
<1>3. CASE StartWalking
  BY <1>3 DEF StartWalking, EndInOrder
<1>4. CASE RootWalked
  BY <1>4 DEF RootWalked, EndInOrder
<1>5. CASE OtherStep
  <2> USE DEF EndInOrder, HasOperation
  <2>1. CASE AddRoot
    BY <2>1 DEF AddRoot
  <2>2. CASE \E r \in Roots : DropWalker(r)
    BY <2>2 DEF DropWalker
  <2>3. CASE SendStats
    BY <2>3 DEF SendStats, ScanHasOperation, Typed
  <2>4. CASE RemoveTempDirs
    BY <2>4 DEF RemoveTempDirs
  <2>5. CASE ScanReturns
    BY <2>5 DEF ScanReturns
  <2>6. CASE UNCHANGED vars
    BY <2>6 DEF vars
  <2> QED BY <1>5, <2>1, <2>2, <2>3, <2>4, <2>5, <2>6 DEF OtherStep
<1> QED
  BY <1>1, <1>2, <1>3, <1>4, <1>5, StepsAre

LEMMA FilesOnlyStep ==
  ASSUME Typed, FilesOnly, [Next]_vars
  PROVE  FilesOnly'
<1>1. ASSUME NEW e \in Entries, FileStep(e)
      PROVE  FilesOnly'
  <2>1. \A x \in Entries : x # e => (HasOperation(x)' <=> HasOperation(x))
    BY <1>1, FileSteps DEF HasOperation, Typed
  <2>2. \A x \in Entries : disk'[x[2]].file = disk[x[2]].file
    BY <1>1, FileSteps, EntryTypes
  <2>3. HasOperation(e)' => HasOperation(e) \/ disk[e[2]].file
    BY <1>1, FileSteps
  <2> QED BY <2>1, <2>2, <2>3 DEF FilesOnly
<1>2. ASSUME NEW d \in Dirs, List(d)
      PROVE  FilesOnly'
  BY <1>2 DEF List, get_times, FilesOnly, HasOperation, world
<1>3. CASE StartWalking
  BY <1>3 DEF StartWalking, FilesOnly, HasOperation, world
<1>4. CASE RootWalked
  BY <1>4 DEF RootWalked, FilesOnly, HasOperation, world
<1>5. CASE OtherStep
  BY <1>5, OtherSteps DEF FilesOnly, HasOperation
<1> QED
  BY <1>1, <1>2, <1>3, <1>4, <1>5, StepsAre

-----------------------------------------------------------------------------
(* The statistics. *)

\* An entry that comes up has not been counted.
LEMMA ListCounted ==
  ASSUME Typed, ListedOnce, Counted, Truthful, NEW d \in Dirs, List(d)
  PROVE  /\ Counted' /\ Truthful'
<1>1. ASSUME NEW e \in Entries, Listing(e) = <<root, d>>
      PROVE  entry[e] = "unlisted"
  BY <1>1 DEF ListedOnce, List, Unlisted
<1>2. /\ UNCHANGED <<started, final, orig, disk, missed>>
      /\ \A e \in Entries : entry'[e] = entry[e] \/ (entry[e] = "unlisted" /\ entry'[e] = "listed")
  BY <1>1 DEF List, get_times, world, stats
<1>3. Counted'
  BY <1>2 DEF Counted, CountedAt, Waiting, Typed, Stage
<1>4. Truthful'
  BY <1>2 DEF Truthful, TruthfulAt, Typed, Stage
<1> QED BY <1>3, <1>4

\* Counting once more.
LEMMA OneMore ==
  ASSUME NEW s \in Seq(Info), NEW info \in Info
  PROVE  /\ Len(Append(s, info)) = Len(s) + 1 /\ Append(s, info) # <<>>
         /\ s = <<>> => Len(s) = 0 /\ Append(s, info)[1] = info
         /\ Len(s) \in Nat /\ (s = <<>> <=> Len(s) = 0)
<1> QED
  OBVIOUS

\* A step of one entry leaves the others as they are.
LEMMA OthersStay ==
  ASSUME Typed, NEW e \in Entries, FileStep(e), NEW x \in Entries, x # e
  PROVE  /\ entry'[x] = entry[x] /\ started'[x] = started[x] /\ final'[x] = final[x]
         /\ orig'[x] = orig[x]
         /\ x \in missed => x \in missed'
         /\ disk'[x[2]] = disk[x[2]] \/ x[2] = e[2]
<1> USE DEF world, stats, history, add_start_file, add_end_file, Typed
<1>1. CASE PassBy(e)
  BY <1>1 DEF PassBy
<1>2. CASE Visit(e)
  BY <1>2 DEF Visit, LeaveAlone, Submit
<1>3. CASE FileFails(e) \/ Open(e) \/ Check(e)
  BY <1>3 DEF FileFails, Open, Check
<1>4. CASE Rename(e)
  BY <1>4, EntryTypes DEF Rename
<1>5. CASE Report(e)
  BY <1>5 DEF Report
<1>6. CASE Count(e)
  BY <1>6 DEF Count
<1>7. CASE DropFirst(e)
  BY <1>7 DEF DropFirst
<1>8. CASE DropSecond(e)
  BY <1>8 DEF DropSecond
<1> QED
  BY <1>1, <1>2, <1>3, <1>4, <1>5, <1>6, <1>7, <1>8 DEF FileStep

LEMMA CountedStep ==
  ASSUME Typed, ListedOnce, Counted, Truthful, [Next]_vars
  PROVE  Counted'
<1>1. ASSUME NEW e \in Entries, FileStep(e)
      PROVE  Counted'
  <2> USE DEF stats, CountedAt, Waiting
  <2>1. \A x \in Entries : x # e => CountedAt(x)'
    BY <1>1, OthersStay DEF Counted
  <2>2. /\ started[e] \in Seq(Info) /\ final[e] \in Seq(Info) /\ orig[e].info \in Info
        /\ \A f \in Files : \A found : FileInfo(f, found) \in Info
        /\ e[2] \in Files
    BY EntryTypes, FileInfoTypes DEF Typed
  <2>3. CountedAt(e)
    BY DEF Counted
  <2>4. \A s \in Stage : entry' = [entry EXCEPT ![e] = s] => entry'[e] = s
    BY DEF Typed
  <2>5. ASSUME PassBy(e) PROVE CountedAt(e)'
    <3>1. entry'[e] = "gone" /\ UNCHANGED <<started, final>> /\ entry[e] = "listed"
      BY <2>5, <2>4 DEF PassBy, Stage
    <3> QED BY <2>3, <3>1
  <2>6. ASSUME Visit(e) PROVE CountedAt(e)'
    <3>1. PICK found \in AskVolume(e[2]) :
            add_start_file(e, FileInfo(e[2], found)) /\ (LeaveAlone(e, found) \/ Submit(e, found))
      BY <2>6 DEF Visit
    <3>2. started'[e] = Append(started[e], FileInfo(e[2], found)) /\ entry[e] = "listed"
      BY <2>6, <3>1 DEF Visit, add_start_file, Typed
    <3>3. \/ entry'[e] = "gone" /\ final'[e] = Append(final[e], FileInfo(e[2], found))
          \/ entry'[e] = "submitted" /\ final'[e] = final[e]
      BY <3>1, <2>4 DEF LeaveAlone, Submit, add_end_file, Typed, Stage
    <3> QED BY <2>2, <2>3, <3>2, <3>3, OneMore
  <2>7. ASSUME FileFails(e) PROVE CountedAt(e)'
    <3>1. entry'[e] = "dropping" /\ UNCHANGED <<started, final>> /\ entry[e] \in Working
      BY <2>7, <2>4 DEF FileFails, Stage
    <3> QED BY <2>2, <2>3, <3>1, OneMore
  <2>8. ASSUME Open(e) \/ Check(e) \/ Rename(e) PROVE CountedAt(e)'
    <3>1. entry'[e] \in Working /\ UNCHANGED <<started, final>> /\ entry[e] \in Working
      BY <2>8, <2>4 DEF Open, Check, Rename, Stage
    <3> QED BY <2>3, <3>1
  <2>9. ASSUME Report(e) PROVE CountedAt(e)'
    <3> DEFINE info == [compressed |-> disk[e[2]].compressed, state |-> "reported"]
    <3>1. info \in Info
      BY <2>2 DEF Info, Typed, Metadata
    <3>2. final' = [final EXCEPT ![e] = Append(@, info)] \/ final' = final
      BY <2>9 DEF Report, add_end_file
    <3>3. entry'[e] = "dropping" /\ UNCHANGED started /\ entry[e] = "published"
      BY <2>9, <2>4 DEF Report, Stage
    <3>4. final'[e] = Append(final[e], info) \/ final'[e] = final[e]
      BY <3>2 DEF Typed
    <3> HIDE DEF info
    <3> QED BY <2>2, <2>3, <3>1, <3>3, <3>4, OneMore
  <2>10. ASSUME Count(e) PROVE CountedAt(e)'
    <3>1. final'[e] = IF final[e] = <<>> THEN Append(final[e], orig[e].info) ELSE final[e]
      BY <2>10 DEF Count, add_end_file, Typed
    <3>2. entry'[e] = "counted" /\ UNCHANGED started /\ entry[e] = "dropping"
      BY <2>10, <2>4 DEF Count, Stage
    <3> QED BY <2>2, <2>3, <3>1, <3>2, OneMore
  <2>11. ASSUME DropFirst(e) PROVE CountedAt(e)'
    <3>1. entry'[e] = "leaving" /\ UNCHANGED <<started, final>> /\ entry[e] = "counted"
      BY <2>11, <2>4 DEF DropFirst, Stage
    <3> QED BY <2>3, <3>1
  <2>12. ASSUME DropSecond(e) PROVE CountedAt(e)'
    <3>1. entry'[e] = "gone" /\ UNCHANGED <<started, final>> /\ entry[e] = "leaving"
      BY <2>12, <2>4 DEF DropSecond, Stage
    <3>2. Len(started[e]) = 1 /\ Len(final[e]) = 1
      BY <2>3, <3>1
    <3> QED BY <3>1, <3>2
  <2>13. CountedAt(e)'
    BY <1>1, <2>5, <2>6, <2>7, <2>8, <2>9, <2>10, <2>11, <2>12 DEF FileStep
  <2> QED BY <2>1, <2>13 DEF Counted
<1>2. CASE \E d \in Dirs : List(d)
  BY <1>2, ListCounted
<1>3. CASE StartWalking \/ RootWalked
  BY <1>3 DEF StartWalking, RootWalked, Counted, CountedAt, Waiting, stats
<1>4. CASE OtherStep
  BY <1>4, OtherSteps DEF Counted, CountedAt, Waiting
<1> QED
  BY <1>1, <1>2, <1>3, <1>4, StepsAre

LEMMA TruthfulStep ==
  ASSUME Typed, ListedOnce, Counted, Truthful, [Next]_vars
  PROVE  Truthful'
<1> USE DEF TruthfulAt
<1>1. \A x \in Entries : ReachedOnce(x)' <=> ReachedOnce(x)
  BY DEF ReachedOnce
<1>2. ASSUME NEW e \in Entries, FileStep(e)
      PROVE  Truthful'
  <2>1. ASSUME NEW x \in Entries, x # e, x \notin missed', ReachedOnce(x)
        PROVE  TruthfulAt(x)'
    <3>1. x[2] # e[2]
      BY <2>1 DEF ReachedOnce
    <3>2. TruthfulAt(x) /\ disk'[x[2]] = disk[x[2]]
      BY <1>2, <2>1, <3>1, OthersStay DEF Truthful
    <3> QED BY <1>2, <2>1, <3>2, OthersStay
  <2>2. ASSUME e \notin missed', ReachedOnce(e)
        PROVE  TruthfulAt(e)'
    <3> USE DEF stats, world, history
    <3>1. /\ started[e] \in Seq(Info) /\ final[e] \in Seq(Info) /\ orig[e].info \in Info
          /\ e[2] \in Files
      BY EntryTypes DEF Typed
    <3>2. CountedAt(e)
      BY DEF Counted
    <3>3. e \notin missed => TruthfulAt(e)
      BY <2>2 DEF Truthful
    <3>4. \A s \in Stage : entry' = [entry EXCEPT ![e] = s] => entry'[e] = s
      BY DEF Typed
    <3>5. ASSUME PassBy(e) PROVE TruthfulAt(e)'
      <4>1. entry'[e] = "gone" /\ UNCHANGED <<final, disk, missed>>
        BY <3>5, <3>4 DEF PassBy, Stage
      <4> QED BY <2>2, <3>3, <4>1
    <3>6. ASSUME Visit(e) PROVE TruthfulAt(e)'
      <4>1. PICK found \in AskVolume(e[2]) :
              /\ orig' = [orig EXCEPT ![e] = [info |-> FileInfo(e[2], found), version |-> version[e[2]]]]
              /\ LeaveAlone(e, found) \/ Submit(e, found)
        BY <3>6 DEF Visit
      <4>2. /\ UNCHANGED disk /\ final[e] = <<>>
        BY <3>2, <3>6 DEF Visit, CountedAt, Waiting
      <4>3. orig'[e].info = FileInfo(e[2], found)
        BY <4>1 DEF Typed
      <4>4. \/ entry'[e] = "gone" /\ final'[e] = Append(final[e], FileInfo(e[2], found))
            \/ entry'[e] = "submitted" /\ final'[e] = final[e]
        BY <3>4, <4>1 DEF LeaveAlone, Submit, add_end_file, Typed, Stage
      <4>5. FileInfo(e[2], found) \in Info /\ FileInfo(e[2], found).compressed = disk[e[2]].compressed
        BY <3>1, FileInfoTypes
      <4> QED BY <3>1, <4>2, <4>3, <4>4, <4>5, OneMore
    <3>7. ASSUME FileFails(e) PROVE TruthfulAt(e)'
      <4>1. /\ entry[e] \in {"submitted", "opened", "checked"} /\ entry'[e] = "dropping"
            /\ UNCHANGED <<final, disk, missed, orig>>
        BY <3>7, <3>4 DEF FileFails, Stage
      <4> QED BY <2>2, <3>3, <4>1
    <3>8. ASSUME Rename(e) PROVE TruthfulAt(e)'
      <4>1. entry'[e] = "published" /\ UNCHANGED final /\ final[e] = <<>>
        BY <3>8, <3>4, <3>2 DEF Rename, Stage, CountedAt
      <4> QED BY <4>1
    <3>9. ASSUME Open(e) \/ Check(e) PROVE TruthfulAt(e)'
      <4>1. /\ entry[e] \in {"submitted", "opened"} /\ entry'[e] \in {"opened", "checked"}
            /\ UNCHANGED <<final, disk, missed, orig>>
        BY <3>9, <3>4 DEF Open, Check, Stage
      <4> QED BY <2>2, <3>3, <4>1
    <3>10. ASSUME Report(e) PROVE TruthfulAt(e)'
      <4> DEFINE info == [compressed |-> disk[e[2]].compressed, state |-> "reported"]
      <4>1. info \in Info /\ info.compressed = disk[e[2]].compressed
        BY <3>1 DEF Info, Typed, Metadata
      <4>2. final' = [final EXCEPT ![e] = Append(@, info)] \/ e \in missed'
        BY <3>10 DEF Report, add_end_file
      <4>3. final'[e] = Append(final[e], info)
        BY <2>2, <4>2 DEF Typed
      <4>4. entry'[e] = "dropping" /\ UNCHANGED disk /\ final[e] = <<>>
        BY <3>10, <3>4, <3>2 DEF Report, Stage, CountedAt
      <4> HIDE DEF info
      <4> QED BY <3>1, <4>1, <4>3, <4>4, OneMore
    <3>11. ASSUME Count(e) PROVE TruthfulAt(e)'
      <4>1. final'[e] = IF final[e] = <<>> THEN Append(final[e], orig[e].info) ELSE final[e]
        BY <3>11 DEF Count, add_end_file, Typed
      <4>2. entry'[e] = "counted" /\ entry[e] = "dropping" /\ UNCHANGED <<disk, missed, orig>>
        BY <3>11, <3>4 DEF Count, Stage
      <4>3. TruthfulAt(e)
        BY <2>2, <3>3, <4>2
      <4> QED BY <3>1, <4>1, <4>2, <4>3, OneMore
    <3>12. ASSUME DropFirst(e) PROVE TruthfulAt(e)'
      <4>1. entry'[e] = "leaving" /\ UNCHANGED <<final, disk, missed>>
        BY <3>12, <3>4 DEF DropFirst, Stage
      <4> QED BY <2>2, <3>3, <4>1
    <3>13. ASSUME DropSecond(e) PROVE TruthfulAt(e)'
      <4>1. entry'[e] = "gone" /\ UNCHANGED <<final, disk, missed>>
        BY <3>13, <3>4 DEF DropSecond, Stage
      <4> QED BY <2>2, <3>3, <4>1
    <3> QED BY <1>2, <3>5, <3>6, <3>7, <3>8, <3>10, <3>11, <3>12, <3>13, <3>9 DEF FileStep
  <2> QED BY <1>1, <2>1, <2>2 DEF Truthful
<1>3. CASE \E d \in Dirs : List(d)
  BY <1>3, ListCounted
<1>4. CASE StartWalking \/ RootWalked
  BY <1>1, <1>4 DEF StartWalking, RootWalked, Truthful, stats, world, history
<1>5. CASE OtherStep
  BY <1>1, <1>5, OtherSteps DEF Truthful
<1> QED
  BY <1>2, <1>3, <1>4, <1>5, StepsAre

-----------------------------------------------------------------------------
(* The times of directories. *)

\* A directory that is exempt once remains so.
LEMMA ExemptionsGrow ==
  ASSUME \A d \in Dirs : Hosting(d) => Hosting(d)', unlucky \subseteq unlucky',
         \A l \in Listings : saved[l] = "touched" => saved'[l] = "touched"
  PROVE  \A d \in Dirs : Exempt(d) => Exempt(d)'
<1> QED
  BY DEF Exempt, SavedLate

\* A step that only makes temporary directories changes nothing for the others.
LEMMA MadeKeepsTimes ==
  ASSUME TimesInHand, NEW made \in SUBSET Dirs, touched \subseteq Dirs,
         \A d \in Dirs : Hosting(d) \/ d \in made => Hosting(d)',
         unlucky \subseteq unlucky',
         touched' = touched \cup made,
         UNCHANGED <<saved, active>>,
         \A e \in Entries : HasResetter(e) => HasResetter(e)'
  PROVE  TimesInHand'
<1>1. \A d \in Dirs : ~Exempt(d)' => ~Exempt(d) /\ d \notin made
  BY ExemptionsGrow DEF Exempt
<1>2. \A l \in Listings : ~Exempt(l[2])' => saved'[l] \notin {"none", "touched"}
  BY <1>1, ListingTypes DEF TimesInHand
<1>3. \A d : Held(d) => Held(d)'
  BY DEF Held, Listing
<1>4. \A d \in touched' : ~Exempt(d)' => Held(d)'
  BY <1>1, <1>3 DEF TimesInHand
<1> QED
  BY <1>2, <1>4 DEF TimesInHand

\* A step that leaves directories and Resetters alone changes nothing.
LEMMA TimesStay ==
  ASSUME Typed, TimesInHand, UNCHANGED <<saved, active, touched, host, unlucky>>,
         \A e \in Entries : HasResetter(e) => HasResetter(e)'
  PROVE  TimesInHand'
<1>1. {} \in SUBSET Dirs /\ touched \subseteq Dirs /\ touched' = touched \cup {}
  BY DEF Typed
<1>2. \A d \in Dirs : Hosting(d) \/ d \in {} => Hosting(d)'
  BY DEF Hosting
<1> QED
  BY <1>1, <1>2, MadeKeepsTimes

\* The last one resets the times; if there is another one, he will.
LEMMA DropResetterKeepsTimes ==
  ASSUME Typed, TimesInHand, ListedOnce, NEW e \in Entries, NEW made \in SUBSET Dirs, NEW failed,
         DropResetter(e, made, failed),
         \A d \in Dirs : Hosting(d) \/ d \in made => Hosting(d)',
         UNCHANGED <<saved, active>>,
         entry[e] # "unlisted",
         \A x \in Entries \ {e} : HasResetter(x) => HasResetter(x)'
  PROVE  TimesInHand'
<1>1. unlucky \subseteq unlucky' /\ touched' \subseteq Dirs
  BY DropResetterTypes DEF DropResetter
<1>2. \A d \in Dirs : ~Exempt(d)' => ~Exempt(d) /\ d \notin made /\ d \notin unlucky'
  BY <1>1, ExemptionsGrow DEF Exempt
<1>3. \A l \in Listings : ~Exempt(l[2])' => saved'[l] \notin {"none", "touched"}
  BY <1>2, ListingTypes DEF TimesInHand
<1>4. ASSUME NEW d \in touched', ~Exempt(d)'
      PROVE  Held(d)'
  <2>1. d \in Dirs /\ ~Exempt(d) /\ d \notin made /\ d \notin unlucky'
    BY <1>1, <1>2, <1>4
  <2>2. CASE HasResetter(e) /\ LastOfListing(e) /\ Listing(e) \in active /\ d = In[e[2]]
    <3>1. Listing(e) \in Listings /\ Listing(e)[2] = d
      BY <2>2, EntryTypes
    <3>2. saved[Listing(e)] = "original"
      BY <2>1, <3>1 DEF TimesInHand, ListedOnce, Typed
    <3>3. d \notin touched'
      BY <2>1, <2>2, <3>2 DEF DropResetter, reset_times
    <3> QED BY <1>4, <3>3
  <2>3. CASE ~(HasResetter(e) /\ LastOfListing(e) /\ Listing(e) \in active /\ d = In[e[2]])
    <3>1. d \in touched
      BY <1>4, <2>1, <2>3 DEF DropResetter, reset_times
    <3>2. PICK x \in Entries : In[x[2]] = d /\ Listing(x) \in active /\ HasResetter(x)
      BY <2>1, <3>1 DEF TimesInHand, Held
    <3>3. PICK y \in Entries \ {e} : In[y[2]] = d /\ Listing(y) = Listing(x) /\ HasResetter(y)
      <4>1. CASE x # e
        BY <3>2, <4>1
      <4>2. CASE x = e
        <5>1. ~LastOfListing(e)
          BY <2>3, <3>2, <4>2
        <5>2. PICK y \in Entries \ {e} : Listing(y) = Listing(e) /\ HasResetter(y)
          BY <5>1 DEF LastOfListing
        <5>3. In[y[2]] = In[e[2]]
          BY <5>2, EntryTypes
        <5> QED BY <3>2, <4>2, <5>2, <5>3
      <4> QED BY <4>1, <4>2
    <3>4. Listing(y)' = Listing(y) /\ active' = active
      BY DEF Listing
    <3> QED BY <3>2, <3>3, <3>4 DEF Held
  <2> QED BY <2>2, <2>3
<1> QED
  BY <1>3, <1>4 DEF TimesInHand

LEMMA HostsKnownStep ==
  ASSUME Typed, HostsKnown, [Next]_vars
  PROVE  HostsKnown'
<1> USE DEF volumes
<1>1. CASE AddRoot
  <2>1. PICK found \in Answers(DeviceOf[Top[root]], Top[root]) :
          Remember(DeviceOf[Top[root]], found)
    BY <1>1 DEF AddRoot, Answers
  <2>2. Top[root] \in Dirs /\ DeviceOf[Top[root]] \in Devices
    BY <1>1, ScanAssumption DEF AddRoot, Roots
  <2> QED BY <2>1, <2>2, RememberTypes
<1>2. ASSUME NEW e \in Entries, Visit(e) \/ FileFails(e) \/ Check(e)
      PROVE  HostsKnown'
  <2>1. \E found \in Answers(DeviceOf[In[e[2]]], In[e[2]]) : Remember(DeviceOf[In[e[2]]], found)
    BY <1>2, EntryTypes, AnswersForFiles DEF Visit, FileFails, Check
  <2> QED BY <2>1, EntryTypes, RememberTypes
<1>3. CASE UNCHANGED volumes
  BY <1>3 DEF HostsKnown
<1> QED
  BY <1>1, <1>2, <1>3
  DEF Next, Terminated, vars, StartWalking, RootWalked, List, DropWalker, PassBy, Open, Rename,
      Report, Count, DropFirst, DropSecond, SendStats, RemoveTempDirs, ScanReturns

\* A file that goes on holds its Resetter until it drops it.
LEMMA ResetterHeld ==
  ASSUME Typed, FilesOnly, NEW e \in Entries, FileStep(e)
  PROVE  /\ \A x \in Entries \ {e} : HasResetter(x) => HasResetter(x)'
         /\ entry'[e] \in {"dropping", "counted"} \cup Working
              => (HasResetter(e) => HasResetter(e)')
<1>1. /\ \A x \in Entries \ {e} : entry'[x] = entry[x]
      /\ \A x \in Entries : disk'[x[2]].file = disk[x[2]].file
  BY FileSteps, EntryTypes DEF Typed
<1> QED BY <1>1 DEF HasResetter

\* A root that finds times changed which a Resetter still holds comes after the root of
\* that Resetter.
LEMMA ListKeepsTimes ==
  ASSUME Typed, InOrder, ListedOnce, TimesInHand, NEW d \in Dirs, List(d)
  PROVE  TimesInHand'
<1> DEFINE l == <<root, d>>
<1>1. /\ l \in Listings /\ l[2] = d /\ saved[l] = "unlisted" /\ phase = "walking"
      /\ UNCHANGED <<touched, active, host, disk>>
      /\ \/ saved'[l] = "none" /\ d \in unlucky'
         \/ saved'[l] = IF d \in touched THEN "touched" ELSE "original"
      /\ \A k \in Listings : k # l => saved'[k] = saved[k]
      /\ unlucky \subseteq unlucky'
      /\ \A x \in Entries : entry'[x] = entry[x] \/ entry'[x] = "listed"
  BY DEF List, get_times, Unlisted, Typed, world, volumes
<1> HIDE DEF l
<1>2. /\ \A dir \in Dirs : Hosting(dir) => Hosting(dir)'
      /\ \A k \in Listings : saved[k] = "touched" => saved'[k] = "touched"
  BY <1>1 DEF Hosting
<1>3. \A dir \in Dirs : Exempt(dir) => Exempt(dir)'
  BY <1>1, <1>2, ExemptionsGrow
<1>4. ASSUME d \in touched, saved'[l] = "touched"
      PROVE  Exempt(d)'
  <2>1. CASE Exempt(d)
    BY <1>3, <2>1
  <2>2. CASE ~Exempt(d)
    <3>1. PICK x \in Entries : In[x[2]] = d /\ Listing(x) \in active /\ HasResetter(x)
      BY <1>4, <2>2 DEF TimesInHand, Held
    <3>2. entry[x] # "unlisted"
      BY <3>1 DEF HasResetter
    <3>3. Listing(x) = <<x[1], d>> /\ Listing(x) # l
      BY <1>1, <3>1, <3>2 DEF Listing, ListedOnce
    <3>4. x[1] # root
      BY <3>3 DEF l
    <3>5. x[1] \in Int /\ root \in Int /\ ~(x[1] > root)
      BY <1>1, <3>2, EntryTypes DEF InOrder, Typed, Roots
    <3>6. x[1] < root
      BY <3>4, <3>5
    <3>7. Listing(x) \in Listings /\ Listing(x)[1] < l[1] /\ Listing(x)[2] = d
      BY <3>3, <3>6, EntryTypes DEF l
    <3> QED BY <1>1, <1>4, <3>7 DEF Exempt, SavedLate
  <2> QED BY <2>1, <2>2
<1>5. \A k \in Listings : ~Exempt(k[2])' => saved'[k] \notin {"none", "touched"}
  <2>1. ASSUME NEW k \in Listings, ~Exempt(k[2])', k # l
        PROVE  saved'[k] \notin {"none", "touched"}
    BY <1>1, <1>3, <2>1, ListingTypes DEF TimesInHand
  <2>2. ~Exempt(d)' => saved'[l] \notin {"none", "touched"}
    BY <1>1, <1>4 DEF Exempt
  <2> QED BY <1>1, <2>1, <2>2
<1>6. \A dir \in touched' : ~Exempt(dir)' => Held(dir)'
  <2>1. \A x \in Entries : HasResetter(x) => HasResetter(x)'
    BY <1>1 DEF HasResetter
  <2>2. \A dir : Held(dir) => Held(dir)'
    BY <1>1, <2>1 DEF Held, Listing
  <2> QED BY <1>1, <1>3, <2>2 DEF TimesInHand, Typed
<1> QED
  BY <1>5, <1>6 DEF TimesInHand

\* A file that is renamed holds the Resetter that it activates.
LEMMA RenameKeepsTimes ==
  ASSUME Typed, FilesOnly, TimesInHand, NEW e \in Entries, Rename(e)
  PROVE  TimesInHand'
<1>1. /\ entry'[e] = "published" /\ entry[e] = "checked" /\ UNCHANGED <<saved, unlucky, host>>
      /\ touched' = touched \cup {In[e[2]]} /\ active \subseteq active'
      /\ saved[Listing(e)] # "none" => Listing(e) \in active'
      /\ FileStep(e)
  BY EntryTypes DEF Rename, FileStep, Typed, activate, volumes, history
<1>2. HasResetter(e)' /\ \A x \in Entries : HasResetter(x) => HasResetter(x)'
  BY <1>1, ResetterHeld DEF HasResetter, FilesOnly, HasOperation
<1>3. \A d \in Dirs : Exempt(d) => Exempt(d)'
  BY <1>1, ExemptionsGrow DEF Hosting
<1>4. \A l \in Listings : ~Exempt(l[2])' => saved'[l] \notin {"none", "touched"}
  BY <1>1, <1>3, ListingTypes DEF TimesInHand
<1>5. ASSUME NEW d \in touched', ~Exempt(d)'
      PROVE  Held(d)'
  <2>1. CASE d = In[e[2]]
    <3>1. Listing(e) \in Listings /\ Listing(e)[2] = d
      BY <2>1, EntryTypes
    <3>2. saved[Listing(e)] # "none"
      BY <1>1, <1>4, <1>5, <3>1
    <3> QED BY <1>1, <1>2, <2>1, <3>2 DEF Held, Listing
  <2>2. CASE d # In[e[2]]
    <3>1. d \in touched /\ ~Exempt(d)
      BY <1>1, <1>3, <1>5, <2>2 DEF Typed
    <3>2. PICK x \in Entries : In[x[2]] = d /\ Listing(x) \in active /\ HasResetter(x)
      BY <3>1 DEF TimesInHand, Held
    <3> QED BY <1>1, <1>2, <3>2 DEF Held, Listing
  <2> QED BY <2>1, <2>2
<1> QED
  BY <1>4, <1>5 DEF TimesInHand

LEMMA TimesInHandStep ==
  ASSUME Typed, HostsKnown, InOrder, ListedOnce, FilesOnly, TimesInHand, [Next]_vars
  PROVE  TimesInHand'
<1> USE DEF world, volumes, times, stats, history
<1>1. CASE AddRoot
  <2>1. PICK found \in Answers(DeviceOf[Top[root]], Top[root]) :
          Remember(DeviceOf[Top[root]], found) /\ touched' = touched \cup found.made
    BY <1>1 DEF AddRoot, Answers
  <2>2. Top[root] \in Dirs /\ DeviceOf[Top[root]] \in Devices
    BY <1>1, ScanAssumption DEF AddRoot, Roots
  <2>3. /\ \A d \in Dirs : Hosting(d) \/ d \in found.made => Hosting(d)'
        /\ found.made \subseteq Dirs
    BY <2>1, <2>2, RememberTypes
  <2>4. UNCHANGED <<saved, active, entry, disk, unlucky>>
    BY <1>1 DEF AddRoot
  <2> QED BY <2>1, <2>3, <2>4, MadeKeepsTimes DEF HasResetter, Typed
<1>2. CASE StartWalking \/ RootWalked
  BY <1>2, TimesStay DEF StartWalking, RootWalked, HasResetter
<1>3. ASSUME NEW d \in Dirs, List(d)
      PROVE  TimesInHand'
  BY <1>3, ListKeepsTimes
<1>4. ASSUME NEW e \in Entries, PassBy(e) \/ DropFirst(e)
      PROVE  TimesInHand'
  <2>1. \E failed : DropResetter(e, {}, failed)
    BY <1>4 DEF PassBy, DropFirst
  <2>2. UNCHANGED <<saved, active, host>> /\ entry[e] # "unlisted" /\ FileStep(e)
    BY <1>4 DEF PassBy, DropFirst, FileStep
  <2>3. \A d \in Dirs : Hosting(d) \/ d \in {} => Hosting(d)'
    BY <2>2 DEF Hosting
  <2> QED BY <2>1, <2>2, <2>3, ResetterHeld, DropResetterKeepsTimes
<1>5. ASSUME NEW e \in Entries, Visit(e)
      PROVE  TimesInHand'
  <2>1. PICK found \in AskVolume(e[2]) :
          Remember(DeviceOf[In[e[2]]], found) /\ (LeaveAlone(e, found) \/ Submit(e, found))
    BY <1>5 DEF Visit
  <2>2. found \in Answers(DeviceOf[In[e[2]]], In[e[2]])
    BY EntryTypes, AnswersForFiles
  <2>3. /\ \A d \in Dirs : Hosting(d) \/ d \in found.made => Hosting(d)'
        /\ found.made \subseteq Dirs
    BY <2>1, <2>2, EntryTypes, RememberTypes
  <2>4. UNCHANGED <<saved, active>> /\ entry[e] # "unlisted" /\ FileStep(e)
    BY <1>5 DEF Visit, FileStep
  <2>5. CASE LeaveAlone(e, found)
    BY <2>3, <2>4, <2>5, ResetterHeld, DropResetterKeepsTimes DEF LeaveAlone
  <2>6. CASE Submit(e, found)
    <3>1. entry'[e] = "submitted" /\ unlucky' = unlucky /\ touched' = touched \cup found.made
      BY <2>6 DEF Submit, Typed
    <3>2. \A x \in Entries : HasResetter(x) => HasResetter(x)'
      BY <2>4, <3>1, ResetterHeld
    <3> QED BY <2>3, <2>4, <3>1, <3>2, MadeKeepsTimes DEF Typed
  <2> QED BY <2>1, <2>5, <2>6
<1>6. ASSUME NEW e \in Entries, FileFails(e) \/ Check(e)
      PROVE  TimesInHand'
  <2>1. PICK found \in Answers(DeviceOf[In[e[2]]], In[e[2]]) :
          Remember(DeviceOf[In[e[2]]], found) /\ touched' = touched \cup found.made
    BY <1>6, EntryTypes, AnswersForFiles DEF FileFails, Check
  <2>2. /\ \A d \in Dirs : Hosting(d) \/ d \in found.made => Hosting(d)'
        /\ found.made \subseteq Dirs
    BY <2>1, EntryTypes, RememberTypes
  <2>3. /\ entry'[e] \in {"dropping", "checked"} /\ UNCHANGED <<saved, active, unlucky>>
        /\ FileStep(e)
    BY <1>6 DEF FileFails, Check, FileStep, Typed
  <2>4. \A x \in Entries : HasResetter(x) => HasResetter(x)'
    BY <2>3, ResetterHeld
  <2> QED BY <2>1, <2>2, <2>3, <2>4, MadeKeepsTimes DEF Typed
<1>7. ASSUME NEW e \in Entries, Rename(e)
      PROVE  TimesInHand'
  BY <1>7, RenameKeepsTimes
<1>8. ASSUME NEW e \in Entries, Open(e) \/ Report(e) \/ Count(e) \/ DropSecond(e)
      PROVE  TimesInHand'
  <2>1. /\ UNCHANGED <<saved, active, host, touched, unlucky>> /\ FileStep(e)
        /\ entry'[e] \in {"opened", "dropping", "counted"} \/ entry[e] = "leaving"
    BY <1>8 DEF Open, Report, Count, DropSecond, FileStep, Typed
  <2>2. \A x \in Entries : HasResetter(x) => HasResetter(x)'
    BY <2>1, ResetterHeld DEF HasResetter
  <2> QED BY <2>1, <2>2, TimesStay
<1>9. CASE RemoveTempDirs
  <2>1. /\ UNCHANGED <<saved, active, host, entry, disk, unlucky>>
        /\ touched' = touched \cup {d \in Dirs : Hosting(d)}
    BY <1>9 DEF RemoveTempDirs
  <2>2. \A d \in Dirs : Hosting(d) \/ d \in {x \in Dirs : Hosting(x)} => Hosting(d)'
    BY <2>1 DEF Hosting
  <2>3. \A e \in Entries : HasResetter(e) => HasResetter(e)'
    BY <2>1 DEF HasResetter
  <2> QED BY <2>1, <2>2, <2>3, MadeKeepsTimes DEF Typed
<1>10. CASE \/ \E r \in Roots : DropWalker(r)
            \/ SendStats \/ ScanReturns \/ UNCHANGED vars
  BY <1>10, TimesStay DEF DropWalker, SendStats, ScanReturns, vars, HasResetter
<1> QED
  BY <1>1, <1>2, <1>3, <1>4, <1>5, <1>6, <1>7, <1>8, <1>9, <1>10 DEF Next, Terminated

-----------------------------------------------------------------------------
(* The theorems. *)

LEMMA InitIInv ==
  ASSUME Init
  PROVE  IInv
<1> USE DEF Init
<1>1. disk \in [Files -> Metadata]
  BY ScanAssumption
<1>2. infos \in [Devices -> {"unknown", "yes", "no"}]
  BY DEF vol_with_file_supports_compression
<1>3. host \in [Devices -> Dirs \cup {Nowhere, Elsewhere}]
  OBVIOUS
<1>4. [compressed |-> FALSE, state |-> "none"] \in Info /\ <<>> \in Seq(Info)
  BY DEF Info
<1>5. Typed
  <2>1. [version |-> 0, compressed |-> FALSE] \in [version : Nat, compressed : BOOLEAN]
    OBVIOUS
  <2> QED BY <1>1, <1>2, <1>3, <1>4, <2>1 DEF Typed, Stage
<1>6. InOrder /\ ListedOnce /\ EndInOrder
  BY DEF InOrder, ListedOnce, EndInOrder, HasOperation
<1>7. Counted /\ Truthful /\ FilesOnly
  BY DEF Counted, CountedAt, Truthful, TruthfulAt, FilesOnly, HasOperation, Waiting
<1>8. HostsKnown
  BY DEF HostsKnown, vol_with_file_supports_compression
<1>9. TimesInHand
  BY DEF TimesInHand
<1> QED BY <1>5, <1>6, <1>7, <1>8, <1>9 DEF IInv

LEMMA IInvStep ==
  ASSUME IInv, [Next]_vars
  PROVE  IInv'
<1> QED
  BY TypedStep, InOrderStep, ListedOnceStep, EndInOrderStep, CountedStep, TruthfulStep,
     FilesOnlyStep, HostsKnownStep, TimesInHandStep
  DEF IInv

\* The invariant that both properties follow from.
THEOREM InvariantHolds == Spec => []IInv
<1> QED
  BY InitIInv, IInvStep, PTL DEF Spec

\* Whatever fails, whoever drops the last reference to what, and wherever two roots lead to
\* the same file: when the statistics are sent, every counted file is in them once, as
\* what it has become.
THEOREM StatisticsAreComplete == Spec => []StatsComplete
<1>1. ASSUME IInv PROVE StatsComplete
  <2>1. ASSUME operation # "alive", NEW e \in Entries
        PROVE  /\ Len(started[e]) = Len(final[e]) /\ Len(final[e]) <= 1
               /\ e \notin missed /\ ReachedOnce(e) =>
                    \A i \in DOMAIN final[e] : final[e][i].compressed = disk[e[2]].compressed
    <3>1. entry[e] = "gone"
      BY <1>1, <2>1 DEF IInv, EndInOrder, InOrder, Waiting, HasOperation, Typed, Stage
    <3>2. Len(started[e]) = Len(final[e]) /\ Len(final[e]) <= 1
      BY <1>1, <3>1 DEF IInv, Counted, CountedAt
    <3>3. final[e] \in Seq(Info)
      BY <1>1 DEF IInv, Typed
    <3>4. ASSUME e \notin missed, ReachedOnce(e), NEW i \in DOMAIN final[e]
          PROVE  final[e][i].compressed = disk[e[2]].compressed
      <4>1. i = 1 /\ final[e] # <<>>
        BY <3>2, <3>3, <3>4
      <4> QED BY <1>1, <3>4, <4>1 DEF IInv, Truthful, TruthfulAt
    <3> QED BY <3>2, <3>4
  <2> QED BY <2>1 DEF StatsComplete
<1> QED
  BY <1>1, InvariantHolds, PTL

\* In any tree, with any number of volumes, also where roots name files: a directory has
\* its times back when scan returns, unless it is exempt for one of the reasons that
\* TimesKept names.
THEOREM TimesAreKept == Spec => []TimesKept
<1>1. ASSUME IInv PROVE TimesKept
  <2>1. ASSUME phase = "returned", NEW d \in touched, ~Exempt(d)
        PROVE  FALSE
    <3>1. \A e \in Entries : ~HasResetter(e)
      BY <1>1, <2>1 DEF IInv, EndInOrder, InOrder, Waiting, HasOperation, HasResetter
    <3>2. Held(d)
      BY <1>1, <2>1 DEF IInv, TimesInHand
    <3> QED BY <3>1, <3>2 DEF Held
  <2> QED BY <2>1 DEF TimesKept, Exempt
<1> QED
  BY <1>1, InvariantHolds, PTL

-----------------------------------------------------------------------------
(* Files that several roots lead to. *)

Past == {"published", "dropping", "counted", "leaving", "gone"}

\* The roots whose entry for the file may have replaced it.
Replacers(f) == {r \in Roots : <<r, f>> \in Entries /\ entry[<<r, f>>] \in Past}

\* Every entry replaces its file at most once.
ReplacedByEntries == \A f \in Files : version[f] <= Cardinality(Replacers(f))

\* A file that was replaced is what the operation makes of files.
Remade == \A f \in Files : version[f] > 0 => disk[f].compressed = compressing

\* A Context describes the file as it was found, and as it was opened, if nobody replaced
\* it in between.  None is for the compression of a file that another one compressed.
DescribedAt(e) ==
  /\ orig[e].version <= version[e[2]] /\ source[e].version <= version[e[2]]
  /\ compressing /\ entry[e] \in {"submitted", "opened", "checked"} => orig[e].version = 0
  /\ source[e].version > 0 => source[e].compressed = compressing
  /\ entry[e] \in {"opened", "checked"} => orig[e].version <= source[e].version
  /\ entry[e] = "checked" => source[e].version = orig[e].version

Described == \A e \in Entries : DescribedAt(e)

\* Rename alone replaces files, Visit alone describes them, and Open alone opens them.
LEMMA ReplacingSteps ==
  ASSUME [Next]_vars
  PROVE  /\ UNCHANGED compressing
         /\ (\E e \in Entries : Rename(e)) \/ UNCHANGED <<version, disk>>
         /\ (\E e \in Entries : Visit(e)) \/ UNCHANGED orig
         /\ (\E e \in Entries : Open(e)) \/ UNCHANGED source
<1> USE DEF world, volumes, times, stats, history
<1>1. CASE \E e \in Entries : FileStep(e)
  BY <1>1 DEF FileStep, PassBy, Visit, Open, Check, Rename, FileFails, Report, Count, DropFirst,
     DropSecond
<1>2. CASE \E d \in Dirs : List(d)
  BY <1>2 DEF List
<1>3. CASE StartWalking \/ RootWalked \/ OtherStep
  BY <1>3 DEF StartWalking, RootWalked, OtherStep, AddRoot, DropWalker, SendStats,
     RemoveTempDirs, ScanReturns, vars
<1> QED
  BY <1>1, <1>2, <1>3, StepsAre

\* Entries do not come back from where they may have been published, and pass one stage
\* after the other on the way there.
LEMMA EntriesGoOn ==
  ASSUME Typed, ListedOnce, [Next]_vars, NEW x \in Entries
  PROVE  /\ entry[x] \in Past => entry'[x] \in Past
         /\ entry'[x] = "submitted" => entry[x] = "submitted" \/ Visit(x)
         /\ entry'[x] = "opened" => entry[x] = "opened" \/ Open(x)
         /\ entry'[x] = "checked" => entry[x] = "checked" \/ Check(x)
         /\ entry'[x] = "published" => entry[x] = "published" \/ Rename(x)
<1> USE DEF Past, world, volumes, times, stats, history
<1>1. ASSUME NEW e \in Entries, FileStep(e), x # e
      PROVE  entry'[x] = entry[x]
  BY <1>1, OthersStay
<1>2. ASSUME FileStep(x)
      PROVE  /\ entry[x] \in Past => entry'[x] \in Past
             /\ entry'[x] = "submitted" => Visit(x)
             /\ entry'[x] = "opened" => Open(x)
             /\ entry'[x] = "checked" => Check(x)
             /\ entry'[x] = "published" => Rename(x)
  <2>1. \A s : entry' = [entry EXCEPT ![x] = s] => entry'[x] = s
    BY DEF Typed
  <2>2. CASE Visit(x)
    <3>1. entry[x] = "listed" /\ entry'[x] \in {"gone", "submitted"}
      BY <2>1, <2>2 DEF Visit, LeaveAlone, Submit
    <3> QED BY <2>2, <3>1
  <2>3. CASE ~Visit(x)
    BY <1>2, <2>1, <2>3
    DEF FileStep, PassBy, Open, Check, Rename, FileFails, Report, Count, DropFirst, DropSecond
  <2> QED BY <2>2, <2>3
<1>3. ASSUME NEW d \in Dirs, List(d)
      PROVE  entry'[x] = entry[x] \/ (entry'[x] = "listed" /\ entry[x] = "unlisted")
  <2>1. entry'[x] = entry[x] \/ (entry'[x] = "listed" /\ Listing(x) = <<root, d>>)
    BY <1>3 DEF List
  <2>2. Listing(x) = <<root, d>> => entry[x] = "unlisted"
    BY <1>3 DEF List, Unlisted, ListedOnce
  <2> QED
    BY <2>1, <2>2
<1>4. CASE StartWalking \/ RootWalked \/ OtherStep
  BY <1>4, OtherSteps DEF StartWalking, RootWalked
<1> QED
  BY <1>1, <1>2, <1>3, <1>4, StepsAre

LEMMA ReplacersFinite ==
  ASSUME NEW f \in Files
  PROVE  /\ IsFiniteSet(Replacers(f)) /\ Cardinality(Replacers(f)) \in Nat
         /\ Cardinality(Replacers(f)) <= Len(Top)
<1>1. Len(Top) \in Nat
  BY ScanAssumption
<1>2. IsFiniteSet(Roots) /\ Cardinality(Roots) = Len(Top)
  <2>1. \A n \in Nat : IsFiniteSet(1 .. n) /\ Cardinality(1 .. n) = n
    BY ONLY FS_Interval
  <2> QED  BY ONLY <1>1, <2>1 DEF Roots
<1>3. Replacers(f) \subseteq Roots
  BY DEF Replacers
<1> QED
  BY <1>1, <1>2, <1>3, FS_Subset, FS_CardinalityType

LEMMA ReplacedByEntriesStep ==
  ASSUME Typed, ListedOnce, ReplacedByEntries, [Next]_vars
  PROVE  ReplacedByEntries'
<1> SUFFICES ASSUME NEW f \in Files PROVE version'[f] <= Cardinality(Replacers(f)')
  BY DEF ReplacedByEntries
<1>1. /\ version[f] \in Nat /\ version[f] <= Cardinality(Replacers(f))
      /\ IsFiniteSet(Replacers(f)) /\ Cardinality(Replacers(f)) \in Nat
  BY ReplacersFinite DEF Typed, ReplacedByEntries
<1>2. Replacers(f) \subseteq Replacers(f)' /\ Replacers(f)' \subseteq Roots
  BY EntriesGoOn DEF Replacers
<1>3. IsFiniteSet(Replacers(f)') /\ Cardinality(Replacers(f)') \in Nat
  <2>1. Len(Top) \in Nat
    BY ScanAssumption
  <2>2. IsFiniteSet(Roots)
    BY <2>1, FS_Interval DEF Roots
  <2> QED
    BY <1>2, <2>2, FS_Subset, FS_CardinalityType
<1>4. Cardinality(Replacers(f)) <= Cardinality(Replacers(f)')
  BY <1>2, <1>3, FS_Subset
<1>5. CASE version'[f] = version[f]
  BY <1>1, <1>3, <1>4, <1>5
<1>6. CASE version'[f] # version[f]
  <2>1. PICK e \in Entries : Rename(e)
    BY <1>6, ReplacingSteps
  <2>2. /\ e[2] = f /\ e[1] \in Roots /\ e = <<e[1], f>> /\ version'[f] = version[f] + 1
        /\ entry[e] = "checked" /\ entry'[e] = "published"
    BY <1>6, <2>1, EntryTypes DEF Rename, Typed
  <2>3. e[1] \notin Replacers(f) /\ e[1] \in Replacers(f)'
    BY <2>2 DEF Replacers, Past
  <2>4. /\ IsFiniteSet(Replacers(f) \cup {e[1]})
        /\ Cardinality(Replacers(f) \cup {e[1]}) = Cardinality(Replacers(f)) + 1
    BY <1>1, <2>3, FS_AddElement
  <2>5. Cardinality(Replacers(f) \cup {e[1]}) <= Cardinality(Replacers(f)')
    BY <1>2, <1>3, <2>3, FS_Subset
  <2> QED
    BY <1>1, <1>3, <2>2, <2>4, <2>5
<1> QED
  BY <1>5, <1>6

\* A file that is submitted for compression was not replaced before.
LEMMA SubmittedPlain ==
  ASSUME Typed, Remade, NEW e \in Entries, Visit(e), entry'[e] = "submitted", compressing
  PROVE  version[e[2]] = 0
<1>1. PICK found \in AskVolume(e[2]) : LeaveAlone(e, found) \/ Submit(e, found)
  BY DEF Visit
<1>2. Submit(e, found)
  BY <1>1 DEF LeaveAlone, Typed
<1>3. ~(disk[e[2]].compressed = compressing)
  BY <1>2 DEF Submit, Skipped, SkipReason, FileInfo, get_compression_state
<1>4. e[2] \in Files /\ version[e[2]] \in Nat
  BY EntryTypes DEF Typed
<1>5. ~(version[e[2]] > 0)
  BY <1>3, <1>4, Zenon DEF Remade
<1> QED
  BY ONLY <1>4, <1>5

\* Files are replaced by what the operation makes of them, and versions count up.
LEMMA RemadeStep ==
  ASSUME Typed, Remade, [Next]_vars
  PROVE  /\ Remade'
         /\ \A f \in Files : version[f] \in Nat /\ version'[f] \in Nat /\ version[f] <= version'[f]
<1>1. UNCHANGED compressing
  BY ReplacingSteps
<1>2. ASSUME NEW e \in Entries, Rename(e)
      PROVE  /\ Remade'
             /\ \A f \in Files : version[f] \in Nat /\ version'[f] \in Nat
                                 /\ version[f] <= version'[f]
  <2>1. /\ e[2] \in Files
        /\ version' = [version EXCEPT ![e[2]] = @ + 1]
        /\ disk' = [disk EXCEPT ![e[2]].compressed = compressing]
    BY <1>2, EntryTypes DEF Rename
  <2>2. /\ disk'[e[2]].compressed = compressing
        /\ \A f \in Files : f # e[2] => disk'[f] = disk[f] /\ version'[f] = version[f]
        /\ version'[e[2]] = version[e[2]] + 1
    BY <2>1 DEF Typed, Metadata
  <2>3. Remade'
    BY <1>1, <2>2 DEF Remade
  <2>4. \A f \in Files : version[f] \in Nat
    BY DEF Typed
  <2> QED
    BY <2>2, <2>3, <2>4
<1>3. CASE UNCHANGED <<version, disk>>
  <2>1. \A f \in Files : version[f] \in Nat
    BY DEF Typed
  <2> QED BY <1>1, <1>3, <2>1 DEF Remade
<1> QED
  BY <1>2, <1>3, ReplacingSteps

LEMMA DescribedStep ==
  ASSUME Typed, ListedOnce, Remade, Described, [Next]_vars
  PROVE  Described'
<1> SUFFICES ASSUME NEW x \in Entries PROVE DescribedAt(x)'
  BY DEF Described
<1>1. DescribedAt(x) /\ UNCHANGED compressing
  BY ReplacingSteps DEF Described
<1>2. /\ x[2] \in Files /\ version[x[2]] \in Nat /\ version'[x[2]] \in Nat
      /\ version[x[2]] <= version'[x[2]]
      /\ orig[x].version \in Nat /\ source[x].version \in Nat
  BY EntryTypes, RemadeStep DEF Typed
<1>3. CASE Visit(x)
  <2>1. /\ orig'[x].version = version[x[2]] /\ UNCHANGED source
        /\ entry'[x] \in {"gone", "submitted"}
    BY <1>3 DEF Visit, LeaveAlone, Submit, Typed
  <2>2. compressing /\ entry'[x] = "submitted" => version[x[2]] = 0
    BY <1>3, SubmittedPlain
  <2> QED BY <1>1, <1>2, <2>1, <2>2 DEF DescribedAt
<1>4. CASE Open(x)
  <2>1. /\ source'[x].version = version[x[2]] /\ source'[x].compressed = disk[x[2]].compressed
        /\ UNCHANGED orig /\ entry[x] = "submitted" /\ entry'[x] = "opened"
    BY <1>4 DEF Open, Typed
  <2>2. version[x[2]] > 0 => disk[x[2]].compressed = compressing
    BY <1>2 DEF Remade
  <2> QED BY <1>1, <1>2, <2>1, <2>2 DEF DescribedAt
<1>5. CASE Check(x)
  <2>1. /\ UNCHANGED <<orig, source>> /\ entry[x] = "opened" /\ entry'[x] = "checked"
        /\ version[x[2]] = orig[x].version
    BY <1>5 DEF Check, Typed
  <2>2. orig[x].version <= source[x].version /\ source[x].version <= version[x[2]]
    BY <1>1, <2>1 DEF DescribedAt
  <2>3. source[x].version = orig[x].version
    BY <1>2, <2>1, <2>2
  <2> QED BY <1>1, <1>2, <2>1, <2>3 DEF DescribedAt
<1>6. CASE ~Visit(x) /\ ~Open(x) /\ ~Check(x)
  <2>1. orig'[x] = orig[x]
    <3>1. ASSUME NEW e \in Entries, Visit(e)
          PROVE  orig'[x] = orig[x]
      BY <1>6, <3>1 DEF Visit, Typed
    <3> QED BY <3>1, ReplacingSteps
  <2>2. source'[x] = source[x]
    <3>1. ASSUME NEW e \in Entries, Open(e)
          PROVE  source'[x] = source[x]
      BY <1>6, <3>1 DEF Open, Typed
    <3> QED BY <3>1, ReplacingSteps
  <2>3. \A s \in {"submitted", "opened", "checked"} : entry'[x] = s => entry[x] = s
    BY <1>6, EntriesGoOn
  <2> QED BY <1>1, <1>2, <2>1, <2>2, <2>3 DEF DescribedAt
<1> QED
  BY <1>3, <1>4, <1>5, <1>6

\* However the roots lead to a file, and however its Contexts overtake each other, if they
\* do not even both replace it: what a Context renames was not made of the output of
\* another, unless both decompress (threads/mod.rs, scan; source_guard.rs).
THEOREM OutputIsNeverTheSource == Spec => NeverFromOutput
<1>1. Init => Remade /\ Described
  <2> SUFFICES ASSUME Init PROVE Remade /\ Described
    OBVIOUS
  <2>1. /\ \A f \in Files : version[f] = 0
        /\ \A e \in Entries : /\ e[2] \in Files /\ orig[e].version = 0 /\ source[e].version = 0
                              /\ entry[e] = "unlisted"
    BY EntryTypes DEF Init
  <2> QED
    BY <2>1 DEF Remade, Described, DescribedAt
<1>2. Spec => [](Remade /\ Described)
  <2>1. IInv /\ Remade /\ Described /\ [Next]_vars => (Remade /\ Described)'
    BY DescribedStep, RemadeStep DEF IInv
  <2> QED
    BY <1>1, <2>1, InvariantHolds, PTL DEF Spec
<1>3. IInv /\ Described
        => [\A e \in Entries : entry[e] = "checked" /\ entry'[e] = "published"
              => source[e].version = 0 \/ (~compressing /\ ~source[e].compressed)]_vars
  <2> SUFFICES ASSUME IInv, Described, NEW e \in Entries, entry[e] = "checked",
                      source[e].version # 0
               PROVE  ~compressing /\ ~source[e].compressed
    OBVIOUS
  <2>1. /\ source[e].version = orig[e].version
        /\ source[e].version > 0 => source[e].compressed = compressing
        /\ compressing => orig[e].version = 0
    BY DEF Described, DescribedAt
  <2>2. source[e].version \in Nat
    BY DEF IInv, Typed
  <2> QED
    BY <2>1, <2>2
<1> QED
  BY <1>2, <1>3, InvariantHolds, PTL DEF Spec, NeverFromOutput

-----------------------------------------------------------------------------
(* What TypeOK says besides. *)

\* A volume that supports compression, and no other, has a temporary directory.
Hosted == \A v \in Devices : infos[v] = "yes" <=> host[v] # Nowhere

Within ==
  /\ supporting \subseteq Devices /\ unlucky \subseteq Dirs /\ missed \subseteq Entries
  /\ root \in 1 .. Len(Top) + 1 /\ walkers \subseteq Roots
  /\ faults \in 0 .. MaxFaults

\* What is remembered of a volume and where its temporary directory is go together.
LEMMA RememberHosted ==
  ASSUME Typed, HostsKnown, Hosted, NEW v \in Devices, NEW d \in Dirs,
         NEW found \in Answers(v, d), Remember(v, found)
  PROVE  Hosted'
<1>1. /\ found.answer \in {"unknown", "yes", "no"}
      /\ found.made = {} \/ found.made = {d}
      /\ found.made # {} => found.answer = "yes" /\ infos[v] = "unknown"
      /\ found.answer \in {"yes", "no"} =>
           \/ infos[v] = found.answer /\ found.made = {}
           \/ infos[v] = "unknown" /\ (found.answer = "yes" <=> found.made = {d})
  BY AnswerTypes
<1>2. found.made # {} => (CHOOSE x \in found.made : TRUE) = d
  BY <1>1
<1>3. d # Nowhere
  BY ScanAssumption
<1>4. /\ infos'[v] = IF found.answer = "unknown" THEN infos[v] ELSE found.answer
      /\ host'[v] = IF found.made = {} THEN host[v] ELSE d
      /\ \A u \in Devices : u # v => infos'[u] = infos[u] /\ host'[u] = host[u]
  BY <1>2 DEF Remember, Typed
<1>5. infos'[v] = "yes" <=> host'[v] # Nowhere
  BY <1>1, <1>3, <1>4 DEF Hosted, HostsKnown
<1> QED
  BY <1>4, <1>5 DEF Hosted

LEMMA HostedStep ==
  ASSUME Typed, HostsKnown, Hosted, [Next]_vars
  PROVE  Hosted'
<1> USE DEF volumes
<1>1. CASE AddRoot
  <2>1. PICK found \in Answers(DeviceOf[Top[root]], Top[root]) :
          Remember(DeviceOf[Top[root]], found)
    BY <1>1 DEF AddRoot, Answers
  <2>2. Top[root] \in Dirs /\ DeviceOf[Top[root]] \in Devices
    BY <1>1, ScanAssumption DEF AddRoot, Roots
  <2> QED BY <2>1, <2>2, RememberHosted
<1>2. ASSUME NEW e \in Entries, Visit(e) \/ FileFails(e) \/ Check(e)
      PROVE  Hosted'
  <2>1. \E found \in Answers(DeviceOf[In[e[2]]], In[e[2]]) : Remember(DeviceOf[In[e[2]]], found)
    BY <1>2, EntryTypes, AnswersForFiles DEF Visit, FileFails, Check
  <2> QED BY <2>1, EntryTypes, RememberHosted
<1>3. CASE UNCHANGED volumes
  BY <1>3 DEF Hosted
<1> QED
  BY <1>1, <1>2, <1>3
  DEF Next, Terminated, vars, StartWalking, RootWalked, List, DropWalker, PassBy, Open, Rename,
      Report, Count, DropFirst, DropSecond, SendStats, RemoveTempDirs, ScanReturns

\* Faults are counted up to their bound.
LEMMA FaultsWithin ==
  ASSUME faults \in 0 .. MaxFaults, NEW n \in Nat, Faults(n)
  PROVE  faults' \in 0 .. MaxFaults
BY ScanAssumption DEF Faults

LEMMA DropResetterWithin ==
  ASSUME faults \in 0 .. MaxFaults, unlucky \subseteq Dirs,
         NEW e \in Entries, NEW made, NEW failed \in Nat, DropResetter(e, made, failed)
  PROVE  faults' \in 0 .. MaxFaults /\ unlucky' \subseteq Dirs
<1>1. Faults(failed) \/ Faults(failed + 1)
  BY DEF DropResetter
<1>2. unlucky' = unlucky \/ unlucky' = unlucky \cup {In[e[2]]}
  BY DEF DropResetter
<1> QED BY <1>1, <1>2, FaultsWithin, EntryTypes

LEMMA WithinStep ==
  ASSUME Typed, Within, [Next]_vars
  PROVE  Within'
<1> USE DEF world, volumes, times, stats, history
<1>1. Len(Top) \in Nat /\ Roots = 1 .. Len(Top) /\ \A b : One(b) \in Nat
  BY ScanAssumption DEF Roots, One
<1>2. CASE AddRoot
  <2>1. PICK found \in Lookup(DeviceOf[Top[root]], Top[root]) : Faults(One(found.failed))
    BY <1>2 DEF AddRoot
  <2>2. faults' \in 0 .. MaxFaults
    BY <1>1, <2>1, FaultsWithin DEF Within
  <2>3. root' \in 1 .. Len(Top) + 1
    BY <1>1, <1>2 DEF AddRoot
  <2> QED BY <1>2, <2>2, <2>3 DEF AddRoot, Within
<1>3. CASE StartWalking
  <2>1. root' \in 1 .. Len(Top) + 1 /\ walkers' \subseteq Roots
    BY <1>1, <1>3 DEF StartWalking
  <2> QED BY <1>3, <2>1 DEF StartWalking, Within
<1>4. CASE RootWalked
  <2>1. root' \in 1 .. Len(Top) + 1 /\ walkers' \subseteq Roots
    <3>1. root \in 1 .. Len(Top) + 1 /\ walkers \subseteq Roots
      BY DEF Within
    <3>2. CASE root < Len(Top)
      <4>1. root + 1 \in 1 .. Len(Top) + 1 /\ root + 1 \in Roots
        BY <1>1, <3>1, <3>2
      <4> QED BY <1>4, <3>1, <3>2, <4>1 DEF RootWalked
    <3> QED BY <1>4, <3>1, <3>2 DEF RootWalked
  <2> QED BY <1>4, <2>1 DEF RootWalked, Within
<1>5. ASSUME NEW d \in Dirs, List(d)
      PROVE  Within'
  <2>1. PICK time \in get_times(d) : Faults(One(time = "none"))
    BY <1>5 DEF List
  <2>2. faults' \in 0 .. MaxFaults
    BY <1>1, <2>1, FaultsWithin DEF Within
  <2>3. unlucky' \subseteq Dirs
    BY <1>5 DEF List, Within
  <2> QED BY <1>5, <2>2, <2>3 DEF List, Within
<1>6. ASSUME NEW e \in Entries, PassBy(e) \/ DropFirst(e)
      PROVE  Within'
  <2>1. \E failed \in Nat : DropResetter(e, {}, failed)
    BY <1>1, <1>6 DEF PassBy, DropFirst
  <2>2. faults' \in 0 .. MaxFaults /\ unlucky' \subseteq Dirs
    BY <2>1, DropResetterWithin DEF Within
  <2> QED BY <1>6, <2>2 DEF PassBy, DropFirst, Within
<1>7. ASSUME NEW e \in Entries, Visit(e)
      PROVE  Within'
  <2>1. PICK found \in AskVolume(e[2]) : LeaveAlone(e, found) \/ Submit(e, found)
    BY <1>7 DEF Visit
  <2>2. One(found.failed) \in Nat /\ One(~Skipped(e[2], found)) \in Nat
    BY DEF One
  <2>3. faults' \in 0 .. MaxFaults /\ unlucky' \subseteq Dirs
    <3>1. CASE LeaveAlone(e, found)
      <4>1. One(found.failed) + One(~Skipped(e[2], found)) \in Nat
        BY <2>2
      <4> QED BY <3>1, <4>1, DropResetterWithin DEF LeaveAlone, Within
    <3>2. CASE Submit(e, found)
      BY <2>2, <3>2, FaultsWithin DEF Submit, Within
    <3> QED BY <2>1, <3>1, <3>2
  <2> QED BY <1>7, <2>3 DEF Visit, Within
<1>8. ASSUME NEW e \in Entries, FileFails(e)
      PROVE  Within'
  <2>1. \E n \in Nat : Faults(n)
    BY <1>1, <1>8 DEF FileFails
  <2>2. faults' \in 0 .. MaxFaults
    BY <2>1, FaultsWithin DEF Within
  <2> QED BY <1>8, <2>2 DEF FileFails, Within
<1>9. ASSUME NEW e \in Entries, Report(e)
      PROVE  Within'
  <2>1. faults' \in 0 .. MaxFaults /\ missed' \subseteq Entries
    BY <1>9, FaultsWithin DEF Report, Within
  <2> QED BY <1>9, <2>1 DEF Report, Within
<1>10. ASSUME NEW r \in Roots, DropWalker(r)
       PROVE  Within'
  BY <1>10 DEF DropWalker, Within
<1>11. ASSUME \/ \E e \in Entries : Open(e) \/ Check(e) \/ Rename(e) \/ Count(e) \/ DropSecond(e)
              \/ SendStats \/ RemoveTempDirs \/ ScanReturns \/ UNCHANGED vars
       PROVE  Within'
  BY <1>11 DEF Open, Check, Rename, Count, DropSecond, SendStats, RemoveTempDirs, ScanReturns,
     vars, Within
<1> QED
  BY <1>2, <1>3, <1>4, <1>5, <1>6, <1>7, <1>8, <1>9, <1>10, <1>11 DEF Next, Terminated

\* Every variable stays within the type that Scan states for it (threads/mod.rs,
\* volumes.rs): among others, a volume has a temporary directory if it supports
\* compression, and a file is replaced no more often than roots lead to it.
THEOREM TypeCorrect == Spec => []TypeOK
<1>1. Init => Hosted /\ Within /\ ReplacedByEntries /\ Remade /\ Described
  <2> SUFFICES ASSUME Init PROVE Hosted /\ Within /\ ReplacedByEntries /\ Remade /\ Described
    OBVIOUS
  <2>1. /\ \A f \in Files : version[f] = 0
        /\ \A e \in Entries : /\ e[2] \in Files /\ orig[e].version = 0 /\ source[e].version = 0
                              /\ entry[e] = "unlisted"
    BY EntryTypes DEF Init
  <2>2. ReplacedByEntries
    BY <2>1, ReplacersFinite DEF ReplacedByEntries
  <2>3. Hosted
    BY ScanAssumption DEF Init, Hosted, Nowhere, Elsewhere
  <2>4. Within
    BY ScanAssumption DEF Init, Within, Roots
  <2> QED
    BY <2>1, <2>2, <2>3, <2>4 DEF Remade, Described, DescribedAt
<1>2. /\ IInv /\ Hosted /\ Within /\ ReplacedByEntries /\ Remade /\ Described /\ [Next]_vars
        => (Hosted /\ Within /\ ReplacedByEntries /\ Remade /\ Described)'
  BY HostedStep, WithinStep, ReplacedByEntriesStep, RemadeStep, DescribedStep DEF IInv
<1>3. IInv /\ Hosted /\ Within /\ ReplacedByEntries /\ Described => TypeOK
  <2> SUFFICES ASSUME IInv, Hosted, Within, ReplacedByEntries, Described PROVE TypeOK
    OBVIOUS
  <2>1. \A f \in Files : version[f] \in 0 .. Len(Top)
    BY ReplacersFinite, ScanAssumption DEF IInv, Typed, ReplacedByEntries
  <2>2. ASSUME NEW e \in Entries
        PROVE  /\ orig[e].info \in Info /\ orig[e].version \in 0 .. Len(Top)
               /\ source[e].version \in 0 .. Len(Top)
    <3>1. /\ version[e[2]] \in 0 .. Len(Top) /\ Len(Top) \in Nat
          /\ orig[e].version <= version[e[2]] /\ source[e].version <= version[e[2]]
      BY <2>1, EntryTypes, ScanAssumption DEF Described, DescribedAt
    <3>2. orig[e].info \in Info /\ orig[e].version \in Nat /\ source[e].version \in Nat
      BY DEF IInv, Typed
    <3> QED BY <3>1, <3>2
  <2>3. version \in [Files -> 0 .. Len(Top)]
    BY <2>1 DEF IInv, Typed
  <2>4. orig \in [Entries -> [info : Info, version : 0 .. Len(Top)]]
    BY <2>2 DEF IInv, Typed
  <2>5. source \in [Entries -> [version : 0 .. Len(Top), compressed : BOOLEAN]]
    BY <2>2 DEF IInv, Typed
  <2> QED
    BY <2>3, <2>4, <2>5 DEF IInv, Typed, Hosted, Within, TypeOK, Stage
<1> QED
  BY <1>1, <1>2, <1>3, InvariantHolds, PTL DEF Spec
=============================================================================
