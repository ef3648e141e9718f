-------------------------------- MODULE Scan --------------------------------
(***************************************************************************)
(* One operation over several roots, as threads/mod.rs scan runs it: the   *)
(* volumes and their temporary directories (volumes.rs), the walker with   *)
(* its readers of directories (scan.rs), the decision which files to       *)
(* submit (info.rs), the Context of each file, and who gives what back     *)
(* when: statistics, times of directories (times.rs), temporary files.     *)
(*                                                                         *)
(* Of the work on a file, this module has the opening of the source, the   *)
(* check before the rename and the rename; the modules Pipeline, Batch and *)
(* Publish have the rest.                                                  *)
(***************************************************************************)
EXTENDS Integers, FiniteSets, Sequences

CONSTANTS
  Files, Dirs, Devices,
  In,                 \* the directory of each file
  DeviceOf,           \* the device of each directory
  SystemDevice,       \* the device of the system's directory for temporary files
  Top,                \* the roots, in order: the directory of each, or of the file it names
  Given, Under,       \* the file, if any, that each root names, and the directories below it
  Kinds,              \* the kinds that each file may be of
  MaxFaults           \* bound: how many calls of the system fail, or files on their way

Roots == 1 .. Len(Top)
Entries == {e \in Roots \X Files : In[e[2]] \in Under[e[1]] \/ e[2] \in Given[e[1]]}

\* The directories that the walker of each root looks into: the ones that it reads, or the
\* one that holds the file which the root names.
Listings == {l \in Roots \X Dirs : \/ l[2] \in Under[l[1]]
                                   \/ Given[l[1]] # {} /\ l[2] = Top[l[1]]}

\* What symlink_metadata and the extended attributes say of a file.
Metadata == [file : BOOLEAN, links : {1, 2}, protected : BOOLEAN,
             compressed : BOOLEAN, len : {"zero", "some", "huge"}, xattr : BOOLEAN]

Nowhere == "nowhere"
Elsewhere == "system"            \* the system's directory, which nobody lists here

ASSUME ScanAssumption ==
  /\ Nowhere \notin Dirs /\ Elsewhere \notin Dirs
  /\ In \in [Files -> Dirs] /\ DeviceOf \in [Dirs -> Devices]
  /\ SystemDevice \in Devices
  /\ Top \in Seq(Dirs) /\ Given \in [Roots -> SUBSET Files] /\ Under \in [Roots -> SUBSET Dirs]
  /\ \A r \in Roots : \/ Top[r] \in Under[r] /\ Given[r] = {}
                      \/ /\ Under[r] = {} /\ \A f \in Given[r] : In[f] = Top[r]
                         /\ \A f, g \in Given[r] : f = g
  /\ Kinds \in [Files -> SUBSET Metadata] /\ MaxFaults \in Nat

VARIABLES
  compressing,        \* is the operation Mode::Compress?
  supporting,         \* the devices that support compression
  disk, version,      \* each file, and how often it was replaced
  touched,            \* the directories whose times are not what they were
  phase, root,        \* of scan: how far it is, and the root in hand
  walkers,            \* the walkers that still hold the operation
  infos, host,        \* Volumes: of each device what is known, and where its temporary
                      \*   directory is, if it has one
  saved, active,      \* the Resetter of each listing: its times, and was it activated?
  entry,              \* how far each entry of a directory has come
  orig,               \* its Context: compression state, and the version it is of
  source,             \* the version that was opened to be read
  started, final,     \* the calls of add_start_file and add_end_file for it
  operation,          \* OperationContext: alive, its statistics sent, or gone
  faults,             \* how much has failed
  (* History variables *)
  missed,             \* entries that report_new_stats did not see on disk again
  unlucky             \* directories whose times could not be saved or reset

world == <<supporting, disk, version>>
volumes == <<infos, host>>
times == <<saved, active>>
stats == <<started, final>>
vars == <<compressing, supporting, disk, version, touched, phase, root, walkers, infos, host,
          saved, active, entry, orig, source, started, final, operation, faults, missed, unlucky>>
history == <<missed, unlucky>>

Faults(n) == faults + n <= MaxFaults /\ faults' = faults + n
One(happens) == IF happens THEN 1 ELSE 0

Hosting(d) == \E v \in Devices : host[v] = d

\* The stages of an entry whose Context is in the threads.
Working == {"submitted", "opened", "checked", "published"}

-----------------------------------------------------------------------------
(* Volumes: the first one to ask for a device finds out what it supports, and makes a *)
(* temporary directory: in the root, or in the directory of the file.  An error is not *)
(* remembered. *)

vol_with_file_supports_compression(device) == device \in supporting

Found(answer, made, failed) == [answer |-> answer, made |-> made, failed |-> failed]
NotAsked == Found("unknown", {}, FALSE)
Error == Found("unknown", {}, TRUE)

Lookup(device, parent) ==
  IF infos[device] # "unknown" THEN {Found(infos[device], {}, FALSE)}
  ELSE {Error,
        IF vol_with_file_supports_compression(device) THEN Found("yes", {parent}, FALSE)
        ELSE Found("no", {}, FALSE)}

\* Seeded fault: makes the directory, and forgets what it was for.
RememberLittle(device, found) ==
  /\ infos' = [infos EXCEPT ![device] = IF found.answer = "no" THEN "no" ELSE @]
  /\ host' = [host EXCEPT ![device] = IF found.made = {} THEN @
                                      ELSE CHOOSE d \in found.made : TRUE]

Remember(device, found) ==
  /\ infos' = [infos EXCEPT ![device] = IF found.answer = "unknown" THEN @ ELSE found.answer]
  /\ host' = [host EXCEPT ![device] = IF found.made = {} THEN @
                                      ELSE CHOOSE d \in found.made : TRUE]

-----------------------------------------------------------------------------
(* Which files are submitted, and how they are counted. *)

add_start_file(e, info) == started' = [started EXCEPT ![e] = Append(@, info)]
add_end_file(e, info) == final' = [final EXCEPT ![e] = Append(@, info)]

\* The compression state, if a lookup of the volume, should one be needed, finds this.
get_compression_state(m, found) ==
  IF m.compressed THEN "Compressed"
  ELSE IF m.len = "zero" THEN "Empty"
  ELSE IF m.len = "huge" THEN "TooLarge"
  ELSE IF found.failed THEN "IoError"
  ELSE IF found.answer = "no" THEN "FsNotSupported"
  ELSE IF m.xattr THEN "HasRequiredXattr"
  ELSE "Compressible"

NeedsVolume(m) == ~m.compressed /\ m.len = "some"

SkipReason(state) ==
  IF compressing THEN IF state = "Compressible" THEN "none"
                      ELSE IF state = "Compressed" THEN "AlreadyCompressed" ELSE state
  ELSE IF state = "Compressible" THEN "NotCompressed" ELSE "none"

-----------------------------------------------------------------------------
(* The walker.  Its threads list the directories of a root ahead of the entries. *)

AddRoot ==
  /\ phase = "roots" /\ root \in Roots
  /\ \E found \in Lookup(DeviceOf[Top[root]], Top[root]) :
       /\ Remember(DeviceOf[Top[root]], found)
       /\ touched' = touched \cup found.made
       /\ Faults(One(found.failed))
  /\ root' = root + 1
  /\ UNCHANGED <<compressing, world, phase, walkers, times, entry, orig, source, stats,
                 operation, history>>

\* There is nobody to walk if no root could be read.
StartWalking ==
  /\ phase = "roots" /\ root \notin Roots
  /\ phase' = "walking" /\ root' = 1 /\ walkers' = Roots \cap {1}
  /\ UNCHANGED <<compressing, world, touched, volumes, times, entry, orig, source, stats,
                 operation, faults, history>>

Unlisted(l) == saved[l] = "unlisted"
Listing(e) == <<e[1], In[e[2]]>>

\* A directory's times as they are when they are saved, or an error.
get_times(d) == {"none", IF d \in touched THEN "touched" ELSE "original"}

\* What is left touched of now, when d gets saved times back.
reset_times(now, d, times_of) == IF times_of = "original" THEN now \ {d} ELSE now \cup {d}

\* process_read_dir saves the times of the directory before any of its files comes up, if
\* it has any.  jwalk calls it for every directory of the root, and first for the root
\* itself, as an entry of the directory that holds it: it finds the file that a root names.
List(d) ==
  LET l == <<root, d>>
      its == {e \in Entries : Listing(e) = l}
  IN
  /\ phase = "walking" /\ l \in Listings /\ Unlisted(l)
  /\ \E time \in get_times(d) :
       /\ saved' = [saved EXCEPT ![l] = time]
       /\ unlucky' = IF time = "none" THEN unlucky \cup {d} ELSE unlucky
       /\ Faults(One(time = "none"))
  /\ entry' = [e \in Entries |-> IF e \in its THEN "listed" ELSE entry[e]]
  /\ UNCHANGED <<compressing, world, touched, phase, root, walkers, volumes, active, orig,
                 source, stats, operation, missed>>

HasResetter(e) == disk[e[2]].file /\ entry[e] \in {"listed", "dropping", "counted"} \cup Working

activate(e) == active' = active \cup {l \in Listings : l = Listing(e) /\ saved[l] # "none"}

\* The last entry of a listing to go resets the times, if they were saved and something
\* was renamed.
LastOfListing(e) == \A x \in Entries \ {e} : Listing(x) = Listing(e) => ~HasResetter(x)

DropResetter(e, made, failed) ==
  LET d == In[e[2]]  now == touched \cup made IN
    IF HasResetter(e) /\ LastOfListing(e) /\ Listing(e) \in active
      THEN \/ /\ touched' = reset_times(now, d, saved[Listing(e)])
              /\ Faults(failed) /\ UNCHANGED unlucky
           \/ touched' = now /\ unlucky' = unlucky \cup {d} /\ Faults(failed + 1)
      ELSE touched' = now /\ Faults(failed) /\ UNCHANGED unlucky

\* Not a file, a link, one of several names, or gone: not counted.
PassBy(e) ==
  /\ phase = "walking" /\ e[1] = root /\ entry[e] = "listed"
  /\ entry' = [entry EXCEPT ![e] = "gone"]
  /\ DropResetter(e, {}, One(disk[e[2]].file /\ disk[e[2]].links = 1))
  /\ UNCHANGED <<compressing, world, phase, root, walkers, volumes, times, orig, source,
                 stats, operation, missed>>

\* get_file_info, with the answer about the volume if one was asked for.  Asking for the
\* attributes of the file may fail too.
AskVolume(f) ==
  LET answers == Lookup(DeviceOf[In[f]], In[f]) IN
    IF NeedsVolume(disk[f])
      THEN answers \cup {Found("yes", a.made, TRUE) : a \in {b \in answers : b.answer = "yes"}}
      ELSE {NotAsked}

FileInfo(f, found) == [compressed |-> disk[f].compressed,
                       state |-> get_compression_state(disk[f], found)]

Skipped(f, found) == disk[f].protected \/ SkipReason(FileInfo(f, found).state) # "none"

\* A file is skipped, or its times could not be saved.
LeaveAlone(e, found) ==
  /\ entry' = [entry EXCEPT ![e] = "gone"]
  /\ add_end_file(e, FileInfo(e[2], found))
  /\ DropResetter(e, found.made, One(found.failed) + One(~Skipped(e[2], found)))

Submit(e, found) ==
  /\ ~Skipped(e[2], found)
  /\ entry' = [entry EXCEPT ![e] = "submitted"]
  /\ touched' = touched \cup found.made
  /\ Faults(One(found.failed))
  /\ UNCHANGED <<final, unlucky>>

\* Counted, and then left alone or submitted.
Visit(e) ==
  LET f == e[2] IN
  /\ phase = "walking" /\ e[1] = root /\ entry[e] = "listed"
  /\ disk[f].file /\ disk[f].links = 1
  /\ \E found \in AskVolume(f) :
       /\ Remember(DeviceOf[In[f]], found)
       /\ add_start_file(e, FileInfo(f, found))
       /\ orig' = [orig EXCEPT ![e] = [info |-> FileInfo(f, found), version |-> version[f]]]
       /\ LeaveAlone(e, found) \/ Submit(e, found)
  /\ UNCHANGED <<compressing, world, phase, root, walkers, times, source, operation, missed>>

\* The next root is walked when the last one has no more entries; who drops the closure
\* of a walker, and when, is up to its threads.
RootWalked ==
  /\ phase = "walking"
  /\ \A l \in Listings : l[1] = root => ~Unlisted(l)
  /\ \A e \in Entries : e[1] = root => entry[e] \notin {"unlisted", "listed"}
  /\ IF root < Len(Top)
       THEN root' = root + 1 /\ walkers' = walkers \cup {root + 1} /\ UNCHANGED phase
       ELSE phase' = "waiting" /\ UNCHANGED <<root, walkers>>
  /\ UNCHANGED <<compressing, world, touched, volumes, times, entry, orig, source, stats,
                 operation, faults, history>>

DropWalker(r) ==
  /\ r \in walkers /\ (r < root \/ phase # "walking")
  /\ walkers' = walkers \ {r}
  /\ UNCHANGED <<compressing, world, touched, phase, root, volumes, times, entry, orig,
                 source, stats, operation, faults, history>>

-----------------------------------------------------------------------------
(* The Context of a file, on its way through the threads. *)

\* The reader opens what the path names by now.
Open(e) ==
  LET f == e[2] IN
  /\ entry[e] = "submitted"
  /\ source' = [source EXCEPT ![e] = [version |-> version[f], compressed |-> disk[f].compressed]]
  /\ entry' = [entry EXCEPT ![e] = "opened"]
  /\ UNCHANGED <<compressing, world, touched, phase, root, walkers, volumes, times, orig,
                 stats, operation, faults, history>>

\* Anything may fail on the way, and must if the volume does not support compression or
\* before_publish finds another file; the Context is dropped all the same.
FileFails(e) ==
  LET f == e[2]
      another == entry[e] # "checked" /\ version[f] # orig[e].version
  IN
  /\ entry[e] \in {"submitted", "opened", "checked"}
  /\ \E found \in {NotAsked} \cup IF entry[e] = "checked" THEN {}
                                  ELSE Lookup(DeviceOf[In[f]], In[f]) :
       /\ Remember(DeviceOf[In[f]], found)
       /\ touched' = touched \cup found.made
       /\ Faults(One(found.answer # "no" /\ ~another))
  /\ entry' = [entry EXCEPT ![e] = "dropping"]
  /\ UNCHANGED <<compressing, world, phase, root, walkers, times, orig, source, stats,
                 operation, history>>

\* Seeded fault: does not look whether the source is still the same.
CheckNothing(e) ==
  LET f == e[2] IN
  /\ entry[e] = "opened"
  /\ \E found \in Lookup(DeviceOf[In[f]], In[f]) :
       /\ found.answer = "yes"
       /\ Remember(DeviceOf[In[f]], found)
       /\ touched' = touched \cup found.made
  /\ entry' = [entry EXCEPT ![e] = "checked"]
  /\ UNCHANGED <<compressing, world, phase, root, walkers, times, orig, source, stats,
                 operation, faults, history>>

\* tempfile_for, and before_publish: goes on unless another version came between.
Check(e) ==
  LET f == e[2] IN
  /\ entry[e] = "opened" /\ version[f] = orig[e].version
  /\ \E found \in Lookup(DeviceOf[In[f]], In[f]) :
       /\ found.answer = "yes"
       /\ Remember(DeviceOf[In[f]], found)
       /\ touched' = touched \cup found.made
  /\ entry' = [entry EXCEPT ![e] = "checked"]
  /\ UNCHANGED <<compressing, world, phase, root, walkers, times, orig, source, stats,
                 operation, faults, history>>

\* The rename replaces whatever is there by now: nothing is locked since the check.
Rename(e) ==
  LET f == e[2] IN
  /\ entry[e] = "checked"
  /\ disk' = [disk EXCEPT ![f].compressed = compressing]
  /\ version' = [version EXCEPT ![f] = @ + 1]
  /\ touched' = touched \cup {In[f]}
  /\ activate(e)
  /\ entry' = [entry EXCEPT ![e] = "published"]
  /\ UNCHANGED <<compressing, supporting, phase, root, walkers, volumes, saved, orig, source,
                 stats, operation, faults, history>>

\* report_new_stats counts the file as it is now, if it is still there.
Report(e) ==
  LET m == disk[e[2]] IN
  /\ entry[e] = "published"
  /\ entry' = [entry EXCEPT ![e] = "dropping"]
  /\ \/ /\ add_end_file(e, [compressed |-> m.compressed, state |-> "reported"])
        /\ UNCHANGED <<faults, missed>>
     \/ missed' = missed \cup {e} /\ Faults(1) /\ UNCHANGED final
  /\ UNCHANGED <<compressing, world, touched, phase, root, walkers, volumes, times, orig,
                 source, started, operation, unlucky>>

\* Seeded fault: does not ask whether the file has been reported.
CountAlways(e) ==
  /\ entry[e] = "dropping"
  /\ entry' = [entry EXCEPT ![e] = "counted"]
  /\ add_end_file(e, orig[e].info)
  /\ UNCHANGED <<compressing, world, touched, phase, root, walkers, volumes, times, orig,
                 source, started, operation, faults, history>>

\* The last reference to a Context goes: a file not reported counts as it was found,
Count(e) ==
  /\ entry[e] = "dropping"
  /\ entry' = [entry EXCEPT ![e] = "counted"]
  /\ IF final[e] = <<>> THEN add_end_file(e, orig[e].info) ELSE UNCHANGED final
  /\ UNCHANGED <<compressing, world, touched, phase, root, walkers, volumes, times, orig,
                 source, started, operation, faults, history>>

\* the first field goes,
DropFirst(e) ==
  /\ entry[e] = "counted"
  /\ entry' = [entry EXCEPT ![e] = "leaving"]
  /\ DropResetter(e, {}, 0)
  /\ UNCHANGED <<compressing, world, phase, root, walkers, volumes, times, orig, source,
                 stats, operation, missed>>

\* and then the second, the operation.
DropSecond(e) ==
  /\ entry[e] = "leaving"
  /\ entry' = [entry EXCEPT ![e] = "gone"]
  /\ UNCHANGED <<compressing, world, touched, phase, root, walkers, volumes, times, orig,
                 source, stats, operation, faults, history>>

-----------------------------------------------------------------------------
(* The end of the operation. *)

\* Seeded fault: a Context gives up the operation before the times.
HasOperationFirst(e) == entry[e] \in {"dropping"} \cup Working

HasOperation(e) == entry[e] \in {"dropping", "counted", "leaving"} \cup Working

\* Seeded fault: scan keeps its reference while it waits.
ScanKeepsOperation == phase \in {"roots", "walking", "waiting"}

ScanHasOperation == phase \in {"roots", "walking"}

\* Whoever drops the last reference sends the statistics, and then drops the volumes.
SendStats ==
  /\ operation = "alive"
  /\ ~ScanHasOperation /\ walkers = {} /\ \A e \in Entries : ~HasOperation(e)
  /\ operation' = "sent"
  /\ UNCHANGED <<compressing, world, touched, phase, root, walkers, volumes, times, entry,
                 orig, source, stats, faults, history>>

RemoveTempDirs ==
  /\ operation = "sent"
  /\ operation' = "gone"
  /\ touched' = touched \cup {d \in Dirs : Hosting(d)}
  /\ UNCHANGED <<compressing, world, phase, root, walkers, volumes, times, entry, orig,
                 source, stats, faults, history>>

ScanReturns ==
  /\ phase = "waiting" /\ operation # "alive"
  /\ phase' = "returned"
  /\ UNCHANGED <<compressing, world, touched, root, walkers, volumes, times, entry, orig,
                 source, stats, operation, faults, history>>

-----------------------------------------------------------------------------

\* Volumes::new makes a directory in the system's first, which may fail, and takes it for one
\* without compression if it cannot find out what it supports.
Init ==
  /\ compressing \in BOOLEAN /\ supporting \in SUBSET Devices
  /\ disk \in {files \in [Files -> UNION {Kinds[f] : f \in Files}] :
                \A f \in Files : files[f] \in Kinds[f]}
  /\ version = [f \in Files |-> 0] /\ touched = {}
  /\ phase = "roots" /\ root = 1 /\ walkers = {}
  /\ \E known \in {"unknown", "no"} \cup IF SystemDevice \in supporting THEN {"yes"} ELSE {} :
       /\ infos = [v \in Devices |-> IF v = SystemDevice THEN known ELSE "unknown"]
       /\ host = [v \in Devices |-> IF v = SystemDevice /\ known = "yes" THEN Elsewhere
                                    ELSE Nowhere]
  /\ saved = [l \in Listings |-> "unlisted"] /\ active = {}
  /\ entry = [e \in Entries |-> "unlisted"]
  /\ orig = [e \in Entries |-> [info |-> [compressed |-> FALSE, state |-> "none"],
                                version |-> 0]]
  /\ source = [e \in Entries |-> [version |-> 0, compressed |-> FALSE]]
  /\ started = [e \in Entries |-> <<>>] /\ final = [e \in Entries |-> <<>>]
  /\ operation = "alive" /\ faults = 0 /\ missed = {} /\ unlucky = {}

Finished == phase = "returned" /\ operation = "gone"
Terminated == Finished /\ UNCHANGED vars

Next ==
  \/ AddRoot \/ StartWalking \/ RootWalked
  \/ \E d \in Dirs : List(d)
  \/ \E r \in Roots : DropWalker(r)
  \/ \E e \in Entries :
       \/ PassBy(e) \/ Visit(e) \/ Open(e) \/ Check(e) \/ Rename(e) \/ FileFails(e)
       \/ Report(e) \/ Count(e) \/ DropFirst(e) \/ DropSecond(e)
  \/ SendStats \/ RemoveTempDirs \/ ScanReturns
  \/ Terminated

Spec == Init /\ [][Next]_vars

\* Every thread goes on with what it has begun.
FairSpec == Spec /\ WF_vars(Next)

-----------------------------------------------------------------------------
(* Properties. *)

Info == [compressed : BOOLEAN,
         state : {"none", "Compressed", "Empty", "TooLarge", "IoError", "FsNotSupported",
                  "HasRequiredXattr", "Compressible", "reported"}]

TypeOK ==
  /\ compressing \in BOOLEAN /\ supporting \subseteq Devices
  /\ disk \in [Files -> Metadata] /\ version \in [Files -> 0 .. Len(Top)]
  /\ touched \subseteq Dirs /\ unlucky \subseteq Dirs
  /\ phase \in {"roots", "walking", "waiting", "returned"}
  /\ root \in 1 .. Len(Top) + 1 /\ walkers \subseteq Roots
  /\ infos \in [Devices -> {"unknown", "yes", "no"}]
  /\ host \in [Devices -> Dirs \cup {Nowhere, Elsewhere}]
  /\ \A v \in Devices : infos[v] = "yes" <=> host[v] # Nowhere
  /\ saved \in [Listings -> {"unlisted", "none", "original", "touched"}]
  /\ active \subseteq Listings
  /\ entry \in [Entries -> {"unlisted", "listed", "dropping", "counted", "leaving", "gone"}
                           \cup Working]
  /\ orig \in [Entries -> [info : Info, version : 0 .. Len(Top)]]
  /\ source \in [Entries -> [version : 0 .. Len(Top), compressed : BOOLEAN]]
  /\ started \in [Entries -> Seq(Info)] /\ final \in [Entries -> Seq(Info)]
  /\ operation \in {"alive", "sent", "gone"}
  /\ faults \in 0 .. MaxFaults /\ missed \subseteq Entries

ReachedOnce(e) == \A x \in Entries : x[2] = e[2] => x = e

\* The statistics that scan returns have every file that was counted at the start once at
\* the end too, whoever counted it, and with what it was turned into - if nobody took it
\* away before it was looked at again.
StatsComplete ==
  operation # "alive" =>
    \A e \in Entries :
      /\ Len(started[e]) = Len(final[e]) /\ Len(final[e]) <= 1
      /\ e \notin missed /\ ReachedOnce(e) =>
           \A i \in DOMAIN final[e] : final[e][i].compressed = disk[e[2]].compressed

\* A root found the directory's times changed by what an earlier one had replaced there.
SavedLate(d) ==
  \E k, l \in Listings : k[2] = d /\ l[2] = d /\ k[1] < l[1] /\ saved[l] = "touched"

\* When scan returns, every directory has the times it had, though files in it were
\* replaced, also the one of a file that was named as a root: the reset comes after the
\* last rename and before the end of the operation.  Excepted are directories whose times
\* could not be saved or set; those that hold a temporary directory, since making and
\* removing it changes their times; and those whose times a later root saved when files
\* of an earlier one had been replaced there, since it puts those times back.
TimesKept ==
  phase = "returned" =>
    \A d \in touched : d \in unlucky \/ Hosting(d) \/ SavedLate(d)

\* Two roots may lead to a file, and so two Contexts, which may even replace it both, if
\* both check it before either renames.  But neither replaces it by what it made of the
\* other's output: what it opened was the file as the operation found it.  Or else, when
\* decompressing, it was plain, and is plain again.
NeverFromOutput ==
  [][\A e \in Entries : entry[e] = "checked" /\ entry'[e] = "published"
       => source[e].version = 0 \/ (~compressing /\ ~source[e].compressed)]_vars

\* Every scan returns, and its temporary directories are removed - in some thread, perhaps
\* after it has returned.
EverythingCleanedUp == <>Finished
=============================================================================
