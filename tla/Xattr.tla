------------------------------- MODULE Xattr -------------------------------
(***************************************************************************)
(* The report on one file, info.rs get, from its extended attributes:      *)
(* xattr.rs asks the system for a size and then for that much, each time   *)
(* of a file that other programs may change between any two calls.         *)
(***************************************************************************)
EXTENDS Integers, FiniteSets, Sequences, SequencesExt, Functions

CONSTANTS
  Plain,              \* names of attributes that are only counted
  Lengths,            \* bound: how long the value of each attribute may be
  MaxChanges          \* bound: how often other programs change an attribute

ASSUME XattrAssumption ==
  /\ IsFiniteSet(Plain) /\ Plain \cap {"decmpfs", "resource fork"} = {}
  /\ Lengths \in [Plain \cup {"decmpfs", "resource fork"} -> SUBSET Nat]
  /\ MaxChanges \in Nat

Names == Plain \cup {"decmpfs", "resource fork"}

VARIABLES
  attrs,              \* the value of each attribute: none, or one
  changes,            \* how often they have changed
  pc,                 \* the next call of the system
  room,               \* raw_names: how many names its buffer can hold
  todo, name,         \* with_names: the names to come, and the one in hand
  len, buf,           \* read: the length it was told, and its buffer
  info,               \* the report
  seen, listed        \* history: the values, and the sets of names, there have been

report == <<pc, room, todo, name, len, buf, info>>
vars == <<attrs, changes, pc, room, todo, name, len, buf, info, seen, listed>>

\* Every value written differs from those before it in every byte; 0 fills a buffer.
Bytes(n, version) == [i \in 1 .. n |-> version]
Present == {n \in Names : attrs[n] # {}}
Returned == pc \in {"ok", "error"}

-----------------------------------------------------------------------------
(* Other programs. *)

Put(n, value) ==
  /\ ~Returned /\ changes < MaxChanges
  /\ changes' = changes + 1
  /\ attrs' = [attrs EXCEPT ![n] = value]
  /\ seen' = [seen EXCEPT ![n] = @ \cup value]
  /\ listed' = listed \cup {{m \in Names : attrs'[m] # {}}}
  /\ UNCHANGED report

OthersSet(n) == \E l \in Lengths[n] : Put(n, {Bytes(l, changes + 1)})
OthersRemove(n) == attrs[n] # {} /\ Put(n, {})

-----------------------------------------------------------------------------
(* raw_names and with_names. *)

World == <<attrs, changes, seen, listed>>
Goto(where) == pc' = where

ListSize ==
  /\ pc = "list size"
  /\ room' = IF Cardinality(Present) > room THEN Cardinality(Present) ELSE room
  /\ Goto("list")
  /\ UNCHANGED <<World, todo, name, len, buf, info>>

\* A file system without attributes has no names, which is not an error.
NoNames ==
  /\ pc = "list size"
  /\ todo' = {} /\ Goto("next name")
  /\ UNCHANGED <<World, room, name, len, buf, info>>

\* Definitions marked "Seeded fault" are not the code's: each is the next definition
\* with a plausible bug, and shows that a property can fail.

\* Seeded fault: after ERANGE, tries again with the same buffer.
ListAgain ==
  /\ pc = "list"
  /\ IF Cardinality(Present) > room
       THEN UNCHANGED <<pc, todo>>
       ELSE Goto("next name") /\ todo' = Present
  /\ UNCHANGED <<World, room, name, len, buf, info>>

\* ERANGE starts over.  A buffer of no bytes only asks for the size, and stays empty.
List ==
  /\ pc = "list"
  /\ IF room = 0 THEN Goto("next name") /\ todo' = {}
     ELSE IF Cardinality(Present) > room THEN Goto("list size") /\ UNCHANGED todo
     ELSE Goto("next name") /\ todo' = Present
  /\ UNCHANGED <<World, room, name, len, buf, info>>

NextName ==
  /\ pc = "next name"
  /\ IF todo = {}
       THEN Goto("ok") /\ UNCHANGED <<todo, name>>
       ELSE \E n \in todo :
              /\ name' = n /\ todo' = todo \ {n}
              /\ Goto(IF n = "decmpfs" THEN "read len" ELSE "len")
  /\ UNCHANGED <<World, room, len, buf, info>>

-----------------------------------------------------------------------------
(* len and read: the closure of info.rs get. *)

\* Seeded fault: an attribute that is gone has no length.
LengthOrZero ==
  /\ pc = "len"
  /\ info' = [info EXCEPT !.count = @ + 1,
                          !.total = @ + (IF attrs[name] = {} THEN 0
                                         ELSE Len(CHOOSE v \in attrs[name] : TRUE))]
  /\ Goto("next name")
  /\ UNCHANGED <<World, room, todo, name, len, buf>>

Length ==
  /\ pc = "len"
  /\ IF attrs[name] = {}
       THEN Goto("error") /\ UNCHANGED info
       ELSE \E v \in attrs[name] :
              /\ info' = IF name = "resource fork" THEN [info EXCEPT !.fork = {Len(v)}]
                         ELSE [info EXCEPT !.count = @ + 1, !.total = @ + Len(v)]
              /\ Goto("next name")
  /\ UNCHANGED <<World, room, todo, name, len, buf>>

Truncate(b, n) == IF n < Len(b) THEN SubSeq(b, 1, n) ELSE b

\* Seeded fault: a byte too many.
ResizeBeyond(b, n) == [i \in 1 .. n + 1 |-> IF i <= Len(b) THEN b[i] ELSE 0]

Resize(b, n) == [i \in 1 .. n |-> IF i <= Len(b) THEN b[i] ELSE 0]

ReadLen ==
  /\ pc = "read len"
  /\ IF attrs["decmpfs"] = {}
       THEN Goto("error") /\ UNCHANGED <<len, buf>>
       ELSE \E v \in attrs["decmpfs"] :
              /\ len' = Len(v)
              /\ buf' = IF Len(v) > Len(buf) THEN Resize(buf, Len(v)) ELSE buf
              /\ Goto("read value")
  /\ UNCHANGED <<World, room, todo, name, info>>

\* What the system leaves in a buffer: the value, over what was there.
Filled(b, v) == [i \in 1 .. Len(b) |-> IF i <= Len(v) THEN v[i] ELSE b[i]]

Report(b) ==
  /\ buf' = b
  /\ info' = [info EXCEPT !.decmpfs = {b}]
  /\ Goto("next name")

\* Seeded fault: a value that has become shorter is taken as it lies in the buffer.
ReadValueAnyLength ==
  /\ pc = "read value"
  /\ IF attrs["decmpfs"] = {}
       THEN Goto("error") /\ UNCHANGED <<buf, info>>
       ELSE \E v \in attrs["decmpfs"] :
              IF Len(buf) # 0 /\ Len(v) > Len(buf)
                THEN Goto("read len") /\ UNCHANGED <<buf, info>>
                ELSE Report(Filled(buf, v))
  /\ UNCHANGED <<World, room, todo, name, len>>

\* ERANGE, and a value shorter than was said, start over.  A longer one, which fits
\* only into the buffer of an earlier round, is cut to its length; one that has the
\* length that was said is not, though the buffer may be longer.
ReadValue ==
  /\ pc = "read value"
  /\ IF attrs["decmpfs"] = {}
       THEN Goto("error") /\ UNCHANGED <<buf, info>>
       ELSE \E v \in attrs["decmpfs"] :
              IF Len(buf) # 0 /\ Len(v) > Len(buf)
                THEN Goto("read len") /\ UNCHANGED <<buf, info>>
              ELSE IF len < Len(v)
                THEN Report(Truncate(Filled(buf, v), Len(v)))
              ELSE IF len = Len(v) THEN Report(Filled(buf, v))
              ELSE /\ buf' = Resize(Filled(buf, v), Len(v))
                   /\ Goto("read len")
                   /\ UNCHANGED info
  /\ UNCHANGED <<World, room, todo, name, len>>

\* Any of the calls may fail, and the report with it.
Fail ==
  /\ pc \in {"list size", "list", "len", "read len", "read value"}
  /\ Goto("error")
  /\ UNCHANGED <<World, room, todo, name, len, buf, info>>

-----------------------------------------------------------------------------

Init ==
  /\ changes = 0
  /\ attrs \in {f \in [Names -> {{}} \cup {{Bytes(l, 0)} : l \in UNION Range(Lengths)}] :
                 \A n \in Names : \A v \in f[n] : Len(v) \in Lengths[n]}
  /\ pc = "list size" /\ room = 0 /\ todo = {} /\ name = "decmpfs" /\ len = 0 /\ buf = <<>>
  /\ info = [count |-> 0, total |-> 0, fork |-> {}, decmpfs |-> {}]
  /\ seen = attrs /\ listed = {Present}

Get == ListSize \/ NoNames \/ List \/ NextName \/ Length \/ ReadLen \/ ReadValue
Others == \E n \in Names : OthersSet(n) \/ OthersRemove(n)
Terminated == Returned /\ UNCHANGED vars

Next == Get \/ Fail \/ Others \/ Terminated

Spec == Init /\ [][Next]_vars

\* The thread that reports keeps running, though no call needs to fail; other programs
\* change the file MaxChanges times and no more.
FairSpec == Spec /\ WF_vars(Get)

-----------------------------------------------------------------------------
(* Properties. *)

TypeOK ==
  /\ attrs \in [Names -> SUBSET Seq(Nat)] /\ \A n \in Names : Cardinality(attrs[n]) <= 1
  /\ changes \in 0 .. MaxChanges
  /\ pc \in {"list size", "list", "next name", "len", "read len", "read value", "ok", "error"}
  /\ room \in 0 .. Cardinality(Names) /\ todo \subseteq Names /\ name \in Names
  /\ len \in Lengths["decmpfs"] \cup {0}
  /\ buf \in Seq(0 .. MaxChanges) /\ Len(buf) \in Lengths["decmpfs"] \cup {0}
  /\ info.count \in 0 .. Cardinality(Plain) /\ info.total \in Nat

\* Values, one for each of some attributes, that they had at some time.
Sums(S) == {FoldSet(LAMBDA n, sum : sum + Len(f[n]), 0, S) :
              f \in {g \in [S -> UNION {seen[n] : n \in S}] : \A n \in S : g[n] \in seen[n]}}

\* A report covers exactly the attributes of one moment: none is missed or counted
\* twice, and each counts with a length that it had during the call.  One that went
\* away meanwhile fails the report, instead of passing for empty.  (A file system
\* without attributes reports none.)
ReportOfOneMoment ==
  pc = "ok" =>
    \E S \in listed \cup {{}} :
      /\ info.count = Cardinality(S \cap Plain)
      /\ info.total \in Sums(S \cap Plain)
      /\ info.fork # {} <=> "resource fork" \in S
      /\ info.fork \subseteq {Len(v) : v \in seen["resource fork"]}
      /\ info.decmpfs # {} <=> "decmpfs" \in S

\* What read returns is a value the attribute had, never a mixture - unless it had three
\* different values during the call: then bytes of an earlier one, or zeros, may follow
\* a value that it had.
NoTornValue ==
  \A b \in info.decmpfs :
    IF Cardinality(seen["decmpfs"]) <= 2 THEN b \in seen["decmpfs"]
    ELSE \E v \in seen["decmpfs"] : IsPrefix(v, b)

\* However the attributes grow and shrink, the loops of raw_names and read end.
EveryReportEnds == <>Returned
=============================================================================
