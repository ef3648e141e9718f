---------------------------- MODULE XattrProofs ----------------------------
(***************************************************************************)
(* Proofs about Xattr, for every set of attributes, every length of their  *)
(* values and any number of changes by other programs: its type invariant, *)
(* that read returns a value that the attribute had, and that a report     *)
(* covers the attributes of one moment, each with a length that it had.    *)
(*                                                                         *)
(* The argument is about the length of read's buffer.  It can be longer    *)
(* than the length that read was told in this round only when a round      *)
(* before was thrown away because the attribute's length had changed, and  *)
(* so only when the attribute had three values of different lengths.       *)
(*                                                                         *)
(* For the report, the names listed are those of a moment, and at every    *)
(* step they are those the report accounts for and those still to come.    *)
(* Its total is a fold over a set; that a further attribute adds its       *)
(* length, whatever order the fold takes, is proved with a smallest set    *)
(* for which it would fail.                                                *)
(***************************************************************************)
EXTENDS Xattr, FiniteSetTheorems, SequenceTheorems, WellFoundedInduction, TLAPS

-----------------------------------------------------------------------------
(* The invariant. *)

\* Whatever an attribute has now is among what it had during the call: a value of one of
\* its lengths.
Stored ==
  /\ attrs \in [Names -> SUBSET Seq(0 .. MaxChanges)]
  /\ seen \in [Names -> SUBSET Seq(0 .. MaxChanges)]
  /\ \A n \in Names :
       /\ attrs[n] = {} \/ \E v \in seen[n] : attrs[n] = {v}
       /\ IsFiniteSet(seen[n])
       /\ \A v \in seen[n] : Len(v) \in Lengths[n]

\* Names in hand: the attributes that this call still has to look at.
Ahead == IF pc = "len" THEN todo \cup {name} ELSE todo

\* Every name is taken once, so that no attribute is counted twice.
Counted ==
  /\ pc \in {"list size", "list"} => todo = {} /\ info.count = 0
  /\ pc = "len" => name \notin todo /\ name # "decmpfs"
  /\ info.count + Cardinality(Ahead \cap Plain) <= Cardinality(Plain)

Had(l) == \E v \in seen["decmpfs"] : Len(v) = l
HadLonger(l) == \E v \in seen["decmpfs"] : Len(v) > l

\* Where the buffer's length comes from.  It is empty until decmpfs comes up; then it is
\* as long as some value was, and it is longer than the length that read was told only
\* after a round in which the attribute was longer still.
Buffered ==
  /\ pc \in {"list size", "list"} \/ "decmpfs" \in todo => buf = <<>>
  /\ pc \in {"read len", "read value"} => "decmpfs" \notin todo
  /\ pc = "read len" /\ buf # <<>> => Had(Len(buf)) /\ HadLonger(Len(buf))
  /\ pc = "read value" =>
       /\ Had(len) /\ len <= Len(buf)
       /\ len < Len(buf) => Had(Len(buf)) /\ HadLonger(Len(buf))

\* What read has returned, and how many values the attribute must have had for it not to
\* be one of them.
WasValue(b) ==
  \/ b \in seen["decmpfs"]
  \/ /\ \E v \in seen["decmpfs"] : IsPrefix(v, b)
     /\ \E l, m \in Nat : l < m /\ Had(l) /\ Had(m) /\ HadLonger(m)

Taken == \A b \in info.decmpfs : WasValue(b)

Typed ==
  /\ changes \in 0 .. MaxChanges
  /\ pc \in {"list size", "list", "next name", "len", "read len", "read value", "ok", "error"}
  /\ room \in 0 .. Cardinality(Names) /\ todo \subseteq Names /\ name \in Names
  /\ len \in Nat /\ buf \in Seq(0 .. MaxChanges)
  /\ info = [count |-> info.count, total |-> info.total, fork |-> info.fork,
             decmpfs |-> info.decmpfs]
  /\ info.count \in Nat /\ info.total \in Nat /\ info.decmpfs \subseteq Seq(0 .. MaxChanges)

Sized == len \in Lengths["decmpfs"] \cup {0} /\ Len(buf) \in Lengths["decmpfs"] \cup {0}

IInv == Typed /\ Sized /\ Stored /\ Counted /\ Buffered /\ Taken

-----------------------------------------------------------------------------
(* What the system leaves in a buffer, and what read makes of it. *)

Contents == Seq(0 .. MaxChanges)

\* The bounds are numbers.
LEMMA Bounds ==
  MaxChanges \in Nat
BY XattrAssumption

\* A version below the bound has a next one.
LEMMA NextVersion ==
  ASSUME NEW v \in 0 .. MaxChanges, v < MaxChanges
  PROVE  v + 1 \in 0 .. MaxChanges
BY Bounds

\* So are the lengths of values.
LEMMA LengthsAreNumbers ==
  ASSUME NEW n \in Names, NEW l \in Lengths[n]
  PROVE  l \in Nat
BY XattrAssumption DEF Names

\* The two attributes that are read are names, but not plain ones.
LEMMA NotPlain ==
  /\ "decmpfs" \in Names /\ "resource fork" \in Names
  /\ "decmpfs" \notin Plain /\ "resource fork" \notin Plain
BY XattrAssumption DEF Names

\* A function on an initial segment is a sequence.
LEMMA IsContents ==
  ASSUME NEW n \in Nat, NEW f \in [1 .. n -> 0 .. MaxChanges]
  PROVE  f \in Contents /\ Len(f) = n
<1>1. f \in Seq(0 .. MaxChanges)
  BY SeqDef
<1>2. Len(f) \in Nat /\ DOMAIN f = 1 .. Len(f) /\ DOMAIN f = 1 .. n
  BY <1>1, LenProperties
<1> QED  BY <1>1, <1>2 DEF Contents

\* What the contents of a buffer are made of.
LEMMA Cells ==
  ASSUME NEW b \in Contents
  PROVE  Len(b) \in Nat /\ b \in [1 .. Len(b) -> 0 .. MaxChanges]
BY LenProperties DEF Contents

\* A value that fits covers the start of the buffer, and all of one of its length.
LEMMA FilledStart ==
  ASSUME NEW b \in Contents, NEW v \in Contents, Len(v) <= Len(b)
  PROVE  /\ Filled(b, v) \in Contents /\ Len(Filled(b, v)) = Len(b)
         /\ IsPrefix(v, Filled(b, v))
         /\ Len(v) = Len(b) => Filled(b, v) = v
         /\ Truncate(Filled(b, v), Len(v)) = v
<1> DEFINE f == Filled(b, v)
<1>1. /\ Len(b) \in Nat /\ b \in [1 .. Len(b) -> 0 .. MaxChanges]
      /\ Len(v) \in Nat /\ v \in [1 .. Len(v) -> 0 .. MaxChanges]
  BY Cells
<1>2. f \in [1 .. Len(b) -> 0 .. MaxChanges]
  BY <1>1 DEF Filled
<1>3. f \in Contents /\ Len(f) = Len(b)
  BY <1>1, <1>2, IsContents
<1>4. \A i \in 1 .. Len(v) : f[i] = v[i]
  BY <1>1 DEF Filled
<1> HIDE DEF f
<1>5. SubSeq(f, 1, Len(v)) \in Contents
  BY <1>1, <1>4, SubSeqProperties DEF Contents
<1>6. Len(SubSeq(f, 1, Len(v))) = Len(v)
  BY <1>1, <1>4, SubSeqProperties
<1>7. \A i \in 1 .. Len(v) : SubSeq(f, 1, Len(v))[i] = v[i]
  BY <1>1, <1>4, SubSeqProperties
<1>8. SubSeq(f, 1, Len(v)) = v
  BY <1>5, <1>6, <1>7, SeqEqual DEF Contents
<1>9. SubSeq(v, 1, Len(v)) = v
  BY SubSeqFull DEF Contents
<1>10. Len(v) = Len(b) => f = v
  BY <1>3, <1>4, SeqEqual DEF Contents
<1>11. IsPrefix(v, f)
  BY <1>3, <1>8, <1>9 DEF IsPrefix
<1>12. Len(v) < Len(f) \/ Len(v) = Len(b)
  <2>1. Len(v) \in Nat /\ Len(b) \in Nat  BY <1>1
  <2>2. Len(v) < Len(b) \/ Len(v) = Len(b)  BY ONLY <2>1, Len(v) <= Len(b)
  <2> QED  BY <1>3, <2>2
<1>13. Truncate(f, Len(v)) = v
  BY <1>8, <1>10, <1>12 DEF Truncate
<1> QED  BY <1>3, <1>10, <1>11, <1>13 DEF f

\* A buffer without room stays as it is.
LEMMA FilledNothing ==
  ASSUME NEW b \in Contents, NEW v \in Contents, Len(b) = 0
  PROVE  Filled(b, v) = <<>> /\ Truncate(Filled(b, v), Len(v)) = <<>> /\ b = <<>>
<1>1. Len(v) \in Nat /\ b = <<>>
  BY Cells DEF Contents
<1>2. Filled(b, v) = <<>>
  BY DEF Filled
<1> QED  BY <1>1, <1>2 DEF Truncate

\* A resized buffer has the length it was given.
LEMMA Resized ==
  ASSUME NEW b \in Contents, NEW n \in Nat
  PROVE  Resize(b, n) \in Contents /\ Len(Resize(b, n)) = n
<1>1. ASSUME NEW i \in 1 .. n
      PROVE  (IF i <= Len(b) THEN b[i] ELSE 0) \in 0 .. MaxChanges
  BY Bounds, Cells
<1>2. Resize(b, n) \in [1 .. n -> 0 .. MaxChanges]
  BY <1>1 DEF Resize
<1> QED  BY <1>2, IsContents

\* A value is as long as it was written, of the bytes of its version.
LEMMA Written ==
  ASSUME NEW n \in Nat, NEW version \in 0 .. MaxChanges
  PROVE  Bytes(n, version) \in Contents /\ Len(Bytes(n, version)) = n
<1>1. Bytes(n, version) \in [1 .. n -> 0 .. MaxChanges]
  BY DEF Bytes
<1> QED  BY <1>1, IsContents

\* There are finitely many names.
LEMMA NamesFinite ==
  /\ IsFiniteSet(Names) /\ Cardinality(Names) \in Nat
  /\ \A S \in SUBSET Names : /\ IsFiniteSet(S \cap Plain)
                             /\ Cardinality(S \cap Plain) \in Nat
                             /\ Cardinality(S) \in 0 .. Cardinality(Names)
                             /\ Cardinality(S \cap Plain) <= Cardinality(Plain)
  /\ IsFiniteSet(Plain) /\ Cardinality(Plain) \in Nat
<1>1. IsFiniteSet(Plain) /\ Cardinality(Plain) \in Nat
  BY XattrAssumption, FS_CardinalityType
<1>2. IsFiniteSet(Names) /\ Cardinality(Names) \in Nat
  <2>1. IsFiniteSet(Plain \cup {"decmpfs"})
    BY <1>1, FS_AddElement
  <2>2. IsFiniteSet((Plain \cup {"decmpfs"}) \cup {"resource fork"})
    BY <2>1, FS_AddElement
  <2>3. (Plain \cup {"decmpfs"}) \cup {"resource fork"} = Names
    BY DEF Names
  <2> QED  BY <2>2, <2>3, FS_CardinalityType
<1>3. ASSUME NEW S \in SUBSET Names
      PROVE  /\ IsFiniteSet(S \cap Plain) /\ Cardinality(S \cap Plain) \in Nat
             /\ Cardinality(S) \in 0 .. Cardinality(Names)
             /\ Cardinality(S \cap Plain) <= Cardinality(Plain)
  <2>1. IsFiniteSet(S \cap Plain) /\ Cardinality(S \cap Plain) <= Cardinality(Plain)
    BY <1>1, FS_Subset
  <2>2. IsFiniteSet(S) /\ Cardinality(S) <= Cardinality(Names)
    BY <1>2, FS_Subset
  <2> QED  BY <1>2, <2>1, <2>2, FS_CardinalityType
<1> QED  BY <1>1, <1>2, <1>3

\* One more name is one more plain name, if it is one.
LEMMA OneMoreName ==
  ASSUME NEW S \in SUBSET Names, NEW n \in Names, n \notin S
  PROVE  /\ n \in Plain => Cardinality((S \cup {n}) \cap Plain) = Cardinality(S \cap Plain) + 1
         /\ n \notin Plain => (S \cup {n}) \cap Plain = S \cap Plain
<1>1. IsFiniteSet(S \cap Plain)
  BY NamesFinite
<1>2. CASE n \in Plain
  <2>1. (S \cup {n}) \cap Plain = (S \cap Plain) \cup {n}
    BY <1>2
  <2> QED  BY <1>1, <1>2, <2>1, FS_AddElement
<1>3. CASE n \notin Plain
  BY <1>3
<1> QED  BY <1>2, <1>3

-----------------------------------------------------------------------------
(* The invariant is inductive. *)

\* When the report begins, nothing has been read.
LEMMA InitIInv ==
  ASSUME Init
  PROVE  IInv
<1>1. /\ changes = 0 /\ pc = "list size" /\ room = 0 /\ todo = {}
      /\ name = "decmpfs" /\ len = 0 /\ buf = <<>>
      /\ info = [count |-> 0, total |-> 0, fork |-> {}, decmpfs |-> {}]
      /\ seen = attrs
  BY DEF Init
<1>2. Len(buf) = 0 /\ buf \in Seq(0 .. MaxChanges)
  BY <1>1, EmptySeq
<1>3. Typed
  <2>1. 0 \in 0 .. MaxChanges /\ 0 \in 0 .. Cardinality(Names)
    BY Bounds, NamesFinite
  <2> QED  BY <1>1, <1>2, <2>1, NotPlain DEF Typed
<1>4. Stored
  <2>1. /\ attrs \in [Names -> {{}} \cup {{Bytes(l, 0)} : l \in UNION Range(Lengths)}]
        /\ \A n \in Names : \A v \in attrs[n] : Len(v) \in Lengths[n]
    BY DEF Init
  <2>2. \A l \in UNION Range(Lengths) : l \in Nat
    BY XattrAssumption DEF Range
  <2>3. \A l \in UNION Range(Lengths) : Bytes(l, 0) \in Seq(0 .. MaxChanges)
    <3>1. 0 \in 0 .. MaxChanges
      BY Bounds
    <3>2. ASSUME NEW l \in Nat PROVE Bytes(l, 0) \in Contents
      BY <3>1, Written
    <3>3. \A l \in UNION Range(Lengths) : Bytes(l, 0) \in Contents
      BY <2>2, <3>2
    <3> QED BY <3>3 DEF Contents
  <2>4. ASSUME NEW n \in Names
        PROVE  /\ attrs[n] \in SUBSET Seq(0 .. MaxChanges)
               /\ attrs[n] = {} \/ \E v \in attrs[n] : attrs[n] = {v}
               /\ IsFiniteSet(attrs[n])
    <3>1. attrs[n] = {} \/ \E l \in UNION Range(Lengths) : attrs[n] = {Bytes(l, 0)}
      BY <2>1
    <3>2. CASE attrs[n] = {}
      BY <3>2, FS_EmptySet
    <3>3. ASSUME NEW l \in UNION Range(Lengths), attrs[n] = {Bytes(l, 0)}
          PROVE  /\ attrs[n] \in SUBSET Seq(0 .. MaxChanges)
                 /\ \E v \in attrs[n] : attrs[n] = {v}
                 /\ IsFiniteSet(attrs[n])
      BY <3>3, <2>3, FS_Singleton
    <3> QED  BY <3>1, <3>2, <3>3
  <2>5. attrs \in [Names -> SUBSET Seq(0 .. MaxChanges)]
    BY <2>1, <2>4
  <2> QED  BY <1>1, <2>1, <2>4, <2>5 DEF Stored
<1>5. Counted
  <2>1. Ahead \cap Plain = {} \cap Plain
    BY <1>1 DEF Ahead
  <2>2. Cardinality({} \cap Plain) <= Cardinality(Plain) /\ Cardinality({} \cap Plain) \in Nat
    BY NamesFinite
  <2>3. info.count = 0 /\ name = "decmpfs" /\ todo = {} /\ pc = "list size"
    BY <1>1
  <2>4. 0 + Cardinality(Ahead \cap Plain) <= Cardinality(Plain)
    BY <2>1, <2>2
  <2> QED  BY <2>3, <2>4 DEF Counted
<1> QED  BY <1>1, <1>2, <1>3, <1>4, <1>5 DEF IInv, Sized, Buffered, Taken

\* Other programs add to what an attribute has had, and never take away from it.
LEMMA OthersKeep ==
  ASSUME IInv, Others
  PROVE  IInv' /\ \A n \in Names : seen[n] \subseteq seen'[n]
<1> USE Bounds DEF IInv, Stored
<1>1. changes \in 0 .. MaxChanges
  BY DEF Typed
<1>2. PICK n \in Names, value \in SUBSET Contents :
        /\ Put(n, value)
        /\ value = {} \/ \E v \in value : value = {v} /\ Len(v) \in Lengths[n]
  <2>1. CASE \E n \in Names : OthersSet(n)
    <3>1. PICK n \in Names : OthersSet(n)  BY <2>1
    <3>2. PICK l \in Lengths[n] : Put(n, {Bytes(l, changes + 1)})  BY <3>1 DEF OthersSet
    <3>3. changes < MaxChanges  BY <3>2 DEF Put
    <3>4. changes + 1 \in 0 .. MaxChanges  BY <1>1, <3>3, NextVersion
    <3>5. l \in Nat  BY <3>2, LengthsAreNumbers
    <3>6. Bytes(l, changes + 1) \in Contents /\ Len(Bytes(l, changes + 1)) = l
      BY <3>4, <3>5, Written
    <3> QED  BY <3>2, <3>6
  <2>2. CASE \E n \in Names : OthersRemove(n)
    BY <2>2 DEF OthersRemove
  <2> QED  BY <2>1, <2>2 DEF Others
<1>3. /\ attrs' = [attrs EXCEPT ![n] = value]
      /\ seen' = [seen EXCEPT ![n] = @ \cup value]
      /\ changes' = changes + 1 /\ changes < MaxChanges
      /\ UNCHANGED report
  BY <1>2 DEF Put
<1>4. \A m \in Names : seen[m] \subseteq seen'[m]
  BY <1>3
<1>5. Stored'
  <2>1. attrs' \in [Names -> SUBSET Seq(0 .. MaxChanges)]
    BY <1>2, <1>3 DEF Contents
  <2>2. seen' \in [Names -> SUBSET Seq(0 .. MaxChanges)]
    BY <1>2, <1>3 DEF Contents
  <2>3. IsFiniteSet(value)
    <3>1. CASE value = {}  BY <3>1, FS_EmptySet
    <3>2. ASSUME NEW v, value = {v} PROVE IsFiniteSet(value)  BY <3>2, FS_Singleton
    <3> QED  BY <1>2, <3>1, <3>2
  <2>4. IsFiniteSet(seen[n] \cup value)
    BY <2>3, FS_Union
  <2>5. ASSUME NEW m \in Names
        PROVE  /\ attrs'[m] = {} \/ \E v \in seen'[m] : attrs'[m] = {v}
               /\ IsFiniteSet(seen'[m])
               /\ \A v \in seen'[m] : Len(v) \in Lengths[m]
    <3>1. CASE m = n
      <4>1. attrs'[m] = value /\ seen'[m] = seen[n] \cup value
        BY <1>3, <3>1
      <4> QED  BY <1>2, <2>4, <3>1, <4>1
    <3>2. CASE m # n
      <4>1. attrs'[m] = attrs[m] /\ seen'[m] = seen[m]
        BY <1>3, <3>2
      <4> QED  BY <4>1
    <3> QED  BY <3>1, <3>2
  <2> QED  BY <2>1, <2>2, <2>5
<1>6. Typed' /\ Sized'
  <2>1. changes' \in 0 .. MaxChanges
    BY <1>1, <1>3, NextVersion
  <2> QED  BY <1>3, <2>1 DEF Typed, Sized, report
<1>7. Counted'
  BY <1>3 DEF Counted, Ahead, report
<1>8. "decmpfs" \in Names
  BY NotPlain
<1>9. \A l : (Had(l) => Had(l)') /\ (HadLonger(l) => HadLonger(l)')
  BY <1>4, <1>8 DEF Had, HadLonger
<1>10. Buffered'
  BY <1>3, <1>9 DEF Buffered, report
<1>11. Taken'
  BY <1>3, <1>4, <1>8, <1>9 DEF Taken, WasValue, report
<1> QED  BY <1>4, <1>5, <1>6, <1>7, <1>10, <1>11

\* What the calls of this report leave alone.
LEMMA WorldKept ==
  ASSUME IInv, UNCHANGED World
  PROVE  /\ Stored' /\ changes' \in 0 .. MaxChanges
         /\ \A l : (Had(l)' <=> Had(l)) /\ (HadLonger(l)' <=> HadLonger(l))
         /\ \A n \in Names : seen'[n] = seen[n]
BY DEF IInv, Stored, Typed, World, Had, HadLonger

\* The invariant of a step that reads no value.
LEMMA NoValueRead ==
  ASSUME IInv, UNCHANGED World, UNCHANGED <<len, buf>>, info'.decmpfs = info.decmpfs
  PROVE  Stored' /\ Sized' /\ Taken'
<1>1. seen'["decmpfs"] = seen["decmpfs"]
  BY WorldKept, NotPlain
<1>2. Taken'
  BY <1>1, WorldKept DEF IInv, Taken, WasValue
<1> QED  BY <1>2, WorldKept DEF IInv, Sized

\* Listing the names, and taking the next one.
LEMMA NamesKeep ==
  ASSUME IInv, ListSize \/ NoNames \/ List \/ NextName
  PROVE  IInv'
<1>1. UNCHANGED World /\ UNCHANGED <<len, buf, info>>
  BY DEF ListSize, NoNames, List, NextName
<1>2. Stored' /\ Sized' /\ Taken'
  BY <1>1, NoValueRead
<1>3. Present \in SUBSET Names
  BY DEF Present
<1>4. /\ todo' \in SUBSET Names
      /\ name' \in Names
  BY <1>3 DEF ListSize, NoNames, List, NextName, IInv, Typed
<1>5. room' \in 0 .. Cardinality(Names)
  BY <1>3, NamesFinite DEF ListSize, NoNames, List, NextName, IInv, Typed
<1>6. pc' \in {"list size", "list", "next name", "len", "read len", "ok"}
  BY DEF ListSize, NoNames, List, NextName, Goto
<1>7. Typed'
  BY <1>1, <1>4, <1>5, <1>6 DEF IInv, Typed, World
<1>8. Counted'
  <2>1. CASE ListSize \/ NoNames \/ List
    <3>1. /\ pc' \in {"list size", "list"} => todo' = {}
          /\ pc' # "len" /\ info.count = 0 /\ info' = info
      BY <2>1, <1>1 DEF ListSize, NoNames, List, Goto, IInv, Counted
    <3>2. Ahead' = todo'
      BY <3>1 DEF Ahead
    <3>3. /\ Cardinality(todo' \cap Plain) \in Nat
          /\ Cardinality(todo' \cap Plain) <= Cardinality(Plain)
      BY <1>4, NamesFinite
    <3>4. 0 + Cardinality(todo' \cap Plain) <= Cardinality(Plain)
      BY <3>3
    <3> QED  BY <3>1, <3>2, <3>4 DEF Counted
  <2>2. CASE NextName
    <3>1. pc = "next name" /\ info' = info /\ Ahead = todo
      BY <2>2, <1>1 DEF NextName, Ahead
    <3>2. CASE todo = {}
      <4>1. pc' = "ok" /\ todo' = todo
        BY <2>2, <3>2 DEF NextName, Goto
      <4> QED  BY <3>1, <4>1 DEF IInv, Counted, Ahead
    <3>3. CASE todo # {}
      <4>1. PICK n \in todo : /\ name' = n /\ todo' = todo \ {n}
                              /\ pc' = IF n = "decmpfs" THEN "read len" ELSE "len"
        BY <2>2, <3>3 DEF NextName, Goto
      <4>2. Ahead' \cap Plain = todo \cap Plain
        BY <4>1, NotPlain DEF Ahead
      <4> QED  BY <3>1, <4>1, <4>2 DEF IInv, Counted
    <3> QED  BY <3>2, <3>3
  <2> QED  BY <2>1, <2>2
<1>9. Buffered'
  <2>1. CASE ListSize \/ NoNames \/ List
    BY <2>1, <1>1 DEF ListSize, NoNames, List, Goto, IInv, Buffered
  <2>2. CASE NextName
    <3>1. /\ todo' \subseteq todo /\ buf' = buf
          /\ pc = "next name" /\ pc' \in {"ok", "len", "read len"}
          /\ pc' = "read len" => "decmpfs" \in todo /\ "decmpfs" \notin todo'
      BY <2>2, <1>1 DEF NextName, Goto
    <3> QED  BY <3>1 DEF IInv, Buffered
  <2> QED  BY <2>1, <2>2
<1> QED  BY <1>2, <1>7, <1>8, <1>9 DEF IInv

\* Asking for a length: each attribute is counted once, as it leaves those ahead.
LEMMA LengthKeeps ==
  ASSUME IInv, Length
  PROVE  IInv'
<1>1. /\ UNCHANGED World /\ UNCHANGED <<room, todo, name, len, buf>>
      /\ pc = "len" /\ pc' \in {"next name", "error"}
  BY DEF Length, Goto
<1>2. /\ todo \in SUBSET Names /\ name \in Names
      /\ name \notin todo /\ name # "decmpfs" /\ Ahead = todo \cup {name} /\ Ahead' = todo
  BY <1>1 DEF IInv, Typed, Counted, Ahead
<1>3. /\ info = [count |-> info.count, total |-> info.total, fork |-> info.fork,
                 decmpfs |-> info.decmpfs]
      /\ info.count \in Nat /\ info.total \in Nat
  BY DEF IInv, Typed
<1>4. \A v \in attrs[name] : Len(v) \in Nat
  <2>1. attrs[name] \subseteq seen[name] /\ \A v \in seen[name] : Len(v) \in Lengths[name]
    BY <1>2 DEF IInv, Stored
  <2> QED  BY <1>2, <2>1, LengthsAreNumbers
<1>5. \/ info' = info
      \/ name = "resource fork" /\ \E l \in Nat : info' = [info EXCEPT !.fork = {l}]
      \/ /\ name # "resource fork"
         /\ \E l \in Nat : info' = [info EXCEPT !.count = @ + 1, !.total = @ + l]
  BY <1>4 DEF Length
<1>6. /\ info' = [count |-> info'.count, total |-> info'.total, fork |-> info'.fork,
                  decmpfs |-> info'.decmpfs]
      /\ info'.decmpfs = info.decmpfs
      /\ info'.count \in Nat /\ info'.total \in Nat
      /\ \/ info'.count = info.count
         \/ info'.count = info.count + 1 /\ name # "resource fork"
  <2>1. CASE info' = info
    BY <1>3, <2>1
  <2>2. ASSUME NEW l \in Nat, name = "resource fork", info' = [info EXCEPT !.fork = {l}]
        PROVE  info' = [count |-> info.count, total |-> info.total, fork |-> {l},
                        decmpfs |-> info.decmpfs]
    BY <1>3, <2>2
  <2>3. ASSUME NEW l \in Nat, info' = [info EXCEPT !.count = @ + 1, !.total = @ + l]
        PROVE  info' = [count |-> info.count + 1, total |-> info.total + l, fork |-> info.fork,
                        decmpfs |-> info.decmpfs]
    BY <1>3, <2>3
  <2>4. info.count + 1 \in Nat /\ \A l \in Nat : info.total + l \in Nat
    BY <1>3
  <2> QED  BY <1>3, <1>5, <2>1, <2>2, <2>3, <2>4
<1>7. Stored' /\ Sized' /\ Taken'
  BY <1>1, <1>6, NoValueRead
<1>8. Typed'
  BY <1>1, <1>6 DEF IInv, Typed, World
<1>9. Counted'
  <2>1. /\ Cardinality(todo \cap Plain) \in Nat /\ Cardinality(Plain) \in Nat
        /\ info.count + Cardinality((todo \cup {name}) \cap Plain) <= Cardinality(Plain)
    BY <1>2, NamesFinite DEF IInv, Counted
  <2>2. info'.count + Cardinality(todo \cap Plain) <= Cardinality(Plain)
    <3>1. CASE name \in Plain
      <4>1. Cardinality((todo \cup {name}) \cap Plain) = Cardinality(todo \cap Plain) + 1
        BY <1>2, <3>1, OneMoreName
      <4>2. info.count \in Nat /\ (info'.count = info.count \/ info'.count = info.count + 1)
        BY <1>3, <1>6
      <4> QED  BY <2>1, <4>1, <4>2
    <3>2. CASE name \notin Plain
      <4>1. (todo \cup {name}) \cap Plain = todo \cap Plain
        BY <1>2, <3>2, OneMoreName
      <4>2. name = "resource fork"
        BY <1>2, <3>2 DEF Names
      <4> QED  BY <1>6, <2>1, <4>1, <4>2
    <3> QED  BY <3>1, <3>2
  <2>3. Ahead' \cap Plain = todo \cap Plain
    BY <1>2
  <2> QED  BY <1>1, <2>2, <2>3 DEF Counted
<1>10. Buffered'
  BY <1>1 DEF IInv, Buffered
<1> QED  BY <1>7, <1>8, <1>9, <1>10 DEF IInv

\* The value that decmpfs has now is one that it has had.
LEMMA ValueNow ==
  ASSUME IInv, NEW v \in attrs["decmpfs"]
  PROVE  /\ v \in seen["decmpfs"] /\ v \in Contents
         /\ Len(v) \in Nat /\ Len(v) \in Lengths["decmpfs"]
         /\ Had(Len(v))
         /\ \A l \in Nat : l < Len(v) => HadLonger(l)
<1>1. attrs["decmpfs"] = {} \/ \E w \in seen["decmpfs"] : attrs["decmpfs"] = {w}
  BY NotPlain DEF IInv, Stored
<1>2. v \in seen["decmpfs"]
  BY <1>1
<1>3. v \in Contents
  BY <1>2, NotPlain DEF IInv, Stored, Contents
<1>4. Len(v) \in Lengths["decmpfs"]
  BY <1>2, NotPlain DEF IInv, Stored
<1>5. Len(v) \in Nat
  BY <1>3, Cells
<1>6. Had(Len(v)) /\ \A l \in Nat : l < Len(v) => HadLonger(l)
  BY <1>2, <1>5 DEF Had, HadLonger
<1> QED  BY <1>2, <1>3, <1>4, <1>5, <1>6

\* A round of read that has not ended, or has failed.
LEMMA RoundKeeps ==
  ASSUME IInv, UNCHANGED World, UNCHANGED <<room, todo, name, info>>,
         pc \in {"read len", "read value"}, pc' \in {"read len", "read value", "error"},
         len' \in Nat, buf' \in Contents, Sized',
         pc' = "read len" /\ buf' # <<>> => Had(Len(buf')) /\ HadLonger(Len(buf')),
         pc' = "read value" =>
           /\ Had(len') /\ len' <= Len(buf')
           /\ len' < Len(buf') => Had(Len(buf')) /\ HadLonger(Len(buf'))
  PROVE  IInv'
<1>1. Stored' /\ changes' \in 0 .. MaxChanges
  BY WorldKept
<1>2. Typed'
  BY <1>1 DEF IInv, Typed, Contents
<1>3. Counted'
  <2>1. Ahead = todo /\ Ahead' = todo /\ pc' \notin {"list size", "list", "len"} /\ info' = info
    BY DEF Ahead
  <2> QED  BY <2>1 DEF IInv, Counted
<1>4. \A l : (Had(l)' <=> Had(l)) /\ (HadLonger(l)' <=> HadLonger(l))
  BY WorldKept
<1>5. "decmpfs" \notin todo'
  BY DEF IInv, Buffered
<1>6. Buffered'
  <2>1. /\ Had(len)' <=> Had(len')
        /\ Had(Len(buf))' <=> Had(Len(buf'))
        /\ HadLonger(Len(buf))' <=> HadLonger(Len(buf'))
    <3>1. seen'["decmpfs"] = seen["decmpfs"]
      BY WorldKept, NotPlain
    <3> QED  BY <3>1 DEF Had, HadLonger
  <2> QED  BY <1>5, <2>1 DEF Buffered
<1>7. Taken'
  <2>1. seen'["decmpfs"] = seen["decmpfs"] /\ info' = info
    BY WorldKept, NotPlain
  <2> QED  BY <1>4, <2>1 DEF IInv, Taken, WasValue
<1> QED  BY <1>1, <1>2, <1>3, <1>6, <1>7 DEF IInv

\* The round in which read returns.
LEMMA ReportKeeps ==
  ASSUME IInv, UNCHANGED World, UNCHANGED <<room, todo, name, len>>, pc = "read value",
         NEW b \in Contents, Report(b), Len(b) \in Lengths["decmpfs"] \cup {0}, WasValue(b)
  PROVE  IInv'
<1>1. /\ Stored' /\ changes' \in 0 .. MaxChanges
      /\ \A l : (Had(l)' <=> Had(l)) /\ (HadLonger(l)' <=> HadLonger(l))
  BY WorldKept
<1>2. seen'["decmpfs"] = seen["decmpfs"]
  BY WorldKept, NotPlain
<1>3. buf' = b /\ pc' = "next name" /\ info' = [info EXCEPT !.decmpfs = {b}]
  BY DEF Report, Goto
<1>4. info' = [count |-> info.count, total |-> info.total, fork |-> info.fork, decmpfs |-> {b}]
  BY <1>3 DEF IInv, Typed
<1>5. Typed'
  BY <1>1, <1>3, <1>4 DEF IInv, Typed, Contents
<1>6. Sized'
  BY <1>3 DEF IInv, Sized
<1>7. Counted'
  <2>1. Ahead = todo /\ Ahead' = todo /\ info'.count = info.count
    BY <1>3, <1>4 DEF Ahead
  <2> QED  BY <1>3, <2>1 DEF IInv, Counted
<1>8. Buffered'
  BY <1>3 DEF IInv, Buffered
<1>9. Taken'
  BY <1>1, <1>2, <1>4 DEF Taken, WasValue
<1> QED  BY <1>1, <1>5, <1>6, <1>7, <1>8, <1>9 DEF IInv

\* Asking how long decmpfs is.
LEMMA ReadLenKeeps ==
  ASSUME IInv, ReadLen
  PROVE  IInv'
<1>1. /\ UNCHANGED World /\ UNCHANGED <<room, todo, name, info>>
      /\ pc = "read len"
  BY DEF ReadLen
<1>2. len \in Nat /\ buf \in Contents /\ Len(buf) \in Nat
  BY Cells DEF IInv, Typed, Contents
<1>3. CASE attrs["decmpfs"] = {}
  <2>1. pc' = "error" /\ len' = len /\ buf' = buf
    BY <1>3 DEF ReadLen, Goto
  <2>2. Sized'
    BY <2>1 DEF IInv, Sized
  <2> QED  BY <1>1, <1>2, <2>1, <2>2, RoundKeeps
<1>4. CASE attrs["decmpfs"] # {}
  <2>1. PICK v \in attrs["decmpfs"] :
          /\ len' = Len(v) /\ pc' = "read value"
          /\ buf' = IF Len(v) > Len(buf) THEN Resize(buf, Len(v)) ELSE buf
    BY <1>4 DEF ReadLen, Goto
  <2>2. Len(v) \in Nat /\ Len(v) \in Lengths["decmpfs"] /\ Had(Len(v))
    BY ValueNow
  <2>3. CASE Len(v) > Len(buf)
    <3>1. buf' \in Contents /\ Len(buf') = Len(v)
      BY <1>2, <2>1, <2>2, <2>3, Resized
    <3>2. Sized'
      BY <2>1, <2>2, <3>1 DEF Sized
    <3>3. len' <= Len(buf') /\ ~(len' < Len(buf'))
      <4>1. Len(v) \in Nat /\ len' = Len(v) /\ Len(buf') = Len(v)  BY <2>1, <2>2, <3>1
      <4> QED  BY ONLY <4>1
    <3> QED  BY <1>1, <2>1, <2>2, <3>1, <3>2, <3>3, RoundKeeps
  <2>4. CASE ~(Len(v) > Len(buf))
    <3>1. Len(v) \in Nat /\ Len(buf) \in Nat  BY <1>2, <2>2
    <3>2. buf' = buf /\ len' = Len(v) /\ Len(v) <= Len(buf)
      <4>1. Len(v) <= Len(buf)  BY ONLY <2>4, <3>1
      <4> QED  BY <2>1, <2>4, <4>1
    <3>3. Sized'
      BY <2>2, <3>2 DEF IInv, Sized
    <3>4. Len(v) < Len(buf) => buf # <<>>
      BY <2>2, EmptySeq
    <3>5. Len(v) < Len(buf) => Had(Len(buf)) /\ HadLonger(Len(buf))
      BY <1>1, <3>4 DEF IInv, Buffered
    <3> QED  BY <1>1, <1>2, <2>1, <2>2, <3>2, <3>3, <3>5, RoundKeeps
  <2> QED  BY <2>3, <2>4
<1> QED  BY <1>3, <1>4

\* Reading it.
LEMMA ReadValueKeeps ==
  ASSUME IInv, ReadValue
  PROVE  IInv'
<1>1. /\ UNCHANGED World /\ UNCHANGED <<room, todo, name, len>>
      /\ pc = "read value"
  BY DEF ReadValue
<1>2. len \in Nat /\ buf \in Contents /\ Len(buf) \in Nat
  BY Cells DEF IInv, Typed, Contents
<1>3. /\ Had(len) /\ len <= Len(buf) /\ Had(Len(buf))
      /\ len < Len(buf) => HadLonger(Len(buf))
  <2>1. /\ Had(len) /\ len <= Len(buf)
        /\ len < Len(buf) => Had(Len(buf)) /\ HadLonger(Len(buf))
    BY <1>1 DEF IInv, Buffered
  <2>2. len < Len(buf) \/ len = Len(buf)
    BY ONLY <1>2, <2>1
  <2> QED  BY <2>1, <2>2
<1>4. CASE attrs["decmpfs"] = {}
  <2>1. pc' = "error" /\ len' = len /\ buf' = buf /\ info' = info
    BY <1>4 DEF ReadValue, Goto
  <2>2. Sized'
    BY <2>1 DEF IInv, Sized
  <2> QED  BY <1>1, <1>2, <2>1, <2>2, RoundKeeps
<1>5. ASSUME NEW v \in attrs["decmpfs"], Len(buf) # 0, Len(v) > Len(buf),
             pc' = "read len", UNCHANGED <<buf, info>>
      PROVE  IInv'
  <2>1. HadLonger(Len(buf))
    BY <1>2, <1>5, ValueNow
  <2>2. Sized'
    BY <1>1, <1>5 DEF IInv, Sized
  <2> QED  BY <1>1, <1>2, <1>3, <1>5, <2>1, <2>2, RoundKeeps
<1>6. ASSUME NEW v \in attrs["decmpfs"], ~(Len(buf) # 0 /\ Len(v) > Len(buf)),
             len < Len(v), Report(Truncate(Filled(buf, v), Len(v)))
      PROVE  IInv'
  <2>1. v \in Contents /\ Len(v) \in Nat /\ v \in seen["decmpfs"] /\ Len(v) \in Lengths["decmpfs"]
    BY ValueNow
  <2>2. CASE Len(buf) = 0
    <3>1. Truncate(Filled(buf, v), Len(v)) = <<>>
      BY <1>2, <2>1, <2>2, FilledNothing
    <3>2. len = 0
      BY ONLY <1>2, <1>3, <2>2
    <3>3. PICK w \in seen["decmpfs"] : Len(w) = 0
      BY <1>3, <3>2 DEF Had
    <3>4. w \in Seq(0 .. MaxChanges)
      BY NotPlain DEF IInv, Stored
    <3>5. w = <<>>
      BY <3>3, <3>4, EmptySeq
    <3>6. WasValue(<<>>) /\ <<>> \in Contents /\ Len(<<>>) = 0
      BY <3>3, <3>4, <3>5 DEF WasValue, Contents
    <3> QED  BY <1>1, <1>6, <3>1, <3>6, ReportKeeps
  <2>3. CASE Len(buf) # 0
    <3>1. Len(v) <= Len(buf)
      BY <1>2, <1>6, <2>1, <2>3
    <3>2. Truncate(Filled(buf, v), Len(v)) = v
      BY <1>2, <2>1, <3>1, FilledStart
    <3>3. WasValue(v)
      BY <2>1 DEF WasValue
    <3> QED  BY <1>1, <1>6, <2>1, <3>2, <3>3, ReportKeeps
  <2> QED  BY <2>2, <2>3
<1>7. ASSUME NEW v \in attrs["decmpfs"], len = Len(v), Report(Filled(buf, v))
      PROVE  IInv'
  <2>1. v \in Contents /\ Len(v) \in Nat /\ v \in seen["decmpfs"]
    BY ValueNow
  <2>2. /\ Filled(buf, v) \in Contents /\ Len(Filled(buf, v)) = Len(buf)
        /\ IsPrefix(v, Filled(buf, v))
        /\ Len(v) = Len(buf) => Filled(buf, v) = v
    BY <1>2, <1>3, <1>7, <2>1, FilledStart
  <2>3. Len(Filled(buf, v)) \in Lengths["decmpfs"] \cup {0}
    BY <2>2 DEF IInv, Sized
  <2>4. len < Len(buf) \/ len = Len(buf)
    BY ONLY <1>2, <1>3
  <2>5. WasValue(Filled(buf, v))
    <3>1. CASE len = Len(buf)
      BY <1>7, <2>1, <2>2, <3>1 DEF WasValue
    <3>2. CASE len < Len(buf)
      BY <1>2, <1>3, <2>1, <2>2, <3>2 DEF WasValue
    <3> QED  BY <2>4, <3>1, <3>2
  <2> QED  BY <1>1, <1>7, <2>2, <2>3, <2>5, ReportKeeps
<1>8. ASSUME NEW v \in attrs["decmpfs"], ~(len < Len(v)), len # Len(v),
             buf' = Resize(Filled(buf, v), Len(v)), pc' = "read len", info' = info
      PROVE  IInv'
  <2>1. v \in Contents /\ Len(v) \in Nat /\ Had(Len(v)) /\ Len(v) \in Lengths["decmpfs"]
    BY ValueNow
  <2>2. Len(v) < len /\ Len(v) <= Len(buf)
    <3>1. /\ Len(v) \in Nat /\ len \in Nat /\ Len(buf) \in Nat
          /\ ~(len < Len(v)) /\ len # Len(v) /\ len <= Len(buf)
      BY <1>2, <1>3, <1>8, <2>1
    <3> QED  BY ONLY <3>1
  <2>3. Filled(buf, v) \in Contents
    BY <1>2, <2>1, <2>2, FilledStart
  <2>4. buf' \in Contents /\ Len(buf') = Len(v)
    BY <1>8, <2>1, <2>3, Resized
  <2>5. HadLonger(Len(v))
    BY <1>3, <2>2 DEF Had, HadLonger
  <2>6. Sized'
    BY <1>1, <2>1, <2>4 DEF IInv, Sized
  <2> QED  BY <1>1, <1>2, <1>8, <2>1, <2>4, <2>5, <2>6, RoundKeeps
<1> QED
  BY <1>4, <1>5, <1>6, <1>7, <1>8 DEF ReadValue, Goto

\* A call that fails.
LEMMA FailKeeps ==
  ASSUME IInv, Fail
  PROVE  IInv'
<1>1. /\ UNCHANGED World /\ UNCHANGED <<room, todo, name, len, buf, info>>
      /\ pc \in {"list size", "list", "len", "read len", "read value"} /\ pc' = "error"
  BY DEF Fail, Goto
<1>2. Stored' /\ Sized' /\ Taken' /\ changes' \in 0 .. MaxChanges
  BY <1>1, NoValueRead, WorldKept
<1>3. Typed'
  BY <1>1, <1>2 DEF IInv, Typed
<1>4. Counted'
  <2>1. /\ todo \in SUBSET Names /\ Ahead \in SUBSET Names /\ todo \subseteq Ahead
        /\ info.count \in Nat
        /\ info.count + Cardinality(Ahead \cap Plain) <= Cardinality(Plain)
    BY DEF IInv, Typed, Counted, Ahead
  <2>2. /\ Cardinality(todo \cap Plain) \in Nat /\ Cardinality(Ahead \cap Plain) \in Nat
        /\ Cardinality(Plain) \in Nat
    BY <2>1, NamesFinite
  <2>3. Cardinality(todo \cap Plain) <= Cardinality(Ahead \cap Plain)
    <3>1. IsFiniteSet(Ahead \cap Plain)  BY <2>1, NamesFinite
    <3>2. todo \cap Plain \in SUBSET (Ahead \cap Plain)  BY <2>1
    <3> QED  BY <3>1, <3>2, FS_Subset
  <2>4. info.count + Cardinality(todo \cap Plain) <= Cardinality(Plain)
    BY ONLY <2>1, <2>2, <2>3
  <2>5. Ahead' = todo
    BY <1>1 DEF Ahead
  <2> QED  BY <1>1, <2>4, <2>5 DEF Counted
<1>5. Buffered'
  BY <1>1 DEF IInv, Buffered
<1> QED  BY <1>2, <1>3, <1>4, <1>5 DEF IInv

\* Every reachable state satisfies the invariant.
LEMMA Invariant == Spec => []IInv
<1>1. ASSUME IInv, [Next]_vars PROVE IInv'
  <2>1. CASE UNCHANGED vars
    <3>1. UNCHANGED World /\ UNCHANGED <<pc, room, todo, name, len, buf, info>>
      BY <2>1 DEF vars, World
    <3>2. Stored' /\ Sized' /\ Taken' /\ changes' \in 0 .. MaxChanges
      BY <1>1, <3>1, NoValueRead, WorldKept
    <3>3. Typed' /\ Counted'
      BY <1>1, <3>1, <3>2 DEF IInv, Typed, Counted, Ahead
    <3>4. Buffered'
      BY <1>1, <3>1, WorldKept DEF IInv, Buffered, Had, HadLonger, World
    <3> QED  BY <3>2, <3>3, <3>4 DEF IInv
  <2> QED
    BY <1>1, <2>1, OthersKeep, NamesKeep, LengthKeeps, ReadLenKeeps, ReadValueKeeps,
           FailKeeps
       DEF Next, Get, Terminated
<1> QED  BY InitIInv, <1>1, PTL DEF Spec

-----------------------------------------------------------------------------
(* What follows from it. *)

\* TypeOK, for every set of attributes and every length of their values.
THEOREM TypeCorrect == Spec => []TypeOK
<1>1. ASSUME IInv PROVE TypeOK
  <2>1. attrs \in [Names -> SUBSET Seq(Nat)]
    <3>1. \A v \in Seq(0 .. MaxChanges) : v \in Seq(Nat)
      BY Bounds, SeqMonotonic
    <3> QED  BY <1>1, <3>1 DEF IInv, Stored
  <2>2. ASSUME NEW n \in Names PROVE Cardinality(attrs[n]) <= 1
    <3>1. CASE attrs[n] = {}  BY <3>1, FS_EmptySet
    <3>2. ASSUME NEW v, attrs[n] = {v} PROVE Cardinality(attrs[n]) <= 1  BY <3>2, FS_Singleton
    <3> QED  BY <1>1, <3>1, <3>2 DEF IInv, Stored
  <2>3. info.count \in 0 .. Cardinality(Plain)
    <3>1. Ahead \in SUBSET Names /\ info.count \in Nat
      BY <1>1 DEF IInv, Typed, Ahead
    <3>2. Cardinality(Ahead \cap Plain) \in Nat /\ Cardinality(Plain) \in Nat
      BY <3>1, NamesFinite
    <3>3. info.count + Cardinality(Ahead \cap Plain) <= Cardinality(Plain)
      BY <1>1 DEF IInv, Counted
    <3> QED  BY ONLY <3>1, <3>2, <3>3
  <2> QED  BY <1>1, <2>1, <2>2, <2>3 DEF IInv, Typed, Sized, TypeOK
<1> QED  BY Invariant, <1>1, PTL

\* What read returns is a value the attribute had; only of one that had three different
\* values during the call may it return more than that.
THEOREM ReadIsNotTorn == Spec => []NoTornValue
<1>1. ASSUME IInv PROVE NoTornValue
  <2> SUFFICES ASSUME NEW b \in info.decmpfs, b \notin seen["decmpfs"]
               PROVE  /\ ~(Cardinality(seen["decmpfs"]) <= 2)
                      /\ \E v \in seen["decmpfs"] : IsPrefix(v, b)
    <3>1. \A b \in info.decmpfs : b \in seen["decmpfs"] => \E v \in seen["decmpfs"] : IsPrefix(v, b)
      <4>1. \A b \in seen["decmpfs"] : SubSeq(b, 1, Len(b)) = b /\ Len(b) \in Nat
        BY <1>1, NotPlain, SubSeqFull, LenProperties DEF IInv, Stored
      <4>2. \A b \in seen["decmpfs"] : IsPrefix(b, b)
        BY <4>1 DEF IsPrefix
      <4> QED  BY <4>2
    <3> QED  BY <3>1 DEF NoTornValue
  <2>1. /\ \E v \in seen["decmpfs"] : IsPrefix(v, b)
        /\ \E l, m \in Nat : l < m /\ Had(l) /\ Had(m) /\ HadLonger(m)
    BY <1>1 DEF IInv, Taken, WasValue
  <2>2. PICK l \in Nat, m \in Nat, u \in seen["decmpfs"], v \in seen["decmpfs"],
             w \in seen["decmpfs"] :
               l < m /\ Len(u) = l /\ Len(v) = m /\ Len(w) > m
    BY <2>1 DEF Had, HadLonger
  <2>3. Len(w) \in Nat
    BY <1>1, NotPlain, LenProperties DEF IInv, Stored
  <2>4. u # v /\ u # w /\ v # w
    BY <2>2, <2>3
  <2>5. Cardinality({u, v, w}) = 3
    <3>1. IsFiniteSet({u}) /\ Cardinality({u}) = 1  BY FS_Singleton
    <3>2. IsFiniteSet({u} \cup {v}) /\ Cardinality({u} \cup {v}) = 2
      <4>1. v \notin {u}  BY <2>4
      <4>2. Cardinality({u} \cup {v}) = Cardinality({u}) + 1
        BY <3>1, <4>1, FS_AddElement
      <4> QED  BY <3>1, <4>2, FS_AddElement
    <3>3. Cardinality(({u} \cup {v}) \cup {w}) = 3
      <4>1. w \notin {u} \cup {v}  BY <2>4
      <4>2. Cardinality(({u} \cup {v}) \cup {w}) = Cardinality({u} \cup {v}) + 1
        BY <3>2, <4>1, FS_AddElement
      <4> QED  BY <3>2, <4>2
    <3>4. ({u} \cup {v}) \cup {w} = {u, v, w}
      OBVIOUS
    <3> QED  BY <3>3, <3>4
  <2>6. IsFiniteSet(seen["decmpfs"])
    BY <1>1, NotPlain DEF IInv, Stored
  <2>7. Cardinality({u, v, w}) <= Cardinality(seen["decmpfs"])
    BY <2>6, FS_Subset
  <2>8. Cardinality(seen["decmpfs"]) \in Nat
    BY <2>6, FS_CardinalityType
  <2>9. ~(Cardinality(seen["decmpfs"]) <= 2)
    BY ONLY <2>5, <2>7, <2>8
  <2> QED  BY <2>1, <2>9
<1> QED  BY Invariant, <1>1, PTL

-----------------------------------------------------------------------------
(* Totals: what FoldSet computes.  Induction over the size of a set takes  *)
(* the form of a smallest set for which a claim fails.                     *)

\* Every set of naturals has a least element.
LEMMA LeastNat ==
  ASSUME NEW T, T \subseteq Nat, T # {}
  PROVE  \E n \in T : \A m \in T : n <= m
<1>1. PICK n \in T : \A m \in T : ~ (<<m, n>> \in OpToRel(<, Nat))
  BY NatLessThanWellFounded, WFMin
<1>2. \A m \in T : ~(m < n)
  BY <1>1 DEF OpToRel
<1> QED BY <1>2

\* Among finite sets there is a smallest.
LEMMA SmallestSet ==
  ASSUME NEW C, C # {}, \A T \in C : IsFiniteSet(T)
  PROVE  \E T \in C : \A U \in C : Cardinality(T) <= Cardinality(U)
<1> DEFINE N == {Cardinality(T) : T \in C}
<1>1. N \subseteq Nat /\ N # {}
  BY FS_CardinalityType
<1> HIDE DEF N
<1>2. PICK n \in N : \A m \in N : n <= m
  BY <1>1, LeastNat
<1> QED BY <1>2 DEF N

Pick(T) == CHOOSE x \in T : TRUE

\* A set without the element that is picked is smaller.
LEMMA PickIs ==
  ASSUME NEW T, IsFiniteSet(T), T # {}
  PROVE  /\ Pick(T) \in T
         /\ IsFiniteSet(T \ {Pick(T)})
         /\ Cardinality(T \ {Pick(T)}) = Cardinality(T) - 1
         /\ Cardinality(T) \in Nat /\ Cardinality(T) > 0
<1>1. Pick(T) \in T
  BY DEF Pick
<1>2. /\ IsFiniteSet(T \ {Pick(T)})
      /\ Cardinality(T \ {Pick(T)}) = Cardinality(T) - 1
  BY <1>1, FS_RemoveElement
<1>3. Cardinality(T) \in Nat /\ Cardinality(T) # 0
  BY FS_CardinalityType, FS_EmptySet
<1> QED BY <1>1, <1>2, <1>3

\* Values have lengths.
Measured(f, S) == \A n \in S : Len(f[n]) \in Nat

\* The sums of the lengths of f's values over the subsets of S, up to a size.
SumsUpTo(g, f, S, m) ==
  /\ g \in [SUBSET S -> Nat] /\ g[{}] = 0
  /\ \A T \in SUBSET S : T # {} /\ Cardinality(T) <= m =>
       g[T] = g[T \ {Pick(T)}] + Len(f[Pick(T)])

HasSumsUpTo(f, S, m) == \E g : SumsUpTo(g, f, S, m)

AreSums(g, f, S) ==
  /\ g \in [SUBSET S -> Nat] /\ g[{}] = 0
  /\ \A T \in SUBSET S : T # {} => g[T] = g[T \ {Pick(T)}] + Len(f[Pick(T)])

\* There are such sums.
LEMMA SumsExist ==
  ASSUME NEW S, IsFiniteSet(S), NEW f, Measured(f, S)
  PROVE  \E g : AreSums(g, f, S)
<1> DEFINE N == {m \in Nat : ~HasSumsUpTo(f, S, m)}
<1>1. N = {}
  <2> SUFFICES ASSUME N # {} PROVE FALSE
    OBVIOUS
  <2>1. PICK m \in N : \A k \in N : m <= k
    <3>1. N \subseteq Nat
      OBVIOUS
    <3> HIDE DEF N
    <3> QED BY <3>1, LeastNat
  <2>2. m \in Nat
    BY <2>1
  <2>3. \A T \in SUBSET S : IsFiniteSet(T) /\ Cardinality(T) \in Nat
    BY FS_Subset, FS_CardinalityType
  <2>4. CASE m = 0
    <3> DEFINE g == [T \in SUBSET S |-> 0]
    <3>1. ASSUME NEW T \in SUBSET S, T # {} PROVE ~(Cardinality(T) <= m)
      <4>1. Cardinality(T) \in Nat /\ Cardinality(T) > 0
        BY <2>3, <3>1, PickIs
      <4> QED BY ONLY <2>4, <4>1
    <3>2. SumsUpTo(g, f, S, m)
      BY <3>1 DEF SumsUpTo
    <3> QED BY <2>1, <3>2 DEF HasSumsUpTo
  <2>5. CASE m # 0
    <3>1. m - 1 \in Nat /\ ~(m <= m - 1)
      BY <2>2, <2>5
    <3>2. PICK g : SumsUpTo(g, f, S, m - 1)
      BY <2>1, <3>1 DEF HasSumsUpTo
    <3> DEFINE next == [T \in SUBSET S |->
                          IF T # {} /\ Cardinality(T) = m
                            THEN g[T \ {Pick(T)}] + Len(f[Pick(T)]) ELSE g[T]]
    <3>3. ASSUME NEW T \in SUBSET S, T # {}
          PROVE  /\ T \ {Pick(T)} \in SUBSET S
                 /\ Cardinality(T \ {Pick(T)}) = Cardinality(T) - 1
                 /\ g[T \ {Pick(T)}] + Len(f[Pick(T)]) \in Nat
      <4>1. Pick(T) \in T /\ Cardinality(T \ {Pick(T)}) = Cardinality(T) - 1
        BY <2>3, <3>3, PickIs
      <4>2. T \ {Pick(T)} \in SUBSET S
        OBVIOUS
      <4>3. g[T \ {Pick(T)}] \in Nat /\ Len(f[Pick(T)]) \in Nat
        BY <3>2, <4>1, <4>2 DEF SumsUpTo, Measured
      <4> QED BY <4>1, <4>2, <4>3
    <3>4. next \in [SUBSET S -> Nat] /\ next[{}] = 0
      <4>1. \A T \in SUBSET S : g[T] \in Nat
        BY <3>2 DEF SumsUpTo
      <4>2. next \in [SUBSET S -> Nat]
        BY <3>3, <4>1
      <4>3. next[{}] = g[{}]
        OBVIOUS
      <4> QED BY <3>2, <4>2, <4>3 DEF SumsUpTo
    <3>5. ASSUME NEW T \in SUBSET S, T # {}, Cardinality(T) <= m
          PROVE  next[T] = next[T \ {Pick(T)}] + Len(f[Pick(T)])
      <4> DEFINE U == T \ {Pick(T)}
      <4>1. U \in SUBSET S /\ Cardinality(U) = Cardinality(T) - 1 /\ Cardinality(T) \in Nat
        BY <2>3, <3>3, <3>5
      <4> HIDE DEF U
      <4>2. Cardinality(U) # m
        BY ONLY <2>2, <3>5, <4>1
      <4>3. next[U] = g[U]
        BY <4>1, <4>2
      <4>4. CASE Cardinality(T) = m
        BY <3>5, <4>3, <4>4 DEF U
      <4>5. CASE Cardinality(T) # m
        <5>1. Cardinality(T) <= m - 1
          BY ONLY <2>2, <3>5, <4>1, <4>5
        <5>2. g[T] = g[U] + Len(f[Pick(T)])
          BY <3>2, <3>5, <5>1 DEF SumsUpTo, U
        <5> QED BY <4>3, <4>5, <5>2 DEF U
      <4> QED BY <4>4, <4>5
    <3> HIDE DEF next
    <3>6. SumsUpTo(next, f, S, m)
      BY <3>4, <3>5 DEF SumsUpTo
    <3> QED BY <2>1, <3>6 DEF HasSumsUpTo
  <2> QED BY <2>4, <2>5
<1>2. Cardinality(S) \in Nat /\ \A T \in SUBSET S : Cardinality(T) <= Cardinality(S)
  BY FS_Subset, FS_CardinalityType
<1>3. PICK g : SumsUpTo(g, f, S, Cardinality(S))
  BY <1>1, <1>2 DEF HasSumsUpTo
<1> QED BY <1>2, <1>3 DEF SumsUpTo, AreSums

\* Over an element of any set, the order in which it is picked makes no difference.
LEMMA AnyOrder ==
  ASSUME NEW S, IsFiniteSet(S), NEW f, Measured(f, S), NEW g, AreSums(g, f, S),
         NEW T \in SUBSET S, NEW x \in T
  PROVE  g[T] = g[T \ {x}] + Len(f[x])
<1> DEFINE Fails(U) == \E y \in U : g[U] # g[U \ {y}] + Len(f[y])
           C == {U \in SUBSET S : Fails(U)}
<1> SUFFICES ASSUME C # {} PROVE FALSE
  OBVIOUS
<1>1. \A U \in SUBSET S : IsFiniteSet(U) /\ Cardinality(U) \in Nat
  BY FS_Subset, FS_CardinalityType
<1>2. PICK U \in C : \A V \in C : Cardinality(U) <= Cardinality(V)
  <2>1. \A V \in C : IsFiniteSet(V)
    BY <1>1
  <2> HIDE DEF C
  <2> QED BY <2>1, SmallestSet
<1>3. PICK y \in U : g[U] # g[U \ {y}] + Len(f[y])
  BY <1>2
<1> DEFINE z == Pick(U)
<1>4. U \in SUBSET S /\ U # {}
  BY <1>2, <1>3
<1>5. z \in U /\ Cardinality(U \ {z}) = Cardinality(U) - 1 /\ g[U] = g[U \ {z}] + Len(f[z])
  BY <1>1, <1>4, PickIs DEF AreSums
<1> HIDE DEF z
<1>6. y # z
  BY <1>3, <1>5
<1> DEFINE V == U \ {z}
           W == U \ {y}
<1>7. /\ V \in SUBSET S /\ y \in V /\ W \in SUBSET S /\ z \in W
      /\ Cardinality(V) < Cardinality(U) /\ Cardinality(W) < Cardinality(U)
      /\ V \ {y} = W \ {z}
  <2>1. Cardinality(W) = Cardinality(U) - 1
    BY <1>1, <1>3, <1>4, FS_RemoveElement
  <2> QED BY <1>1, <1>3, <1>4, <1>5, <1>6, <2>1
<1>8. ~Fails(V) /\ ~Fails(W)
  <2>1. Cardinality(V) \in Nat /\ Cardinality(W) \in Nat /\ Cardinality(U) \in Nat
    BY <1>1, <1>4, <1>7
  <2>2. ~(Cardinality(U) <= Cardinality(V)) /\ ~(Cardinality(U) <= Cardinality(W))
    BY ONLY <1>7, <2>1
  <2> HIDE DEF Fails, V, W
  <2> QED BY <1>2, <1>7, <2>2
<1>9. g[V] = g[V \ {y}] + Len(f[y]) /\ g[W] = g[W \ {z}] + Len(f[z])
  BY <1>7, <1>8
<1>10. g[U] = g[V] + Len(f[z])
  BY <1>5
<1> HIDE DEF V, W
<1>11. g[V \ {y}] \in Nat /\ g[W] \in Nat /\ Len(f[y]) \in Nat /\ Len(f[z]) \in Nat
  BY <1>3, <1>4, <1>5, <1>7 DEF AreSums, Measured
<1>12. g[U] = g[W] + Len(f[y])
  <2>1. g[V \ {y}] = g[W \ {z}]
    BY <1>7
  <2> QED BY ONLY <1>9, <1>10, <1>11, <2>1
<1> QED BY <1>3, <1>12 DEF W

\* The sums depend only on the values.
LEMMA SameSums ==
  ASSUME NEW S, NEW R, S \subseteq R, IsFiniteSet(R), NEW f, NEW e, \A n \in S : f[n] = e[n],
         NEW g, AreSums(g, f, S), NEW h, AreSums(h, e, R)
  PROVE  g[S] = h[S]
<1> DEFINE C == {T \in SUBSET S : g[T] # h[T]}
<1> SUFFICES ASSUME C # {} PROVE FALSE
  OBVIOUS
<1>1. \A T \in SUBSET S : IsFiniteSet(T) /\ Cardinality(T) \in Nat /\ T \in SUBSET R
  BY FS_Subset, FS_CardinalityType
<1>2. PICK T \in C : \A U \in C : Cardinality(T) <= Cardinality(U)
  <2>1. \A U \in C : IsFiniteSet(U)
    BY <1>1
  <2> HIDE DEF C
  <2> QED BY <2>1, SmallestSet
<1>3. T # {}
  BY <1>2 DEF AreSums
<1> DEFINE U == T \ {Pick(T)}
<1>4. Pick(T) \in T /\ Cardinality(U) = Cardinality(T) - 1 /\ Cardinality(T) \in Nat
  BY <1>1, <1>2, <1>3, PickIs
<1>5. U \in SUBSET S /\ Pick(T) \in S
  BY <1>2, <1>4
<1>6. g[U] = h[U]
  <2>1. ~(Cardinality(T) <= Cardinality(U))
    BY <1>4
  <2> HIDE DEF U
  <2> QED BY <1>2, <1>5, <2>1
<1>7. g[T] = g[U] + Len(f[Pick(T)]) /\ h[T] = h[U] + Len(e[Pick(T)])
  BY <1>1, <1>2, <1>3 DEF AreSums
<1> QED BY <1>2, <1>5, <1>6, <1>7

\* The total length of f's values.
Total(f, S) == FoldSet(LAMBDA n, sum : sum + Len(f[n]), 0, S)

\* It is the sum over all of S.
LEMMA TotalIs ==
  ASSUME NEW S, IsFiniteSet(S), NEW f, Measured(f, S)
  PROVE  \E g : AreSums(g, f, S) /\ Total(f, S) = g[S]
<1> DEFINE F(g) == [T \in SUBSET S |->
                      IF T = {} THEN 0 ELSE g[T \ {Pick(T)}] + Len(f[Pick(T)])]
           iter == CHOOSE g : g = F(g)
<1>1. PICK g : AreSums(g, f, S)
  BY SumsExist
<1>2. g = F(g)
  <2>1. DOMAIN g = SUBSET S /\ g = [T \in SUBSET S |-> g[T]]
    BY <1>1 DEF AreSums
  <2>2. \A T \in SUBSET S : g[T] = F(g)[T]
    BY <1>1 DEF AreSums
  <2> QED BY <2>1, <2>2
<1>3. iter = F(iter)
  <2> HIDE DEF F
  <2> QED BY <1>2
<1>4. Total(f, S) = iter[S]
  BY DEF Total, FoldSet, MapThenFoldSet, Pick
<1> HIDE DEF iter
<1>5. AreSums(iter, f, S)
  <2>1. \A T \in SUBSET S :
          iter[T] = IF T = {} THEN 0 ELSE iter[T \ {Pick(T)}] + Len(f[Pick(T)])
    BY <1>3
  <2> DEFINE C == {T \in SUBSET S : iter[T] # g[T]}
  <2>2. C = {}
    <3> SUFFICES ASSUME C # {} PROVE FALSE
      OBVIOUS
    <3>1. \A T \in SUBSET S : IsFiniteSet(T) /\ Cardinality(T) \in Nat
      BY FS_Subset, FS_CardinalityType
    <3>2. PICK T \in C : \A U \in C : Cardinality(T) <= Cardinality(U)
      <4>1. \A U \in C : IsFiniteSet(U)
        BY <3>1
      <4> HIDE DEF C
      <4> QED BY <4>1, SmallestSet
    <3>3. T # {}
      BY <1>1, <2>1, <3>2 DEF AreSums
    <3> DEFINE U == T \ {Pick(T)}
    <3>4. Cardinality(U) = Cardinality(T) - 1 /\ Cardinality(T) \in Nat /\ U \in SUBSET S
      BY <3>1, <3>2, <3>3, PickIs
    <3>5. iter[U] = g[U]
      <4>1. ~(Cardinality(T) <= Cardinality(U))
        BY <3>4
      <4> HIDE DEF U
      <4> QED BY <3>2, <3>4, <4>1
    <3>6. iter[T] = iter[U] + Len(f[Pick(T)]) /\ g[T] = g[U] + Len(f[Pick(T)])
      BY <1>1, <2>1, <3>2, <3>3 DEF AreSums
    <3> QED BY <3>2, <3>5, <3>6
  <2>3. iter = g
    <3>1. g = [T \in SUBSET S |-> g[T]]
      BY <1>1 DEF AreSums
    <3>2. iter = [T \in SUBSET S |-> iter[T]]
      BY <1>3
    <3>3. \A T \in SUBSET S : iter[T] = g[T]
      BY <2>2
    <3> HIDE DEF C
    <3> QED BY <3>1, <3>2, <3>3
  <2> QED BY <1>1, <2>3
<1> QED BY <1>4, <1>5

\* Nothing has no length.
LEMMA TotalOfNone ==
  ASSUME NEW f
  PROVE  Total(f, {}) = 0
<1>1. IsFiniteSet({}) /\ Measured(f, {})
  BY FS_EmptySet DEF Measured
<1> QED BY <1>1, TotalIs DEF AreSums

\* A further value adds its length.
LEMMA TotalGrows ==
  ASSUME NEW S, IsFiniteSet(S), NEW x, x \notin S, NEW f, NEW e,
         Measured(f, S), \A n \in S : f[n] = e[n], Len(e[x]) \in Nat
  PROVE  Total(e, S \cup {x}) = Total(f, S) + Len(e[x])
<1> DEFINE R == S \cup {x}
<1>1. IsFiniteSet(R) /\ Measured(e, R)
  BY FS_AddElement DEF Measured
<1>2. PICK g : AreSums(g, f, S) /\ Total(f, S) = g[S]
  BY TotalIs
<1>3. PICK h : AreSums(h, e, R) /\ Total(e, R) = h[R]
  BY <1>1, TotalIs
<1>4. R \in SUBSET R /\ x \in R /\ R \ {x} = S /\ S \subseteq R
  OBVIOUS
<1> HIDE DEF R
<1>5. h[R] = h[R \ {x}] + Len(e[x])
  BY ONLY <1>1, <1>3, <1>4, AnyOrder
<1>6. g[S] = h[S]
  BY <1>1, <1>2, <1>3, <1>4, SameSums
<1> QED BY <1>2, <1>3, <1>4, <1>5, <1>6 DEF R

-----------------------------------------------------------------------------
(* The attributes of one moment. *)

\* A value that each attribute of T had, and the sum t of their lengths.
SumOf(T, t, had) ==
  \E f \in [T -> UNION {had[n] : n \in T}] : (\A n \in T : f[n] \in had[n]) /\ t = Total(f, T)

\* What a report says when it has looked at the attributes of D.
Accounts(r, D, had) ==
  /\ r.count = Cardinality(D \cap Plain)
  /\ SumOf(D \cap Plain, r.total, had)
  /\ r.fork # {} <=> "resource fork" \in D
  /\ r.decmpfs # {} <=> "decmpfs" \in D

Reading == pc \in {"read len", "read value"}

\* Names that are listed and not looked at.
Rest == IF pc = "len" \/ Reading THEN todo \cup {name} ELSE todo

Covers(S) == Rest \subseteq S /\ Accounts(info, S \ Rest, seen)

\* The names listed, of one moment, are those the report accounts for and those to come.
Moment ==
  /\ Present \in listed
  /\ info.fork \subseteq {Len(v) : v \in seen["resource fork"]}
  /\ pc \in {"list size", "list"} =>
       todo = {} /\ info = [count |-> 0, total |-> 0, fork |-> {}, decmpfs |-> {}]
  /\ pc \notin {"list size", "list", "error"} => \E S \in listed \cup {{}} : Covers(S)
  /\ Reading => name = "decmpfs"
  /\ pc = "ok" => todo = {}

\* A sum stays one as attributes have further values.
LEMMA SumKept ==
  ASSUME NEW T, NEW t, NEW had, NEW has, \A n \in T : had[n] \subseteq has[n], SumOf(T, t, had)
  PROVE  SumOf(T, t, has)
<1>1. PICK f \in [T -> UNION {had[n] : n \in T}] :
             (\A n \in T : f[n] \in had[n]) /\ t = Total(f, T)
  BY DEF SumOf
<1>2. f \in [T -> UNION {has[n] : n \in T}] /\ \A n \in T : f[n] \in has[n]
  BY <1>1
<1> QED BY <1>1, <1>2 DEF SumOf

\* Of no attributes the sum is nothing.
LEMMA SumOfNone ==
  ASSUME NEW had
  PROVE  SumOf({}, 0, had)
<1> DEFINE f == [n \in {} |-> n]
<1>1. f \in [{} -> UNION {had[n] : n \in {}}] /\ \A n \in {} : f[n] \in had[n]
  OBVIOUS
<1> HIDE DEF f
<1>2. Total(f, {}) = 0
  BY TotalOfNone
<1> QED BY <1>1, <1>2 DEF SumOf

\* A further attribute adds the length of a value it had.
LEMMA SumAdds ==
  ASSUME IInv, NEW T \in SUBSET Plain, NEW t, SumOf(T, t, seen),
         NEW x \in Plain, x \notin T, NEW v \in seen[x]
  PROVE  SumOf(T \cup {x}, t + Len(v), seen)
<1>1. PICK f \in [T -> UNION {seen[n] : n \in T}] :
             (\A n \in T : f[n] \in seen[n]) /\ t = Total(f, T)
  BY DEF SumOf
<1> DEFINE R == T \cup {x}
           e == [n \in R |-> IF n = x THEN v ELSE f[n]]
<1>2. e \in [R -> UNION {seen[n] : n \in R}] /\ \A n \in R : e[n] \in seen[n]
  BY <1>1
<1>3. (\A n \in T : f[n] = e[n]) /\ e[x] = v
  OBVIOUS
<1>4. \A n \in Plain : \A u \in seen[n] : Len(u) \in Nat
  BY LengthsAreNumbers DEF IInv, Stored, Names
<1>5. IsFiniteSet(T) /\ Measured(f, T) /\ Len(v) \in Nat
  <2>1. IsFiniteSet(T)
    BY NamesFinite, FS_Subset
  <2> QED BY <1>1, <1>4, <2>1 DEF Measured
<1> HIDE DEF e
<1>6. Total(e, R) = Total(f, T) + Len(v)
  <2>1. Len(e[x]) \in Nat
    BY <1>3, <1>5
  <2>2. Total(e, T \cup {x}) = Total(f, T) + Len(e[x])
    BY ONLY x \notin T, <1>3, <1>5, <2>1, TotalGrows
  <2> QED BY <1>3, <2>2
<1> QED BY <1>1, <1>2, <1>6 DEF SumOf

\* So do accounts.
LEMMA AccountsKept ==
  ASSUME NEW r, NEW D, NEW had, NEW has, \A n \in Names : had[n] \subseteq has[n],
         Accounts(r, D, had)
  PROVE  Accounts(r, D, has)
<1>1. \A n \in D \cap Plain : had[n] \subseteq has[n]
  BY DEF Names
<1> QED BY <1>1, SumKept DEF Accounts

\* When the report begins, it accounts for nothing.
LEMMA InitMoment ==
  ASSUME Init
  PROVE  Moment
BY DEF Init, Moment, Reading

\* Other programs add moments, and values.
LEMMA OthersKeepMoment ==
  ASSUME IInv, Moment, Others
  PROVE  Moment'
<1>1. \E n \in Names : \E value : Put(n, value)
  BY DEF Others, OthersSet, OthersRemove
<1>2. /\ listed' = listed \cup {Present'} /\ pc' = pc /\ todo' = todo /\ name' = name
      /\ info' = info
  BY <1>1 DEF Put, report, Present
<1>3. \A m \in Names : seen[m] \subseteq seen'[m]
  BY OthersKeep
<1>4. {Len(v) : v \in seen["resource fork"]} \subseteq {Len(v) : v \in seen'["resource fork"]}
  BY <1>3, NotPlain
<1>5. ASSUME NEW S \in listed \cup {{}}, Covers(S)
      PROVE  S \in listed' \cup {{}} /\ Covers(S)'
  <2>1. Rest' = Rest
    BY <1>2 DEF Rest, Reading
  <2>2. Accounts(info, S \ Rest, seen')
    BY <1>3, <1>5, AccountsKept DEF Covers
  <2> QED BY <1>2, <1>5, <2>1, <2>2 DEF Covers
<1>6. pc \notin {"list size", "list", "error"} => \E S \in listed' \cup {{}} : Covers(S)'
  BY <1>5 DEF Moment
<1> QED BY <1>2, <1>4, <1>6 DEF Moment, Reading

\* What a call leaves alone, and what then remains of the invariant.
LEMMA WorldOfMoment ==
  ASSUME IInv, Moment, UNCHANGED World
  PROVE  /\ Present' = Present /\ listed' = listed /\ seen' = seen
         /\ Present' \in listed'
         /\ info'.fork = info.fork => info'.fork \subseteq {Len(v) : v \in seen'["resource fork"]}
BY DEF World, Moment, Present

\* A step on the way from one name to the next.
LEMMA OnTheWay ==
  ASSUME IInv, Moment, UNCHANGED World, info' = info, Rest' = Rest,
         pc \notin {"list size", "list", "error"}, pc' \notin {"list size", "list"},
         Reading' => name' = "decmpfs", pc' = "ok" => todo' = {}
  PROVE  Moment'
<1>1. \A S : Covers(S)' <=> Covers(S)
  BY DEF Covers, World
<1> QED BY <1>1, WorldOfMoment DEF Moment

\* A call that fails.
LEMMA FailedMoment ==
  ASSUME IInv, Moment, UNCHANGED World, info' = info, pc' = "error"
  PROVE  Moment'
BY WorldOfMoment DEF Moment, Reading

\* A list of names is one of a moment; nothing of it has been looked at.
LEMMA ListKeepsMoment ==
  ASSUME IInv, Moment, ListSize \/ NoNames \/ List
  PROVE  Moment'
<1>1. /\ UNCHANGED World /\ info' = info
      /\ pc \in {"list size", "list"} /\ pc' \in {"list size", "list", "next name"}
  BY DEF ListSize, NoNames, List, Goto
<1>2. todo = {} /\ info = [count |-> 0, total |-> 0, fork |-> {}, decmpfs |-> {}]
  BY <1>1 DEF Moment
<1>3. CASE pc' \in {"list size", "list"}
  <2>1. todo' = {}
    BY <1>2, <1>3 DEF ListSize, NoNames, List, Goto
  <2> QED BY <1>1, <1>2, <1>3, <2>1, WorldOfMoment DEF Moment, Reading
<1>4. CASE pc' = "next name"
  <2>1. todo' \in listed' \cup {{}}
    <3>1. todo' \in {Present, {}}
      BY <1>4 DEF ListSize, NoNames, List, Goto
    <3> QED BY <1>1, <3>1, WorldOfMoment
  <2>2. Accounts(info', {}, seen')
    <3>1. Cardinality({} \cap Plain) = 0 /\ {} \cap Plain = {}
      BY FS_EmptySet
    <3>2. SumOf({}, 0, seen')
      BY SumOfNone
    <3> QED BY <1>1, <1>2, <3>1, <3>2 DEF Accounts
  <2>3. Rest' = todo' /\ todo' \ Rest' = {}
    BY <1>4 DEF Rest, Reading
  <2>4. Rest' \subseteq todo' /\ Accounts(info', todo' \ Rest', seen')
    BY <2>2, <2>3
  <2> QED BY <1>1, <1>4, <2>1, <2>4, WorldOfMoment DEF Moment, Reading, Covers
<1> QED BY <1>1, <1>3, <1>4

\* Taking the next name.
LEMMA NextKeepsMoment ==
  ASSUME IInv, Moment, NextName
  PROVE  Moment'
<1>1. UNCHANGED World /\ info' = info /\ pc = "next name" /\ Rest = todo
  BY DEF NextName, Rest, Reading
<1>2. CASE todo = {}
  <2>1. pc' = "ok" /\ todo' = {} /\ Rest' = todo
    BY <1>2 DEF NextName, Goto, Rest, Reading
  <2> QED BY <1>1, <2>1, OnTheWay DEF Reading
<1>3. CASE todo # {}
  <2>1. PICK n \in todo : /\ name' = n /\ todo' = todo \ {n}
                          /\ pc' = IF n = "decmpfs" THEN "read len" ELSE "len"
    BY <1>3 DEF NextName, Goto
  <2>2. Rest' = todo
    BY <2>1 DEF Rest, Reading
  <2>3. Reading' => name' = "decmpfs"
    BY <2>1 DEF Reading
  <2>4. pc' \notin {"list size", "list", "ok"}
    BY <2>1
  <2> QED BY <1>1, <2>2, <2>3, <2>4, OnTheWay
<1> QED BY <1>2, <1>3

\* The name in hand joins those that are accounted for.
LEMMA OneMoreAccounted ==
  ASSUME IInv, Moment, UNCHANGED World, UNCHANGED <<todo, name>>, name \notin todo,
         pc = "len" \/ Reading, pc' = "next name",
         info'.fork \subseteq {Len(v) : v \in seen["resource fork"]},
         \A D : name \notin D /\ Accounts(info, D, seen) =>
                  Accounts(info', D \cup {name}, seen)
  PROVE  Moment'
<1>1. Rest = todo \cup {name} /\ Rest' = todo /\ seen' = seen
  BY DEF Rest, Reading, World
<1>2. pc \notin {"list size", "list", "error"}
  BY DEF Reading
<1>3. PICK S \in listed \cup {{}} : Covers(S)
  BY <1>2 DEF Moment
<1>4. Rest' \subseteq S /\ S \ Rest' = (S \ Rest) \cup {name} /\ name \notin S \ Rest
  BY <1>1, <1>3 DEF Covers
<1>5. Accounts(info', S \ Rest', seen')
  BY <1>1, <1>3, <1>4 DEF Covers
<1>6. S \in listed' \cup {{}}
  BY <1>3, WorldOfMoment
<1>7. Covers(S)'
  BY <1>4, <1>5 DEF Covers
<1>8. \E M \in listed' \cup {{}} : Covers(M)'
  BY <1>6, <1>7
<1> QED BY <1>1, <1>8, WorldOfMoment DEF Moment, Reading

\* Asking for a length: of the resource fork, or of an attribute that is counted.
LEMMA LengthKeepsMoment ==
  ASSUME IInv, Moment, Length
  PROVE  Moment'
<1>1. UNCHANGED World /\ UNCHANGED <<todo, name>> /\ pc = "len"
  BY DEF Length
<1>2. name \in Names /\ name \notin todo /\ name # "decmpfs"
  BY <1>1 DEF IInv, Typed, Counted
<1>3. CASE attrs[name] = {}
  BY <1>1, <1>3, FailedMoment DEF Length, Goto
<1>4. CASE attrs[name] # {}
  <2>1. PICK v \in attrs[name] :
          /\ pc' = "next name"
          /\ info' = IF name = "resource fork" THEN [info EXCEPT !.fork = {Len(v)}]
                     ELSE [info EXCEPT !.count = @ + 1, !.total = @ + Len(v)]
    BY <1>4 DEF Length, Goto
  <2>2. v \in seen[name]
    BY <1>2 DEF IInv, Stored
  <2>3. info = [count |-> info.count, total |-> info.total, fork |-> info.fork,
                decmpfs |-> info.decmpfs]
    BY DEF IInv, Typed
  <2>4. CASE name = "resource fork"
    <3>1. info' = [count |-> info.count, total |-> info.total, fork |-> {Len(v)},
                   decmpfs |-> info.decmpfs]
      BY <2>1, <2>3, <2>4
    <3>2. info'.fork \subseteq {Len(u) : u \in seen["resource fork"]}
      BY <2>2, <2>4, <3>1
    <3>3. ASSUME NEW D, name \notin D, Accounts(info, D, seen)
          PROVE  Accounts(info', D \cup {name}, seen)
      <4>1. (D \cup {name}) \cap Plain = D \cap Plain
        BY <2>4, NotPlain
      <4>2. "decmpfs" \in D \cup {name} <=> "decmpfs" \in D
        BY <1>2
      <4>3. info'.fork # {} /\ "resource fork" \in D \cup {name}
        BY <2>4, <3>1
      <4> QED BY <3>1, <3>3, <4>1, <4>2, <4>3 DEF Accounts
    <3> QED BY <1>1, <1>2, <2>1, <3>2, <3>3, OneMoreAccounted
  <2>5. CASE name # "resource fork"
    <3>1. info' = [count |-> info.count + 1, total |-> info.total + Len(v), fork |-> info.fork,
                   decmpfs |-> info.decmpfs]
      BY <2>1, <2>3, <2>5
    <3>2. info'.fork \subseteq {Len(u) : u \in seen["resource fork"]}
      BY <3>1 DEF Moment
    <3>3. name \in Plain
      BY <1>2, <2>5 DEF Names
    <3>4. ASSUME NEW D, name \notin D, Accounts(info, D, seen)
          PROVE  Accounts(info', D \cup {name}, seen)
      <4>1. (D \cup {name}) \cap Plain = (D \cap Plain) \cup {name} /\ name \notin D \cap Plain
        BY <3>3, <3>4
      <4>2. Cardinality((D \cap Plain) \cup {name}) = Cardinality(D \cap Plain) + 1
        <5>1. IsFiniteSet(D \cap Plain)
          BY NamesFinite, FS_Subset
        <5> QED BY <4>1, <5>1, FS_AddElement
      <4>3. SumOf((D \cap Plain) \cup {name}, info.total + Len(v), seen)
        <5>1. D \cap Plain \in SUBSET Plain
          OBVIOUS
        <5>2. SumOf(D \cap Plain, info.total, seen)
          BY <3>4 DEF Accounts
        <5> QED BY <2>2, <3>3, <4>1, <5>1, <5>2, SumAdds
      <4>4. /\ "decmpfs" \in D \cup {name} <=> "decmpfs" \in D
            /\ "resource fork" \in D \cup {name} <=> "resource fork" \in D
        BY <1>2, <2>5
      <4>5. /\ info'.count = info.count + 1 /\ info'.total = info.total + Len(v)
            /\ info'.fork = info.fork /\ info'.decmpfs = info.decmpfs
        BY <3>1
      <4>6. info'.count = Cardinality((D \cup {name}) \cap Plain)
        BY <3>4, <4>1, <4>2, <4>5 DEF Accounts
      <4>7. SumOf((D \cup {name}) \cap Plain, info'.total, seen)
        BY <4>1, <4>3, <4>5
      <4> QED BY <3>4, <4>4, <4>5, <4>6, <4>7 DEF Accounts
    <3> QED BY <1>1, <1>2, <2>1, <3>2, <3>4, OneMoreAccounted
  <2> QED BY <2>4, <2>5
<1> QED BY <1>3, <1>4

\* Asking how long decmpfs is.
LEMMA ReadLenKeepsMoment ==
  ASSUME IInv, Moment, ReadLen
  PROVE  Moment'
<1>1. /\ UNCHANGED World /\ UNCHANGED <<todo, name, info>> /\ pc = "read len"
      /\ pc' \in {"error", "read value"}
  BY DEF ReadLen, Goto
<1>2. CASE pc' = "error"
  BY <1>1, <1>2, FailedMoment
<1>3. CASE pc' = "read value"
  <2>1. Rest' = Rest /\ name' = "decmpfs"
    BY <1>1, <1>3 DEF Rest, Reading, Moment
  <2> QED BY <1>1, <1>3, <2>1, OnTheWay
<1> QED BY <1>1, <1>2, <1>3

\* Reading it: what read returns stands for decmpfs in the report.
LEMMA ReadValueKeepsMoment ==
  ASSUME IInv, Moment, ReadValue
  PROVE  Moment'
<1>1. UNCHANGED World /\ UNCHANGED <<todo, name>> /\ pc = "read value"
  BY DEF ReadValue
<1>2. name = "decmpfs" /\ name \notin todo
  BY <1>1 DEF Moment, Reading, IInv, Buffered
<1>3. \/ pc' = "error" /\ info' = info
      \/ pc' = "read len" /\ info' = info
      \/ \E b : Report(b)
  BY DEF ReadValue, Goto
<1>4. CASE pc' = "error" /\ info' = info
  BY <1>1, <1>4, FailedMoment
<1>5. CASE pc' = "read len" /\ info' = info
  <2>1. Rest' = Rest
    BY <1>1, <1>5 DEF Rest, Reading
  <2> QED BY <1>1, <1>2, <1>5, <2>1, OnTheWay
<1>6. ASSUME NEW b, Report(b) PROVE Moment'
  <2>1. info = [count |-> info.count, total |-> info.total, fork |-> info.fork,
                decmpfs |-> info.decmpfs]
    BY DEF IInv, Typed
  <2>2. /\ info' = [count |-> info.count, total |-> info.total, fork |-> info.fork,
                    decmpfs |-> {b}]
        /\ pc' = "next name"
    BY <1>6, <2>1 DEF Report, Goto
  <2>3. info'.fork \subseteq {Len(u) : u \in seen["resource fork"]}
    BY <2>2 DEF Moment
  <2>4. ASSUME NEW D, name \notin D, Accounts(info, D, seen)
        PROVE  Accounts(info', D \cup {name}, seen)
    <3>1. (D \cup {name}) \cap Plain = D \cap Plain
      BY <1>2, NotPlain
    <3>2. "resource fork" \in D \cup {name} <=> "resource fork" \in D
      BY <1>2
    <3>3. info'.decmpfs # {} /\ "decmpfs" \in D \cup {name}
      BY <1>2, <2>2
    <3> QED BY <2>2, <2>4, <3>1, <3>2, <3>3 DEF Accounts
  <2> QED BY <1>1, <1>2, <2>2, <2>3, <2>4, OneMoreAccounted DEF Reading
<1> QED BY <1>3, <1>4, <1>5, <1>6

\* A report covers the attributes of one moment, each with a length that it had.
THEOREM ReportIsOfOneMoment == Spec => []ReportOfOneMoment
<1>1. ASSUME IInv, Moment, [Next]_vars PROVE Moment'
  <2>1. CASE Fail
    BY <1>1, <2>1, FailedMoment DEF Fail, Goto
  <2>2. CASE UNCHANGED vars
    <3>1. UNCHANGED World /\ UNCHANGED <<pc, todo, name, info>>
      BY <2>2 DEF vars, World
    <3>2. \A S : Covers(S)' <=> Covers(S)
      BY <3>1 DEF Covers, Rest, Reading, World
    <3> QED BY <1>1, <3>1, <3>2, WorldOfMoment DEF Moment, Reading
  <2> QED
    BY <1>1, <2>1, <2>2, OthersKeepMoment, ListKeepsMoment, NextKeepsMoment, LengthKeepsMoment,
       ReadLenKeepsMoment, ReadValueKeepsMoment
       DEF Next, Get, Terminated
<1>2. ASSUME Moment PROVE ReportOfOneMoment
  <2> SUFFICES ASSUME pc = "ok"
               PROVE  \E S \in listed \cup {{}} :
                        /\ info.count = Cardinality(S \cap Plain)
                        /\ info.total \in Sums(S \cap Plain)
                        /\ (info.fork # {} <=> "resource fork" \in S)
                        /\ info.fork \subseteq {Len(v) : v \in seen["resource fork"]}
                        /\ (info.decmpfs # {} <=> "decmpfs" \in S)
    BY DEF ReportOfOneMoment
  <2>1. Rest = {}
    BY <1>2 DEF Moment, Rest, Reading
  <2>2. PICK S \in listed \cup {{}} : Covers(S)
    BY <1>2 DEF Moment
  <2>3. Accounts(info, S, seen)
    <3>1. S \ Rest = S
      BY <2>1
    <3> QED BY <2>2, <3>1 DEF Covers
  <2>4. info.total \in Sums(S \cap Plain)
    <3> DEFINE T == S \cap Plain
    <3>1. PICK f \in [T -> UNION {seen[n] : n \in T}] :
                 (\A n \in T : f[n] \in seen[n]) /\ info.total = Total(f, T)
      BY <2>3 DEF Accounts, SumOf
    <3> HIDE DEF T
    <3>2. Sums(T) = {Total(g, T) :
                       g \in {h \in [T -> UNION {seen[n] : n \in T}] :
                                \A n \in T : h[n] \in seen[n]}}
      BY DEF Sums, Total, FoldSet, MapThenFoldSet
    <3>3. info.total \in Sums(T)
      BY <3>1, <3>2
    <3> QED BY <3>3 DEF T
  <2>5. (info.fork # {} <=> "resource fork" \in S)
    BY <2>3 DEF Accounts
  <2>6. (info.decmpfs # {} <=> "decmpfs" \in S)
    BY <2>3 DEF Accounts
  <2>7. /\ info.count = Cardinality(S \cap Plain)
        /\ info.fork \subseteq {Len(v) : v \in seen["resource fork"]}
    BY <1>2, <2>3 DEF Accounts, Moment
  <2> QED BY <2>2, <2>4, <2>5, <2>6, <2>7
<1> QED BY Invariant, InitMoment, <1>1, <1>2, PTL DEF Spec

=============================================================================
