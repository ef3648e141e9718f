------------------------------- MODULE MCScan -------------------------------
(* Instances of Scan for TLC. *)
EXTENDS Scan

File == [file |-> TRUE, links |-> 1, protected |-> FALSE, compressed |-> FALSE,
         len |-> "some", xattr |-> FALSE]
Odd == {[File EXCEPT !.file = FALSE], [File EXCEPT !.links = 2],
        [File EXCEPT !.protected = TRUE], [File EXCEPT !.len = "zero"],
        [File EXCEPT !.len = "huge"], [File EXCEPT !.xattr = TRUE]}

\* A directory with one file, which is given once more by name, and a directory below it
\* with two, one of them protected.  The device is the system's: if Volumes::new could not
\* use it, the upper directory gets a temporary directory.
UpperLower == [f \in Files |-> IF f = "f" THEN "upper" ELSE "lower"]
OneDevice == [d \in Dirs |-> "device"]
DirectoryAndFile == <<"upper", "upper">>
SecondGiven == <<{}, {"f"}>>
FirstWalked == <<{"upper", "lower"}, {}>>
FirstOfAnyKind ==
  [f \in Files |-> CASE f = "f" -> {File, [File EXCEPT !.compressed = TRUE]} \cup Odd
                     [] f = "g" -> {File}
                     [] OTHER -> {[File EXCEPT !.protected = TRUE]}]
=============================================================================
