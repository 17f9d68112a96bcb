----------------------------- MODULE MCZipInstall -----------------------------
(* Small instances of ZipInstall for TLC: c is in b, and b is in a. *)
EXTENDS ZipInstall

CONSTANTS a, b, c

\* The first entry is a/b/c/.., the second a/.., the others are at the top.
Nested == [x \in Files \cup Dirs |->
              CASE x = 1 -> {a, b, c} [] x = c -> {a, b} [] x \in {2, b} -> {a} [] OTHER -> {}]

\* The archive lists a/b; a has to be made for it, and c for the first file.
ListsB == <<b>>
=============================================================================
