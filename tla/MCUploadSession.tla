--------------------------- MODULE MCUploadSession ---------------------------
(* Small instances of UploadSession for TLC. *)
EXTENDS UploadSession, TLC

\* Every file is declared with the same name.
SameName == [f \in FileIds |-> CHOOSE n \in Names : TRUE]

Symmetry == Permutations(Handlers) \cup Permutations(Inodes) \cup Permutations(Senders)

\* What later states depend on: the bytes of an inode nobody refers to cannot
\* be read again, and damage to a file that carries no checksum goes unseen.
Seen(c) == IF c = None \/ Checked(c.fid) THEN c ELSE [c EXCEPT !.good = TRUE]

View == <<up, session, opened, offers, counted, parts, disk, contested, overlapped,
          [h \in Handlers |-> IF Checked(job[h].fid) THEN job[h]
                              ELSE [job[h] EXCEPT !.sum = "good"]],
          [i \in Inodes |-> IF Unused(i) THEN Empty
                            ELSE [b \in 1 .. Blocks |-> Seen(content[i][b])]]>>
=============================================================================
