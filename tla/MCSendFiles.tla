----------------------------- MODULE MCSendFiles -----------------------------
(***************************************************************************)
(* A sender with two files in its outbox on the first run and one on the   *)
(* second, another sender with a file of its own and one that it declares  *)
(* just as the first sender does, all of the same name.                    *)
(***************************************************************************)
EXTENDS SendFiles

CONSTANTS f1, f2, f3, f4

MCFileIds == {f1, f2, f3, f4}
MCDrawn == <<{f1, f2}, {f3}>>
MCOffers == {{f3}, {f4}}
SameName == [f \in FileIds |-> CHOOSE n \in Names : TRUE]
=============================================================================
