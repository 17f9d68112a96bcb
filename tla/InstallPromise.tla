---------------------------- MODULE InstallPromise ----------------------------
(***************************************************************************)
(* What the offline ZIP installer promises of a tree of files, whatever    *)
(* happens while it runs: an existing file is replaced only after a whole  *)
(* copy of it was saved, a saved copy is dropped only when the update is   *)
(* in place everywhere or nowhere, and the outcome that is reported is the *)
(* one the tree shows.  How space, directories and errors lead to an       *)
(* outcome is left to ZipInstall, which implements this specification.     *)
(***************************************************************************)
CONSTANT Files

VARIABLES
    present,  \* the files that were there before
    tree,     \* tree[f]: "old" as before the installation, "new" as in the ZIP
    saved,    \* the files with a whole backup
    outcome   \* "none" while the installation runs

promiseVars == <<present, tree, saved, outcome>>

AllNew == \A f \in Files : tree[f] = "new"
AllOld == \A f \in Files : tree[f] = "old"

Init ==
    /\ present \in SUBSET Files
    /\ tree = [f \in Files |-> "old"]
    /\ saved = {}
    /\ outcome = "none"

Running == outcome = "none" /\ UNCHANGED present

Save(f) ==
    /\ Running /\ f \in present /\ tree[f] = "old"
    /\ saved' = saved \cup {f}
    /\ UNCHANGED <<tree, outcome>>

Replace(f) ==
    /\ Running /\ (f \in present => f \in saved)
    /\ tree' = [tree EXCEPT ![f] = "new"]
    /\ UNCHANGED <<saved, outcome>>

Restore(f) ==
    /\ Running /\ (f \in present => f \in saved)
    /\ tree' = [tree EXCEPT ![f] = "old"]
    /\ UNCHANGED <<saved, outcome>>

Forget(f) ==
    /\ Running /\ (AllNew \/ AllOld)
    /\ saved' = saved \ {f}
    /\ UNCHANGED <<tree, outcome>>

Report(o) ==
    /\ Running
    /\ o = "installed" => AllNew
    /\ o \in {"refused", "restored"} => AllOld
    /\ o = "incomplete" => ~AllOld
    /\ outcome' = o
    /\ UNCHANGED <<tree, saved>>

Outcomes == {"installed", "refused", "restored", "incomplete", "crashed"}

Next ==
    \/ \E f \in Files : Save(f) \/ Replace(f) \/ Restore(f) \/ Forget(f)
    \/ \E o \in Outcomes : Report(o)

Spec == Init /\ [][Next]_promiseVars
=============================================================================
