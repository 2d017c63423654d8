---------------------------- MODULE MCLiveFiles ----------------------------
(* Small instances of module LiveFiles. *)
EXTENDS LiveFiles, TLC

Symmetry == Permutations(Jobs) \cup Permutations(SVs \ {FirstSV})

\* Two jobs run at once only while deletions are enabled and purges are done
\* in the foreground; a backup is taken while no reader pins anything.
Running  == {j \in Jobs : job[j].pc # "idle"}
BackedUp == disable_delete_obsolete_files_ > 0 \/ del[Backup] \cup erase[Backup] # {}
Bounds ==
  /\ BackedUp => ~background_purge /\ pinned = {}
  /\ BackedUp \/ background_purge => Cardinality(Running) <= 1
============================================================================
