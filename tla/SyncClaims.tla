---------------------------- MODULE SyncClaims ----------------------------
(* A claim of alpaca_paper/sync.py that the code does not keep. *)
EXTENDS PaperSync

\* "seeded from the last PERSISTED snapshot so a close that happened while the loop
\* was down is still journaled": the snapshot is recorded before the closes, and a
\* crash between the two leaves a base that no longer has the position.
DownCloseJournaled ==
    pass.pc = "idle" /\ seeded =>
        \A l \in shown \cap down :
            lots[l[1]] = l[2] /\ l \notin prev => Journaled(l)
=============================================================================
