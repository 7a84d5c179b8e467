-------------------------- MODULE MCInventoryRaces --------------------------
(* Two requests on one session. The server stays up, or a crash may come      *)
(* between any two steps. While it stays up one source and one resolution are *)
(* enough: what is asked is whether previews end.                             *)
EXTENDS MCFullInventory

VARIABLE up

MCInit == Init /\ up \in BOOLEAN

Few ==
  /\ vault' \subseteq {flawed}
  /\ \A w \in Workspaces : Len(disk'[w].resolutions) <= 1

MCNext ==
  /\ UNCHANGED up
  /\ \/ up /\ Serve /\ Few
     \/ ~up /\ Next

MCSpec == MCInit /\ [][MCNext]_<<vars, up>> /\ Fairness

\* While the server stays up, a session leaves PREVIEWING: build_preview ends it
\* in review or as FAILED, whatever raises and whoever holds the file.
PreviewEndsWhileUp == up => PreviewEnds
=============================================================================
