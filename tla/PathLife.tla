------------------------------ MODULE PathLife ------------------------------
(***************************************************************************)
(* What the daemon promises about a virtual path, whatever goes on behind  *)
(* it: at any time at most one image is published there and at most one is *)
(* being uploaded; what gets published is what was being uploaded; an      *)
(* append-only path keeps what it has; nothing that is being worked on is  *)
(* removed.  Uploads.tla implements it.                                    *)
(***************************************************************************)
CONSTANTS
  Paths,        \* virtual paths
  Images,       \* image ids
  AppendOnly,   \* paths whose image is never exchanged
  None          \* no image

VARIABLES
  published,    \* published[p]: the image a reader of p's metadata finds
  uploading     \* uploading[p]: the image an upload holds the path for

lifeVars == <<published, uploading>>

Init ==
  /\ published = [p \in Paths |-> None]
  /\ uploading = [p \in Paths |-> None]

\* A request is accepted.
Begin(p, image) ==
  /\ uploading[p] = None
  /\ published[p] # image
  /\ p \in AppendOnly => published[p] = None
  /\ uploading' = [uploading EXCEPT ![p] = image]
  /\ UNCHANGED published

\* The upload is over and its image is the one that is there.
Publish(p) ==
  /\ uploading[p] # None
  /\ published' = [published EXCEPT ![p] = uploading[p]]
  /\ uploading' = [uploading EXCEPT ![p] = None]

\* The upload is over and has changed nothing.
GiveUp(p) ==
  /\ uploading[p] # None
  /\ uploading' = [uploading EXCEPT ![p] = None]
  /\ UNCHANGED published

\* The directory of a published image turned out to be missing: the image is
\* withdrawn and fetched anew.
Withdraw(p) ==
  /\ uploading[p] = None
  /\ published[p] # None
  /\ uploading' = [uploading EXCEPT ![p] = published[p]]
  /\ published' = [published EXCEPT ![p] = None]

\* Cleanup.
Remove(p) ==
  /\ uploading[p] = None
  /\ published' = [published EXCEPT ![p] = None]
  /\ UNCHANGED uploading

\* A restart forgets every upload and no image.
Forget ==
  /\ uploading' = [p \in Paths |-> None]
  /\ UNCHANGED published

Next ==
  \/ \E p \in Paths :
       \/ \E image \in Images : Begin(p, image)
       \/ Publish(p) \/ GiveUp(p) \/ Withdraw(p) \/ Remove(p)
  \/ Forget

Spec == Init /\ [][Next]_lifeVars

=============================================================================
