---------------------------- MODULE SharedData ------------------------------
(***************************************************************************)
(* What several shells read and write back without a lock: the             *)
(* configuration of a replica set (ReplicaSet) and the file of update      *)
(* metadata (UpdateNotification), next to each other.                      *)
(***************************************************************************)

EXTENDS ReplicaSet

CONSTANTS Versions, Prereleases, URLs, Feeds

VARIABLES file, published, installed, url, shell

Updates == INSTANCE UpdateNotification

\* The file says what its feed said under its etag, and a greeting is of one
\* contents of the right feed (update-notification-manager.ts:150-240).
UpdatesTrue == Updates!UpdatesTrue
=============================================================================
