---------------------------- MODULE ReloadService ----------------------------
(***************************************************************************)
(* What the reload pipeline promises to the rest of the server, with no    *)
(* fetch, generation, channel or scan in it.  The manifests change on      *)
(* disk; reloads are requested; the server serves some workspace and is    *)
(* ready or not.                                                           *)
(*                                                                         *)
(* The promise: what is served was read no earlier than the newest request *)
(* was made, whatever became of the fetches before; a request makes the    *)
(* server unready; it gets ready only when the newest request has an       *)
(* outcome, and stays ready until the next request.                        *)
(***************************************************************************)
EXTENDS Naturals

CONSTANT None

VARIABLES
  disk,     \* version of the manifests on disk
  wanted,   \* the version on disk when a reload was last requested
  served,   \* the version the workspaces were read from
  outcome,  \* of the newest request: None, "ok" or "errors"
  ready     \* may diagnostics be computed?

vars == <<disk, wanted, served, outcome, ready>>

Init ==
  /\ disk = 0
  /\ wanted = 0
  /\ served = None
  /\ outcome = None
  /\ ready = FALSE

Edit ==
  /\ disk' = disk + 1
  /\ UNCHANGED <<wanted, served, outcome, ready>>

Request ==
  /\ wanted' = disk
  /\ outcome' = None
  /\ ready' = FALSE
  /\ UNCHANGED <<disk, served>>

\* The newest request is served; the workspace has still to be scanned.
Serve ==
  /\ outcome = None
  /\ served' \in wanted .. disk
  /\ outcome' = "ok"
  /\ UNCHANGED <<disk, wanted, ready>>

\* The newest request fails; the workspace served before stays, and if it has
\* been scanned the server is ready at once.
Fail ==
  /\ outcome = None
  /\ outcome' = "errors"
  /\ ready' \in BOOLEAN
  /\ UNCHANGED <<disk, wanted, served>>

Settle ==
  /\ outcome # None
  /\ ~ready
  /\ ready' = TRUE
  /\ UNCHANGED <<disk, wanted, served, outcome>>

Next == Edit \/ Request \/ Serve \/ Fail \/ Settle

Spec == Init /\ [][Next]_vars
==============================================================================
