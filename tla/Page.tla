-------------------------------- MODULE Page --------------------------------
(***************************************************************************)
(* The row of a public status page, which its components, its incidents    *)
(* and its hostnames each stand beside: who sees it, and whether it is     *)
(* deleted (services/status-page.service.ts).                              *)
(***************************************************************************)

CONSTANT Chosen   \* the visibilities operators choose

VARIABLE page     \* whether it is deleted, and its visibility

Visibility == {"PUBLIC", "UNLISTED", "PRIVATE"}

ASSUME PageAssumption == Chosen \subseteq Visibility

PageInit == page = [deleted |-> FALSE, visibility |-> "PUBLIC"]

\* getPublicPage and publicPageBySlug: no private or deleted page.
Served == ~page.deleted /\ page.visibility \in {"PUBLIC", "UNLISTED"}

\* update: visibility, or the older flag isPublic, which stands for two of the three.
UpdatePage ==
  /\ ~page.deleted
  /\ \E v \in Chosen : page' = [page EXCEPT !.visibility = v]

RemovePage ==
  /\ ~page.deleted
  /\ page' = [page EXCEPT !.deleted = TRUE]

PageNext == UpdatePage \/ RemovePage

=============================================================================
