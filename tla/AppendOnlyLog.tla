--------------------------- MODULE AppendOnlyLog ---------------------------
(***************************************************************************)
(* What a sigsum log promises to the world, with no word about how: one    *)
(* sequence of leaves that only ever grows (committed), the head clients   *)
(* can fetch (published), and the set of leaves the log has confirmed to   *)
(* their submitters as logged (acked).                                     *)
(***************************************************************************)
EXTENDS MerkleTree

VARIABLES committed, published, acked

LogInit ==
  /\ committed = << >>
  /\ published = << >>
  /\ acked = {}

\* The log commits to a longer sequence of leaves, never to another one.
Commit ==
  /\ committed' \in TreeHead
  /\ IsPrefix(committed, committed')
  /\ UNCHANGED <<published, acked>>

\* A head the log has committed to is published.  It never takes back one.
Publish ==
  /\ published' \in TreeHead
  /\ IsPrefix(published, published')
  /\ IsPrefix(published', committed)
  /\ UNCHANGED <<committed, acked>>

\* A submitter is told that its leaf is logged.
Acknowledge ==
  /\ \E l \in Leaf : IncludedAt(committed, Len(committed), l) /\ acked' = acked \cup {l}
  /\ UNCHANGED <<committed, published>>

LogNext == Commit \/ Publish \/ Acknowledge

LogSpec == LogInit /\ [][LogNext]_<<committed, published, acked>>
=============================================================================
