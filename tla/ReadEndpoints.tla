--------------------------- MODULE ReadEndpoints ---------------------------
(***************************************************************************)
(* get-tree-head, get-leaves, get-inclusion-proof and get-consistency-     *)
(* proof of the primary, called by a client (a monitor, a witness, a       *)
(* submitter) that remembers the last head it got.  A handler reads the    *)
(* published head, and then asks the backend; in between the log moves on, *)
(* and the process may die and be started again.                           *)
(***************************************************************************)
EXTENDS SigsumLog

CONSTANTS MaxIndex,     \* bound: sizes and indices in requests
          UnknownLeaf   \* a leaf that nobody submits

ASSUME MaxIndexAssumption == MaxIndex \in Nat

LeavesRequest == [kind : {"leaves"}, start : 0..MaxIndex, end : 0..MaxIndex]
InclusionRequest == [kind : {"inclusion"}, leaf : Leaf \cup {UnknownLeaf}, size : 0..MaxIndex]
ConsistencyRequest == [kind : {"consistency"}, old : 0..MaxIndex, new : 0..MaxIndex]
AnyRequest == LeavesRequest \cup InclusionRequest \cup ConsistencyRequest

VARIABLES seen,     \* the head the client got last
          rpc,      \* its request: "idle", "backend" or "done"
          req,      \* what it asked for
          rsize,    \* the published size that the handler has read
          answer    \* the status, and the leaves or the heads that a
                    \* returned proof is for

readVars == <<seen, rpc, req, rsize, answer>>

allVars == <<vars, readVars>>

NoRequest == [kind |-> "none"]
NoAnswer == [status |-> 0, body |-> << >>]

Refuse(status) == [status |-> status, body |-> << >>]

ReadInit ==
  /\ Init
  /\ seen = << >>
  /\ rpc = "idle"
  /\ req = NoRequest
  /\ rsize = 0
  /\ answer = NoAnswer

\* The log takes a step; a request in progress ends with the process.
LogStep ==
  /\ Next
  /\ IF rpc = "backend" /\ smpc' = "down"
     THEN rpc' = "idle" /\ req' = NoRequest /\ rsize' = 0
     ELSE UNCHANGED <<rpc, req, rsize>>
  /\ UNCHANGED <<seen, answer>>

\* GetTreeHead returns the cosigned head.
GetTreeHead ==
  /\ Serving
  /\ rpc # "backend"
  /\ seen' = cosignedTreeHead
  /\ rpc' = "idle"
  /\ req' = NoRequest
  /\ answer' = NoAnswer
  /\ UNCHANGED <<vars, rsize>>

\* Mutant: the limit is the size of the backend's tree.
RequestUnsigned ==
  /\ Serving
  /\ rpc # "backend"
  /\ req' \in AnyRequest
  /\ rsize' = Len(ptree)
  /\ rpc' = "backend"
  /\ answer' = NoAnswer
  /\ UNCHANGED <<vars, seen>>

\* Each of the other handlers starts by reading the size of the cosigned
\* head, which is the limit for what it returns.
Request ==
  /\ Serving
  /\ rpc # "backend"
  /\ req' \in AnyRequest
  /\ rsize' = Len(cosignedTreeHead)
  /\ rpc' = "backend"
  /\ answer' = NoAnswer
  /\ UNCHANGED <<vars, seen>>

Return(rsp) ==
  /\ answer' = rsp
  /\ rpc' = "done"
  /\ rsize' = 0
  /\ UNCHANGED <<vars, seen, req>>

\* GetLeaves: getLeavesGeneral with strict bounds.
GetLeaves ==
  /\ rpc = "backend"
  /\ req.kind = "leaves"
  /\ LET rsp == GetLeavesGeneral(ptree, req.start, req.end, rsize, TRUE)
     IN  Return([status |-> rsp.status, body |-> rsp.leaves])

\* GetInclusionProof: Trillian does not accept the size 0, and its proof for
\* the only leaf of a tree is empty, which its client takes for an error.
GetInclusionProof ==
  /\ rpc = "backend"
  /\ req.kind = "inclusion"
  /\ Return(IF req.size > rsize THEN Refuse(400)
            ELSE IF req.size = 0 THEN Refuse(500)
            ELSE IF ~IncludedAt(ptree, req.size, req.leaf) THEN Refuse(404)
            ELSE IF req.size = 1 THEN Refuse(500)
            ELSE [status |-> 200, body |-> TreeAt(ptree, req.size)])

\* GetConsistencyProof: the trivial proofs, and what the backend proves.
GetConsistencyProof ==
  /\ rpc = "backend"
  /\ req.kind = "consistency"
  /\ Return(IF req.new > rsize THEN Refuse(400)
            ELSE IF req.old = 0 \/ req.old = req.new THEN [status |-> 200, body |-> << >>]
            ELSE IF req.old > req.new THEN Refuse(500)
            ELSE [status |-> 200, body |-> <<TreeAt(ptree, req.old), TreeAt(ptree, req.new)>>])

\* The backend fails, or times out.
ReadFails ==
  /\ rpc = "backend"
  /\ rpc' = "idle"
  /\ req' = NoRequest
  /\ rsize' = 0
  /\ UNCHANGED <<vars, seen, answer>>

ReadNext ==
  \/ LogStep
  \/ GetTreeHead
  \/ Request
  \/ GetLeaves
  \/ GetInclusionProof
  \/ GetConsistencyProof
  \/ ReadFails

ReadSpec == ReadInit /\ [][ReadNext]_allVars

-----------------------------------------------------------------------------
\* The request stays within a head, and there is something to prove.
Within(th) ==
  /\ req.kind = "leaves" => req.start < req.end /\ req.end <= Len(th)
  /\ req.kind = "inclusion" => 2 <= req.size /\ req.size <= Len(th)
  /\ req.kind = "consistency" => 1 <= req.old /\ req.old <= req.new /\ req.new <= Len(th)

LeavesAgree ==
  LET last == IF req.end - req.start > MaxRange THEN req.start + MaxRange ELSE req.end
  IN  answer = [status |-> 200, body |-> SubSeq(seen, req.start + 1, last)]

InclusionAgrees ==
  answer = IF IncludedAt(seen, req.size, req.leaf)
           THEN [status |-> 200, body |-> TreeAt(seen, req.size)]
           ELSE Refuse(404)

ConsistencyAgrees ==
  answer = [status |-> 200,
            body |-> IF req.old = req.new THEN << >>
                     ELSE <<TreeAt(seen, req.old), TreeAt(seen, req.new)>>]

\* Whatever the log did since a client got its head - grew, crashed, started
\* from its file - requests within that head are answered from that head:
\* get-leaves with at least one leaf, proofs that verify against it, 404 for
\* a leaf that is not in it, and never that it is outside of the tree.
\*
\* Requests for which there is nothing to prove are left out: an inclusion
\* proof for size 0 or 1, a consistency proof from size 0 or to a smaller
\* size.  The tests of these handlers call them bad requests (400), but ask
\* while the published tree is empty, where everything is outside of it.
\* Otherwise the code answers 500 (404 for a leaf that is not the only one
\* of the tree), and with an empty proof when the old size is 0.
ReadsAgree ==
  rpc = "done" /\ Within(seen) =>
    /\ req.kind = "leaves" => LeavesAgree
    /\ req.kind = "inclusion" => InclusionAgrees
    /\ req.kind = "consistency" => ConsistencyAgrees

\* Clients get nothing that is not covered by a head they can get as well:
\* leaves that are integrated but not signed, cosigned and published yet
\* stay inside.
NothingUnpublished ==
  rpc = "done" /\ answer.status = 200 =>
    /\ req.kind = "leaves" => req.start + Len(answer.body) <= Len(cosignedTreeHead)
    /\ req.kind = "inclusion" => req.size <= Len(cosignedTreeHead)
    /\ req.kind = "consistency" => req.new <= Len(cosignedTreeHead)

\* The inductive invariant: what the client has got stays a prefix of what
\* is published, and so does the limit that a handler has read.
ReadInv ==
  /\ LogInv
  /\ seen \in TreeHead
  /\ rpc \in {"idle", "backend", "done"}
  /\ rsize \in Nat
  /\ rpc # "idle" => req \in AnyRequest
  /\ rpc = "done" /\ req.kind = "leaves" => answer.body \in TreeHead
  /\ IsPrefix(seen, cosignedTreeHead)
  /\ rpc = "backend" => Len(seen) <= rsize /\ rsize <= Len(cosignedTreeHead)
  /\ ReadsAgree
  /\ NothingUnpublished
=============================================================================
