----------------------------- MODULE BlockStore -----------------------------
(***************************************************************************)
(* What a fault tolerant write promises its callers (the descriptions of   *)
(* FtwWrite: "ensuring at all times that either the original contents or   *)
(* the modified contents are available").  A block changes in one step,    *)
(* from its contents to those of the write in progress, and a write that   *)
(* reports success has taken effect.  A power failure ends a write like an *)
(* error does: it may or may not have taken effect.                        *)
(***************************************************************************)
CONSTANTS Lba, Data, None

VARIABLES content,  \* the contents of every block
          request,  \* the write in progress: [lba, data], or None
          status    \* what the last write returned

Init ==
  /\ content \in [Lba -> Data]
  /\ request = None
  /\ status = "error"

Request(l, d) ==
  /\ request = None
  /\ request' = [lba |-> l, data |-> d]
  /\ UNCHANGED <<content, status>>

Commit ==
  /\ request # None
  /\ content' = [content EXCEPT ![request.lba] = request.data]
  /\ UNCHANGED <<request, status>>

Succeed ==
  /\ request # None
  /\ content[request.lba] = request.data
  /\ request' = None
  /\ status' = "success"
  /\ UNCHANGED content

Fail ==
  /\ request' = None
  /\ status' = "error"
  /\ UNCHANGED content

Next ==
  \/ \E l \in Lba, d \in Data : Request(l, d)
  \/ Commit \/ Succeed \/ Fail

Spec == Init /\ [][Next]_<<content, request, status>>
=============================================================================
