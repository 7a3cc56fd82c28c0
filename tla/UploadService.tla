--------------------------- MODULE UploadService ----------------------------
(***************************************************************************)
(* What uploads of chunks look like to the agents that make them, each by  *)
(* itself: an upload is refused, or admitted and then accepted or failed,  *)
(* and is accepted only with all its chunks stored.  A failed upload may   *)
(* leave some of its chunks behind, also after it has failed; chunks       *)
(* nobody has asked to store do not appear.                                *)
(***************************************************************************)
CONSTANTS
  Req, Hash,
  Wants,   \* Wants[r]: the chunks of upload r
  Direct   \* chunks that are also uploaded one by one

VARIABLES
  outcome,  \* outcome[r]: "none", "open", "refused", "failed" or "accepted"
  stored    \* chunks the repository has

Init == outcome = [r \in Req |-> "none"] /\ stored = {}

Turns(r, from, to) ==
  /\ outcome[r] = from
  /\ outcome' = [outcome EXCEPT ![r] = to]
  /\ UNCHANGED stored

Admit(r)  == Turns(r, "none", "open")
Refuse(r) == Turns(r, "none", "refused")
Fail(r)   == Turns(r, "open", "failed")
Accept(r) == Wants[r] \subseteq stored /\ Turns(r, "open", "accepted")

\* The chunks of the uploads that were admitted.
Asked == UNION {Wants[r] : r \in {q \in Req : outcome[q] \notin {"none", "refused"}}}

Store(H) ==
  /\ H \subseteq Asked \cup Direct
  /\ stored' = stored \cup H
  /\ UNCHANGED outcome

Next ==
  \/ \E r \in Req : Admit(r) \/ Refuse(r) \/ Accept(r) \/ Fail(r)
  \/ \E H \in SUBSET Hash : Store(H)

Spec == Init /\ [][Next]_<<outcome, stored>>
=============================================================================
