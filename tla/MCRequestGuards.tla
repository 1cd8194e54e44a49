-------------------------- MODULE MCRequestGuards ---------------------------
EXTENDS RequestGuards, TLC

CONSTANT Author   \* the subject whose comments race for the windows

Racing(x) ==
  At(x, "idle") \/ (/\ reqs[x].route.name = "createComment"
                    /\ BearerToken(reqs[x].cred) # {}
                    /\ Verifies(reqs[x].cred) /\ reqs[x].cred.sub = Author)

\* Any other request comes alone, while no window is open.
Quiet == \A k \in Keys : counters[k] = Absent
MCNext ==
  /\ Next
  /\ \A x \in Clients : ~Racing(x)' =>
       /\ \A y \in Clients \ {x} : At(y, "idle")'
       /\ At(x, "idle") => Quiet
MCSpec == Init /\ [][MCNext]_vars

Symmetry == Permutations(Clients)
=============================================================================
