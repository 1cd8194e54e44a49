----------------------------- MODULE MCProfiles -----------------------------
EXTENDS Profiles, TLC

VARIABLE scope   \* the operations a behaviour exercises, chosen at the start

Scopes == {{"me"}, {"settings"}, {"phone", "verify"}, {"avatar", "noavatar"}, {"profile"}}

\* Where identities are not the subject, tokens are those of one sign-in.
InScope(x) ==
  /\ ~At(x, "idle") => reqs[x].op \in scope
  /\ ~At(x, "idle") /\ "me" \notin scope => reqs[x].tok.iat = 1 /\ reqs[x].tok.verified

MCInit == Init /\ scope \in Scopes
MCNext == Next /\ UNCHANGED scope /\ \A x \in Clients : InScope(x)'
MCSpec == MCInit /\ [][MCNext]_<<vars, scope>>

Symmetry == Permutations(Clients) \cup Permutations(Phones) \cup Permutations(Names)
=============================================================================
