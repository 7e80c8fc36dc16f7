----------------------------- MODULE MCScratchpad -----------------------------
(* An instance of Scratchpad for TLC; the bounds keep its excursions apart. *)
EXTENDS Scratchpad

CONSTANT p2
Foreign(w) == w \notin {Nobody, Unmapped} /\ w.for # Nobody

\* Bounds: while an output is missing, or anything is left of its absence, there are no dialogs, no
\* window is shown alone, every pad is defined, p2 is empty and not the active one, and the focus is
\* where the pads noted it; without s2 one window is mapped; beside a dialog p2 is hidden; the
\* overview opens when all else is quiet.
Residue == \/ lit # Screens \/ restoring
           \/ \E p \in Pads : pads[p] # Nobody /\ pads[p].away # Nobody
           \/ \E v \in Windows : Foreign(place[v])
           \/ \E i \in DOMAIN members : Foreign(members[i].home.to)
Dialogs == \E v \in Windows : owner[v] # Nobody
Dropped == \E p \in Pads : pads[p] = Nobody
Solo    == \E p \in Pads : pads[p] # Nobody /\ pads[p].solo # Nobody
Apart ==
  /\ Residue => /\ ~Dialogs /\ ~overviewOpen /\ ~Solo /\ ~Dropped
                /\ focus = noted /\ ~pads[p2].active
                /\ \A i \in DOMAIN members : members[i].pad # p2
  /\ lit \subseteq Unsteady => Cardinality({v \in Windows : place[v] # Unmapped}) <= 1
  /\ Dialogs => ~overviewOpen /\ ~Dropped /\ ~pads[p2].visible
  /\ overviewOpen => ~Dropped /\ noted = Nobody

WindowSymmetry == Permutations(Windows)

=============================================================================
