----------------------------- MODULE MCEvacuation -----------------------------
(* Instances of Evacuation for TLC; workspace ids are compared by their places. *)
EXTENDS Evacuation

CONSTANT n1
Naming(names) == {[o \in Outputs |->
  [dynamic |-> TRUE, names |-> names[o], min |-> 1, emptyAbove |-> FALSE, animated |-> FALSE]]}
Named   == Naming([o \in Outputs |-> <<n1>>])
Mixed   == Naming([o \in Outputs |-> IF o \in Portable THEN <<n1>> ELSE <<>>])
Unnamed == Naming([o \in Outputs |-> <<>>])

Members(w) == {v \in Views : view[v].ws = w}
Seen(o, w) == <<info[w].name, info[w].origin, group[o].active = w, Members(w)>>
EvacuationView ==
  << [o \in Outputs |-> <<[i \in DOMAIN group[o].ws |-> Seen(o, group[o].ws[i])],
                          [i \in DOMAIN group[o].reserved |-> Seen(o, group[o].reserved[i])],
                          group[o].active = None>>],
     [v \in Views |-> [view[v] EXCEPT !.ws = 0]], power, due, selection, dangling, departures, waited >>

\* Bound: a departure is followed until every window is home again.
Unfinished ==
  /\ Cardinality({v \in Views : view[v].phase = "unmapped"}) <= 1
  /\ \/ departures < MaxDepartures \/ due
     \/ \E o \in Outputs : selection[o] # None \/ power[o] # "on"
     \/ \E v \in Views : view[v].home # None

ViewSymmetry == Permutations(Views)

=============================================================================
