----------------------------- MODULE MCPayments -----------------------------
(***************************************************************************)
(* Instances of Payments for TLC.                                          *)
(***************************************************************************)
EXTENDS Payments_proofs, TLC

\* The organizer waives the contribution, lowers or raises what is required.
MCEdits == {[required |-> Keep, paid |-> Keep, waive |-> TRUE],
            [required |-> 1,    paid |-> Keep, waive |-> FALSE],
            [required |-> 3,    paid |-> 0,    waive |-> FALSE]}

NoEdits == {}

Symmetry == Permutations(Handlers) \cup Permutations(Guests)

Requests == {h \in Handlers : req[h] # None}

\* Scenario: two guests race for one reference; reports come again, late and in
\* any order, and keys expire.
Racing ==
    \A h \in Requests :
        /\ req[h].op # "edit"
        /\ req[h].ref \in {None, CHOOSE r \in Refs : TRUE}
        /\ req[h].amount \in {None, 2}

\* Scenario: two payments of one guest are credited while the organizer edits.
Editing ==
    /\ \A h, k \in Requests : req[h].guest = req[k].guest
    /\ \A h \in Requests : req[h].amount \in {None, 1} /\ req[h].status \in {None, "PAID"}
    /\ \A h \in Requests : req[h].op = "webhook" /\ pc[h] = "done" => Key(req[h]) \in seenKeys
    /\ \A h \in Handlers : charges[h] # None => charges[h].outcome # "FAILED"
    /\ \A g \in Guests \ visible : \E h \in Requests : req[h].guest = g

Scenario == Racing \/ Editing

=============================================================================
