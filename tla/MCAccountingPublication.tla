---------------------- MODULE MCAccountingPublication ----------------------
(* Small instances of AccountingPublication for TLC. *)
EXTENDS AccountingPublication, FiniteSets, TLC

CONSTANTS v1, v2, v3, p1, p2, svc, ann, k1, k2

RegularContents == {[kind |-> "regular", scoped |-> FALSE, facts |-> TRUE]}
CorrectionContents == {[kind |-> "regular", scoped |-> FALSE, facts |-> TRUE],
                       [kind |-> "reversal", scoped |-> TRUE, facts |-> TRUE]}
VersionSymmetry == Permutations(Versions)
RaceSymmetry == Permutations(Versions) \cup Permutations(Sessions)
                    \cup Permutations(RequestKeys)

\* Bound on the lifecycle, so that three versions race: the service makes and
\* validates every version, nothing fails and every decision approves.
ServicePrepares ==
    \A v \in Versions :
        /\ status[v] # "absent" => row[v].createdBy = svc
        /\ validatedBy[v] \in {None, svc}
        /\ status[v] # "rejected"
        /\ \A k \in Cycles, c \in Codes : results[v][k][c] # "fail"
        /\ \A t \in ApprovalTypes : \A d \in DOMAIN decisions[v][t] :
              decisions[v][t][d].decision = "approved"

\* Bound on the stories of a stream: a chain of releases of a budget, for which two
\* approvals are needed, or two versions of actual figures, one perhaps a
\* correction, for which as many as five are.
StreamStories ==
    /\ ServicePrepares
    /\ \/ \A v \in Existing :
             /\ row[v].stream = "budget" /\ row[v].content.kind = "regular"
             /\ \A t \in ApprovalTypes \ {"accounting_confirmed", "publication_approved"} :
                   decisions[v][t] = <<>>
       \/ /\ \A v \in Existing : row[v].stream = "actual"
          /\ Cardinality(Existing) <= 2
          /\ \A p \in Sessions : request[p] # None => request[p].key = "k1"
=============================================================================
