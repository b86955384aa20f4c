------------------------ MODULE KnowledgeReviewProofs ------------------------
(***************************************************************************)
(* Proofs about KnowledgeReview, for any metrics, candidates and           *)
(* reviewers.  IndInv is inductive: most steps change one request only and *)
(* share a lemma; a promotion is the step that could disturb the order in  *)
(* which metrics were certified.                                           *)
(***************************************************************************)
EXTENDS KnowledgeReview, WellFoundedInduction, TLAPS

\* NoRow and Idle have the shapes of rows and requests.
LEMMA Empties == NoRow \in Row /\ Idle \in Request /\ Idle.at = "idle"
<1>1. (CHOOSE t \in Titles : TRUE) \in Titles
  BY NamesAssumption
<1>2. NoRow \in Row
  BY <1>1 DEF NoRow, Row
<1>. QED
  BY <1>2 DEF Idle, Request, NoCandidate

\* The seeded registry satisfies the invariant.
LEMMA InitIsInductive == Init => IndInv
<1>. SUFFICES ASSUME Init PROVE IndInv
  OBVIOUS
<1>1. TypeOK
  BY NamesAssumption, Empties DEF Init, TypeOK, Quiet, Metric
<1>2. \A c \in Candidates : candidate[c].type = "QUERY_EXAMPLE" /\ candidate[c].status = "NONE"
                            /\ candidate[c].name \in Titles
  BY NamesAssumption DEF Init, NoRow
<1>3. RanksAreGiven /\ MetricsAreOld /\ SourcesStand
  BY <1>1 DEF Init, RanksAreGiven, MetricsAreOld, SourcesStand, TypeOK
<1>4. SnapshotsAreOld /\ ProposalsAreOld /\ OtherNamesAreTitles
  BY <1>2 DEF Init, Quiet, SnapshotsAreOld, ProposalsAreOld, OtherNamesAreTitles
<1>5. CopiesAreTrue /\ SettledIsPromoted
  BY Empties DEF Init, CopiesAreTrue, SettledIsPromoted
<1>6. CertifiedAsProposed /\ ApprovedIsPromoted
  BY <1>2 DEF Init, CertifiedAsProposed, ApprovedIsPromoted, Certified
<1>. QED
  BY <1>1, <1>3, <1>4, <1>5, <1>6 DEF IndInv

\* A step that changes one request, to one whose copy is true and which is not
\* past its promotion unless the promotion happened.
LEMMA RequestStep ==
    ASSUME IndInv, NEW r \in Reviewers, NEW x \in Request,
           UNCHANGED <<candidate, generation, metric, rank, clock, rules, examples>>,
           review' = [review EXCEPT ![r] = x],
           x.at # "idle" =>
              /\ x.of \in Candidates
              /\ candidate[x.of].status # "NONE"
              /\ x.row.type = candidate[x.of].type
              /\ x.row.name = candidate[x.of].name
              /\ x.row.dependencies = candidate[x.of].dependencies,
           x.at # "settle"
    PROVE  IndInv'
<1>1. TypeOK'
  BY DEF IndInv, TypeOK
<1>2. \A q \in Reviewers : review'[q] = IF q = r THEN x ELSE review[q]
  BY DEF IndInv, TypeOK
<1>3. RanksAreGiven' /\ SnapshotsAreOld' /\ MetricsAreOld'
  BY DEF IndInv, RanksAreGiven, SnapshotsAreOld, MetricsAreOld, Older
<1>4. ProposalsAreOld' /\ OtherNamesAreTitles' /\ SourcesStand'
  BY DEF IndInv, ProposalsAreOld, OtherNamesAreTitles, SourcesStand, Older
<1>5. CopiesAreTrue'
  BY <1>2 DEF IndInv, CopiesAreTrue
<1>6. SettledIsPromoted'
  BY <1>2 DEF IndInv, SettledIsPromoted, Certified
<1>7. CertifiedAsProposed' /\ ApprovedIsPromoted'
  BY DEF IndInv, CertifiedAsProposed, ApprovedIsPromoted, Certified
<1>. QED
  BY <1>1, <1>3, <1>4, <1>5, <1>6, <1>7 DEF IndInv

\* The steps of a route that only read, and a route that ends early.
LEMMA ReadingSteps ==
    ASSUME IndInv, NEW r \in Reviewers,
           StartReject(r) \/ StartApprove(r) \/ ReadCertified(r) \/ ReadChildren(r)
             \/ Abort(r)
    PROVE  IndInv'
<1>0. candidate \in [Candidates -> Row] /\ review[r] \in Request
  BY DEF IndInv, TypeOK
<1>1. CASE StartReject(r)
  <2>1. PICK c \in Candidates :
          /\ candidate[c].status # "NONE"
          /\ review' = [review EXCEPT ![r] =
                [at |-> "reject", of |-> c, row |-> candidate[c], keys |-> {}]]
    BY <1>1 DEF StartReject
  <2>2. [at |-> "reject", of |-> c, row |-> candidate[c], keys |-> {}] \in Request
    BY <1>0 DEF Request
  <2>. QED
    BY <1>1, <2>1, <2>2, RequestStep DEF StartReject
<1>2. CASE StartApprove(r)
  <2>1. PICK c \in Candidates :
          /\ candidate[c].status \in {"PROPOSED", "APPROVED"}
          /\ review' = [review EXCEPT ![r] =
                [at |-> IF candidate[c].type = "METRIC" THEN "certified" ELSE "promote",
                 of |-> c, row |-> candidate[c], keys |-> {}]]
    BY <1>2 DEF StartApprove
  <2>2. PICK a \in {"certified", "promote"} :
          review' = [review EXCEPT ![r] =
                       [at |-> a, of |-> c, row |-> candidate[c], keys |-> {}]]
    BY <2>1
  <2>3. [at |-> a, of |-> c, row |-> candidate[c], keys |-> {}] \in Request
    BY <1>0 DEF Request
  <2>. DEFINE x == [at |-> a, of |-> c, row |-> candidate[c], keys |-> {}]
  <2>4. /\ x.at \in {"certified", "promote"}
        /\ x.of = c
        /\ x.row = candidate[c]
        /\ candidate[c].status # "NONE"
    BY <2>1
  <2>5. UNCHANGED <<candidate, generation, metric, rank, clock, rules, examples>>
    BY <1>2 DEF StartApprove
  <2>6. x \in Request /\ review' = [review EXCEPT ![r] = x]
    BY <2>2, <2>3, SMTT(60)
  <2>. HIDE DEF x
  <2>. QED
    BY <2>4, <2>5, <2>6, RequestStep
<1>3. CASE ReadCertified(r)
  <2>. DEFINE x == [review[r] EXCEPT !.at = "children", !.keys = Certified]
  <2>1. x \in Request /\ x.at = "children" /\ x.of = review[r].of /\ x.row = review[r].row
    BY <1>0 DEF Request, Certified
  <2>2. review' = [review EXCEPT ![r] = x]
    BY <1>3 DEF ReadCertified, IndInv, TypeOK
  <2>3. /\ x.of \in Candidates
        /\ candidate[x.of].status # "NONE"
        /\ x.row.type = candidate[x.of].type
        /\ x.row.name = candidate[x.of].name
        /\ x.row.dependencies = candidate[x.of].dependencies
    BY <1>3, <2>1 DEF ReadCertified, IndInv, CopiesAreTrue
  <2>. HIDE DEF x
  <2>. QED
    BY <1>3, <2>1, <2>2, <2>3, RequestStep DEF ReadCertified
<1>4. CASE ReadChildren(r)
  <2>. DEFINE x == [review[r] EXCEPT !.at = "promote"]
  <2>1. x \in Request /\ x.at = "promote" /\ x.of = review[r].of /\ x.row = review[r].row
    BY <1>0 DEF Request
  <2>2. review' = [review EXCEPT ![r] = x]
    BY <1>4 DEF ReadChildren, IndInv, TypeOK
  <2>3. /\ x.of \in Candidates
        /\ candidate[x.of].status # "NONE"
        /\ x.row.type = candidate[x.of].type
        /\ x.row.name = candidate[x.of].name
        /\ x.row.dependencies = candidate[x.of].dependencies
    BY <1>4, <2>1 DEF ReadChildren, IndInv, CopiesAreTrue
  <2>. HIDE DEF x
  <2>. QED
    BY <1>4, <2>1, <2>2, <2>3, RequestStep DEF ReadChildren
<1>5. CASE Abort(r)
  BY <1>5, Empties, RequestStep DEF Abort
<1>. QED
  BY <1>1, <1>2, <1>3, <1>4, <1>5

\* Writing a verdict back from the copy: the row keeps what it proposes.
LEMMA VerdictStep ==
    ASSUME IndInv, NEW r \in Reviewers, Reject(r) \/ Settle(r)
    PROVE  IndInv'
<1>. DEFINE c == review[r].of
            v == IF review[r].at = "settle" THEN "APPROVED" ELSE "REJECTED"
            row == [review[r].row EXCEPT !.status = v]
<1>1. /\ c \in Candidates
      /\ candidate[c].status # "NONE"
      /\ review[r].row \in Row
      /\ review[r].row.type = candidate[c].type
      /\ review[r].row.name = candidate[c].name
      /\ review[r].row.dependencies = candidate[c].dependencies
  BY DEF IndInv, TypeOK, CopiesAreTrue, Reject, Settle, Request
<1>2. /\ candidate' = [candidate EXCEPT ![c] = row]
      /\ review' = [review EXCEPT ![r] = Idle]
      /\ UNCHANGED <<generation, metric, rank, clock, rules, examples>>
  BY DEF Reject, Settle
<1>3. /\ row \in Row
      /\ row.status = v /\ v \in {"APPROVED", "REJECTED"}
      /\ row.type = candidate[c].type
      /\ row.name = candidate[c].name
      /\ row.dependencies = candidate[c].dependencies
  BY <1>1 DEF Row
<1>4. v = "APPROVED" => review[r].at = "settle"
  OBVIOUS
<1>. HIDE DEF c, v, row
<1>5. TypeOK'
  BY <1>1, <1>2, <1>3, Empties DEF IndInv, TypeOK
<1>6. \A d \in Candidates :
        /\ candidate'[d].type = candidate[d].type
        /\ candidate'[d].name = candidate[d].name
        /\ candidate'[d].dependencies = candidate[d].dependencies
        /\ candidate'[d].status = IF d = c THEN v ELSE candidate[d].status
  BY <1>1, <1>2, <1>3 DEF IndInv, TypeOK
<1>7. \A q \in Reviewers : review'[q] = IF q = r THEN Idle ELSE review[q]
  BY <1>2 DEF IndInv, TypeOK
<1>8. RanksAreGiven' /\ MetricsAreOld'
  BY <1>2 DEF IndInv, RanksAreGiven, MetricsAreOld, Older
<1>9. SnapshotsAreOld'
  <2>1. generation[c].at # "thinking"
    BY <1>1 DEF IndInv, SnapshotsAreOld
  <2>. QED
    BY <1>2, <1>6, <2>1 DEF IndInv, SnapshotsAreOld, Older
<1>10. ProposalsAreOld' /\ OtherNamesAreTitles'
  BY <1>2, <1>6 DEF IndInv, ProposalsAreOld, OtherNamesAreTitles, Older
<1>11. SourcesStand'
  <2>1. \A n \in Names : metric[n].source \in Candidates \union {NoCandidate}
    BY DEF IndInv, TypeOK, Metric
  <2>. QED
    BY <1>2, <1>3, <1>6, <2>1 DEF IndInv, SourcesStand
<1>12. CopiesAreTrue'
  BY <1>3, <1>6, <1>7, Empties, SMTT(60) DEF IndInv, CopiesAreTrue
<1>13. SettledIsPromoted'
  BY <1>2, <1>7, Empties DEF IndInv, SettledIsPromoted, Certified
<1>14. CertifiedAsProposed'
  <2>1. \A n \in Names : metric[n].source \in Candidates \union {NoCandidate}
    BY DEF IndInv, TypeOK, Metric
  <2>. QED
    BY <1>2, <1>6, <2>1 DEF IndInv, CertifiedAsProposed, Certified
<1>15. ApprovedIsPromoted'
  <2>. SUFFICES ASSUME NEW d \in Candidates, candidate'[d].status = "APPROVED"
                PROVE  /\ candidate[d].type = "METRIC" => candidate[d].name \in Certified
                       /\ candidate[d].type = "BUSINESS_RULE" => candidate[d].name \in rules
                       /\ candidate[d].type = "QUERY_EXAMPLE" => d \in examples
    BY <1>2, <1>6 DEF ApprovedIsPromoted, Certified
  <2>1. CASE d = c
    BY <1>1, <1>4, <1>6, <2>1 DEF IndInv, SettledIsPromoted, c
  <2>2. CASE d # c
    BY <1>6, <2>2 DEF IndInv, ApprovedIsPromoted
  <2>. QED
    BY <2>1, <2>2
<1>. QED
  BY <1>5, <1>8, <1>9, <1>10, <1>11, <1>12, <1>13, <1>14, <1>15 DEF IndInv

\* A generation that starts has read every metric certified so far, and none
\* certified later.
LEMMA GenerationStep ==
    ASSUME IndInv, NEW c \in Candidates, ReadRegistry(c) \/ Decline(c)
    PROVE  IndInv'
<1>1. PICK g \in [at : {"idle", "thinking"}, seen : SUBSET Names] :
        /\ generation' = [generation EXCEPT ![c] = g]
        /\ g.at = "thinking" => candidate[c].status = "NONE" /\ g.seen = Certified
  <2>1. Certified \in SUBSET Names /\ Quiet \in [at : {"idle", "thinking"}, seen : SUBSET Names]
        /\ Quiet.at = "idle"
    BY DEF Certified, Quiet
  <2>2. [at |-> "thinking", seen |-> Certified] \in
           [at : {"idle", "thinking"}, seen : SUBSET Names]
    BY <2>1
  <2>3. CASE ReadRegistry(c)
    BY <2>2, <2>3 DEF ReadRegistry
  <2>4. CASE Decline(c)
    BY <2>1, <2>4 DEF Decline
  <2>. QED
    BY <2>3, <2>4
<1>2. UNCHANGED <<candidate, metric, rank, clock, rules, examples, review>>
  BY DEF ReadRegistry, Decline
<1>3. TypeOK'
  BY <1>1, <1>2 DEF IndInv, TypeOK
<1>4. SnapshotsAreOld'
  <2>1. \A b \in Candidates : generation'[b] = IF b = c THEN g ELSE generation[b]
    BY <1>1 DEF IndInv, TypeOK
  <2>2. g.at = "thinking" => /\ \A d \in g.seen : rank[d] # 0
                             /\ \A n \in Names \ g.seen : rank[n] = 0
    BY <1>1 DEF Certified
  <2>. QED
    BY <1>1, <1>2, <2>1, <2>2 DEF IndInv, SnapshotsAreOld, Older
<1>5. RanksAreGiven' /\ MetricsAreOld' /\ ProposalsAreOld' /\ OtherNamesAreTitles'
  BY <1>2, SMTT(60) DEF IndInv, RanksAreGiven, MetricsAreOld, ProposalsAreOld, OtherNamesAreTitles,
     Older
<1>6. SourcesStand' /\ CopiesAreTrue' /\ SettledIsPromoted'
  BY <1>2 DEF IndInv, SourcesStand, CopiesAreTrue, SettledIsPromoted, Certified
<1>7. CertifiedAsProposed' /\ ApprovedIsPromoted'
  BY <1>2 DEF IndInv, CertifiedAsProposed, ApprovedIsPromoted, Certified
<1>. QED
  BY <1>3, <1>4, <1>5, <1>6, <1>7 DEF IndInv

\* A proposal is written over no row, and names what its reading admits.
LEMMA ProposalStep ==
    ASSUME IndInv, NEW c \in Candidates, Propose(c)
    PROVE  IndInv'
<1>1. PICK type \in Types, name \in Names \union Titles, dependencies \in SUBSET Names :
        /\ IF type = "METRIC"
           THEN name \in Names /\ Cardinality(dependencies) <= MaxDependencies
           ELSE name \in Titles /\ dependencies = {}
        /\ Admitted(type, name, dependencies, generation[c].seen)
        /\ candidate' = [candidate EXCEPT ![c] =
              [status |-> "PROPOSED", type |-> type, name |-> name,
               dependencies |-> dependencies]]
  BY DEF Propose
<1>. DEFINE row == [status |-> "PROPOSED", type |-> type, name |-> name,
                    dependencies |-> dependencies]
<1>2. /\ generation[c].at = "thinking"
      /\ generation' = [generation EXCEPT ![c] = Quiet]
      /\ UNCHANGED <<metric, rank, clock, rules, examples, review>>
  BY DEF Propose
<1>3. row \in Row
  BY NamesAssumption DEF Row
<1>4. /\ row.status = "PROPOSED" /\ row.type = type /\ row.name = name
      /\ row.dependencies = dependencies
  OBVIOUS
<1>5. candidate' = [candidate EXCEPT ![c] = row]
  BY <1>1
<1>. HIDE DEF row
<1>6. candidate[c].status = "NONE"
  BY <1>2 DEF IndInv, SnapshotsAreOld
<1>7. \A b \in Candidates : candidate'[b] = IF b = c THEN row ELSE candidate[b]
  BY <1>5 DEF IndInv, TypeOK
<1>8. \A b \in Candidates : generation'[b] = IF b = c THEN Quiet ELSE generation[b]
  BY <1>2 DEF IndInv, TypeOK
<1>9. TypeOK'
  <2>1. Quiet \in [at : {"idle", "thinking"}, seen : SUBSET Names]
    BY DEF Quiet
  <2>. QED
    BY <1>2, <1>3, <1>5, <2>1 DEF IndInv, TypeOK
<1>10. SnapshotsAreOld'
  <2>1. Quiet.at # "thinking"
    BY DEF Quiet
  <2>. QED
    BY <1>2, <1>7, <1>8, <2>1 DEF IndInv, SnapshotsAreOld, Older
<1>11. RanksAreGiven' /\ MetricsAreOld'
  BY <1>2 DEF IndInv, RanksAreGiven, MetricsAreOld, Older
<1>12. ProposalsAreOld'
  <2>1. type = "METRIC" => name \in Names /\ \A d \in dependencies : Older(d, name)
    BY <1>1, <1>2 DEF IndInv, SnapshotsAreOld, Admitted, ValidExpression
  <2>. QED
    BY <1>2, <1>4, <1>7, <2>1 DEF IndInv, ProposalsAreOld, Older
<1>13. OtherNamesAreTitles'
  BY <1>1, <1>4, <1>7 DEF IndInv, OtherNamesAreTitles
<1>14. SourcesStand'
  <2>1. \A n \in Names : metric[n].source \in Candidates \union {NoCandidate}
    BY DEF IndInv, TypeOK, Metric
  <2>. QED
    BY <1>2, <1>4, <1>7, <2>1 DEF IndInv, SourcesStand
<1>15. CopiesAreTrue' /\ SettledIsPromoted'
  BY <1>2, <1>6, <1>7 DEF IndInv, CopiesAreTrue, SettledIsPromoted, Certified
<1>16. CertifiedAsProposed'
  <2>1. \A n \in Names : /\ metric[n].source \in Candidates \union {NoCandidate}
                         /\ metric[n].source # c
    BY <1>6, NamesAssumption DEF IndInv, TypeOK, Metric, SourcesStand, NoCandidate
  <2>. QED
    BY <1>2, <1>7, <2>1 DEF IndInv, CertifiedAsProposed, Certified
<1>17. ApprovedIsPromoted'
  BY <1>2, <1>4, <1>7 DEF IndInv, ApprovedIsPromoted, Certified
<1>. QED
  BY <1>9, <1>10, <1>11, <1>12, <1>13, <1>14, <1>15, <1>16, <1>17 DEF IndInv

\* What a promoted request looks like: only its place changed.
LEMMA Settling ==
    ASSUME IndInv, NEW r \in Reviewers, review[r].at = "promote",
           review' = [review EXCEPT ![r].at = "settle"]
    PROVE  /\ review' \in [Reviewers -> Request]
           /\ review'[r].at = "settle"
           /\ \A q \in Reviewers : q # r => review'[q] = review[q]
           /\ \A q \in Reviewers : review'[q].of = review[q].of /\ review'[q].row = review[q].row
<1>1. review[r] \in Request /\ review \in [Reviewers -> Request]
  BY DEF IndInv, TypeOK
<1>. DEFINE x == [review[r] EXCEPT !.at = "settle"]
<1>2. x \in Request /\ x.at = "settle" /\ x.of = review[r].of /\ x.row = review[r].row
  BY <1>1 DEF Request
<1>3. review' = [review EXCEPT ![r] = x]
  BY <1>1
<1>. HIDE DEF x
<1>. QED
  BY <1>1, <1>2, <1>3

\* Certifying a metric gives its name the latest rank or none, so the order of
\* the others stands, and what the metric depends on is older than it.
LEMMA PromotionStep ==
    ASSUME IndInv, NEW r \in Reviewers, PromoteMetric(r)
    PROVE  IndInv'
<1>. DEFINE c == review[r].of
            name == review[r].row.name
            deps == review[r].row.dependencies
<1>1. /\ review[r].at = "promote"
      /\ metric' = [metric EXCEPT ![name] = [dependencies |-> deps, source |-> c]]
      /\ rank' = [rank EXCEPT ![name] = IF @ = 0 THEN clock + 1 ELSE @]
      /\ clock' = IF rank[name] = 0 THEN clock + 1 ELSE clock
      /\ review' = [review EXCEPT ![r].at = "settle"]
      /\ UNCHANGED <<candidate, generation, rules, examples>>
  BY DEF PromoteMetric, Upserted
<1>2. /\ c \in Candidates
      /\ candidate[c].status # "NONE"
      /\ candidate[c].type = "METRIC" /\ candidate[c].name = name
      /\ candidate[c].dependencies = deps
      /\ review[r].row.type = "METRIC"
  BY DEF PromoteMetric, IndInv, CopiesAreTrue
<1>3. name \in Names /\ \A d \in deps : Older(d, name)
  BY <1>2 DEF IndInv, ProposalsAreOld
<1>4. deps \in SUBSET Names
  BY <1>2 DEF IndInv, TypeOK, Row
<1>5. review' \in [Reviewers -> Request] /\ review'[r].at = "settle"
      /\ (\A q \in Reviewers : q # r => review'[q] = review[q])
      /\ (\A q \in Reviewers : review'[q].of = review[q].of /\ review'[q].row = review[q].row)
  BY <1>1, Settling
<1>. HIDE DEF c, name, deps
<1>6. /\ [dependencies |-> deps, source |-> c] \in Metric
      /\ [dependencies |-> deps, source |-> c].dependencies = deps
      /\ [dependencies |-> deps, source |-> c].source = c
  BY <1>2, <1>4 DEF Metric
<1>7. \A n \in Names : /\ n = name => metric'[n].dependencies = deps /\ metric'[n].source = c
                       /\ n # name => metric'[n] = metric[n]
  BY <1>1, <1>3, <1>6 DEF IndInv, TypeOK
<1>8. /\ \A n \in Names : rank[n] \in Nat /\ rank[n] <= clock
      /\ clock \in Nat
  BY DEF IndInv, TypeOK, RanksAreGiven
<1>9. \A n \in Names : rank'[n] = IF n = name /\ rank[n] = 0 THEN clock + 1 ELSE rank[n]
  BY <1>1, <1>3 DEF IndInv, TypeOK
<1>10. TypeOK'
  <2>1. metric' \in [Names -> Metric]
    BY <1>1, <1>6 DEF IndInv, TypeOK
  <2>2. clock' \in Nat /\ \A n \in Names : rank'[n] \in Nat
    BY <1>1, <1>8, <1>9
  <2>3. rank' = [n \in Names |-> rank'[n]]
    BY <1>1 DEF IndInv, TypeOK
  <2>. QED
    BY <1>1, <1>5, <2>1, <2>2, <2>3 DEF IndInv, TypeOK
<1>11. \A d, n \in Names : Older(d, n) => Older(d, n)'
  BY <1>8, <1>9 DEF Older
<1>12. Certified \subseteq Certified' /\ Certified' = Certified \union {name}
  BY <1>3, <1>8, <1>9 DEF Certified
<1>13. RanksAreGiven'
  BY <1>1, <1>3, <1>7, <1>8, <1>9 DEF IndInv, RanksAreGiven
<1>14. SnapshotsAreOld'
  <2>1. \A b \in Candidates : generation[b].seen \in SUBSET Names
    BY DEF IndInv, TypeOK
  <2>2. \A d \in Names : rank[d] # 0 => rank'[d] # 0
    BY <1>8, <1>9
  <2>. QED
    BY <1>1, <1>11, <2>1, <2>2 DEF IndInv, SnapshotsAreOld
<1>15. ProposalsAreOld' /\ OtherNamesAreTitles'
  <2>1. \A b \in Candidates : candidate[b].dependencies \in SUBSET Names
    BY DEF IndInv, TypeOK, Row
  <2>. QED
    BY <1>1, <1>11, <2>1 DEF IndInv, ProposalsAreOld, OtherNamesAreTitles
<1>16. MetricsAreOld'
  <2>1. \A n \in Names : metric[n].dependencies \in SUBSET Names
    BY SMTT(60) DEF IndInv, TypeOK, Metric
  <2>. QED
    BY <1>3, <1>4, <1>7, <1>11, <2>1 DEF IndInv, MetricsAreOld
<1>17. SourcesStand' /\ CopiesAreTrue'
  BY <1>1, <1>2, <1>5, <1>7, SMTT(60) DEF IndInv, SourcesStand, CopiesAreTrue
<1>18. SettledIsPromoted'
  BY <1>1, <1>2, <1>5, <1>12 DEF IndInv, SettledIsPromoted, name
<1>19. CertifiedAsProposed'
  <2>1. deps \subseteq Certified
    BY <1>3, <1>4 DEF Older, Certified
  <2>2. c # NoCandidate
    BY <1>2, NamesAssumption DEF NoCandidate
  <2>. SUFFICES ASSUME NEW n \in Certified'
                PROVE  /\ metric'[n].dependencies \subseteq Certified'
                       /\ metric'[n].source = NoCandidate =>
                            n \in Seeds /\ metric'[n].dependencies = {}
                       /\ metric'[n].source # NoCandidate =>
                            /\ candidate[metric'[n].source].type = "METRIC"
                            /\ candidate[metric'[n].source].name = n
                            /\ candidate[metric'[n].source].dependencies
                                 = metric'[n].dependencies
    BY <1>1 DEF CertifiedAsProposed
  <2>3. n \in Names
    BY DEF Certified
  <2>4. CASE n = name
    BY <1>2, <1>7, <1>12, <2>1, <2>2, <2>3, <2>4
  <2>5. CASE n # name
    BY <1>7, <1>12, <2>3, <2>5 DEF IndInv, CertifiedAsProposed
  <2>. QED
    BY <2>4, <2>5
<1>20. ApprovedIsPromoted'
  BY <1>1, <1>12 DEF IndInv, ApprovedIsPromoted
<1>. QED
  BY <1>10, <1>13, <1>14, <1>15, <1>16, <1>17, <1>18, <1>19, <1>20 DEF IndInv

\* Rules and examples only grow.
LEMMA GuidanceStep ==
    ASSUME IndInv,
           \/ AuthorInstruction
           \/ \E r \in Reviewers : PromoteRule(r) \/ PromoteExample(r)
    PROVE  IndInv'
<1>1. UNCHANGED <<candidate, generation, metric, rank, clock>>
  BY DEF AuthorInstruction, PromoteRule, PromoteExample
<1>2. RanksAreGiven' /\ SnapshotsAreOld' /\ MetricsAreOld'
  BY <1>1 DEF IndInv, RanksAreGiven, SnapshotsAreOld, MetricsAreOld, Older
<1>3. ProposalsAreOld' /\ OtherNamesAreTitles' /\ SourcesStand' /\ CertifiedAsProposed'
  BY <1>1 DEF IndInv, ProposalsAreOld, OtherNamesAreTitles, SourcesStand,
     CertifiedAsProposed, Certified, Older
<1>4. CASE AuthorInstruction
  <2>1. rules \subseteq rules' /\ rules' \subseteq Titles /\ UNCHANGED <<examples, review>>
    BY <1>4 DEF AuthorInstruction, IndInv, TypeOK
  <2>2. TypeOK' /\ CopiesAreTrue'
    BY <1>1, <2>1 DEF IndInv, TypeOK, CopiesAreTrue
  <2>3. SettledIsPromoted' /\ ApprovedIsPromoted'
    BY <1>1, <2>1 DEF IndInv, SettledIsPromoted, ApprovedIsPromoted, Certified
  <2>. QED
    BY <1>2, <1>3, <2>2, <2>3 DEF IndInv
<1>5. ASSUME NEW r \in Reviewers, PromoteRule(r) \/ PromoteExample(r)
      PROVE  IndInv'
  <2>1. review[r].at = "promote" /\ review' = [review EXCEPT ![r].at = "settle"]
    BY <1>5 DEF PromoteRule, PromoteExample
  <2>2. review' \in [Reviewers -> Request] /\ review'[r].at = "settle"
        /\ (\A q \in Reviewers : q # r => review'[q] = review[q])
        /\ (\A q \in Reviewers : review'[q].of = review[q].of /\ review'[q].row = review[q].row)
    BY <2>1, Settling
  <2>3. /\ review[r].of \in Candidates
        /\ review[r].row.type # "METRIC" => review[r].row.name \in Titles
    BY <2>1 DEF IndInv, CopiesAreTrue, OtherNamesAreTitles
  <2>4. /\ rules \subseteq rules' /\ rules' \subseteq Titles
        /\ examples \subseteq examples' /\ examples' \subseteq Candidates
        /\ review[r].row.type # "METRIC"
        /\ review[r].row.type = "BUSINESS_RULE" => review[r].row.name \in rules'
        /\ review[r].row.type = "QUERY_EXAMPLE" => review[r].of \in examples'
    BY <1>5, <2>3 DEF PromoteRule, PromoteExample, IndInv, TypeOK
  <2>5. TypeOK'
    BY <1>1, <2>2, <2>4 DEF IndInv, TypeOK
  <2>6. CopiesAreTrue'
    BY <1>1, <2>1, <2>2 DEF IndInv, CopiesAreTrue
  <2>7. SettledIsPromoted'
    BY <1>1, <2>2, <2>4 DEF IndInv, SettledIsPromoted, Certified
  <2>8. ApprovedIsPromoted'
    BY <1>1, <2>4 DEF IndInv, ApprovedIsPromoted, Certified
  <2>. QED
    BY <1>2, <1>3, <2>5, <2>6, <2>7, <2>8 DEF IndInv
<1>. QED
  BY <1>4, <1>5

\* A stuttering step changes nothing.
LEMMA StutteringStep == ASSUME IndInv, UNCHANGED vars PROVE IndInv'
<1>1. TypeOK' /\ RanksAreGiven' /\ SnapshotsAreOld' /\ MetricsAreOld'
  BY DEF IndInv, TypeOK, RanksAreGiven, SnapshotsAreOld, MetricsAreOld, Older, vars
<1>2. ProposalsAreOld' /\ OtherNamesAreTitles' /\ SourcesStand' /\ CopiesAreTrue'
  BY DEF IndInv, ProposalsAreOld, OtherNamesAreTitles, SourcesStand, CopiesAreTrue, Older,
     vars
<1>3. SettledIsPromoted' /\ CertifiedAsProposed' /\ ApprovedIsPromoted'
  BY DEF IndInv, SettledIsPromoted, CertifiedAsProposed, ApprovedIsPromoted, Certified, vars
<1>. QED
  BY <1>1, <1>2, <1>3 DEF IndInv

\* IndInv holds in every reachable state.
THEOREM Inductive == Spec => []IndInv
<1>1. IndInv /\ [Next]_vars => IndInv'
  <2>. SUFFICES ASSUME IndInv, [Next]_vars PROVE IndInv'
    OBVIOUS
  <2>1. ASSUME NEW c \in Candidates, ReadRegistry(c) \/ Propose(c) \/ Decline(c)
        PROVE  IndInv'
    BY <2>1, GenerationStep, ProposalStep
  <2>2. ASSUME NEW r \in Reviewers,
               StartReject(r) \/ StartApprove(r) \/ ReadCertified(r) \/ ReadChildren(r)
                 \/ Abort(r)
        PROVE  IndInv'
    BY <2>2, ReadingSteps
  <2>3. ASSUME NEW r \in Reviewers, Reject(r) \/ Settle(r)
        PROVE  IndInv'
    BY <2>3, VerdictStep
  <2>4. ASSUME NEW r \in Reviewers, PromoteMetric(r)
        PROVE  IndInv'
    BY <2>4, PromotionStep
  <2>5. ASSUME \/ AuthorInstruction
               \/ \E r \in Reviewers : PromoteRule(r) \/ PromoteExample(r)
        PROVE  IndInv'
    BY <2>5, GuidanceStep
  <2>6. CASE UNCHANGED vars
    BY <2>6, StutteringStep
  <2>. QED
    BY <2>1, <2>2, <2>3, <2>4, <2>5, <2>6 DEF Next
<1>. QED
  BY <1>1, InitIsInductive, PTL DEF Spec

\* Every nonempty set of metrics has one that was certified first, and it
\* depends on no other of the set.
LEMMA OldestFirst == IndInv => NoCircularMetric
<1>. SUFFICES ASSUME IndInv, NEW T \in SUBSET Names, T # {}
              PROVE  \E k \in T : metric[k].dependencies \intersect T = {}
  BY DEF NoCircularMetric, WellFounded
<1>. DEFINE R == {rank[n] : n \in T}
<1>1. R \subseteq Nat /\ R # {}
  BY DEF IndInv, TypeOK
<1>2. PICK m \in R : \A y \in R : ~(<<y, m>> \in OpToRel(<, Nat))
  BY <1>1, NatLessThanWellFounded, WFMin
<1>3. \A y \in R : ~(y < m)
  BY <1>1, <1>2 DEF OpToRel
<1>4. PICK k \in T : rank[k] = m
  BY <1>2
<1>5. CASE m = 0
  BY <1>4, <1>5 DEF IndInv, RanksAreGiven
<1>6. CASE m # 0
  <2>1. \A d \in metric[k].dependencies : rank[d] < m
    BY <1>4, <1>6 DEF IndInv, MetricsAreOld, Older
  <2>. QED
    BY <1>3, <1>4, <2>1
<1>. QED
  BY <1>5, <1>6

\* Rows, requests and generations stay well formed (TypeOK).
THEOREM ReviewTypeCorrect == Spec => []TypeOK
<1>1. IndInv => TypeOK
  BY DEF IndInv
<1>. QED
  BY <1>1, Inductive, PTL

\* However approvals race, no certified metric depends on itself through others.
THEOREM MetricsAreAcyclic == Spec => []NoCircularMetric
<1>. QED
  BY OldestFirst, Inductive, PTL

\* A certified metric is what its source candidate proposed, over certified
\* metrics.
THEOREM CertificationIsTrue == Spec => []CertifiedAsProposed
<1>1. IndInv => CertifiedAsProposed
  BY DEF IndInv
<1>. QED
  BY <1>1, Inductive, PTL

\* A candidate that reads APPROVED has been promoted.
THEOREM ApprovalTakesEffect == Spec => []ApprovedIsPromoted
<1>1. IndInv => ApprovedIsPromoted
  BY DEF IndInv
<1>. QED
  BY <1>1, Inductive, PTL
==============================================================================
