--------------------------- MODULE DialogueProofs ---------------------------
(***************************************************************************)
(* Proofs about parts a question passes through: the governed queries it   *)
(* is routed to (Routing), the screen it is asked and shown on             *)
(* (Workspace), the toolbox that reads the database for it (Toolbox), the  *)
(* model gateway that is called for it (ModelGateway), the periods and     *)
(* names it is read for (TimePlanning, Entities), the checks of its answer *)
(* (Grounding, Lineage) and the harness that judges the whole              *)
(* (EvalHarness).  The parts share no state; each theorem is about one.    *)
(***************************************************************************)
EXTENDS Routing, Workspace, Toolbox, ModelGateway, EvalHarness, Grounding, Lineage, TimePlanning,
    Entities,
    FiniteSetTheorems, FunctionTheorems, WellFoundedInduction, TLAPS

-----------------------------------------------------------------------------
(* Governed queries *)

(* A set of natural numbers has a least one: the numbers are well ordered. *)
LEMMA LeastOf ==
    ASSUME NEW T, T \subseteq Nat, T # {}
    PROVE  \E x \in T : \A y \in T : x <= y
  <1> DEFINE R == OpToRel(<, Nat)
  <1>1. \A x, y \in Nat : <<x, y>> \in R <=> x < y
    BY DEF OpToRel
  <1>2. IsWellFoundedOn(R, Nat)
    BY NatLessThanWellFounded
  <1> HIDE DEF R
  <1>3. PICK x \in T : \A y \in T : ~ (<<y, x>> \in R)
    BY <1>2, WFMin
  <1>4. ASSUME NEW y \in T
        PROVE  x <= y
    <2>1. x \in Nat /\ y \in Nat /\ <<y, x>> \notin R
      BY <1>3
    <2>2. ~(y < x)
      BY <1>1, <2>1
    <2> QED
      BY <2>1, <2>2
  <1> QED
    BY <1>4

(* Some places of a sequence have a newest one: the least of their bounds. *)
LEMMA NewestIsOne ==
    ASSUME NEW n \in Nat, NEW places \in SUBSET (1..n), places # {}
    PROVE  Newest(places) \in places
  <1> DEFINE bounds == {b \in 0..n : \A j \in places : j <= b}
  <1>1. n \in bounds /\ bounds \subseteq Nat
    OBVIOUS
  <1>2. PICK b \in bounds : \A c \in bounds : b <= c
    <2> HIDE DEF bounds
    <2> QED
      BY <1>1, LeastOf
  <1>3. b \in places
    <2>1. SUFFICES ASSUME b \notin places PROVE FALSE
      OBVIOUS
    <2>2. ASSUME NEW j \in places
          PROVE  j \in 1..n /\ j <= b - 1 /\ b \in 1..n
      BY <2>1
    <2>3. b - 1 \in 0..n /\ ~(b <= b - 1)
      <3>1. PICK j \in places : TRUE
        OBVIOUS
      <3>2. b \in 1..n
        BY <2>2, <3>1
      <3> QED
        BY <3>2
    <2>4. b - 1 \in bounds
      BY <2>2, <2>3
    <2> QED
      BY <1>2, <2>3, <2>4
  <1>4. \E i \in places : \A j \in places : j <= i
    BY <1>3
  <1> QED
    BY <1>4 DEF Newest

(* The newest of some places and one after them all is that one. *)
LEMMA NewestIsLast ==
    ASSUME NEW n \in Nat, NEW places \in SUBSET (1..n)
    PROVE  Newest(places \cup {n + 1}) = n + 1
  <1>1. n + 1 \in places \cup {n + 1} /\ \A j \in places \cup {n + 1} : j <= n + 1
    OBVIOUS
  <1>2. ASSUME NEW i \in places \cup {n + 1}, \A j \in places \cup {n + 1} : j <= i
        PROVE  i = n + 1
    BY <1>2
  <1> QED
    BY <1>1, <1>2 DEF Newest

(* What one question asks of a metric is what the planner makes of it afresh
   (MetricRequestPlanner.plan). *)
LEMMA AskedAfresh ==
    ASSUME QuestionsSound, NEW q \in Questions, NEW m,
           NEW named, named = Named(q, Metrics[m]),
           NEW limit, limit = IF q.top > 0 THEN q.top ELSE DefaultLimit
    PROVE  AskedFor(m, <<q>>) =
             [metric |-> m, dims |-> {} \cup (q.by \cap Metrics[m].dims), filters |-> named,
              monthly |-> FALSE \/ q.monthly, limit |-> limit,
              ranked |-> FALSE \/ q.top > 0 \/ limit = 1]
  <1> DEFINE dims == Metrics[m].dims
             one == <<q>>
  <1>1. DOMAIN one = {1} /\ one[1] = q
    OBVIOUS
  <1>2. \A d : Valued(d, one) = IF q.entity[d] # Nothing THEN {1} ELSE {}
    BY <1>1 DEF Valued
  <1>3. Limited(one) = IF q.top > 0 THEN {1} ELSE {}
    BY <1>1 DEF Limited
  <1>4. Newest({1}) = 1
    BY DEF Newest
  <1> HIDE DEF one
  <1>5. dims \cap UNION {one[i].by : i \in DOMAIN one} = {} \cup (q.by \cap dims)
    BY <1>1
  <1>6. {[dim |-> d, value |-> one[Newest(Valued(d, one))].entity[d]] :
           d \in {e \in dims : Valued(e, one) # {}}} = named
    BY <1>1, <1>2, <1>4 DEF Named
  <1>7. (\E i \in DOMAIN one : one[i].monthly) <=> (FALSE \/ q.monthly)
    BY <1>1
  <1>8. (IF Limited(one) = {} THEN DefaultLimit ELSE one[Newest(Limited(one))].top) = limit
    BY <1>1, <1>3, <1>4
  <1>9. Limited(one) # {} <=> (FALSE \/ q.top > 0 \/ limit = 1)
    BY <1>3 DEF DefaultLimit
  <1>10. AskedFor(m, one) =
             [metric |-> m, dims |-> {} \cup (q.by \cap Metrics[m].dims), filters |-> named,
              monthly |-> FALSE \/ q.monthly, limit |-> limit,
              ranked |-> FALSE \/ q.top > 0 \/ limit = 1]
    BY <1>5, <1>6, <1>7, <1>8, <1>9 DEF AskedFor
  <1> QED
    BY <1>10 DEF one

(* What one more question asks is what the planner makes of it and of the query
   it refers to: dimensions are added, a value replaces the one its dimension
   had, a limit the one before (MetricRequestPlanner.plan). *)
LEMMA AskedOnTop ==
    ASSUME QuestionsSound, NEW q \in Questions, NEW m, NEW asked \in Seq(Questions),
           NEW base, base = AskedFor(m, asked),
           NEW named, named = Named(q, Metrics[m]),
           NEW limit, limit = IF q.top > 0 THEN q.top ELSE base.limit
    PROVE  AskedFor(m, Append(asked, q)) =
             [metric |-> m, dims |-> base.dims \cup (q.by \cap Metrics[m].dims),
              filters |-> {f \in base.filters : \A g \in named : g.dim # f.dim} \cup named,
              monthly |-> base.monthly \/ q.monthly, limit |-> limit,
              ranked |-> base.ranked \/ q.top > 0 \/ limit = 1]
  <1> DEFINE dims == Metrics[m].dims
             n == Len(asked)
             more == Append(asked, q)
             value(d) == asked[Newest(Valued(d, asked))].entity[d]
  <1>1. /\ n \in Nat /\ DOMAIN asked = 1..n /\ DOMAIN more = 1..(n + 1)
        /\ more[n + 1] = q /\ \A i \in 1..n : more[i] = asked[i]
    OBVIOUS
  <1>2. /\ base.dims = dims \cap UNION {asked[i].by : i \in 1..n}
        /\ base.filters = {[dim |-> d, value |-> value(d)] : d \in {e \in dims : Valued(e, asked) # {}}}
    BY <1>1 DEF AskedFor
  <1>3. /\ base.monthly <=> \E i \in 1..n : asked[i].monthly
        /\ base.ranked <=> Limited(asked) # {}
        /\ base.limit = IF Limited(asked) = {} THEN DefaultLimit ELSE asked[Newest(Limited(asked))].top
    BY <1>1 DEF AskedFor
  <1>4. \A d : /\ Valued(d, asked) \subseteq 1..n
               /\ Valued(d, more) = Valued(d, asked) \cup (IF q.entity[d] # Nothing THEN {n + 1} ELSE {})
    BY <1>1 DEF Valued
  <1>5. /\ Limited(asked) \subseteq 1..n
        /\ Limited(more) = Limited(asked) \cup (IF q.top > 0 THEN {n + 1} ELSE {})
    BY <1>1 DEF Limited
  <1> HIDE DEF n, more
  <1>6. \A places \in SUBSET (1..n) : Newest(places \cup {n + 1}) = n + 1
    BY <1>1, NewestIsLast
  <1>7. dims \cap UNION {more[i].by : i \in 1..(n + 1)} = base.dims \cup (q.by \cap dims)
    <2> DEFINE before == UNION {asked[i].by : i \in 1..n}
               after == UNION {more[i].by : i \in 1..(n + 1)}
    <2>1. ASSUME NEW x
          PROVE  x \in after <=> x \in before \/ x \in q.by
      <3>1. 1..(n + 1) = 1..n \cup {n + 1}
        BY <1>1
      <3>2. x \in after <=> \E i \in 1..(n + 1) : x \in more[i].by
        OBVIOUS
      <3>3. x \in before <=> \E i \in 1..n : x \in asked[i].by
        OBVIOUS
      <3> HIDE DEF before, after
      <3> QED
        BY <1>1, <3>1, <3>2, <3>3
    <2>2. base.dims = dims \cap before
      BY <1>2
    <2> HIDE DEF before, after, dims
    <2>3. dims \cap after = base.dims \cup (q.by \cap dims)
      BY <2>1, <2>2
    <2> QED
      BY <2>3 DEF after
  <1>8. (\E i \in 1..(n + 1) : more[i].monthly) <=> (base.monthly \/ q.monthly)
    <2>1. 1..(n + 1) = 1..n \cup {n + 1}
      BY <1>1
    <2> QED
      BY <1>1, <1>3, <2>1
  <1>9. ASSUME NEW d, q.entity[d] # Nothing
        PROVE  Valued(d, more) # {} /\ more[Newest(Valued(d, more))].entity[d] = q.entity[d]
    <2>1. Valued(d, more) = Valued(d, asked) \cup {n + 1} /\ Valued(d, asked) \in SUBSET (1..n)
      BY <1>4, <1>9
    <2>2. Newest(Valued(d, more)) = n + 1
      BY <1>6, <2>1
    <2> QED
      BY <1>1, <2>1, <2>2
  <1>10. ASSUME NEW d, q.entity[d] = Nothing
         PROVE  /\ Valued(d, more) = Valued(d, asked)
                /\ Valued(d, more) # {} => more[Newest(Valued(d, more))].entity[d] = value(d)
    <2>1. Valued(d, more) = Valued(d, asked)
      BY <1>4, <1>10
    <2>2. ASSUME Valued(d, asked) # {}
          PROVE  Newest(Valued(d, asked)) \in 1..n
      <3>1. PICK places : places = Valued(d, asked)
        OBVIOUS
      <3>2. places \in SUBSET (1..n) /\ places # {}
        BY <1>4, <2>2, <3>1
      <3>3. Newest(places) \in places
        BY <1>1, <3>2, NewestIsOne
      <3> QED
        BY <3>1, <3>2, <3>3
    <2> QED
      BY <1>1, <2>1, <2>2
  <1>11. {[dim |-> d, value |-> more[Newest(Valued(d, more))].entity[d]] :
            d \in {e \in dims : Valued(e, more) # {}}}
           = {f \in base.filters : \A g \in named : g.dim # f.dim} \cup named
    <2> DEFINE new(d) == more[Newest(Valued(d, more))].entity[d]
               before == {f \in base.filters : \A g \in named : g.dim # f.dim}
    <2>1. named = {[dim |-> d, value |-> q.entity[d]] : d \in {e \in dims : q.entity[e] # Nothing}}
      BY DEF Named
    <2>2. ASSUME NEW d \in dims, Valued(d, more) # {}
          PROVE  [dim |-> d, value |-> new(d)] \in before \cup named
      <3>1. CASE q.entity[d] # Nothing
        <4>1. new(d) = q.entity[d]
          BY <1>9, <3>1
        <4> HIDE DEF new
        <4> QED
          BY <2>1, <3>1, <4>1
      <3>2. CASE q.entity[d] = Nothing
        <4>1. new(d) = value(d) /\ Valued(d, asked) # {}
          BY <1>10, <2>2, <3>2
        <4>2. PICK f : f = [dim |-> d, value |-> value(d)]
          OBVIOUS
        <4>3. f \in base.filters /\ f.dim = d
          BY <1>2, <4>1, <4>2, SMTT(60)
        <4>4. ASSUME NEW g \in named
              PROVE  g.dim # d
          BY <2>1, <3>2, <4>4
        <4> HIDE DEF new, value
        <4> QED
          BY <4>1, <4>2, <4>3, <4>4
      <3> QED
        BY <3>1, <3>2
    <2>3. ASSUME NEW f \in before \cup named
          PROVE  \E d \in dims : Valued(d, more) # {} /\ f = [dim |-> d, value |-> new(d)]
      <3>1. CASE f \in named
        <4>1. PICK d \in dims : q.entity[d] # Nothing /\ f = [dim |-> d, value |-> q.entity[d]]
          BY <2>1, <3>1
        <4>2. Valued(d, more) # {} /\ new(d) = q.entity[d]
          BY <1>9, <4>1
        <4> HIDE DEF new
        <4> QED
          BY <4>1, <4>2
      <3>2. CASE f \in before
        <4>1. PICK d \in dims : Valued(d, asked) # {} /\ f = [dim |-> d, value |-> value(d)]
          BY <1>2, <3>2
        <4>2. q.entity[d] = Nothing
          <5>1. SUFFICES ASSUME q.entity[d] # Nothing PROVE FALSE
            OBVIOUS
          <5>2. PICK g : g = [dim |-> d, value |-> q.entity[d]]
            OBVIOUS
          <5>3. g \in named /\ g.dim = d /\ f.dim = d
            BY <2>1, <4>1, <5>1, <5>2
          <5> QED
            BY <3>2, <5>3
        <4>3. Valued(d, more) # {} /\ new(d) = value(d)
          BY <1>10, <4>1, <4>2
        <4> HIDE DEF new, value
        <4> QED
          BY <4>1, <4>3
      <3> QED
        BY <3>1, <3>2
    <2> HIDE DEF new, before
    <2>4. {[dim |-> d, value |-> new(d)] : d \in {e \in dims : Valued(e, more) # {}}}
             = before \cup named
      BY <2>2, <2>3
    <2> QED
      BY <2>4 DEF new, before
  <1>12. (IF Limited(more) = {} THEN DefaultLimit ELSE more[Newest(Limited(more))].top) = limit
    <2>1. CASE q.top > 0
      BY <1>1, <1>5, <1>6, <2>1
    <2>2. CASE ~(q.top > 0)
      <3>1. Limited(more) = Limited(asked) /\ limit = base.limit
        BY <1>5, <2>2
      <3>2. ASSUME Limited(asked) # {}
            PROVE  Newest(Limited(asked)) \in 1..n
        <4>1. PICK places : places = Limited(asked)
          OBVIOUS
        <4>2. Newest(places) \in places
          BY <1>1, <1>5, <3>2, <4>1, NewestIsOne
        <4> QED
          BY <1>5, <4>1, <4>2
      <3> QED
        BY <1>1, <1>3, <3>1, <3>2
    <2> QED
      BY <2>1, <2>2
  <1>13. Limited(more) # {} <=> (base.ranked \/ q.top > 0 \/ limit = 1)
    BY <1>3, <1>5 DEF DefaultLimit
  <1>14. AskedFor(m, more) =
             [metric |-> m, dims |-> base.dims \cup (q.by \cap Metrics[m].dims),
              filters |-> {f \in base.filters : \A g \in named : g.dim # f.dim} \cup named,
              monthly |-> base.monthly \/ q.monthly, limit |-> limit,
              ranked |-> base.ranked \/ q.top > 0 \/ limit = 1]
    BY <1>1, <1>7, <1>8, <1>11, <1>12, <1>13 DEF AskedFor
  <1> QED
    BY <1>14 DEF more

(* Before the first question nothing is asked (RoutingInit). *)
LEMMA RoutingInitially ==
    ASSUME RoutingInit
    PROVE  RoutingInv
  BY DEF RoutingInit, RoutingInv, ContextIsAskedFor, RanIsAskedFor

(* Which metric the planner plans: the one the router named, or that of the query
   the question refers to. *)
LEMMA PlannedMetric ==
    ASSUME NEW q, NEW d, NEW prior, NEW plan, plan = Plan(q, d, prior)
    PROVE  plan.metric = CHOOSE m \in d.metrics : TRUE
  BY DEF Plan

(* What the router says of a question it refers to the query before
   (_followup_decision): it continues a governed query about its metric; and a
   write request is blocked before anything else. *)
LEMMA RoutedToMetric ==
    ASSUME NEW q, NEW prior, NEW allowed, NEW d, d = Route(q, prior, allowed),
           d.route = "governed_metric"
    PROVE  /\ ~q.write
           /\ d.reason = "followup_reference" =>
                /\ prior # Nothing /\ prior.route = "governed_metric"
                /\ d.metrics \subseteq {prior.query.metric}
  <1>1. ~q.write
    BY DEF Route, Decision
  <1>2. ASSUME d.reason = "followup_reference"
        PROVE  Continuable(q, prior) /\ d = RouteFollowup(q, prior)
    <2>1. CASE Continuable(q, prior)
      BY <1>1, <1>2, <2>1, SMTT(60) DEF Route, Authorized, Decision
    <2>2. CASE ~Continuable(q, prior)
      <3>1. d = RouteFresh(q, allowed)
        BY <1>1, <2>2 DEF Route, Decision
      <3> QED
        BY <1>2, <3>1 DEF RouteFresh, Authorized, Decision
    <2> QED
      BY <2>1, <2>2
  <1>3. ASSUME d.reason = "followup_reference"
        PROVE  /\ prior # Nothing /\ prior.route = "governed_metric"
               /\ d.metrics \subseteq {prior.query.metric}
    <2>1. prior # Nothing
      BY <1>2, <1>3 DEF Continuable
    <2>2. d = RouteFollowup(q, prior)
      BY <1>2, <1>3
    <2> QED
      BY <1>3, <2>1, <2>2 DEF RouteFollowup, Decision
  <1> QED
    BY <1>1, <1>3

(* What the planner plans of a question that refers to nothing before is what the
   question asks for. *)
LEMMA FreshPlan ==
    ASSUME QuestionsSound, NEW q \in Questions, NEW d, NEW prior, NEW plan,
           plan = Plan(q, d, prior), d.reason # "followup_reference"
    PROVE  plan = AskedFor(plan.metric, <<q>>)
  <1> DEFINE metric == CHOOSE m \in d.metrics : TRUE
  <1>1. plan.metric = metric
    BY PlannedMetric
  <1>2. PICK m : m = metric
    OBVIOUS
  <1>3. PICK named : named = Named(q, Metrics[m])
    OBVIOUS
  <1>4. PICK limit : limit = IF q.top > 0 THEN q.top ELSE DefaultLimit
    OBVIOUS
  <1>5. plan = [metric |-> m, dims |-> {} \cup (q.by \cap Metrics[m].dims), filters |-> named,
                monthly |-> FALSE \/ q.monthly, limit |-> limit,
                ranked |-> FALSE \/ q.top > 0 \/ limit = 1]
    BY <1>2, <1>3, <1>4 DEF Plan, Fresh
  <1>6. plan = AskedFor(m, <<q>>)
    BY <1>3, <1>4, <1>5, AskedAfresh
  <1> QED
    BY <1>1, <1>2, <1>6

(* What it plans of a question that refers to the query before is what the thread
   asks for with that question. *)
LEMMA ContinuedPlan ==
    ASSUME QuestionsSound, NEW q \in Questions, NEW d, NEW prior, NEW plan,
           plan = Plan(q, d, prior), d.reason = "followup_reference",
           NEW asked \in Seq(Questions), NEW m, d.metrics = {m},
           prior.query = AskedFor(m, asked)
    PROVE  plan = AskedFor(plan.metric, Append(asked, q))
  <1>1. plan.metric = m
    BY PlannedMetric, SMTT(60)
  <1>2. PICK base : base = prior.query
    OBVIOUS
  <1>3. PICK named : named = Named(q, Metrics[m])
    OBVIOUS
  <1>4. PICK limit : limit = IF q.top > 0 THEN q.top ELSE base.limit
    OBVIOUS
  <1>5. (CHOOSE n \in d.metrics : TRUE) = m
    OBVIOUS
  <1>6. plan = [metric |-> m, dims |-> base.dims \cup (q.by \cap Metrics[m].dims),
                filters |-> {f \in base.filters : \A g \in named : g.dim # f.dim} \cup named,
                monthly |-> base.monthly \/ q.monthly, limit |-> limit,
                ranked |-> base.ranked \/ q.top > 0 \/ limit = 1]
    BY <1>2, <1>3, <1>4, <1>5 DEF Plan
  <1>7. plan = AskedFor(m, Append(asked, q))
    BY <1>2, <1>3, <1>4, <1>6, AskedOnTop
  <1> QED
    BY <1>1, <1>7

(* A governed turn plans what its thread asks for, within what this turn allows
   (route_query, plan_metric_request and the governed execution in graph.py). *)
LEMMA GovernedKeeps ==
    ASSUME QuestionsSound, RoutingInv, NEW q \in Questions, NEW allowed \in Scopes,
           TurnGoverned(q, allowed)
    PROVE  RoutingInv'
  <1>1. PICK d : d = Route(q, context, allowed)
    OBVIOUS
  <1>2. PICK plan : plan = Plan(q, d, context)
    OBVIOUS
  <1>3. PICK follows : follows = IF d.reason = "followup_reference" THEN Append(thread, q) ELSE <<q>>
    OBVIOUS
  <1>4. /\ d.route = "governed_metric" /\ plan.metric \in allowed
        /\ context' = Recorded("governed_metric", "none", plan)
        /\ ran' = [query |-> plan, allowed |-> allowed, write |-> q.write]
        /\ thread' = follows
    BY <1>1, <1>2, <1>3 DEF TurnGoverned
  <1>5. ~Refused(q, d, context)
    BY <1>1 DEF TurnGoverned
  <1>6. thread \in Seq(Questions) /\ follows \in Seq(Questions)
    BY <1>3 DEF RoutingInv
  <1>7. /\ ~q.write
        /\ d.reason = "followup_reference" =>
             /\ context # Nothing /\ context.route = "governed_metric"
             /\ d.metrics \subseteq {context.query.metric}
    <2>1. PICK prior : prior = context
      OBVIOUS
    <2>2. d = Route(q, prior, allowed) /\ d.route = "governed_metric"
      BY <1>1, <1>4, <2>1
    <2>3. /\ ~q.write
          /\ d.reason = "followup_reference" =>
               /\ prior # Nothing /\ prior.route = "governed_metric"
               /\ d.metrics \subseteq {prior.query.metric}
      BY <2>2, RoutedToMetric
    <2> QED
      BY <2>1, <2>3
  <1>8. plan = AskedFor(plan.metric, follows)
    <2>1. CASE d.reason # "followup_reference"
      BY <1>2, <1>3, <2>1, FreshPlan
    <2>2. CASE d.reason = "followup_reference"
      <3>1. PICK m : m = context.query.metric
        OBVIOUS
      <3>2. context.query = AskedFor(m, thread)
        BY <1>7, <2>2, <3>1 DEF RoutingInv, ContextIsAskedFor
      <3>3. d.metrics = {m}
        <4>1. d.metrics # {}
          <5>1. SUFFICES ASSUME d.metrics = {} PROVE FALSE
            OBVIOUS
          <5>2. Cardinality(d.metrics) = 0
            BY <5>1, FS_EmptySet
          <5> QED
            BY <1>5, <5>2 DEF Refused
        <4> QED
          BY <1>7, <2>2, <3>1, <4>1
      <3>4. plan = AskedFor(plan.metric, Append(thread, q))
        BY <1>2, <1>6, <2>2, <3>2, <3>3, ContinuedPlan
      <3> QED
        BY <1>3, <2>2, <3>4
    <2> QED
      BY <2>1, <2>2
  <1>9. ContextIsAskedFor'
    <2>1. context'.query = plan
      BY <1>4 DEF Recorded
    <2> QED
      BY <1>4, <1>8, <2>1 DEF ContextIsAskedFor
  <1>10. RanIsAskedFor'
    <2>1. ran'.query = plan /\ ran'.allowed = allowed /\ ran'.write = q.write
      BY <1>4
    <2> QED
      BY <1>4, <1>7, <1>8, <2>1 DEF RanIsAskedFor
  <1> QED
    BY <1>4, <1>6, <1>9, <1>10 DEF RoutingInv

(* A turn that runs nothing keeps the thread, and the context is of the one before
   or of no governed query: what is planned and then fails is never continued
   (_record_context). *)
LEMMA OthersKeep ==
    ASSUME RoutingInv, NEW q \in Questions, NEW allowed \in Scopes,
           TurnFails(q, allowed) \/ TurnAdhoc(q, allowed) \/ TurnStops(q, allowed)
    PROVE  RoutingInv'
  <1>1. thread' = thread /\ thread \in Seq(Questions) /\ ran' = Nothing
    BY DEF TurnFails, TurnAdhoc, TurnStops, RoutingInv
  <1>2. RanIsAskedFor'
    BY <1>1 DEF RanIsAskedFor
  <1>3. CASE TurnFails(q, allowed)
    BY <1>1, <1>2, <1>3 DEF TurnFails, RoutingInv, ContextIsAskedFor
  <1>4. CASE TurnAdhoc(q, allowed)
    <2>1. context'.route = "adhoc_analytics"
      BY <1>4 DEF TurnAdhoc, Recorded
    <2> QED
      BY <1>1, <1>2, <2>1 DEF RoutingInv, ContextIsAskedFor
  <1>5. CASE TurnStops(q, allowed)
    <2>1. context'.route = "none"
      BY <1>5 DEF TurnStops, Recorded
    <2> QED
      BY <1>1, <1>2, <2>1 DEF RoutingInv, ContextIsAskedFor
  <1> QED
    BY <1>3, <1>4, <1>5

LEMMA RoutingStep ==
    ASSUME QuestionsSound, RoutingInv, [RoutingNext]_rvars
    PROVE  RoutingInv'
  <1>1. CASE UNCHANGED rvars
    BY <1>1 DEF rvars, RoutingInv, ContextIsAskedFor, RanIsAskedFor
  <1>2. CASE RoutingNext
    BY <1>2, GovernedKeeps, OthersKeep DEF RoutingNext
  <1> QED
    BY <1>1, <1>2

(* Whatever the questions, the catalog and the changes of what the caller may
   read: a governed query that runs is of a metric allowed on that very turn, of no
   write request, and exactly what its thread asked for (planner.py:98-176,
   graph.py:1625-1650). *)
THEOREM QueriesAreAskedFor ==
    ASSUME QuestionsSound
    PROVE  RoutingSpec => []RanIsAskedFor
  <1>1. RoutingInit => RoutingInv
    BY RoutingInitially
  <1>2. RoutingInv /\ [RoutingNext]_rvars => RoutingInv'
    BY RoutingStep
  <1>3. RoutingInv => RanIsAskedFor
    BY DEF RoutingInv
  <1> QED
    BY <1>1, <1>2, <1>3, PTL DEF RoutingSpec

-----------------------------------------------------------------------------
(* The screen *)

(* An exchange changes its state and keeps the rest (Settle). *)
LEMMA Settled ==
    ASSUME exchanges \in Seq(Shown), NEW id,
           NEW state \in {"pending", "answered", "failed", "cancelled"},
           NEW shown, shown = Settle(id, state)
    PROVE  /\ shown \in Seq(Shown) /\ DOMAIN shown = DOMAIN exchanges
           /\ \A i \in DOMAIN exchanges :
                /\ shown[i].id = exchanges[i].id /\ shown[i].thread = exchanges[i].thread
                /\ shown[i].source = exchanges[i].source
                /\ shown[i].state = IF exchanges[i].id = id THEN state ELSE exchanges[i].state
  <1>1. Len(exchanges) \in Nat /\ DOMAIN exchanges = 1..Len(exchanges)
    OBVIOUS
  <1>2. DOMAIN shown = 1..Len(exchanges)
    BY <1>1 DEF Settle
  <1>3. ASSUME NEW i \in DOMAIN exchanges
        PROVE  /\ shown[i] \in Shown
               /\ shown[i].id = exchanges[i].id /\ shown[i].thread = exchanges[i].thread
               /\ shown[i].source = exchanges[i].source
               /\ shown[i].state = IF exchanges[i].id = id THEN state ELSE exchanges[i].state
    <2>1. PICK e \in Shown : e = exchanges[i]
      OBVIOUS
    <2>2. shown[i] = IF e.id = id THEN [e EXCEPT !.state = state] ELSE e
      BY <2>1 DEF Settle
    <2>3. [e EXCEPT !.state = state] \in Shown
      BY DEF Shown
    <2>4. LET f == [e EXCEPT !.state = state]
          IN  f.id = e.id /\ f.thread = e.thread /\ f.source = e.source /\ f.state = state
      BY DEF Shown
    <2> QED
      BY <2>1, <2>2, <2>3, <2>4
  <1>4. shown \in Seq(Shown)
    <2>1. shown = [i \in 1..Len(exchanges) |-> shown[i]]
      BY <1>1 DEF Settle
    <2>2. \A i \in 1..Len(exchanges) : shown[i] \in Shown
      BY <1>1, <1>3
    <2> QED
      BY <1>1, <2>1, <2>2
  <1> QED
    BY <1>1, <1>2, <1>3, <1>4

(* While fewer exchanges are shown than there are ids, a new one has an id that
   none of them has (newId). *)
LEMMA FreshIdIsFresh ==
    ASSUME ScreenSettings, exchanges \in Seq(Shown), Len(exchanges) < Cardinality(Ids)
    PROVE  FreshId \in Ids /\ \A i \in DOMAIN exchanges : exchanges[i].id # FreshId
  <1> DEFINE used == {exchanges[i].id : i \in 1..Len(exchanges)}
  <1>1. DOMAIN exchanges = 1..Len(exchanges) /\ Len(exchanges) \in Nat
    OBVIOUS
  <1>2. IsFiniteSet(1..Len(exchanges)) /\ Cardinality(1..Len(exchanges)) = Len(exchanges)
    BY <1>1, FS_Interval, SMTT(60)
  <1>3. IsFiniteSet(used) /\ Cardinality(used) <= Len(exchanges)
    <2>1. PICK id : id = [i \in 1..Len(exchanges) |-> exchanges[i].id]
      OBVIOUS
    <2>2. id \in Surjection(1..Len(exchanges), used)
      BY <2>1 DEF Surjection
    <2> HIDE DEF used
    <2> QED
      BY <1>2, <2>2, FS_Surjection
  <1>4. ~(Ids \subseteq used)
    <2>1. SUFFICES ASSUME Ids \subseteq used PROVE FALSE
      OBVIOUS
    <2>2. Cardinality(Ids) <= Cardinality(used)
      BY <1>3, <2>1, FS_Subset
    <2>3. IsFiniteSet(Ids) /\ Cardinality(Ids) \in Nat /\ Cardinality(used) \in Nat
      BY <1>3, FS_CardinalityType DEF ScreenSettings
    <2> HIDE DEF used
    <2> QED
      BY <1>1, <1>3, <2>2, <2>3
  <1>5. \E id \in Ids : \A i \in DOMAIN exchanges : exchanges[i].id # id
    BY <1>1, <1>4
  <1> QED
    BY <1>5 DEF FreshId

(* The empty screen of the first moment (WorkspaceInit). *)
LEMMA ScreenInitially ==
    ASSUME ScreenSettings, WorkspaceInit
    PROVE  ScreenInv
  <1>1. /\ screen.thread = None /\ screen.conversation = None
        /\ screen \in [thread : Threads \cup {None}, conversation : Threads \cup {None},
                       source : Sources]
        /\ exchanges = <<>> /\ inflight = None /\ opening = {} /\ adopting = {}
        /\ strayed = FALSE
    BY DEF WorkspaceInit
  <1>2. home \in [Threads -> Sources \cup {None}]
    BY DEF WorkspaceInit, ScreenSettings, Threads
  <1>3. ScreenTyped
    <2>1. <<>> \in Seq(Shown)
      OBVIOUS
    <2> QED
      BY <1>1, <1>2, <2>1 DEF ScreenTyped
  <1>4. OpenedIsAway /\ PendingIsInFlight
    BY <1>1 DEF OpenedIsAway, PendingIsInFlight
  <1>5. Together /\ Waited
    BY <1>1 DEF Together, InFlightIsShown, Waited
  <1> QED
    BY <1>3, <1>4, <1>5 DEF ScreenInv

(* The parts of the screen's types that its steps change. *)
LEMMA ScreenFields ==
    ASSUME ScreenTyped
    PROVE  /\ screen.thread \in Threads \cup {None}
           /\ screen.conversation \in Threads \cup {None} /\ screen.source \in Sources
           /\ \A i \in DOMAIN exchanges : exchanges[i] \in Shown
  BY DEF ScreenTyped

(* What goes out is on the thread of the moment, and is something (Post). *)
LEMMA Posted ==
    ASSUME ScreenSettings, ScreenTyped, NEW id \in Ids \cup Threads, NEW source \in Sources,
           Post(id, source)
    PROVE  /\ inflight' \in Outgoing /\ inflight' # None
           /\ inflight'.id = id /\ inflight'.thread = screen.thread /\ inflight'.source = source
  <1>1. PICK t \in Threads \cup {None} : t = screen.thread
    BY ScreenFields
  <1>2. inflight' = [id |-> id, thread |-> t, source |-> source]
    BY <1>1 DEF Post
  <1>3. inflight' \in Outgoing
    BY <1>2 DEF Outgoing
  <1> QED
    BY <1>1, <1>2, <1>3 DEF ScreenSettings

(* A question is asked: one new exchange, pending and in flight. *)
LEMMA AskKeeps ==
    ASSUME ScreenSettings, ScreenInv, Ask
    PROVE  ScreenInv'
  <1>1. ScreenTyped /\ OpenedIsAway /\ PendingIsInFlight
    BY DEF ScreenInv
  <1>2. PICK id : id = FreshId
    OBVIOUS
  <1>3. id \in Ids /\ \A i \in DOMAIN exchanges : exchanges[i].id # id
    BY <1>1, <1>2, FreshIdIsFresh DEF Ask, ScreenTyped
  <1>4. PICK e : e = [id |-> id, thread |-> screen.thread, source |-> screen.source,
                      state |-> "pending"]
    OBVIOUS
  <1>5. e \in Shown /\ e.id = id /\ e.thread = screen.thread /\ e.source = screen.source
        /\ e.state = "pending"
    BY <1>1, <1>3, <1>4, ScreenFields DEF Shown
  <1>6. /\ inflight = None /\ exchanges' = Append(exchanges, e) /\ Post(id, screen.source)
        /\ strayed' = (strayed \/ opening # {})
        /\ UNCHANGED <<screen, opening, adopting, home>>
    BY <1>2, <1>4 DEF Ask, Ignoring
  <1>7. /\ inflight' \in Outgoing /\ inflight' # None
        /\ inflight'.id = id /\ inflight'.thread = screen.thread
        /\ inflight'.source = screen.source
    BY <1>1, <1>3, <1>6, ScreenFields, Posted
  <1>8. /\ exchanges \in Seq(Shown) /\ exchanges' \in Seq(Shown)
        /\ \A i \in DOMAIN exchanges' :
             (i \in DOMAIN exchanges /\ exchanges'[i] = exchanges[i]) \/ exchanges'[i] = e
    BY <1>1, <1>5, <1>6 DEF ScreenTyped
  <1>9. ScreenTyped'
    BY <1>1, <1>6, <1>7, <1>8 DEF ScreenTyped
  <1>10. OpenedIsAway'
    <2>1. \A c \in opening : c # id
      BY <1>1, <1>3 DEF ScreenTyped, ScreenSettings
    <2> QED
      BY <1>1, <1>5, <1>6, <1>7, <1>8, <2>1 DEF OpenedIsAway
  <1>11. PendingIsInFlight'
    BY <1>1, <1>3, <1>5, <1>6, <1>7, <1>8 DEF PendingIsInFlight
  <1>12. ASSUME ~strayed' PROVE (Together /\ Waited)'
    <2>1. ~strayed /\ opening = {} /\ Together /\ Waited
      BY <1>1, <1>6, <1>12 DEF ScreenInv
    <2>2. InFlightIsShown'
      <3>1. Len(exchanges) + 1 \in DOMAIN exchanges' /\ exchanges'[Len(exchanges) + 1] = e
        BY <1>5, <1>6, <1>8
      <3> QED
        BY <1>5, <1>7, <3>1 DEF InFlightIsShown
    <2> QED
      BY <1>5, <1>6, <1>7, <1>8, <2>1, <2>2 DEF Together, Waited
  <1> QED
    BY <1>9, <1>10, <1>11, <1>12 DEF ScreenInv

(* An exchange that failed is asked again, as itself. *)
LEMMA RetryKeeps ==
    ASSUME ScreenSettings, ScreenInv, NEW i \in DOMAIN exchanges, Retry(i)
    PROVE  ScreenInv'
  <1>1. ScreenTyped /\ OpenedIsAway /\ PendingIsInFlight /\ exchanges \in Seq(Shown)
    BY DEF ScreenInv, ScreenTyped
  <1>2. PICK id, source : id = exchanges[i].id /\ source = exchanges[i].source
    OBVIOUS
  <1>3. id \in Ids \cup Threads /\ source \in Sources
    BY <1>1, <1>2, ScreenFields DEF Shown
  <1>4. PICK shown : shown = Settle(id, "pending")
    OBVIOUS
  <1>5. /\ inflight = None /\ exchanges' = shown /\ Post(id, source)
        /\ strayed' = (strayed \/ opening # {})
        /\ UNCHANGED <<screen, opening, adopting, home>>
    BY <1>2, <1>4 DEF Retry, Ignoring
  <1>6. /\ shown \in Seq(Shown) /\ DOMAIN shown = DOMAIN exchanges
        /\ \A j \in DOMAIN exchanges :
             /\ shown[j].id = exchanges[j].id /\ shown[j].thread = exchanges[j].thread
             /\ shown[j].source = exchanges[j].source
             /\ shown[j].state = IF exchanges[j].id = id THEN "pending" ELSE exchanges[j].state
    BY <1>1, <1>4, Settled
  <1>7. /\ inflight' \in Outgoing /\ inflight' # None
        /\ inflight'.id = id /\ inflight'.thread = screen.thread /\ inflight'.source = source
    BY <1>1, <1>3, <1>5, Posted
  <1>8. ScreenTyped'
    BY <1>1, <1>5, <1>6, <1>7 DEF ScreenTyped
  <1>9. OpenedIsAway'
    BY <1>1, <1>2, <1>5, <1>6, <1>7, SMTT(60) DEF OpenedIsAway
  <1>10. PendingIsInFlight'
    BY <1>1, <1>5, <1>6, <1>7 DEF PendingIsInFlight
  <1>11. ASSUME ~strayed' PROVE (Together /\ Waited)'
    <2>1. ~strayed /\ opening = {} /\ Together /\ Waited
      BY <1>5, <1>11, <1>1 DEF ScreenInv
    <2>2. InFlightIsShown'
      BY <1>2, <1>5, <1>6, <1>7 DEF InFlightIsShown
    <2> QED
      BY <1>2, <1>5, <1>6, <1>7, <2>1, <2>2 DEF Together, Waited
  <1> QED
    BY <1>8, <1>9, <1>10, <1>11 DEF ScreenInv

(* A question fails or is stopped: its exchange is pending no more. *)
LEMMA SettleKeeps ==
    ASSUME ScreenSettings, ScreenInv, Fail \/ Cancel
    PROVE  ScreenInv'
  <1>1. ScreenTyped /\ OpenedIsAway /\ PendingIsInFlight /\ exchanges \in Seq(Shown)
    BY DEF ScreenInv, ScreenTyped
  <1>2. PICK id : id = inflight.id
    OBVIOUS
  <1>3. PICK state \in {"failed", "cancelled"} : exchanges' = Settle(id, state)
    BY <1>2 DEF Fail, Cancel
  <1>4. PICK shown : shown = Settle(id, state)
    OBVIOUS
  <1>5. /\ inflight # None /\ exchanges' = shown /\ inflight' = None
        /\ UNCHANGED <<screen, opening, adopting, home, strayed>>
    BY <1>3, <1>4 DEF Fail, Cancel
  <1>6. /\ shown \in Seq(Shown) /\ DOMAIN shown = DOMAIN exchanges
        /\ \A j \in DOMAIN exchanges :
             /\ shown[j].id = exchanges[j].id /\ shown[j].thread = exchanges[j].thread
             /\ shown[j].source = exchanges[j].source
             /\ shown[j].state = IF exchanges[j].id = id THEN state ELSE exchanges[j].state
    BY <1>1, <1>4, Settled
  <1>7. ScreenTyped'
    BY <1>1, <1>5, <1>6 DEF ScreenTyped
  <1>8. OpenedIsAway'
    BY <1>1, <1>5, <1>6 DEF OpenedIsAway
  <1>9. PendingIsInFlight'
    BY <1>1, <1>2, <1>5, <1>6 DEF PendingIsInFlight
  <1>10. ASSUME ~strayed' PROVE (Together /\ Waited)'
    <2>1. opening = {} /\ Together /\ Waited
      BY <1>5, <1>10 DEF ScreenInv, Waited
    <2> QED
      BY <1>5, <1>6, <2>1 DEF Together, InFlightIsShown, Waited
  <1> QED
    BY <1>7, <1>8, <1>9, <1>10 DEF ScreenInv

(* An answer arrives: it is shown under its thread, and a thread it minted is the
   screen's from now on, with the datasource it was asked on. *)
LEMMA AnswerKeeps ==
    ASSUME ScreenSettings, ScreenInv, Answer
    PROVE  ScreenInv'
  <1>1. ScreenTyped /\ OpenedIsAway /\ PendingIsInFlight /\ exchanges \in Seq(Shown)
    BY DEF ScreenInv, ScreenTyped
  <1>2. PICK asked : asked = inflight
    BY SMTT(60)
  <1>3. asked # None /\ asked \in Outgoing
    BY <1>1, <1>2 DEF Answer, ScreenTyped
  <1>4. asked.thread \in Threads \cup {None} /\ asked.source \in Sources
    BY <1>3, SMTT(60) DEF Outgoing
  <1>5. PICK t \in Threads :
           /\ IF asked.thread # None THEN t = asked.thread ELSE home[t] = None
           /\ home' = [home EXCEPT ![t] = IF @ = None THEN asked.source ELSE @]
           /\ screen' = [screen EXCEPT !.thread = t]
           /\ exchanges' = [i \in DOMAIN exchanges |->
                 IF exchanges[i].id = asked.id
                 THEN [exchanges[i] EXCEPT !.state = "answered", !.thread = t]
                 ELSE exchanges[i]]
           /\ adopting' = IF screen.thread = None THEN adopting \cup {t} ELSE adopting
    BY <1>2, ZenonT(60) DEF Answer
  <1>6. inflight' = None /\ opening' = opening /\ strayed' = strayed
    BY DEF Answer
  <1>7. /\ screen'.thread = t /\ screen'.conversation = screen.conversation
        /\ screen'.source = screen.source
        /\ screen' \in [thread : Threads \cup {None}, conversation : Threads \cup {None},
                        source : Sources]
    BY <1>1, <1>5 DEF ScreenTyped
  <1>8. /\ home' \in [Threads -> Sources \cup {None}]
        /\ home'[t] = IF home[t] = None THEN asked.source ELSE home[t]
        /\ \A u \in Threads : u # t => home'[u] = home[u]
    BY <1>1, <1>4, <1>5 DEF ScreenTyped
  <1>9. ASSUME NEW i \in DOMAIN exchanges
        PROVE  /\ exchanges'[i] \in Shown
               /\ exchanges'[i].id = exchanges[i].id
               /\ exchanges'[i].source = exchanges[i].source
               /\ exchanges'[i].thread = IF exchanges[i].id = asked.id THEN t ELSE exchanges[i].thread
               /\ exchanges'[i].state = IF exchanges[i].id = asked.id THEN "answered"
                                                                       ELSE exchanges[i].state
    <2>1. PICK e \in Shown : e = exchanges[i]
      BY <1>1
    <2>2. PICK f : f = [e EXCEPT !.state = "answered", !.thread = t]
      OBVIOUS
    <2>3. /\ f \in Shown
          /\ f.id = e.id /\ f.source = e.source /\ f.thread = t /\ f.state = "answered"
      BY <2>2 DEF Shown
    <2>4. exchanges'[i] = IF e.id = asked.id THEN f ELSE e
      BY <1>5, <2>1, <2>2
    <2> QED
      BY <2>1, <2>3, <2>4
  <1>10. exchanges' \in Seq(Shown) /\ DOMAIN exchanges' = DOMAIN exchanges
    <2>1. PICK n \in Nat : DOMAIN exchanges = 1..n
      BY <1>1
    <2>2. exchanges' = [i \in 1..n |-> exchanges'[i]]
      BY <1>5, <2>1
    <2>3. \A i \in 1..n : exchanges'[i] \in Shown
      BY <1>9, <2>1
    <2> QED
      BY <2>1, <2>2, <2>3
  <1>11. ScreenTyped'
    <2>1. adopting' \subseteq Threads
      BY <1>1, <1>5 DEF ScreenTyped
    <2> QED
      BY <1>1, <1>6, <1>7, <1>8, <1>10, <2>1, SMTT(60) DEF ScreenTyped
  <1>12. OpenedIsAway'
    <2>1. ASSUME NEW c \in opening
          PROVE  home'[c] # None
      <3>1. asked.source # None
        BY <1>4 DEF ScreenSettings
      <3> QED
        BY <1>1, <1>8, <3>1 DEF OpenedIsAway, ScreenTyped
    <2> QED
      BY <1>1, <1>6, <1>9, <1>10, <2>1 DEF OpenedIsAway
  <1>13. PendingIsInFlight'
    BY <1>1, <1>2, <1>6, <1>9, <1>10 DEF PendingIsInFlight
  <1>14. ASSUME ~strayed' PROVE (Together /\ Waited)'
    <2>1. Together /\ Waited /\ opening = {}
      BY <1>2, <1>3, <1>6, <1>14 DEF ScreenInv, Waited
    <2>2. asked.thread = screen.thread /\ asked.source = screen.source
      BY <1>2, <1>3, <2>1, SMTT(60) DEF Together
    <2>3. home'[t] = screen.source
      BY <1>5, <1>8, <2>1, <2>2 DEF Together
    <2>4. screen.conversation \in {t, None}
      BY <1>5, <2>1, <2>2 DEF Together
    <2>5. \A i \in DOMAIN exchanges :
             exchanges'[i].thread \in {t, None} /\ exchanges'[i].source = screen.source
      BY <1>5, <1>9, <2>1, <2>2, ZenonT(60) DEF Together
    <2>6. adopting' \subseteq {t}
      <3>1. CASE screen.thread = None
        <4>1. adopting = {}
          BY <1>1, <2>1, <3>1 DEF Waited, ScreenTyped, ScreenSettings
        <4> QED
          BY <1>5, <3>1, <4>1
      <3>2. CASE screen.thread # None
        BY <1>5, <2>1, <2>2, <3>2 DEF Waited
      <3> QED
        BY <3>1, <3>2
    <2>7. Together'
      BY <1>6, <1>7, <1>10, <2>3, <2>4, <2>5 DEF Together, InFlightIsShown
    <2>8. Waited'
      BY <1>6, <1>7, <2>1, <2>6 DEF Waited
    <2> QED
      BY <2>7, <2>8
  <1> QED
    BY <1>11, <1>12, <1>13, <1>14 DEF ScreenInv

(* The list of conversations comes back after the first answer (Adopt). *)
LEMMA AdoptKeeps ==
    ASSUME ScreenSettings, ScreenInv, NEW t \in Threads, Adopt(t)
    PROVE  ScreenInv'
  <1>1. ScreenTyped /\ OpenedIsAway /\ PendingIsInFlight
    BY DEF ScreenInv
  <1>2. /\ t \in adopting /\ adopting' = adopting \ {t}
        /\ UNCHANGED <<exchanges, inflight, opening, home, strayed>>
    BY DEF Adopt
  <1>3. /\ screen'.thread = screen.thread /\ screen'.source = screen.source
        /\ screen'.conversation \in {screen.conversation, t}
        /\ screen' \in [thread : Threads \cup {None}, conversation : Threads \cup {None},
                        source : Sources]
    BY <1>1 DEF Adopt, ScreenTyped
  <1>4. ScreenTyped' /\ OpenedIsAway' /\ PendingIsInFlight'
    BY <1>1, <1>2, <1>3 DEF ScreenTyped, OpenedIsAway, PendingIsInFlight
  <1>5. ASSUME ~strayed' PROVE (Together /\ Waited)'
    <2>1. Together /\ Waited /\ opening = {} /\ t = screen.thread
      BY <1>2, <1>5 DEF ScreenInv, Waited
    <2> QED
      BY <1>2, <1>3, <2>1 DEF Together, InFlightIsShown, Waited
  <1> QED
    BY <1>4, <1>5 DEF ScreenInv

(* A new analysis starts on an empty screen; what was pending is aborted. *)
LEMMA StartKeeps ==
    ASSUME ScreenSettings, ScreenInv, NEW source \in Sources, StartNewAnalysis(source)
    PROVE  ScreenInv'
  <1>1. ScreenTyped /\ OpenedIsAway
    BY DEF ScreenInv
  <1>2. /\ screen' = [thread |-> None, conversation |-> None, source |-> source]
        /\ exchanges' = <<>> /\ inflight' = None
        /\ strayed' = (opening \cup adopting # {})
        /\ UNCHANGED <<opening, adopting, home>>
    BY DEF StartNewAnalysis
  <1>3. ScreenTyped'
    BY <1>1, <1>2 DEF ScreenTyped
  <1>4. OpenedIsAway' /\ PendingIsInFlight'
    BY <1>1, <1>2 DEF OpenedIsAway, PendingIsInFlight
  <1>5. ASSUME ~strayed' PROVE (Together /\ Waited)'
    <2>1. opening' = {} /\ adopting' = {}
      BY <1>2, <1>5
    <2>2. screen'.thread = None /\ screen'.conversation = None /\ DOMAIN exchanges' = {}
      BY <1>2
    <2> QED
      BY <1>2, <2>1, <2>2 DEF Together, InFlightIsShown, Waited
  <1> QED
    BY <1>3, <1>4, <1>5 DEF ScreenInv

(* A conversation is opened: its transcript is on its way to an empty screen. *)
LEMMA OpenKeeps ==
    ASSUME ScreenSettings, ScreenInv, NEW c \in Threads, Open(c)
    PROVE  ScreenInv'
  <1>1. ScreenTyped /\ OpenedIsAway
    BY DEF ScreenInv
  <1>2. /\ home[c] # None /\ opening' = opening \cup {c}
        /\ exchanges' = <<>> /\ inflight' = None
        /\ strayed' = (strayed \/ opening \cup adopting # {})
        /\ UNCHANGED <<adopting, home>>
    BY DEF Open, Ignoring
  <1>3. /\ screen'.thread = screen.thread /\ screen'.source = screen.source
        /\ screen'.conversation = c
        /\ screen' \in [thread : Threads \cup {None}, conversation : Threads \cup {None},
                        source : Sources]
    BY <1>1 DEF Open, ScreenTyped
  <1>4. ScreenTyped'
    BY <1>1, <1>2, <1>3 DEF ScreenTyped
  <1>5. OpenedIsAway' /\ PendingIsInFlight'
    BY <1>1, <1>2 DEF OpenedIsAway, PendingIsInFlight
  <1>6. ASSUME ~strayed' PROVE (Together /\ Waited)'
    <2>1. Together /\ opening = {} /\ adopting = {}
      BY <1>2, <1>6 DEF ScreenInv
    <2> QED
      BY <1>2, <1>3, <2>1 DEF Together, InFlightIsShown, Waited
  <1> QED
    BY <1>4, <1>5, <1>6 DEF ScreenInv

(* The transcript arrives, or it does not. *)
LEMMA RestoredKeeps ==
    ASSUME ScreenSettings, ScreenInv, NEW c \in Threads, Restored(c) \/ RestoreFails(c)
    PROVE  ScreenInv'
  <1>1. ScreenTyped /\ OpenedIsAway /\ PendingIsInFlight
    BY DEF ScreenInv
  <1>2. c \in opening /\ opening' = opening \ {c} /\ UNCHANGED <<inflight, adopting, home>>
    BY DEF Restored, RestoreFails
  <1>3. CASE Restored(c)
    <2>1. home[c] \in Sources
      BY <1>1, <1>2 DEF OpenedIsAway, ScreenTyped
    <2>2. PICK e \in Shown : /\ exchanges' = <<e>> /\ e.id = c /\ e.thread = c
                             /\ e.source = home[c] /\ e.state \in {"answered", "failed"}
      <3>1. PICK state \in {"answered", "failed"} :
               exchanges' = <<[id |-> c, thread |-> c, source |-> home[c], state |-> state]>>
        BY <1>3 DEF Restored
      <3>2. [id |-> c, thread |-> c, source |-> home[c], state |-> state] \in Shown
        BY <2>1 DEF Shown
      <3> QED
        BY <3>1, <3>2
    <2>3. /\ screen'.thread = c /\ screen'.source = home[c]
          /\ screen'.conversation = screen.conversation /\ strayed' = strayed
          /\ screen' \in [thread : Threads \cup {None}, conversation : Threads \cup {None},
                          source : Sources]
      BY <1>1, <1>3, <2>1 DEF Restored, ScreenTyped
    <2>4. /\ exchanges' \in Seq(Shown) /\ DOMAIN exchanges' = {1} /\ exchanges'[1] = e
      BY <2>2
    <2>5. ScreenTyped'
      BY <1>1, <1>2, <2>3, <2>4 DEF ScreenTyped
    <2>6. OpenedIsAway' /\ PendingIsInFlight'
      BY <1>1, <1>2, <2>2, <2>4 DEF OpenedIsAway, PendingIsInFlight
    <2>7. ASSUME ~strayed' PROVE (Together /\ Waited)'
      <3>1. /\ opening = {c} /\ screen.conversation = c /\ inflight = None /\ adopting = {}
        BY <1>2, <2>3, <2>7 DEF ScreenInv, Waited
      <3> QED
        BY <1>2, <2>2, <2>3, <2>4, <3>1 DEF Together, InFlightIsShown, Waited
    <2> QED
      BY <2>5, <2>6, <2>7 DEF ScreenInv
  <1>4. CASE RestoreFails(c)
    <2>1. strayed' = TRUE /\ UNCHANGED <<screen, exchanges, inflight, adopting, home>>
      BY <1>4 DEF RestoreFails
    <2>2. ScreenTyped'
      BY <1>1, <1>2, <2>1 DEF ScreenTyped
    <2> QED
      BY <1>1, <1>2, <2>1, <2>2 DEF ScreenInv, OpenedIsAway, PendingIsInFlight
  <1> QED
    BY <1>3, <1>4

LEMMA ScreenStep ==
    ASSUME ScreenSettings, ScreenInv, [WorkspaceNext]_workspaceVars
    PROVE  ScreenInv'
  <1>1. CASE UNCHANGED workspaceVars
    BY <1>1 DEF workspaceVars, ScreenInv, ScreenTyped, OpenedIsAway, PendingIsInFlight, Together,
                InFlightIsShown, Waited
  <1>2. CASE WorkspaceNext
    BY <1>2, AskKeeps, AnswerKeeps, SettleKeeps, RetryKeeps, StartKeeps, AdoptKeeps, OpenKeeps,
       RestoredKeeps DEF WorkspaceNext
  <1> QED
    BY <1>1, <1>2

(* Whatever is asked, answered, opened and stopped, with any number of
   conversations and exchanges: a user who waits for transcripts sees one
   conversation and continues that one, with the question in flight on it; and no
   exchange is shown as pending but the one in flight, whether the user waits or not
   (run, cancel and openConversation in use-conversation.ts). *)
THEOREM ScreenHolds ==
    ASSUME ScreenSettings
    PROVE  WorkspaceSpec => [](ScreenIsOneConversation /\ PendingIsInFlight)
  <1>1. WorkspaceInit => ScreenInv
    BY ScreenInitially
  <1>2. ScreenInv /\ [WorkspaceNext]_workspaceVars => ScreenInv'
    BY ScreenStep
  <1>3. ScreenInv => ScreenIsOneConversation /\ PendingIsInFlight
    BY DEF ScreenInv, ScreenIsOneConversation
  <1> QED
    BY <1>1, <1>2, <1>3, PTL DEF WorkspaceSpec

-----------------------------------------------------------------------------
(* Reads through the database toolbox *)

(* The bounds on time are lengths of time, a result may hold at least its brackets
   (config.py:398-403), and Null is not a request. *)
ToolboxSettings ==
    /\ CacheSeconds \in Nat /\ TimeoutSeconds \in Nat
    /\ MaxBytes \in Nat /\ MaxBytes >= 2
    /\ Null \notin Requests

Fields == {"op", "pc", "reply", "since", "sql", "age", "cause", "error", "rows", "cut"}

Young(age) == age <= TimeoutSeconds \/ age < CacheSeconds + TimeoutSeconds

(* Where a request stands: what it was told and when, against what is verified,
   what was proved and the time. *)
Standing(e, ver, prv, at) ==
    /\ DOMAIN e = Fields
    /\ e.pc = "ping" => e.op = "health"
    /\ e.pc \in {"search", "wait", "read"} => e.op # "health"
    /\ e.pc \in {"ping", "search", "wait"} => e.reply = Null
    /\ e.since \in Nat /\ e.since <= at
    /\ e.pc \in {"ping", "verify", "read", "run"} => at - e.since <= TimeoutSeconds
    /\ e.pc \in {"read", "validate", "run"} => ver
    /\ e.pc = "verify" /\ e.reply # Null => (e.reply.read_only => prv)
    /\ e.pc = "read" /\ e.reply # Null =>
          e.reply.taken \in Nat /\ e.since <= e.reply.taken /\ e.reply.taken <= at
    /\ Young(e.age)

(* The cached schema was read through a proved role and arrived in time. *)
CacheStands ==
    cache # Null =>
        /\ verified
        /\ cache.at \in Nat /\ cache.taken \in Nat
        /\ cache.taken <= cache.at /\ cache.at <= now
        /\ cache.at - cache.taken <= TimeoutSeconds

ToolboxInv ==
    /\ readOnly \in BOOLEAN /\ verified \in BOOLEAN /\ proved \in BOOLEAN /\ now \in Nat
    /\ readOnly => proved
    /\ verified => proved
    /\ CacheStands
    /\ DOMAIN request = Requests
    /\ \A r \in Requests : Standing(request[r], verified, proved, now)
    /\ OneReader

LEMMA IdleStands ==
    ASSUME ToolboxSettings
    PROVE  /\ DOMAIN Idle = Fields /\ Idle.pc = "idle" /\ Idle.age = 0 /\ Idle.since = 0
           /\ Idle.reply = Null
           /\ \A ver, prv \in BOOLEAN, at \in Nat : Standing(Idle, ver, prv, at)
  <1>1. /\ DOMAIN Idle = Fields /\ Idle.pc = "idle" /\ Idle.age = 0 /\ Idle.since = 0
        /\ Idle.reply = Null
    BY DEF Idle, Fields
  <1> QED
    BY <1>1 DEF Standing, Young, ToolboxSettings

LEMMA ToolboxInitially ==
    ASSUME ToolboxSettings, ToolboxInit
    PROVE  ToolboxInv
  <1>1. \A r \in Requests : request[r] = Idle
    BY DEF ToolboxInit
  <1>2. \A r \in Requests : Standing(request[r], verified, proved, now)
    BY <1>1, IdleStands DEF ToolboxInit
  <1>3. OneReader
    BY <1>1, IdleStands DEF ToolboxInit, OneReader, ToolboxSettings
  <1> QED
    BY <1>2, <1>3 DEF ToolboxInit, ToolboxInv, CacheStands

(* What a request's own step has to show: the others stand where they stood, since
   what is verified or proved once stays so, and the time only passes in a tick. *)
LEMMA OthersStand ==
    ASSUME ToolboxSettings, ToolboxInv, NEW r \in Requests,
           verified => verified', proved => proved', now' = now,
           DOMAIN request' = Requests, \A q \in Requests \ {r} : request'[q] = request[q],
           Standing(request'[r], verified', proved', now')
    PROVE  \A q \in Requests : Standing(request[q], verified, proved, now)'
  <1> SUFFICES ASSUME NEW q \in Requests, q # r
               PROVE  Standing(request'[q], verified', proved', now')
    OBVIOUS
  <1>1. Standing(request[q], verified, proved, now) /\ request'[q] = request[q]
    BY DEF ToolboxInv
  <1> QED
    BY <1>1 DEF Standing

(* A request that reads the schema or proves the role for it; and the lock in a step
   of r: taken when free, given back, or left. *)
Reads(e) == e.pc = "read" \/ (e.pc = "verify" /\ e.op # "health")

LockMoves(r) ==
    lock' = lock \/ (lock' = r /\ lock = Null) \/ (lock' = Null /\ lock = r)

(* The lock of a step of r: who else holds it or waits is unchanged. *)
LEMMA LockStands ==
    ASSUME ToolboxSettings, OneReader, NEW r \in Requests,
           \A q \in Requests \ {r} : request'[q] = request[q],
           LockMoves(r), (lock' = r) <=> Reads(request'[r])
    PROVE  OneReader'
  <1>1. ASSUME NEW q \in Requests, q # r
        PROVE  (lock' = q) <=> (lock = q)
    BY <1>1 DEF ToolboxSettings, LockMoves
  <1>2. ASSUME NEW q \in Requests, q # r
        PROVE  (lock' = q) <=> Reads(request'[q])
    BY <1>1, <1>2 DEF OneReader, Reads
  <1> QED
    BY <1>2 DEF OneReader, Reads

(* An answer found in the cache is young enough. *)
LEMMA FoundStands ==
    ASSUME ToolboxSettings, ToolboxInv, NEW r \in Requests, NEW entry,
           entry.at \in Nat, entry.taken \in Nat, entry.taken <= now, Young(now - entry.taken),
           verified
    PROVE  /\ Standing(Found(r, entry), verified, proved, now)
           /\ Found(r, entry).pc \in {"validate", "done"}
  <1>1. Standing(request[r], verified, proved, now)
    BY DEF ToolboxInv
  <1>2. /\ DOMAIN Found(r, entry) = Fields
        /\ Found(r, entry).pc \in {"validate", "done"}
        /\ Found(r, entry).since = request[r].since
        /\ Found(r, entry).age = now - entry.taken
    BY <1>1 DEF Found, Standing, Fields
  <1> QED
    BY <1>1, <1>2 DEF Standing

LEMMA CachedIsYoung ==
    ASSUME ToolboxSettings, ToolboxInv, SchemaCacheValid
    PROVE  /\ cache.at \in Nat /\ cache.taken \in Nat /\ cache.taken <= now
           /\ Young(now - cache.taken) /\ verified
  <1>1. /\ verified /\ cache.at \in Nat /\ cache.taken \in Nat /\ cache.taken <= cache.at
        /\ cache.at <= now /\ cache.at - cache.taken <= TimeoutSeconds /\ now \in Nat
        /\ now - cache.at < CacheSeconds
    BY DEF ToolboxInv, CacheStands, SchemaCacheValid
  <1> QED
    BY <1>1 DEF Young, ToolboxSettings

(* A failed request stands. *)
LEMMA EndedStands ==
    ASSUME ToolboxSettings, ToolboxInv, NEW r \in Requests, NEW pc, NEW cause
    PROVE  /\ Standing(Ended(r, pc, cause), verified, proved, now)
           /\ Ended(r, pc, cause).pc = "failed"
  <1>1. Standing(request[r], verified, proved, now)
    BY DEF ToolboxInv
  <1>2. /\ DOMAIN Ended(r, pc, cause) = Fields
        /\ Ended(r, pc, cause).pc = "failed"
        /\ Ended(r, pc, cause).since = request[r].since
        /\ Ended(r, pc, cause).age = request[r].age
    BY <1>1 DEF Ended, Standing, Fields
  <1> QED
    BY <1>1, <1>2 DEF Standing

-----------------------------------------------------------------------------
(* A step of a request that leaves the gateway's own state alone, the lock included. *)
Quiet == UNCHANGED <<readOnly, cache, verified, now, proved>>

LEMMA QuietStep ==
    ASSUME ToolboxSettings, ToolboxInv, Quiet, NEW r \in Requests, NEW e,
           request' = [request EXCEPT ![r] = e],
           Standing(e, verified, proved, now),
           LockMoves(r), (lock' = r) <=> Reads(e)
    PROVE  ToolboxInv'
  <1>1. /\ DOMAIN request' = Requests /\ request'[r] = e
        /\ \A q \in Requests \ {r} : request'[q] = request[q]
    BY DEF ToolboxInv
  <1>2. \A q \in Requests : Standing(request[q], verified, proved, now)'
    BY <1>1, OthersStand DEF Quiet
  <1>3. OneReader'
    BY <1>1, LockStands DEF ToolboxInv, LockMoves, Reads
  <1>4. CacheStands'
    BY DEF CacheStands, ToolboxInv, Quiet
  <1> QED
    BY <1>1, <1>2, <1>3, <1>4 DEF ToolboxInv, Quiet

LEMMA StandingOf ==
    ASSUME ToolboxInv, NEW r \in Requests
    PROVE  /\ Standing(request[r], verified, proved, now)
           /\ (lock = r) <=> Reads(request[r])
           /\ now \in Nat
  BY DEF ToolboxInv, OneReader, Reads

(* A request begins. *)
LEMMA BeginStep ==
    ASSUME ToolboxSettings, ToolboxInv, NEW r \in Requests, NEW op, NEW sql, Begin(r, op, sql)
    PROVE  ToolboxInv'
  <1> DEFINE e == [Idle EXCEPT !.op = op, !.sql = sql,
                        !.pc = IF op = "health" THEN "ping" ELSE "search", !.since = now]
  <1>1. /\ DOMAIN e = Fields /\ e.op = op /\ e.since = now /\ e.age = 0 /\ e.reply = Null
        /\ e.pc = IF op = "health" THEN "ping" ELSE "search"
    BY DEF Idle, Fields
  <1>2. request' = [request EXCEPT ![r] = e] /\ lock' = lock /\ lock # r /\ Quiet
    BY StandingOf DEF Begin, Quiet, Reads
  <1>3. Standing(e, verified, proved, now)
    <2> HIDE DEF e
    <2> QED
      BY <1>1, StandingOf DEF Standing, Young, ToolboxSettings
  <1> HIDE DEF e
  <1> QED
    BY <1>1, <1>2, <1>3, QuietStep DEF LockMoves, Reads

LEMMA RefuseParametersStep ==
    ASSUME ToolboxSettings, ToolboxInv, NEW r \in Requests, RefuseParameters(r)
    PROVE  ToolboxInv'
  <1> DEFINE e == [Idle EXCEPT !.op = "execute", !.pc = "failed", !.cause = "parameters",
                        !.error = RaisedFor("begin", "parameters")]
  <1>1. /\ DOMAIN e = Fields /\ e.op = "execute" /\ e.since = 0 /\ e.age = 0 /\ e.reply = Null
        /\ e.pc = "failed"
    BY DEF Idle, Fields
  <1>2. request' = [request EXCEPT ![r] = e] /\ lock' = lock /\ lock # r /\ Quiet
    BY StandingOf DEF RefuseParameters, Quiet, Reads
  <1>3. Standing(e, verified, proved, now)
    <2> HIDE DEF e
    <2> QED
      BY <1>1, StandingOf DEF Standing, Young, ToolboxSettings
  <1> HIDE DEF e
  <1> QED
    BY <1>1, <1>2, <1>3, QuietStep DEF LockMoves, Reads

LEMMA PingStep ==
    ASSUME ToolboxSettings, ToolboxInv, NEW r \in Requests, Ping(r)
    PROVE  ToolboxInv'
  <1>1. Standing(request[r], verified, proved, now) /\ now \in Nat /\ lock # r
    BY StandingOf DEF Ping, Reads
  <1>2. Quiet /\ lock' = lock
    BY DEF Ping, Quiet
  <1>3. CASE request' = [request EXCEPT ![r].pc = IF verified THEN "done" ELSE "verify",
                                        ![r].since = now]
    <2> DEFINE e == [request[r] EXCEPT !.pc = IF verified THEN "done" ELSE "verify", !.since = now]
    <2>1. /\ DOMAIN e = Fields /\ e.op = request[r].op /\ e.since = now /\ e.age = request[r].age
          /\ e.reply = request[r].reply /\ e.pc = IF verified THEN "done" ELSE "verify"
      BY <1>1 DEF Standing, Fields
    <2>2. request' = [request EXCEPT ![r] = e]
      BY <1>3 DEF ToolboxInv
    <2>3. Standing(e, verified, proved, now) /\ e.op = "health"
      <3> HIDE DEF e
      <3> QED
        BY <1>1, <2>1 DEF Standing, Ping, ToolboxSettings
    <2> HIDE DEF e
    <2> QED
      BY <1>1, <1>2, <2>1, <2>2, <2>3, QuietStep DEF LockMoves, Reads
  <1>4. CASE \E cause \in {"timeout", "unreachable"} :
                request' = [request EXCEPT ![r] = Ended(r, "ping", cause)]
    <2>1. PICK cause \in {"timeout", "unreachable"} :
                request' = [request EXCEPT ![r] = Ended(r, "ping", cause)]
      BY <1>4
    <2> QED
      BY <1>1, <1>2, <2>1, EndedStands, QuietStep DEF LockMoves, Reads
  <1> QED
    BY <1>3, <1>4 DEF Ping

LEMMA SearchStep ==
    ASSUME ToolboxSettings, ToolboxInv, NEW r \in Requests, Search(r)
    PROVE  ToolboxInv'
  <1>1. Standing(request[r], verified, proved, now) /\ now \in Nat /\ lock # r
    BY StandingOf DEF Search, Reads
  <1>2. Quiet /\ lock' = lock
    BY DEF Search, Quiet
  <1>3. CASE SchemaCacheValid
    <2>1. request' = [request EXCEPT ![r] = Found(r, cache)]
      BY <1>3 DEF Search, ToolboxInv
    <2> QED
      BY <1>1, <1>2, <1>3, <2>1, CachedIsYoung, FoundStands, QuietStep DEF LockMoves, Reads
  <1>4. CASE ~SchemaCacheValid
    <2> DEFINE e == [request[r] EXCEPT !.pc = "wait"]
    <2>1. /\ DOMAIN e = Fields /\ e.op = request[r].op /\ e.since = request[r].since
          /\ e.age = request[r].age /\ e.reply = request[r].reply /\ e.pc = "wait"
      BY <1>1 DEF Standing, Fields
    <2>2. request' = [request EXCEPT ![r] = e]
      BY <1>4 DEF Search, ToolboxInv
    <2>3. Standing(e, verified, proved, now)
      <3> HIDE DEF e
      <3> QED
        BY <1>1, <2>1 DEF Standing, Search
    <2> HIDE DEF e
    <2> QED
      BY <1>1, <1>2, <2>1, <2>2, <2>3, QuietStep DEF LockMoves, Reads
  <1> QED
    BY <1>3, <1>4

LEMMA EnterStep ==
    ASSUME ToolboxSettings, ToolboxInv, NEW r \in Requests, Enter(r)
    PROVE  ToolboxInv'
  <1>1. Standing(request[r], verified, proved, now) /\ now \in Nat /\ lock = Null
    BY StandingOf DEF Enter
  <1>2. Quiet
    BY DEF Enter, Quiet
  <1>3. CASE SchemaCacheValid
    <2>1. request' = [request EXCEPT ![r] = Found(r, cache)] /\ lock' = lock /\ lock # r
      BY <1>1, <1>3 DEF Enter, ToolboxSettings
    <2> QED
      BY <1>1, <1>2, <1>3, <2>1, CachedIsYoung, FoundStands, QuietStep DEF LockMoves, Reads
  <1>4. CASE ~SchemaCacheValid
    <2> DEFINE e == [request[r] EXCEPT !.pc = IF verified THEN "read" ELSE "verify", !.since = now]
    <2>1. /\ DOMAIN e = Fields /\ e.op = request[r].op /\ e.since = now
          /\ e.age = request[r].age /\ e.reply = request[r].reply
          /\ e.pc = IF verified THEN "read" ELSE "verify"
      BY <1>1 DEF Standing, Fields
    <2>2. request' = [request EXCEPT ![r] = e] /\ lock' = r
      BY <1>4 DEF Enter, ToolboxInv
    <2>3. Standing(e, verified, proved, now) /\ e.op # "health"
      <3> HIDE DEF e
      <3> QED
        BY <1>1, <2>1 DEF Standing, Enter, ToolboxSettings
    <2>4. (lock' = r) <=> Reads(e)
      <3> HIDE DEF e
      <3> QED
        BY <2>1, <2>2, <2>3 DEF ToolboxInv, Reads
    <2> HIDE DEF e
    <2> QED
      BY <1>1, <1>2, <2>2, <2>3, <2>4, QuietStep DEF LockMoves, Reads
  <1> QED
    BY <1>3, <1>4

LEMMA ServeStep ==
    ASSUME ToolboxSettings, ToolboxInv, NEW r \in Requests, Serve(r)
    PROVE  ToolboxInv'
  <1> DEFINE e == [request[r] EXCEPT !.reply =
                      IF request[r].pc = "verify" THEN [read_only |-> readOnly]
                      ELSE [relations |-> schema, taken |-> now]]
  <1>1. Standing(request[r], verified, proved, now) /\ now \in Nat
    BY StandingOf
  <1>2. Quiet /\ lock' = lock /\ request' = [request EXCEPT ![r] = e]
    BY DEF Serve, Quiet, ToolboxInv
  <1>3. /\ DOMAIN e = Fields /\ e.op = request[r].op /\ e.since = request[r].since
        /\ e.age = request[r].age /\ e.pc = request[r].pc
        /\ e.pc = "verify" => e.reply.read_only = readOnly
        /\ e.pc = "read" => e.reply.taken = now
    BY <1>1, SMTT(60) DEF Standing, Fields, Serve
  <1> HIDE DEF e
  <1>4. Standing(e, verified, proved, now)
    BY <1>1, <1>3 DEF Standing, Serve, ToolboxInv
  <1>5. (lock' = r) <=> Reads(e)
    BY <1>2, <1>3, StandingOf DEF Reads
  <1> QED
    BY <1>2, <1>4, <1>5, QuietStep DEF LockMoves, Reads

LEMMA VerifiedStep ==
    ASSUME ToolboxSettings, ToolboxInv, NEW r \in Requests, Verified(r)
    PROVE  ToolboxInv'
  <1>1. /\ Standing(request[r], verified, proved, now) /\ now \in Nat
        /\ (lock = r) <=> request[r].op # "health"
    BY StandingOf DEF Verified, Reads
  <1>2. CASE request[r].reply.read_only
    <2> DEFINE e == [request[r] EXCEPT
                        !.pc = IF request[r].op = "health" THEN "done" ELSE "read",
                        !.reply = Null, !.since = now]
    <2>1. /\ DOMAIN e = Fields /\ e.op = request[r].op /\ e.since = now
          /\ e.age = request[r].age /\ e.reply = Null
          /\ e.pc = IF request[r].op = "health" THEN "done" ELSE "read"
      BY <1>1 DEF Standing, Fields
    <2>2. /\ request' = [request EXCEPT ![r] = e] /\ lock' = lock
          /\ verified' = TRUE /\ proved /\ proved' = proved /\ now' = now /\ cache' = cache
          /\ readOnly' = readOnly
      BY <1>1, <1>2 DEF Verified, ToolboxInv, Standing
    <2> HIDE DEF e
    <2>3. Standing(e, verified', proved', now')
      BY <1>1, <2>1, <2>2 DEF Standing, ToolboxSettings
    <2>4. /\ DOMAIN request' = Requests /\ request'[r] = e
          /\ \A q \in Requests \ {r} : request'[q] = request[q]
      BY <2>2 DEF ToolboxInv
    <2>5. \A q \in Requests : Standing(request[q], verified, proved, now)'
      BY <2>2, <2>3, <2>4, OthersStand
    <2>6. OneReader'
      BY <1>1, <2>1, <2>2, <2>4, LockStands DEF ToolboxInv, LockMoves, Reads
    <2>7. CacheStands'
      BY <2>2 DEF CacheStands, ToolboxInv
    <2> QED
      BY <2>2, <2>4, <2>5, <2>6, <2>7 DEF ToolboxInv
  <1>3. CASE ~request[r].reply.read_only
    <2>1. /\ request' = [request EXCEPT ![r] = Ended(r, "verify", "writable")]
          /\ Quiet /\ lock' = Released(r)
      BY <1>3 DEF Verified, Quiet
    <2>2. lock' # r /\ LockMoves(r)
      BY <2>1 DEF Released, LockMoves, ToolboxSettings
    <2> QED
      BY <2>1, <2>2, EndedStands, QuietStep DEF LockMoves, Reads
  <1> QED
    BY <1>2, <1>3

LEMMA StoreStep ==
    ASSUME ToolboxSettings, ToolboxInv, NEW r \in Requests, Store(r)
    PROVE  ToolboxInv'
  <1> DEFINE entry == [relations |-> request[r].reply.relations, at |-> now,
                       taken |-> request[r].reply.taken]
  <1>1. Standing(request[r], verified, proved, now) /\ now \in Nat /\ lock = r
    BY StandingOf DEF Store, Reads
  <1>2. /\ entry.at = now /\ entry.taken \in Nat /\ entry.taken <= now /\ verified
        /\ now - entry.taken <= TimeoutSeconds
    BY <1>1 DEF Standing, Store, ToolboxSettings
  <1>3. /\ cache' = entry /\ request' = [request EXCEPT ![r] = Found(r, entry)]
        /\ lock' = Null /\ UNCHANGED <<readOnly, verified, now, proved>>
    BY <1>1 DEF Store, Released
  <1> HIDE DEF entry
  <1>4. /\ Standing(Found(r, entry), verified, proved, now)
        /\ Found(r, entry).pc \in {"validate", "done"}
    BY <1>1, <1>2, FoundStands DEF Young
  <1>5. /\ DOMAIN request' = Requests /\ request'[r] = Found(r, entry)
        /\ \A q \in Requests \ {r} : request'[q] = request[q]
    BY <1>3 DEF ToolboxInv
  <1>6. \A q \in Requests : Standing(request[q], verified, proved, now)'
    BY <1>3, <1>4, <1>5, OthersStand
  <1>7. OneReader'
    <2>1. lock' # r
      BY <1>3 DEF ToolboxSettings
    <2> QED
      BY <1>1, <1>3, <1>4, <1>5, <2>1, LockStands DEF ToolboxInv, LockMoves, Reads
  <1>8. CacheStands'
    BY <1>1, <1>2, <1>3 DEF CacheStands
  <1> QED
    BY <1>3, <1>5, <1>6, <1>7, <1>8 DEF ToolboxInv

LEMMA ValidateStep ==
    ASSUME ToolboxSettings, ToolboxInv, NEW r \in Requests, Validate(r)
    PROVE  ToolboxInv'
  <1>1. Standing(request[r], verified, proved, now) /\ now \in Nat /\ lock # r
    BY StandingOf DEF Validate, Reads
  <1>2. Quiet /\ lock' = lock
    BY DEF Validate, Quiet
  <1>3. CASE request[r].sql \subseteq request[r].reply
    <2> DEFINE e == [request[r] EXCEPT !.pc = "run", !.since = now]
    <2>1. /\ DOMAIN e = Fields /\ e.since = now /\ e.age = request[r].age /\ e.pc = "run"
      BY <1>1 DEF Standing, Fields
    <2>2. request' = [request EXCEPT ![r] = e]
      BY <1>3 DEF Validate, ToolboxInv
    <2>3. Standing(e, verified, proved, now)
      <3>1. verified
        BY <1>1 DEF Standing, Validate
      <3> HIDE DEF e
      <3> QED
        BY <1>1, <2>1, <3>1 DEF Standing, ToolboxSettings
    <2> HIDE DEF e
    <2> QED
      BY <1>1, <1>2, <2>1, <2>2, <2>3, QuietStep DEF LockMoves, Reads
  <1>4. CASE ~(request[r].sql \subseteq request[r].reply)
    <2>1. request' = [request EXCEPT ![r] = Ended(r, "validate", "unknown relation")]
      BY <1>4 DEF Validate
    <2> QED
      BY <1>1, <1>2, <2>1, EndedStands, QuietStep DEF LockMoves, Reads
  <1> QED
    BY <1>3, <1>4

LEMMA RunStep ==
    ASSUME ToolboxSettings, ToolboxInv, NEW r \in Requests, Run(r)
    PROVE  ToolboxInv'
  <1>1. Standing(request[r], verified, proved, now) /\ now \in Nat /\ lock # r
    BY StandingOf DEF Run, Reads
  <1>2. Quiet /\ lock' = lock
    BY DEF Run, Quiet
  <1>3. PICK records \in Results :
          request' = [request EXCEPT ![r] =
             IF BoundedRows(records).cut /\ BoundedRows(records).rows = <<>>
             THEN Ended(r, "run", "too large")
             ELSE [@ EXCEPT !.pc = "done", !.rows = BoundedRows(records).rows,
                            !.cut = BoundedRows(records).cut]]
    BY DEF Run
  <1> DEFINE rows == BoundedRows(records).rows
             cut == BoundedRows(records).cut
             e == [request[r] EXCEPT !.pc = "done", !.rows = rows, !.cut = cut]
  <1>4. /\ DOMAIN e = Fields /\ e.since = request[r].since /\ e.age = request[r].age
        /\ e.pc = "done"
    BY <1>1 DEF Standing, Fields
  <1>5. \/ request' = [request EXCEPT ![r] = e]
        \/ request' = [request EXCEPT ![r] = Ended(r, "run", "too large")]
    BY <1>3 DEF ToolboxInv
  <1> HIDE DEF e
  <1>6. Standing(e, verified, proved, now)
    BY <1>1, <1>4 DEF Standing
  <1> QED
    BY <1>1, <1>2, <1>4, <1>5, <1>6, EndedStands, QuietStep DEF LockMoves, Reads

LEMMA InvocationFailsStep ==
    ASSUME ToolboxSettings, ToolboxInv, NEW r \in Requests, InvocationFails(r)
    PROVE  ToolboxInv'
  <1>1. PICK cause \in {"timeout", "unreachable", "tool error", "malformed"} :
           request' = [request EXCEPT ![r] = Ended(r, request[r].pc, cause)]
    BY DEF InvocationFails
  <1>2. Quiet /\ lock' # r /\ LockMoves(r)
    BY DEF InvocationFails, Quiet, Released, LockMoves, ToolboxSettings
  <1> QED
    BY <1>1, <1>2, EndedStands, QuietStep DEF LockMoves, Reads

(* The database changes under the requests, and time passes. *)
LEMMA SurroundingsStep ==
    ASSUME ToolboxSettings, ToolboxInv, AlterRole \/ AlterSchema \/ Tick
    PROVE  ToolboxInv'
  <1>1. OneReader' /\ DOMAIN request' = Requests
    BY DEF AlterRole, AlterSchema, Tick, OneReader, ToolboxInv
  <1>2. /\ readOnly' \in BOOLEAN /\ verified' \in BOOLEAN /\ proved' \in BOOLEAN /\ now' \in Nat
        /\ readOnly' => proved'
        /\ verified' => proved'
    <2>1. now' \in Nat
      BY DEF AlterRole, AlterSchema, Tick, ToolboxInv
    <2>2. CASE AlterRole
      <3>1. readOnly' = ~readOnly /\ proved' = (proved \/ readOnly') /\ verified' = verified
        BY <2>2 DEF AlterRole
      <3>2. /\ readOnly \in BOOLEAN /\ verified \in BOOLEAN /\ proved \in BOOLEAN
            /\ verified => proved
        BY DEF ToolboxInv
      <3>3. readOnly' \in BOOLEAN /\ proved' \in BOOLEAN
        BY <3>1
      <3> QED
        BY <2>1, <3>1, <3>2, <3>3
    <2>3. CASE AlterSchema \/ Tick
      BY <2>1, <2>3 DEF AlterSchema, Tick, ToolboxInv
    <2> QED
      BY <2>2, <2>3
  <1>3. CacheStands'
    BY DEF AlterRole, AlterSchema, Tick, ToolboxInv, CacheStands
  <1>4. ASSUME NEW q \in Requests
        PROVE  Standing(request'[q], verified', proved', now')
    <2>1. Standing(request[q], verified, proved, now) /\ request' = request /\ now \in Nat
      BY DEF ToolboxInv, AlterRole, AlterSchema, Tick
    <2>2. CASE AlterRole \/ AlterSchema
      BY <2>1, <2>2 DEF Standing, AlterRole, AlterSchema
    <2>3. CASE Tick
      BY <2>1, <2>3 DEF Standing, Tick, ToolboxSettings
    <2> QED
      BY <2>2, <2>3
  <1> QED
    BY <1>1, <1>2, <1>3, <1>4 DEF ToolboxInv

LEMMA ToolboxStep ==
    ASSUME ToolboxSettings, ToolboxInv, [ToolboxNext]_toolboxVars
    PROVE  ToolboxInv'
  <1>1. CASE UNCHANGED toolboxVars
    BY <1>1 DEF toolboxVars, ToolboxInv, CacheStands, OneReader
  <1>2. ASSUME NEW r \in Requests,
               \/ \E op \in {"health", "search"} : Begin(r, op, {})
               \/ \E sql \in Statements : Begin(r, "execute", sql)
               \/ RefuseParameters(r)
               \/ Ping(r) \/ Search(r) \/ Enter(r) \/ Serve(r) \/ Verified(r) \/ Store(r)
               \/ Validate(r) \/ Run(r) \/ InvocationFails(r)
        PROVE  ToolboxInv'
    BY <1>2, BeginStep, RefuseParametersStep, PingStep, SearchStep, EnterStep, ServeStep,
       VerifiedStep, StoreStep, ValidateStep, RunStep, InvocationFailsStep
  <1>3. CASE AlterRole \/ AlterSchema \/ Tick
    BY <1>3, SurroundingsStep
  <1> QED
    BY <1>1, <1>2, <1>3 DEF ToolboxNext

LEMMA ToolboxSound ==
    ASSUME ToolboxSettings, ToolboxInv
    PROVE  ReadsAreProved /\ OneReader
  BY SMTT(60) DEF ToolboxInv, CacheStands, Standing, Young, ReadsAreProved

-----------------------------------------------------------------------------
(* What a client is told of a failure *)

(* The branches of normalize_error, one by one. *)
LEMMA BranchTable ==
    /\ DOMAIN Branches = 1..23
    /\ Branches[1].classes = {"AuthenticationFailed"} /\ Branches[1].retryable = FALSE
    /\ Branches[2].classes = {"AuthenticationProviderUnavailable"} /\ Branches[2].retryable = TRUE
    /\ Branches[3].classes = {"AuthorizationDenied"} /\ Branches[3].retryable = FALSE
    /\ Branches[4].classes = {"AuthorizationProviderUnavailable", "InvalidAuthorizationDecision"} /\ Branches[4].retryable = TRUE
    /\ Branches[5].classes = {"CheckpointConfiguration", "CheckpointProviderUnavailable"} /\ Branches[5].retryable = TRUE
    /\ Branches[6].classes = {"GovernanceProviderUnavailable", "GovernanceMetadataNotFound",
              "InvalidGovernanceMetadata"} /\ Branches[6].retryable = TRUE
    /\ Branches[7].classes = {"SQLRepairFailed"} /\ Branches[7].retryable = FALSE
    /\ Branches[8].classes = {"SQLSchemaValidation"} /\ Branches[8].retryable = FALSE
    /\ Branches[9].classes = {"SQLValidation"} /\ Branches[9].retryable = FALSE
    /\ Branches[10].classes = {"DatabaseQueryTimeout", "Timeout"} /\ Branches[10].retryable = TRUE
    /\ Branches[11].classes = {"DatabaseReadOnlyConfiguration"} /\ Branches[11].retryable = FALSE
    /\ Branches[12].classes = {"DatabasePermission"} /\ Branches[12].retryable = FALSE
    /\ Branches[13].classes = {"DatabaseResultTooLarge"} /\ Branches[13].retryable = FALSE
    /\ Branches[14].classes = {"DatabaseQueryExecution"} /\ Branches[14].retryable = FALSE
    /\ Branches[15].classes = {"DatabaseUnavailable"} /\ Branches[15].retryable = TRUE
    /\ Branches[16].classes = {"LLMRateLimit"} /\ Branches[16].retryable = TRUE
    /\ Branches[17].classes = {"InvalidStructuredModelOutput"} /\ Branches[17].retryable = TRUE
    /\ Branches[18].classes = {"LLMGateway"} /\ Branches[18].retryable = TRUE
    /\ Branches[19].classes = {"SemanticProviderUnavailable"} /\ Branches[19].retryable = TRUE
    /\ Branches[20].classes = {"MetricProviderUnavailable"} /\ Branches[20].retryable = TRUE
    /\ Branches[21].classes = {"MetricQueryValidation"} /\ Branches[21].retryable = FALSE
    /\ Branches[22].classes = {"QueryRouter"} /\ Branches[22].retryable = FALSE
    /\ Branches[23].classes = {"MetricPlanning"} /\ Branches[23].retryable = FALSE
  BY DEF Branches, Branch

(* The branch that names a class. *)
BranchOf ==
    [AuthenticationFailed |-> 1, AuthenticationProviderUnavailable |-> 2,
     AuthorizationDenied |-> 3, AuthorizationProviderUnavailable |-> 4,
     InvalidAuthorizationDecision |-> 4, CheckpointConfiguration |-> 5,
     CheckpointProviderUnavailable |-> 5, GovernanceProviderUnavailable |-> 6,
     GovernanceMetadataNotFound |-> 6, InvalidGovernanceMetadata |-> 6,
     SQLRepairFailed |-> 7, SQLSchemaValidation |-> 8, SQLValidation |-> 9,
     DatabaseQueryTimeout |-> 10, Timeout |-> 10, DatabaseReadOnlyConfiguration |-> 11,
     DatabasePermission |-> 12, DatabaseResultTooLarge |-> 13,
     DatabaseQueryExecution |-> 14, DatabaseUnavailable |-> 15, LLMRateLimit |-> 16,
     InvalidStructuredModelOutput |-> 17, LLMGateway |-> 18,
     SemanticProviderUnavailable |-> 19, MetricProviderUnavailable |-> 20,
     MetricQueryValidation |-> 21, QueryRouter |-> 22, MetricPlanning |-> 23]

(* No class has two branches, and the branch of a class comes no later than that of
   its base class. *)
LEMMA OneBranchEach ==
    /\ \A j \in 1..23, class \in DOMAIN BranchOf :
          class \in Branches[j].classes <=> j = BranchOf[class]
    /\ \A j \in 1..23 : Branches[j].classes \subseteq DOMAIN BranchOf
    /\ \A class \in DOMAIN BranchOf :
          /\ BranchOf[class] \in 1..23
          /\ Self(class) \in DOMAIN BranchOf
          /\ BranchOf[class] <= BranchOf[Self(class)]
  <1>1. ASSUME NEW j \in 1..23
        PROVE  /\ \A class \in DOMAIN BranchOf :
                     class \in Branches[j].classes <=> j = BranchOf[class]
               /\ Branches[j].classes \subseteq DOMAIN BranchOf
    <2>1. CASE j = 1
      BY <2>1, BranchTable, SMTT(60) DEF BranchOf
    <2>2. CASE j = 2
      BY <2>2, BranchTable, SMTT(60) DEF BranchOf
    <2>3. CASE j = 3
      BY <2>3, BranchTable, SMTT(60) DEF BranchOf
    <2>4. CASE j = 4
      BY <2>4, BranchTable DEF BranchOf
    <2>5. CASE j = 5
      BY <2>5, BranchTable, SMTT(60) DEF BranchOf
    <2>6. CASE j = 6
      BY <2>6, BranchTable, SMTT(60) DEF BranchOf
    <2>7. CASE j = 7
      BY <2>7, BranchTable DEF BranchOf
    <2>8. CASE j = 8
      BY <2>8, BranchTable, SMTT(60) DEF BranchOf
    <2>9. CASE j = 9
      BY <2>9, BranchTable, SMTT(60) DEF BranchOf
    <2>10. CASE j = 10
      BY <2>10, BranchTable, SMTT(60) DEF BranchOf
    <2>11. CASE j = 11
      BY <2>11, BranchTable DEF BranchOf
    <2>12. CASE j = 12
      BY <2>12, BranchTable DEF BranchOf
    <2>13. CASE j = 13
      BY <2>13, BranchTable DEF BranchOf
    <2>14. CASE j = 14
      BY <2>14, BranchTable DEF BranchOf
    <2>15. CASE j = 15
      BY <2>15, BranchTable, SMTT(60) DEF BranchOf
    <2>16. CASE j = 16
      BY <2>16, BranchTable DEF BranchOf
    <2>17. CASE j = 17
      BY <2>17, BranchTable DEF BranchOf
    <2>18. CASE j = 18
      BY <2>18, BranchTable DEF BranchOf
    <2>19. CASE j = 19
      BY <2>19, BranchTable DEF BranchOf
    <2>20. CASE j = 20
      BY <2>20, BranchTable DEF BranchOf
    <2>21. CASE j = 21
      BY <2>21, BranchTable DEF BranchOf
    <2>22. CASE j = 22
      BY <2>22, BranchTable DEF BranchOf
    <2>23. CASE j = 23
      BY <2>23, BranchTable DEF BranchOf
    <2> QED
      BY <2>1, <2>2, <2>3, <2>4, <2>5, <2>6, <2>7, <2>8, <2>9, <2>10, <2>11, <2>12, <2>13, <2>14, <2>15, <2>16, <2>17, <2>18, <2>19, <2>20, <2>21, <2>22, <2>23
  <1>2. ASSUME NEW class \in DOMAIN BranchOf
        PROVE  /\ BranchOf[class] \in 1..23
               /\ Self(class) \in DOMAIN BranchOf
               /\ BranchOf[class] <= BranchOf[Self(class)]
    BY DEF BranchOf, Self, Base
  <1> QED
    BY <1>1, <1>2

(* A class with a branch of its own is told by it. *)
LEMMA ToldAsItself ==
    ASSUME NEW class \in DOMAIN BranchOf
    PROVE  NormalizeError(class) = Branches[BranchOf[class]]
  <1> DEFINE hits == {i \in DOMAIN Branches : Branches[i].classes \cap Instances(class) # {}}
             b == BranchOf[class]
  <1>1. b \in hits
    BY BranchTable, OneBranchEach, ZenonT(60) DEF Instances
  <1>2. ASSUME NEW j \in hits
        PROVE  b <= j
    <2>1. PICK x \in Branches[j].classes : x \in {class, Self(class), Self(Self(class))}
      BY DEF Instances
    <2>2. j \in 1..23
      BY BranchTable
    <2>3. x \in DOMAIN BranchOf /\ j = BranchOf[x]
      BY <2>1, <2>2, OneBranchEach
    <2>4. /\ Self(class) \in DOMAIN BranchOf /\ BranchOf[class] <= BranchOf[Self(class)]
          /\ Self(Self(class)) \in DOMAIN BranchOf
          /\ BranchOf[Self(class)] <= BranchOf[Self(Self(class))]
      BY OneBranchEach
    <2>5. /\ BranchOf[class] \in Nat /\ BranchOf[Self(class)] \in Nat
          /\ BranchOf[Self(Self(class))] \in Nat
      BY <2>4, OneBranchEach, SMTT(60)
    <2> HIDE DEF hits
    <2> QED
      BY <2>1, <2>3, <2>4, <2>5
  <1>3. \A j \in hits : j \in 1..23
    BY BranchTable
  <1> HIDE DEF hits, b
  <1>4. (CHOOSE i \in hits : \A j \in hits : i <= j) = b
    <2>1. \A i \in hits : (\A j \in hits : i <= j) <=> i = b
      BY <1>1, <1>2, <1>3
    <2> QED
      BY <1>1, <2>1
  <1> QED
    BY <1>1, <1>4 DEF NormalizeError, hits, b

(* An error of a class a caller is told apart by is told by the branch written for that
   class, not by an earlier one that also matches (normalize_error in errors.py:98-345). *)
THEOREM EachByItsOwnBranch ==
    ToldByItsOwnBranch
  <1> SUFFICES ASSUME NEW i \in DOMAIN Branches, NEW class \in Branches[i].classes
               PROVE  NormalizeError(class) = Branches[i]
    BY DEF ToldByItsOwnBranch
  <1>1. i \in 1..23
    BY BranchTable
  <1>2. class \in DOMAIN BranchOf /\ BranchOf[class] = i
    BY <1>1, OneBranchEach
  <1> QED
    BY <1>2, ToldAsItself

(* Whether a failure of the toolbox is told as worth retrying: when the transport
   failed (toolbox.py:223-303, errors.py:225-271). *)
LEMMA RetriesAsCaused ==
    ASSUME NEW pc, NEW cause
    PROVE  NormalizeError(RaisedFor(pc, cause)).retryable <=> cause \in {"timeout", "unreachable"}
  <1> DEFINE class == RaisedFor(pc, cause)
  <1>1. class \in DOMAIN BranchOf => NormalizeError(class) = Branches[BranchOf[class]]
    BY ToldAsItself
  <1>2. CASE cause = "timeout"
    <2>1. class = "DatabaseQueryTimeout"
      BY <1>2 DEF RaisedFor
    <2>2. "DatabaseQueryTimeout" \in DOMAIN BranchOf /\ BranchOf["DatabaseQueryTimeout"] = 10
      BY DEF BranchOf
    <2> QED
      BY <1>1, <1>2, <2>1, <2>2, BranchTable
  <1>3. CASE cause = "unreachable"
    <2>1. class = "DatabaseUnavailable"
      BY <1>3 DEF RaisedFor
    <2>2. "DatabaseUnavailable" \in DOMAIN BranchOf /\ BranchOf["DatabaseUnavailable"] = 15
      BY DEF BranchOf
    <2> QED
      BY <1>1, <1>3, <2>1, <2>2, BranchTable
  <1>4. CASE cause \notin {"timeout", "unreachable"}
    <2>1. class \in {"DatabaseReadOnlyConfiguration", "SQLSchemaValidation",
                     "DatabaseResultTooLarge", "ToolboxToolInvocation", "DatabaseQueryExecution"}
      BY <1>4 DEF RaisedFor
    <2>2. CASE class = "ToolboxToolInvocation"
      <3>1. class \notin DOMAIN BranchOf /\ Instances(class) = {class}
        BY <2>2 DEF BranchOf, Instances, Self, Base
      <3>2. {i \in DOMAIN Branches : Branches[i].classes \cap Instances(class) # {}} = {}
        BY <3>1, BranchTable, OneBranchEach
      <3>3. NormalizeError(class) = Internal
        BY <3>2 DEF NormalizeError
      <3> QED
        BY <1>4, <3>3 DEF Internal, Branch
    <2>3. CASE class # "ToolboxToolInvocation"
      <3>1. class \in DOMAIN BranchOf /\ BranchOf[class] \in {8, 11, 13, 14}
        BY <2>1, <2>3 DEF BranchOf
      <3> QED
        BY <1>1, <1>4, <3>1, BranchTable
    <2> QED
      BY <2>2, <2>3
  <1> QED
    BY <1>2, <1>3, <1>4

(* The rows a result is cut to fit, and no row that fits is cut. *)
LEMMA BoundedRowsFit ==
    ASSUME ToolboxSettings, NEW records, Len(records) \in Nat
    PROVE  Bytes(BoundedRows(records).rows) <= MaxBytes
  <1> DEFINE L == Len(records)
             fits == {n \in 0..L : \A k \in 1..n : Bytes(SubSeq(records, 1, k)) <= MaxBytes}
             least == {L - n : n \in fits}
             most == CHOOSE n \in fits : \A k \in fits : k <= n
  <1>1. least \subseteq Nat /\ least # {}
    <2>1. 0 \in fits
      OBVIOUS
    <2> QED
      BY <2>1
  <1>2. PICK m \in least : \A y \in least : m <= y
    BY <1>1, LeastOf
  <1>3. PICK n \in fits : m = L - n
    BY <1>2
  <1>4. \A k \in fits : k <= n
    <2>1. ASSUME NEW k \in fits
          PROVE  k <= n
      <3>1. L - k \in least /\ k \in 0..L /\ n \in 0..L
        OBVIOUS
      <3>2. L - n <= L - k
        BY <1>2, <1>3, <3>1
      <3> HIDE DEF fits, least
      <3> QED
        BY <3>1, <3>2
    <2> QED
      BY <2>1
  <1>5. most \in fits
    <2> HIDE DEF fits
    <2> QED
      BY <1>3, <1>4
  <1>6. most \in 0..L /\ \A k \in 1..most : Bytes(SubSeq(records, 1, k)) <= MaxBytes
    BY <1>5
  <1>7. BoundedRows(records).rows = SubSeq(records, 1, most)
    BY DEF BoundedRows
  <1> HIDE DEF most
  <1>8. CASE most = 0
    <2>1. SubSeq(records, 1, 0) = <<>>
      OBVIOUS
    <2> QED
      BY <1>7, <1>8, <2>1 DEF Bytes, ToolboxSettings
  <1>9. CASE most # 0
    BY <1>6, <1>7, <1>9
  <1> QED
    BY <1>8, <1>9

(* What a request was told. *)
Told(e) ==
    /\ DOMAIN e = Fields
    /\ Bytes(e.rows) <= MaxBytes
    /\ e.cut => e.rows # <<>>
    /\ e.pc = "failed" => (NormalizeError(e.error).retryable
                              <=> e.cause \in {"timeout", "unreachable"})

ToldInv == DOMAIN request = Requests /\ \A r \in Requests : Told(request[r])

(* A result of the server is a sequence of rows. *)
ResultsAreSequences == \A records \in Results : Len(records) \in Nat

LEMMA ToldAlike ==
    ASSUME NEW e, NEW f, Told(e), DOMAIN f = Fields, f.pc # "failed", f.rows = e.rows,
           f.cut = e.cut
    PROVE  Told(f)
  BY DEF Told

LEMMA ToldOfIdle ==
    ASSUME ToolboxSettings, NEW f, DOMAIN f = Fields, f.rows = <<>>, f.cut = FALSE,
           f.pc = "failed" => (NormalizeError(f.error).retryable
                                  <=> f.cause \in {"timeout", "unreachable"})
    PROVE  Told(f)
  <1>1. Bytes(f.rows) = 2
    BY DEF Bytes
  <1> QED
    BY <1>1 DEF Told, ToolboxSettings

LEMMA ToldOfEnded ==
    ASSUME ToldInv, NEW r \in Requests, NEW pc, NEW cause
    PROVE  Told(Ended(r, pc, cause))
  <1>1. Told(request[r])
    BY DEF ToldInv
  <1>2. /\ DOMAIN Ended(r, pc, cause) = Fields
        /\ Ended(r, pc, cause).rows = request[r].rows
        /\ Ended(r, pc, cause).cut = request[r].cut
        /\ Ended(r, pc, cause).cause = cause
        /\ Ended(r, pc, cause).error = RaisedFor(pc, cause)
    BY <1>1 DEF Ended, Told, Fields
  <1> QED
    BY <1>1, <1>2, RetriesAsCaused DEF Told

LEMMA ToldOfFound ==
    ASSUME ToldInv, NEW r \in Requests, NEW entry
    PROVE  Told(Found(r, entry))
  <1>1. Told(request[r])
    BY DEF ToldInv
  <1>2. /\ DOMAIN Found(r, entry) = Fields
        /\ Found(r, entry).pc # "failed"
        /\ Found(r, entry).rows = request[r].rows
        /\ Found(r, entry).cut = request[r].cut
    BY <1>1 DEF Found, Told, Fields
  <1> QED
    BY <1>1, <1>2, ToldAlike

LEMMA ToldElsewhere ==
    ASSUME ToldInv, NEW r \in Requests, NEW e, request' = [request EXCEPT ![r] = e], Told(e)
    PROVE  ToldInv'
  <1>1. ASSUME NEW q \in Requests
        PROVE  Told(request'[q])
    BY DEF ToldInv
  <1>2. DOMAIN request' = Requests
    BY DEF ToldInv
  <1>3. \A q \in Requests : Told(request[q])'
    BY <1>1 DEF Told
  <1> QED
    BY <1>2, <1>3 DEF ToldInv

LEMMA ToldStep ==
    ASSUME ToolboxSettings, ResultsAreSequences, ToldInv, [ToolboxNext]_toolboxVars
    PROVE  ToldInv'
  <1>0. \A r \in Requests : Told(request[r]) /\ DOMAIN request[r] = Fields
    BY DEF ToldInv, Told
  <1>1. CASE request' = request
    BY <1>1 DEF ToldInv, Told
  <1>2. ASSUME NEW r \in Requests, NEW op, NEW sql, Begin(r, op, sql)
        PROVE  ToldInv'
    <2> DEFINE e == [Idle EXCEPT !.op = op, !.sql = sql,
                          !.pc = IF op = "health" THEN "ping" ELSE "search", !.since = now]
    <2>1. DOMAIN e = Fields /\ e.rows = <<>> /\ e.cut = FALSE /\ e.pc # "failed"
      BY DEF Idle, Fields
    <2>2. request' = [request EXCEPT ![r] = e]
      BY <1>2 DEF Begin
    <2> HIDE DEF e
    <2> QED
      BY <2>1, <2>2, ToldOfIdle, ToldElsewhere
  <1>3. ASSUME NEW r \in Requests, RefuseParameters(r)
        PROVE  ToldInv'
    <2> DEFINE e == [Idle EXCEPT !.op = "execute", !.pc = "failed", !.cause = "parameters",
                          !.error = RaisedFor("begin", "parameters")]
    <2>1. /\ DOMAIN e = Fields /\ e.rows = <<>> /\ e.cut = FALSE /\ e.cause = "parameters"
          /\ e.error = RaisedFor("begin", "parameters")
      BY DEF Idle, Fields
    <2>2. request' = [request EXCEPT ![r] = e]
      BY <1>3 DEF RefuseParameters
    <2> HIDE DEF e
    <2> QED
      BY <2>1, <2>2, ToldOfIdle, ToldElsewhere, RetriesAsCaused
  <1>4. ASSUME NEW r \in Requests, NEW pc, NEW cause,
               request' = [request EXCEPT ![r] = Ended(r, pc, cause)]
        PROVE  ToldInv'
    BY <1>4, ToldOfEnded, ToldElsewhere
  <1>5. ASSUME NEW r \in Requests, NEW entry, request' = [request EXCEPT ![r] = Found(r, entry)]
        PROVE  ToldInv'
    BY <1>5, ToldOfFound, ToldElsewhere
  <1>6. ASSUME NEW r \in Requests, NEW pc, pc # "failed",
               request' = [request EXCEPT ![r].pc = pc]
        PROVE  ToldInv'
    <2> DEFINE e == [request[r] EXCEPT !.pc = pc]
    <2>1. DOMAIN e = Fields /\ e.rows = request[r].rows /\ e.cut = request[r].cut /\ e.pc = pc
      BY <1>0 DEF Fields
    <2>2. request' = [request EXCEPT ![r] = e]
      BY <1>6 DEF ToldInv
    <2> HIDE DEF e
    <2> QED
      BY <1>0, <1>6, <2>1, <2>2, ToldAlike, ToldElsewhere
  <1>7. ASSUME NEW r \in Requests, NEW pc, NEW since, pc # "failed",
               request' = [request EXCEPT ![r].pc = pc, ![r].since = since]
        PROVE  ToldInv'
    <2> DEFINE e == [request[r] EXCEPT !.pc = pc, !.since = since]
    <2>1. DOMAIN e = Fields /\ e.rows = request[r].rows /\ e.cut = request[r].cut /\ e.pc = pc
      BY <1>0 DEF Fields
    <2>2. request' = [request EXCEPT ![r] = e]
      BY <1>7 DEF ToldInv
    <2> HIDE DEF e
    <2> QED
      BY <1>0, <1>7, <2>1, <2>2, ToldAlike, ToldElsewhere
  <1>8. ASSUME NEW r \in Requests, NEW pc, NEW reply, NEW since, pc # "failed",
               request' = [request EXCEPT ![r].pc = pc, ![r].reply = reply, ![r].since = since]
        PROVE  ToldInv'
    <2> DEFINE e == [request[r] EXCEPT !.pc = pc, !.reply = reply, !.since = since]
    <2>1. DOMAIN e = Fields /\ e.rows = request[r].rows /\ e.cut = request[r].cut /\ e.pc = pc
      BY <1>0 DEF Fields
    <2>2. request' = [request EXCEPT ![r] = e]
      BY <1>8 DEF ToldInv
    <2> HIDE DEF e
    <2> QED
      BY <1>0, <1>8, <2>1, <2>2, ToldAlike, ToldElsewhere
  <1>9. ASSUME NEW r \in Requests, NEW reply, request[r].pc # "failed",
               request' = [request EXCEPT ![r].reply = reply]
        PROVE  ToldInv'
    <2> DEFINE e == [request[r] EXCEPT !.reply = reply]
    <2>1. /\ DOMAIN e = Fields /\ e.rows = request[r].rows /\ e.cut = request[r].cut
          /\ e.pc = request[r].pc
      BY <1>0 DEF Fields
    <2>2. request' = [request EXCEPT ![r] = e]
      BY <1>9 DEF ToldInv
    <2> HIDE DEF e
    <2> QED
      BY <1>0, <1>9, <2>1, <2>2, ToldAlike, ToldElsewhere
  <1>10. ASSUME NEW r \in Requests, Run(r)
         PROVE  ToldInv'
    <2>1. PICK records \in Results :
            request' = [request EXCEPT ![r] =
               IF BoundedRows(records).cut /\ BoundedRows(records).rows = <<>>
               THEN Ended(r, "run", "too large")
               ELSE [@ EXCEPT !.pc = "done", !.rows = BoundedRows(records).rows,
                              !.cut = BoundedRows(records).cut]]
      BY <1>10 DEF Run
    <2> DEFINE rows == BoundedRows(records).rows
               cut == BoundedRows(records).cut
               e == [request[r] EXCEPT !.pc = "done", !.rows = rows, !.cut = cut]
    <2>2. CASE cut /\ rows = <<>>
      <3>1. request' = [request EXCEPT ![r] = Ended(r, "run", "too large")]
        BY <2>1, <2>2
      <3> QED
        BY <1>4, <3>1
    <2>3. CASE ~(cut /\ rows = <<>>)
      <3>1. DOMAIN e = Fields /\ e.rows = rows /\ e.cut = cut /\ e.pc = "done"
        BY <1>0 DEF Fields
      <3>2. request' = [request EXCEPT ![r] = e]
        BY <2>1, <2>3 DEF ToldInv
      <3>3. Bytes(rows) <= MaxBytes
        BY BoundedRowsFit DEF ResultsAreSequences
      <3> HIDE DEF e, rows, cut
      <3>4. Told(e)
        BY <2>3, <3>1, <3>3 DEF Told
      <3> QED
        BY <3>2, <3>4, ToldElsewhere
    <2> QED
      BY <2>2, <2>3
  <1>11. ASSUME NEW r \in Requests
         PROVE  /\ Ping(r) => ToldInv'
                /\ Search(r) => ToldInv'
                /\ Enter(r) => ToldInv'
    <2>1. ASSUME Ping(r) PROVE ToldInv'
      <3>1. CASE request' = [request EXCEPT ![r].pc = IF verified THEN "done" ELSE "verify",
                                            ![r].since = now]
        <4>1. (IF verified THEN "done" ELSE "verify") # "failed"
          OBVIOUS
        <4> QED
          BY <3>1, <4>1, <1>7
      <3> QED
        BY <2>1, <3>1, <1>4 DEF Ping
    <2>2. ASSUME Search(r) PROVE ToldInv'
      <3>1. CASE SchemaCacheValid
        BY <2>2, <3>1, <1>5 DEF Search
      <3>2. CASE ~SchemaCacheValid
        <4>1. request' = [request EXCEPT ![r].pc = "wait"]
          BY <2>2, <3>2 DEF Search, ToldInv
        <4> QED
          BY <4>1, <1>6
      <3> QED
        BY <3>1, <3>2
    <2>3. ASSUME Enter(r) PROVE ToldInv'
      <3>1. CASE request' = [request EXCEPT ![r].pc = IF verified THEN "read" ELSE "verify",
                                            ![r].since = now]
        <4>1. (IF verified THEN "read" ELSE "verify") # "failed"
          OBVIOUS
        <4> QED
          BY <3>1, <4>1, <1>7
      <3> QED
        BY <2>3, <3>1, <1>5 DEF Enter
    <2> QED
      BY <2>1, <2>2, <2>3
  <1>12. ASSUME NEW r \in Requests
         PROVE  /\ Serve(r) => ToldInv'
                /\ Verified(r) => ToldInv'
                /\ Store(r) => ToldInv'
    <2>1. ASSUME Serve(r) PROVE ToldInv'
      <3>1. request[r].pc # "failed"
        BY <2>1 DEF Serve
      <3> QED
        BY <2>1, <3>1, <1>9 DEF Serve
    <2>2. ASSUME Verified(r) PROVE ToldInv'
      <3>1. (IF request[r].op = "health" THEN "done" ELSE "read") # "failed"
        OBVIOUS
      <3>2. CASE request' = [request EXCEPT
                    ![r].pc = IF request[r].op = "health" THEN "done" ELSE "read",
                    ![r].reply = Null, ![r].since = now]
        BY <3>1, <3>2, <1>8
      <3>3. CASE request' = [request EXCEPT ![r] = Ended(r, "verify", "writable")]
        BY <3>3, <1>4
      <3> QED
        BY <2>2, <3>2, <3>3 DEF Verified
    <2>3. ASSUME Store(r) PROVE ToldInv'
      BY <2>3, <1>5 DEF Store
    <2> QED
      BY <2>1, <2>2, <2>3
  <1>13. ASSUME NEW r \in Requests
         PROVE  /\ Validate(r) => ToldInv'
                /\ InvocationFails(r) => ToldInv'
    <2>1. ASSUME Validate(r) PROVE ToldInv'
      <3>1. CASE request[r].sql \subseteq request[r].reply
        <4>1. request' = [request EXCEPT ![r].pc = "run", ![r].since = now]
          BY <2>1, <3>1 DEF Validate, ToldInv
        <4> QED
          BY <4>1, <1>7
      <3>2. CASE ~(request[r].sql \subseteq request[r].reply)
        BY <2>1, <3>2, <1>4 DEF Validate
      <3> QED
        BY <3>1, <3>2
    <2>2. ASSUME InvocationFails(r) PROVE ToldInv'
      BY <2>2, <1>4 DEF InvocationFails
    <2> QED
      BY <2>1, <2>2
  <1> QED
    BY <1>1, <1>2, <1>3, <1>10, <1>11, <1>12, <1>13
       DEF ToolboxNext, toolboxVars, AlterRole, AlterSchema, Tick

LEMMA ToldInitially ==
    ASSUME ToolboxSettings, ToolboxInit
    PROVE  ToldInv
  <1>1. DOMAIN Idle = Fields /\ Idle.rows = <<>> /\ Idle.cut = FALSE /\ Idle.pc # "failed"
    BY DEF Idle, Fields
  <1>2. Told(Idle)
    BY <1>1, ToldOfIdle
  <1> QED
    BY <1>2 DEF ToolboxInit, ToldInv

LEMMA ToldSound ==
    ASSUME ToldInv
    PROVE  ToldTruly
  BY DEF ToldInv, Told, ToldTruly

(* Whatever the database's role and schema become meanwhile, the toolbox reads only
   through a role once proved unable to write, one request at a time, on a schema no
   older than the cache allows, and cuts and names what it returns truly
   (toolbox.py:162-322, result_bounds.py, errors.py:98-345), for any requests,
   schemas, statements and results. *)
THEOREM ReadsAlwaysProved ==
    ASSUME ToolboxSettings, ResultsAreSequences
    PROVE  ToolboxSpec => [](ReadsAreProved /\ OneReader /\ ToldTruly)
  <1>1. ToolboxInit => ToolboxInv /\ ToldInv
    BY ToolboxInitially, ToldInitially
  <1>2. (ToolboxInv /\ ToldInv) /\ [ToolboxNext]_toolboxVars => (ToolboxInv /\ ToldInv)'
    BY ToolboxStep, ToldStep
  <1>3. ToolboxInv /\ ToldInv => ReadsAreProved /\ OneReader /\ ToldTruly
    BY ToolboxSound, ToldSound
  <1> QED
    BY <1>1, <1>2, <1>3, PTL DEF ToolboxSpec

-----------------------------------------------------------------------------
(* What a model's failure is called *)

Categories ==
    {"authentication_failed", "quota_exceeded", "permission_denied", "payment_required",
     "rate_limited", "tool_use_failed", "structured_output_failed", "model_unavailable",
     "timeout", "connection_failed", "provider_unavailable", "unknown"}

(* The first of the rules that fire. *)
LEMMA FirstThatFires ==
    ASSUME NEW n \in Nat, NEW fires \in SUBSET (1..n), fires # {}
    PROVE  LET k == CHOOSE i \in fires : \A j \in fires : i <= j
           IN  k \in fires /\ \A j \in fires : k <= j
  <1>1. \E i \in fires : \A j \in fires : i <= j
    <2>1. fires \subseteq Nat
      OBVIOUS
    <2> QED
      BY <2>1, LeastOf
  <1> QED
    BY <1>1

(* A failure that is categorized as a rate limit shows no sign of a credential, quota,
   permission or billing failure: those rules come first (litellm_gateway.py). *)
LEMMA CategoryTells ==
    ASSUME NEW f
    PROVE  /\ Category(f) \in Categories
           /\ Category(f) = "rate_limited" =>
                 f.code \cap {"auth", "quota", "permission", "payment"} = {}
           /\ "connection" \in f.name =>
                 Category(f) \notin {"unknown", "provider_unavailable"}
  <1> DEFINE signal == f.code \cup f.name
             rules == << << "authentication_failed", f.status = 401 \/ "auth" \in signal >>,
                          << "quota_exceeded", "quota" \in signal >>,
                          << "permission_denied", f.status = 403 \/ "permission" \in signal >>,
                          << "payment_required", f.status = 402 \/ "payment" \in signal >>,
                          << "rate_limited", f.status = 429 \/ "ratelimit" \in signal >>,
                          << "tool_use_failed", "tooluse" \in signal >>,
                          << "structured_output_failed", "structured" \in signal >>,
                          << "model_unavailable", f.status = 404 \/ "notfound" \in signal >>,
                          << "timeout", f.status \in {408, 504} \/ "timeout" \in signal >>,
                          << "connection_failed", "connection" \in signal >>,
                          << "provider_unavailable", f.status >= 500 >> >>
             fires == {i \in 1..11 : rules[i][2]}
             k == CHOOSE i \in fires : \A j \in fires : i <= j
  <1>1. Category(f) = IF fires = {} THEN "unknown" ELSE rules[k][1]
    BY Zenon DEF Category
  <1>2. /\ rules[1][2] <=> f.status = 401 \/ "auth" \in signal
        /\ rules[2][2] <=> "quota" \in signal
        /\ rules[3][2] <=> f.status = 403 \/ "permission" \in signal
        /\ rules[4][2] <=> f.status = 402 \/ "payment" \in signal
        /\ rules[10][2] <=> "connection" \in signal
    OBVIOUS
  <1>3. \A i \in 1..11 : rules[i][1] \in Categories /\ (rules[i][1] = "rate_limited" => i = 5)
                      /\ (rules[i][1] \in {"unknown", "provider_unavailable"} => i = 11)
    <2>1. rules[1][1] = "authentication_failed"
      OBVIOUS
    <2>2. rules[2][1] = "quota_exceeded"
      OBVIOUS
    <2>3. rules[3][1] = "permission_denied"
      OBVIOUS
    <2>4. rules[4][1] = "payment_required"
      OBVIOUS
    <2>5. rules[5][1] = "rate_limited"
      OBVIOUS
    <2>6. rules[6][1] = "tool_use_failed"
      OBVIOUS
    <2>7. rules[7][1] = "structured_output_failed"
      OBVIOUS
    <2>8. rules[8][1] = "model_unavailable"
      OBVIOUS
    <2>9. rules[9][1] = "timeout"
      OBVIOUS
    <2>10. rules[10][1] = "connection_failed"
      OBVIOUS
    <2>11. rules[11][1] = "provider_unavailable"
      OBVIOUS
    <2> HIDE DEF rules
    <2>12. ASSUME NEW i \in 1..11
           PROVE  i = 1 \/ i = 2 \/ i = 3 \/ i = 4 \/ i = 5 \/ i = 6 \/ i = 7 \/ i = 8 \/ i = 9
                    \/ i = 10 \/ i = 11
      OBVIOUS
    <2> QED
      BY <2>1, <2>2, <2>3, <2>4, <2>5, <2>6, <2>7, <2>8, <2>9, <2>10, <2>11, <2>12 DEF Categories
  <1> HIDE DEF rules
  <1>4. CASE fires = {}
    <2>1. ~rules[10][2]
      BY <1>4
    <2> QED
      BY <1>1, <1>2, <1>4, <2>1 DEF Categories
  <1>5. CASE fires # {}
    <2>1. k \in fires /\ \A j \in fires : k <= j
      BY <1>5, FirstThatFires
    <2> HIDE DEF k
    <2>2. Category(f) = rules[k][1] /\ k \in 1..11
      BY <1>1, <1>5, <2>1
    <2>3. ASSUME Category(f) = "rate_limited"
          PROVE  f.code \cap {"auth", "quota", "permission", "payment"} = {}
      <3>1. k = 5
        BY <1>3, <2>2, <2>3
      <3>2. \A j \in 1..4 : ~rules[j][2]
        BY <2>1, <3>1
      <3>3. /\ "auth" \notin signal /\ "quota" \notin signal
            /\ "permission" \notin signal /\ "payment" \notin signal
        BY <1>2, <3>2
      <3> QED
        BY <3>3
    <2>4. ASSUME "connection" \in f.name
          PROVE  Category(f) \notin {"unknown", "provider_unavailable"}
      <3>1. 10 \in fires
        BY <1>2, <2>4
      <3>2. k <= 10
        BY <2>1, <3>1
      <3> QED
        BY <1>3, <2>2, <3>2
    <2> QED
      BY <1>3, <2>2, <2>3, <2>4
  <1> QED
    BY <1>4, <1>5

(* Only a rate limit is told to a client with the status 429 (errors.py:274-304). *)
LEMMA OnlyRateLimits ==
    ASSUME NEW class, Normalized(class).status = 429
    PROVE  class = "LLMRateLimitError"
  BY DEF Normalized

(* The exception raised is what IsNamed says of it. *)
LEMMA RaisedIsNamed ==
    ASSUME NEW f
    PROVE  /\ IsNamed(f, Raised(f))
           /\ Raised(f) # "UnknownModelAliasError"
  <1> DEFINE category == Category(f)
             rules == << << "LLMRateLimitError", category = "rate_limited" \/ "ratelimit" \in f.name >>,
                          << "LLMAuthenticationError", category = "authentication_failed" >>,
                          << "LLMPermissionDeniedError", category = "permission_denied" >>,
                          << "LLMQuotaExceededError", category = "quota_exceeded" >>,
                          << "LLMPaymentRequiredError", category = "payment_required" >>,
                          << "LLMToolUseError", category = "tool_use_failed" >>,
                          << "InvalidStructuredModelOutputError", category = "structured_output_failed" >>,
                          << "LLMTimeoutError", category = "timeout" \/ "timeout" \in f.name >>,
                          << "LLMModelUnavailableError", category = "model_unavailable" \/ "model missing" \in f.text >>,
                          << "LLMOutOfMemoryError", "memory" \in f.text >>,
                          << "LLMConnectionError", category = "connection_failed" \/ "connection" \in f.name \/ "refused" \in f.text >>,
                          << "LLMProviderUnavailableError", category = "provider_unavailable" >> >>
             fires == {i \in 1..12 : rules[i][2]}
             k == CHOOSE i \in fires : \A j \in fires : i <= j
             class == Raised(f)
             text == f.text
  <1>1. class = IF fires = {} THEN "LLMGatewayError" ELSE rules[k][1]
    BY Zenon DEF Raised, RaisedOn
  <1>2. rules[1][1] = "LLMRateLimitError" /\ (rules[1][2] <=> (category = "rate_limited" \/ "ratelimit" \in f.name))
    OBVIOUS
  <1>3. rules[2][1] = "LLMAuthenticationError" /\ (rules[2][2] <=> (category = "authentication_failed"))
    OBVIOUS
  <1>4. rules[3][1] = "LLMPermissionDeniedError" /\ (rules[3][2] <=> (category = "permission_denied"))
    OBVIOUS
  <1>5. rules[4][1] = "LLMQuotaExceededError" /\ (rules[4][2] <=> (category = "quota_exceeded"))
    OBVIOUS
  <1>6. rules[5][1] = "LLMPaymentRequiredError" /\ (rules[5][2] <=> (category = "payment_required"))
    OBVIOUS
  <1>7. rules[6][1] = "LLMToolUseError" /\ (rules[6][2] <=> (category = "tool_use_failed"))
    OBVIOUS
  <1>8. rules[7][1] = "InvalidStructuredModelOutputError" /\ (rules[7][2] <=> (category = "structured_output_failed"))
    OBVIOUS
  <1>9. rules[8][1] = "LLMTimeoutError" /\ (rules[8][2] <=> (category = "timeout" \/ "timeout" \in f.name))
    OBVIOUS
  <1>10. rules[9][1] = "LLMModelUnavailableError" /\ (rules[9][2] <=> (category = "model_unavailable" \/ "model missing" \in f.text))
    OBVIOUS
  <1>11. rules[10][1] = "LLMOutOfMemoryError" /\ (rules[10][2] <=> ("memory" \in f.text))
    OBVIOUS
  <1>12. rules[11][1] = "LLMConnectionError" /\ (rules[11][2] <=> (category = "connection_failed" \/ "connection" \in f.name \/ "refused" \in f.text))
    OBVIOUS
  <1>13. rules[12][1] = "LLMProviderUnavailableError" /\ (rules[12][2] <=> (category = "provider_unavailable"))
    OBVIOUS
  <1> HIDE DEF rules
  <1>14. category \in Categories
    BY CategoryTells
  <1> HIDE DEF category
  <1>15. CASE fires = {}
    <2>1. \A i \in 1..12 : ~rules[i][2]
      BY <1>15
    <2>2. class = "LLMGatewayError"
      BY <1>1, <1>15
    <2>3. category = "unknown"
      <3>1. /\ ~rules[1][2] /\ ~rules[2][2] /\ ~rules[3][2] /\ ~rules[4][2]
            /\ ~rules[5][2] /\ ~rules[6][2] /\ ~rules[7][2] /\ ~rules[8][2]
            /\ ~rules[9][2] /\ ~rules[11][2] /\ ~rules[12][2]
        BY <2>1
      <3> QED
        BY <1>14, <3>1, <1>2, <1>3, <1>4, <1>5, <1>6, <1>7, <1>8, <1>9, <1>10, <1>11, <1>12, <1>13 DEF Categories
    <2> QED
      BY <2>2, <2>3, OnlyRateLimits DEF IsNamed, category

  <1>16. CASE fires # {}
    <2>1. k \in fires /\ \A j \in fires : k <= j
      BY <1>16, FirstThatFires
    <2>2. class = rules[k][1]
      BY <1>1, <1>16
    <2> HIDE DEF k, class
    <2>3. k \in 1..12 /\ rules[k][2] /\ \A j \in 1..12 : rules[j][2] => k <= j
      BY <2>1
    <2>4. CASE k = 1
      <3>1. class = "LLMRateLimitError" /\ (category = "rate_limited" \/ "ratelimit" \in f.name)
        BY <1>2, <2>2, <2>3, <2>4
      <3> QED
        BY <3>1, CategoryTells, OnlyRateLimits DEF IsNamed, category, class
    <2>5. CASE k = 2
      <3>1. class = "LLMAuthenticationError" /\ (category = "authentication_failed")
        BY <1>3, <2>2, <2>3, <2>5
      <3> QED
        BY <3>1, CategoryTells, OnlyRateLimits DEF IsNamed, category, class
    <2>6. CASE k = 3
      <3>1. class = "LLMPermissionDeniedError" /\ (category = "permission_denied")
        BY <1>4, <2>2, <2>3, <2>6
      <3> QED
        BY <3>1, CategoryTells, OnlyRateLimits DEF IsNamed, category, class
    <2>7. CASE k = 4
      <3>1. class = "LLMQuotaExceededError" /\ (category = "quota_exceeded")
        BY <1>5, <2>2, <2>3, <2>7
      <3> QED
        BY <3>1, CategoryTells, OnlyRateLimits DEF IsNamed, category, class
    <2>8. CASE k = 5
      <3>1. class = "LLMPaymentRequiredError" /\ (category = "payment_required")
        BY <1>6, <2>2, <2>3, <2>8
      <3> QED
        BY <3>1, CategoryTells, OnlyRateLimits DEF IsNamed, category, class
    <2>9. CASE k = 6
      <3>1. class = "LLMToolUseError" /\ (category = "tool_use_failed")
        BY <1>7, <2>2, <2>3, <2>9
      <3> QED
        BY <3>1, CategoryTells, OnlyRateLimits DEF IsNamed, category, class
    <2>10. CASE k = 7
      <3>1. class = "InvalidStructuredModelOutputError" /\ (category = "structured_output_failed")
        BY <1>8, <2>2, <2>3, <2>10
      <3> QED
        BY <3>1, CategoryTells, OnlyRateLimits DEF IsNamed, category, class
    <2>11. CASE k = 8
      <3>1. class = "LLMTimeoutError" /\ (category = "timeout" \/ "timeout" \in f.name)
        BY <1>9, <2>2, <2>3, <2>11
      <3> QED
        BY <3>1, CategoryTells, OnlyRateLimits DEF IsNamed, category, class
    <2>12. CASE k = 9
      <3>1. class = "LLMModelUnavailableError"
        BY <1>10, <2>2, <2>12
      <3>2. category = "model_unavailable" \/ "model missing" \in text
        BY <1>10, <2>3, <2>12
      <3>3. CASE category = "model_unavailable"
        BY <3>1, <3>3, OnlyRateLimits DEF IsNamed, category, class
      <3>4. CASE "model missing" \in text
        <4>1. "LLMModelUnavailableError"
                 \in {"LLMModelUnavailableError" : x \in f.text \cap {"model missing"}}
          BY <3>4
        <4>2. Normalized(class).status # 429
          BY <3>1, OnlyRateLimits
        <4> QED
          BY <3>1, <4>1, <4>2, Zenon DEF IsNamed, class
      <3> QED
        BY <3>2, <3>3, <3>4
    <2>13. CASE k = 10
      <3>1. class = "LLMOutOfMemoryError" /\ ("memory" \in f.text)
        BY <1>11, <2>2, <2>3, <2>13
      <3> QED
        BY <3>1, CategoryTells, OnlyRateLimits DEF IsNamed, category, class
    <2>14. CASE k = 11
      <3>1. class = "LLMConnectionError"
        BY <1>12, <2>2, <2>14
      <3>2. /\ ~rules[1][2] /\ ~rules[2][2] /\ ~rules[3][2] /\ ~rules[4][2]
            /\ ~rules[5][2] /\ ~rules[6][2] /\ ~rules[7][2] /\ ~rules[8][2]
            /\ ~rules[9][2] /\ rules[11][2]
        BY <2>3, <2>14
      <3>3. category = "connection_failed" \/ "connection" \in f.name \/ "refused" \in text
        BY <1>12, <3>2
      <3>4. category \in {"connection_failed", "provider_unavailable", "unknown"}
        BY <1>14, <3>2, <1>2, <1>3, <1>4, <1>5, <1>6, <1>7, <1>8, <1>9, <1>10 DEF Categories
      <3>5. category = "connection_failed" \/ "refused" \in text
        BY <3>3, <3>4, CategoryTells DEF category
      <3>6. CASE category = "connection_failed"
        BY <3>1, <3>6, OnlyRateLimits DEF IsNamed, category, class
      <3>7. CASE "refused" \in text
        <4>1. "LLMConnectionError" \in {"LLMConnectionError" : x \in f.text \cap {"refused"}}
          BY <3>7
        <4> QED
          BY <3>1, <4>1, OnlyRateLimits DEF IsNamed, class
      <3> QED
        BY <3>5, <3>6, <3>7
    <2>15. CASE k = 12
      <3>1. class = "LLMProviderUnavailableError" /\ (category = "provider_unavailable")
        BY <1>13, <2>2, <2>3, <2>15
      <3> QED
        BY <3>1, CategoryTells, OnlyRateLimits DEF IsNamed, category, class
    <2> QED
      BY <2>3, <2>4, <2>5, <2>6, <2>7, <2>8, <2>9, <2>10, <2>11, <2>12, <2>13, <2>14, <2>15
  <1> QED
    BY <1>15, <1>16
-----------------------------------------------------------------------------
(* The calls of the gateway *)

(* What a call became. *)
Became(c) ==
    /\ phase[c] \in {"idle", "waiting", "ended"}
    /\ phase[c] # "ended" => outcome[c] = Ends("None", "nothing", {})
    /\ outcome[c].after = "failure" => IsNamed(outcome[c].of, Class(c))

Sent == {c \in Calls : phase[c] # "idle" /\ Class(c) # "UnknownModelAliasError"}
Came == {c \in Sent : outcome[c].after = "reply"}

GatewayInv ==
    /\ DOMAIN phase = Calls /\ DOMAIN outcome = Calls
    /\ \A c \in Calls : Became(c)
    /\ counted = Cardinality(Sent)
    /\ recorded = Cardinality(Came)
    /\ priced \in Nat /\ priced <= recorded

LEMMA GatewayInitially ==
    GatewayInit => GatewayInv
  <1> SUFFICES ASSUME GatewayInit PROVE GatewayInv
    OBVIOUS
  <1>1. Sent = {} /\ Came = {}
    BY DEF GatewayInit, Sent, Came
  <1>2. \A c \in Calls : Became(c)
    BY DEF GatewayInit, Became, Ends
  <1> QED
    BY <1>1, <1>2, FS_EmptySet DEF GatewayInit, GatewayInv

(* A step of one call changes what that call became and no other's. *)
LEMMA BecameStep ==
    ASSUME GatewayInv, NEW c \in Calls, NEW p \in {"waiting", "ended"}, NEW e,
           phase' = [phase EXCEPT ![c] = p],
           outcome' = [outcome EXCEPT ![c] = e] \/ (outcome' = outcome /\ outcome[c] = e),
           p # "ended" => e = Ends("None", "nothing", {}),
           e.after = "failure" => IsNamed(e.of, e.class)
    PROVE  /\ DOMAIN phase' = Calls /\ DOMAIN outcome' = Calls
           /\ \A d \in Calls : Became(d)'
           /\ phase'[c] = p /\ outcome'[c] = e
           /\ \A d \in Calls \ {c} : phase'[d] = phase[d] /\ outcome'[d] = outcome[d]
  <1>1. /\ DOMAIN phase' = Calls /\ DOMAIN outcome' = Calls
        /\ phase'[c] = p /\ outcome'[c] = e
        /\ \A d \in Calls \ {c} : phase'[d] = phase[d] /\ outcome'[d] = outcome[d]
    BY DEF GatewayInv
  <1>2. ASSUME NEW d \in Calls
        PROVE  Became(d)'
    <2>1. CASE d = c
      BY <1>1, <2>1 DEF Became, Class
    <2>2. CASE d # c
      <3>1. phase'[d] = phase[d] /\ outcome'[d] = outcome[d] /\ Became(d)
        BY <1>1, <2>2 DEF GatewayInv
      <3> QED
        BY <3>1 DEF Became, Class
    <2> QED
      BY <2>1, <2>2
  <1> QED
    BY <1>1, <1>2

LEMMA GatewayStep ==
    ASSUME IsFiniteSet(Calls), GatewayInv, [GatewayNext]_gvars
    PROVE  GatewayInv'
  <1>0. /\ IsFiniteSet(Sent) /\ IsFiniteSet(Came)
        /\ counted \in Nat /\ recorded \in Nat
    <2>1. Sent \subseteq Calls /\ Came \subseteq Calls
      BY DEF Sent, Came
    <2> QED
      BY <2>1, FS_Subset, FS_CardinalityType DEF GatewayInv
  <1>1. CASE UNCHANGED gvars
    BY <1>1 DEF gvars, GatewayInv, Became, Class, Sent, Came
  <1>2. ASSUME NEW c \in Calls, UnknownAlias(c)
        PROVE  GatewayInv'
    <2> DEFINE e == Ends("UnknownModelAliasError", "nothing", {})
    <2>1. e.after = "nothing" /\ e.class = "UnknownModelAliasError"
      BY DEF Ends
    <2>2. phase[c] = "idle" /\ phase' = [phase EXCEPT ![c] = "ended"]
          /\ outcome' = [outcome EXCEPT ![c] = e] /\ UNCHANGED <<counted, recorded, priced>>
      BY <1>2 DEF UnknownAlias
    <2> HIDE DEF e
    <2>3. /\ DOMAIN phase' = Calls /\ DOMAIN outcome' = Calls
          /\ \A d \in Calls : Became(d)'
          /\ phase'[c] = "ended" /\ outcome'[c] = e
          /\ \A d \in Calls \ {c} : phase'[d] = phase[d] /\ outcome'[d] = outcome[d]
      BY <2>1, <2>2, BecameStep
    <2>4. Sent' = Sent /\ Came' = Came
      BY <2>1, <2>2, <2>3 DEF Sent, Came, Class
    <2> QED
      BY <2>2, <2>3, <2>4 DEF GatewayInv
  <1>3. ASSUME NEW c \in Calls, Request(c)
        PROVE  GatewayInv'
    <2> DEFINE e == Ends("None", "nothing", {})
    <2>1. e.after = "nothing" /\ e.class = "None"
      BY DEF Ends
    <2>2. /\ phase[c] = "idle" /\ phase' = [phase EXCEPT ![c] = "waiting"]
          /\ counted' = counted + 1 /\ UNCHANGED <<outcome, recorded, priced>>
      BY <1>3 DEF Request
    <2>3. outcome[c] = e
      BY <2>2 DEF GatewayInv, Became
    <2> HIDE DEF e
    <2>5. /\ DOMAIN phase' = Calls /\ DOMAIN outcome' = Calls
          /\ \A d \in Calls : Became(d)'
          /\ phase'[c] = "waiting" /\ outcome'[c] = e
          /\ \A d \in Calls \ {c} : phase'[d] = phase[d] /\ outcome'[d] = outcome[d]
      BY <2>1, <2>2, <2>3, BecameStep DEF e
    <2>6. Sent' = Sent \cup {c} /\ c \notin Sent /\ Came' = Came
      BY <2>1, <2>2, <2>5 DEF Sent, Came, Class
    <2>7. Cardinality(Sent') = counted + 1
      BY <1>0, <2>6, FS_AddElement DEF GatewayInv
    <2> QED
      BY <2>2, <2>5, <2>6, <2>7 DEF GatewayInv
  <1>4. ASSUME NEW c \in Calls, NEW r, Answered(c, r)
        PROVE  GatewayInv'
    <2> DEFINE e == Ends(Read(r), "reply", {})
    <2>1. e.after = "reply" /\ e.class = Read(r)
      BY DEF Ends
    <2>2. /\ phase[c] = "waiting" /\ phase' = [phase EXCEPT ![c] = "ended"]
          /\ outcome' = [outcome EXCEPT ![c] = e]
          /\ recorded' = recorded + 1 /\ counted' = counted
          /\ priced' = priced \/ priced' = priced + 1
      BY <1>4 DEF Answered
    <2>3. Read(r) # "UnknownModelAliasError"
      BY DEF Read
    <2>4. Class(c) = "None" /\ outcome[c].after = "nothing"
      BY <2>2 DEF GatewayInv, Became, Class, Ends
    <2> HIDE DEF e
    <2>5. /\ DOMAIN phase' = Calls /\ DOMAIN outcome' = Calls
          /\ \A d \in Calls : Became(d)'
          /\ phase'[c] = "ended" /\ outcome'[c] = e
          /\ \A d \in Calls \ {c} : phase'[d] = phase[d] /\ outcome'[d] = outcome[d]
      BY <2>1, <2>2, BecameStep
    <2>6. Sent' = Sent
      BY <2>1, <2>2, <2>3, <2>4, <2>5 DEF Sent, Class
    <2>7. Came' = Came \cup {c} /\ c \notin Came
      BY <2>1, <2>2, <2>3, <2>4, <2>5, <2>6 DEF Came, Sent, Class
    <2>8. Cardinality(Came') = recorded + 1
      BY <1>0, <2>7, FS_AddElement DEF GatewayInv
    <2>9. priced' \in Nat /\ priced' <= recorded'
      BY <1>0, <2>2 DEF GatewayInv
    <2> QED
      BY <2>2, <2>5, <2>6, <2>8, <2>9 DEF GatewayInv
  <1>5. ASSUME NEW c \in Calls, NEW f, Failed(c, f)
        PROVE  GatewayInv'
    <2> DEFINE e == Ends(Raised(f), "failure", f)
    <2>1. e.after = "failure" /\ e.class = Raised(f) /\ e.of = f
      BY DEF Ends
    <2>2. /\ phase[c] = "waiting" /\ phase' = [phase EXCEPT ![c] = "ended"]
          /\ outcome' = [outcome EXCEPT ![c] = e] /\ UNCHANGED <<counted, recorded, priced>>
      BY <1>5 DEF Failed
    <2>3. Class(c) = "None" /\ outcome[c].after = "nothing"
      BY <2>2 DEF GatewayInv, Became, Class, Ends
    <2> HIDE DEF e
    <2>4. /\ DOMAIN phase' = Calls /\ DOMAIN outcome' = Calls
          /\ \A d \in Calls : Became(d)'
          /\ phase'[c] = "ended" /\ outcome'[c] = e
          /\ \A d \in Calls \ {c} : phase'[d] = phase[d] /\ outcome'[d] = outcome[d]
      BY <2>1, <2>2, RaisedIsNamed, BecameStep
    <2>5. Sent' = Sent /\ Came' = Came
      BY <2>1, <2>2, <2>3, <2>4, RaisedIsNamed DEF Sent, Came, Class
    <2> QED
      BY <2>2, <2>4, <2>5 DEF GatewayInv
  <1> QED
    BY <1>1, <1>2, <1>3, <1>4, <1>5 DEF GatewayNext

LEMMA GatewaySound ==
    ASSUME GatewayInv
    PROVE  EveryReplyIsAccounted /\ FailureIsNamed
  BY DEF GatewayInv, EveryReplyIsAccounted, FailureIsNamed, Sent, Came, Became

(* Every reply of a model is counted and recorded however the calls interleave and
   fail, and each failure is raised as what it is (litellm_gateway.py:92-267), for
   any number of calls, replies and failures. *)
THEOREM RepliesAlwaysAccounted ==
    ASSUME IsFiniteSet(Calls)
    PROVE  GatewaySpec => [](EveryReplyIsAccounted /\ FailureIsNamed)
  <1>1. GatewayInit => GatewayInv
    BY GatewayInitially
  <1>2. GatewayInv /\ [GatewayNext]_gvars => GatewayInv'
    BY GatewayStep
  <1>3. GatewayInv => EveryReplyIsAccounted /\ FailureIsNamed
    BY GatewaySound
  <1> QED
    BY <1>1, <1>2, <1>3, PTL DEF GatewaySpec

-----------------------------------------------------------------------------
(* Answers *)

(* A cell's number is a number or none, and the numerals in its text are numbers
   (a result as _supported_numbers reads it). *)
NumberCell(c) == c.number \in Int \cup {NoNumber} /\ c.within \subseteq Int

(* A result is a sequence of rows of such cells. *)
NumberRows(rows) ==
    /\ rows \in Seq({rows[i] : i \in DOMAIN rows})
    /\ \A i \in DOMAIN rows : \A f \in DOMAIN rows[i] : NumberCell(rows[i][f])

(* Rounding half up moves a number by at most half of the last decimal that is
   kept (quantize in _is_rounded_form_of_supported). *)
LEMMA HalfUpIsNear ==
    ASSUME NEW v \in Int, NEW places \in 1..3
    PROVE  2 * Abs(HalfUp(v, Quantum(places)) - v) <= Quantum(places)
  <1>1. Quantum(places) \in {100, 10, 1}
    BY DEF Quantum
  <1>2. ASSUME NEW q \in {100, 10, 1}
        PROVE  2 * Abs(HalfUp(v, q) - v) <= q
    <2>1. Abs(v) \in Nat /\ (v < 0 => Abs(v) = -v) /\ (v >= 0 => Abs(v) = v)
      BY DEF Abs
    <2> DEFINE near == ((Abs(v) + (q \div 2)) \div q) * q
    <2>2. /\ near \in Int
          /\ 2 * near <= 2 * Abs(v) + q /\ 2 * near >= 2 * Abs(v) - q
      <3>1. CASE q = 100
        BY <2>1, <3>1
      <3>2. CASE q = 10
        BY <2>1, <3>2
      <3>3. CASE q = 1
        BY <2>1, <3>3
      <3> QED
        BY <3>1, <3>2, <3>3
    <2>3. HalfUp(v, q) = IF v < 0 THEN -near ELSE near
      BY <2>2 DEF HalfUp
    <2> HIDE DEF near
    <2>4. 2 * (HalfUp(v, q) - v) <= q /\ 2 * (v - HalfUp(v, q)) <= q /\ HalfUp(v, q) \in Int
      BY <2>1, <2>2, <2>3
    <2> QED
      BY <2>4 DEF Abs
  <1> QED
    BY <1>1, <1>2

(* The numbers an answer may repeat are numbers. *)
LEMMA SupportedAreNumbers ==
    ASSUME NEW rows, NumberRows(rows)
    PROVE  Supported(rows) \subseteq Int
  <1>1. \A c \in Cells(rows) : NumberCell(c)
    BY DEF Cells, NumberRows
  <1> QED
    BY <1>1 DEF Supported, NumberCell

(* For any result, any numerals and any claims, no figure of an accepted answer is
   invented (GroundingValidator.validate): the property NothingInvented of
   Grounding. A numeral is in thousandths, with its decimals. *)
THEOREM NoFigureIsInvented ==
    ASSUME NEW rows, NumberRows(rows), NEW claims, NEW numerals,
           \A n \in numerals : n.value \in Int /\ n.places \in Nat
    PROVE  NothingInvented(numerals, claims, rows)
  <1> SUFFICES ASSUME ValidateAnswer(numerals, claims, rows), NEW n \in numerals
               PROVE  \/ \E v \in Supported(rows) :
                            \/ n.value = v
                            \/ /\ n.places \in 1..3 /\ Decimals(v) > n.places
                               /\ 2 * Abs(n.value - v) <= Quantum(n.places)
                      \/ n.wording = "count" /\ n.value = Unit * Len(rows)
                      \/ n.wording = "rank" /\ n.value >= Unit /\ n.value <= Unit * Len(rows)
    BY DEF NothingInvented
  <1>1. \/ n.value \in Supported(rows)
        \/ RoundedForm(n, Supported(rows))
        \/ Structural(n, Len(rows))
    BY DEF ValidateAnswer
  <1>2. CASE RoundedForm(n, Supported(rows))
    <2>1. PICK v \in Supported(rows) : Decimals(v) > n.places /\ HalfUp(v, Quantum(n.places)) = n.value
      BY <1>2 DEF RoundedForm
    <2>2. v \in Int /\ n.places \in Nat /\ n.places > 0 /\ Decimals(v) \in 0..3
      BY <1>2, SupportedAreNumbers DEF RoundedForm, Decimals
    <2>3. n.places \in 1..3
      BY <2>1, <2>2
    <2>4. 2 * Abs(n.value - v) <= Quantum(n.places)
      BY <2>1, <2>2, <2>3, HalfUpIsNear
    <2> QED
      BY <2>1, <2>3, <2>4
  <1>3. CASE Structural(n, Len(rows))
    <2>1. Len(rows) \in Nat
      BY DEF NumberRows
    <2>2. CASE n.value = Len(rows) * Unit /\ n.wording = "count"
      BY <2>1, <2>2 DEF Unit
    <2>3. CASE n.value \in {i * Unit : i \in 1..Len(rows)} /\ n.wording = "rank"
      BY <2>1, <2>3 DEF Unit
    <2> QED
      BY <1>3, <2>2, <2>3 DEF Structural
  <1> QED
    BY <1>1, <1>2, <1>3

(* A parsed statement has finitely many references in order, and a column reads
   one of them, by its alias or unnamed (the syntax the walk of
   lineage_from_sql meets). *)
ReadsItsSources(statement) ==
    /\ statement.sources \in Seq({statement.sources[i] : i \in DOMAIN statement.sources})
    /\ \A c \in statement.columns : \E k \in DOMAIN statement.sources :
          /\ c.from = statement.sources[k].id
          /\ c.owner \in {"", statement.sources[k].alias}

(* Where no name stands for two relations, a column is attributed to the relation
   it reads or to none. *)
LEMMA AttributedIsRead ==
    ASSUME NEW statement, ReadsItsSources(statement), Plain(statement),
           NEW c \in statement.columns
    PROVE  /\ c.from \in Real(statement)
           /\ Attributed(statement, c) \subseteq {c.from}
  <1> DEFINE sources == statement.sources
  <1>1. PICK k \in DOMAIN sources : c.from = sources[k].id /\ c.owner \in {"", sources[k].alias}
    BY DEF ReadsItsSources
  <1>2. RealSources(statement) = DOMAIN sources
    BY DEF RealSources, Plain
  <1>3. c.from \in Real(statement)
    BY <1>1, <1>2 DEF Real
  <1>4. ASSUME c.owner # "", NEW id \in Owners(statement, c.owner)
        PROVE  id = c.from
    <2>1. PICK i \in DOMAIN sources :
            c.owner \in {sources[i].alias, sources[i].name} /\ id = sources[i].id
      BY <1>2, <1>4 DEF Owners
    <2>2. c.owner = sources[k].alias
      BY <1>1, <1>4
    <2> QED
      BY <1>1, <2>1, <2>2 DEF Plain
  <1>5. ASSUME Cardinality(Real(statement)) = 1, NEW x \in Real(statement)
        PROVE  x = c.from
    <2> DEFINE id == [i \in DOMAIN sources |-> sources[i].id]
               n == Len(sources)
    <2>1. n \in Nat /\ DOMAIN sources = 1..n
      <3>1. sources \in Seq({sources[i] : i \in DOMAIN sources})
        BY DEF ReadsItsSources
      <3> QED
        BY <3>1
    <2>2. id \in Surjection(DOMAIN sources, Real(statement))
      BY <1>2 DEF Real, Surjection
    <2> HIDE DEF id, n, sources
    <2>3. IsFiniteSet(1..n)
      BY <2>1, FS_Interval
    <2>4. IsFiniteSet(Real(statement))
      BY <2>1, <2>2, <2>3, FS_Surjection
    <2>5. \E y : Real(statement) = {y}
      BY <1>5, <2>4, FS_Singleton
    <2> QED
      BY <1>3, <1>5, <2>5
  <1> QED
    BY <1>3, <1>4, <1>5 DEF Attributed

(* For any statement of base tables in which no name stands for two, every table
   read is named, a column only under the table it is read from, and a claim of
   column level leaves none out (lineage_from_sql): LineageIsRead of Lineage. *)
THEOREM LineageIsTrue ==
    ASSUME NEW statement, ReadsItsSources(statement)
    PROVE  LineageIsRead(statement)
  <1> SUFFICES ASSUME Plain(statement) PROVE Exact(statement)
    BY DEF LineageIsRead
  <1> DEFINE lineage == LineageFromSql(statement)
  <1>1. /\ DOMAIN lineage.columns = Real(statement)
        /\ \A id \in Real(statement) :
              lineage.columns[id] = {c.name : c \in {d \in statement.columns :
                                                        id \in Attributed(statement, d)}}
        /\ lineage.column_level => \A c \in statement.columns : Attributed(statement, c) # {}
    BY DEF LineageFromSql
  <1>2. \A c \in statement.columns : c.from \in Real(statement)
                                      /\ Attributed(statement, c) \subseteq {c.from}
    BY AttributedIsRead
  <1> HIDE DEF lineage
  <1>3. {c.from : c \in statement.columns} \ statement.ctes \subseteq DOMAIN lineage.columns
    BY <1>1, <1>2
  <1>4. ASSUME NEW id \in DOMAIN lineage.columns, NEW name \in lineage.columns[id]
        PROVE  \E c \in statement.columns : c.from = id /\ c.name = name
    <2>1. PICK c \in statement.columns : id \in Attributed(statement, c) /\ c.name = name
      BY <1>1, <1>4
    <2> QED
      BY <1>2, <2>1
  <1>5. ASSUME lineage.column_level, NEW c \in statement.columns
        PROVE  c.name \in lineage.columns[c.from]
    <2>1. c.from \in Attributed(statement, c)
      BY <1>1, <1>2, <1>5
    <2> QED
      BY <1>1, <1>2, <2>1
  <1> QED
    BY <1>3, <1>4, <1>5 DEF Exact, lineage

-----------------------------------------------------------------------------
(* The evaluation harness *)

(* Rows that the comparison takes, each once, are a row of its own for every
   expected row (compare_case_results). *)
LEMMA ComparedPairs ==
    ASSUME NEW c, NEW rows, rows \in Seq({rows[i] : i \in DOMAIN rows}), Compare(c, rows)
    PROVE  Pairs(c, rows)
  <1>1. Len(rows) \in Nat /\ DOMAIN rows = 1..Len(rows)
    OBVIOUS
  <1> DEFINE left(taken, i) == DOMAIN rows \ {taken[k] : k \in 1..(i - 1)}
             fits(taken, i) == {j \in (IF c.ordered THEN {i} ELSE left(taken, i)) :
                                   rows[j] \in c.expected[i]}
  <1>2. PICK taken \in [DOMAIN rows -> DOMAIN rows] :
          \A i \in DOMAIN rows : taken[i] \in fits(taken, i)
    BY DEF Compare
  <1>3. ASSUME NEW i \in DOMAIN rows
        PROVE  rows[taken[i]] \in c.expected[i] /\ (c.ordered => taken[i] = i)
    BY <1>2
  <1>4. ASSUME NEW i \in DOMAIN rows, NEW j \in DOMAIN rows, i < j
        PROVE  taken[i] # taken[j]
    <2>1. CASE c.ordered
      BY <1>1, <1>3, <1>4, <2>1
    <2>2. CASE ~c.ordered
      <3>1. taken[j] \in left(taken, j)
        BY <1>2, <2>2
      <3>2. i \in 1..(j - 1)
        BY <1>1, <1>4
      <3> QED
        BY <3>1, <3>2
    <2> QED
      BY <2>1, <2>2
  <1>5. ASSUME NEW i \in DOMAIN rows, NEW j \in DOMAIN rows, i # j
        PROVE  taken[i] # taken[j]
    <2>1. i < j \/ j < i
      BY <1>1, <1>5
    <2> QED
      BY <1>4, <2>1
  <1> QED
    BY <1>3, <1>5, ZenonT(90) DEF Compare, Pairs

(* The metrics of a case that met no infrastructure error, by its behavior: those
   it is judged by (_case_metrics). *)
LEMMA MetricsOfACase ==
    ASSUME HarnessTyped, NEW c, turn.end # "infrastructure"
    PROVE  LET m == CaseMetrics(c)
           IN  /\ m.completed = B(Completed(turn.end)) /\ m.valid = B(llm.valid)
               /\ c.behavior = "block" =>
                     /\ m.unmutated = B(~db.attempted) /\ m.unsupported = FALSE
                     /\ m.outcome = B(/\ turn.end \in {"rejected", "clarified", "blocked"}
                                      /\ ~db.attempted)
               /\ c.behavior = "clarify" =>
                     /\ m.unsupported = FALSE /\ m.provenance = B(ProvenanceComplete(c))
                     /\ m.clarified = B(turn.end = "clarified" /\ ~db.attempted
                                          /\ GeneratedSql = NoSql)
                     /\ mode = "full" => m.answer = B(turn.accurate)
               /\ c.behavior = "allow" =>
                     /\ m.unsupported = (mode = "full" /\ ~turn.grounded)
                     /\ m.provenance = B(turn.end = "answered")
                     /\ m.relevant = IF GeneratedSql = NoSql THEN "na" ELSE B(GeneratedSql.relevant)
                     /\ backend # "fake" => m.result = B(Compare(c, turn.rows))
                     /\ mode = "full" => m.answer = B(turn.accurate)
  <1>1. CASE c.behavior = "block"
    BY <1>1 DEF CaseMetrics, NoMetrics
  <1>2. CASE c.behavior = "clarify"
    BY <1>2 DEF CaseMetrics, NoMetrics
  <1>3. CASE c.behavior \notin {"block", "clarify"}
    BY <1>3 DEF CaseMetrics, NoMetrics, ProvenanceComplete
  <1> QED
    BY <1>1, <1>2, <1>3

(* The verdict on a case that is scored is of the turn that was left
   (_run_case after the case's question). *)
LEMMA ScoreIsRight ==
    ASSUME HarnessSettings, HarnessInv, stage = "score"
    PROVE  Score(Case) \in Verdict /\ JudgedByTurn(Score(Case))
  <1> DEFINE c == Case
             m == CaseMetrics(c)
             r == Score(c)
  <1>1. /\ c \in Cases /\ c.behavior \in {"allow", "block", "clarify"}
        /\ turn \in TurnLeft /\ db.attempted \in BOOLEAN /\ llm.valid \in BOOLEAN
        /\ db.succeeded \in BOOLEAN /\ llm.sql \in Statement
    <2>1. dataset \in Seq({dataset[i] : i \in DOMAIN dataset})
          /\ \A i \in DOMAIN dataset : dataset[i].behavior \in {"allow", "block", "clarify"}
      BY DEF HarnessSettings, HarnessInv, HarnessTyped
    <2>2. case \in DOMAIN dataset
      BY <2>1 DEF HarnessInv, HarnessTyped
    <2> QED
      BY <2>1, <2>2 DEF HarnessInv, HarnessTyped, Cases, Case
  <1>2. /\ turn.end \in TurnEnds \cup {"none"} /\ turn.sql \in Statement
        /\ turn.accurate \in BOOLEAN /\ turn.grounded \in BOOLEAN
        /\ turn.rows \in Seq({turn.rows[i] : i \in DOMAIN turn.rows})
    <2>1. turn.rows \in Rows \cup {<<>>}
      BY <1>1 DEF TurnLeft
    <2>2. turn.rows \in Seq({turn.rows[i] : i \in DOMAIN turn.rows})
      <3>1. CASE turn.rows \in Rows
        BY <3>1 DEF HarnessSettings
      <3>2. CASE turn.rows = <<>>
        BY <3>2
      <3> QED
        BY <2>1, <3>1, <3>2
    <2> QED
      BY <1>1, <2>2 DEF TurnLeft
  <1>3. /\ r.category = c.category /\ r.behavior = c.behavior
        /\ r.passed = (turn.end # "infrastructure" /\ CasePassed(c, m))
        /\ r.failed = FailedMetrics(c, m)
        /\ r.turn = turn /\ r.attempted = db.attempted /\ r.expects = c
        /\ r.failure = CASE r.passed -> "none"
                         [] ~r.passed /\ turn.end = "infrastructure" -> "infrastructure"
                         [] ~r.passed /\ turn.end # "infrastructure"
                              /\ (~llm.valid \/ GeneratedSql = NoSql) -> "model"
                         [] OTHER -> "expectation"
        /\ DOMAIN r = {"category", "behavior", "passed", "failed", "failure", "turn",
                       "attempted", "expects"}
    BY DEF Score
  <1>4. r.passed \in BOOLEAN
    BY <1>3
  <1>5. r.failure \in {"none", "infrastructure", "model", "expectation"}
        /\ ((r.failure = "infrastructure") <=> (turn.end = "infrastructure"))
    <2>1. CASE r.passed
      BY <1>3, <2>1
    <2>2. CASE ~r.passed
      BY <1>3, <2>2
    <2> QED
      BY <1>4, <2>1, <2>2
  <1>6. r.failed \subseteq DOMAIN NoMetrics
    <2>1. Judged(c) \subseteq DOMAIN NoMetrics
      <3>1. CASE c.behavior = "block"
        BY <3>1 DEF Judged, NoMetrics
      <3>2. CASE c.behavior = "clarify"
        BY <3>2 DEF Judged, NoMetrics
      <3>3. CASE c.behavior = "allow"
        BY <3>3 DEF Judged, NoMetrics
      <3> QED
        BY <1>1, <3>1, <3>2, <3>3
    <2>2. "unsupported" \in DOMAIN NoMetrics
      BY DEF NoMetrics
    <2> QED
      BY <1>3, <2>1, <2>2 DEF FailedMetrics
  <1> HIDE DEF r
  <1>7. r \in Verdict
    <2>1. r = [category |-> c.category, behavior |-> c.behavior, passed |-> r.passed,
               failed |-> r.failed, failure |-> r.failure, turn |-> turn,
               attempted |-> db.attempted, expects |-> c]
      BY DEF r, Score
    <2> QED
      BY <1>1, <1>4, <1>5, <1>6, <2>1 DEF Verdict
  <1>8. ASSUME turn.end # "infrastructure"
        PROVE  r.passed <=> r.failed = {}
    <2>1. r.passed <=> CasePassed(c, m)
      BY <1>3, <1>8
    <2>3. CASE c.behavior = "allow"
      BY <1>3, <2>1, <2>3 DEF CasePassed, FailedMetrics
    <2>2. CASE c.behavior # "allow"
      <3>1. \A name \in Judged(c) : m[name] \in {"yes", "no"}
        <4>1. CASE c.behavior = "block"
          <5>1. Judged(c) = {"valid", "unmutated", "outcome"}
            BY <4>1 DEF Judged
          <5>2. /\ m.valid = B(llm.valid) /\ m.unmutated = B(~db.attempted)
                /\ m.outcome = B(/\ turn.end \in {"rejected", "clarified", "blocked"}
                                 /\ ~db.attempted)
            BY <1>8, <4>1, MetricsOfACase DEF HarnessInv
          <5>3. /\ m.valid \in {"yes", "no"} /\ m.unmutated \in {"yes", "no"}
                /\ m.outcome \in {"yes", "no"}
            BY <5>2 DEF B
          <5> QED
            BY <5>1, <5>3
        <4>2. CASE c.behavior = "clarify"
          <5>1. Judged(c) = {"completed", "valid", "provenance", "clarified"}
                              \cup (IF mode = "full" THEN {"answer"} ELSE {})
            BY <4>2 DEF Judged
          <5>2. /\ m.completed = B(Completed(turn.end)) /\ m.valid = B(llm.valid)
                /\ m.provenance = B(ProvenanceComplete(c))
                /\ m.clarified = B(turn.end = "clarified" /\ ~db.attempted
                                     /\ GeneratedSql = NoSql)
                /\ mode = "full" => m.answer = B(turn.accurate)
            BY <1>8, <4>2, MetricsOfACase DEF HarnessInv
          <5>3. /\ m.completed \in {"yes", "no"} /\ m.valid \in {"yes", "no"}
                /\ m.provenance \in {"yes", "no"} /\ m.clarified \in {"yes", "no"}
                /\ mode = "full" => m.answer \in {"yes", "no"}
            BY <5>2 DEF B
          <5> QED
            BY <5>1, <5>3
        <4> QED
          BY <1>1, <2>2, <4>1, <4>2
      <3>2. m.unsupported = FALSE
        BY <1>1, <1>8, <2>2, MetricsOfACase DEF HarnessInv
      <3> QED
        BY <1>3, <2>1, <2>2, <3>1, <3>2 DEF CasePassed, FailedMetrics
    <2> QED
      BY <2>2, <2>3
  <1>9. ASSUME r.passed
        PROVE  /\ turn.end # "infrastructure"
               /\ c.behavior = "allow" =>
                     /\ turn.end = "answered" /\ turn.sql.safe /\ turn.sql.relevant
                     /\ backend # "fake" => Pairs(c, turn.rows)
                     /\ mode = "full" => turn.accurate /\ turn.grounded
               /\ c.behavior = "block" =>
                     turn.end \in {"rejected", "clarified", "blocked"} /\ ~db.attempted
               /\ c.behavior = "clarify" => turn.end = "clarified" /\ ~db.attempted
    <2>1. turn.end # "infrastructure" /\ CasePassed(c, m)
      BY <1>3, <1>9
    <2>2. \A value \in BOOLEAN : (B(value) # "no" => value) /\ (B(value) = "yes" => value)
      BY DEF B
    <2>3. ASSUME c.behavior = "allow"
          PROVE  /\ turn.end = "answered" /\ turn.sql.safe /\ turn.sql.relevant
                 /\ backend # "fake" => Pairs(c, turn.rows)
                 /\ mode = "full" => turn.accurate /\ turn.grounded
      <3>1. /\ m.provenance # "no" /\ m.relevant # "no" /\ m.result # "no"
            /\ mode = "full" => m.answer # "no" /\ ~m.unsupported
        BY <2>1, <2>3 DEF CasePassed, Judged
      <3>2. turn.end = "answered"
        BY <2>1, <2>2, <2>3, <3>1, MetricsOfACase DEF HarnessInv
      <3>3. turn.sql # NoSql /\ turn.sql.safe /\ GeneratedSql = turn.sql
        BY <3>2 DEF HarnessInv, GeneratedSql
      <3>4. turn.sql.relevant
        <4>1. turn.sql.relevant \in BOOLEAN
          BY <1>2, <3>3 DEF Statement
        <4> QED
          BY <2>1, <2>2, <2>3, <3>1, <3>3, <4>1, MetricsOfACase DEF HarnessInv
      <3>5. ASSUME backend # "fake"
            PROVE  Pairs(c, turn.rows)
        <4>1. Compare(c, turn.rows)
          <5>1. m.result = B(Compare(c, turn.rows)) /\ Compare(c, turn.rows) \in BOOLEAN
            BY <2>1, <2>3, <3>5, MetricsOfACase DEF HarnessInv, Compare
          <5> QED
            BY <2>2, <3>1, <5>1
        <4> QED
          BY <1>2, <4>1, ComparedPairs
      <3>6. mode = "full" => turn.accurate /\ turn.grounded
        BY <1>2, <2>1, <2>2, <2>3, <3>1, MetricsOfACase DEF HarnessInv
      <3> QED
        BY <3>2, <3>3, <3>4, <3>5, <3>6
    <2>4. ASSUME c.behavior = "block"
          PROVE  turn.end \in {"rejected", "clarified", "blocked"} /\ ~db.attempted
      <3>1. m.outcome = "yes"
        BY <2>1, <2>4 DEF CasePassed, Judged
      <3> QED
        BY <2>1, <2>2, <2>4, <3>1, MetricsOfACase DEF HarnessInv
    <2>5. ASSUME c.behavior = "clarify"
          PROVE  turn.end = "clarified" /\ ~db.attempted
      <3>1. m.clarified = "yes"
        BY <2>1, <2>5 DEF CasePassed, Judged
      <3> QED
        BY <2>1, <2>2, <2>5, <3>1, MetricsOfACase DEF HarnessInv
    <2> QED
      BY <2>1, <2>3, <2>4, <2>5
  <1>10. JudgedByTurn(r)
    <2>1. (r.failure = "infrastructure") = (r.turn.end = "infrastructure")
      BY <1>3, <1>5
    <2>2. r.failure # "infrastructure" => (r.passed = (r.failed = {}))
      BY <1>4, <1>5, <1>8
    <2>3. /\ r.behavior = c.behavior /\ r.behavior \in {"allow", "block", "clarify"}
          /\ r.turn = turn /\ r.attempted = db.attempted /\ r.expects = c
      BY <1>1, <1>3
    <2>4. CASE r.behavior = "allow"
      BY <1>9, <2>1, <2>2, <2>3, <2>4 DEF JudgedByTurn
    <2>5. CASE r.behavior = "block"
      BY <1>9, <2>1, <2>2, <2>3, <2>5 DEF JudgedByTurn
    <2>6. CASE r.behavior = "clarify"
      BY <1>9, <2>1, <2>2, <2>3, <2>6 DEF JudgedByTurn
    <2> QED
      BY <2>3, <2>4, <2>5, <2>6
  <1> QED
    BY <1>7, <1>10 DEF r

(* Things sorted into kinds are as many as the counts of the kinds together: the
   pairs of a kind and a number up to its count. *)
LEMMA CountedByKind ==
    ASSUME NEW P, IsFiniteSet(P), NEW C, NEW kind \in [P -> C], NEW count \in [C -> Nat],
           \A c \in C : count[c] = Cardinality({i \in P : kind[i] = c})
    PROVE  Cardinality(UNION {{c} \X (1..count[c]) : c \in C}) = Cardinality(P)
  <1> DEFINE of(c) == {i \in P : kind[i] = c}
             U == UNION {{c} \X (1..count[c]) : c \in C}
             b == [c \in C |-> CHOOSE f : f \in Bijection(1..count[c], of(c))]
             g == [u \in U |-> b[u[1]][u[2]]]
  <1>1. ASSUME NEW c \in C
        PROVE  b[c] \in Bijection(1..count[c], of(c))
    <2>1. IsFiniteSet(of(c)) /\ count[c] = Cardinality(of(c))
      BY FS_Subset
    <2>2. ExistsBijection(1..count[c], of(c))
      BY <2>1, FS_CardinalityType
    <2> QED
      BY <2>2 DEF ExistsBijection
  <1>2. \A c \in C : /\ b[c] \in [1..count[c] -> {i \in P : kind[i] = c}]
                     /\ \A x, y \in 1..count[c] : b[c][x] = b[c][y] => x = y
                     /\ \A i \in P : kind[i] = c => \E x \in 1..count[c] : b[c][x] = i
    <2> SUFFICES ASSUME NEW c \in C
                 PROVE  /\ b[c] \in [1..count[c] -> {i \in P : kind[i] = c}]
                        /\ \A x, y \in 1..count[c] : b[c][x] = b[c][y] => x = y
                        /\ \A i \in P : kind[i] = c => \E x \in 1..count[c] : b[c][x] = i
      OBVIOUS
    <2>1. b[c] \in Bijection(1..count[c], of(c))
      BY <1>1
    <2>2. /\ b[c] \in [1..count[c] -> of(c)]
          /\ \A x, y \in 1..count[c] : b[c][x] = b[c][y] => x = y
          /\ \A t \in of(c) : \E x \in 1..count[c] : b[c][x] = t
      <3> HIDE DEF b, of
      <3> QED
        BY <2>1, Zenon DEF Bijection, Injection, Surjection, IsInjective
    <2> HIDE DEF b
    <2> QED
      BY <2>2
  <1> HIDE DEF b
  <1>3. \A u : u \in U <=> \E c \in C : \E x \in 1..count[c] : u = <<c, x>>
    OBVIOUS
  <1>4. \A u \in U : u[1] \in C /\ u[2] \in 1..count[u[1]] /\ u = <<u[1], u[2]>>
    BY <1>3
  <1> HIDE DEF U
  <1>5. g \in [U -> P] /\ \A u \in U : kind[g[u]] = u[1]
    BY <1>2, <1>4
  <1>6. \A u, v \in U : g[u] = g[v] => u = v
    <2>1. SUFFICES ASSUME NEW u \in U, NEW v \in U, g[u] = g[v] PROVE u = v
      OBVIOUS
    <2>2. u[1] = v[1]
      BY <1>5, <2>1
    <2>3. b[u[1]][u[2]] = b[u[1]][v[2]]
      BY <2>1, <2>2
    <2>4. u[2] = v[2]
      BY <1>2, <1>4, <2>2, <2>3, SMTT(60)
    <2> QED
      BY <1>4, <2>2, <2>4
  <1>7. ASSUME NEW i \in P
        PROVE  \E u \in U : g[u] = i
    <2>1. PICK c \in C : c = kind[i]
      OBVIOUS
    <2>2. PICK x \in 1..count[c] : b[c][x] = i
      BY <1>2, <2>1
    <2>3. <<c, x>> \in U
      BY <1>3, <2>1
    <2> QED
      BY <2>2, <2>3
  <1>8. g \in Bijection(U, P)
    BY <1>5, <1>6, <1>7 DEF Bijection, Injection, Surjection, IsInjective
  <1> HIDE DEF g
  <1>9. ExistsBijection(P, U)
    BY <1>8, Fun_ExistsBijSymmetric DEF ExistsBijection
  <1>10. Cardinality(U) = Cardinality(P)
    BY <1>9, FS_Bijection
  <1> QED
    BY <1>10 DEF U

(* The summary of a run counts every case once (_summarize): the last conjuncts of
   VerdictIsAboutTheTurn, when every verdict is of its turn. *)
LEMMA SummaryAddsUp ==
    ASSUME HarnessInv
    PROVE  /\ Summary.scored + Summary.infrastructure = Summary.total
           /\ Summary.passed <= Summary.scored
           /\ Summary.passed = Cardinality(PassedByCategory)
  <1> DEFINE n == Len(results)
             C == {results[i].category : i \in ScoredCases}
             kind == [i \in PassedCases |-> results[i].category]
             count == [c \in C |-> Summary.categories[c].passed]
  <1>1. n \in Nat /\ DOMAIN results = 1..n /\ \A i \in 1..n : results[i] \in Verdict
    BY DEF HarnessInv, HarnessTyped
  <1>2. IsFiniteSet(DOMAIN results) /\ Cardinality(DOMAIN results) = n
    <2> HIDE DEF n
    <2> QED
      BY <1>1, FS_Interval
  <1>3. PassedCases \subseteq ScoredCases /\ ScoredCases \subseteq DOMAIN results
    <2>1. SUFFICES ASSUME NEW i \in DOMAIN results, results[i].passed
                   PROVE  results[i].failure # "infrastructure"
      BY DEF PassedCases, ScoredCases
    <2> DEFINE r == results[i]
    <2>2. JudgedByTurn(r) /\ r.passed /\ r.behavior \in {"allow", "block", "clarify"}
      BY <1>1, <2>1 DEF HarnessInv, Verdict
    <2> HIDE DEF r
    <2>3. r.turn.end # "infrastructure"
      <3>1. CASE r.behavior = "allow"
        BY <2>2, <3>1 DEF JudgedByTurn
      <3>2. CASE r.behavior = "block"
        BY <2>2, <3>2 DEF JudgedByTurn
      <3>3. CASE r.behavior = "clarify"
        BY <2>2, <3>3 DEF JudgedByTurn
      <3> QED
        BY <2>2, <3>1, <3>2, <3>3
    <2>4. r.failure # "infrastructure"
      BY <2>2, <2>3 DEF JudgedByTurn
    <2> QED
      BY <2>4 DEF r
  <1>4. /\ IsFiniteSet(ScoredCases) /\ IsFiniteSet(PassedCases)
        /\ Cardinality(ScoredCases) \in Nat /\ Cardinality(PassedCases) \in Nat
        /\ Cardinality(PassedCases) <= Cardinality(ScoredCases)
    <2>1. IsFiniteSet(ScoredCases)
      BY <1>2, <1>3, FS_Subset
    <2>2. IsFiniteSet(PassedCases) /\ Cardinality(PassedCases) <= Cardinality(ScoredCases)
      BY <1>3, <2>1, FS_Subset
    <2> QED
      BY <2>1, <2>2, FS_CardinalityType
  <1>5. Cardinality(DOMAIN results \ ScoredCases) = n - Cardinality(ScoredCases)
    <2>1. DOMAIN results \cap ScoredCases = ScoredCases
      BY <1>3
    <2> QED
      BY <1>2, <2>1, FS_Difference, ZenonT(90)
  <1>6. /\ Summary.scored + Summary.infrastructure = Summary.total
        /\ Summary.passed <= Summary.scored /\ Summary.passed = Cardinality(PassedCases)
    BY <1>1, <1>4, <1>5 DEF Summary
  <1>7. kind \in [PassedCases -> C]
    BY <1>3
  <1>8. /\ DOMAIN Summary.categories = C
        /\ \A c \in C : Summary.categories[c].passed =
                          Cardinality(Of(ScoredCases \cap PassedCases, c))
    BY DEF Summary
  <1>9. \A c \in C : count[c] = Cardinality({i \in PassedCases : kind[i] = c})
    <2>1. SUFFICES ASSUME NEW c \in C
                   PROVE  Of(ScoredCases \cap PassedCases, c) = {i \in PassedCases : kind[i] = c}
      BY <1>8
    <2> QED
      BY <1>3 DEF Of
  <1>10. count \in [C -> Nat]
    <2>1. SUFFICES ASSUME NEW c \in C
                   PROVE  Cardinality({i \in PassedCases : kind[i] = c}) \in Nat
      BY <1>9
    <2>2. IsFiniteSet({i \in PassedCases : kind[i] = c})
      BY <1>4, FS_Subset
    <2> QED
      BY <2>2, FS_CardinalityType
  <1>11. PassedByCategory = UNION {{c} \X (1..count[c]) : c \in C}
    BY <1>8 DEF PassedByCategory
  <1> HIDE DEF C, kind, count
  <1>12. Cardinality(PassedByCategory) = Cardinality(PassedCases)
    BY <1>4, <1>7, <1>9, <1>10, <1>11, CountedByKind, SMTT(30)
  <1> QED
    BY <1>6, <1>12

(* The invariant of the harness holds at the start of a run ... *)
LEMMA HarnessInitially ==
    ASSUME HarnessSettings, HarnessInit
    PROVE  HarnessInv
  <1>1. HarnessTyped
    BY DEF HarnessInit, HarnessTyped, TurnLeft, Unrun, Statement, NoSql
  <1> QED
    BY <1>1 DEF HarnessInit, HarnessInv, Unrun

(* ... and survives every step of it. *)
LEMMA HarnessStep ==
    ASSUME HarnessSettings, HarnessInv, [HarnessNext]_hvars
    PROVE  HarnessInv'
  <1>1. ASSUME UNCHANGED <<backend, mode, results>>
        PROVE  \A i \in DOMAIN results' : JudgedByTurn(results[i])'
    BY <1>1 DEF HarnessInv, JudgedByTurn
  <1>2. CASE UNCHANGED hvars
    BY <1>1, <1>2 DEF hvars, HarnessInv, HarnessTyped
  <1>3. CASE StartCase
    <2>1. HarnessTyped'
      BY <1>3 DEF StartCase, HarnessInv, HarnessTyped, TurnLeft, Unrun, Statement, NoSql
    <2>2. turn'.end = "none"
      BY <1>3 DEF StartCase, Unrun
    <2> QED
      BY <1>1, <1>3, <2>1, <2>2 DEF StartCase, HarnessInv
  <1>4. ASSUME NEW end \in TurnEnds, NEW sql \in Statement,
               NEW tried \in {"no", "failed", "succeeded"}, Records(end, sql, tried)
        PROVE  /\ db' \in [attempted : BOOLEAN, succeeded : BOOLEAN]
               /\ llm' \in [valid : BOOLEAN, sql : Statement]
               /\ end = "answered" => sql # NoSql /\ sql.safe
    <2>1. /\ db \in [attempted : BOOLEAN, succeeded : BOOLEAN]
          /\ llm \in [valid : BOOLEAN, sql : Statement]
      BY DEF HarnessInv, HarnessTyped
    <2> QED
      BY <1>4, <2>1 DEF Records
  <1>5. ASSUME NEW end \in TurnEnds, NEW sql \in Statement,
               NEW tried \in {"no", "failed", "succeeded"}, AskBefore(end, sql, tried)
        PROVE  HarnessInv'
    <2>1. /\ Records(end, sql, tried) /\ UNCHANGED <<backend, mode, dataset, case, results>>
          /\ stage = "before"
          /\ \/ Completed(end) /\ stage' = "ask" /\ turn' = turn
             \/ ~Completed(end) /\ stage' = "score" /\ turn' = [Unrun EXCEPT !.end = end]
      BY <1>5 DEF AskBefore
    <2>2. ASSUME ~Completed(end)
          PROVE  [Unrun EXCEPT !.end = end] \in TurnLeft /\ end # "answered"
                 /\ [Unrun EXCEPT !.end = end].end = end
      BY <2>2 DEF Unrun, TurnLeft, Statement, NoSql, Completed
    <2>3. turn' \in TurnLeft /\ (turn'.end = "answered" => turn'.sql # NoSql /\ turn'.sql.safe)
      BY <2>1, <2>2 DEF HarnessInv, HarnessTyped
    <2>4. HarnessTyped'
      BY <1>4, <2>1, <2>3 DEF HarnessInv, HarnessTyped
    <2> QED
      BY <1>1, <2>1, <2>3, <2>4 DEF HarnessInv
  <1>6. ASSUME NEW end \in TurnEnds, NEW sql \in Statement,
               NEW tried \in {"no", "failed", "succeeded"}, NEW rows \in Rows,
               NEW accurate \in BOOLEAN, NEW grounded \in BOOLEAN,
               AskCase(end, sql, tried, rows, accurate, grounded)
        PROVE  HarnessInv'
    <2> DEFINE own == [end |-> end, sql |-> sql, rows |-> rows,
                       accurate |-> accurate, grounded |-> grounded]
               failed == [Unrun EXCEPT !.end = end]
    <2>1. /\ Records(end, sql, tried) /\ UNCHANGED <<backend, mode, dataset, case, results>>
          /\ stage = "ask" /\ stage' = "score"
          /\ \/ Completed(end) /\ turn' = own
             \/ ~Completed(end) /\ turn' = failed
      BY <1>6 DEF AskCase
    <2>2. own \in TurnLeft /\ own.end = end /\ own.sql = sql
      BY DEF TurnLeft
    <2>3. ASSUME ~Completed(end)
          PROVE  failed \in TurnLeft /\ end # "answered" /\ failed.end = end
      BY <2>3 DEF Unrun, TurnLeft, Statement, NoSql, Completed
    <2> HIDE DEF own, failed
    <2>4. turn' \in TurnLeft /\ (turn'.end = "answered" => turn'.sql # NoSql /\ turn'.sql.safe)
      BY <1>4, <2>1, <2>2, <2>3
    <2>5. HarnessTyped'
      BY <1>4, <2>1, <2>4 DEF HarnessInv, HarnessTyped
    <2> QED
      BY <1>1, <2>1, <2>4, <2>5 DEF HarnessInv
  <1>7. CASE ScoreCase
    <2> DEFINE r == Score(Case)
               n == Len(results)
    <2>1. /\ stage = "score" /\ stage' = "start" /\ case' = case + 1
          /\ results' = Append(results, r)
          /\ UNCHANGED <<backend, mode, dataset, db, llm, turn>>
      BY <1>7 DEF ScoreCase
    <2>2. r \in Verdict /\ JudgedByTurn(r)
      BY <2>1, ScoreIsRight
    <2>3. results \in Seq(Verdict) /\ \A i \in DOMAIN results : JudgedByTurn(results[i])
      BY DEF HarnessInv, HarnessTyped
    <2> HIDE DEF r
    <2>4. results' \in Seq(Verdict)
      BY <2>1, <2>2, <2>3
    <2>5. \A i \in DOMAIN results' : JudgedByTurn(results'[i])
      BY <2>1, <2>2, <2>3
    <2>6. \A i \in DOMAIN results' : JudgedByTurn(results[i])'
      BY <2>1, <2>5 DEF JudgedByTurn
    <2>7. HarnessTyped'
      BY <2>1, <2>4 DEF HarnessInv, HarnessTyped
    <2> QED
      BY <2>1, <2>6, <2>7 DEF HarnessInv
  <1> QED
    BY <1>2, <1>3, <1>5, <1>6, <1>7 DEF HarnessNext

(* For any datasets, rows and number of cases, whatever every turn does, a verdict
   is about the case's own turn and the summary counts every case once
   (run_evaluations): the property VerdictIsAboutTheTurn of EvalHarness. *)
THEOREM VerdictsAlwaysAboutTheTurn ==
    ASSUME HarnessSettings
    PROVE  HarnessSpec => []VerdictIsAboutTheTurn
  <1>1. HarnessInit => HarnessInv
    BY HarnessInitially
  <1>2. HarnessInv /\ [HarnessNext]_hvars => HarnessInv'
    BY HarnessStep
  <1>3. HarnessInv => VerdictIsAboutTheTurn
    BY SummaryAddsUp DEF VerdictIsAboutTheTurn, HarnessInv
  <1> QED
    BY <1>1, <1>2, <1>3, PTL DEF HarnessSpec

-----------------------------------------------------------------------------
(* Periods *)

(* The number of the first day of a year. *)
FirstDay(y) == 365 * (y - 1) + ((y - 1) \div 4) - ((y - 1) \div 100) + ((y - 1) \div 400) + 1

YearLength(y) == IF Leap(y) THEN 366 ELSE 365

LEMMA YearsFollow ==
    ASSUME NEW y \in Int
    PROVE  FirstDay(y) \in Int /\ FirstDay(y + 1) = FirstDay(y) + YearLength(y)
  BY DEF FirstDay, YearLength, Leap

LEMMA YearsAreApart ==
    ASSUME NEW y \in Int, NEW z \in Int, y < z
    PROVE  FirstDay(y + 1) <= FirstDay(z)
  BY DEF FirstDay

LEMMA Guess ==
    ASSUME NEW y \in Int, 0 <= y, y <= LastYear, NEW n \in Int, FirstDay(y) <= n, n < FirstDay(y + 1)
    PROVE  y \in ((n \div 365) - 6)..((n \div 365) + 1)
  BY DEF FirstDay, LastYear

(* A date of the calendar. *)
IsDate(d) ==
    /\ d = Date(d.year, d.month, d.day)
    /\ d.year \in Int /\ d.month \in 1..12 /\ d.day \in 1..DaysInMonth(d.year, d.month)

(* The months of a year before one, in days. *)
MonthsBefore(y, m) == Before(m) + (IF Leap(y) /\ m > 2 THEN 1 ELSE 0)

LEMMA BeforeIs ==
    /\ Before(1) = 0 /\ Before(2) = 31 /\ Before(3) = 59 /\ Before(4) = 90 /\ Before(5) = 120
    /\ Before(6) = 151 /\ Before(7) = 181 /\ Before(8) = 212 /\ Before(9) = 243
    /\ Before(10) = 273 /\ Before(11) = 304 /\ Before(12) = 334
  BY DEF Before

LEMMA DaysInMonthIs ==
    ASSUME NEW y
    PROVE  /\ DaysInMonth(y, 1) = 31 /\ DaysInMonth(y, 2) = (IF Leap(y) THEN 29 ELSE 28)
           /\ DaysInMonth(y, 3) = 31 /\ DaysInMonth(y, 4) = 30 /\ DaysInMonth(y, 5) = 31
           /\ DaysInMonth(y, 6) = 30 /\ DaysInMonth(y, 7) = 31 /\ DaysInMonth(y, 8) = 31
           /\ DaysInMonth(y, 9) = 30 /\ DaysInMonth(y, 10) = 31 /\ DaysInMonth(y, 11) = 30
           /\ DaysInMonth(y, 12) = 31
  BY DEF DaysInMonth, Lengths

LEMMA MonthLengths ==
    ASSUME NEW y \in Int, NEW m \in 1..12
    PROVE  /\ DaysInMonth(y, m) \in 28..31 /\ MonthsBefore(y, m) \in 0..335
           /\ m < 12 => MonthsBefore(y, m + 1) = MonthsBefore(y, m) + DaysInMonth(y, m)
           /\ m = 12 => MonthsBefore(y, m) + DaysInMonth(y, m) = YearLength(y)
           /\ m = 1 => MonthsBefore(y, m) = 0
  BY BeforeIs, DaysInMonthIs DEF MonthsBefore, YearLength

LEMMA MonthSizes ==
    ASSUME NEW y \in Int, NEW m \in 1..12
    PROVE  /\ DaysInMonth(y, m) \in Nat /\ MonthsBefore(y, m) \in Nat
           /\ 28 <= DaysInMonth(y, m) /\ DaysInMonth(y, m) <= 31
  BY BeforeIs, DaysInMonthIs DEF MonthsBefore

LEMMA MonthsAreApart ==
    ASSUME NEW y \in Int, NEW k \in 1..12, NEW m \in 1..12, k < m
    PROVE  MonthsBefore(y, k) + DaysInMonth(y, k) <= MonthsBefore(y, m)
  BY BeforeIs, DaysInMonthIs DEF MonthsBefore, YearLength

LEMMA OrdinalIs ==
    ASSUME NEW y \in Int, NEW m \in 1..12, NEW d \in Int
    PROVE  Ordinal(Date(y, m, d)) = FirstDay(y) + MonthsBefore(y, m) + d - 1
  BY BeforeIs DEF Ordinal, Date, FirstDay, MonthsBefore

LEMMA FirstOfMonth ==
    ASSUME NEW y \in Int, NEW m \in 1..12
    PROVE  /\ Ordinal(Date(y, m, 1)) = FirstDay(y) + MonthsBefore(y, m)
           /\ FirstDay(y) \in Int /\ MonthsBefore(y, m) \in Nat
  <1>1. FirstDay(y) \in Int /\ MonthsBefore(y, m) \in Nat
    BY YearsFollow, MonthSizes
  <1>2. Ordinal(Date(y, m, 1)) = FirstDay(y) + MonthsBefore(y, m) + 1 - 1
    BY OrdinalIs
  <1> QED
    BY <1>1, <1>2

LEMMA MonthIsOne ==
    ASSUME NEW y \in Int, NEW n \in 0..(YearLength(y) - 1)
    PROVE  \E m \in 1..12 : MonthsBefore(y, m) <= n /\ n < MonthsBefore(y, m) + DaysInMonth(y, m)
  BY BeforeIs, DaysInMonthIs DEF MonthsBefore, YearLength

(* The month of the n-th day. *)
MonthOf(n) == MonthIn(YearOf(n), n)

LEMMA DateOfIs ==
    ASSUME NEW n
    PROVE  DateOf(n) = Date(YearOf(n), MonthOf(n), n - Ordinal(Date(YearOf(n), MonthOf(n), 1)) + 1)
  BY DEF DateOf, MonthOf

LEMMA FirstDayIs ==
    ASSUME NEW y \in Int
    PROVE  Ordinal(Date(y, 1, 1)) = FirstDay(y) /\ FirstDay(y) \in Int
  <1>1. MonthsBefore(y, 1) = 0
    BY BeforeIs DEF MonthsBefore
  <1> QED
    BY <1>1, OrdinalIs, YearsFollow

(* The first of the month falls in its year. *)
LEMMA YearOfIs ==
    ASSUME NEW y \in Int, 0 <= y, y <= LastYear, NEW n \in Int, FirstDay(y) <= n, n < FirstDay(y + 1)
    PROVE  YearOf(n) = y
  <1>1. y \in ((n \div 365) - 6)..((n \div 365) + 1)
    <2>1. y \in Int /\ FirstDay(y) \in Int /\ FirstDay(y + 1) \in Int
      BY YearsFollow
    <2> QED
      BY <2>1, Guess
  <1>2. ASSUME NEW k \in ((n \div 365) - 6)..((n \div 365) + 1),
               Ordinal(Date(k, 1, 1)) <= n, n < Ordinal(Date(k + 1, 1, 1))
        PROVE  k = y
    <2>1. k \in Int /\ y \in Int
      OBVIOUS
    <2>2. FirstDay(k) <= n /\ n < FirstDay(k + 1)
      BY <1>2, <2>1, FirstDayIs
    <2>3. FirstDay(k) \in Int /\ FirstDay(k + 1) \in Int /\ FirstDay(y) \in Int /\ FirstDay(y + 1) \in Int
      BY <2>1, FirstDayIs
    <2>4. ~(k < y)
      BY <2>1, <2>2, <2>3, YearsAreApart
    <2>5. ~(y < k)
      BY <2>1, <2>2, <2>3, YearsAreApart
    <2> QED
      BY <2>1, <2>4, <2>5
  <1>3. Ordinal(Date(y, 1, 1)) <= n /\ n < Ordinal(Date(y + 1, 1, 1))
    BY FirstDayIs
  <1> QED
    BY <1>1, <1>2, <1>3 DEF YearOf

LEMMA MonthOfIs ==
    ASSUME NEW y \in Int, 0 <= y, y <= LastYear, NEW m \in 1..12, NEW n \in Int,
           FirstDay(y) + MonthsBefore(y, m) <= n,
           n < FirstDay(y) + MonthsBefore(y, m) + DaysInMonth(y, m)
    PROVE  YearOf(n) = y /\ MonthOf(n) = m
  <1>0. y \in Int /\ FirstDay(y) \in Int /\ FirstDay(y + 1) = FirstDay(y) + YearLength(y)
    BY YearsFollow
  <1>1. FirstDay(y) <= n /\ n < FirstDay(y + 1)
    <2>1. MonthsBefore(y, m) \in Nat /\ DaysInMonth(y, m) \in Nat
      BY <1>0, MonthSizes
    <2>2. m < 12 => MonthsBefore(y, m) + DaysInMonth(y, m) <= MonthsBefore(y, 12)
      BY <1>0, MonthsAreApart
    <2>3. MonthsBefore(y, 12) + DaysInMonth(y, 12) = YearLength(y) /\ DaysInMonth(y, 12) \in Nat
          /\ MonthsBefore(y, 12) \in Nat
      BY <1>0, MonthLengths, MonthSizes
    <2> QED
      BY <1>0, <2>1, <2>2, <2>3
  <1>2. YearOf(n) = y
    BY <1>1, YearOfIs
  <1>3. \A k \in 1..12 : Ordinal(Date(y, k, 1)) = FirstDay(y) + MonthsBefore(y, k)
    BY <1>0, FirstOfMonth
  <1>4. ASSUME NEW k \in 1..12,
               Ordinal(Date(y, k, 1)) <= n, n < Ordinal(Date(y, k, 1)) + DaysInMonth(y, k)
        PROVE  k = m
    <2>1. /\ MonthsBefore(y, m) \in Nat /\ DaysInMonth(y, m) \in Nat
          /\ MonthsBefore(y, k) \in Nat /\ DaysInMonth(y, k) \in Nat
      BY <1>0, MonthSizes
    <2>2. ~(k < m)
      BY <1>0, <1>3, <1>4, <2>1, MonthsAreApart
    <2>3. ~(m < k)
      BY <1>0, <1>3, <1>4, <2>1, MonthsAreApart
    <2> QED
      BY <2>2, <2>3
  <1> QED
    BY <1>2, <1>3, <1>4 DEF MonthOf, MonthIn

(* date.fromordinal undoes date.toordinal. *)
LEMMA DateOfOrdinal ==
    ASSUME NEW d, IsDate(d), 0 <= d.year, d.year <= LastYear
    PROVE  DateOf(Ordinal(d)) = d
  <1> DEFINE y == d.year
             m == d.month
             n == Ordinal(d)
  <1>1. /\ 0 <= y /\ y <= LastYear /\ y \in Int /\ m \in 1..12 /\ d.day \in Int /\ d.day \in 1..DaysInMonth(y, m)
        /\ d = Date(y, m, d.day)
    BY DEF IsDate
  <1>2. /\ MonthsBefore(y, m) \in Nat /\ DaysInMonth(y, m) \in Nat /\ FirstDay(y) \in Int
    BY <1>1, MonthSizes, YearsFollow
  <1>3. n = FirstDay(y) + MonthsBefore(y, m) + d.day - 1
    BY <1>1, OrdinalIs, SMTT(60)
  <1>4. YearOf(n) = y /\ MonthOf(n) = m
    <2> HIDE DEF n, y, m
    <2> QED
      BY <1>1, <1>2, <1>3, MonthOfIs
  <1>5. Ordinal(Date(y, m, 1)) = FirstDay(y) + MonthsBefore(y, m)
    BY <1>1, <1>2, OrdinalIs, SMTT(60)
  <1>6. n - Ordinal(Date(y, m, 1)) + 1 = d.day
    BY <1>1, <1>2, <1>3, <1>5
  <1> QED
    BY <1>1, <1>4, <1>6, DateOfIs

LEMMA LastYearIs == LastYear \in Nat
  BY DEF LastYear

(* Every day up to the last year's end is of some year. *)
LEMMA DayIsOfAYear ==
    ASSUME NEW n \in Int, 1 <= n, n < FirstDay(LastYear + 1)
    PROVE  \E y \in 1..LastYear : FirstDay(y) <= n /\ n < FirstDay(y + 1)
  <1> DEFINE T == {y \in Nat : n < FirstDay(y + 1)}
  <1>1. T \subseteq Nat /\ LastYear \in T /\ LastYear \in Nat
    BY LastYearIs
  <1>2. PICK y \in T : \A z \in T : y <= z
    <2> HIDE DEF T
    <2> QED
      BY <1>1, LeastOf
  <1>3. y \in Nat /\ n < FirstDay(y + 1) /\ y <= LastYear
    BY <1>1, <1>2
  <1>4. y # 0
    BY <1>3 DEF FirstDay
  <1>5. FirstDay(y) <= n
    <2>1. y - 1 \in Nat /\ y - 1 \notin T
      <3>1. y - 1 \in Nat /\ ~(y <= y - 1)
        BY <1>3, <1>4
      <3> HIDE DEF T
      <3> QED
        BY <1>2, <3>1
    <2>2. ~(n < FirstDay((y - 1) + 1)) /\ (y - 1) + 1 = y
      BY <1>3, <2>1
    <2> QED
      BY <1>3, <2>2, YearsFollow
  <1> QED
    BY <1>1, <1>3, <1>4, <1>5

(* date.toordinal undoes date.fromordinal. *)
LEMMA OrdinalOfDate ==
    ASSUME NEW n \in Int, 1 <= n, n < FirstDay(LastYear + 1)
    PROVE  /\ Ordinal(DateOf(n)) = n /\ IsDate(DateOf(n))
           /\ 1 <= DateOf(n).year /\ DateOf(n).year <= LastYear
  <1>0. LastYear \in Nat
    BY LastYearIs
  <1>1. PICK y \in 1..LastYear : FirstDay(y) <= n /\ n < FirstDay(y + 1)
    BY DayIsOfAYear
  <1>2. y \in Int /\ 1 <= y /\ 0 <= y /\ y <= LastYear /\ FirstDay(y) \in Int
        /\ FirstDay(y + 1) = FirstDay(y) + YearLength(y)
    BY <1>0, <1>1, YearsFollow
  <1>3. YearLength(y) \in Int /\ n - FirstDay(y) \in 0..(YearLength(y) - 1)
    BY <1>1, <1>2 DEF YearLength
  <1>4. PICK m \in 1..12 : /\ MonthsBefore(y, m) <= n - FirstDay(y)
                           /\ n - FirstDay(y) < MonthsBefore(y, m) + DaysInMonth(y, m)
    BY <1>2, <1>3, MonthIsOne
  <1>5. MonthsBefore(y, m) \in Nat /\ DaysInMonth(y, m) \in Nat
    BY <1>2, MonthSizes
  <1>6. YearOf(n) = y /\ MonthOf(n) = m
    BY <1>2, <1>4, <1>5, MonthOfIs
  <1> DEFINE d == n - (FirstDay(y) + MonthsBefore(y, m)) + 1
  <1>7. d \in Int /\ d \in 1..DaysInMonth(y, m)
    BY <1>2, <1>4, <1>5
  <1>8. DateOf(n) = Date(y, m, d)
    <2>1. Ordinal(Date(y, m, 1)) = FirstDay(y) + MonthsBefore(y, m)
      BY <1>2, <1>5, OrdinalIs, SMTT(60)
    <2> QED
      BY <1>6, <2>1, DateOfIs
  <1>9. Ordinal(Date(y, m, d)) = n
    BY <1>2, <1>5, <1>7, OrdinalIs, SMTT(30)
  <1> HIDE DEF d
  <1>10. Date(y, m, d).year = y /\ Date(y, m, d).month = m /\ Date(y, m, d).day = d
    BY DEF Date
  <1> QED
    BY <1>2, <1>7, <1>8, <1>9, <1>10 DEF IsDate

-----------------------------------------------------------------------------
(* Months *)

(* The months of all years, numbered. *)
MonthNumber(d) == 12 * d.year + d.month - 1

LEMMA DateParts ==
    ASSUME NEW y, NEW m, NEW d
    PROVE  Date(y, m, d).year = y /\ Date(y, m, d).month = m /\ Date(y, m, d).day = d
  BY DEF Date

LEMMA DateTyped ==
    ASSUME NEW d, IsDate(d)
    PROVE  /\ d.year \in Int /\ d.month \in 1..12 /\ d.day \in Int /\ 1 <= d.day
           /\ d.day <= DaysInMonth(d.year, d.month) /\ MonthNumber(d) \in Int
           /\ DaysInMonth(d.year, d.month) \in Nat /\ Ordinal(d) \in Int
           /\ Ordinal(d) = FirstDay(d.year) + MonthsBefore(d.year, d.month) + d.day - 1
  <1>1. d.year \in Int /\ d.month \in 1..12 /\ d.day \in 1..DaysInMonth(d.year, d.month)
        /\ d = Date(d.year, d.month, d.day)
    BY DEF IsDate
  <1>2. /\ DaysInMonth(d.year, d.month) \in Nat /\ MonthsBefore(d.year, d.month) \in Nat
        /\ FirstDay(d.year) \in Int
    BY <1>1, MonthSizes, YearsFollow
  <1>3. d.day \in Int
    BY <1>1, <1>2
  <1>4. Ordinal(d) = FirstDay(d.year) + MonthsBefore(d.year, d.month) + d.day - 1
    BY <1>1, <1>3, OrdinalIs
  <1> QED
    BY <1>1, <1>2, <1>3, <1>4 DEF MonthNumber

LEMMA SameMonth ==
    ASSUME NEW d, NEW e, IsDate(d), IsDate(e), MonthNumber(d) = MonthNumber(e)
    PROVE  d.year = e.year /\ d.month = e.month
  BY DateTyped DEF MonthNumber

LEMMA YearsAdded ==
    ASSUME NEW d, NEW e, IsDate(d), IsDate(e), NEW k \in Int,
           MonthNumber(e) = MonthNumber(d) + 12 * k
    PROVE  e.year = d.year + k /\ e.month = d.month
  BY DateTyped DEF MonthNumber

LEMMA SameDate ==
    ASSUME NEW d, NEW e, IsDate(d), IsDate(e), MonthNumber(d) = MonthNumber(e), d.day = e.day
    PROVE  d = e
  <1>1. d.year = e.year /\ d.month = e.month
    BY DateTyped DEF MonthNumber
  <1> QED
    BY <1>1 DEF IsDate

(* Months later, a date is the same day, or the month's last. *)
LEMMA MonthsAdded ==
    ASSUME NEW d, IsDate(d), NEW k \in Int
    PROVE  LET e == AddMonths(d, k)
           IN  /\ IsDate(e) /\ MonthNumber(e) = MonthNumber(d) + k
               /\ e.day = IF d.day <= DaysInMonth(e.year, e.month) THEN d.day
                          ELSE DaysInMonth(e.year, e.month)
  <1> DEFINE total == d.year * 12 + (d.month - 1) + k
             y == total \div 12
             m == (total % 12) + 1
             day == IF d.day <= DaysInMonth(y, m) THEN d.day ELSE DaysInMonth(y, m)
  <1>1. /\ d.year \in Int /\ d.month \in 1..12 /\ d.day \in Int /\ 1 <= d.day
    BY DateTyped
  <1>2. total \in Int /\ y \in Int /\ m \in 1..12 /\ 12 * y + m - 1 = total
    <2>1. total \in Int
      BY <1>1
    <2> HIDE DEF total
    <2> QED
      BY <2>1
  <1>3. AddMonths(d, k) = Date(y, m, day)
    BY DEF AddMonths
  <1>4. DaysInMonth(y, m) \in Nat /\ 28 <= DaysInMonth(y, m)
    <2> HIDE DEF y, m
    <2> QED
      BY <1>2, MonthSizes
  <1>5. day \in 1..DaysInMonth(y, m)
    <2> HIDE DEF y, m
    <2> QED
      BY <1>1, <1>4
  <1>6. total = MonthNumber(d) + k
    BY <1>1 DEF MonthNumber
  <1> HIDE DEF total, y, m, day
  <1>7. LET e == Date(y, m, day) IN e.year = y /\ e.month = m /\ e.day = day
    BY DateParts
  <1>8. IsDate(Date(y, m, day)) /\ MonthNumber(Date(y, m, day)) = total
    BY <1>2, <1>5, <1>7 DEF IsDate, MonthNumber
  <1> QED
    BY <1>3, <1>6, <1>7, <1>8 DEF day

(* Dates are numbered in their order. *)
LEMMA LaterMonth ==
    ASSUME NEW d, NEW e, IsDate(d), IsDate(e), MonthNumber(d) < MonthNumber(e)
    PROVE  Ordinal(d) < Ordinal(e)
  <1> DEFINE y == d.year
             z == e.year
  <1>1. /\ y \in Int /\ d.month \in 1..12 /\ d.day \in Int /\ d.day <= DaysInMonth(y, d.month)
        /\ z \in Int /\ e.month \in 1..12 /\ e.day \in Int /\ 1 <= e.day
        /\ Ordinal(d) = FirstDay(y) + MonthsBefore(y, d.month) + d.day - 1
        /\ Ordinal(e) = FirstDay(z) + MonthsBefore(z, e.month) + e.day - 1
    BY DateTyped
  <1>2. /\ DaysInMonth(y, d.month) \in Nat /\ MonthsBefore(y, d.month) \in Nat /\ FirstDay(y) \in Int
        /\ MonthsBefore(z, e.month) \in Nat /\ FirstDay(z) \in Int
    BY <1>1, MonthSizes, YearsFollow
  <1>3. CASE y = z
    <2>1. d.month < e.month
      BY <1>1, <1>3 DEF MonthNumber
    <2>2. MonthsBefore(y, d.month) + DaysInMonth(y, d.month) <= MonthsBefore(y, e.month)
      BY <1>1, <2>1, MonthsAreApart
    <2> QED
      BY <1>1, <1>2, <1>3, <2>2
  <1>4. CASE y # z
    <2>1. y < z
      BY <1>1, <1>4 DEF MonthNumber
    <2>2. FirstDay(y + 1) <= FirstDay(z) /\ FirstDay(y + 1) = FirstDay(y) + YearLength(y)
      BY <1>1, <2>1, YearsAreApart, YearsFollow
    <2>3. MonthsBefore(y, d.month) + DaysInMonth(y, d.month) <= YearLength(y) /\ YearLength(y) \in Int
      BY <1>1, BeforeIs, DaysInMonthIs DEF MonthsBefore, YearLength
    <2> QED
      BY <1>1, <1>2, <2>2, <2>3
  <1> QED
    BY <1>3, <1>4

LEMMA LaterDay ==
    ASSUME NEW d, NEW e, IsDate(d), IsDate(e), MonthNumber(d) = MonthNumber(e)
    PROVE  Ordinal(e) - Ordinal(d) = e.day - d.day
  <1>1. d.year = e.year /\ d.month = e.month
    BY DateTyped DEF MonthNumber
  <1>2. MonthsBefore(d.year, d.month) \in Nat /\ FirstDay(d.year) \in Int
    BY DateTyped, MonthSizes, YearsFollow
  <1> QED
    BY <1>1, <1>2, DateTyped

LEMMA DateOrder ==
    ASSUME NEW d, NEW e, IsDate(d), IsDate(e)
    PROVE  /\ Ordinal(d) < Ordinal(e) <=> \/ MonthNumber(d) < MonthNumber(e)
                                          \/ (MonthNumber(d) = MonthNumber(e) /\ d.day < e.day)
           /\ Ordinal(d) <= Ordinal(e) <=> \/ MonthNumber(d) < MonthNumber(e)
                                           \/ (MonthNumber(d) = MonthNumber(e) /\ d.day <= e.day)
  <1>1. /\ MonthNumber(d) \in Int /\ MonthNumber(e) \in Int /\ d.day \in Int /\ e.day \in Int
        /\ Ordinal(d) \in Int /\ Ordinal(e) \in Int
    BY DateTyped
  <1>2. CASE MonthNumber(d) < MonthNumber(e)
    BY <1>1, <1>2, LaterMonth
  <1>3. CASE MonthNumber(e) < MonthNumber(d)
    BY <1>1, <1>3, LaterMonth
  <1>4. CASE MonthNumber(d) = MonthNumber(e)
    BY <1>1, <1>4, LaterDay
  <1> QED
    BY <1>1, <1>2, <1>3, <1>4

LEMMA NotLater ==
    ASSUME NEW d, NEW e, IsDate(d), IsDate(e), Ordinal(d) <= Ordinal(e)
    PROVE  MonthNumber(d) < MonthNumber(e) \/ (MonthNumber(d) = MonthNumber(e) /\ d.day <= e.day)
  <1>1. /\ MonthNumber(d) \in Int /\ MonthNumber(e) \in Int /\ d.day \in Int /\ e.day \in Int
        /\ Ordinal(d) \in Int /\ Ordinal(e) \in Int
    BY DateTyped
  <1>2. ~(MonthNumber(e) < MonthNumber(d))
    BY <1>1, LaterMonth
  <1>3. CASE MonthNumber(d) = MonthNumber(e)
    BY <1>1, <1>3, LaterDay
  <1>4. MonthNumber(d) < MonthNumber(e) \/ MonthNumber(d) = MonthNumber(e)
    BY <1>1, <1>2
  <1> QED
    BY <1>3, <1>4

LEMMA Sooner ==
    ASSUME NEW d, NEW e, IsDate(d), IsDate(e), Ordinal(d) < Ordinal(e)
    PROVE  MonthNumber(d) < MonthNumber(e) \/ (MonthNumber(d) = MonthNumber(e) /\ d.day < e.day)
  <1>1. /\ MonthNumber(d) \in Int /\ MonthNumber(e) \in Int /\ d.day \in Int /\ e.day \in Int
        /\ Ordinal(d) \in Int /\ Ordinal(e) \in Int
    BY DateTyped
  <1>2. ~(MonthNumber(e) < MonthNumber(d))
    BY <1>1, LaterMonth
  <1>3. CASE MonthNumber(d) = MonthNumber(e)
    BY <1>1, <1>3, LaterDay
  <1>4. MonthNumber(d) < MonthNumber(e) \/ MonthNumber(d) = MonthNumber(e)
    BY <1>1, <1>2
  <1> QED
    BY <1>3, <1>4

(* A year earlier is 365 or 366 days earlier. *)
LEMMA YearEarlier ==
    ASSUME NEW d, IsDate(d)
    PROVE  Ordinal(d) - Ordinal(AddMonths(d, -12)) \in {365, 366}
  <1> DEFINE e == AddMonths(d, -12)
             y == d.year
             m == d.month
  <1>1. /\ y \in Int /\ m \in 1..12 /\ d.day \in Int /\ d.day <= DaysInMonth(y, m)
        /\ Ordinal(d) = FirstDay(y) + MonthsBefore(y, m) + d.day - 1
    BY DateTyped
  <1>2. /\ IsDate(e) /\ MonthNumber(e) = MonthNumber(d) + (-12)
        /\ e.day = IF d.day <= DaysInMonth(e.year, e.month) THEN d.day
                   ELSE DaysInMonth(e.year, e.month)
    BY MonthsAdded
  <1> HIDE DEF e
  <1>3. /\ e.year \in Int /\ e.month \in 1..12 /\ e.day \in Int
        /\ Ordinal(e) = FirstDay(e.year) + MonthsBefore(e.year, e.month) + e.day - 1
    BY <1>2, DateTyped
  <1>4. e.year = y - 1 /\ e.month = m
    BY <1>1, <1>2, <1>3, SMTT(60) DEF MonthNumber
  <1>5. FirstDay(y) = FirstDay(y - 1) + YearLength(y - 1) /\ FirstDay(y - 1) \in Int /\ y - 1 \in Int
    <2>1. y - 1 \in Int /\ (y - 1) + 1 = y
      BY <1>1
    <2> QED
      BY <2>1, YearsFollow
  <1>6. Leap(y) => ~Leap(y - 1)
    BY <1>1 DEF Leap
  <1>7. Ordinal(e) = FirstDay(y - 1) + MonthsBefore(y - 1, m) + e.day - 1
    BY <1>3, <1>4
  <1>8. YearLength(y - 1) + MonthsBefore(y, m) + d.day - (MonthsBefore(y - 1, m) + e.day) \in {365, 366}
    <2> HIDE DEF y, m
    <2> QED
      BY <1>1, <1>2, <1>3, <1>4, <1>5, <1>6, BeforeIs, DaysInMonthIs DEF MonthsBefore, YearLength
  <1>9. YearLength(y - 1) \in Int /\ MonthsBefore(y, m) \in Nat /\ MonthsBefore(y - 1, m) \in Nat
    <2>1. YearLength(y - 1) \in Int
      BY DEF YearLength
    <2> HIDE DEF y, m
    <2> QED
      BY <1>1, <1>5, <2>1, MonthSizes
  <1> QED
    <2> HIDE DEF y, m
    <2> QED
      BY <1>1, <1>3, <1>5, <1>7, <1>8, <1>9 DEF e

(* Months added twice are added at once, if the first time keeps the day. *)
LEMMA MonthsCompose ==
    ASSUME NEW d, IsDate(d), NEW a \in Int, NEW b \in Int, AddMonths(d, a).day = d.day
    PROVE  AddMonths(AddMonths(d, a), b) = AddMonths(d, a + b)
  <1> DEFINE c == AddMonths(d, a)
             e == AddMonths(c, b)
             f == AddMonths(d, a + b)
  <1>1. IsDate(c) /\ MonthNumber(c) = MonthNumber(d) + a /\ c.day = d.day
    BY MonthsAdded
  <1>2. /\ IsDate(e) /\ MonthNumber(e) = MonthNumber(c) + b
        /\ e.day = IF c.day <= DaysInMonth(e.year, e.month) THEN c.day ELSE DaysInMonth(e.year, e.month)
    <2> HIDE DEF c
    <2> QED
      BY <1>1, MonthsAdded
  <1>3. /\ IsDate(f) /\ MonthNumber(f) = MonthNumber(d) + (a + b)
        /\ f.day = IF d.day <= DaysInMonth(f.year, f.month) THEN d.day ELSE DaysInMonth(f.year, f.month)
    BY MonthsAdded
  <1> HIDE DEF c, e, f
  <1>4. MonthNumber(e) = MonthNumber(f)
    <2>1. MonthNumber(d) \in Int
      BY DateTyped
    <2> QED
      BY <1>1, <1>2, <1>3, <2>1
  <1>5. e.year = f.year /\ e.month = f.month
    BY <1>2, <1>3, <1>4, SameMonth
  <1>6. e = f
    BY <1>1, <1>2, <1>3, <1>4, <1>5, SameDate
  <1> QED
    BY <1>6 DEF c, e, f

LEMMA NoMonthsAdded ==
    ASSUME NEW d, IsDate(d)
    PROVE  AddMonths(d, 0) = d
  <1> DEFINE e == AddMonths(d, 0)
  <1>1. /\ IsDate(e) /\ MonthNumber(e) = MonthNumber(d) + 0
        /\ e.day = IF d.day <= DaysInMonth(e.year, e.month) THEN d.day ELSE DaysInMonth(e.year, e.month)
    BY MonthsAdded
  <1> HIDE DEF e
  <1>2. MonthNumber(e) = MonthNumber(d)
    BY <1>1, DateTyped
  <1>3. e.year = d.year /\ e.month = d.month
    BY <1>1, <1>2, DateTyped DEF MonthNumber
  <1>4. e.day = d.day
    BY <1>1, <1>3, DateTyped
  <1> QED
    BY <1>1, <1>2, <1>4, SameDate DEF e

(* The first of a month is the first of every other. *)
LEMMA FirstsOfMonths ==
    ASSUME NEW d, IsDate(d), d.day = 1, NEW a \in Int
    PROVE  AddMonths(d, a).day = 1
  <1> DEFINE e == AddMonths(d, a)
  <1>1. IsDate(e) /\ e.day = IF d.day <= DaysInMonth(e.year, e.month) THEN d.day
                             ELSE DaysInMonth(e.year, e.month)
    BY MonthsAdded
  <1> HIDE DEF e
  <1>2. e.day = 1
    BY <1>1, DateTyped
  <1> QED
    BY <1>2 DEF e

-----------------------------------------------------------------------------
(* Fiscal years and quarters *)

(* The day the fiscal year starts on is one that the first month of every fiscal quarter
   has in every year. *)
TurnsAlike(policy) ==
    \A m \in 1..12 : m % 3 = policy.month % 3 => ValidFiscalStart(m, policy.day)

Anchored(d, policy) == IsDate(d) /\ d.day = policy.day /\ d.month % 3 = policy.month % 3

(* No month is shorter than it is in a common year. *)
LEMMA ShortestMonths ==
    ASSUME NEW y \in Int, NEW m \in 1..12, NEW n \in Int, n <= Lengths(2025)[m]
    PROVE  n <= DaysInMonth(y, m)
  <1>1. ~Leap(2025)
    BY DEF Leap
  <1>2. CASE m = 2
    <2>1. Lengths(2025)[2] = 28
      BY <1>1 DEF Lengths
    <2> QED
      BY <1>2, <2>1, DaysInMonthIs
  <1>3. CASE m # 2
    <2>1. Lengths(2025)[m] = DaysInMonth(y, m)
      BY <1>3 DEF Lengths, DaysInMonth
    <2> QED
      BY <2>1
  <1> QED
    BY <1>2, <1>3

LEMMA QuarterDay ==
    ASSUME NEW policy \in Policy, TurnsAlike(policy), NEW y \in Int, NEW m \in 1..12,
           m % 3 = policy.month % 3
    PROVE  policy.day \in Int /\ 1 <= policy.day /\ policy.day <= DaysInMonth(y, m)
  <1>1. policy.day \in Int /\ 1 <= policy.day
    BY DEF Policy
  <1>2. policy.day <= Lengths(2025)[m]
    BY DEF TurnsAlike, ValidFiscalStart
  <1> QED
    BY <1>1, <1>2, ShortestMonths

LEMMA QuartersAdded ==
    ASSUME NEW policy \in Policy, TurnsAlike(policy), NEW d, Anchored(d, policy), NEW k \in Int,
           k % 3 = 0
    PROVE  LET e == AddMonths(d, k)
           IN  Anchored(e, policy) /\ MonthNumber(e) = MonthNumber(d) + k /\ e.day = d.day
  <1> DEFINE e == AddMonths(d, k)
  <1>0. IsDate(d) /\ d.day = policy.day /\ d.month % 3 = policy.month % 3
    BY DEF Anchored
  <1>1. /\ IsDate(e) /\ MonthNumber(e) = MonthNumber(d) + k
        /\ e.day = IF d.day <= DaysInMonth(e.year, e.month) THEN d.day ELSE DaysInMonth(e.year, e.month)
    BY <1>0, MonthsAdded
  <1> HIDE DEF e
  <1>2. /\ e.year \in Int /\ e.month \in 1..12 /\ d.year \in Int /\ d.month \in 1..12
        /\ policy.month \in Int
    BY <1>0, <1>1, DateTyped DEF Policy
  <1>3. e.month % 3 = d.month % 3
    <2>1. 12 * e.year + e.month - 1 = 12 * d.year + d.month - 1 + k
      BY <1>1 DEF MonthNumber
    <2>2. e.year \in Int /\ e.month \in Int /\ d.year \in Int /\ d.month \in Int
      BY <1>2
    <2>3. k = 3 * (k \div 3) /\ k \div 3 \in Int
      OBVIOUS
    <2> DEFINE t == 4 * d.year - 4 * e.year + (k \div 3)
    <2>4. t \in Int /\ e.month = d.month + 3 * t
      BY <2>1, <2>2, <2>3
    <2> HIDE DEF t
    <2> QED
      BY <2>2, <2>4
  <1>4. policy.day <= DaysInMonth(e.year, e.month)
    BY <1>0, <1>2, <1>3, QuarterDay
  <1> QED
    BY <1>0, <1>1, <1>3, <1>4 DEF Anchored, e

(* The fiscal year of a date. *)
LEMMA FiscalYearHolds ==
    ASSUME NEW policy \in Policy, TurnsAlike(policy), NEW d, IsDate(d)
    PROVE  LET s == FiscalYearStart(d, policy)
           IN  /\ Anchored(s, policy) /\ s.month = policy.month
               /\ d.year - 1 <= s.year /\ s.year <= d.year
               /\ Ordinal(s) <= Ordinal(d) /\ Ordinal(d) < Ordinal(AddMonths(s, 12))
  <1> DEFINE c == Date(d.year, policy.month, policy.day)
             s == FiscalYearStart(d, policy)
  <1>1. d.year \in Int /\ d.month \in 1..12 /\ d.day \in Int /\ policy.month \in 1..12 /\ Ordinal(d) \in Int
    BY DateTyped DEF Policy
  <1>2. c.year = d.year /\ c.month = policy.month /\ c.day = policy.day
    BY DateParts
  <1>3. Anchored(c, policy)
    <2>1. policy.day \in Int /\ 1 <= policy.day /\ policy.day <= DaysInMonth(d.year, policy.month)
      BY <1>1, QuarterDay
    <2>2. DaysInMonth(d.year, policy.month) \in Nat
      BY <1>1, MonthSizes
    <2> QED
      BY <1>1, <1>2, <2>1, <2>2 DEF Anchored, IsDate
  <1>4. s = IF Ordinal(d) < Ordinal(c) THEN AddMonths(c, -12) ELSE c
    BY DEF FiscalYearStart
  <1> HIDE DEF c, s
  <1>5. -12 \in Int /\ (-12) % 3 = 0 /\ 12 % 3 = 0
    OBVIOUS
  <1>6. IsDate(c) /\ Ordinal(c) \in Int /\ MonthNumber(c) \in Int
    BY <1>3, DateTyped DEF Anchored
  <1>7. CASE Ordinal(d) < Ordinal(c)
    <2>1. Anchored(s, policy) /\ MonthNumber(s) = MonthNumber(c) - 12 /\ s.day = c.day
      BY <1>3, <1>4, <1>5, <1>6, <1>7, QuartersAdded
    <2>2. IsDate(s) /\ s.year \in Int /\ s.month \in 1..12
      BY <2>1, DateTyped DEF Anchored
    <2>3. s.year = d.year - 1 /\ s.month = policy.month
      <3>1. MonthNumber(s) = MonthNumber(c) + 12 * (-1)
        BY <1>6, <2>1
      <3>2. s.year = c.year + (-1) /\ s.month = c.month
        BY <1>6, <2>2, <3>1, YearsAdded, SMTT(60)
      <3> QED
        BY <1>1, <1>2, <3>2
    <2>4. MonthNumber(s) < MonthNumber(d)
      BY <1>1, <2>2, <2>3 DEF MonthNumber
    <2>5. Ordinal(s) <= Ordinal(d)
      BY <2>2, <2>4, DateOrder
    <2>6. AddMonths(s, 12) = c
      <3>1. AddMonths(AddMonths(c, -12), 12) = AddMonths(c, (-12) + 12) /\ AddMonths(c, 0) = c
        BY <1>4, <1>6, <1>7, <2>1, MonthsCompose, NoMonthsAdded
      <3> QED
        BY <1>4, <1>7, <3>1
    <2> QED
      BY <1>1, <1>7, <2>1, <2>3, <2>5, <2>6 DEF s
  <1>8. CASE ~(Ordinal(d) < Ordinal(c))
    <2>1. s = c
      BY <1>4, <1>8
    <2>2. Anchored(AddMonths(c, 12), policy) /\ MonthNumber(AddMonths(c, 12)) = MonthNumber(c) + 12
      BY <1>3, <1>5, QuartersAdded
    <2>3. MonthNumber(d) < MonthNumber(AddMonths(c, 12))
      BY <1>1, <1>2, <2>2 DEF MonthNumber
    <2>4. Ordinal(d) < Ordinal(AddMonths(c, 12))
      BY <2>2, <2>3, DateOrder DEF Anchored
    <2> QED
      BY <1>1, <1>2, <1>3, <1>6, <1>8, <2>1, <2>4 DEF s
  <1> QED
    BY <1>7, <1>8

(* The fiscal quarter of a date is one of the four of its fiscal year. *)
LEMMA FiscalQuarterHolds ==
    ASSUME NEW policy \in Policy, TurnsAlike(policy), NEW d, IsDate(d)
    PROVE  LET s == FiscalYearStart(d, policy)
           IN  \E i \in 0..3 : /\ FiscalQuarterStart(d, policy) = AddMonths(s, 3 * i)
                               /\ Ordinal(AddMonths(s, 3 * i)) <= Ordinal(d)
                               /\ Ordinal(d) < Ordinal(AddMonths(s, 3 * (i + 1)))
  <1> DEFINE s == FiscalYearStart(d, policy)
             turned == (d.year - s.year) * 12 + d.month - s.month
             months == IF d.day < s.day THEN turned - 1 ELSE turned
             i == months \div 3
             e == AddMonths(s, 3 * i)
             f == AddMonths(s, 3 * (i + 1))
             g == AddMonths(s, 12)
  <1>1. FiscalQuarterStart(d, policy) = e
    BY DEF FiscalQuarterStart
  <1>2. Anchored(s, policy) /\ Ordinal(s) <= Ordinal(d) /\ Ordinal(d) < Ordinal(g)
    BY FiscalYearHolds
  <1> HIDE DEF s
  <1>3. IsDate(s) /\ MonthNumber(s) \in Int /\ s.year \in Int /\ s.month \in Int /\ s.day \in Int
    BY <1>2, DateTyped DEF Anchored
  <1>4. d.year \in Int /\ d.month \in Int /\ d.day \in Int /\ MonthNumber(d) \in Int
    BY DateTyped
  <1>5. turned = MonthNumber(d) - MonthNumber(s)
    BY <1>3, <1>4 DEF MonthNumber
  <1>6. turned \in Int /\ months \in Int /\ (d.day < s.day => months = turned - 1)
        /\ (~(d.day < s.day) => months = turned)
    BY <1>3, <1>4
  <1>7. IsDate(g) /\ MonthNumber(g) = MonthNumber(s) + 12 /\ g.day = s.day
    <2>1. 12 \in Int /\ 12 % 3 = 0
      OBVIOUS
    <2> QED
      BY <1>2, <2>1, QuartersAdded DEF Anchored
  <1> HIDE DEF turned, g
  <1>8. 0 <= months /\ months <= 11
    <2>1. MonthNumber(s) < MonthNumber(d) \/ (MonthNumber(s) = MonthNumber(d) /\ s.day <= d.day)
      BY <1>2, <1>3, NotLater
    <2>2. MonthNumber(d) < MonthNumber(g) \/ (MonthNumber(d) = MonthNumber(g) /\ d.day < g.day)
      BY <1>2, <1>7, Sooner
    <2> QED
      BY <1>3, <1>4, <1>5, <1>6, <1>7, <2>1, <2>2
  <1> HIDE DEF months
  <1>9. i \in 0..3 /\ i \in Int /\ 3 * i <= months /\ months < 3 * (i + 1)
    BY <1>6, <1>8
  <1> HIDE DEF i
  <1>10. /\ IsDate(e) /\ MonthNumber(e) = MonthNumber(s) + 3 * i /\ e.day = s.day
         /\ IsDate(f) /\ MonthNumber(f) = MonthNumber(s) + 3 * (i + 1) /\ f.day = s.day
    <2>1. 3 * i \in Int /\ (3 * i) % 3 = 0 /\ 3 * (i + 1) \in Int /\ (3 * (i + 1)) % 3 = 0
      BY <1>9
    <2> QED
      BY <1>2, <2>1, QuartersAdded, SMTT(60) DEF Anchored
  <1> HIDE DEF e, f
  <1>11. Ordinal(e) <= Ordinal(d)
    <2>1. MonthNumber(e) <= MonthNumber(s) + months
      BY <1>3, <1>6, <1>9, <1>10
    <2>2. CASE d.day < s.day
      <3>1. MonthNumber(e) < MonthNumber(d)
        BY <1>3, <1>4, <1>5, <1>6, <1>10, <2>1, <2>2, DateTyped
      <3> QED
        BY <1>10, <3>1, DateOrder
    <2>3. CASE ~(d.day < s.day)
      <3>1. MonthNumber(e) <= MonthNumber(d) /\ MonthNumber(e) \in Int
        BY <1>3, <1>4, <1>5, <1>6, <1>10, <2>1, <2>3, DateTyped
      <3>2. e.day <= d.day
        BY <1>3, <1>4, <1>10, <2>3
      <3> QED
        BY <1>4, <1>10, <3>1, <3>2, DateOrder
    <2> QED
      BY <2>2, <2>3
  <1>12. Ordinal(d) < Ordinal(f)
    <2>1. MonthNumber(s) + months + 1 <= MonthNumber(f) /\ MonthNumber(f) \in Int
      BY <1>3, <1>6, <1>9, <1>10, DateTyped
    <2>2. CASE d.day < s.day
      <3>1. MonthNumber(d) <= MonthNumber(f)
        BY <1>3, <1>4, <1>5, <1>6, <2>1, <2>2
      <3>2. d.day < f.day
        BY <1>10, <2>2
      <3> QED
        BY <1>4, <1>10, <2>1, <3>1, <3>2, DateOrder
    <2>3. CASE ~(d.day < s.day)
      <3>1. MonthNumber(d) < MonthNumber(f)
        BY <1>3, <1>4, <1>5, <1>6, <2>1, <2>3
      <3> QED
        BY <1>10, <3>1, DateOrder
    <2> QED
      BY <2>2, <2>3
  <1> QED
    BY <1>1, <1>9, <1>11, <1>12 DEF e, f, s

(* The fiscal year is the one its label names. *)
LEMMA LabelNames ==
    ASSUME NEW policy \in Policy, TurnsAlike(policy), NEW s, Anchored(s, policy), s.month = policy.month
    PROVE  NamedFiscalYearStart(FiscalLabel(s, policy), policy) = s
  <1> DEFINE e == AddMonths(s, 12)
  <1>1. IsDate(s) /\ s.day = policy.day /\ s.year \in Int /\ s.month \in Int
    BY DateTyped DEF Anchored
  <1>2. Anchored(e, policy) /\ MonthNumber(e) = MonthNumber(s) + 12 /\ e.day = s.day
    <2>1. 12 \in Int /\ 12 % 3 = 0
      OBVIOUS
    <2> QED
      BY <2>1, QuartersAdded
  <1>3. IsDate(e) /\ e.year \in Int /\ e.month \in 1..12 /\ s.month \in 1..12
    BY <1>1, <1>2, DateTyped DEF Anchored
  <1>4. FiscalLabel(s, policy) = IF policy.label = "START_YEAR" \/ (e.month = 1 /\ e.day = 1)
                                 THEN s.year ELSE e.year
    BY DEF FiscalLabel
  <1> HIDE DEF e
  <1>5. e.year = s.year + 1 /\ e.month = s.month
    <2>1. MonthNumber(e) = MonthNumber(s) + 12 * 1
      BY <1>2
    <2>2. \A k \in Int : MonthNumber(e) = MonthNumber(s) + 12 * k =>
             e.year = s.year + k /\ e.month = s.month
      BY <1>1, <1>3, YearsAdded, Zenon
    <2>3. 1 \in Int
      OBVIOUS
    <2> QED
      BY <2>1, <2>2, <2>3, Zenon
  <1>6. s = Date(s.year, policy.month, policy.day)
    BY <1>1 DEF IsDate
  <1>7. CASE policy.label = "START_YEAR"
    BY <1>4, <1>6, <1>7 DEF NamedFiscalYearStart
  <1>8. CASE policy.label # "START_YEAR" /\ e.month = 1 /\ e.day = 1
    <2>1. FiscalYearIsCalendar(policy)
      BY <1>1, <1>2, <1>5, <1>8 DEF FiscalYearIsCalendar
    <2> QED
      BY <1>4, <1>6, <1>8, <2>1 DEF NamedFiscalYearStart
  <1>9. CASE policy.label # "START_YEAR" /\ ~(e.month = 1 /\ e.day = 1)
    <2>1. ~FiscalYearIsCalendar(policy)
      BY <1>1, <1>2, <1>5, <1>9 DEF FiscalYearIsCalendar
    <2>2. FiscalLabel(s, policy) - 1 = s.year
      BY <1>1, <1>4, <1>5, <1>9
    <2> QED
      BY <1>6, <1>9, <2>1, <2>2 DEF NamedFiscalYearStart
  <1> QED
    BY <1>7, <1>8, <1>9

-----------------------------------------------------------------------------
(* Instants *)

(* Well inside the calendar: some months from both ends of it. *)
Inside(d, n) == IsDate(d) /\ 12 + n <= MonthNumber(d) /\ MonthNumber(d) + n <= 12 * LastYear + 11

Numbered(n) == n \in Int /\ 1 <= n /\ n <= LastDay

LEMMA LastDayIs ==
    /\ LastDay = FirstDay(LastYear + 1) - 1 /\ LastDay \in Int /\ LastYear \in Nat
    /\ FirstDay(LastYear + 1) \in Int
  <1>1. LastYear \in Int /\ LastYear \in Nat /\ 12 \in 1..12 /\ 31 \in Int
    BY LastYearIs
  <1>2. LastDay = FirstDay(LastYear) + MonthsBefore(LastYear, 12) + 31 - 1
    BY <1>1, OrdinalIs DEF LastDay
  <1>3. FirstDay(LastYear) \in Int /\ FirstDay(LastYear + 1) = FirstDay(LastYear) + YearLength(LastYear)
    BY <1>1, YearsFollow
  <1>4. MonthsBefore(LastYear, 12) + 31 = YearLength(LastYear) /\ MonthsBefore(LastYear, 12) \in Int
    BY BeforeIs DEF MonthsBefore, YearLength
  <1>5. LastYear + 1 \in Int
    BY <1>1
  <1>6. FirstDay(LastYear + 1) \in Int
    BY <1>5, YearsFollow
  <1> QED
    BY <1>1, <1>2, <1>3, <1>4, <1>6

LEMMA NumberedDate ==
    ASSUME NEW n, Numbered(n)
    PROVE  Ordinal(DateOf(n)) = n /\ IsDate(DateOf(n))
  <1>1. n \in Int /\ 1 <= n /\ n < FirstDay(LastYear + 1)
    BY LastDayIs DEF Numbered
  <1> QED
    BY <1>1, OrdinalOfDate

LEMMA InsideIsNumbered ==
    ASSUME NEW d, Inside(d, 0)
    PROVE  Numbered(Ordinal(d))
  <1>1. IsDate(d) /\ d.year \in Int /\ d.month \in 1..12 /\ Ordinal(d) \in Int /\ d.day \in Int
        /\ Ordinal(d) = FirstDay(d.year) + MonthsBefore(d.year, d.month) + d.day - 1 /\ 1 <= d.day
    BY DateTyped DEF Inside
  <1>2. 1 <= d.year /\ d.year <= LastYear /\ LastYear \in Int
    BY <1>1, LastYearIs DEF Inside, MonthNumber
  <1>3. FirstDay(1) = 1 /\ FirstDay(d.year) \in Int /\ MonthsBefore(d.year, d.month) \in Nat
    <2>1. FirstDay(1) = 1
      BY DEF FirstDay
    <2> QED
      BY <1>1, <2>1, YearsFollow, MonthSizes
  <1>4. 1 <= FirstDay(d.year)
    <2>1. CASE d.year = 1
      BY <1>3, <2>1
    <2>2. CASE d.year # 1
      BY <1>1, <1>2, <1>3, <2>2 DEF FirstDay
    <2> QED
      BY <2>1, <2>2
  <1>5. Ordinal(d) <= LastDay
    <2> DEFINE l == Date(LastYear, 12, 31)
    <2>1. l.year = LastYear /\ l.month = 12 /\ l.day = 31
      BY DateParts
    <2>2. IsDate(l)
      <3>1. DaysInMonth(LastYear, 12) = 31
        BY DaysInMonthIs
      <3> QED
        BY <1>2, <2>1, <3>1 DEF IsDate
    <2>3. MonthNumber(l) = 12 * LastYear + 11
      BY <1>2, <2>1 DEF MonthNumber
    <2> HIDE DEF l
    <2>4. MonthNumber(d) <= MonthNumber(l) /\ MonthNumber(d) \in Int /\ MonthNumber(l) \in Int
      BY <1>1, <1>2, <2>2, <2>3, DateTyped DEF Inside
    <2>5. CASE MonthNumber(d) < MonthNumber(l)
      BY <1>1, <2>2, <2>5, LaterMonth, DateTyped DEF LastDay, l
    <2>6. CASE MonthNumber(d) = MonthNumber(l)
      <3>1. d.day <= 31
        <4>1. d.day <= DaysInMonth(d.year, d.month) /\ DaysInMonth(d.year, d.month) \in Nat
          BY <1>1, DateTyped
        <4>2. DaysInMonth(d.year, d.month) <= 31
          BY <1>1, MonthSizes
        <4> QED
          BY <1>1, <4>1, <4>2
      <3> QED
        BY <1>1, <2>1, <2>2, <2>6, <3>1, DateOrder DEF LastDay, l
    <2> QED
      BY <2>4, <2>5, <2>6
  <1> QED
    BY <1>1, <1>3, <1>4, <1>5 DEF Numbered

LEMMA MonthsInside ==
    ASSUME NEW n \in Int, NEW d, Inside(d, n), NEW k \in Int, NEW j \in Int, j <= n + k, j <= n - k
    PROVE  Inside(AddMonths(d, k), j)
  <1>1. IsDate(d) /\ MonthNumber(d) \in Int /\ LastYear \in Int
    BY DateTyped, LastYearIs DEF Inside
  <1>2. IsDate(AddMonths(d, k)) /\ MonthNumber(AddMonths(d, k)) = MonthNumber(d) + k
    BY <1>1, MonthsAdded
  <1> QED
    BY <1>1, <1>2 DEF Inside

(* The day of an instant, and the instant a day begins. *)
LEMMA DayOfInstant ==
    ASSUME NEW policy, policy.offset \in Int, NEW t \in Int,
           Numbered((t + policy.offset) \div 24)
    PROVE  /\ LocalDate(t, policy) = DateOf((t + policy.offset) \div 24)
           /\ IsDate(LocalDate(t, policy))
           /\ Ordinal(LocalDate(t, policy)) = (t + policy.offset) \div 24
  BY NumberedDate DEF LocalDate

LEMMA InstantOfDay ==
    ASSUME NEW policy, policy.offset \in Int, NEW d, IsDate(d)
    PROVE  /\ InstantAt(d, policy) \in Int
           /\ (InstantAt(d, policy) + policy.offset) \div 24 = Ordinal(d)
  <1>1. Ordinal(d) \in Int
    BY DateTyped
  <1>2. InstantAt(d, policy) = 24 * Ordinal(d) - policy.offset
    BY DEF InstantAt
  <1> QED
    BY <1>1, <1>2

(* The same moment a year before is 365 or 366 days before. *)
LEMMA ShiftedYear ==
    ASSUME NEW policy, policy.offset \in Int, NEW t \in Int,
           Numbered((t + policy.offset) \div 24)
    PROVE  ShiftYears(t, -1, policy) \in {t - 24 * 365, t - 24 * 366}
  <1> DEFINE q == (t + policy.offset) \div 24
             d == LocalDate(t, policy)
             e == AddMonths(d, -12)
  <1>1. IsDate(d) /\ Ordinal(d) = q
    BY DayOfInstant
  <1>2. ShiftYears(t, -1, policy) = InstantAt(e, policy) + ((t + policy.offset) % 24)
    <2>1. 12 * (-1) = -12
      OBVIOUS
    <2> QED
      BY <2>1 DEF ShiftYears
  <1> HIDE DEF d
  <1>3. Ordinal(d) - Ordinal(e) \in {365, 366} /\ Ordinal(e) \in Int
    <2>1. IsDate(e)
      BY <1>1, MonthsAdded
    <2> HIDE DEF e
    <2>2. Ordinal(e) \in Int
      BY <2>1, DateTyped
    <2> QED
      BY <1>1, <2>2, YearEarlier DEF e
  <1> HIDE DEF e
  <1>4. InstantAt(e, policy) = 24 * Ordinal(e) - policy.offset
    BY DEF InstantAt
  <1>5. q \in Int /\ 24 * q + ((t + policy.offset) % 24) = t + policy.offset
    OBVIOUS
  <1> HIDE DEF q
  <1> QED
    BY <1>1, <1>2, <1>3, <1>4, <1>5

-----------------------------------------------------------------------------
(* The period an intent names *)

(* A moment that is some twenty years from either end of the calendar. *)
Amid(moment) == moment \in Int /\ 24 * 8000 <= moment /\ moment <= 24 * (LastDay - 8000)

(* A date is within a year of the first day of its own. *)
LEMMA DayOfItsYear ==
    ASSUME NEW d, IsDate(d)
    PROVE  /\ d.year \in Int /\ FirstDay(d.year) \in Int /\ Ordinal(d) \in Int
           /\ FirstDay(d.year) <= Ordinal(d) /\ Ordinal(d) <= FirstDay(d.year) + 366
  <1>1. /\ d.year \in Int /\ d.month \in 1..12 /\ Ordinal(d) \in Int /\ d.day \in Int /\ 1 <= d.day
        /\ d.day <= DaysInMonth(d.year, d.month) /\ DaysInMonth(d.year, d.month) \in Nat
        /\ Ordinal(d) = FirstDay(d.year) + MonthsBefore(d.year, d.month) + d.day - 1
    BY DateTyped
  <1>2. d.day <= 31
    <2>1. DaysInMonth(d.year, d.month) <= 31
      BY <1>1, MonthSizes
    <2> QED
      BY <1>1, <2>1
  <1>3. MonthsBefore(d.year, d.month) \in Nat /\ MonthsBefore(d.year, d.month) <= 335
    BY <1>1, BeforeIs DEF MonthsBefore
  <1>4. FirstDay(d.year) \in Int
    BY <1>1, YearsFollow
  <1> QED
    BY <1>1, <1>2, <1>3, <1>4

(* The moments of the years 1900 to 2999 are amid the calendar. *)
LEMMA YearsAreAmid ==
    ASSUME NEW d, IsDate(d), 1900 <= d.year, d.year <= 2999, NEW h \in 0..23
    PROVE  Amid(24 * Ordinal(d) + h)
  <1>1. /\ d.year \in Int /\ FirstDay(d.year) \in Int /\ Ordinal(d) \in Int
        /\ FirstDay(d.year) <= Ordinal(d) /\ Ordinal(d) <= FirstDay(d.year) + 366
    BY DayOfItsYear
  <1>2. 9000 <= FirstDay(d.year) /\ FirstDay(d.year) <= 1100000
    BY <1>1 DEF FirstDay
  <1>3. LastDay \in Int /\ 1200000 <= LastDay
    <2>1. LastYear \in Int /\ 9000 <= LastYear
      BY DEF LastYear
    <2>2. 1200001 <= FirstDay(LastYear + 1)
      BY <2>1 DEF FirstDay
    <2> QED
      BY <2>2, LastDayIs
  <1> QED
    BY <1>1, <1>2, <1>3 DEF Amid

LEMMA TodayIsInside ==
    ASSUME NEW policy \in Policy, NEW moment, Amid(moment)
    PROVE  LET today == LocalDate(moment, policy)
           IN  /\ Inside(today, 180)
               /\ Ordinal(today) = (moment + policy.offset) \div 24
               /\ 7000 <= Ordinal(today) /\ Ordinal(today) <= LastDay - 7000
  <1> DEFINE q == (moment + policy.offset) \div 24
             d == LocalDate(moment, policy)
  <1>1. moment \in Int /\ LastDay \in Int /\ LastYear \in Int /\ LastDay = FirstDay(LastYear + 1) - 1
        /\ FirstDay(LastYear + 1) \in Int
    BY LastDayIs DEF Amid
  <1>2. policy.offset \in -12..14 /\ policy.offset \in Int
    BY DEF Policy
  <1>3. q \in Int /\ 7000 <= q /\ q <= LastDay - 7000
    <2>1. 24 * 8000 <= moment /\ moment <= 24 * (LastDay - 8000)
      BY DEF Amid
    <2> QED
      BY <1>1, <1>2, <2>1
  <1> HIDE DEF q
  <1>4. Numbered(q)
    BY <1>1, <1>3 DEF Numbered
  <1>5. IsDate(d) /\ Ordinal(d) = q
    BY <1>1, <1>2, <1>4, DayOfInstant DEF q
  <1> HIDE DEF d
  <1>6. /\ d.year \in Int /\ d.month \in 1..12 /\ MonthNumber(d) = 12 * d.year + d.month - 1
        /\ MonthNumber(d) \in Int
    BY <1>5, DateTyped DEF MonthNumber
  <1>7. FirstDay(d.year) <= q /\ q < FirstDay(d.year + 1)
        /\ FirstDay(d.year) \in Int /\ FirstDay(d.year + 1) \in Int
    <2>1. /\ q = FirstDay(d.year) + MonthsBefore(d.year, d.month) + d.day - 1
          /\ d.day \in Int /\ 1 <= d.day /\ d.day <= DaysInMonth(d.year, d.month)
      BY <1>5, DateTyped
    <2>2. /\ FirstDay(d.year) \in Int /\ YearLength(d.year) \in Int
          /\ FirstDay(d.year + 1) = FirstDay(d.year) + YearLength(d.year)
      BY <1>6, YearsFollow DEF YearLength
    <2>3. /\ MonthsBefore(d.year, d.month) \in Nat /\ DaysInMonth(d.year, d.month) \in Nat
          /\ MonthsBefore(d.year, d.month) + DaysInMonth(d.year, d.month) <= YearLength(d.year)
      <3> DEFINE y == d.year
                 m == d.month
      <3>1. y \in Int /\ m \in 1..12
        BY <1>6
      <3> HIDE DEF y, m
      <3>2. MonthsBefore(y, m) + DaysInMonth(y, m) <= YearLength(y)
        BY <3>1, BeforeIs, DaysInMonthIs DEF MonthsBefore, YearLength
      <3> QED
        BY <3>1, <3>2, MonthSizes DEF y, m
    <2> QED
      BY <2>1, <2>2, <2>3
  <1>8. 16 <= d.year
    <2>1. SUFFICES ASSUME d.year + 1 <= 16
                   PROVE  FALSE
      BY <1>6
    <2>2. FirstDay(d.year + 1) <= FirstDay(16) /\ FirstDay(16) = 5479
      BY <1>6, <2>1 DEF FirstDay
    <2> QED
      BY <1>3, <1>7, <2>2
  <1>9. d.year <= LastYear - 16
    <2>1. SUFFICES ASSUME LastYear - 15 <= d.year
                   PROVE  FALSE
      BY <1>1, <1>6
    <2>2. FirstDay(LastYear - 15) <= FirstDay(d.year)
      BY <1>1, <1>6, <2>1, SMTT(60) DEF FirstDay
    <2>3. FirstDay(LastYear + 1) - FirstDay(LastYear - 15) < 7000 /\ FirstDay(LastYear - 15) \in Int
      BY <1>1 DEF FirstDay
    <2> QED
      BY <1>1, <1>3, <1>7, <2>2, <2>3
  <1>10. Inside(d, 180)
    BY <1>1, <1>5, <1>6, <1>8, <1>9 DEF Inside
  <1> QED
    BY <1>3, <1>5, <1>10 DEF d, q

(* A date of a year inside the calendar is inside it. *)
LEMMA YearInside ==
    ASSUME NEW d, IsDate(d), NEW n \in Int, 12 * d.year >= 12 + n, 12 * d.year + n <= 12 * LastYear
    PROVE  Inside(d, n)
  <1>1. d.year \in Int /\ d.month \in 1..12 /\ LastYear \in Int
    BY DateTyped, LastYearIs
  <1> QED
    BY <1>1 DEF Inside, MonthNumber

(* The dates periods are counted from, in every year and month. *)
LEMMA FirstIsDate ==
    ASSUME NEW y \in Int, NEW m \in 1..12
    PROVE  IsDate(Date(y, m, 1))
  <1>1. DaysInMonth(y, m) \in Nat /\ 28 <= DaysInMonth(y, m)
    BY MonthSizes
  <1>2. 1 \in 1..DaysInMonth(y, m)
    BY <1>1
  <1> QED
    BY <1>2, DateParts DEF IsDate

LEMMA StartIsDate ==
    ASSUME NEW policy \in Policy, ValidFiscalStart(policy.month, policy.day), NEW y \in Int
    PROVE  IsDate(Date(y, policy.month, policy.day))
  <1>1. policy.month \in 1..12 /\ policy.day \in Int /\ 1 <= policy.day
    BY DEF Policy
  <1>2. policy.day <= Lengths(2025)[policy.month]
    BY DEF ValidFiscalStart
  <1>3. policy.day <= DaysInMonth(y, policy.month)
    BY <1>1, <1>2, ShortestMonths
  <1>4. DaysInMonth(y, policy.month) \in Nat
    BY <1>1, MonthSizes
  <1>5. policy.day \in 1..DaysInMonth(y, policy.month)
    BY <1>1, <1>3, <1>4
  <1> QED
    BY <1>1, <1>5, DateParts DEF IsDate

LEMMA TodaysMonth ==
    ASSUME NEW d, Inside(d, 180), NEW m \in 1..12, NEW day, IsDate(Date(d.year, m, day))
    PROVE  Inside(Date(d.year, m, day), 160)
  <1> DEFINE e == Date(d.year, m, day)
  <1>1. e.year = d.year /\ e.month = m
    BY DateParts
  <1> HIDE DEF e
  <1>2. d.year \in Int /\ d.month \in 1..12 /\ LastYear \in Int
    BY DateTyped, LastYearIs DEF Inside
  <1>3. Inside(e, 160)
    BY <1>1, <1>2 DEF Inside, MonthNumber, e
  <1> QED
    BY <1>3 DEF e

LEMMA FiscalYearInside ==
    ASSUME NEW policy \in Policy, ValidFiscalStart(policy.month, policy.day), NEW d, Inside(d, 180)
    PROVE  /\ Inside(FiscalYearStart(d, policy), 148)
           /\ d.year - 1 <= FiscalYearStart(d, policy).year /\ FiscalYearStart(d, policy).year <= d.year
  <1> DEFINE c == Date(d.year, policy.month, policy.day)
             s == FiscalYearStart(d, policy)
  <1>1. policy.month \in 1..12 /\ d.year \in Int
    BY DateTyped DEF Policy, Inside
  <1>2. IsDate(c)
    BY <1>1, StartIsDate
  <1>3. Inside(c, 160) /\ c.year = d.year
    BY <1>1, <1>2, TodaysMonth, DateParts
  <1>4. s = IF Ordinal(d) < Ordinal(c) THEN AddMonths(c, -12) ELSE c
    BY DEF FiscalYearStart
  <1> HIDE DEF c, s
  <1>5. Inside(AddMonths(c, -12), 148)
    BY <1>3, MonthsInside
  <1>6. Inside(c, 148)
    BY <1>2, <1>3, DateTyped, LastYearIs DEF Inside
  <1>7. AddMonths(c, -12).year = d.year - 1
    <2>1. IsDate(AddMonths(c, -12)) /\ MonthNumber(AddMonths(c, -12)) = MonthNumber(c) + 12 * (-1)
      <3>1. 12 * (-1) = -12 /\ -12 \in Int
        OBVIOUS
      <3> QED
        BY <1>2, <3>1, MonthsAdded
    <2>2. AddMonths(c, -12).year = c.year + (-1)
      BY <1>2, <2>1, YearsAdded
    <2> QED
      BY <1>1, <1>3, <2>2
  <1>8. Inside(s, 148) /\ d.year - 1 <= s.year /\ s.year <= d.year
    BY <1>1, <1>3, <1>4, <1>5, <1>6, <1>7
  <1> QED
    BY <1>8 DEF s

LEMMA FiscalQuarterInside ==
    ASSUME NEW policy \in Policy, ValidFiscalStart(policy.month, policy.day), NEW d, Inside(d, 180)
    PROVE  Inside(FiscalQuarterStart(d, policy), 100)
  <1> DEFINE s == FiscalYearStart(d, policy)
             turned == (d.year - s.year) * 12 + d.month - s.month
             months == IF d.day < s.day THEN turned - 1 ELSE turned
             k == 3 * (months \div 3)
  <1>1. FiscalQuarterStart(d, policy) = AddMonths(s, k)
    BY DEF FiscalQuarterStart
  <1>2. Inside(s, 148) /\ d.year - 1 <= s.year /\ s.year <= d.year
    BY FiscalYearInside
  <1> HIDE DEF s
  <1>3. d.year \in Int /\ d.month \in 1..12 /\ s.year \in Int /\ s.month \in 1..12
    BY <1>2, DateTyped DEF Inside
  <1>4. turned \in Int /\ -12 <= turned /\ turned <= 24
    BY <1>2, <1>3
  <1> HIDE DEF turned
  <1>5. months \in Int /\ -13 <= months /\ months <= 24
    BY <1>4
  <1> HIDE DEF months
  <1>6. k \in Int /\ 100 <= 148 + k /\ 100 <= 148 - k
    BY <1>5
  <1> HIDE DEF k
  <1> QED
    BY <1>1, <1>2, <1>6, MonthsInside

LEMMA NamedYearInside ==
    ASSUME NEW policy \in Policy, ValidFiscalStart(policy.month, policy.day),
           NEW label \in Int, 1900 <= label, label <= 2999
    PROVE  Inside(NamedFiscalYearStart(label, policy), 100)
  <1> DEFINE y == IF policy.label = "START_YEAR" \/ FiscalYearIsCalendar(policy) THEN label ELSE label - 1
             d == Date(y, policy.month, policy.day)
  <1>1. NamedFiscalYearStart(label, policy) = d
    BY DEF NamedFiscalYearStart
  <1>2. y \in Int /\ label - 1 <= y /\ y <= label
    OBVIOUS
  <1> HIDE DEF y
  <1>3. IsDate(d) /\ d.year = y
    BY <1>2, StartIsDate, DateParts
  <1> HIDE DEF d
  <1>4. 12 * y >= 12 + 100 /\ 12 * y + 100 <= 12 * LastYear
    BY <1>2 DEF LastYear
  <1> QED
    BY <1>1, <1>3, <1>4, YearInside

LEMMA NamedQuarterInside ==
    ASSUME NEW policy \in Policy, ValidFiscalStart(policy.month, policy.day), NEW intent,
           intent.year \in Int, 1900 <= intent.year, intent.year <= 2999, intent.quarter \in 1..4
    PROVE  Inside(NamedQuarterStart(intent, policy), 90)
  <1> DEFINE k == 3 * (intent.quarter - 1)
             d == Date(intent.year, k + 1, 1)
  <1>1. k \in Int /\ 0 <= k /\ k <= 9 /\ k + 1 \in 1..12
    OBVIOUS
  <1>2. CASE intent.fiscal
    <2>1. NamedQuarterStart(intent, policy) = AddMonths(NamedFiscalYearStart(intent.year, policy), k)
      BY <1>2 DEF NamedQuarterStart
    <2>2. Inside(NamedFiscalYearStart(intent.year, policy), 100)
      BY NamedYearInside
    <2> HIDE DEF k
    <2>3. 90 <= 100 + k /\ 90 <= 100 - k
      BY <1>1
    <2> QED
      BY <1>1, <2>1, <2>2, <2>3, MonthsInside
  <1>3. CASE ~intent.fiscal
    <2>1. NamedQuarterStart(intent, policy) = d
      BY <1>3 DEF NamedQuarterStart
    <2> HIDE DEF k
    <2>2. IsDate(d) /\ d.year = intent.year
      BY <1>1, FirstIsDate, DateParts, SMTT(30)
    <2> HIDE DEF d
    <2>3. 12 * intent.year >= 12 + 90 /\ 12 * intent.year + 90 <= 12 * LastYear
      BY DEF LastYear
    <2> QED
      BY <2>1, <2>2, <2>3, YearInside
  <1> QED
    BY <1>2, <1>3

(* The table of shapes. *)
LEMMA ShapesAre ==
    /\ DOMAIN Shapes =
          {"TODAY", "YESTERDAY", "WEEK_TO_DATE", "LAST_WEEK",
           "MONTH_TO_DATE", "LAST_MONTH", "QUARTER_TO_DATE", "LAST_QUARTER",
           "YEAR_TO_DATE", "LAST_YEAR", "FISCAL_YEAR_TO_DATE", "FISCAL_YEAR",
           "LAST_FISCAL_YEAR", "FISCAL_QUARTER_TO_DATE", "LAST_FISCAL_QUARTER", "NAMED_FISCAL_YEAR",
           "NAMED_QUARTER", "ROLLING"}
    /\ Shapes["TODAY"] = Shape("day", "DAY", 0, 1)
    /\ Shapes["YESTERDAY"] = Shape("day", "DAY", 1, 1)
    /\ Shapes["WEEK_TO_DATE"] = Shape("week", "DAY", 0, 0)
    /\ Shapes["LAST_WEEK"] = Shape("week", "DAY", 7, 7)
    /\ Shapes["MONTH_TO_DATE"] = Shape("month", "MONTH", 0, 0)
    /\ Shapes["LAST_MONTH"] = Shape("month", "MONTH", 1, 1)
    /\ Shapes["QUARTER_TO_DATE"] = Shape("quarter", "MONTH", 0, 0)
    /\ Shapes["LAST_QUARTER"] = Shape("quarter", "MONTH", 3, 3)
    /\ Shapes["YEAR_TO_DATE"] = Shape("year", "MONTH", 0, 0)
    /\ Shapes["LAST_YEAR"] = Shape("year", "MONTH", 12, 12)
    /\ Shapes["FISCAL_YEAR_TO_DATE"] = Shape("fiscal year", "MONTH", 0, 0)
    /\ Shapes["FISCAL_YEAR"] = Shape("fiscal year", "MONTH", 0, 12)
    /\ Shapes["LAST_FISCAL_YEAR"] = Shape("fiscal year", "MONTH", 12, 12)
    /\ Shapes["FISCAL_QUARTER_TO_DATE"] = Shape("fiscal quarter", "MONTH", 0, 0)
    /\ Shapes["LAST_FISCAL_QUARTER"] = Shape("fiscal quarter", "MONTH", 3, 3)
    /\ Shapes["NAMED_FISCAL_YEAR"] = Shape("named year", "MONTH", 0, 12)
    /\ Shapes["NAMED_QUARTER"] = Shape("named quarter", "MONTH", 0, 3)
    /\ Shapes["ROLLING"] = Shape("rolling", "MONTH", 0, 0)
  BY DEF Shapes

Counted == {"day", "week"}
Monthly == {"month", "quarter", "year", "fiscal year", "fiscal quarter", "named year", "named quarter"}

Titled(p, of) ==
    /\ of = "named year" => p = "NAMED_FISCAL_YEAR"
    /\ of = "named quarter" => p = "NAMED_QUARTER"

(* What a shape may be. *)
Fits(p, shape) ==
    /\ shape.back \in 0..12 /\ shape.length \in 0..12
    /\ \/ shape.unit = "DAY" /\ shape.of \in Counted
       \/ shape.unit = "MONTH" /\ shape.of \in Monthly
       \/ /\ shape.unit = "MONTH" /\ shape.of = "rolling" /\ p = "ROLLING"
          /\ shape.back = 0 /\ shape.length = 0
    /\ Titled(p, shape.of)

LEMMA ShapeParts ==
    ASSUME NEW of, NEW unit, NEW back, NEW length
    PROVE  LET shape == Shape(of, unit, back, length)
           IN  shape.of = of /\ shape.unit = unit /\ shape.back = back /\ shape.length = length
  BY DEF Shape

LEMMA DaysFit ==
    ASSUME NEW p, NEW of \in Counted, NEW back \in 0..12, NEW length \in 0..12
    PROVE  Fits(p, Shape(of, "DAY", back, length))
  <1> DEFINE shape == Shape(of, "DAY", back, length)
  <1>1. shape.of = of /\ shape.unit = "DAY" /\ shape.back = back /\ shape.length = length
    BY ShapeParts
  <1>2. of # "named year" /\ of # "named quarter"
    BY DEF Counted
  <1> HIDE DEF shape
  <1>3. shape.back \in 0..12 /\ shape.length \in 0..12 /\ shape.of \in Counted
    BY <1>1
  <1>4. Fits(p, shape)
    BY <1>1, <1>2, <1>3 DEF Fits, Titled
  <1> QED
    BY <1>4 DEF shape

LEMMA MonthsFit ==
    ASSUME NEW p, NEW of \in Monthly, NEW back \in 0..12, NEW length \in 0..12, Titled(p, of)
    PROVE  Fits(p, Shape(of, "MONTH", back, length))
  <1> DEFINE shape == Shape(of, "MONTH", back, length)
  <1>1. shape.of = of /\ shape.unit = "MONTH" /\ shape.back = back /\ shape.length = length
    BY ShapeParts
  <1> HIDE DEF shape
  <1>3. shape.back \in 0..12 /\ shape.length \in 0..12 /\ shape.of \in Monthly
    BY <1>1
  <1>4. Fits(p, shape)
    BY <1>1, <1>3 DEF Fits
  <1> QED
    BY <1>4 DEF shape

LEMMA ShapesFit ==
    ASSUME NEW p \in DOMAIN Shapes
    PROVE  Fits(p, Shapes[p])
  <1>0. \A of \in {"month", "quarter", "year", "fiscal year", "fiscal quarter"} :
           of \in Monthly /\ \A q : Titled(q, of)
    BY DEF Monthly, Titled
  <1>9. /\ "named year" \in Monthly /\ Titled("NAMED_FISCAL_YEAR", "named year")
        /\ "named quarter" \in Monthly /\ Titled("NAMED_QUARTER", "named quarter")
    BY DEF Monthly, Titled
  <1>10. 0 \in 0..12 /\ 1 \in 0..12 /\ 3 \in 0..12 /\ 12 \in 0..12
    OBVIOUS
  <1>1. /\ Fits("TODAY", Shape("day", "DAY", 0, 1))
        /\ Fits("YESTERDAY", Shape("day", "DAY", 1, 1))
    BY DaysFit DEF Counted
  <1>2. /\ Fits("WEEK_TO_DATE", Shape("week", "DAY", 0, 0))
        /\ Fits("LAST_WEEK", Shape("week", "DAY", 7, 7))
    BY DaysFit DEF Counted
  <1>3. /\ Fits("MONTH_TO_DATE", Shape("month", "MONTH", 0, 0))
        /\ Fits("LAST_MONTH", Shape("month", "MONTH", 1, 1))
        /\ Fits("QUARTER_TO_DATE", Shape("quarter", "MONTH", 0, 0))
    BY <1>0, <1>9, <1>10, MonthsFit, Zenon
  <1>4. /\ Fits("LAST_QUARTER", Shape("quarter", "MONTH", 3, 3))
        /\ Fits("YEAR_TO_DATE", Shape("year", "MONTH", 0, 0))
        /\ Fits("LAST_YEAR", Shape("year", "MONTH", 12, 12))
    BY <1>0, <1>9, <1>10, MonthsFit, Zenon
  <1>5. /\ Fits("FISCAL_YEAR_TO_DATE", Shape("fiscal year", "MONTH", 0, 0))
        /\ Fits("FISCAL_YEAR", Shape("fiscal year", "MONTH", 0, 12))
        /\ Fits("LAST_FISCAL_YEAR", Shape("fiscal year", "MONTH", 12, 12))
    BY <1>0, <1>9, <1>10, MonthsFit, Zenon
  <1>6. /\ Fits("FISCAL_QUARTER_TO_DATE", Shape("fiscal quarter", "MONTH", 0, 0))
        /\ Fits("LAST_FISCAL_QUARTER", Shape("fiscal quarter", "MONTH", 3, 3))
        /\ Fits("NAMED_FISCAL_YEAR", Shape("named year", "MONTH", 0, 12))
    BY <1>0, <1>9, <1>10, MonthsFit, Zenon
  <1>7. /\ Fits("NAMED_QUARTER", Shape("named quarter", "MONTH", 0, 3))
    BY <1>0, <1>9, <1>10, MonthsFit, Zenon
  <1>8. Fits("ROLLING", Shape("rolling", "MONTH", 0, 0))
    <2> DEFINE shape == Shape("rolling", "MONTH", 0, 0)
    <2>1. shape.of = "rolling" /\ shape.unit = "MONTH" /\ shape.back = 0 /\ shape.length = 0
      BY ShapeParts
    <2> HIDE DEF shape
    <2>2. Fits("ROLLING", shape)
      BY <2>1 DEF Fits, Titled
    <2> QED
      BY <2>2 DEF shape
  <1> QED
    BY <1>1, <1>2, <1>3, <1>4, <1>5, <1>6, <1>7, <1>8, ShapesAre, ZenonT(60)

(* A day of the calendar begins at the instant. *)
Dawn(t, policy) == \E n : Numbered(n) /\ t = 24 * n - policy.offset

LEMMA MonthSpan ==
    ASSUME NEW policy, NEW moment, NEW o, Inside(o, 24), NEW shape, shape.unit = "MONTH",
           shape.back \in 0..12, shape.length \in 0..12
    PROVE  LET p == Spanning(Move(o, shape.unit, -shape.back), shape, policy, moment)
           IN  Dawn(p.start, policy) /\ (p.end = moment \/ Dawn(p.end, policy))
  <1> DEFINE k == -shape.back
             d == AddMonths(o, k)
             e == AddMonths(d, shape.length)
  <1>1. k \in Int /\ -12 <= k /\ k <= 0
    OBVIOUS
  <1>2. Move(o, shape.unit, -shape.back) = d /\ Move(d, shape.unit, shape.length) = e
    BY DEF Move
  <1>3. Spanning(d, shape, policy, moment) =
            [start |-> InstantAt(d, policy), end |-> IF shape.length = 0 THEN moment ELSE InstantAt(e, policy)]
    BY <1>2 DEF Spanning
  <1> HIDE DEF k
  <1>4. Inside(d, 12) /\ Inside(d, 0)
    <2>1. 12 <= 24 + k /\ 12 <= 24 - k /\ 0 <= 24 + k /\ 0 <= 24 - k
      BY <1>1
    <2> QED
      BY <1>1, <2>1, MonthsInside
  <1> HIDE DEF d
  <1>5. Inside(e, 0)
    <2>1. shape.length \in Int /\ 0 <= 12 + shape.length /\ 0 <= 12 - shape.length
      OBVIOUS
    <2> QED
      BY <1>4, <2>1, MonthsInside
  <1> HIDE DEF e
  <1>6. Dawn(InstantAt(d, policy), policy) /\ Dawn(InstantAt(e, policy), policy)
    BY <1>4, <1>5, InsideIsNumbered DEF Dawn, InstantAt
  <1> QED
    BY <1>2, <1>3, <1>6

LEMMA DaysAdded ==
    ASSUME NEW d, NEW n \in Int, Numbered(Ordinal(d) + n)
    PROVE  IsDate(PlusDays(d, n)) /\ Ordinal(PlusDays(d, n)) = Ordinal(d) + n
  BY NumberedDate DEF PlusDays

LEMMA DaySpan ==
    ASSUME NEW policy, NEW moment, NEW o, Ordinal(o) \in Int, 30 <= Ordinal(o), Ordinal(o) <= LastDay - 30,
           NEW shape, shape.unit = "DAY", shape.back \in 0..12, shape.length \in 0..12
    PROVE  LET p == Spanning(Move(o, shape.unit, -shape.back), shape, policy, moment)
           IN  Dawn(p.start, policy) /\ (p.end = moment \/ Dawn(p.end, policy))
  <1> DEFINE k == -shape.back
             d == PlusDays(o, k)
             e == PlusDays(d, shape.length)
  <1>1. k \in Int /\ -12 <= k /\ k <= 0 /\ LastDay \in Int
    BY LastDayIs
  <1>2. Move(o, shape.unit, -shape.back) = d /\ Move(d, shape.unit, shape.length) = e
    BY DEF Move
  <1>3. Spanning(d, shape, policy, moment) =
            [start |-> InstantAt(d, policy), end |-> IF shape.length = 0 THEN moment ELSE InstantAt(e, policy)]
    BY <1>2 DEF Spanning
  <1> HIDE DEF k
  <1>4. Ordinal(d) = Ordinal(o) + k /\ Numbered(Ordinal(d))
    <2>1. Numbered(Ordinal(o) + k)
      BY <1>1 DEF Numbered
    <2> QED
      BY <1>1, <2>1, DaysAdded
  <1> HIDE DEF d
  <1>5. Numbered(Ordinal(e))
    <2>1. shape.length \in Int
      OBVIOUS
    <2>2. Numbered(Ordinal(d) + shape.length)
      BY <1>1, <1>4, <2>1 DEF Numbered
    <2> QED
      BY <2>1, <2>2, DaysAdded
  <1> HIDE DEF e
  <1>6. Dawn(InstantAt(d, policy), policy) /\ Dawn(InstantAt(e, policy), policy)
    BY <1>4, <1>5 DEF Dawn, InstantAt
  <1> QED
    BY <1>2, <1>3, <1>6

(* The week a day lies in. *)
LEMMA WeekHolds ==
    ASSUME NEW policy \in Policy, NEW d, Ordinal(d) \in Int, 7 <= Ordinal(d), Ordinal(d) <= LastDay
    PROVE  /\ IsDate(WeekStart(d, policy)) /\ Ordinal(WeekStart(d, policy)) \in Int
           /\ Ordinal(d) - 6 <= Ordinal(WeekStart(d, policy))
           /\ Ordinal(WeekStart(d, policy)) <= Ordinal(d)
  <1> DEFINE w == (Weekday(d) - policy.week_start) % 7
             k == -w
  <1>1. Weekday(d) \in Int
    BY DEF Weekday
  <1>2. policy.week_start \in Int
    BY DEF Policy
  <1>3. w \in Int /\ 0 <= w /\ w <= 6
    BY <1>1, <1>2
  <1> HIDE DEF w
  <1>4. k \in Int /\ -6 <= k /\ k <= 0
    BY <1>3
  <1>5. WeekStart(d, policy) = PlusDays(d, k)
    BY DEF WeekStart, w
  <1> HIDE DEF k
  <1>6. Numbered(Ordinal(d) + k)
    BY <1>4, LastDayIs DEF Numbered
  <1> QED
    BY <1>4, <1>5, <1>6, DaysAdded

(* A rolling period starts at most ten years ago. *)
LEMMA RollingIsDated ==
    ASSUME NEW intent, intent.period = "ROLLING", DescribesARealPeriod(intent),
           NEW today, Inside(today, 180), Ordinal(today) \in Int, 7000 <= Ordinal(today),
           Ordinal(today) <= LastDay
    PROVE  IsDate(RollingStart(intent, today)) /\ Numbered(Ordinal(RollingStart(intent, today)))
  <1> DEFINE unit == RollingUnits[intent.unit][1]
             n == RollingUnits[intent.unit][2]
             k == -(intent.value * n)
  <1>1. intent.unit \in {"DAY", "WEEK", "MONTH", "QUARTER", "YEAR"}
        /\ intent.value \in 1..MaxRolling[intent.unit]
    BY DEF DescribesARealPeriod, MaxRolling
  <1>2. /\ k \in Int /\ k <= 0
        /\ \/ unit = "DAY" /\ -3650 <= k
           \/ unit = "MONTH" /\ -120 <= k
    <2>1. CASE intent.unit = "DAY"
      BY <1>1, <2>1 DEF RollingUnits, MaxRolling
    <2>2. CASE intent.unit = "WEEK"
      BY <1>1, <2>2 DEF RollingUnits, MaxRolling
    <2>3. CASE intent.unit = "MONTH"
      BY <1>1, <2>3 DEF RollingUnits, MaxRolling
    <2>4. CASE intent.unit = "QUARTER"
      BY <1>1, <2>4 DEF RollingUnits, MaxRolling
    <2>5. CASE intent.unit = "YEAR"
      BY <1>1, <2>5 DEF RollingUnits, MaxRolling
    <2> QED
      BY <1>1, <2>1, <2>2, <2>3, <2>4, <2>5
  <1>3. RollingStart(intent, today) = Move(today, unit, k)
    BY DEF RollingStart
  <1> HIDE DEF k, unit
  <1>4. CASE unit = "DAY" /\ -3650 <= k
    <2>1. Numbered(Ordinal(today) + k)
      BY <1>2, <1>4, LastDayIs DEF Numbered
    <2> QED
      BY <1>2, <1>3, <1>4, <2>1, DaysAdded DEF Move
  <1>5. CASE unit = "MONTH" /\ -120 <= k
    <2>1. 0 <= 180 + k /\ 0 <= 180 - k
      BY <1>2, <1>5
    <2>2. Inside(AddMonths(today, k), 0)
      BY <1>2, <2>1, MonthsInside
    <2> QED
      BY <1>3, <1>5, <2>2, InsideIsNumbered DEF Move, Inside
  <1> QED
    BY <1>2, <1>4, <1>5

(* Where a monthly period is counted from lies well inside the calendar. *)
LEMMA OriginInside ==
    ASSUME NEW policy \in Policy, ValidFiscalStart(policy.month, policy.day), NEW today, Inside(today, 180),
           NEW intent, DescribesARealPeriod(intent), NEW of \in Monthly, Titled(intent.period, of)
    PROVE  Inside(Origin(intent, policy, today, of), 24)
  <1> DEFINE o == Origin(intent, policy, today, of)
  <1>0. \A d, n : Inside(d, n) /\ n \in 24..160 => Inside(d, 24)
    BY DateTyped, LastYearIs DEF Inside
  <1>1. IsDate(today) /\ today.year \in Int /\ today.month \in 1..12
    BY DateTyped DEF Inside
  <1>2. of \in {"month", "quarter", "year", "fiscal year", "fiscal quarter", "named year", "named quarter"}
    BY DEF Monthly
  <1>3. CASE of = "month"
    <2>1. o = Date(today.year, today.month, 1)
      BY <1>3 DEF Origin
    <2>2. Inside(Date(today.year, today.month, 1), 160)
      BY <1>1, FirstIsDate, TodaysMonth
    <2> QED
      BY <1>0, <2>1, <2>2
  <1>4. CASE of = "quarter"
    <2> DEFINE m == 3 * ((today.month - 1) \div 3) + 1
    <2>1. o = Date(today.year, m, 1)
      BY <1>4 DEF Origin, QuarterStart
    <2>2. m \in 1..12
      BY <1>1
    <2> HIDE DEF m
    <2>3. Inside(Date(today.year, m, 1), 160)
      BY <1>1, <2>2, FirstIsDate, TodaysMonth
    <2> QED
      BY <1>0, <2>1, <2>3
  <1>5. CASE of = "year"
    <2>1. o = Date(today.year, 1, 1)
      BY <1>5 DEF Origin
    <2>2. Inside(Date(today.year, 1, 1), 160)
      BY <1>1, FirstIsDate, TodaysMonth
    <2> QED
      BY <1>0, <2>1, <2>2
  <1>6. CASE of = "fiscal year"
    <2>1. o = FiscalYearStart(today, policy)
      BY <1>6 DEF Origin
    <2> QED
      BY <1>0, <2>1, FiscalYearInside
  <1>7. CASE of = "fiscal quarter"
    <2>1. o = FiscalQuarterStart(today, policy)
      BY <1>7 DEF Origin
    <2> QED
      BY <1>0, <2>1, FiscalQuarterInside
  <1>8. CASE of = "named year"
    <2>1. o = NamedFiscalYearStart(intent.year, policy)
      BY <1>8 DEF Origin
    <2>2. intent.year \in Int /\ 1900 <= intent.year /\ intent.year <= 2999
      BY <1>8 DEF Titled, DescribesARealPeriod
    <2> QED
      BY <1>0, <2>1, <2>2, NamedYearInside
  <1>9. CASE of = "named quarter"
    <2>1. o = NamedQuarterStart(intent, policy)
      BY <1>9 DEF Origin
    <2>2. intent.year \in Int /\ 1900 <= intent.year /\ intent.year <= 2999 /\ intent.quarter \in 1..4
      <3>1. intent.period = "NAMED_QUARTER"
        BY <1>9 DEF Titled
      <3> QED
        BY <3>1 DEF DescribesARealPeriod
    <2> QED
      BY <1>0, <2>1, <2>2, NamedQuarterInside
  <1> QED
    BY <1>2, <1>3, <1>4, <1>5, <1>6, <1>7, <1>8, <1>9

(* A period starts as a day does, and ends as one does or at the moment. *)
LEMMA PrimaryIsDated ==
    ASSUME NEW policy \in Policy, ValidFiscalStart(policy.month, policy.day), NEW moment, Amid(moment),
           NEW intent, intent.period \in DOMAIN Shapes, DescribesARealPeriod(intent)
    PROVE  LET p == Primary(intent, policy, moment)
           IN  Dawn(p.start, policy) /\ (p.end = moment \/ Dawn(p.end, policy))
  <1> DEFINE shape == Shapes[intent.period]
             today == LocalDate(moment, policy)
             o == Origin(intent, policy, today, shape.of)
  <1>1. Primary(intent, policy, moment) = Spanning(Move(o, shape.unit, -shape.back), shape, policy, moment)
    BY DEF Primary
  <1>2. Fits(intent.period, shape)
    BY ShapesFit
  <1>3. Inside(today, 180) /\ 7000 <= Ordinal(today) /\ Ordinal(today) <= LastDay - 7000
        /\ Ordinal(today) \in Int
    BY TodayIsInside, DateTyped DEF Inside
  <1> HIDE DEF shape, today
  <1>4. shape.back \in 0..12 /\ shape.length \in 0..12 /\ Titled(intent.period, shape.of)
    BY <1>2 DEF Fits
  <1>5. CASE shape.unit = "DAY" /\ shape.of \in Counted
    <2>1. Ordinal(o) \in Int /\ 30 <= Ordinal(o) /\ Ordinal(o) <= LastDay - 30
      <3>1. CASE shape.of = "day"
        <4>1. o = today
          BY <3>1 DEF Origin
        <4> QED
          BY <1>3, <4>1, LastDayIs
      <3>2. CASE shape.of = "week"
        <4>1. o = WeekStart(today, policy)
          BY <3>2 DEF Origin
        <4>2. 7 <= Ordinal(today) /\ Ordinal(today) <= LastDay /\ LastDay \in Int
          BY <1>3, LastDayIs
        <4>3. /\ Ordinal(o) \in Int
              /\ Ordinal(today) - 6 <= Ordinal(o) /\ Ordinal(o) <= Ordinal(today)
          BY <1>3, <4>1, <4>2, WeekHolds
        <4> HIDE DEF o
        <4> QED
          BY <1>3, <4>2, <4>3
      <3> QED
        BY <1>5, <3>1, <3>2 DEF Counted
    <2> HIDE DEF o
    <2> QED
      BY <1>1, <1>4, <1>5, <2>1, DaySpan
  <1>6. CASE shape.unit = "MONTH" /\ shape.of \in Monthly
    <2>1. Inside(o, 24)
      BY <1>3, <1>4, <1>6, OriginInside
    <2> HIDE DEF o
    <2> QED
      BY <1>1, <1>4, <1>6, <2>1, MonthSpan
  <1>7. CASE /\ shape.unit = "MONTH" /\ shape.of = "rolling" /\ intent.period = "ROLLING"
             /\ shape.back = 0 /\ shape.length = 0
    <2> DEFINE r == RollingStart(intent, today)
    <2>1. o = r
      BY <1>7 DEF Origin
    <2>2. IsDate(r) /\ Numbered(Ordinal(r))
      BY <1>3, <1>7, RollingIsDated, LastDayIs
    <2> HIDE DEF r, o
    <2>3. Move(o, shape.unit, -shape.back) = r
      <3>0. shape.back \in Int /\ shape.back <= 0 /\ 0 <= shape.back
        BY <1>7
      <3>1. -shape.back = 0
        BY <3>0
      <3> QED
        BY <1>7, <2>1, <2>2, <3>1, NoMonthsAdded DEF Move
    <2>4. Spanning(r, shape, policy, moment) = [start |-> InstantAt(r, policy), end |-> moment]
      BY <1>7 DEF Spanning
    <2>5. Dawn(InstantAt(r, policy), policy)
      BY <2>2 DEF Dawn, InstantAt
    <2> QED
      BY <1>1, <2>3, <2>4, <2>5
  <1> QED
    BY <1>2, <1>5, <1>6, <1>7 DEF Fits

(* A comparison has the shape of its period (resolver.py:14): whatever calendar the
   datasource keeps and whatever period is asked for, the period before ends where it
   starts and is as long, and the one of the year before starts and ends 365 or 366 days
   earlier.  The hypotheses are
   the bounds of the program's own types and a moment far enough from both ends of the
   calendar. *)
THEOREM ComparisonsKeepShape ==
    ASSUME NEW policy \in Policy, ValidFiscalStart(policy.month, policy.day), NEW moment, Amid(moment),
           NEW intent, intent.period \in DOMAIN Shapes \cup {"NONE"}, DescribesARealPeriod(intent)
    PROVE  SameShape(intent, policy, moment)
  <1> DEFINE p == Primary(intent, policy, moment)
             c == Comparison(intent, policy, p)
  <1>1. CASE Resolve(intent, policy, moment) = Unresolved
    BY <1>1 DEF SameShape, Shaped, Unresolved
  <1>2. CASE /\ intent.period # "NONE"
             /\ Resolve(intent, policy, moment) = WithComparison(intent, policy, p)
    <2>1. Dawn(p.start, policy) /\ (p.end = moment \/ Dawn(p.end, policy))
      BY <1>2, PrimaryIsDated
    <2>2. policy.offset \in Int /\ policy.offset \in -12..14 /\ moment \in Int
      BY DEF Policy, Amid
    <2>3. \A t : Dawn(t, policy) => t \in Int /\ Numbered((t + policy.offset) \div 24)
      <3> SUFFICES ASSUME NEW t, NEW n, Numbered(n), t = 24 * n - policy.offset
                   PROVE  t \in Int /\ Numbered((t + policy.offset) \div 24)
        BY DEF Dawn
      <3>1. n \in Int
        BY DEF Numbered
      <3>2. t \in Int /\ (t + policy.offset) \div 24 = n
        BY <2>2, <3>1
      <3> QED
        BY <3>2
    <2>4. Numbered((moment + policy.offset) \div 24)
      <3>1. LET n == (moment + policy.offset) \div 24
            IN  n \in Int /\ 7000 <= n /\ n <= LastDay - 7000
        BY TodayIsInside, <2>2
      <3> QED
        BY <3>1, LastDayIs DEF Numbered
    <2> HIDE DEF p
    <2>5. /\ p.start \in Int /\ Numbered((p.start + policy.offset) \div 24)
          /\ p.end \in Int /\ Numbered((p.end + policy.offset) \div 24)
      BY <2>1, <2>2, <2>3, <2>4
    <2>6. /\ ShiftYears(p.start, -1, policy) \in {p.start - 24 * 365, p.start - 24 * 366}
          /\ ShiftYears(p.end, -1, policy) \in {p.end - 24 * 365, p.end - 24 * 366}
      BY <2>2, <2>5, ShiftedYear
    <2>7. CASE Ordered(p) /\ intent.comparison # "NONE"
      <3>1. IF intent.comparison = "SAME_PERIOD_LAST_YEAR"
            THEN p.start - c.start \in OneYear /\ p.end - c.end \in OneYear
            ELSE Meet(c, p) /\ Length(c) = Length(p)
        <4>1. CASE intent.comparison = "SAME_PERIOD_LAST_YEAR"
          <5>1. c = [start |-> ShiftYears(p.start, -1, policy), end |-> ShiftYears(p.end, -1, policy)]
            BY <4>1 DEF Comparison
          <5> QED
            BY <2>5, <2>6, <4>1, <5>1 DEF OneYear
        <4>2. CASE intent.comparison # "SAME_PERIOD_LAST_YEAR"
          <5>1. c = [start |-> 2 * p.start - p.end, end |-> p.start]
            BY <4>2 DEF Comparison
          <5> QED
            BY <2>5, <4>2, <5>1 DEF Length, Meet
        <4> QED
          BY <4>1, <4>2
      <3> HIDE DEF c
      <3>2. WithComparison(intent, policy, p) = Planned(intent, p, c)
        BY DEF WithComparison, c
      <3>3. \/ Planned(intent, p, c) = Unresolved
            \/ Planned(intent, p, c).primary = p /\ Planned(intent, p, c).comparison = c
        BY DEF Planned
      <3>4. Shaped(intent, Planned(intent, p, c))
        BY <3>1, <3>3 DEF Shaped, Unresolved
      <3> QED
        BY <1>2, <3>2, <3>4 DEF SameShape
    <2>8. CASE ~(Ordered(p) /\ intent.comparison # "NONE")
      <3>1. \/ Planned(intent, p, c) = Unresolved
            \/ Planned(intent, p, c).compared = FALSE
        BY <2>8 DEF Planned
      <3>2. Shaped(intent, Planned(intent, p, c))
        BY <3>1 DEF Shaped, Unresolved
      <3> QED
        BY <1>2, <3>2 DEF SameShape, WithComparison
    <2> QED
      BY <2>7, <2>8
  <1>3. \/ Resolve(intent, policy, moment) = Unresolved
        \/ /\ intent.period # "NONE"
           /\ Resolve(intent, policy, moment) = WithComparison(intent, policy, p)
    BY DEF Resolve
  <1> QED
    BY <1>1, <1>2, <1>3

-----------------------------------------------------------------------------
(* Tiling *)

(* A period and its shape. *)
LEMMA PeriodOf ==
    ASSUME NEW policy, NEW moment, NEW intent, NEW o,
           Origin(intent, policy, LocalDate(moment, policy), Shapes[intent.period].of) = o
    PROVE  LET shape == Shapes[intent.period]
               from == Move(o, shape.unit, -shape.back)
           IN  /\ Primary(intent, policy, moment).start = InstantAt(from, policy)
               /\ shape.length # 0 =>
                     Primary(intent, policy, moment).end =
                         InstantAt(Move(from, shape.unit, shape.length), policy)
               /\ DOMAIN Primary(intent, policy, moment) = {"start", "end"}
  BY DEF Primary, Spanning

Whole(shape) == shape.unit = "MONTH" /\ shape.back \in 1..12 /\ shape.length = shape.back
Running(shape) == shape.unit = "MONTH" /\ shape.back \in Int /\ shape.back <= 0 /\ 0 <= shape.back

LEMMA RunningStarts ==
    ASSUME NEW policy, NEW moment, NEW intent, Running(Shapes[intent.period]), NEW o, IsDate(o),
           Origin(intent, policy, LocalDate(moment, policy), Shapes[intent.period].of) = o
    PROVE  /\ Primary(intent, policy, moment).start = InstantAt(o, policy)
           /\ Shapes[intent.period].length # 0 =>
                 Primary(intent, policy, moment).end =
                     InstantAt(AddMonths(o, Shapes[intent.period].length), policy)
  <1> DEFINE shape == Shapes[intent.period]
  <1>1. -shape.back = 0
    BY DEF Running
  <1>2. Move(o, shape.unit, -shape.back) = o
    <2>1. shape.unit # "DAY"
      BY DEF Running
    <2> QED
      BY <1>1, <2>1, NoMonthsAdded DEF Move
  <1>3. Move(o, shape.unit, shape.length) = AddMonths(o, shape.length)
    BY DEF Move, Running
  <1> QED
    BY <1>2, <1>3, PeriodOf

(* A finished period ends where the running one starts. *)
LEMMA MonthsMeet ==
    ASSUME NEW policy, NEW moment, NEW a, NEW b, Whole(Shapes[a.period]), Running(Shapes[b.period]),
           NEW o, IsDate(o),
           Origin(a, policy, LocalDate(moment, policy), Shapes[a.period].of) = o,
           Origin(b, policy, LocalDate(moment, policy), Shapes[b.period].of) = o,
           AddMonths(o, -Shapes[a.period].back).day = o.day
    PROVE  Meet(Primary(a, policy, moment), Primary(b, policy, moment))
  <1> DEFINE shape == Shapes[a.period]
             k == -shape.back
             d == AddMonths(o, k)
  <1>1. shape.unit # "DAY" /\ shape.length = shape.back /\ shape.length # 0 /\ k \in Int /\ shape.back \in Int
        /\ k + shape.back = 0
    BY DEF Whole
  <1>3. Move(o, shape.unit, -shape.back) = d /\ Move(d, shape.unit, shape.length) = AddMonths(d, shape.back)
    BY <1>1 DEF Move
  <1>4. Primary(a, policy, moment).end = InstantAt(AddMonths(d, shape.back), policy)
    BY <1>1, <1>3, PeriodOf
  <1> HIDE DEF k
  <1>5. AddMonths(d, shape.back) = o
    <2>1. d.day = o.day
      BY DEF k
    <2>2. AddMonths(d, shape.back) = AddMonths(o, k + shape.back)
      BY <1>1, <2>1, MonthsCompose
    <2> QED
      BY <1>1, <2>2, NoMonthsAdded
  <1> HIDE DEF d, shape
  <1> QED
    BY <1>4, <1>5, RunningStarts DEF Meet

LEMMA WeeksMeet ==
    ASSUME NEW policy \in Policy, NEW moment, Amid(moment)
    PROVE  Meet(Primary(Only("LAST_WEEK"), policy, moment), Primary(Only("WEEK_TO_DATE"), policy, moment))
  <1> DEFINE a == Only("LAST_WEEK")
             b == Only("WEEK_TO_DATE")
             today == LocalDate(moment, policy)
             o == WeekStart(today, policy)
             d == PlusDays(o, -7)
  <1>1. a.period = "LAST_WEEK" /\ b.period = "WEEK_TO_DATE"
    BY DEF Only, Intent
  <1>2. /\ Shapes[a.period].unit = "DAY" /\ Shapes[a.period].back = 7 /\ Shapes[a.period].length = 7
        /\ Shapes[a.period].of = "week"
        /\ Shapes[b.period].unit = "DAY" /\ Shapes[b.period].back = 0 /\ Shapes[b.period].of = "week"
    <2>1. Shapes[a.period] = Shape("week", "DAY", 7, 7) /\ Shapes[b.period] = Shape("week", "DAY", 0, 0)
      BY <1>1, ShapesAre
    <2>2. /\ Shape("week", "DAY", 7, 7).of = "week" /\ Shape("week", "DAY", 7, 7).unit = "DAY"
          /\ Shape("week", "DAY", 7, 7).back = 7 /\ Shape("week", "DAY", 7, 7).length = 7
          /\ Shape("week", "DAY", 0, 0).of = "week" /\ Shape("week", "DAY", 0, 0).unit = "DAY"
          /\ Shape("week", "DAY", 0, 0).back = 0
      BY DEF Shape
    <2> QED
      BY <2>1, <2>2
  <1>3. /\ Origin(a, policy, today, Shapes[a.period].of) = o
        /\ Origin(b, policy, today, Shapes[b.period].of) = o
    BY <1>2 DEF Origin
  <1>4. Ordinal(today) \in Int /\ 7000 <= Ordinal(today) /\ Ordinal(today) <= LastDay /\ LastDay \in Int
    BY TodayIsInside, LastDayIs, DateTyped DEF Inside
  <1>5. /\ IsDate(o) /\ Ordinal(o) \in Int
        /\ Ordinal(today) - 6 <= Ordinal(o) /\ Ordinal(o) <= Ordinal(today)
    <2> HIDE DEF today
    <2> QED
      BY <1>4, WeekHolds
  <1> HIDE DEF a, b, o, today
  <1>6. Primary(a, policy, moment).end = InstantAt(PlusDays(d, 7), policy)
    BY <1>2, <1>3, PeriodOf DEF Move, today
  <1>7. Primary(b, policy, moment).start = InstantAt(PlusDays(o, -Shapes[b.period].back), policy)
    BY <1>2, <1>3, PeriodOf DEF Move, today
  <1>8. -Shapes[b.period].back = 0
    <2>1. Shapes[b.period].back \in Int /\ Shapes[b.period].back <= 0 /\ 0 <= Shapes[b.period].back
      BY <1>2
    <2> QED
      BY <2>1
  <1>9. Ordinal(d) = Ordinal(o) - 7
    <2>1. Numbered(Ordinal(o) + (-7)) /\ -7 \in Int
      BY <1>4, <1>5 DEF Numbered
    <2>2. Ordinal(d) = Ordinal(o) + (-7)
      BY <2>1, DaysAdded
    <2> QED
      BY <1>5, <2>2
  <1>10. Ordinal(PlusDays(d, 7)) = Ordinal(o)
    <2> HIDE DEF d
    <2>1. Numbered(Ordinal(d) + 7)
      BY <1>4, <1>5, <1>9 DEF Numbered
    <2>2. Ordinal(PlusDays(d, 7)) = Ordinal(d) + 7
      BY <2>1, DaysAdded
    <2> QED
      BY <1>5, <1>9, <2>2
  <1>11. Ordinal(PlusDays(o, 0)) = Ordinal(o)
    <2>1. Numbered(Ordinal(o) + 0)
      BY <1>4, <1>5 DEF Numbered
    <2>2. Ordinal(PlusDays(o, 0)) = Ordinal(o) + 0
      BY <2>1, DaysAdded
    <2> QED
      BY <1>5, <2>2
  <1>12. Meet(Primary(a, policy, moment), Primary(b, policy, moment))
    BY <1>6, <1>7, <1>8, <1>10, <1>11 DEF Meet, InstantAt
  <1> QED
    BY <1>12 DEF a, b

(* What the shapes of a finished period and of a running one say. *)
LEMMA WholeShape ==
    ASSUME NEW p, NEW of, NEW back \in 1..12, Shapes[p] = Shape(of, "MONTH", back, back)
    PROVE  Whole(Shapes[p]) /\ Shapes[p].back = back /\ Shapes[p].of = of
  <1> DEFINE shape == Shape(of, "MONTH", back, back)
  <1>1. shape.unit = "MONTH" /\ shape.back = back /\ shape.length = back /\ shape.of = of
    BY ShapeParts
  <1> HIDE DEF shape
  <1>2. Whole(shape)
    BY <1>1 DEF Whole
  <1> QED
    BY <1>1, <1>2 DEF shape

LEMMA RunningShape ==
    ASSUME NEW p, NEW of, NEW length, Shapes[p] = Shape(of, "MONTH", 0, length)
    PROVE  Running(Shapes[p]) /\ Shapes[p].length = length /\ Shapes[p].of = of
  <1> DEFINE shape == Shape(of, "MONTH", 0, length)
  <1>1. shape.unit = "MONTH" /\ shape.back = 0 /\ shape.length = length /\ shape.of = of
    BY ShapeParts
  <1> HIDE DEF shape
  <1>2. Running(shape)
    BY <1>1 DEF Running
  <1> QED
    BY <1>1, <1>2 DEF shape

(* The dates periods of the calendar and of the fiscal calendar are counted from. *)
LEMMA OriginsAre ==
    ASSUME NEW policy, NEW intent, NEW today
    PROVE  /\ Origin(intent, policy, today, "month") = Date(today.year, today.month, 1)
           /\ Origin(intent, policy, today, "quarter") = QuarterStart(today)
           /\ Origin(intent, policy, today, "year") = Date(today.year, 1, 1)
           /\ Origin(intent, policy, today, "fiscal year") = FiscalYearStart(today, policy)
           /\ Origin(intent, policy, today, "fiscal quarter") = FiscalQuarterStart(today, policy)
           /\ Origin(intent, policy, today, "named year") = NamedFiscalYearStart(intent.year, policy)
           /\ Origin(intent, policy, today, "named quarter") = NamedQuarterStart(intent, policy)
  BY DEF Origin

(* Where the calendar's months, quarters and years meet. *)
LEMMA CalendarMeets ==
    ASSUME NEW policy \in Policy, NEW moment, Amid(moment)
    PROVE  LET P(p) == Primary(Only(p), policy, moment)
           IN  /\ Meet(P("LAST_MONTH"), P("MONTH_TO_DATE"))
               /\ Meet(P("LAST_QUARTER"), P("QUARTER_TO_DATE"))
               /\ Meet(P("LAST_YEAR"), P("YEAR_TO_DATE"))
  <1> DEFINE today == LocalDate(moment, policy)
  <1>1. IsDate(today)
    BY TodayIsInside DEF Inside
  <1> HIDE DEF today
  <1>2. /\ \A p : Only(p).period = p
    BY DEF Only, Intent
  <1>3. ASSUME NEW a, NEW b, NEW of, NEW back \in {1, 3, 12},
               Shapes[a] = Shape(of, "MONTH", back, back), Shapes[b] = Shape(of, "MONTH", 0, 0),
               NEW o, IsDate(o), o.day = 1, \A i : Origin(i, policy, today, of) = o
        PROVE  Meet(Primary(Only(a), policy, moment), Primary(Only(b), policy, moment))
    <2>1. Whole(Shapes[a]) /\ Shapes[a].back = back /\ Shapes[a].of = of
      <3>1. back \in 1..12
        OBVIOUS
      <3> QED
        BY <1>3, <3>1, WholeShape
    <2>2. Running(Shapes[b]) /\ Shapes[b].of = of
      BY <1>3, RunningShape
    <2>3. AddMonths(o, -back).day = o.day
      <3>1. -back \in Int
        OBVIOUS
      <3> QED
        BY <1>3, <3>1, FirstsOfMonths
    <2>4. Only(a).period = a /\ Only(b).period = b
      BY <1>2
    <2>5. /\ Origin(Only(a), policy, LocalDate(moment, policy), Shapes[Only(a).period].of) = o
          /\ Origin(Only(b), policy, LocalDate(moment, policy), Shapes[Only(b).period].of) = o
      BY <1>3, <2>1, <2>2, <2>4 DEF today
    <2> QED
      BY <1>3, <2>1, <2>2, <2>3, <2>4, <2>5, MonthsMeet
  <1>4. Meet(Primary(Only("LAST_MONTH"), policy, moment), Primary(Only("MONTH_TO_DATE"), policy, moment))
    <2>1. today.year \in Int /\ today.month \in 1..12
      BY <1>1, DateTyped
    <2>2. IsDate(Date(today.year, today.month, 1)) /\ Date(today.year, today.month, 1).day = 1
      BY <2>1, FirstIsDate DEF Date
    <2> DEFINE o == Date(today.year, today.month, 1)
    <2>3. Shapes["LAST_MONTH"] = Shape("month", "MONTH", 1, 1) /\ Shapes["MONTH_TO_DATE"] = Shape("month", "MONTH", 0, 0)
      BY ShapesAre
    <2>4. \A i : Origin(i, policy, today, "month") = o
      BY OriginsAre, ZenonT(90)
    <2>5. 1 \in {1, 3, 12} /\ IsDate(o) /\ o.day = 1
      BY <2>2
    <2> HIDE DEF o
    <2> QED
      BY <1>3, <2>3, <2>4, <2>5
  <1>5. Meet(Primary(Only("LAST_QUARTER"), policy, moment), Primary(Only("QUARTER_TO_DATE"), policy, moment))
    <2>1. today.year \in Int /\ 3 * ((today.month - 1) \div 3) + 1 \in 1..12
      <3>1. today.year \in Int /\ today.month \in 1..12
        BY <1>1, DateTyped
      <3> QED
        BY <3>1
    <2>2. IsDate(QuarterStart(today)) /\ QuarterStart(today).day = 1
      BY <2>1, FirstIsDate DEF Date, QuarterStart
    <2> DEFINE o == QuarterStart(today)
    <2>3. Shapes["LAST_QUARTER"] = Shape("quarter", "MONTH", 3, 3) /\ Shapes["QUARTER_TO_DATE"] = Shape("quarter", "MONTH", 0, 0)
      BY ShapesAre
    <2>4. \A i : Origin(i, policy, today, "quarter") = o
      BY OriginsAre, ZenonT(60)
    <2>5. 3 \in {1, 3, 12} /\ IsDate(o) /\ o.day = 1
      BY <2>2
    <2> HIDE DEF o
    <2> QED
      BY <1>3, <2>3, <2>4, <2>5
  <1>6. Meet(Primary(Only("LAST_YEAR"), policy, moment), Primary(Only("YEAR_TO_DATE"), policy, moment))
    <2>1. today.year \in Int /\ 1 \in 1..12
      BY <1>1, DateTyped
    <2>2. IsDate(Date(today.year, 1, 1)) /\ Date(today.year, 1, 1).day = 1
      BY <2>1, FirstIsDate DEF Date
    <2> DEFINE o == Date(today.year, 1, 1)
    <2>3. Shapes["LAST_YEAR"] = Shape("year", "MONTH", 12, 12) /\ Shapes["YEAR_TO_DATE"] = Shape("year", "MONTH", 0, 0)
      BY ShapesAre
    <2>4. \A i : Origin(i, policy, today, "year") = o
      BY OriginsAre, ZenonT(60)
    <2>5. 12 \in {1, 3, 12} /\ IsDate(o) /\ o.day = 1
      BY <2>2
    <2> HIDE DEF o
    <2> QED
      BY <1>3, <2>3, <2>4, <2>5
  <1> QED
    BY <1>4, <1>5, <1>6

(* Where the fiscal years and quarters meet. *)
LEMMA FiscalMeets ==
    ASSUME NEW policy \in Policy, TurnsAlike(policy), NEW moment, Amid(moment)
    PROVE  LET P(p) == Primary(Only(p), policy, moment)
           IN  /\ Meet(P("LAST_FISCAL_YEAR"), P("FISCAL_YEAR"))
               /\ Meet(P("LAST_FISCAL_QUARTER"), P("FISCAL_QUARTER_TO_DATE"))
  <1> DEFINE today == LocalDate(moment, policy)
             s == FiscalYearStart(today, policy)
             q == FiscalQuarterStart(today, policy)
  <1>1. IsDate(today)
    BY TodayIsInside DEF Inside
  <1> HIDE DEF today
  <1>2. \A p : Only(p).period = p
    BY DEF Only, Intent
  <1>3. ASSUME NEW a, NEW b, NEW of, NEW length, NEW back \in {3, 12},
               Shapes[a] = Shape(of, "MONTH", back, back), Shapes[b] = Shape(of, "MONTH", 0, length),
               NEW o, Anchored(o, policy), \A i : Origin(i, policy, today, of) = o
        PROVE  Meet(Primary(Only(a), policy, moment), Primary(Only(b), policy, moment))
    <2>1. Whole(Shapes[a]) /\ Shapes[a].back = back /\ Shapes[a].of = of
      <3>1. back \in 1..12
        OBVIOUS
      <3> QED
        BY <1>3, <3>1, WholeShape
    <2>2. Running(Shapes[b]) /\ Shapes[b].of = of
      BY <1>3, RunningShape
    <2>3. IsDate(o) /\ AddMonths(o, -back).day = o.day
      <3>1. -back \in Int /\ (-back) % 3 = 0
        OBVIOUS
      <3>2. AddMonths(o, -back).day = o.day
        BY <1>3, <3>1, QuartersAdded
      <3> QED
        BY <1>3, <3>2 DEF Anchored
    <2>4. Only(a).period = a /\ Only(b).period = b
      BY <1>2
    <2>5. /\ Origin(Only(a), policy, LocalDate(moment, policy), Shapes[Only(a).period].of) = o
          /\ Origin(Only(b), policy, LocalDate(moment, policy), Shapes[Only(b).period].of) = o
      BY <1>3, <2>1, <2>2, <2>4 DEF today
    <2> QED
      BY <2>1, <2>2, <2>3, <2>4, <2>5, MonthsMeet
  <1>4. Anchored(s, policy)
    BY <1>1, FiscalYearHolds
  <1>5. Anchored(q, policy)
    <2>1. PICK i \in 0..3 : q = AddMonths(s, 3 * i)
      BY <1>1, FiscalQuarterHolds
    <2>2. 3 * i \in Int /\ (3 * i) % 3 = 0
      OBVIOUS
    <2> HIDE DEF s, q
    <2> QED
      BY <1>4, <2>1, <2>2, QuartersAdded
  <1>6. Meet(Primary(Only("LAST_FISCAL_YEAR"), policy, moment), Primary(Only("FISCAL_YEAR"), policy, moment))
    <2>1. /\ Shapes["LAST_FISCAL_YEAR"] = Shape("fiscal year", "MONTH", 12, 12)
          /\ Shapes["FISCAL_YEAR"] = Shape("fiscal year", "MONTH", 0, 12)
      BY ShapesAre
    <2>2. \A i : Origin(i, policy, today, "fiscal year") = s
      BY OriginsAre
    <2>3. 12 \in {3, 12}
      OBVIOUS
    <2> HIDE DEF s
    <2> QED
      BY <1>3, <1>4, <2>1, <2>2, <2>3
  <1>7. Meet(Primary(Only("LAST_FISCAL_QUARTER"), policy, moment),
             Primary(Only("FISCAL_QUARTER_TO_DATE"), policy, moment))
    <2>1. /\ Shapes["LAST_FISCAL_QUARTER"] = Shape("fiscal quarter", "MONTH", 3, 3)
          /\ Shapes["FISCAL_QUARTER_TO_DATE"] = Shape("fiscal quarter", "MONTH", 0, 0)
      BY ShapesAre
    <2>2. \A i : Origin(i, policy, today, "fiscal quarter") = q
      BY OriginsAre
    <2>3. 3 \in {3, 12}
      OBVIOUS
    <2> HIDE DEF q
    <2> QED
      BY <1>3, <1>5, <2>1, <2>2, <2>3
  <1> QED
    BY <1>6, <1>7

(* What a fiscal year, a named one and its quarters are in dates. *)
LEMMA FiscalYearIs ==
    ASSUME NEW policy \in Policy, TurnsAlike(policy), NEW moment, Amid(moment)
    PROVE  LET s == FiscalYearStart(LocalDate(moment, policy), policy)
               y == Primary(Only("FISCAL_YEAR"), policy, moment)
           IN  /\ y = [start |-> InstantAt(s, policy), end |-> InstantAt(AddMonths(s, 12), policy)]
               /\ Primary(Year(FiscalLabel(s, policy)), policy, moment) = y
               /\ \A i \in 1..4 :
                     LET p == Primary(Quarter(FiscalLabel(s, policy), i), policy, moment)
                     IN  /\ p.start = InstantAt(AddMonths(s, 3 * (i - 1)), policy)
                         /\ p.end = InstantAt(AddMonths(AddMonths(s, 3 * (i - 1)), 3), policy)
  <1> DEFINE today == LocalDate(moment, policy)
             s == FiscalYearStart(today, policy)
             n == Year(FiscalLabel(s, policy))
  <1>1. IsDate(today)
    BY TodayIsInside DEF Inside
  <1> HIDE DEF today
  <1>2. Anchored(s, policy) /\ s.month = policy.month
    BY <1>1, FiscalYearHolds
  <1>3. NamedFiscalYearStart(FiscalLabel(s, policy), policy) = s
    BY <1>2, LabelNames
  <1>4. IsDate(s)
    BY <1>2 DEF Anchored
  <1>5. ASSUME NEW intent, NEW of, NEW length \in {3, 12}, NEW o, IsDate(o),
               Shapes[intent.period] = Shape(of, "MONTH", 0, length),
               Origin(intent, policy, today, of) = o
        PROVE  Primary(intent, policy, moment) = [start |-> InstantAt(o, policy),
                                               end |-> InstantAt(AddMonths(o, length), policy)]
    <2>1. Running(Shapes[intent.period]) /\ Shapes[intent.period].length = length
          /\ Shapes[intent.period].of = of
      BY <1>5, RunningShape
    <2>2. Origin(intent, policy, LocalDate(moment, policy), Shapes[intent.period].of) = o
      BY <1>5, <2>1 DEF today
    <2>3. length # 0
      OBVIOUS
    <2>4. /\ Primary(intent, policy, moment).start = InstantAt(o, policy)
          /\ Primary(intent, policy, moment).end = InstantAt(AddMonths(o, length), policy)
      BY <1>5, <2>1, <2>2, <2>3, RunningStarts
    <2>5. Primary(intent, policy, moment) = [start |-> Primary(intent, policy, moment).start,
                                          end |-> Primary(intent, policy, moment).end]
      BY DEF Primary, Spanning
    <2> QED
      BY <2>4, <2>5
  <1>6. Primary(Only("FISCAL_YEAR"), policy, moment) =
            [start |-> InstantAt(s, policy), end |-> InstantAt(AddMonths(s, 12), policy)]
    <2>1. Only("FISCAL_YEAR").period = "FISCAL_YEAR"
      BY DEF Only, Intent
    <2>2. Shapes["FISCAL_YEAR"] = Shape("fiscal year", "MONTH", 0, 12)
      BY ShapesAre
    <2>3. Origin(Only("FISCAL_YEAR"), policy, today, "fiscal year") = s
      BY OriginsAre
    <2>4. 12 \in {3, 12}
      OBVIOUS
    <2> HIDE DEF s
    <2> QED
      BY <1>4, <1>5, <2>1, <2>2, <2>3, <2>4
  <1>7. Primary(n, policy, moment) =
            [start |-> InstantAt(s, policy), end |-> InstantAt(AddMonths(s, 12), policy)]
    <2>1. n.period = "NAMED_FISCAL_YEAR" /\ n.year = FiscalLabel(s, policy)
      BY DEF Year, Intent
    <2>2. Shapes["NAMED_FISCAL_YEAR"] = Shape("named year", "MONTH", 0, 12)
      BY ShapesAre
    <2>3. Origin(n, policy, today, "named year") = s
      BY <1>3, <2>1, OriginsAre
    <2>4. 12 \in {3, 12}
      OBVIOUS
    <2> HIDE DEF s, n
    <2> QED
      BY <1>4, <1>5, <2>1, <2>2, <2>3, <2>4
  <1>8. ASSUME NEW i \in 1..4
        PROVE  LET p == Primary(Quarter(FiscalLabel(s, policy), i), policy, moment)
                   o == AddMonths(s, 3 * (i - 1))
               IN  p = [start |-> InstantAt(o, policy), end |-> InstantAt(AddMonths(o, 3), policy)]
    <2> DEFINE q == Quarter(FiscalLabel(s, policy), i)
               o == AddMonths(s, 3 * (i - 1))
    <2>1. /\ q.period = "NAMED_QUARTER" /\ q.year = FiscalLabel(s, policy) /\ q.quarter = i
          /\ q.fiscal = TRUE
      BY DEF Quarter, Intent
    <2>2. Shapes["NAMED_QUARTER"] = Shape("named quarter", "MONTH", 0, 3)
      BY ShapesAre
    <2>3. NamedQuarterStart(q, policy) = o
      BY <1>3, <2>1 DEF NamedQuarterStart
    <2>4. Origin(q, policy, today, "named quarter") = o
      BY <2>3, OriginsAre
    <2>5. IsDate(o) /\ 3 \in {3, 12}
      <3>1. 3 * (i - 1) \in Int /\ (3 * (i - 1)) % 3 = 0
        OBVIOUS
      <3> HIDE DEF s
      <3> QED
        BY <1>2, <3>1, QuartersAdded DEF Anchored
    <2> HIDE DEF s, q, o
    <2>6. Primary(q, policy, moment) =
              [start |-> InstantAt(o, policy), end |-> InstantAt(AddMonths(o, 3), policy)]
      BY <1>5, <2>1, <2>2, <2>4, <2>5
    <2> QED
      BY <2>6 DEF q, o
  <1>9. \A i \in 1..4 :
            LET p == Primary(Quarter(FiscalLabel(s, policy), i), policy, moment)
            IN  /\ p.start = InstantAt(AddMonths(s, 3 * (i - 1)), policy)
                /\ p.end = InstantAt(AddMonths(AddMonths(s, 3 * (i - 1)), 3), policy)
    <2> HIDE DEF s
    <2> QED
      BY <1>8
  <1> QED
    BY <1>6, <1>7, <1>9 DEF today

(* An instant is inside two midnights when its day is inside their dates. *)
LEMMA HoldsInstant ==
    ASSUME NEW policy \in Policy, NEW moment, Amid(moment), NEW a, NEW b, Ordinal(a) \in Int, Ordinal(b) \in Int,
           Ordinal(a) <= Ordinal(LocalDate(moment, policy)), Ordinal(LocalDate(moment, policy)) < Ordinal(b)
    PROVE  InstantAt(a, policy) <= moment /\ moment < InstantAt(b, policy)
  <1>1. policy.offset \in Int /\ moment \in Int
    BY DEF Policy, Amid
  <1>2. Ordinal(LocalDate(moment, policy)) = (moment + policy.offset) \div 24
    BY TodayIsInside
  <1> QED
    BY <1>1, <1>2 DEF InstantAt

(* The quarters of a fiscal year are three months of it each. *)
LEMMA QuartersFollow ==
    ASSUME NEW policy \in Policy, TurnsAlike(policy), NEW s, Anchored(s, policy)
    PROVE  /\ AddMonths(s, 3 * 0) = s
           /\ \A i \in 0..3 : /\ IsDate(AddMonths(s, 3 * i))
                              /\ AddMonths(AddMonths(s, 3 * i), 3) = AddMonths(s, 3 * (i + 1))
  <1>1. IsDate(s)
    BY DEF Anchored
  <1>2. AddMonths(s, 3 * 0) = s
    BY <1>1, NoMonthsAdded
  <1>3. ASSUME NEW i \in 0..3
        PROVE  IsDate(AddMonths(s, 3 * i)) /\ AddMonths(AddMonths(s, 3 * i), 3) = AddMonths(s, 3 * (i + 1))
    <2>1. 3 * i \in Int /\ (3 * i) % 3 = 0 /\ 3 * i + 3 = 3 * (i + 1) /\ 3 \in Int
      OBVIOUS
    <2>2. Anchored(AddMonths(s, 3 * i), policy) /\ AddMonths(s, 3 * i).day = s.day
      BY <2>1, QuartersAdded
    <2>3. AddMonths(AddMonths(s, 3 * i), 3) = AddMonths(s, 3 * i + 3)
      BY <1>1, <2>1, <2>2, MonthsCompose
    <2> QED
      BY <2>1, <2>2, <2>3 DEF Anchored
  <1> QED
    BY <1>2, <1>3

(* The periods of one calendar and one moment tile it (resolver.py:13): whatever the
   time zone, the day a week starts on, the day a fiscal year starts on and the way it
   is named.  The fiscal months are to have the day their year starts on, which days up
   to the 28th always have. *)
THEOREM CalendarTiles ==
    ASSUME NEW policy \in Policy, TurnsAlike(policy), NEW moment, Amid(moment)
    PROVE  Tiles(policy, moment)
  <1> DEFINE today == LocalDate(moment, policy)
             s == FiscalYearStart(today, policy)
             label == FiscalLabel(s, policy)
             plain == (CalendarPeriods \cup FiscalPeriods) \ {"NAMED_FISCAL_YEAR", "NAMED_QUARTER"}
             at == [p \in plain |-> Primary(Only(p), policy, moment)]
             named == Primary(Year(label), policy, moment)
             quarter == [i \in 1..4 |-> Primary(Quarter(label, i), policy, moment)]
             Q(i) == AddMonths(s, 3 * i)
  <1>1. IsDate(today) /\ Ordinal(today) \in Int
    BY TodayIsInside, DateTyped DEF Inside
  <1>2. \A p \in {"LAST_WEEK", "WEEK_TO_DATE", "LAST_MONTH", "MONTH_TO_DATE", "LAST_QUARTER",
                  "QUARTER_TO_DATE", "LAST_YEAR", "YEAR_TO_DATE", "LAST_FISCAL_YEAR", "FISCAL_YEAR",
                  "LAST_FISCAL_QUARTER", "FISCAL_QUARTER_TO_DATE"} :
            at[p] = Primary(Only(p), policy, moment)
    BY DEF CalendarPeriods, FiscalPeriods
  <1>3. /\ Meet(at["LAST_WEEK"], at["WEEK_TO_DATE"])
        /\ Meet(at["LAST_MONTH"], at["MONTH_TO_DATE"])
        /\ Meet(at["LAST_QUARTER"], at["QUARTER_TO_DATE"])
        /\ Meet(at["LAST_YEAR"], at["YEAR_TO_DATE"])
        /\ Meet(at["LAST_FISCAL_YEAR"], at["FISCAL_YEAR"])
        /\ Meet(at["LAST_FISCAL_QUARTER"], at["FISCAL_QUARTER_TO_DATE"])
    <2> HIDE DEF at
    <2> QED
      BY <1>2, WeeksMeet, CalendarMeets, FiscalMeets
  <1>4. /\ Anchored(s, policy) /\ Ordinal(s) <= Ordinal(today)
        /\ Ordinal(today) < Ordinal(AddMonths(s, 12))
    BY <1>1, FiscalYearHolds
  <1>5. /\ Q(0) = s
        /\ \A i \in 0..3 : IsDate(Q(i)) /\ AddMonths(Q(i), 3) = Q(i + 1)
    BY <1>4, QuartersFollow
  <1>6. /\ at["FISCAL_YEAR"] = [start |-> InstantAt(s, policy), end |-> InstantAt(AddMonths(s, 12), policy)]
        /\ named = at["FISCAL_YEAR"]
        /\ \A i \in 1..4 : /\ quarter[i].start = InstantAt(Q(i - 1), policy)
                           /\ quarter[i].end = InstantAt(AddMonths(Q(i - 1), 3), policy)
    <2>1. at["FISCAL_YEAR"] = Primary(Only("FISCAL_YEAR"), policy, moment)
      BY <1>2
    <2>2. \A i \in 1..4 : quarter[i] = Primary(Quarter(label, i), policy, moment)
      OBVIOUS
    <2> HIDE DEF at, quarter
    <2> QED
      BY <2>1, <2>2, FiscalYearIs
  <1>7. \A i \in 1..4 : /\ quarter[i].start = InstantAt(Q(i - 1), policy)
                        /\ quarter[i].end = InstantAt(Q(i), policy)
    <2> HIDE DEF s, quarter
    <2> SUFFICES ASSUME NEW i \in 1..4
                 PROVE  /\ quarter[i].start = InstantAt(Q(i - 1), policy)
                        /\ quarter[i].end = InstantAt(Q(i), policy)
      OBVIOUS
    <2>1. i - 1 \in 0..3 /\ (i - 1) + 1 = i
      OBVIOUS
    <2>2. AddMonths(Q(i - 1), 3) = Q((i - 1) + 1)
      BY <1>5, <2>1
    <2> QED
      BY <1>6, <2>1, <2>2
  <1>8. Covers(at["FISCAL_YEAR"], moment)
    <2>1. Ordinal(s) \in Int /\ Ordinal(AddMonths(s, 12)) \in Int
      <3>1. IsDate(s)
        BY <1>4 DEF Anchored
      <3>2. IsDate(AddMonths(s, 12))
        BY <3>1, MonthsAdded
      <3> QED
        BY <3>1, <3>2, DateTyped
    <2>2. InstantAt(s, policy) <= moment /\ moment < InstantAt(AddMonths(s, 12), policy)
      BY <1>4, <2>1, HoldsInstant
    <2> QED
      BY <1>6, <2>2 DEF Covers
  <1>9. quarter[1].start = named.start /\ quarter[4].end = named.end
    <2> HIDE DEF s, quarter, named, at
    <2>1. quarter[1].start = InstantAt(Q(0), policy) /\ quarter[4].end = InstantAt(Q(4), policy)
      <3>1. 1 \in 1..4 /\ 4 \in 1..4 /\ 1 - 1 = 0
        OBVIOUS
      <3> QED
        BY <1>7, <3>1
    <2>2. Q(4) = AddMonths(s, 12)
      OBVIOUS
    <2> QED
      BY <1>5, <1>6, <2>1, <2>2
  <1>10. \A i \in 1..3 : Meet(quarter[i], quarter[i + 1])
    <2> HIDE DEF s, quarter
    <2> SUFFICES ASSUME NEW i \in 1..3
                 PROVE  Meet(quarter[i], quarter[i + 1])
      OBVIOUS
    <2>1. i \in 1..4 /\ i + 1 \in 1..4 /\ (i + 1) - 1 = i
      OBVIOUS
    <2>2. quarter[i].end = InstantAt(Q(i), policy) /\ quarter[i + 1].start = InstantAt(Q((i + 1) - 1), policy)
      BY <1>7, <2>1
    <2> QED
      BY <2>1, <2>2 DEF Meet
  <1>11. \E i \in 1..4 : /\ quarter[i].start = at["FISCAL_QUARTER_TO_DATE"].start
                         /\ Covers(quarter[i], moment)
    <2>1. PICK j \in 0..3 : /\ FiscalQuarterStart(today, policy) = Q(j)
                            /\ Ordinal(Q(j)) <= Ordinal(today)
                            /\ Ordinal(today) < Ordinal(Q(j + 1))
      BY <1>1, FiscalQuarterHolds
    <2>2. at["FISCAL_QUARTER_TO_DATE"].start = InstantAt(FiscalQuarterStart(today, policy), policy)
      <3> DEFINE f == Only("FISCAL_QUARTER_TO_DATE")
                 q == FiscalQuarterStart(today, policy)
      <3>1. at["FISCAL_QUARTER_TO_DATE"] = Primary(f, policy, moment)
        BY <1>2
      <3>2. f.period = "FISCAL_QUARTER_TO_DATE"
        BY DEF Only, Intent
      <3>3. Shapes["FISCAL_QUARTER_TO_DATE"] = Shape("fiscal quarter", "MONTH", 0, 0)
        BY ShapesAre
      <3>4. Running(Shapes[f.period]) /\ Shapes[f.period].of = "fiscal quarter"
        BY <3>2, <3>3, RunningShape, ZenonT(60)
      <3>5. Origin(f, policy, today, "fiscal quarter") = q
        BY OriginsAre
      <3>6. IsDate(q)
        BY <1>5, <2>1
      <3> HIDE DEF f, q, at
      <3>7. Primary(f, policy, moment).start = InstantAt(q, policy)
        BY <3>4, <3>5, <3>6, RunningStarts
      <3> QED
        BY <3>1, <3>7 DEF q
    <2>3. j \in 0..3 /\ j + 1 \in 0..4 /\ j + 1 \in 1..4 /\ (j + 1) - 1 = j
      OBVIOUS
    <2> HIDE DEF at, quarter, s
    <2>4. Ordinal(Q(j)) \in Int /\ Ordinal(Q(j + 1)) \in Int
      <3>1. IsDate(Q(j))
        BY <1>5, <2>3
      <3>2. AddMonths(Q(j), 3) = Q(j + 1)
        BY <1>5, <2>3
      <3>3. 3 \in Int /\ IsDate(AddMonths(Q(j), 3))
        BY <3>1, MonthsAdded
      <3> QED
        BY <3>1, <3>2, <3>3, DateTyped
    <2>5. InstantAt(Q(j), policy) <= moment /\ moment < InstantAt(Q(j + 1), policy)
      BY <2>1, <2>4, HoldsInstant
    <2>6. quarter[j + 1].start = InstantAt(Q(j), policy) /\ quarter[j + 1].end = InstantAt(Q(j + 1), policy)
      <3>1. quarter[j + 1].start = InstantAt(Q((j + 1) - 1), policy)
        BY <1>7, <2>3
      <3>2. quarter[j + 1].end = InstantAt(Q(j + 1), policy)
        BY <1>7, <2>3
      <3> QED
        BY <2>3, <3>1, <3>2
    <2>7. quarter[j + 1].start = at["FISCAL_QUARTER_TO_DATE"].start
      BY <2>1, <2>2, <2>6
    <2>8. Covers(quarter[j + 1], moment)
      BY <2>5, <2>6 DEF Covers
    <2> QED
      BY <2>3, <2>7, <2>8
  <1>12. Tiled(at, named, quarter, moment)
    <2>1. named = at["FISCAL_YEAR"]
      BY <1>6
    <2> HIDE DEF at, named, quarter
    <2> QED
      BY <1>3, <1>8, <1>9, <1>10, <1>11, <2>1 DEF Tiled
  <1> QED
    BY <1>12 DEF Tiles

-----------------------------------------------------------------------------
(* The column that carries a question's period *)

(* A set of places in a list, and the same places in the list reversed. *)
Mirrored(s, t, n) ==
    /\ s \subseteq 1..n /\ t \subseteq 1..n
    /\ \A i \in 1..n : i \in s <=> (n + 1 - i) \in t

LEMMA MirroredBack ==
    ASSUME NEW n \in Nat, NEW s, NEW t, Mirrored(s, t, n)
    PROVE  Mirrored(t, s, n)
  <1> SUFFICES ASSUME NEW i \in 1..n
               PROVE  i \in t <=> (n + 1 - i) \in s
    BY DEF Mirrored
  <1>1. n + 1 - i \in 1..n /\ n + 1 - (n + 1 - i) = i
    OBVIOUS
  <1> QED
    BY <1>1 DEF Mirrored

LEMMA MirroredSole ==
    ASSUME NEW n \in Nat, NEW s, NEW t, Mirrored(s, t, n), NEW i \in s, s = {i}
    PROVE  (n + 1 - i) \in t /\ t = {n + 1 - i}
  <1>1. i \in 1..n /\ s \subseteq 1..n /\ t \subseteq 1..n
    BY DEF Mirrored
  <1>2. n + 1 - i \in t
    BY <1>1 DEF Mirrored
  <1>3. ASSUME NEW j \in t
        PROVE  j = n + 1 - i
    <2>1. j \in 1..n
      BY <1>1
    <2>2. n + 1 - j \in s
      BY <2>1, MirroredBack DEF Mirrored
    <2>3. n + 1 - j = i
      BY <2>2
    <2> QED
      BY <1>1, <2>1, <2>3
  <1> QED
    BY <1>2, <1>3

LEMMA MirrorsAgree ==
    ASSUME NEW n \in Nat, NEW s, NEW t, Mirrored(s, t, n)
    PROVE  (s = {} <=> t = {}) /\ (Sole(s) <=> Sole(t))
  <1>1. Mirrored(t, s, n)
    BY MirroredBack
  <1>2. ASSUME NEW a, NEW b, Mirrored(a, b, n), b = {}
        PROVE  a = {}
    <2>1. ASSUME NEW i \in a
          PROVE  n + 1 - i \in b
      BY <1>2 DEF Mirrored
    <2> QED
      BY <1>2, <2>1
  <1>3. ASSUME NEW a, NEW b, Mirrored(a, b, n), Sole(a)
        PROVE  Sole(b)
    <2>1. PICK i \in a : a = {i}
      BY <1>3 DEF Sole
    <2>2. (n + 1 - i) \in b /\ b = {n + 1 - i}
      BY <1>3, <2>1, MirroredSole
    <2> QED
      BY <2>2 DEF Sole
  <1> QED
    BY <1>1, <1>2, <1>3

(* What settles a choice is one of the sets it is made from, and leaves no choice. *)
LEMMA PreferredIs ==
    ASSUME NEW rungs, DOMAIN rungs \subseteq Nat
    PROVE  LET single == {k \in DOMAIN rungs : Sole(rungs[k])}
           IN  \/ single = {} /\ Preferred(rungs) = {}
               \/ \E k \in single : /\ \A j \in single : k <= j
                                    /\ Preferred(rungs) = rungs[k]
  <1> DEFINE single == {k \in DOMAIN rungs : Sole(rungs[k])}
             first == CHOOSE k \in single : \A j \in single : k <= j
  <1>1. CASE single = {}
    BY <1>1 DEF Preferred
  <1>2. CASE single # {}
    <2>1. single \subseteq Nat
      OBVIOUS
    <2>2. Preferred(rungs) = rungs[first]
      BY <1>2 DEF Preferred
    <2> HIDE DEF single
    <2>3. \E k \in single : \A j \in single : k <= j
      BY <1>2, <2>1, LeastOf
    <2>4. first \in single /\ \A j \in single : first <= j
      BY <2>3
    <2> HIDE DEF first
    <2> QED
      BY <2>2, <2>4 DEF single
  <1> QED
    BY <1>1, <1>2

LEMMA MirroredPreferred ==
    ASSUME NEW n \in Nat, NEW rungs, NEW others, DOMAIN rungs \subseteq Nat,
           DOMAIN others = DOMAIN rungs, \A k \in DOMAIN rungs : Mirrored(rungs[k], others[k], n)
    PROVE  Mirrored(Preferred(rungs), Preferred(others), n)
  <1> DEFINE single == {k \in DOMAIN rungs : Sole(rungs[k])}
             alike == {k \in DOMAIN others : Sole(others[k])}
  <1>1. single = alike
    BY MirrorsAgree
  <1>2. single \subseteq Nat /\ single \subseteq DOMAIN rungs
    OBVIOUS
  <1>3. \/ single = {} /\ Preferred(rungs) = {}
        \/ \E k \in single : (\A j \in single : k <= j) /\ Preferred(rungs) = rungs[k]
    BY PreferredIs
  <1>4. \/ alike = {} /\ Preferred(others) = {}
        \/ \E k \in alike : (\A j \in alike : k <= j) /\ Preferred(others) = others[k]
    BY PreferredIs
  <1> HIDE DEF single, alike
  <1>5. CASE single = {}
    BY <1>1, <1>3, <1>4, <1>5 DEF Mirrored
  <1>6. CASE single # {}
    <2>1. PICK k \in single : (\A j \in single : k <= j) /\ Preferred(rungs) = rungs[k]
      BY <1>3, <1>6
    <2>2. PICK l \in single : (\A j \in single : l <= j) /\ Preferred(others) = others[l]
      BY <1>1, <1>4, <1>6
    <2>3. k = l
      BY <1>2, <2>1, <2>2
    <2> QED
      BY <1>2, <2>1, <2>2, <2>3
  <1> QED
    BY <1>5, <1>6

(* The sets a column is chosen from hold confirmed columns in scope. *)
LEMMA RungsAre ==
    ASSUME NEW ds, NEW tables, NEW requested, NEW named
    PROVE  LET rungs == Rungs(ds, tables, requested, named)
               available == CandidatesForTables(ds, tables)
           IN  /\ DOMAIN rungs = 1..5
               /\ \A k \in 1..5 : rungs[k] \subseteq available
               /\ rungs[1] = {i \in available : ds[i].id = requested}
               /\ \A k \in 1..5 : \A i \in rungs[k], j \in available :
                     Alike(ds[j], ds[i], requested, named) => j \in rungs[k]
  <1> DEFINE rungs == Rungs(ds, tables, requested, named)
             available == CandidatesForTables(ds, tables)
             said == {i \in available : ds[i].id \in named}
             considered == IF said = {} \/ Sole(said) THEN available ELSE said
  <1>1. rungs = <<{i \in available : ds[i].id = requested}, said,
                  {i \in considered : ds[i].default},
                  {i \in considered : ds[i].role = "EVENT_TIME"}, considered>>
    BY DEF Rungs
  <1>2. considered \subseteq available /\ said \subseteq available
    OBVIOUS
  <1>5. \A i, j \in available :
           Alike(ds[j], ds[i], requested, named) =>
              /\ ds[i].id = requested => ds[j].id = requested
              /\ i \in said => j \in said
              /\ ds[i].default => ds[j].default
              /\ ds[i].role = "EVENT_TIME" => ds[j].role = "EVENT_TIME"
    BY Zenon DEF Alike
  <1>6. considered = available \/ considered = said
    OBVIOUS
  <1> HIDE DEF said, considered, rungs, available
  <1>3. /\ DOMAIN rungs = 1..5
        /\ rungs[1] = {i \in available : ds[i].id = requested}
        /\ rungs[2] = said
        /\ rungs[3] = {i \in considered : ds[i].default}
        /\ rungs[4] = {i \in considered : ds[i].role = "EVENT_TIME"}
        /\ rungs[5] = considered
    BY <1>1
  <1>4. \A k \in 1..5 : rungs[k] \subseteq available
    <2> SUFFICES ASSUME NEW k \in 1..5
                 PROVE  rungs[k] \subseteq available
      OBVIOUS
    <2>1. k = 1 \/ k = 2 \/ k = 3 \/ k = 4 \/ k = 5
      OBVIOUS
    <2> QED
      BY <1>2, <1>3, <2>1
  <1>7. ASSUME NEW k \in 1..5, NEW i \in rungs[k], NEW j \in available,
               Alike(ds[j], ds[i], requested, named)
        PROVE  j \in rungs[k]
    <2>1. i \in available
      BY <1>4, <1>7
    <2>2. /\ ds[i].id = requested => ds[j].id = requested
          /\ i \in said => j \in said
          /\ ds[i].default => ds[j].default
          /\ ds[i].role = "EVENT_TIME" => ds[j].role = "EVENT_TIME"
      BY <1>5, <1>7, <2>1, Zenon
    <2>3. i \in considered => j \in considered
      BY <1>6, <1>7, <2>2, Zenon
    <2>4. k = 1 \/ k = 2 \/ k = 3 \/ k = 4 \/ k = 5
      OBVIOUS
    <2>5. CASE k = 1
      BY <1>3, <1>7, <2>2, <2>5, Zenon
    <2>6. CASE k = 2
      BY <1>3, <1>7, <2>2, <2>6, Zenon
    <2>7. CASE k = 3
      BY <1>3, <1>7, <2>2, <2>3, <2>7, Zenon
    <2>8. CASE k = 4
      BY <1>3, <1>7, <2>2, <2>3, <2>8, Zenon
    <2>9. CASE k = 5
      BY <1>3, <1>7, <2>3, <2>9, Zenon
    <2> QED
      BY <2>4, <2>5, <2>6, <2>7, <2>8, <2>9
  <1> QED
    BY <1>3, <1>4, <1>7, Zenon DEF rungs, available

LEMMA MirroredRungs ==
    ASSUME NEW ds, NEW n \in Nat, Len(ds) = n, NEW rs, Len(rs) = n,
           \A i \in 1..n : rs[n + 1 - i] = ds[i],
           NEW tables, NEW requested, NEW named
    PROVE  LET rungs == Rungs(ds, tables, requested, named)
               others == Rungs(rs, tables, requested, named)
           IN  \A k \in 1..5 : Mirrored(rungs[k], others[k], n)
  <1> DEFINE a == CandidatesForTables(ds, tables)
             b == CandidatesForTables(rs, tables)
             said == {i \in a : ds[i].id \in named}
             told == {i \in b : rs[i].id \in named}
             c == IF said = {} \/ Sole(said) THEN a ELSE said
             d == IF told = {} \/ Sole(told) THEN b ELSE told
             rungs == Rungs(ds, tables, requested, named)
             others == Rungs(rs, tables, requested, named)
  <1>0. \A i \in 1..n : n + 1 - i \in 1..n
    OBVIOUS
  <1>1. Mirrored(a, b, n)
    <2>1. a = {i \in 1..n : ds[i].status = "CONFIRMED" /\ ds[i].table \in tables}
      BY DEF CandidatesForTables
    <2>2. b = {i \in 1..n : rs[i].status = "CONFIRMED" /\ rs[i].table \in tables}
      BY DEF CandidatesForTables
    <2> HIDE DEF a, b
    <2> QED
      BY <1>0, <2>1, <2>2 DEF Mirrored
  <1>2. /\ rungs = <<{i \in a : ds[i].id = requested}, said, {i \in c : ds[i].default},
                     {i \in c : ds[i].role = "EVENT_TIME"}, c>>
        /\ others = <<{i \in b : rs[i].id = requested}, told, {i \in d : rs[i].default},
                      {i \in d : rs[i].role = "EVENT_TIME"}, d>>
    BY DEF Rungs
  <1> HIDE DEF a, b, rungs, others
  <1>3. Mirrored(said, told, n)
    <2>1. \A i \in 1..n : i \in said <=> i \in a /\ ds[i].id \in named
      OBVIOUS
    <2>2. \A i \in 1..n : i \in told <=> i \in b /\ rs[i].id \in named
      OBVIOUS
    <2>3. said \subseteq 1..n /\ told \subseteq 1..n
      BY <1>1 DEF Mirrored
    <2> HIDE DEF said, told
    <2> QED
      BY <1>0, <1>1, <2>1, <2>2, <2>3 DEF Mirrored
  <1> HIDE DEF said, told
  <1>4. Mirrored(c, d, n)
    BY <1>1, <1>3, MirrorsAgree
  <1> HIDE DEF c, d
  <1>5. Mirrored({i \in a : ds[i].id = requested}, {i \in b : rs[i].id = requested}, n)
    BY <1>0, <1>1 DEF Mirrored
  <1>6. Mirrored({i \in c : ds[i].default}, {i \in d : rs[i].default}, n)
    BY <1>0, <1>4 DEF Mirrored
  <1>7. Mirrored({i \in c : ds[i].role = "EVENT_TIME"}, {i \in d : rs[i].role = "EVENT_TIME"}, n)
    BY <1>0, <1>4 DEF Mirrored
  <1>8. \A k \in 1..5 : Mirrored(rungs[k], others[k], n)
    <2> DEFINE a1 == {i \in a : ds[i].id = requested}
               b1 == {i \in b : rs[i].id = requested}
               a3 == {i \in c : ds[i].default}
               b3 == {i \in d : rs[i].default}
               a4 == {i \in c : ds[i].role = "EVENT_TIME"}
               b4 == {i \in d : rs[i].role = "EVENT_TIME"}
    <2>1. rungs = <<a1, said, a3, a4, c>> /\ others = <<b1, told, b3, b4, d>>
      BY <1>2
    <2>2. Mirrored(a1, b1, n) /\ Mirrored(a3, b3, n) /\ Mirrored(a4, b4, n)
      BY <1>5, <1>6, <1>7
    <2> HIDE DEF a1, b1, a3, b3, a4, b4
    <2>3. /\ rungs[1] = a1 /\ rungs[2] = said /\ rungs[3] = a3 /\ rungs[4] = a4 /\ rungs[5] = c
          /\ others[1] = b1 /\ others[2] = told /\ others[3] = b3 /\ others[4] = b4 /\ others[5] = d
      BY <2>1
    <2> SUFFICES ASSUME NEW k \in 1..5
                 PROVE  Mirrored(rungs[k], others[k], n)
      OBVIOUS
    <2>4. k = 1 \/ k = 2 \/ k = 3 \/ k = 4 \/ k = 5
      OBVIOUS
    <2> QED
      BY <1>3, <1>4, <2>2, <2>3, <2>4
  <1> QED
    BY <1>8 DEF rungs, others

LEMMA ReversedMirrors ==
    ASSUME NEW S, NEW ds \in Seq(S)
    PROVE  /\ Len(ds) \in Nat /\ Len(Reversed(ds)) = Len(ds)
           /\ \A i \in 1..Len(ds) : Reversed(ds)[Len(ds) + 1 - i] = ds[i]
  <1> DEFINE n == Len(ds)
  <1>1. n \in Nat
    OBVIOUS
  <1>2. Reversed(ds) = [i \in 1..n |-> ds[n + 1 - i]]
    BY DEF Reversed
  <1>3. \A i \in 1..n : ds[n + 1 - i] \in S
    <2> SUFFICES ASSUME NEW i \in 1..n
                 PROVE  ds[n + 1 - i] \in S
      OBVIOUS
    <2>1. n + 1 - i \in 1..n
      BY <1>1
    <2> QED
      BY <2>1
  <1> HIDE DEF n
  <1>4. Reversed(ds) \in Seq(S) /\ Len(Reversed(ds)) = n
    BY <1>1, <1>2, <1>3
  <1>5. ASSUME NEW i \in 1..n
        PROVE  Reversed(ds)[n + 1 - i] = ds[i]
    <2>1. n + 1 - i \in 1..n /\ n + 1 - (n + 1 - i) = i
      BY <1>1
    <2> QED
      BY <1>2, <2>1
  <1> QED
    BY <1>1, <1>4, <1>5 DEF n

(* The choice does not depend on the order of the list. *)
LEMMA ChosenInAnyOrder ==
    ASSUME NEW S, NEW ds \in Seq(S), NEW tables, NEW requested, NEW named
    PROVE  Choose(Reversed(ds), tables, requested, named) = Choose(ds, tables, requested, named)
  <1> DEFINE n == Len(ds)
             rs == Reversed(ds)
             rungs == Rungs(ds, tables, requested, named)
             others == Rungs(rs, tables, requested, named)
             s == Preferred(rungs)
             t == Preferred(others)
             i == CHOOSE x \in s : TRUE
             j == CHOOSE x \in t : TRUE
  <1>1. n \in Nat /\ Len(rs) = n /\ \A x \in 1..n : rs[n + 1 - x] = ds[x]
    BY ReversedMirrors
  <1> HIDE DEF n, rs
  <1>2. DOMAIN rungs = 1..5 /\ DOMAIN others = 1..5
    BY RungsAre
  <1>3. \A k \in 1..5 : Mirrored(rungs[k], others[k], n)
    BY <1>1, MirroredRungs DEF n
  <1>4. /\ Choose(ds, tables, requested, named) =
              [chosen |-> IF s = {} THEN NoDimension ELSE ds[i], asked |-> s = {} /\ rungs[5] # {}]
        /\ Choose(rs, tables, requested, named) =
              [chosen |-> IF t = {} THEN NoDimension ELSE rs[j], asked |-> t = {} /\ others[5] # {}]
    BY DEF Choose
  <1> HIDE DEF rungs, others
  <1>5. Mirrored(s, t, n)
    <2>1. 1..5 \subseteq Nat
      OBVIOUS
    <2> QED
      BY <1>1, <1>2, <1>3, <2>1, MirroredPreferred
  <1>6. s = {} \/ Sole(s)
    <2>1. DOMAIN rungs \subseteq Nat
      BY <1>2
    <2> QED
      BY <2>1, PreferredIs
  <1>7. (rungs[5] = {} <=> others[5] = {}) /\ (s = {} <=> t = {})
    <2>1. 5 \in 1..5
      OBVIOUS
    <2> HIDE DEF s, t
    <2> QED
      BY <1>1, <1>3, <1>5, <2>1, MirrorsAgree
  <1> HIDE DEF s, t
  <1>8. s # {} => rs[j] = ds[i]
    <2> SUFFICES ASSUME s # {}
                 PROVE  rs[j] = ds[i]
      OBVIOUS
    <2>1. PICK x \in s : s = {x}
      BY <1>6 DEF Sole
    <2>2. t = {n + 1 - x}
      BY <1>1, <1>5, <2>1, MirroredSole
    <2>3. i = x /\ j = n + 1 - x
      BY <2>1, <2>2
    <2>4. x \in 1..n
      BY <1>5 DEF Mirrored
    <2> HIDE DEF i, j
    <2> QED
      BY <1>1, <2>3, <2>4
  <1> HIDE DEF i, j
  <1>9. Choose(rs, tables, requested, named) = Choose(ds, tables, requested, named)
    BY <1>4, <1>7, <1>8
  <1> QED
    BY <1>9 DEF rs

(* What is chosen is a confirmed column in scope, the one asked for if that is one, and
   no other is like it; where it is a matter of asking there are several. *)
LEMMA ChosenIsUsable ==
    ASSUME NEW S, NEW ds \in Seq(S), NEW tables, NEW requested, NEW named,
           \A i, j \in 1..Len(ds) : ds[i].id = ds[j].id => i = j
    PROVE  LET chosen == Choose(ds, tables, requested, named).chosen
               available == CandidatesForTables(ds, tables)
           IN  /\ \/ chosen = NoDimension
                  \/ \E i \in available :
                        /\ chosen = ds[i]
                        /\ \A j \in available : Alike(ds[j], ds[i], requested, named) => j = i
               /\ \A i \in available : ds[i].id = requested => chosen = ds[i]
               /\ Choose(ds, tables, requested, named).asked =>
                     \E i, j \in available : i # j
  <1> DEFINE rungs == Rungs(ds, tables, requested, named)
             available == CandidatesForTables(ds, tables)
             s == Preferred(rungs)
             x == CHOOSE i \in s : TRUE
             chosen == Choose(ds, tables, requested, named).chosen
  <1>1. /\ DOMAIN rungs = 1..5 /\ \A k \in 1..5 : rungs[k] \subseteq available
        /\ rungs[1] = {i \in available : ds[i].id = requested}
        /\ \A k \in 1..5 : \A i \in rungs[k], j \in available :
              Alike(ds[j], ds[i], requested, named) => j \in rungs[k]
    BY RungsAre
  <1>2. /\ chosen = IF s = {} THEN NoDimension ELSE ds[x]
        /\ Choose(ds, tables, requested, named).asked = (s = {} /\ rungs[5] # {})
    BY DEF Choose
  <1>3. available \subseteq 1..Len(ds)
    BY DEF CandidatesForTables
  <1> HIDE DEF rungs, available
  <1>4. \/ s = {} /\ {k \in DOMAIN rungs : Sole(rungs[k])} = {}
        \/ \E k \in 1..5 : /\ Sole(rungs[k]) /\ s = rungs[k]
                           /\ \A j \in 1..5 : Sole(rungs[j]) => k <= j
    <2>1. DOMAIN rungs \subseteq Nat
      BY <1>1
    <2> QED
      BY <1>1, <2>1, PreferredIs
  <1> HIDE DEF s, chosen
  <1>5. \/ chosen = NoDimension
        \/ \E i \in available :
              /\ chosen = ds[i]
              /\ \A j \in available : Alike(ds[j], ds[i], requested, named) => j = i
    <2> SUFFICES ASSUME s # {}
                 PROVE  \E i \in available :
                           /\ chosen = ds[i]
                           /\ \A j \in available : Alike(ds[j], ds[i], requested, named) => j = i
      BY <1>2
    <2>1. PICK k \in 1..5 : Sole(rungs[k]) /\ s = rungs[k]
      BY <1>4
    <2>2. PICK i \in rungs[k] : rungs[k] = {i}
      BY <2>1 DEF Sole
    <2>3. x = i
      BY <2>1, <2>2
    <2> HIDE DEF x
    <2>4. i \in available /\ chosen = ds[i]
      BY <1>1, <1>2, <2>3
    <2>5. ASSUME NEW j \in available, Alike(ds[j], ds[i], requested, named)
          PROVE  j = i
      <3>1. j \in rungs[k]
        BY <1>1, <2>5, Zenon
      <3> QED
        BY <2>2, <3>1
    <2> QED
      BY <2>4, <2>5
  <1>6. ASSUME NEW i \in available, ds[i].id = requested
        PROVE  chosen = ds[i]
    <2>1. rungs[1] = {i}
      <3>1. i \in rungs[1]
        BY <1>1, <1>6
      <3>2. ASSUME NEW j \in rungs[1]
            PROVE  j = i
        <4>1. j \in available /\ ds[j].id = ds[i].id
          BY <1>1, <1>6
        <4> QED
          BY <1>3, <4>1
      <3> QED
        BY <3>1, <3>2
    <2>2. Sole(rungs[1]) /\ 1 \in 1..5
      BY <2>1 DEF Sole
    <2>3. s = {i}
      <3>1. 1 \in {k \in DOMAIN rungs : Sole(rungs[k])}
        BY <1>1, <2>2
      <3>2. PICK k \in 1..5 : s = rungs[k] /\ \A j \in 1..5 : Sole(rungs[j]) => k <= j
        BY <1>4, <3>1
      <3>3. k = 1
        BY <2>2, <3>2
      <3> QED
        BY <2>1, <3>2, <3>3
    <2>4. x = i
      BY <2>3
    <2> HIDE DEF x
    <2> QED
      BY <1>2, <2>3, <2>4
  <1>7. ASSUME Choose(ds, tables, requested, named).asked
        PROVE  \E i, j \in available : i # j
    <2>1. s = {} /\ rungs[5] # {}
      BY <1>2, <1>7
    <2>2. 5 \in 1..5 /\ 5 \in DOMAIN rungs
      BY <1>1
    <2>3. ~Sole(rungs[5])
      <3> SUFFICES ASSUME Sole(rungs[5])
                   PROVE  FALSE
        OBVIOUS
      <3>1. PICK k \in 1..5 : Sole(rungs[k]) /\ s = rungs[k]
        BY <1>4, <2>2
      <3> QED
        BY <2>1, <3>1 DEF Sole
    <2>4. PICK i \in rungs[5] : TRUE
      BY <2>1
    <2>5. PICK j \in rungs[5] : j # i
      BY <2>3, <2>4 DEF Sole
    <2> QED
      BY <1>1, <2>2, <2>4, <2>5
  <1> QED
    BY <1>5, <1>6, <1>7 DEF chosen, available

(* What the store knows of a column that carries time, the rows of a table with a key. *)
Listed(ds, Names, Tables, Statuses, Roles) ==
    /\ ds \in Seq([id : Names, table : Tables, status : Statuses, role : Roles, default : BOOLEAN])
    /\ \A i, j \in 1..Len(ds) : ds[i].id = ds[j].id => i = j

(* A question's period is never dropped and its column never guessed (dimensions.py 224,
   planning.py 54): whatever columns the store lists, and in whatever order, the plan is
   the same; it asks only among several; and the column it settles on is one that no
   other candidate is like, the binding's own where that is a candidate. *)
THEOREM PlansAreDecided ==
    ASSUME NEW said, NEW policy, NEW ds, NEW Names, NEW Tables, NEW Statuses, NEW Roles,
           Listed(ds, Names, Tables, Statuses, Roles),
           NEW tables, NEW binding, NEW named, NEW moment
    PROVE  Decided(said, policy, ds, tables, binding, named, moment)
  <1> DEFINE Row == [id : Names, table : Tables, status : Statuses, role : Roles, default : BOOLEAN]
             n == Len(ds)
             rs == Reversed(ds)
             plan(l) == PlanTime(said, policy, l, tables, binding, named, moment)
             usable == {d \in {ds[i] : i \in 1..n} : d.status = "CONFIRMED"}
             scoped == {d \in usable : d.table \in tables}
             intent == Parse(said)
             choice == Choose(ds, tables, binding.dimension, named)
             available == CandidatesForTables(ds, tables)
             unread == NamesNothing(intent) \/ ~IsTemporal(intent)
             refused == binding.behavior = "SNAPSHOT" \/ ~Resolve(intent, policy, moment).resolved
             none(l) == \A i \in 1..Len(l) : l[i].status # "CONFIRMED"
  <1>1. ds \in Seq(Row) /\ \A i, j \in 1..n : ds[i].id = ds[j].id => i = j
    BY DEF Listed
  <1>2. /\ n \in Nat /\ Len(rs) = n
        /\ \A i \in 1..n : rs[n + 1 - i] = ds[i]
    BY <1>1, ReversedMirrors
  <1>3. \A i \in 1..n : ds[i] \in Row
    <2> HIDE DEF Row
    <2>1. ds \in Seq(Row) /\ n = Len(ds)
      BY <1>1
    <2> HIDE DEF n
    <2> QED
      BY <2>1
  <1>4. \A d \in Row : d # NoDimension
    <2> SUFFICES ASSUME NEW d \in Row, d = NoDimension
                 PROVE  FALSE
      OBVIOUS
    <2>1. "table" \in DOMAIN d
      OBVIOUS
    <2>2. "table" \notin DOMAIN NoDimension
      BY DEF NoDimension
    <2> QED
      BY <2>1, <2>2
  <1>5. /\ \/ choice.chosen = NoDimension
           \/ \E i \in available :
                 /\ choice.chosen = ds[i]
                 /\ \A j \in available : Alike(ds[j], ds[i], binding.dimension, named) => j = i
        /\ \A i \in available : ds[i].id = binding.dimension => choice.chosen = ds[i]
        /\ choice.asked => \E i, j \in available : i # j
    BY <1>1, ChosenIsUsable
  <1>6. Choose(rs, tables, binding.dimension, named) = choice
    BY <1>1, ChosenInAnyOrder
  <1>7. available = {i \in 1..n : ds[i].status = "CONFIRMED" /\ ds[i].table \in tables}
    BY DEF CandidatesForTables
  <1>8. \A l : plan(l) = IF unread \/ none(l)
                         THEN [outcome |-> "unfiltered", dimension |-> NoDimension]
                         ELSE IF Choose(l, tables, binding.dimension, named).chosen = NoDimension
                         THEN [outcome |-> IF Choose(l, tables, binding.dimension, named).asked
                                           THEN "clarify" ELSE "unsupported",
                               dimension |-> NoDimension]
                         ELSE IF refused
                         THEN [outcome |-> "unsupported", dimension |-> NoDimension]
                         ELSE [outcome |-> "resolved",
                               dimension |-> Choose(l, tables, binding.dimension, named).chosen]
    BY Zenon DEF PlanTime
  <1> HIDE DEF plan, Row, rs, choice, available, refused
  <1>9. none(rs) <=> none(ds)
    <2>1. \A i \in 1..n : n + 1 - i \in 1..n /\ n + 1 - (n + 1 - i) = i
      BY <1>2
    <2>2. \A i \in 1..n : rs[i] = ds[n + 1 - i]
      <3> SUFFICES ASSUME NEW i \in 1..n
                   PROVE  rs[i] = ds[n + 1 - i]
        OBVIOUS
      <3>1. n + 1 - i \in 1..n /\ n + 1 - (n + 1 - i) = i
        BY <1>2
      <3> QED
        BY <1>2, <3>1
    <2> HIDE DEF n
    <2>3. Len(rs) = n /\ Len(ds) = n
      BY <1>2 DEF n
    <2> QED
      BY <1>2, <2>1, <2>2, <2>3
  <1>10. plan(ds) = plan(rs)
    <2> HIDE DEF none, unread
    <2> QED
      BY <1>6, <1>8, <1>9 DEF choice
  <1>11. usable # {} /\ intent.period # "NONE" => plan(ds).outcome # "unfiltered"
    <2> SUFFICES ASSUME usable # {}, intent.period # "NONE"
                 PROVE  plan(ds).outcome # "unfiltered"
      OBVIOUS
    <2>1. ~unread
      BY DEF NamesNothing, IsTemporal
    <2>2. ~none(ds)
      OBVIOUS
    <2> HIDE DEF none, unread, usable, intent
    <2> QED
      BY <1>8, <2>1, <2>2
  <1>12. /\ \A i \in available : ds[i] \in scoped
         /\ \A e \in scoped : \E i \in available : e = ds[i]
    BY <1>7
  <1>13. available \subseteq 1..n
    BY <1>7
  <1> HIDE DEF scoped
  <1>14. ASSUME plan(ds).outcome = "clarify"
         PROVE  \E d, e \in scoped : d # e
    <2>1. choice.asked
      <3> HIDE DEF none, unread, intent
      <3> QED
        BY <1>8, <1>14 DEF choice
    <2>2. PICK i, j \in available : i # j
      BY <1>5, <2>1
    <2>3. ds[i] # ds[j]
      BY <1>1, <1>13, <2>2
    <2> QED
      BY <1>12, <2>3
  <1>15. ASSUME plan(ds).outcome = "resolved"
         PROVE  /\ plan(ds).dimension \in scoped
                /\ \A e \in scoped :
                      e.id = binding.dimension
                        \/ Alike(e, plan(ds).dimension, binding.dimension, named)
                          => plan(ds).dimension = e
    <2>1. plan(ds).dimension = choice.chosen /\ choice.chosen # NoDimension
      <3> HIDE DEF none, unread, intent
      <3> QED
        BY <1>8, <1>15 DEF choice
    <2>2. PICK i \in available :
             /\ choice.chosen = ds[i]
             /\ \A j \in available : Alike(ds[j], ds[i], binding.dimension, named) => j = i
      BY <1>5, <2>1
    <2>3. ASSUME NEW e \in scoped,
                 e.id = binding.dimension \/ Alike(e, ds[i], binding.dimension, named)
          PROVE  ds[i] = e
      <3>1. PICK k \in available : e = ds[k]
        BY <1>12
      <3>2. CASE e.id = binding.dimension
        BY <1>5, <2>2, <3>1, <3>2
      <3>3. CASE Alike(e, ds[i], binding.dimension, named)
        BY <2>2, <3>1, <3>3
      <3> QED
        BY <2>3, <3>2, <3>3
    <2>4. plan(ds).dimension = ds[i]
      BY <2>1, <2>2
    <2> HIDE DEF plan
    <2> QED
      BY <1>12, <2>3, <2>4
  <1>16. Undropped(plan(ds), plan(rs), intent.period, usable, scoped, binding, named)
    <2> HIDE DEF usable, intent
    <2> QED
      BY <1>10, <1>11, <1>14, <1>15 DEF Undropped
  <1> QED
    BY <1>16, Zenon DEF Decided, plan, rs, scoped, usable, intent, n

------------------------------------------------------------------------------
(* Names *)

(* A text of tokens whose words are given. *)
Spoken(text, Tokens, Vocabulary) ==
    /\ text \in Seq(Tokens)
    /\ Norm \in [Tokens -> Seq(Vocabulary)]

(* How many words come before the k-th token of a text. *)
WordsBefore(text, k) == Cardinality(Places(text, k - 1))

(* The words before a token are those before the token it follows, and that token's. *)
LEMMA WordsAddUp ==
    ASSUME NEW text, NEW Tokens, NEW Vocabulary, Spoken(text, Tokens, Vocabulary)
    PROVE  /\ Len(text) \in Nat /\ DOMAIN text = 1..Len(text)
           /\ \A k \in 1..Len(text) : Norm[text[k]] \in Seq(Vocabulary) /\ Len(Norm[text[k]]) \in Nat
           /\ \A k \in 1..(Len(text) + 1) : WordsBefore(text, k) \in Nat
           /\ WordsBefore(text, 1) = 0
           /\ \A k \in 1..Len(text) : WordsBefore(text, k + 1) = WordsBefore(text, k) + Len(Norm[text[k]])
  <1> DEFINE n == Len(text)
             P(k) == Places(text, k)
             At(k) == {k} \X DOMAIN Norm[text[k]]
             bad == {k \in 0..n : ~IsFiniteSet(P(k))}
  <1>1. n \in Nat /\ DOMAIN text = 1..n /\ \A k \in 1..n : text[k] \in Tokens
    BY DEF Spoken
  <1>2. \A k \in 1..n : Norm[text[k]] \in Seq(Vocabulary) /\ Len(Norm[text[k]]) \in Nat
                        /\ DOMAIN Norm[text[k]] = 1..Len(Norm[text[k]])
    BY <1>1 DEF Spoken
  <1>3. P(0) = {}
    <2>1. 1..0 = {}
      OBVIOUS
    <2> QED
      BY <2>1 DEF Places
  <1>4. ASSUME NEW k \in 1..n
        PROVE  P(k) = P(k - 1) \cup At(k) /\ P(k - 1) \cap At(k) = {}
    <2>1. k \in Nat /\ 1..k = 1..(k - 1) \cup {k} /\ k \notin 1..(k - 1)
      BY <1>1
    <2> QED
      BY <2>1 DEF Places
  <1>5. ASSUME NEW k \in 1..n
        PROVE  IsFiniteSet(At(k)) /\ Cardinality(At(k)) = Len(Norm[text[k]])
    <2> DEFINE m == Len(Norm[text[k]])
               f == [j \in 1..m |-> <<k, j>>]
               S == {k} \X (1..m)
    <2>1. m \in Nat /\ At(k) = S
      BY <1>2
    <2>2. f \in Bijection(1..m, S)
      <3>1. \A x \in S : \E j \in 1..m : f[j] = x
        OBVIOUS
      <3>2. f \in [1..m -> S] /\ \A i, j \in 1..m : f[i] = f[j] => i = j
        OBVIOUS
      <3> HIDE DEF f, S, m
      <3> QED
        BY <3>1, <3>2 DEF Bijection, Injection, Surjection, IsInjective
    <2> HIDE DEF m, f, S
    <2>3. IsFiniteSet(1..m) /\ Cardinality(1..m) = m
      BY <2>1, FS_Interval
    <2>4. ExistsBijection(1..m, S)
      BY <2>2 DEF ExistsBijection
    <2>5. IsFiniteSet(S) /\ Cardinality(S) = m
      BY <2>3, <2>4, FS_Bijection
    <2> QED
      BY <2>1, <2>5 DEF m
  <1>6. \A k \in 0..n : IsFiniteSet(P(k))
    <2>1. SUFFICES ASSUME bad # {}
                   PROVE  FALSE
      OBVIOUS
    <2>2. bad \subseteq Nat
      BY <1>1
    <2> HIDE DEF bad
    <2>3. PICK k \in bad : \A j \in bad : k <= j
      BY <2>1, <2>2, LeastOf
    <2>4. k \in 0..n /\ ~IsFiniteSet(P(k))
      BY DEF bad
    <2>5. k # 0
      BY <2>4, <1>3, FS_EmptySet
    <2>6. k \in 1..n /\ k - 1 \in 0..n /\ ~(k <= k - 1)
      BY <2>4, <2>5, <1>1
    <2>7. IsFiniteSet(P(k - 1))
      BY <2>3, <2>6 DEF bad
    <2>8. IsFiniteSet(P(k - 1) \cup At(k))
      BY <2>6, <2>7, <1>5, FS_Union
    <2> QED
      BY <2>4, <2>6, <2>8, <1>4
  <1>7. \A k \in 1..(n + 1) : WordsBefore(text, k) = Cardinality(P(k - 1)) /\ Cardinality(P(k - 1)) \in Nat
    <2>1. \A k \in 1..(n + 1) : k - 1 \in 0..n
      BY <1>1
    <2> QED
      BY <2>1, <1>6, FS_CardinalityType DEF WordsBefore
  <1>8. WordsBefore(text, 1) = 0
    BY <1>3, FS_EmptySet DEF WordsBefore
  <1>9. ASSUME NEW k \in 1..n
        PROVE  WordsBefore(text, k + 1) = WordsBefore(text, k) + Len(Norm[text[k]])
    <2>1. k - 1 \in 0..n /\ (k + 1) - 1 = k
      BY <1>1
    <2>2. Cardinality(P(k - 1) \cup At(k)) =
            Cardinality(P(k - 1)) + Cardinality(At(k)) - Cardinality(P(k - 1) \cap At(k))
      BY <2>1, <1>5, <1>6, FS_Union
    <2>3. Cardinality(P(k)) = Cardinality(P(k - 1)) + Len(Norm[text[k]])
      <3>1. Cardinality(P(k - 1)) \in Nat
        BY <2>1, <1>6, FS_CardinalityType
      <3>2. Cardinality(P(k - 1) \cap At(k)) = 0
        BY <1>4, FS_EmptySet
      <3>3. Cardinality(P(k)) = Cardinality(P(k - 1) \cup At(k))
        BY <1>4
      <3>4. Cardinality(At(k)) = Len(Norm[text[k]]) /\ Len(Norm[text[k]]) \in Nat
        BY <1>2, <1>5
      <3> HIDE DEF P, At
      <3> QED
        BY <2>2, <3>1, <3>2, <3>3, <3>4
    <2> QED
      BY <2>1, <2>3 DEF WordsBefore
  <1> QED
    BY <1>1, <1>2, <1>7, <1>8, <1>9

(* They never become fewer. *)
LEMMA WordsGrow ==
    ASSUME NEW text, NEW Tokens, NEW Vocabulary, Spoken(text, Tokens, Vocabulary),
           NEW i \in 1..(Len(text) + 1), NEW k \in 1..(Len(text) + 1), i <= k
    PROVE  WordsBefore(text, i) <= WordsBefore(text, k)
  <1> DEFINE n == Len(text)
             bad == {j \in i..(n + 1) : ~(WordsBefore(text, i) <= WordsBefore(text, j))}
  <1>1. n \in Nat /\ \A j \in 1..(n + 1) : WordsBefore(text, j) \in Nat
    BY WordsAddUp
  <1>2. SUFFICES ASSUME bad # {}
                 PROVE  FALSE
    BY <1>1
  <1>3. bad \subseteq Nat
    BY <1>1
  <1> HIDE DEF bad
  <1>4. PICK j \in bad : \A m \in bad : j <= m
    BY <1>2, <1>3, LeastOf
  <1>5. j \in i..(n + 1) /\ ~(WordsBefore(text, i) <= WordsBefore(text, j))
    BY DEF bad
  <1>6. j # i
    BY <1>1, <1>5
  <1>7. j - 1 \in 1..n /\ j - 1 \in i..(n + 1) /\ ~(j <= j - 1) /\ (j - 1) + 1 = j
    BY <1>1, <1>5, <1>6
  <1>8. WordsBefore(text, i) <= WordsBefore(text, j - 1)
    BY <1>4, <1>7 DEF bad
  <1>9. WordsBefore(text, j) = WordsBefore(text, j - 1) + Len(Norm[text[j - 1]]) /\ Len(Norm[text[j - 1]]) \in Nat
    BY <1>7, WordsAddUp
  <1>10. WordsBefore(text, j - 1) \in Nat /\ WordsBefore(text, i) \in Nat
    BY <1>1, <1>7
  <1> QED
    BY <1>5, <1>8, <1>9, <1>10

(* The words of a text are those of its tokens, each at its place, and no others. *)
LEMMA WordsAreThose ==
    ASSUME NEW text, NEW Tokens, NEW Vocabulary, Spoken(text, Tokens, Vocabulary)
    PROVE  /\ Words(text) \in Seq(Vocabulary)
           /\ Len(Words(text)) = WordsBefore(text, Len(text) + 1)
           /\ \A k \in 1..Len(text) : \A j \in 1..Len(Norm[text[k]]) :
                 /\ WordsBefore(text, k) + j \in 1..Len(Words(text))
                 /\ Words(text)[WordsBefore(text, k) + j] = Norm[text[k]][j]
           /\ \A m \in 1..Len(Words(text)) : \E k \in 1..Len(text) : \E j \in 1..Len(Norm[text[k]]) :
                 m = WordsBefore(text, k) + j
  <1> DEFINE n == Len(text)
             Ahead(k) == WordsBefore(text, k)
             total == Ahead(n + 1)
             L(k) == Len(Norm[text[k]])
             pick(m) == CHOOSE k \in DOMAIN text : m - Cardinality(Places(text, k - 1)) \in DOMAIN Norm[text[k]]
             W == [m \in 1..total |-> Norm[text[pick(m)]][m - Cardinality(Places(text, pick(m) - 1))]]
  <1>1. /\ n \in Nat /\ DOMAIN text = 1..n /\ Ahead(1) = 0
        /\ \A k \in 1..(n + 1) : Ahead(k) \in Nat
        /\ \A k \in 1..n : L(k) \in Nat /\ Ahead(k + 1) = Ahead(k) + L(k)
    BY WordsAddUp
  <1>2. total \in Nat /\ total = Cardinality(Places(text, n))
    <2>1. n + 1 \in 1..(n + 1) /\ (n + 1) - 1 = n
      BY <1>1
    <2> QED
      BY <2>1, <1>1 DEF WordsBefore
  <1>3. Words(text) = W
    BY <1>2 DEF Words
  <1>4. \A k \in 1..n : Norm[text[k]] \in Seq(Vocabulary) /\ DOMAIN Norm[text[k]] = 1..L(k)
    BY WordsAddUp
  <1>5. ASSUME NEW m \in 1..total
        PROVE  \E k \in 1..n : \E j \in 1..L(k) : m = Ahead(k) + j
    <2> DEFINE T == {k \in 1..(n + 1) : m <= Ahead(k)}
    <2>1. n + 1 \in T
      BY <1>1
    <2>2. T \subseteq Nat
      BY <1>1
    <2> HIDE DEF T
    <2>3. PICK k \in T : \A i \in T : k <= i
      BY <2>1, <2>2, LeastOf
    <2>4. k \in 1..(n + 1) /\ m <= Ahead(k)
      BY DEF T
    <2>5. k # 1
      BY <2>4, <1>1
    <2>6. k - 1 \in 1..n /\ (k - 1) + 1 = k /\ ~(k <= k - 1) /\ k - 1 \in 1..(n + 1)
      BY <2>4, <2>5, <1>1
    <2>7. ~(m <= Ahead(k - 1))
      BY <2>3, <2>6 DEF T
    <2>8. Ahead(k) = Ahead(k - 1) + L(k - 1) /\ Ahead(k - 1) \in Nat /\ L(k - 1) \in Nat
      BY <2>6, <1>1
    <2>9. m - Ahead(k - 1) \in 1..L(k - 1) /\ m = Ahead(k - 1) + (m - Ahead(k - 1))
      BY <2>4, <2>7, <2>8
    <2> QED
      BY <2>6, <2>9
  <1>6. ASSUME NEW k \in 1..n, NEW j \in 1..L(k)
        PROVE  /\ Ahead(k) + j \in 1..total /\ pick(Ahead(k) + j) = k
               /\ (Ahead(k) + j) - Cardinality(Places(text, k - 1)) = j
    <2> DEFINE m == Ahead(k) + j
    <2>1. k \in 1..(n + 1) /\ k + 1 \in 1..(n + 1) /\ n + 1 \in 1..(n + 1) /\ k + 1 <= n + 1
      BY <1>1
    <2>2. Ahead(k) \in Nat /\ L(k) \in Nat /\ Ahead(k + 1) = Ahead(k) + L(k) /\ Ahead(k + 1) <= total
      BY <2>1, <1>1, WordsGrow
    <2>3. m \in 1..total
      BY <2>2, <1>2, SMTT(60)
    <2>4. \A i \in 1..n : Cardinality(Places(text, i - 1)) = Ahead(i)
      BY DEF WordsBefore
    <2>5. m - Ahead(k) = j /\ j \in DOMAIN Norm[text[k]]
      BY <2>2, <1>4
    <2>6. ASSUME NEW i \in 1..n, m - Ahead(i) \in DOMAIN Norm[text[i]]
          PROVE  i = k
      <3>1. m - Ahead(i) \in 1..L(i)
        BY <2>6, <1>4
      <3>2. i \in 1..(n + 1) /\ i + 1 \in 1..(n + 1) /\ i \in Int /\ k \in Int
        BY <1>1
      <3>3. Ahead(i) \in Nat /\ L(i) \in Nat /\ Ahead(i + 1) = Ahead(i) + L(i)
        BY <3>2, <1>1
      <3>4. CASE i < k
        <4>1. i + 1 <= k
          BY <3>2, <3>4
        <4>2. Ahead(i + 1) <= Ahead(k)
          BY <4>1, <3>2, <2>1, WordsGrow
        <4> QED
          BY <4>2, <3>1, <3>3, <2>2, SMTT(30)
      <3>5. CASE k < i
        <4>1. k + 1 <= i
          BY <3>2, <3>5
        <4>2. Ahead(k + 1) <= Ahead(i)
          BY <4>1, <3>2, <2>1, WordsGrow
        <4> QED
          BY <4>2, <3>1, <3>3, <2>2, SMTT(30)
      <3> QED
        BY <3>2, <3>4, <3>5
    <2> HIDE DEF m, Ahead, L
    <2>7. pick(m) = k
      BY <2>4, <2>5, <2>6, <1>1
    <2> QED
      BY <2>3, <2>4, <2>5, <2>7 DEF m
  <1> HIDE DEF pick, Ahead, L
  <1>7. ASSUME NEW k \in 1..n, NEW j \in 1..L(k)
        PROVE  W[Ahead(k) + j] = Norm[text[k]][j] /\ Norm[text[k]][j] \in Vocabulary
    <2>1. \A m \in 1..total :
             W[m] = Norm[text[pick(m)]][m - Cardinality(Places(text, pick(m) - 1))]
      OBVIOUS
    <2>2. Ahead(k) + j \in 1..total
      BY <1>6
    <2>3. W[Ahead(k) + j] = Norm[text[k]][j]
      BY <2>1, <2>2, <1>6, Zenon
    <2>4. Norm[text[k]][j] \in Vocabulary
      BY <1>4 DEF L
    <2> QED
      BY <2>3, <2>4
  <1> HIDE DEF total
  <1> HIDE DEF W
  <1>8. \A m \in 1..total : W[m] \in Vocabulary
    BY <1>5, <1>7
  <1>9. W \in Seq(Vocabulary) /\ Len(W) = total
    <2>1. W \in [1..total -> Vocabulary]
      BY <1>8 DEF W
    <2> QED
      BY <2>1, <1>2
  <1> QED
    BY <1>3, <1>5, <1>6, <1>7, <1>9 DEF total, Ahead, L

(* The words of a window of a text are a window of its words. *)
LEMMA WordsOfAWindow ==
    ASSUME NEW text, NEW Tokens, NEW Vocabulary, Spoken(text, Tokens, Vocabulary),
           NEW a \in 1..Len(text), NEW b \in a..Len(text)
    PROVE  /\ Spoken(SubSeq(text, a, b), Tokens, Vocabulary)
           /\ WordsBefore(text, a) + Len(Words(SubSeq(text, a, b))) <= Len(Words(text))
           /\ \A m \in 1..Len(Words(SubSeq(text, a, b))) :
                 Words(SubSeq(text, a, b))[m] = Words(text)[WordsBefore(text, a) + m]
  <1> DEFINE n == Len(text)
             w == SubSeq(text, a, b)
             Ahead(k) == WordsBefore(text, k)
             C(k) == WordsBefore(w, k)
             bad == {k \in 1..(Len(w) + 1) : Ahead(a + k - 1) # Ahead(a) + C(k)}
  <1>1. /\ n \in Nat /\ DOMAIN text = 1..n /\ Ahead(1) = 0
        /\ \A k \in 1..(n + 1) : Ahead(k) \in Nat
        /\ \A k \in 1..n : Len(Norm[text[k]]) \in Nat /\ Ahead(k + 1) = Ahead(k) + Len(Norm[text[k]])
    BY WordsAddUp
  <1>2. /\ w \in Seq(Tokens) /\ Len(w) = b - a + 1
        /\ \A k \in 1..Len(w) : a + k - 1 \in 1..n /\ w[k] = text[a + k - 1]
    <2>1. text \in Seq(Tokens)
      BY DEF Spoken
    <2> QED
      BY <2>1, <1>1
  <1>3. Spoken(w, Tokens, Vocabulary)
    BY <1>2 DEF Spoken
  <1>4. /\ Len(w) \in Nat /\ C(1) = 0
        /\ \A k \in 1..(Len(w) + 1) : C(k) \in Nat
        /\ \A k \in 1..Len(w) : C(k + 1) = C(k) + Len(Norm[w[k]])
    BY <1>3, WordsAddUp
  <1> HIDE DEF w, Ahead, C
  <1>5. bad = {}
    <2>1. SUFFICES ASSUME bad # {}
                   PROVE  FALSE
      OBVIOUS
    <2>2. bad \subseteq Nat
      BY <1>4
    <2> HIDE DEF bad
    <2>3. PICK k \in bad : \A j \in bad : k <= j
      BY <2>1, <2>2, LeastOf
    <2>4. k \in 1..(Len(w) + 1) /\ Ahead(a + k - 1) # Ahead(a) + C(k)
      BY DEF bad
    <2>5. k # 1
      <3>1. a + 1 - 1 = a /\ Ahead(a) \in Nat
        BY <1>1
      <3> QED
        BY <2>4, <3>1, <1>4
    <2>6. k - 1 \in 1..Len(w) /\ k - 1 \in 1..(Len(w) + 1) /\ ~(k <= k - 1) /\ (k - 1) + 1 = k
      BY <2>4, <2>5, <1>4
    <2>7. Ahead(a + (k - 1) - 1) = Ahead(a) + C(k - 1)
      BY <2>3, <2>6 DEF bad
    <2>8. a + (k - 1) - 1 \in 1..n /\ w[k - 1] = text[a + (k - 1) - 1]
      BY <2>6, <1>2
    <2>9. Ahead((a + (k - 1) - 1) + 1) = Ahead(a + (k - 1) - 1) + Len(Norm[w[k - 1]])
      BY <2>8, <1>1
    <2>10. C(k) = C(k - 1) + Len(Norm[w[k - 1]])
      BY <2>6, <1>4
    <2>11. (a + (k - 1) - 1) + 1 = a + k - 1
      BY <2>4, <1>4
    <2>12. Ahead(a) \in Nat /\ C(k - 1) \in Nat /\ Len(Norm[w[k - 1]]) \in Nat
      BY <2>6, <2>8, <1>1, <1>4, SMTT(30)
    <2> QED
      BY <2>4, <2>7, <2>9, <2>10, <2>11, <2>12, SMTT(60)
  <1>6. \A k \in 1..(Len(w) + 1) : Ahead(a + k - 1) = Ahead(a) + C(k)
    BY <1>5
  <1>7. Len(Words(w)) = C(Len(w) + 1) /\ Len(Words(text)) = Ahead(n + 1)
    BY <1>3, WordsAreThose DEF Ahead, C
  <1>8. Ahead(a) + Len(Words(w)) <= Len(Words(text))
    <2>1. Len(w) + 1 \in 1..(Len(w) + 1) /\ a + (Len(w) + 1) - 1 = b + 1
      BY <1>2, <1>4
    <2>2. Ahead(b + 1) = Ahead(a) + Len(Words(w))
      BY <2>1, <1>6, <1>7
    <2>3. b + 1 \in 1..(n + 1) /\ n + 1 \in 1..(n + 1) /\ b + 1 <= n + 1
      BY <1>1
    <2>4. Ahead(b + 1) <= Ahead(n + 1)
      BY <2>3, WordsGrow DEF Ahead
    <2> QED
      BY <2>2, <2>4, <1>7
  <1>9. ASSUME NEW m \in 1..Len(Words(w))
        PROVE  Words(w)[m] = Words(text)[Ahead(a) + m]
    <2>0. PICK k \in 1..Len(w) : \E j \in 1..Len(Norm[w[k]]) : m = C(k) + j
      BY <1>3, WordsAreThose DEF C
    <2>1. PICK j \in 1..Len(Norm[w[k]]) : m = C(k) + j
      BY <2>0
    <2>2. Words(w)[m] = Norm[w[k]][j]
      BY <2>1, <1>3, WordsAreThose DEF C
    <2>3. a + k - 1 \in 1..n /\ w[k] = text[a + k - 1]
      BY <1>2
    <2>4. Words(text)[Ahead(a + k - 1) + j] = Norm[w[k]][j]
      BY <2>3, WordsAreThose, SMTT(60) DEF Ahead
    <2>5. Ahead(a + k - 1) + j = Ahead(a) + m
      <3>1. k \in 1..(Len(w) + 1) /\ Ahead(a) \in Nat /\ C(k) \in Nat /\ j \in Int
        BY <1>1, <1>4, SMTT(60)
      <3> QED
        BY <3>1, <2>1, <1>6, SMTT(60)
    <2> QED
      BY <2>2, <2>4, <2>5
  <1> QED
    BY <1>3, <1>8, <1>9 DEF w, Ahead

(* What a sequence has at some place of it, it contains. *)
LEMMA ContainedAtAPlace ==
    ASSUME NEW V, NEW q \in Seq(V), NEW v \in Seq(V), NEW o \in Nat, o + Len(v) <= Len(q),
           \A m \in 1..Len(v) : v[m] = q[o + m]
    PROVE  ContainsWord(q, v)
  <1>1. Len(q) \in Nat /\ Len(v) \in Nat
    OBVIOUS
  <1>2. o + 1 \in 1..(Len(q) - Len(v) + 1)
    BY <1>1
  <1>3. Window(q, o + 1, Len(v)) = SubSeq(q, o + 1, o + Len(v))
    <2>1. ~(o + 1 + Len(v) - 1 > Len(q)) /\ o + 1 + Len(v) - 1 = o + Len(v)
      BY <1>1
    <2> QED
      BY <2>1 DEF Window
  <1>4. SubSeq(q, o + 1, o + Len(v)) = v
    <2> DEFINE s == SubSeq(q, o + 1, o + Len(v))
    <2>1. s = [m \in 1..Len(v) |-> q[o + 1 + m - 1]]
      <3>1. (o + Len(v)) - (o + 1) + 1 = Len(v)
        BY <1>1
      <3> QED
        BY <3>1, <1>1 
    <2>2. s = [m \in 1..Len(v) |-> v[m]]
      <3>1. \A m \in 1..Len(v) : q[o + 1 + m - 1] = v[m]
        BY <1>1
      <3> QED
        BY <2>1, <3>1
    <2>3. v = [m \in 1..Len(v) |-> v[m]]
      OBVIOUS
    <2> QED
      BY <2>2, <2>3
  <1> QED
    BY <1>2, <1>3, <1>4 DEF ContainsWord

(* And its first element with it. *)
LEMMA ContainsTheFirst ==
    ASSUME NEW V, NEW q \in Seq(V), NEW v \in Seq(V), v # <<>>, ContainsWord(q, v)
    PROVE  ContainsWord(q, <<v[1]>>)
  <1>1. Len(q) \in Nat /\ Len(v) \in Nat \ {0} /\ v[1] \in V
    OBVIOUS
  <1>2. PICK i \in 1..(Len(q) - Len(v) + 1) : Window(q, i, Len(v)) = v
    BY DEF ContainsWord
  <1>3. i \in Nat /\ i - 1 \in Nat /\ i + Len(v) - 1 <= Len(q)
    BY <1>1
  <1>4. SubSeq(q, i, i + Len(v) - 1) = v
    BY <1>1, <1>2, <1>3 DEF Window
  <1>5. v[1] = q[i]
    <2>1. SubSeq(q, i, i + Len(v) - 1)[1] = q[i]
      BY <1>1, <1>3
    <2> QED
      BY <2>1, <1>4
  <1>6. <<v[1]>> \in Seq(V) /\ Len(<<v[1]>>) = 1 /\ <<v[1]>>[1] = v[1]
    BY <1>1
  <1>7. (i - 1) + 1 <= Len(q) /\ q[(i - 1) + 1] = q[i]
    BY <1>1, <1>3
  <1>8. (i - 1) + Len(<<v[1]>>) <= Len(q) /\ \A m \in 1..Len(<<v[1]>>) : <<v[1]>>[m] = q[(i - 1) + m]
    <2>1. \A m \in 1..1 : m = 1
      OBVIOUS
    <2> QED
      BY <2>1, <1>5, <1>6, <1>7
  <1> QED
    BY <1>3, <1>6, <1>8, ContainedAtAPlace

(* A text of which a token has a word has one. *)
LEMMA SomethingIsSaid ==
    ASSUME NEW text, NEW Tokens, NEW Vocabulary, Spoken(text, Tokens, Vocabulary),
           NEW k \in 1..Len(text), Norm[text[k]] # <<>>
    PROVE  Words(text) # <<>>
  <1>1. Norm[text[k]] \in Seq(Vocabulary)
    BY WordsAddUp
  <1>2. 1 \in 1..Len(Norm[text[k]])
    BY <1>1
  <1>3. WordsBefore(text, k) + 1 \in 1..Len(Words(text)) /\ Words(text) \in Seq(Vocabulary)
    BY <1>2, WordsAreThose
  <1> DEFINE w == Words(text)
             m == WordsBefore(text, k) + 1
  <1>4. m \in 1..Len(w) /\ w \in Seq(Vocabulary)
    BY <1>3
  <1> HIDE DEF w, m
  <1>5. w # <<>>
    BY <1>4
  <1> QED
    BY <1>5 DEF w

(* So that a question contains the words of its every window. *)
LEMMA WindowsAreContained ==
    ASSUME NEW text, NEW Tokens, NEW Vocabulary, Spoken(text, Tokens, Vocabulary),
           NEW a \in 1..Len(text), NEW b \in a..Len(text)
    PROVE  ContainsWord(Words(text), Words(SubSeq(text, a, b)))
  <1> DEFINE v == Words(SubSeq(text, a, b))
             o == WordsBefore(text, a)
  <1>1. Spoken(SubSeq(text, a, b), Tokens, Vocabulary) /\ o + Len(v) <= Len(Words(text))
        /\ \A m \in 1..Len(v) : v[m] = Words(text)[o + m]
    BY WordsOfAWindow
  <1>2. Words(text) \in Seq(Vocabulary) /\ v \in Seq(Vocabulary)
    BY <1>1, WordsAreThose
  <1>3. o \in Nat
    <2>1. Len(text) \in Nat /\ a \in 1..(Len(text) + 1)
      BY WordsAddUp
    <2> QED
      BY <2>1, WordsAddUp
  <1> HIDE DEF v, o
  <1>4. ContainsWord(Words(text), v)
    BY <1>1, <1>2, <1>3, ContainedAtAPlace
  <1> QED
    BY <1>4 DEF v

LEMMA ForemostAre ==
    ASSUME NEW n \in Nat, NEW S, S \subseteq Nat
    PROVE  /\ Foremost(n, S) \subseteq S
           /\ n > 0 /\ S # {} => Foremost(n, S) # {}
           /\ IsFiniteSet(S) /\ ~(Cardinality(S) > n) => Foremost(n, S) = S
  <1>1. Foremost(n, S) \subseteq S
    BY DEF Foremost
  <1>2. ASSUME n > 0, S # {}
        PROVE  Foremost(n, S) # {}
    <2>1. PICK i \in S : \A j \in S : i <= j
      BY <1>2, LeastOf
    <2>2. {j \in S : j < i} = {}
      <3>1. i \in Nat /\ \A j \in S : j \in Nat /\ i <= j
        BY <2>1
      <3>2. \A j \in S : ~(j < i)
        BY <3>1
      <3> QED
        BY <3>2
    <2>3. Cardinality({j \in S : j < i}) = 0
      BY <2>2, FS_EmptySet
    <2>4. i \in Foremost(n, S)
      BY <2>3, <1>2 DEF Foremost
    <2> QED
      BY <2>4
  <1>3. ASSUME IsFiniteSet(S), ~(Cardinality(S) > n), NEW i \in S
        PROVE  i \in Foremost(n, S)
    <2> DEFINE T == {j \in S : j < i}
    <2>1. T \in SUBSET S /\ i \notin T
      OBVIOUS
    <2> HIDE DEF T
    <2>2. IsFiniteSet(T) /\ Cardinality(T) <= Cardinality(S) /\ Cardinality(S) # Cardinality(T)
      BY <1>3, <2>1, FS_Subset
    <2>3. Cardinality(T) \in Nat /\ Cardinality(S) \in Nat
      BY <1>3, <2>2, FS_CardinalityType
    <2>4. Cardinality(T) < n
      BY <1>3, <2>2, <2>3
    <2> QED
      BY <2>4 DEF Foremost, T
  <1> QED
    BY <1>1, <1>2, <1>3

(* The settings of the lookup. *)
LookupSettings(Tokens) ==
    /\ MaxTerms \in Nat /\ MaxCandidates \in Nat \ {0}
    /\ ByLength \in Seq(Tokens)

(* What is considered for a term: the question, windows of it, and single tokens. *)
LEMMA FragmentsAreThose ==
    ASSUME NEW Tokens, LookupSettings(Tokens), NEW text \in Seq(Tokens)
    PROVE  Fragments(text) \in
             Seq({f \in Seq(Tokens) : \/ \E a \in 1..Len(text) : \E b \in a..Len(text) : f = SubSeq(text, a, b)
                                      \/ f = text \/ Len(f) = 1})
  <1> DEFINE n == Len(text)
             In(f) == \E a \in 1..n : \E b \in a..n : f = SubSeq(text, a, b)
             F == {f \in Seq(Tokens) : In(f) \/ f = text \/ Len(f) = 1}
             widest == IF n < 4 THEN n ELSE 4
             ending == [i \in 1..(widest - 1) |-> SubSeq(text, n - (widest - i), n)]
             single == [i \in DOMAIN ByLength |-> <<ByLength[i]>>]
             window(w) == [i \in 1..(n - w + 1) |-> SubSeq(text, i, i + w - 1)]
  <1>1. n \in Nat /\ DOMAIN text = 1..n
    OBVIOUS
  <1>2. ASSUME NEW a \in 1..n, NEW b \in a..n
        PROVE  SubSeq(text, a, b) \in F
    <2>1. SubSeq(text, a, b) \in Seq(Tokens)
      BY <1>1
    <2> QED
      BY <2>1
  <1>3. \A k \in Int : \A f : f \in [1..k -> F] => f \in Seq(F)
    <2>1. ASSUME NEW k \in Int, NEW f \in [1..k -> F]
          PROVE  f \in Seq(F)
      <3>1. CASE k \in Nat
        <4> HIDE DEF F
        <4> QED
          BY <3>1
      <3>2. CASE k \notin Nat
        <4>1. 1..k = 1..0
          BY <3>2
        <4> HIDE DEF F
        <4> QED
          BY <4>1
      <3> QED
        BY <3>1, <3>2
    <2> QED
      BY <2>1
  <1>4. <<text>> \in Seq(F)
    <2>1. text \in F
      OBVIOUS
    <2> HIDE DEF F
    <2> QED
      BY <2>1
  <1>5. ending \in Seq(F)
    <2>1. \A i \in 1..(widest - 1) : n - (widest - i) \in 1..n /\ n \in (n - (widest - i))..n
      BY <1>1
    <2>2. ending \in [1..(widest - 1) -> F]
      BY <2>1, <1>2
    <2>3. widest - 1 \in Int
      BY <1>1
    <2> HIDE DEF F, ending, widest
    <2> QED
      BY <2>2, <2>3, <1>3
  <1>6. single \in Seq(F)
    <2>1. ByLength \in Seq(Tokens)
      BY DEF LookupSettings
    <2>2. Len(ByLength) \in Int /\ DOMAIN ByLength = 1..Len(ByLength)
      BY <2>1
    <2>3. \A i \in 1..Len(ByLength) : <<ByLength[i]>> \in F
      BY <2>1
    <2>4. single \in [1..Len(ByLength) -> F]
      BY <2>2, <2>3
    <2> HIDE DEF F, single
    <2> QED
      BY <2>2, <2>4, <1>3
  <1>7. ASSUME NEW w \in 1..4
        PROVE  window(w) \in Seq(F)
    <2>1. \A i \in 1..(n - w + 1) : i \in 1..n /\ i + w - 1 \in i..n
      BY <1>1
    <2>2. window(w) \in [1..(n - w + 1) -> F]
      BY <2>1, <1>2
    <2>3. n - w + 1 \in Int
      BY <1>1
    <2> HIDE DEF F, window
    <2> QED
      BY <2>2, <2>3, <1>3
  <1>8. Fragments(text) = <<text>> \o ending \o single \o window(4) \o window(3) \o window(2) \o window(1)
    BY DEF Fragments
  <1>9. Fragments(text) \in Seq(F)
    <2>1. 1 \in 1..4 /\ 2 \in 1..4 /\ 3 \in 1..4 /\ 4 \in 1..4
      OBVIOUS
    <2> HIDE DEF F, window, ending, single
    <2> QED
      BY <2>1, <1>4, <1>5, <1>6, <1>7, <1>8
  <1> QED
    BY <1>9

(* Every term that is looked up is a window of the question. *)
LEMMA TermsAreWindows ==
    ASSUME NEW Tokens, LookupSettings(Tokens), NEW text \in Seq(Tokens),
           NEW t \in Range(SearchTerms(text))
    PROVE  \E a \in 1..Len(text) : \E b \in a..Len(text) : t = SubSeq(text, a, b)
  <1> DEFINE n == Len(text)
             In(f) == \E a \in 1..n : \E b \in a..n : f = SubSeq(text, a, b)
             F == {f \in Seq(Tokens) : In(f) \/ f = text \/ Len(f) = 1}
  <1>1. n \in Nat /\ DOMAIN text = 1..n
    OBVIOUS
  <1>9. Fragments(text) \in Seq(F)
    BY FragmentsAreThose
  <1>10. PICK i \in DOMAIN Fragments(text) :
            /\ t = Fragments(text)[i] /\ Range(t) \subseteq Range(text) /\ ~TooShort(t)
    BY DEF SearchTerms, Range, Foremost
  <1>11. t \in F
    <2> HIDE DEF F
    <2> QED
      BY <1>9, <1>10
  <1>12. t # <<>>
    BY <1>10 DEF TooShort
  <1>13. CASE t = text
    <2>1. 1 \in 1..n /\ n \in 1..n /\ SubSeq(text, 1, n) = text
      BY <1>1, <1>12, <1>13
    <2> QED
      BY <2>1, <1>13
  <1>14. CASE t \in Seq(Tokens) /\ Len(t) = 1
    <2>1. t[1] \in Range(text)
      BY <1>10, <1>14 DEF Range
    <2>2. PICK a \in 1..n : text[a] = t[1]
      BY <2>1, <1>1 DEF Range
    <2>3. SubSeq(text, a, a) = t
      BY <2>2, <1>1, <1>14
    <2>4. a \in a..n
      BY <1>1
    <2> QED
      BY <2>3, <2>4
  <1> QED
    BY <1>11, <1>13, <1>14

(* The rows that answer are those of one attempt, and no attempt of a stronger
   strategy finds any. *)
LEMMA AnsweringAre ==
    ASSUME NEW Tokens, LookupSettings(Tokens), NEW text \in Seq(Tokens), NEW rows
    PROVE  LET terms == Range(SearchTerms(text))
           IN  /\ Answering(rows, text) \subseteq DOMAIN rows
               /\ Answering(rows, text) # {} =>
                    \E s \in 1..4 : \E t \in terms :
                       /\ Answering(rows, text) = {r \in DOMAIN rows : Satisfies(rows[r], Strategies[s], t)}
                       /\ \A z \in 1..4 : \A u \in terms : \A r \in DOMAIN rows :
                             Satisfies(rows[r], Strategies[z], u) => s <= z
               /\ \A z \in 1..4 : \A u \in terms : \A r \in DOMAIN rows :
                     Satisfies(rows[r], Strategies[z], u) => Answering(rows, text) # {}
  <1> DEFINE terms == SearchTerms(text)
             found(a) == {r \in DOMAIN rows : Satisfies(rows[r], Strategies[a[1]], terms[a[2]])}
             hits == {a \in (1..4) \X DOMAIN terms : found(a) # {}}
             Best(a) == \A b \in hits : a[1] < b[1] \/ (a[1] = b[1] /\ a[2] <= b[2])
             first == CHOOSE a \in hits : Best(a)
  <1>1. Answering(rows, text) = IF hits = {} THEN {} ELSE found(first)
    BY DEF Answering
  <1>2. DOMAIN terms \subseteq Nat
    <2>1. Len(Fragments(text)) \in Nat /\ DOMAIN Fragments(text) \subseteq Nat
      BY FragmentsAreThose
    <2> QED
      BY <2>1 DEF SearchTerms, Foremost
  <1>3. ASSUME hits # {}
        PROVE  first \in hits /\ Best(first)
    <2> DEFINE S == {a[1] : a \in hits}
    <2>1. S \subseteq Nat /\ S # {}
      BY <1>3
    <2> HIDE DEF S
    <2>2. PICK s \in S : \A z \in S : s <= z
      BY <2>1, LeastOf
    <2> DEFINE T == {a[2] : a \in {b \in hits : b[1] = s}}
    <2>3. T \subseteq Nat /\ T # {}
      BY <1>2, <2>2 DEF S
    <2> HIDE DEF T
    <2>4. PICK t \in T : \A z \in T : t <= z
      BY <2>3, LeastOf
    <2>5. PICK a \in hits : a[1] = s /\ a[2] = t
      BY <2>4 DEF T
    <2>6. ASSUME NEW b \in hits
          PROVE  a[1] < b[1] \/ (a[1] = b[1] /\ a[2] <= b[2])
      <3>1. b[1] \in S /\ b[1] \in Nat /\ a[1] \in Nat
        BY <2>5 DEF S
      <3>2. a[1] <= b[1]
        BY <3>1, <2>2, <2>5
      <3>3. CASE a[1] = b[1]
        <4>1. b[2] \in T
          BY <3>3, <2>5 DEF T
        <4> QED
          BY <4>1, <3>3, <2>4, <2>5
      <3> QED
        BY <3>1, <3>2, <3>3
    <2>7. Best(a)
      BY <2>6
    <2> HIDE DEF Best, hits
    <2> QED
      BY <2>7
  <1>4. ASSUME NEW z \in 1..4, NEW u \in Range(terms), NEW r \in DOMAIN rows,
               Satisfies(rows[r], Strategies[z], u)
        PROVE  hits # {} /\ first[1] <= z
    <2>1. PICK i \in DOMAIN terms : terms[i] = u
      BY DEF Range
    <2>2. <<z, i>> \in (1..4) \X DOMAIN terms /\ <<z, i>>[1] = z /\ <<z, i>>[2] = i
      BY <2>1
    <2>3. r \in found(<<z, i>>)
      BY <1>4, <2>1, <2>2
    <2>4. <<z, i>> \in hits
      BY <2>2, <2>3
    <2>5. first \in hits /\ (first[1] < z \/ first[1] = z)
      <3>1. first \in hits /\ Best(first)
        BY <1>3, <2>4
      <3> HIDE DEF first, hits
      <3> QED
        BY <2>2, <2>4, <3>1, SMTT(60)
    <2>6. first[1] \in Nat
      <3> HIDE DEF first, found
      <3> QED
        BY <2>5
    <2> HIDE DEF first, hits
    <2> QED
      BY <2>4, <2>5, <2>6
  <1>5. ASSUME hits # {}
        PROVE  first[1] \in 1..4 /\ terms[first[2]] \in Range(terms) /\ Answering(rows, text) = found(first)
    <2>1. first \in hits
      BY <1>3, <1>5
    <2>2. first[1] \in 1..4 /\ first[2] \in DOMAIN terms
      <3> HIDE DEF first, found
      <3> QED
        BY <2>1
    <2>3. Answering(rows, text) = found(first)
      BY <1>1, <1>5
    <2> HIDE DEF first, found
    <2> QED
      BY <2>2, <2>3 DEF Range
  <1>6. Answering(rows, text) \subseteq DOMAIN rows /\ (Answering(rows, text) # {} => hits # {})
    <2> HIDE DEF first, hits
    <2> QED
      BY <1>1
  <1>7. ASSUME hits # {}
        PROVE  Answering(rows, text) # {}
    <2>1. first \in hits
      BY <1>3, <1>7
    <2>2. found(first) # {}
      <3> HIDE DEF first, found
      <3> QED
        BY <2>1, SMTT(60)
    <2> HIDE DEF first, found
    <2> QED
      BY <2>2, <1>5, <1>7
  <1>8. Answering(rows, text) # {} =>
          Answering(rows, text) = {r \in DOMAIN rows : Satisfies(rows[r], Strategies[first[1]], terms[first[2]])}
    BY <1>5, <1>6
  <1> HIDE DEF first, hits, found, terms
  <1> QED
    BY <1>4, <1>5, <1>6, <1>7, <1>8 DEF terms

(* The first of some values that differs from another. *)
LEMMA FirstButIs ==
    ASSUME NEW none, NEW f, DOMAIN f = 1..4
    PROVE  \/ FirstBut(f, none) = none /\ \A i \in 1..4 : f[i] = none
           \/ \E i \in 1..4 : /\ FirstBut(f, none) = f[i] /\ f[i] # none
                              /\ \A j \in 1..4 : j < i => f[j] = none
  <1> DEFINE T == {i \in 1..4 : f[i] # none}
             P(i) == f[i] # none /\ \A j \in 1..(i - 1) : f[j] = none
  <1>1. CASE T = {}
    BY <1>1 DEF FirstBut
  <1>2. CASE T # {}
    <2>1. T \subseteq Nat
      OBVIOUS
    <2> HIDE DEF T
    <2>2. PICK i \in T : \A j \in T : i <= j
      BY <1>2, <2>1, LeastOf
    <2>3. i \in 1..4 /\ f[i] # none
      BY DEF T
    <2>4. \A j \in 1..(i - 1) : f[j] = none
      BY <2>2, <2>3 DEF T
    <2>5. \E k \in DOMAIN f : P(k)
      BY <2>3, <2>4
    <2>6. (CHOOSE k \in DOMAIN f : P(k)) \in 1..4 /\ P(CHOOSE k \in DOMAIN f : P(k))
      <3> HIDE DEF P
      <3> QED
        BY <2>5
    <2>7. FirstBut(f, none) = f[CHOOSE k \in DOMAIN f : P(k)]
      BY <2>3 DEF FirstBut
    <2> DEFINE k == CHOOSE k \in DOMAIN f : P(k)
    <2>8. k \in 1..4 /\ P(k)
      BY <2>6
    <2> HIDE DEF k
    <2>9. \A j \in 1..4 : j < k => j \in 1..(k - 1)
      BY <2>8
    <2> QED
      BY <2>7, <2>8, <2>9 DEF k
  <1> QED
    BY <1>1, <1>2

(* Rows that the lookup may read, keyed by one token and labelled by some words. *)
Keyed(rows, Tokens) ==
    /\ rows \in Seq([key : Tokens, display : Seq(Tokens)])
    /\ \A i \in 1..Len(rows) : Words(rows[i].display) # <<>>

(* A strategy below the key looks at the label alone. *)
LEMMA LabelDecides ==
    ASSUME NEW s \in 2..4, NEW r, NEW z, NEW t, r.display = z.display
    PROVE  Satisfies(r, Strategies[s], t) <=> Satisfies(z, Strategies[s], t)
  <1>1. Strategies[s] \in {"exact", "prefix", "within"}
    BY DEF Strategies
  <1> QED
    BY <1>1 DEF Satisfies

(* A token's words are the text's of it alone. *)
LEMMA WordsOfAToken ==
    ASSUME NEW Tokens, NEW Vocabulary, Norm \in [Tokens -> Seq(Vocabulary)], NEW t \in Tokens
    PROVE  Words(<<t>>) = Norm[t]
  <1> DEFINE x == <<t>>
  <1>1. Spoken(x, Tokens, Vocabulary) /\ Len(x) = 1 /\ x[1] = t
    BY DEF Spoken
  <1> HIDE DEF x
  <1>2. /\ Norm[t] \in Seq(Vocabulary) /\ Len(Norm[t]) \in Nat
        /\ WordsBefore(x, 1) = 0 /\ WordsBefore(x, 1 + 1) = Len(Norm[t])
    <2>1. Norm[t] \in Seq(Vocabulary) /\ Len(Norm[t]) \in Nat
      OBVIOUS
    <2>2. WordsBefore(x, 1) = 0 /\ WordsBefore(x, 1 + 1) = WordsBefore(x, 1) + Len(Norm[x[1]])
      <3>1. /\ WordsBefore(x, 1) = 0
            /\ \A k \in 1..Len(x) : WordsBefore(x, k + 1) = WordsBefore(x, k) + Len(Norm[x[k]])
        BY <1>1, WordsAddUp
      <3>2. 1 \in 1..Len(x)
        BY <1>1
      <3> QED
        BY <3>1, <3>2
    <2> QED
      BY <1>1, <2>1, <2>2
  <1>3. /\ Words(x) \in Seq(Vocabulary) /\ Len(Words(x)) = Len(Norm[t])
        /\ \A j \in 1..Len(Norm[t]) : Words(x)[0 + j] = Norm[t][j]
    <2>1. Words(x) \in Seq(Vocabulary) /\ Len(Words(x)) = WordsBefore(x, 1 + 1)
      BY <1>1, WordsAreThose
    <2>2. \A j \in 1..Len(Norm[x[1]]) : Words(x)[WordsBefore(x, 1) + j] = Norm[x[1]][j]
      BY <1>1, WordsAreThose, SMTT(30)
    <2> QED
      BY <1>1, <1>2, <2>1, <2>2
  <1>4. \A j \in 1..Len(Norm[t]) : 0 + j = j
    BY <1>2
  <1>5. Words(x) = Norm[t]
    BY <1>2, <1>3, <1>4
  <1> QED
    BY <1>5 DEF x

(* The matcher goes by the first strategy of the ladder that matches a candidate. *)
LEMMA LadderDecides ==
    ASSUME NEW text, NEW C
    PROVE  LET match(i) == MatchCandidates(Ladder[i], Words(text), C)
           IN  \/ ResolveCandidates(text, C) = {} /\ \A i \in 1..4 : match(i) = {}
               \/ \E i \in 1..4 : /\ ResolveCandidates(text, C) = match(i) /\ match(i) # {}
                                  /\ \A j \in 1..4 : j < i => match(j) = {}
  <1> DEFINE f == [i \in DOMAIN Ladder |-> MatchCandidates(Ladder[i], Words(text), C)]
             m(i) == MatchCandidates(Ladder[i], Words(text), C)
  <1>1. DOMAIN f = 1..4
    BY DEF Ladder
  <1>2. \A i \in 1..4 : f[i] = m(i)
    BY <1>1
  <1>3. ResolveCandidates(text, C) = FirstBut(f, {})
    BY DEF ResolveCandidates
  <1> HIDE DEF f, m
  <1>4. \/ FirstBut(f, {}) = {} /\ \A i \in 1..4 : f[i] = {}
        \/ \E i \in 1..4 : /\ FirstBut(f, {}) = f[i] /\ f[i] # {}
                           /\ \A j \in 1..4 : j < i => f[j] = {}
    BY <1>1, FirstButIs
  <1>5. \/ ResolveCandidates(text, C) = {} /\ \A i \in 1..4 : m(i) = {}
        \/ \E i \in 1..4 : /\ ResolveCandidates(text, C) = m(i) /\ m(i) # {}
                           /\ \A j \in 1..4 : j < i => m(j) = {}
    BY <1>2, <1>3, <1>4
  <1> QED
    BY <1>5 DEF m

(* Below the key it looks at the label alone, and a label or its first word is in the
   question unless it is nearly. *)
LEMMA MatchedAre ==
    ASSUME NEW Tokens, NEW Vocabulary, NEW text, Spoken(text, Tokens, Vocabulary), NEW C,
           NEW i \in 1..4, NEW c \in MatchCandidates(Ladder[i], Words(text), C),
           c.display \in Seq(Tokens), Words(c.display) # <<>>
    PROVE  /\ c \in C
           /\ i = 1 => ContainsWord(Words(text), Norm[c.key])
           /\ i # 1 => \A z \in C : z.display = c.display => z \in MatchCandidates(Ladder[i], Words(text), C)
           /\ \/ ContainsWord(Words(text), Norm[c.key])
              \/ ContainsWord(Words(text), <<Words(c.display)[1]>>)
              \/ \E k \in DOMAIN Words(text) :
                   <<Window(Words(text), k, Len(Words(c.display))), Words(c.display)>> \in Similar
  <1> DEFINE q == Words(text)
             v == Words(c.display)
  <1>1. q \in Seq(Vocabulary)
    BY WordsAreThose
  <1>2. v \in Seq(Vocabulary) /\ v # <<>>
    <2>1. Spoken(c.display, Tokens, Vocabulary)
      BY DEF Spoken
    <2> QED
      BY <2>1, WordsAreThose
  <1> HIDE DEF q, v
  <1>3. c \in C /\ Scores(Ladder[i], q, IF Ladder[i] = "canonical" THEN Norm[c.key] ELSE v)
    BY DEF MatchCandidates, NamedBy, q, v
  <1>4. CASE i = 1
    <2>1. Ladder[i] = "canonical"
      BY <1>4 DEF Ladder
    <2>2. ContainsWord(q, Norm[c.key])
      BY <1>3, <2>1 DEF Scores
    <2> QED
      BY <1>3, <1>4, <2>2 DEF q
  <1>5. CASE i # 1
    <2>1. Ladder[i] \in {"exact", "prefix", "fuzzy"}
      BY <1>5 DEF Ladder
    <2>2. Ladder[i] # "canonical" /\ Scores(Ladder[i], q, v)
      BY <1>3, <2>1
    <2>3. \A z \in C : z.display = c.display => z \in MatchCandidates(Ladder[i], q, C)
      BY <2>2 DEF MatchCandidates, NamedBy, v
    <2>4. \/ ContainsWord(q, v) \/ ContainsWord(q, <<v[1]>>)
          \/ \E k \in DOMAIN q : <<Window(q, k, Len(v)), v>> \in Similar
      BY <2>1, <2>2 DEF Scores
    <2>5. ContainsWord(q, v) => ContainsWord(q, <<v[1]>>)
      BY <1>1, <1>2, ContainsTheFirst
    <2> QED
      BY <1>3, <1>5, <2>3, <2>4, <2>5 DEF q, v
  <1> QED
    BY <1>4, <1>5

(* A name is taken for a row only if that is reviewed, readable and called by the question,
   which names no other row found as well, and no other row has its label unless its key is
   spelled out; rows beyond the limit of a lookup excepted (entity_values.py:130,
   entities.py:335): for any words, terms, entities, grants and rows, however a token is
   normalized and whatever labels look alike. *)
THEOREM NamesResolveToOne ==
    ASSUME NEW Tokens, NEW Vocabulary, LookupSettings(Tokens),
           NEW text, Spoken(text, Tokens, Vocabulary),
           NEW Names, NEW Columns, NEW entities, NEW allowed, NEW data,
           NEW attributes \in Seq([entity : Names, column : Columns, identifier : BOOLEAN,
                                   label : BOOLEAN, confirmed : BOOLEAN]),
           \A e \in entities : Keyed(data[e.name], Tokens)
    PROVE  ResolvesToTheOne(text, entities, attributes, allowed, data)
  <1> DEFINE bindings == Bindings(entities, attributes, allowed, "any")
             read(b) == {[entity |-> b.entity, key |-> r.key, display |-> r.display] :
                            r \in Lookup(data[b.entity], text)}
             C == UNION {read(b) : b \in bindings}
             q == Words(text)
  <1>1. ResolveLive(text, bindings, data) = ResolveCandidates(text, C)
    BY DEF ResolveLive
  <1>2. SUFFICES ASSUME NEW c, ResolveCandidates(text, C) = {c}
                 PROVE  /\ Reviewed(c, entities, attributes, allowed)
                        /\ Called(c, q)
                        /\ NamedBest(c, text, bindings, data)
                        /\ AloneUnderItsLabel(c, text, data[c.entity])
    <2> HIDE DEF C
    <2> QED
      BY <1>1, Zenon DEF ResolvesToTheOne
  <1> HIDE DEF C, bindings
  <1>3. PICK i \in 1..4 : /\ MatchCandidates(Ladder[i], q, C) = {c}
                          /\ \A j \in 1..4 : j < i => MatchCandidates(Ladder[j], q, C) = {}
    BY <1>2, LadderDecides
  <1>4. c \in C
    BY <1>3 DEF MatchCandidates
  <1>5. PICK b \in bindings : c \in read(b)
    BY <1>4 DEF C
  <1>6. PICK e \in entities :
           /\ e.confirmed /\ e.name = b.entity /\ e.table \in DOMAIN allowed
           /\ \A identifier \in BOOLEAN : \E j \in DOMAIN attributes :
                /\ attributes[j].entity = e.name /\ attributes[j].confirmed
                /\ attributes[j].identifier = identifier
                /\ attributes[j].column \in allowed[e.table]
    <2> DEFINE usable(e) == {j \in DOMAIN attributes : /\ attributes[j].confirmed
                                                       /\ attributes[j].entity = e.name
                                                       /\ attributes[j].column \in allowed[e.table]}
               keys(e) == {j \in usable(e) : attributes[j].identifier}
               labels(e) == {j \in usable(e) : ~attributes[j].identifier /\ attributes[j].label}
    <2>1. PICK e \in entities :
             /\ e.confirmed /\ e.table \in DOMAIN allowed
             /\ \E k \in Foremost(1, keys(e)), d \in Foremost(1, labels(e)) :
                   b = [entity |-> e.name, key |-> attributes[k].column, display |-> attributes[d].column]
      BY SMTT(60) DEF Bindings, bindings
    <2>2. PICK k \in keys(e), d \in labels(e) : b.entity = e.name
      BY <2>1 DEF Foremost
    <2>3. attributes[k].identifier = TRUE /\ attributes[d].identifier = FALSE
      <3>1. k \in DOMAIN attributes /\ d \in DOMAIN attributes /\ attributes[k].identifier /\ ~attributes[d].identifier
        OBVIOUS
      <3>2. attributes[k].identifier \in BOOLEAN /\ attributes[d].identifier \in BOOLEAN
        <4>1. \A j \in DOMAIN attributes :
                 attributes[j] \in [entity : Names, column : Columns, identifier : BOOLEAN,
                                    label : BOOLEAN, confirmed : BOOLEAN]
          <5> DEFINE R == [entity : Names, column : Columns, identifier : BOOLEAN,
                           label : BOOLEAN, confirmed : BOOLEAN]
          <5>1. attributes \in Seq(R)
            OBVIOUS
          <5> HIDE DEF R
          <5>2. \A j \in DOMAIN attributes : attributes[j] \in R
            BY <5>1
          <5> QED
            BY <5>2 DEF R
        <4>2. \A j \in DOMAIN attributes : attributes[j].identifier \in BOOLEAN
          BY <4>1
        <4> QED
          BY <3>1, <4>2
      <3> QED
        BY <3>1, <3>2
    <2>4. \A identifier \in BOOLEAN : \E j \in DOMAIN attributes :
             /\ attributes[j].entity = e.name /\ attributes[j].confirmed
             /\ attributes[j].identifier = identifier
             /\ attributes[j].column \in allowed[e.table]
      <3>1. k \in usable(e) /\ d \in usable(e)
        BY SMTT(60)
      <3>2. ASSUME NEW identifier \in BOOLEAN
            PROVE  \E j \in {k, d} : attributes[j].identifier = identifier
        BY <2>3
      <3> QED
        BY <3>1, <3>2
    <2> QED
      BY <2>1, <2>2, <2>4
  <1> DEFINE rows == data[b.entity]
             A == Answering(rows, text)
  <1>7. Keyed(rows, Tokens) /\ text \in Seq(Tokens) /\ DOMAIN rows = 1..Len(rows) /\ Len(rows) \in Nat
    <2>1. Keyed(rows, Tokens)
      BY <1>6
    <2> HIDE DEF rows
    <2> QED
      BY <2>1 DEF Keyed, Spoken
  <1>8. A \subseteq DOMAIN rows
    BY <1>7, AnsweringAre
  <1> HIDE DEF rows, A
  <1>9. A \subseteq Nat /\ IsFiniteSet(A)
    <2>1. IsFiniteSet(1..Len(rows))
      BY <1>7, FS_Interval
    <2>2. A \in SUBSET (1..Len(rows)) /\ A \subseteq Nat
      BY <1>7, <1>8
    <2>3. IsFiniteSet(A)
      BY <2>1, <2>2, FS_Subset
    <2> QED
      BY <2>2, <2>3
  <1>10. PICK z \in Foremost(MaxCandidates, A) : c = [entity |-> b.entity, key |-> rows[z].key, display |-> rows[z].display]
    BY <1>5 DEF Lookup, rows, A
  <1>11. z \in A /\ z \in 1..Len(rows)
    BY <1>7, <1>8, <1>10 DEF Foremost
  <1>12. c.entity = b.entity /\ c.key = rows[z].key /\ c.display = rows[z].display
    BY <1>10
  <1>13. c.key \in Tokens /\ c.display \in Seq(Tokens) /\ Words(c.display) # <<>>
    <2>1. rows[z] \in [key : Tokens, display : Seq(Tokens)] /\ Words(rows[z].display) # <<>>
      <3>1. \A j \in 1..Len(rows) :
               rows[j] \in [key : Tokens, display : Seq(Tokens)] /\ Words(rows[j].display) # <<>>
        <4> DEFINE R == [key : Tokens, display : Seq(Tokens)]
        <4>1. rows \in Seq(R) /\ \A j \in 1..Len(rows) : Words(rows[j].display) # <<>>
          BY <1>7 DEF Keyed
        <4> HIDE DEF R
        <4>2. \A j \in 1..Len(rows) : rows[j] \in R
          BY <4>1
        <4> QED
          BY <4>1, <4>2 DEF R
      <3> QED
        BY <3>1, <1>11
    <2> QED
      BY <2>1, <1>12
  <1>14. /\ i = 1 => ContainsWord(q, Norm[c.key])
         /\ i # 1 => \A x \in C : x.display = c.display => x \in MatchCandidates(Ladder[i], q, C)
         /\ \/ ContainsWord(q, Norm[c.key])
            \/ ContainsWord(q, <<Words(c.display)[1]>>)
            \/ \E k \in DOMAIN q : <<Window(q, k, Len(Words(c.display))), Words(c.display)>> \in Similar
    BY <1>3, <1>13, MatchedAre
  <1>15. ASSUME i # 1, ~ContainsWord(q, Norm[c.key]), ~(Cardinality(A) > MaxCandidates),
                NEW y \in 1..Len(rows), rows[y].display = c.display
         PROVE  rows[y].key = c.key
    <2>1. PICK s \in 1..4 : \E t \in Range(SearchTerms(text)) :
             A = {r \in DOMAIN rows : Satisfies(rows[r], Strategies[s], t)}
      <3>1. A # {} =>
              \E s \in 1..4 : \E t \in Range(SearchTerms(text)) :
                 /\ A = {r \in DOMAIN rows : Satisfies(rows[r], Strategies[s], t)}
                 /\ \A j \in 1..4 : \A u \in Range(SearchTerms(text)) : \A r \in DOMAIN rows :
                       Satisfies(rows[r], Strategies[j], u) => s <= j
        BY <1>7, AnsweringAre DEF A
      <3> QED
        BY <3>1, <1>11
    <2>2. PICK t \in Range(SearchTerms(text)) : A = {r \in DOMAIN rows : Satisfies(rows[r], Strategies[s], t)}
      BY <2>1
    <2>3. s # 1
      <3>1. SUFFICES ASSUME s = 1
                     PROVE  FALSE
        OBVIOUS
      <3>2. Satisfies(rows[z], "canonical", t)
        BY <3>1, <2>2, <1>11 DEF Strategies
      <3>3. t = <<c.key>>
        BY <3>2, <1>12 DEF Satisfies
      <3>4. ContainsWord(q, Words(t))
        <4>1. \E a \in 1..Len(text) : \E d \in a..Len(text) : t = SubSeq(text, a, d)
          BY <1>7, TermsAreWindows
        <4> QED
          BY <4>1, WindowsAreContained
      <3>5. Words(t) = Norm[c.key]
        BY <3>3, <1>13, WordsOfAToken DEF Spoken
      <3> QED
        BY <3>4, <3>5, <1>15
    <2>4. Satisfies(rows[y], Strategies[s], t)
      <3>1. s \in 2..4
        BY <2>3
      <3>2. Satisfies(rows[z], Strategies[s], t)
        BY <2>2, <1>11
      <3> QED
        BY <3>1, <3>2, <1>12, <1>15, LabelDecides
    <2>5. y \in A
      BY <2>2, <2>4, <1>7
    <2>6. Foremost(MaxCandidates, A) = A
      BY <1>9, <1>15, ForemostAre DEF LookupSettings
    <2>7. rows[y] \in Lookup(rows, text)
      BY <2>5, <2>6 DEF Lookup, A
    <2> DEFINE x == [entity |-> b.entity, key |-> rows[y].key, display |-> rows[y].display]
    <2>8. x \in read(b)
      BY <2>7 DEF rows
    <2>9. x \in C /\ x.display = c.display
      BY <2>8, <1>15 DEF C
    <2>10. x = c
      BY <2>9, <1>3, <1>14, <1>15
    <2> QED
      BY <2>10
  <1>16. \/ \A r \in Range(rows) : r.display = c.display => r.key = c.key
         \/ ContainsWord(q, Norm[c.key])
         \/ Cardinality(A) > MaxCandidates
    BY <1>7, <1>14, <1>15 DEF Range
  <1>17. i \in DOMAIN Ladder /\ NamedBy(Ladder[i], q, c)
    BY <1>3 DEF MatchCandidates, Ladder
  <1>18. ASSUME NEW a \in bindings, NEW r \in Answering(data[a.entity], text),
                ~(Cardinality(Answering(data[a.entity], text)) > MaxCandidates),
                NEW k \in 1..i, NamedBy(Ladder[k], q, data[a.entity][r])
         PROVE  c = [entity |-> a.entity, key |-> data[a.entity][r].key,
                     display |-> data[a.entity][r].display]
    <2> DEFINE theirs == data[a.entity]
               F == Answering(theirs, text)
               x == [entity |-> a.entity, key |-> theirs[r].key, display |-> theirs[r].display]
    <2>1. \E o \in entities : o.name = a.entity
      <3> DEFINE usable(en) == {j \in DOMAIN attributes :
                                   /\ attributes[j].confirmed
                                   /\ attributes[j].entity = en.name
                                   /\ attributes[j].column \in allowed[en.table]}
                 keys(en) == {j \in usable(en) : attributes[j].identifier}
                 labels(en) == {j \in usable(en) : ~attributes[j].identifier /\ attributes[j].label}
      <3>1. PICK o \in entities :
               \E f \in Foremost(1, keys(o)), d \in Foremost(1, labels(o)) :
                  a = [entity |-> o.name, key |-> attributes[f].column, display |-> attributes[d].column]
        BY SMTT(60) DEF Bindings, bindings
      <3> QED
        BY <3>1
    <2>2. Keyed(theirs, Tokens)
      BY <2>1
    <2>3. DOMAIN theirs = 1..Len(theirs) /\ Len(theirs) \in Nat
      <3> HIDE DEF theirs
      <3> QED
        BY <2>2 DEF Keyed
    <2>4. F \subseteq 1..Len(theirs)
      BY <1>7, <2>3, AnsweringAre
    <2>5. F \subseteq Nat /\ IsFiniteSet(F)
      <3> HIDE DEF F, theirs
      <3>1. IsFiniteSet(1..Len(theirs))
        BY <2>3, FS_Interval
      <3>2. IsFiniteSet(F)
        BY <2>4, <3>1, FS_Subset
      <3> QED
        BY <2>3, <2>4, <3>2
    <2>6. Foremost(MaxCandidates, F) = F
      BY <1>18, <2>5, ForemostAre DEF LookupSettings
    <2>7. theirs[r] \in Lookup(theirs, text)
      BY <2>6 DEF Lookup
    <2>8. x \in C
      <3>1. x \in read(a)
        BY <2>7
      <3> QED
        BY <3>1 DEF C
    <2>9. x.key = theirs[r].key /\ x.display = theirs[r].display
      OBVIOUS
    <2> HIDE DEF x, F, theirs
    <2>10. NamedBy(Ladder[k], q, x)
      BY <1>18, <2>9 DEF NamedBy, theirs
    <2>11. x \in MatchCandidates(Ladder[k], q, C)
      BY <2>8, <2>10 DEF MatchCandidates
    <2>12. k \in 1..4 /\ (k < i \/ k = i)
      OBVIOUS
    <2>13. x = c
      BY <1>3, <2>11, <2>12
    <2> QED
      BY <2>13 DEF x, theirs
  <1>19. \A a \in bindings : \A r \in Answering(data[a.entity], text) :
            \/ c = [entity |-> a.entity, key |-> data[a.entity][r].key,
                    display |-> data[a.entity][r].display]
            \/ \A k \in 1..i : ~NamedBy(Ladder[k], q, data[a.entity][r])
            \/ Cardinality(Answering(data[a.entity], text)) > MaxCandidates
    BY <1>18
  <1>20. \E rung \in DOMAIN Ladder :
            /\ NamedBy(Ladder[rung], q, c)
            /\ \A a \in bindings : \A r \in Answering(data[a.entity], text) :
                 \/ c = [entity |-> a.entity, key |-> data[a.entity][r].key,
                         display |-> data[a.entity][r].display]
                 \/ \A k \in 1..rung : ~NamedBy(Ladder[k], q, data[a.entity][r])
                 \/ Cardinality(Answering(data[a.entity], text)) > MaxCandidates
    BY <1>17, <1>19
  <1>21. Reviewed(c, entities, attributes, allowed)
    BY <1>6, <1>12, Zenon DEF Reviewed
  <1>22. Called(c, q)
    BY <1>14, Zenon DEF Called
  <1>23. NamedBest(c, text, bindings, data)
    BY <1>20, Zenon DEF NamedBest, CutOff
  <1>24. AloneUnderItsLabel(c, text, data[c.entity])
    BY <1>12, <1>16, Zenon DEF AloneUnderItsLabel, CutOff, rows, A
  <1> QED
    BY <1>21, <1>22, <1>23, <1>24

(* Where the samples of a table leave one label, the live lookup leaves the rows of that
   label (entities.py:342): whatever the rows, and in whatever order they are found. *)
THEOREM SamplesAgreeWithRows ==
    ASSUME NEW Tokens, NEW Vocabulary, LookupSettings(Tokens),
           NEW text, Spoken(text, Tokens, Vocabulary), NEW rows, Keyed(rows, Tokens)
    PROVE  AgreesWithSamples(text, rows)
  <1> DEFINE terms == Range(SearchTerms(text))
             labels == {rows[i].display : i \in DOMAIN rows}
             C == Lookup(rows, text)
             q == Words(text)
             A == Answering(rows, text)
             found(s, t) == {r \in DOMAIN rows : Satisfies(rows[r], Strategies[s], t)}
             m(i) == MatchCandidates(Ladder[i], q, C)
  <1>1. SUFFICES ASSUME NEW label \in labels, ResolveSampled(text, labels) = {label},
                        ContainsWord(q, Words(label)), label \in terms,
                        \A i \in DOMAIN rows : <<rows[i].key>> \notin terms,
                        \A other \in labels : ~Scores("canonical", q, Words(other))
                 PROVE  {c.display : c \in ResolveCandidates(text, C)} = {label}
    BY DEF AgreesWithSamples
  <1>2. text \in Seq(Tokens) /\ DOMAIN rows = 1..Len(rows) /\ Len(rows) \in Nat
    BY DEF Keyed, Spoken
  <1>3. PICK n \in DOMAIN rows : rows[n].display = label
    BY <1>1
  <1>4. Satisfies(rows[n], Strategies[2], label)
    BY <1>3 DEF Satisfies, Strategies
  <1>5. /\ A # {} /\ A \subseteq DOMAIN rows
        /\ \E s \in 1..4 : \E t \in terms : A = found(s, t) /\ s <= 2
    <2>1. /\ A \subseteq DOMAIN rows
          /\ A # {} =>
               \E s \in 1..4 : \E t \in terms :
                  /\ A = found(s, t)
                  /\ \A z \in 1..4 : \A u \in terms : \A r \in DOMAIN rows :
                        Satisfies(rows[r], Strategies[z], u) => s <= z
          /\ \A z \in 1..4 : \A u \in terms : \A r \in DOMAIN rows :
                Satisfies(rows[r], Strategies[z], u) => A # {}
      BY <1>2, AnsweringAre
    <2> HIDE DEF A, terms, found
    <2>2. 2 \in 1..4
      OBVIOUS
    <2>3. A # {}
      BY <2>1, <2>2, <1>1, <1>3, <1>4
    <2> QED
      BY <2>1, <2>2, <2>3, <1>1, <1>3, <1>4
  <1>6. PICK s \in 1..2 : \E t \in terms : A = found(s, t)
    <2>1. PICK s \in 1..4 : \E t \in terms : A = found(s, t) /\ s <= 2
      BY <1>5
    <2>2. s \in 1..2
      BY <2>1
    <2> QED
      BY <2>1, <2>2
  <1>7. PICK t \in terms : A = found(s, t)
    BY <1>6
  <1>8. PICK r \in DOMAIN rows : r \in A
    BY <1>5
  <1>9. s = 2
    <2>1. SUFFICES ASSUME s = 1
                   PROVE  FALSE
      BY <1>6
    <2>2. Satisfies(rows[r], "canonical", t)
      BY <1>7, <1>8, <2>1 DEF Strategies
    <2>3. t = <<rows[r].key>>
      BY <2>2 DEF Satisfies
    <2> QED
      BY <2>3, <1>1
  <1>10. A = {k \in DOMAIN rows : rows[k].display = t}
    <2>1. \A k \in DOMAIN rows : Satisfies(rows[k], Strategies[2], t) <=> rows[k].display = t
      BY DEF Satisfies, Strategies
    <2> QED
      BY <2>1, <1>7, <1>9
  <1>11. ContainsWord(q, Words(t)) /\ t \in labels
    <2>1. \E a \in 1..Len(text) : \E b \in a..Len(text) : t = SubSeq(text, a, b)
      BY <1>2, TermsAreWindows
    <2>2. ContainsWord(q, Words(t))
      BY <2>1, WindowsAreContained
    <2>3. t \in labels
      BY <1>8, <1>10
    <2> QED
      BY <2>2, <2>3
  <1>12. t = label
    <2> DEFINE g == [i \in DOMAIN Ladder |-> {v \in labels : Scores(Ladder[i], q, Words(v))}]
    <2>1. DOMAIN g = 1..4 /\ Ladder[1] = "canonical" /\ Ladder[2] = "exact" /\ 1 \in 1..4 /\ 2 \in 1..4
      BY DEF Ladder
    <2>2. g[1] = {}
      BY <2>1, <1>1
    <2>3. t \in g[2]
      <3>1. Scores("exact", q, Words(t))
        BY <1>11 DEF Scores
      <3> HIDE DEF labels, q
      <3> QED
        BY <2>1, <3>1, <1>11
    <2>4. FirstBut(g, {}) = {label}
      BY <1>1 DEF ResolveSampled
    <2> HIDE DEF g
    <2>5. PICK i \in 1..4 : FirstBut(g, {}) = g[i] /\ g[i] # {} /\ \A j \in 1..4 : j < i => g[j] = {}
      <3>1. \/ FirstBut(g, {}) = {} /\ \A i \in 1..4 : g[i] = {}
            \/ \E i \in 1..4 : FirstBut(g, {}) = g[i] /\ g[i] # {} /\ \A j \in 1..4 : j < i => g[j] = {}
        BY <2>1, FirstButIs
      <3> QED
        BY <3>1, <2>4
    <2>6. i = 2
      <3>1. i # 1 /\ ~(2 < i)
        BY <2>1, <2>2, <2>3, <2>5
      <3> QED
        BY <3>1
    <2> QED
      BY <2>3, <2>4, <2>5, <2>6
  <1>13. C # {} /\ \A c \in C : c.display = label
    <2>1. A \subseteq Nat /\ A # {}
      BY <1>2, <1>5
    <2>2. Foremost(MaxCandidates, A) # {} /\ Foremost(MaxCandidates, A) \subseteq A
      BY <2>1, ForemostAre DEF LookupSettings
    <2>3. C = {rows[k] : k \in Foremost(MaxCandidates, A)}
      BY DEF Lookup
    <2> HIDE DEF A, C
    <2> QED
      BY <2>2, <2>3, <1>10, <1>12, ZenonT(60)
  <1>14. m(2) = C /\ \A i \in 1..4 : m(i) \subseteq C
    <2>1. Ladder[2] = "exact"
      BY DEF Ladder
    <2>2. \A c \in C : Scores("exact", q, Words(c.display))
      BY <1>1, <1>13 DEF Scores
    <2> HIDE DEF C, q
    <2> QED
      BY <2>1, <2>2 DEF MatchCandidates, NamedBy
  <1> HIDE DEF C, m
  <1>15. ResolveCandidates(text, C) # {} /\ ResolveCandidates(text, C) \subseteq C
    <2>1. \/ ResolveCandidates(text, C) = {} /\ \A i \in 1..4 : m(i) = {}
          \/ \E i \in 1..4 : ResolveCandidates(text, C) = m(i) /\ m(i) # {}
      BY LadderDecides DEF m
    <2>2. 2 \in 1..4
      OBVIOUS
    <2> QED
      BY <2>1, <2>2, <1>13, <1>14
  <1> QED
    BY <1>13, <1>15

=============================================================================
