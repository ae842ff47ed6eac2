------------------------------ MODULE Lifecycle ------------------------------
(***************************************************************************)
(* From a concluded Experiment to a champion: internal/lifecycle and the   *)
(* rules of the inventory (internal/record/inventory.go) about its records.*)
(*                                                                         *)
(* Evaluations, Candidates, Releases, PromotionSpecs and Promotions never  *)
(* change once published, so the revisions a command names protect nothing *)
(* but the Experiment it closes.  Two commands prepared from one snapshot  *)
(* are told apart only by the inventory that would result, which Transact  *)
(* validates.  The command line reads the inventory first and hands what   *)
(* it saw to the service, which reads it again and compares: records only  *)
(* accumulate, so that is the one read modelled here.                      *)
(***************************************************************************)
EXTENDS Integers, FiniteSets, TLC

CONSTANTS
    Curators,     \* processes that run commands
    Experiments,
    Attempts,     \* formal Attempts, all of one Run for each Experiment
    Owner,        \* the Experiment of each Attempt
    CleanRuns,    \* Attempts whose Source snapshots are clean
    Targets,      \* production targets
    DraftBudget, DecisionBudget,   \* bounds: commands of each kind from either start
    MaxTime,      \* bound on the clock
    Vacant        \* a curator without a command

VARIABLES
    exps,     \* state and conclusion of each Experiment
    ended,    \* when each Attempt succeeded, 0 before
    recs,     \* the published records that never change
    order,    \* the command each curator has prepared
    now,      \* the clock the timestamps are read from
    left      \* commands of each kind still to be given

lifecycleVars == <<exps, ended, recs, order, now, left>>

NoID == 0
Of(kind, rs) == {r \in rs : r.kind = kind}
Named(kind, i, rs) == {r \in Of(kind, rs) : r.id = i}

Evaluation(i, at, subject, purpose, attempt, outcome) ==
    [kind |-> "evaluation", id |-> i, at |-> at, subject |-> subject,
     purpose |-> purpose, attempt |-> attempt, outcome |-> outcome]
Candidate(i, e, v, a) ==
    [kind |-> "candidate", id |-> i, experiment |-> e, evaluation |-> v, attempt |-> a]
Release(i, k, t, v) ==
    [kind |-> "release", id |-> i, candidate |-> k, target |-> t, evaluation |-> v]
PromotionSpec(i, at, t) == [kind |-> "spec", id |-> i, at |-> at, target |-> t]
Promotion(i, t, s, r, v, outcome, previous, incumbent) ==
    [kind |-> "promotion", id |-> i, target |-> t, spec |-> s, challenger |-> r,
     evaluation |-> v, outcome |-> outcome, previous |-> previous, incumbent |-> incumbent]

Setting(p) == p.outcome \in {"accepted", "rolled_back"}

\* A subject is a pair of its kind and its identity.
Subject(kind, i) == <<kind, i>>

(***************************************************************************)
(* The Promotion chain of a target, in layers: each holds the followers of *)
(* the one before                                                          *)
(***************************************************************************)
Chain(t, rs) ==
    LET promotions == {p \in Of("promotion", rs) : p.target = t}
        layer[n \in 1..Cardinality(promotions)] ==
            {p \in promotions : IF n = 1 THEN p.previous = NoID
                                ELSE \E q \in layer[n - 1] : p.previous = q.id}
    IN  layer

\* The last Promotion that set a champion, and the last one of all.
Setters(t, rs) ==
    LET chain == Chain(t, rs)
        at == {n \in DOMAIN chain : \E p \in chain[n] : Setting(p)}
    IN  IF at = {} THEN {} ELSE chain[CHOOSE n \in at : \A k \in at : k <= n]
Champion(t, rs) ==
    IF Setters(t, rs) = {} THEN NoID ELSE (CHOOSE p \in Setters(t, rs) : Setting(p)).challenger
Displaced(t, rs) ==
    IF Setters(t, rs) = {} THEN NoID ELSE (CHOOSE p \in Setters(t, rs) : Setting(p)).incumbent
Tip(t, rs) ==
    LET chain == Chain(t, rs)
        filled == {n \in DOMAIN chain : chain[n] # {}}
    IN  IF filled = {} THEN NoID
        ELSE (CHOOSE p \in chain[CHOOSE n \in filled : \A k \in filled : k <= n] : TRUE).id

(***************************************************************************)
(* The rules of the inventory                                              *)
(***************************************************************************)
EvaluationSound(v, xs) ==
    v.attempt # NoID =>
        /\ ended[v.attempt] # 0 /\ ended[v.attempt] <= v.at
        /\ v.subject = Subject("experiment", Owner[v.attempt])

\* An included Run covers every Attempt of it, so the time is compared too.
Backed(k, xs) ==
    /\ k.attempt \in CleanRuns /\ Owner[k.attempt] = k.experiment
    /\ xs[k.experiment].included
    /\ ended[k.attempt] # 0 /\ ended[k.attempt] <= xs[k.experiment].at

CandidateSound(k, rs, xs) ==
    /\ xs[k.experiment].state = "supported"
    /\ \E v \in Named("evaluation", k.evaluation, rs) :
         /\ v.subject = Subject("experiment", k.experiment)
         /\ v.outcome = "passed" /\ v.purpose = "scientific" /\ v.attempt = k.attempt
    /\ Backed(k, xs)

ReleaseSound(r, rs) ==
    /\ Named("candidate", r.candidate, rs) # {}
    /\ r.evaluation # NoID =>
         \E v \in Named("evaluation", r.evaluation, rs) :
            v.subject = Subject("release", r.id) /\ v.outcome = "passed" /\ v.purpose = "promotion"

PromotionSound(p, rs) ==
    /\ p.challenger # p.incumbent
    /\ \E s \in Named("spec", p.spec, rs), r \in Named("release", p.challenger, rs),
          v \in Named("evaluation", p.evaluation, rs) :
         /\ s.target = p.target /\ r.target = p.target /\ r.evaluation # NoID
         /\ v.subject = Subject("release", r.id) /\ v.purpose = "promotion"
         /\ v.at > s.at
         /\ Setting(p) => v.outcome = "passed"

\* A holdout Evaluation is spent by one decision.
HoldoutsUnshared(rs) ==
    \A p, q \in Of("promotion", rs) : p.evaluation = q.evaluation => p = q

\* Faulty variant: only followers are looked for.
UnforkedAfterRoot(rs) ==
    \A p, q \in Of("promotion", rs) :
        p.target = q.target /\ p.previous = q.previous /\ p.previous # NoID => p = q

\* No two roots and no two followers, and each Promotion agrees with the
\* champion that its predecessors left.
Unforked(rs) ==
    \A p, q \in Of("promotion", rs) : p.target = q.target /\ p.previous = q.previous => p = q
Consistent(t, rs) ==
    LET chain == Chain(t, rs)
        Before(n) == UNION {chain[k] : k \in 1..n - 1}
    IN  \A n \in DOMAIN chain : \A p \in chain[n] :
          /\ p.incumbent = Champion(t, Before(n))
          /\ CASE p.outcome \in {"accepted", "rejected"} -> p.challenger # Champion(t, Before(n))
               [] p.outcome = "rolled_back" ->
                    Displaced(t, Before(n)) # NoID /\ p.challenger = Displaced(t, Before(n))

Sound(rs, xs) ==
    /\ \A v \in Of("evaluation", rs) : EvaluationSound(v, xs)
    /\ \A k \in Of("candidate", rs) : CandidateSound(k, rs, xs)
    /\ \A r \in Of("release", rs) : ReleaseSound(r, rs)
    /\ \A p \in Of("promotion", rs) : PromotionSound(p, rs)
    /\ HoldoutsUnshared(rs)
    /\ Unforked(rs)
    /\ \A t \in Targets : Consistent(t, rs)

(***************************************************************************)
(* Commands                                                                *)
(***************************************************************************)
After(c) == recs \cup order[c].new
ExpsAfter(c) ==
    [e \in Experiments |-> IF e \in DOMAIN order[c].close THEN order[c].close[e] ELSE exps[e]]

\* A command is prepared from a valid inventory, with identities of its own.
Prepare(c, kinds, new, close) ==
    /\ order[c] = Vacant
    /\ order' = [order EXCEPT ![c] = [new |-> new, close |-> close]]
    /\ left' = [k \in DOMAIN left |-> IF k \in kinds THEN left[k] - 1 ELSE left[k]]
    /\ UNCHANGED <<exps, ended, recs, now>>

Room(kind) == left[kind] > 0
NewID(kind) == 10 + left[kind]

\* A verdict needs a Run with a formal Attempt that succeeded.
Closable(e, verdict, included) ==
    /\ exps[e].state = "active"
    /\ included => \E a \in Attempts : Owner[a] = e /\ ended[a] # 0
    /\ verdict \in {"supported", "refuted"} => included

CloseExperiment(c, e) ==
    /\ Room("close")
    /\ \E verdict \in {"supported", "refuted", "inconclusive"}, included \in BOOLEAN :
         /\ Closable(e, verdict, included)
         /\ Prepare(c, {"close"}, {}, e :> [state |-> verdict, at |-> now, included |-> included])

Evaluable(subject, attempt) ==
    attempt # NoID => subject = Subject("experiment", Owner[attempt]) /\ ended[attempt] \in 1..now

CreateEvaluation(c) ==
    /\ Room("evaluation")
    /\ \E purpose \in {"scientific", "promotion"}, outcome \in {"passed", "failed"},
          attempt \in {NoID} \cup {a \in Attempts : ended[a] # 0} :
       \E subject \in {Subject("experiment", e) : e \in Experiments}
                      \cup {Subject(r.kind, r.id) : r \in Of("release", recs)} :
         /\ Evaluable(subject, attempt)
         /\ Prepare(c, {"evaluation"},
               {Evaluation(NewID("evaluation"), now, subject, purpose, attempt, outcome)}, <<>>)

\* Faulty variant: an Attempt that ended later is taken for the conclusion's.
AnyFormalAttempt(e, a) ==
    /\ a \in CleanRuns /\ Owner[a] = e /\ exps[e].included
    /\ ended[a] # 0

\* The Attempt must have backed the conclusion when it was drawn.
FormalAttempt(e, a) ==
    /\ a \in CleanRuns /\ Owner[a] = e /\ exps[e].included
    /\ ended[a] # 0 /\ ended[a] <= exps[e].at

CandidateDrawn(e, v) ==
    /\ exps[e].state = "supported"
    /\ v.subject = Subject("experiment", e) /\ v.outcome = "passed" /\ v.purpose = "scientific"
    /\ v.attempt # NoID /\ FormalAttempt(e, v.attempt)

CreateCandidate(c, e) ==
    /\ Room("candidate")
    /\ \E v \in Of("evaluation", recs) :
         /\ CandidateDrawn(e, v)
         /\ Prepare(c, {"candidate"}, {Candidate(NewID("candidate"), e, v.id, v.attempt)}, <<>>)

\* A validated Release comes with an Evaluation of its own.
NewRelease(k, t, validated) ==
    LET r == NewID("release")
        v == NewID("evaluation")
    IN  IF validated
        THEN {Release(r, k.id, t, v),
              Evaluation(v, now, Subject("release", r), "promotion", NoID, "passed")}
        ELSE {Release(r, k.id, t, NoID)}

CreateRelease(c, t) ==
    /\ Room("release")
    /\ \E k \in Of("candidate", recs), validated \in BOOLEAN :
         /\ validated => Room("evaluation")
         /\ Prepare(c, {"release"} \cup IF validated THEN {"evaluation"} ELSE {},
                    NewRelease(k, t, validated), <<>>)

CreatePromotionSpec(c, t) ==
    /\ Room("spec")
    /\ Prepare(c, {"spec"}, {PromotionSpec(NewID("spec"), now, t)}, <<>>)

Decidable(t, s, r, v, outcome) ==
    /\ s.target = t /\ r.target = t /\ r.evaluation # NoID
    /\ v.subject = Subject("release", r.id) /\ v.purpose = "promotion" /\ v.at > s.at
    /\ \A p \in Of("promotion", recs) : p.evaluation # v.id
    /\ CASE outcome = "accepted" -> v.outcome = "passed" /\ r.id # Champion(t, recs)
         [] outcome = "rejected" -> r.id # Champion(t, recs)
         [] outcome = "rolled_back" ->
               v.outcome = "passed" /\ Displaced(t, recs) # NoID /\ r.id = Displaced(t, recs)

\* The command names the tip and the champion that it saw.
AppendPromotion(c, t) ==
    /\ Room("promotion")
    /\ \E s \in Of("spec", recs), r \in Of("release", recs), v \in Of("evaluation", recs),
          outcome \in {"accepted", "rejected", "rolled_back"} :
         /\ Decidable(t, s, r, v, outcome)
         /\ Prepare(c, {"promotion"},
               {Promotion(NewID("promotion"), t, s.id, r.id, v.id, outcome,
                          Tip(t, recs), Champion(t, recs))}, <<>>)

\* Transact: the revision of a closed Experiment and the whole result are checked.
Publish(c) ==
    /\ order[c] # Vacant
    /\ LET accepted == /\ \A e \in DOMAIN order[c].close : exps[e].state = "active"
                       /\ Sound(After(c), ExpsAfter(c))
       IN  /\ recs' = IF accepted THEN After(c) ELSE recs
           /\ exps' = IF accepted THEN ExpsAfter(c) ELSE exps
    /\ order' = [order EXCEPT ![c] = Vacant]
    /\ UNCHANGED <<ended, now, left>>

EndAttempt(a) ==
    /\ ended[a] = 0
    /\ ended' = [ended EXCEPT ![a] = now]
    /\ UNCHANGED <<exps, recs, order, now, left>>

Tick ==
    /\ now < MaxTime
    /\ now' = now + 1
    /\ UNCHANGED <<exps, ended, recs, order, left>>

(***************************************************************************)
(* The start: nothing is concluded yet, or two Releases of one Candidate   *)
(* wait for the decision of their target, with fresh holdout Evaluations   *)
(***************************************************************************)
FirstRecords(e, a, t) ==
    {Evaluation(1, 1, Subject("experiment", e), "scientific", a, "passed"),
     Candidate(1, e, 1, a), PromotionSpec(1, 1, t),
     Release(1, 1, t, 2), Evaluation(2, 1, Subject("release", 1), "promotion", NoID, "passed"),
     Release(2, 1, t, 3), Evaluation(3, 1, Subject("release", 2), "promotion", NoID, "passed")}
    \cup {Evaluation(i, 2, Subject("release", 1), "promotion", NoID, "passed") : i \in {4, 5}}
    \cup {Evaluation(6, 2, Subject("release", 2), "promotion", NoID, "passed"),
          Evaluation(7, 2, Subject("release", 2), "promotion", NoID, "failed")}

LifecycleInit ==
    /\ order = [c \in Curators |-> Vacant]
    /\ \/ /\ left = DraftBudget
          /\ exps = [e \in Experiments |-> [state |-> "active", at |-> 0, included |-> FALSE]]
          /\ ended = [a \in Attempts |-> 0]
          /\ recs = {} /\ now = 1
       \/ \E a \in CleanRuns, t \in Targets :
          /\ left = DecisionBudget
          /\ exps = [e \in Experiments |-> IF e = Owner[a]
                        THEN [state |-> "supported", at |-> 1, included |-> TRUE]
                        ELSE [state |-> "active", at |-> 0, included |-> FALSE]]
          /\ ended = [x \in Attempts |-> IF x = a THEN 1 ELSE 0]
          /\ recs = FirstRecords(Owner[a], a, t) /\ now = 2

LifecycleNext ==
    \/ \E c \in Curators :
         \/ \E e \in Experiments : CloseExperiment(c, e) \/ CreateCandidate(c, e)
         \/ \E t \in Targets : CreateRelease(c, t) \/ CreatePromotionSpec(c, t) \/ AppendPromotion(c, t)
         \/ CreateEvaluation(c) \/ Publish(c)
    \/ \E a \in Attempts : EndAttempt(a)
    \/ Tick

LifecycleSpec == LifecycleInit /\ [][LifecycleNext]_lifecycleVars

(***************************************************************************)
(* Properties                                                              *)
(***************************************************************************)
\* However the commands of several curators interleave, the published
\* Promotions act on a target as on a register: none is lost, none decides
\* against a champion other than the one it names, and a rollback gives the
\* place back to the Release that was displaced.
ReleaseIDs == 1..10 + DecisionBudget["release"] + DraftBudget["release"]
Register == INSTANCE ChampionRegister WITH
    Releases <- ReleaseIDs,
    Nobody <- NoID,
    champion <- [t \in Targets |-> Champion(t, recs)],
    displaced <- [t \in Targets |-> Displaced(t, recs)]
ActsAsRegister == Register!RegisterSpec

\* The service and the inventory check the same rules in different code: what
\* the service prepares, the inventory accepts unless another command came
\* between.
SoundlyPrepared ==
    \A c \in Curators :
        order[c] = Vacant /\ order'[c] # Vacant => Sound(After(c), ExpsAfter(c))'
PreparedIsSound == [][SoundlyPrepared]_lifecycleVars

=============================================================================
