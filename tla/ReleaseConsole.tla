---------------------------- MODULE ReleaseConsole ----------------------------
(* The page of the privacy console (App.tsx) and what it shows of one job.    *)
(* Its handlers are async functions: each call to the backend is served in    *)
(* one step, the page goes on with the answer in another, and in between      *)
(* other handlers may start, the job may expire or the page may be left.      *)
(* The backend is here what the console sees of it: a job with the decisions  *)
(* on its findings, and outputs with the decisions they were made with.       *)
EXTENDS Naturals, Sequences, FiniteSets

CONSTANTS
  Findings,       \* what is found in the file, with a confidence of 0.95 or more
  minimum_level,  \* the policy floor, for each set of findings that is not dismissed
  LevelChoices,   \* the levels the file's format supports
  MaxArtifacts,   \* outputs that are made
  MaxTurns        \* jobs that are made, and handlers begun since one ran beside another

(* A file has finitely many findings, and a floor is one of the levels.      *)
ASSUME ConsoleAssumption ==
  IsFiniteSet(Findings) /\ minimum_level \in [SUBSET Findings -> LevelChoices]

VARIABLES
  view,        \* state of the component PrivacyApp
  promises,    \* the handlers that wait for a call, by slot
  workspaces,  \* jobs of the backend
  artifacts,   \* outputs of the backend
  aside        \* history: handlers begun since a bulk confirmation ran beside another
ConsoleVars == <<view, promises, workspaces, artifacts, aside>>

Slots == 1 .. 2
NoPromise == [does |-> "nothing"]
Unverified == <<0, "none">>

NewPage ==
  [job |-> 0, entities |-> <<>>, graph |-> <<0, 0>>, recommendation |-> 0, level |-> 4,
   transformed |-> 0, verification |-> Unverified, certificate |-> 0,
   destruction |-> FALSE, busy |-> FALSE, confirm |-> FALSE]

Undecided(decided) == {f \in DOMAIN decided : decided[f] = "PENDING"}
Undismissed(decided) == {f \in DOMAIN decided : decided[f] # "IGNORE"}

(* What of the page is on the screen                                         *)
Landing == view.job = 0 /\ ~view.destruction
Workspace == view.job # 0 /\ ~view.destruction
ReleaseStage ==
  /\ Workspace /\ view.certificate # 0 /\ view.transformed # 0
  /\ view.verification[2] = "VERIFIED_SAFE"
CanApply ==
  /\ Workspace /\ ~view.busy
  /\ Undecided(view.entities) = {} /\ view.level >= view.recommendation

-----------------------------------------------------------------------------
(* Handlers.  A call is named for the part of the state its answer goes to;  *)
(* `todo` are the calls ahead, those of one set made together.               *)

Promise(does, todo) ==
  [does |-> does, todo |-> todo, got |-> <<>>,
   job |-> view.job, level |-> view.level, output |-> view.transformed]

execute(promise) ==
  \E s \in Slots :
    /\ promises[s] = NoPromise /\ \A t \in 1 .. s - 1 : promises[t] # NoPromise
    /\ promises' = [promises EXCEPT ![s] = promise]
    /\ view' = [view EXCEPT !.busy = TRUE]
    /\ UNCHANGED <<workspaces, artifacts>>
Count(overlaps) ==
  IF overlaps THEN Len(workspaces) + aside < MaxTurns /\ aside' = aside + 1 ELSE UNCHANGED aside
Await(promise) ==
  /\ execute(promise)
  /\ Count(aside # 0)

createUploadAnalyse ==
  /\ Landing /\ ~view.busy
  /\ Await(Promise("create", <<{<<"job">>}, {<<"file">>}, {<<"analysis">>},
                               {<<"entities">>, <<"recommendation">>}, {<<"graph">>}>>))

selectLevel ==
  /\ Workspace /\ ~view.busy /\ view.transformed = 0
  /\ \E level \in LevelChoices :
        Await([Promise("level", <<{<<"graph">>}>>) EXCEPT !.level = level])

reviewMention ==
  /\ Workspace /\ ~view.busy
  /\ \E f \in Undecided(view.entities), action \in {"PROTECT", "IGNORE"} :
        Await(Promise("review", <<{<<"review", f, action>>}, {<<"entities">>}, {<<"graph">>},
                                  {<<"recommendation">>}>>))

askBulkProtect ==
  /\ Workspace /\ ~view.busy /\ ~view.confirm /\ Cardinality(Undecided(view.entities)) > 1
  /\ view' = [view EXCEPT !.confirm = TRUE]
  /\ UNCHANGED <<promises, workspaces, artifacts, aside>>
cancelBulkProtect ==
  /\ Workspace /\ view.confirm
  /\ view' = [view EXCEPT !.confirm = FALSE]
  /\ UNCHANGED <<promises, workspaces, artifacts, aside>>

(* The button that confirms is enabled while other handlers run.             *)
protectHighConfidencePending ==
  LET pending == Undecided(view.entities)
      reviews(order) == [k \in 1 .. Cardinality(pending) |-> {<<"review", order[k], "PROTECT">>}]
  IN /\ Workspace /\ view.confirm
     /\ Count(aside # 0 \/ view.busy)
     /\ IF pending = {}
        THEN /\ view' = [view EXCEPT !.busy = FALSE]
             /\ UNCHANGED <<promises, workspaces, artifacts>>
        ELSE LET order == CHOOSE o \in [1 .. Cardinality(pending) -> pending] :
                            \A i, j \in DOMAIN o : o[i] = o[j] => i = j
             IN execute(Promise("bulk", reviews(order) \o <<{<<"entities">>}, {<<"graph">>}>>))

transform == CanApply /\ Await(Promise("transform", <<{<<"transformed">>}>>))

verify ==
  /\ Workspace /\ ~view.busy /\ view.transformed # 0 /\ view.verification = Unverified
  /\ Await(Promise("verify", <<{<<"verification">>}, {<<"certificate">>, <<"audit">>}>>))

(* The button is there at every step.                                        *)
destroy == Workspace /\ ~view.busy /\ Await(Promise("destroy", <<{<<"destruction">>}>>))

-----------------------------------------------------------------------------
(* The backend erases jobs with their mentions and outputs.                  *)
Erase(jobs) ==
  /\ workspaces' = [j \in DOMAIN workspaces |->
                      IF j \in jobs THEN [status |-> "DESTROYED", decided |-> <<>>] ELSE workspaces[j]]
  /\ artifacts' = [a \in DOMAIN artifacts |->
                     IF artifacts[a].job \in jobs
                     THEN [artifacts[a] EXCEPT !.status = "DESTROYED", !.decided = <<>>]
                     ELSE artifacts[a]]

(* A call is served, and what is refused or lost ends its handler.           *)

Got(s, call, answer) ==
  promises' = [promises EXCEPT ![s].todo[1] = @ \ {call},
                               ![s].got = [f \in DOMAIN @ \cup {call[1]} |->
                                             IF f = call[1] THEN answer ELSE @[f]]]

Served(s, call) ==
  LET p == promises[s]
      w == workspaces[p.job]
      level == IF p.does = "create" THEN p.got["recommendation"] ELSE p.level
      answers(answer) == Got(s, call, answer) /\ UNCHANGED <<workspaces, artifacts>>
  IN \/ /\ call[1] = "job" /\ Len(workspaces) + aside < MaxTurns
        /\ workspaces' = Append(workspaces, [status |-> "ACTIVE",
                                             decided |-> [f \in Findings |-> "PENDING"]])
        /\ promises' = [promises EXCEPT ![s].todo[1] = {}, ![s].job = Len(workspaces'),
                                        ![s].got = [job |-> Len(workspaces')]]
        /\ UNCHANGED artifacts
     \/ /\ call[1] # "job" /\ w.status = "ACTIVE"
        /\ \/ call[1] \in {"file", "analysis", "audit"} /\ answers(TRUE)
           \/ call[1] = "entities" /\ answers(w.decided)
           \/ call[1] = "recommendation" /\ answers(minimum_level[Undismissed(w.decided)])
           \/ call[1] = "graph" /\ answers(<<p.job, level>>)
           \/ /\ call[1] = "review" /\ Got(s, call, TRUE)
              /\ workspaces' = [workspaces EXCEPT ![p.job].decided[call[2]] = call[3]]
              /\ UNCHANGED artifacts
           \/ /\ call[1] = "transformed" /\ Len(artifacts) < MaxArtifacts
              /\ Undecided(w.decided) = {} /\ p.level >= minimum_level[Undismissed(w.decided)]
              /\ artifacts' = Append(artifacts, [job |-> p.job, level |-> p.level,
                                                 decided |-> w.decided, status |-> "CREATED"])
              /\ Got(s, call, Len(artifacts')) /\ UNCHANGED workspaces
           \/ /\ call[1] = "verification" /\ artifacts[p.output].job = p.job
              /\ \E status \in {"VERIFIED_SAFE", "RELEASE_BLOCKED"} :
                    /\ artifacts' = [artifacts EXCEPT ![p.output].status = status]
                    /\ Got(s, call, <<p.output, status>>)
              /\ UNCHANGED workspaces
           \/ /\ call[1] = "certificate" /\ artifacts[p.output].status = "VERIFIED_SAFE"
              /\ answers(p.output)
           \/ call[1] = "destruction" /\ Got(s, call, TRUE) /\ Erase({p.job})

Serve(s) ==
  /\ promises[s] # NoPromise
  /\ \E call \in Head(promises[s].todo) : Served(s, call)
  /\ UNCHANGED <<view, aside>>

Fail(s) ==
  /\ promises[s] # NoPromise /\ Head(promises[s].todo) # {}
  /\ promises' = [promises EXCEPT ![s] = NoPromise]
  /\ view' = [view EXCEPT !.busy = FALSE]
  /\ UNCHANGED <<workspaces, artifacts, aside>>

-----------------------------------------------------------------------------
(* The page goes on with the answers.                                        *)

Applied(page, got) ==
  [f \in DOMAIN page |-> IF f \in DOMAIN got THEN got[f] ELSE page[f]]

(* Mutant of Settled: a new output leaves the proof of the old one.          *)
settled_keeping_proof(page, p) ==
  CASE p.does = "create" -> [page EXCEPT !.level = p.got["recommendation"]]
    [] p.does = "level" -> [page EXCEPT !.level = p.level, !.transformed = 0,
                                        !.verification = Unverified, !.certificate = 0]
    [] p.does \in {"review", "bulk"} -> [page EXCEPT !.confirm = FALSE]
    [] OTHER -> page

(* What a handler that has come to its end resets.                           *)
Settled(page, p) ==
  CASE p.does = "create" -> [page EXCEPT !.level = p.got["recommendation"]]
    [] p.does = "level" -> [page EXCEPT !.level = p.level, !.transformed = 0,
                                        !.verification = Unverified, !.certificate = 0]
    [] p.does = "transform" -> [page EXCEPT !.verification = Unverified, !.certificate = 0]
    [] p.does = "verify" /\ p.got["verification"][2] # "VERIFIED_SAFE" ->
         [page EXCEPT !.certificate = 0]
    [] p.does \in {"review", "bulk"} -> [page EXCEPT !.confirm = FALSE]
    [] OTHER -> page

(* Reviews show each answer as it comes, the others all of them at the end.  *)
Resume(s) ==
  LET p == promises[s]
      last == \/ Len(p.todo) = 1
              \/ p.does = "verify" /\ p.got["verification"][2] # "VERIFIED_SAFE"
      stepwise == p.does \in {"review", "bulk"}
      page == IF last \/ stepwise THEN Applied(view, p.got) ELSE view
  IN /\ p # NoPromise /\ Head(p.todo) = {}
     /\ promises' = [promises EXCEPT
          ![s] = IF last THEN NoPromise
                 ELSE [p EXCEPT !.todo = Tail(@), !.got = IF stepwise THEN <<>> ELSE @]]
     /\ view' = IF last THEN [Settled(page, p) EXCEPT !.busy = FALSE]
                ELSE [page EXCEPT !.busy = @ \/ p.does = "create"]
     /\ UNCHANGED <<workspaces, artifacts, aside>>

-----------------------------------------------------------------------------

pollLifecycle ==
  /\ Workspace /\ workspaces[view.job].status = "DESTROYED"
  /\ view' = [view EXCEPT !.destruction = TRUE]
  /\ UNCHANGED <<promises, workspaces, artifacts, aside>>

startNewRelease ==
  /\ view.destruction
  /\ view' = [NewPage EXCEPT !.busy = view.busy, !.confirm = view.confirm, !.level = view.level]
  /\ UNCHANGED <<promises, workspaces, artifacts, aside>>

(* RightsGate is opened and the console comes back as a new page.  What the  *)
(* handlers of the old one still do concerns a job that no page shows; it is *)
(* left to retention.                                                        *)
Leave ==
  /\ ~view.destruction
  /\ view' = NewPage /\ promises' = [s \in Slots |-> NoPromise] /\ aside' = 0
  /\ Erase(DOMAIN workspaces)

Expire(j) ==
  /\ workspaces[j].status = "ACTIVE" /\ Erase({j})
  /\ UNCHANGED <<view, promises, aside>>

ConsoleInit ==
  /\ view = NewPage /\ promises = [s \in Slots |-> NoPromise]
  /\ workspaces = <<>> /\ artifacts = <<>> /\ aside = 0

ConsoleNext ==
  \/ createUploadAnalyse \/ selectLevel \/ reviewMention \/ transform \/ verify \/ destroy
  \/ askBulkProtect \/ cancelBulkProtect \/ protectHighConfidencePending
  \/ pollLifecycle \/ startNewRelease \/ Leave
  \/ \E s \in Slots : Serve(s) \/ Fail(s) \/ Resume(s)
  \/ \E j \in DOMAIN workspaces : Expire(j)

-----------------------------------------------------------------------------

ConsoleTypeOK ==
  /\ view.job \in 0 .. Len(workspaces) /\ view.transformed \in 0 .. Len(artifacts)
  /\ view.level \in LevelChoices \cup {NewPage.level}
  /\ \A s \in Slots : promises[s] = NoPromise \/ promises[s].todo # <<>>
  /\ \A a \in DOMAIN artifacts : artifacts[a].job \in DOMAIN workspaces

(* The console shows what the backend has, unless a bulk confirmation ran    *)
(* beside another handler: a release that is offered is one output of this   *)
(* job, verified, certified, and made with the decisions that are stored     *)
(* (nothing in the backend keeps a review from following an output); the     *)
(* graph beside the level is of that level; and protection is offered when   *)
(* nothing is pending.                                                       *)
ConsoleIsTruthful ==
  aside = 0 =>
    /\ ReleaseStage =>
         LET made == artifacts[view.transformed]
         IN /\ view.certificate = view.transformed
            /\ view.verification[1] = view.transformed
            /\ made.job = view.job /\ made.level = view.level
            /\ made.decided = workspaces[view.job].decided
    /\ Workspace /\ ~view.busy => view.graph = <<view.job, view.level>>
    /\ CanApply => Undecided(workspaces[view.job].decided) = {}
=============================================================================
