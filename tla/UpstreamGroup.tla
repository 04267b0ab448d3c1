---------------------------- MODULE UpstreamGroup ----------------------------
(***************************************************************************)
(* One run of Group.Query (upstream/group.go): a goroutine per upstream,   *)
(* a buffered channel of their results, and a collector that returns the   *)
(* first success.  Each goroutine runs Exchange, looks whether the query   *)
(* was cancelled, and sends; the query may be cancelled between any two of *)
(* these steps.                                                            *)
(***************************************************************************)
EXTENDS Naturals, Sequences, FiniteSets

CONSTANT Nameservers  \* the nameservers the group is configured with

ASSUME NameserversFinite == IsFiniteSet(Nameservers)

VARIABLES upstreams,  \* g.upstreams: those createUpstream succeeded for
          worker,     \* where the goroutine of each upstream is
          outcome,    \* what its Exchange returned
          resChan,    \* buffered channel, of capacity len(g.upstreams)
          ctxDone,    \* the caller's context is done
          cancelled,  \* cancel() was called on queryCtx
          i,          \* rounds of the collector's loop so far
          heard,      \* whose failures it received in them (history)
          result      \* what Query returned

vars == <<upstreams, worker, outcome, resChan, ctxDone, cancelled, i, heard, result>>

Pending == [kind |-> "pending"]
AnswerOf(u) == [kind |-> "answer", from |-> u]
AllFailed == [kind |-> "all failed"]
TimedOut == [kind |-> "timed out"]
Results == {Pending, AllFailed, TimedOut} \cup {AnswerOf(u) : u \in Nameservers}

(* Exchange returns a message, an error, or neither ("empty": the code     *)
(* tests resp != nil beside err == nil).                                   *)
Outcomes == {"none", "answer", "error", "empty"}
WorkerSteps == {"off", "exchange", "check", "send", "sent", "dropped"}

TypeOK ==
    /\ upstreams \subseteq Nameservers
    /\ worker \in [Nameservers -> WorkerSteps]
    /\ outcome \in [Nameservers -> Outcomes]
    /\ resChan \in Seq(upstreams)
    /\ ctxDone \in BOOLEAN
    /\ cancelled \in BOOLEAN
    /\ i \in Nat
    /\ heard \subseteq upstreams
    /\ result \in Results

Rounds == Cardinality(upstreams)    \* of the collector's loop
CapacityOne == 1  \* mutant
Capacity == Cardinality(upstreams)  \* of resChan
QueryDone == cancelled \/ ctxDone  \* queryCtx is derived from ctx

-----------------------------------------------------------------------------
(* Mutant: goroutines for the upstreams that could not be created, too. *)
InitAllStarted ==
    /\ upstreams \in SUBSET Nameservers
    /\ worker = [u \in Nameservers |-> "exchange"]
    /\ outcome = [u \in Nameservers |-> "none"]
    /\ resChan = <<>>
    /\ ctxDone = FALSE
    /\ cancelled = FALSE
    /\ i = 0
    /\ heard = {}
    /\ result = Pending

(* NewGroup keeps the nameservers it could create an upstream for; Query   *)
(* starts one goroutine for each, and fails at once when there is none.    *)
Init ==
    /\ upstreams \in SUBSET Nameservers
    /\ worker = [u \in Nameservers |-> IF u \in upstreams THEN "exchange" ELSE "off"]
    /\ outcome = [u \in Nameservers |-> "none"]
    /\ resChan = <<>>
    /\ ctxDone = FALSE
    /\ cancelled = FALSE
    /\ i = 0
    /\ heard = {}
    /\ result = Pending

Return(r) ==
    /\ result' = r
    /\ cancelled' = TRUE

(* ups.Exchange(m) returns: a reply, or an error after its own timeout. *)
Exchange(u, o) ==
    /\ worker[u] = "exchange"
    /\ outcome' = [outcome EXCEPT ![u] = o]
    /\ worker' = [worker EXCEPT ![u] = "check"]
    /\ UNCHANGED <<upstreams, resChan, ctxDone, cancelled, i, heard, result>>

(* Mutant: the goroutine drops a failure as well. *)
CheckSuccess(u) ==
    /\ worker[u] = "check"
    /\ worker' = [worker EXCEPT ![u] = IF QueryDone \/ outcome[u] # "answer" THEN "dropped"
                                       ELSE "send"]
    /\ UNCHANGED <<upstreams, outcome, resChan, ctxDone, cancelled, i, heard, result>>

(* The goroutine drops its result when the query is over. *)
Check(u) ==
    /\ worker[u] = "check"
    /\ worker' = [worker EXCEPT ![u] = IF QueryDone THEN "dropped" ELSE "send"]
    /\ UNCHANGED <<upstreams, outcome, resChan, ctxDone, cancelled, i, heard, result>>

Send(u) ==
    /\ worker[u] = "send"
    /\ Len(resChan) < Capacity
    /\ resChan' = Append(resChan, u)
    /\ worker' = [worker EXCEPT ![u] = "sent"]
    /\ UNCHANGED <<upstreams, outcome, ctxDone, cancelled, i, heard, result>>

(* The collector's loop, `case res := <-resChan`. *)
Receive ==
    /\ result = Pending
    /\ i < Rounds
    /\ resChan # <<>>
    /\ resChan' = Tail(resChan)
    /\ \/ /\ outcome[Head(resChan)] = "answer"
          /\ Return(AnswerOf(Head(resChan)))
          /\ UNCHANGED <<i, heard>>
       \/ /\ outcome[Head(resChan)] # "answer"
          /\ i' = i + 1
          /\ heard' = heard \cup {Head(resChan)}
          /\ UNCHANGED <<cancelled, result>>
    /\ UNCHANGED <<upstreams, worker, outcome, ctxDone>>

(* `case <-ctx.Done()`; select takes either case when both are ready. *)
TimeOut ==
    /\ result = Pending
    /\ i < Rounds
    /\ ctxDone
    /\ Return(TimedOut)
    /\ UNCHANGED <<upstreams, worker, outcome, resChan, ctxDone, i, heard>>

(* Mutant: the loop ends one round early. *)
GiveUpEarly ==
    /\ result = Pending
    /\ i + 1 >= Rounds
    /\ Return(AllFailed)
    /\ UNCHANGED <<upstreams, worker, outcome, resChan, ctxDone, i, heard>>

(* The loop has run len(g.upstreams) times without a success. *)
GiveUp ==
    /\ result = Pending
    /\ i = Rounds
    /\ Return(AllFailed)
    /\ UNCHANGED <<upstreams, worker, outcome, resChan, ctxDone, i, heard>>

(* The caller's context ends. *)
EndContext ==
    /\ ~ctxDone
    /\ ctxDone' = TRUE
    /\ UNCHANGED <<upstreams, worker, outcome, resChan, cancelled, i, heard, result>>

Work(u) == Check(u) \/ Send(u) \/ \E o \in Outcomes \ {"none"} : Exchange(u, o)
Collect == Receive \/ TimeOut \/ GiveUp

Next == (\E u \in Nameservers : Work(u)) \/ Collect \/ EndContext

(* Every goroutine is scheduled, and every Exchange ends: it has a timeout *)
(* of its own.  The caller's context need never end.                       *)
Fairness == WF_vars(Collect) /\ \A u \in Nameservers : WF_vars(Work(u))

Spec == Init /\ [][Next]_vars
FairSpec == Spec /\ Fairness

-----------------------------------------------------------------------------
Promise == INSTANCE UpstreamPromise WITH
    asked <- upstreams,
    answered <- {u \in upstreams : outcome[u] = "answer"},
    failed <- {u \in upstreams : outcome[u] \in {"error", "empty"}},
    ended <- ctxDone

(* Query keeps its promise: an answer comes from an upstream that answered,*)
(* "all nameservers failed" is only said when every one has, and a timeout *)
(* only when the caller's context ended.  No result is lost between the    *)
(* goroutines, the check for cancellation and the counted loop.            *)
KeepsPromise == Promise!Spec

(* A goroutine gives its result up only when nobody waits for it any more: *)
(* otherwise the collector would count to len(g.upstreams) for ever.       *)
DropsAfterTheEnd ==
    \A u \in Nameservers : worker[u] = "dropped" => result # Pending \/ ctxDone

(* No goroutine ever blocks on the channel, even those that were past the  *)
(* check when the query was cancelled and whose results nobody receives.   *)
SendNeverBlocks ==
    \A u \in Nameservers : worker[u] = "send" => Len(resChan) < Capacity

(* Query returns, without the help of its context. *)
Returns == <>(result # Pending)

(* Every goroutine Query started ends: none is leaked. *)
NoLeak == \A u \in Nameservers : <>(worker[u] \in {"off", "sent", "dropped"})
=============================================================================
