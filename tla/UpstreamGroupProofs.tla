------------------------- MODULE UpstreamGroupProofs -------------------------
(***************************************************************************)
(* Theorems about UpstreamGroup, for any finite set of nameservers.        *)
(***************************************************************************)
EXTENDS UpstreamGroup, FiniteSetTheorems, SequenceTheorems, TLAPS

(***************************************************************************)
(* The strengthening that is inductive: every goroutine sends once and is  *)
(* heard at most once, so the loop counter is the number of nameservers    *)
(* known to have failed.                                                   *)
(***************************************************************************)
Sent == {u \in upstreams : worker[u] = "sent"}

WorkerInv ==
    \A u \in Nameservers :
        /\ worker[u] = "off" <=> u \notin upstreams
        /\ worker[u] \in {"off", "exchange"} <=> outcome[u] = "none"
        /\ worker[u] = "dropped" => QueryDone

ChannelInv ==
    /\ \A j \in 1..Len(resChan) : resChan[j] \in Sent \ heard
    /\ \A j, k \in 1..Len(resChan) : resChan[j] = resChan[k] => j = k
    /\ Len(resChan) <= Cardinality(Sent)

LoopInv ==
    /\ heard \subseteq Sent
    /\ \A u \in heard : outcome[u] \in {"error", "empty"}
    /\ i = Cardinality(heard)
    /\ cancelled <=> result # Pending

IInv == TypeOK /\ WorkerInv /\ ChannelInv /\ LoopInv

-----------------------------------------------------------------------------
LEMMA ResultsDiffer ==
    /\ TimedOut # Pending
    /\ AllFailed # Pending
    /\ \A u : AnswerOf(u) # Pending
<1>1. /\ Pending.kind = "pending"
      /\ TimedOut.kind = "timed out"
      /\ AllFailed.kind = "all failed"
      /\ \A u : AnswerOf(u).kind = "answer"
  BY DEF Pending, TimedOut, AllFailed, AnswerOf
<1>2. QED
  BY <1>1

LEMMA UpstreamsFinite ==
    ASSUME upstreams \subseteq Nameservers, NEW S, S \subseteq upstreams
    PROVE  /\ IsFiniteSet(S)
           /\ Cardinality(S) \in Nat
           /\ Cardinality(S) <= Cardinality(upstreams)
           /\ Cardinality(S) = Cardinality(upstreams) => S = upstreams
<1>1. IsFiniteSet(upstreams) /\ IsFiniteSet(S)
  BY NameserversFinite, FS_Subset
<1>2. QED
  BY <1>1, FS_Subset, FS_CardinalityType

LEMMA InvInit == Init => IInv
<1> SUFFICES ASSUME Init PROVE IInv
  OBVIOUS
<1>1. TypeOK /\ WorkerInv
  <2>1. resChan \in Seq(upstreams) /\ result \in Results
    BY DEF Init, Results
  <2>2. worker \in [Nameservers -> WorkerSteps] /\ outcome \in [Nameservers -> Outcomes]
    BY DEF Init, WorkerSteps, Outcomes
  <2>3. TypeOK
    BY <2>1, <2>2 DEF Init, TypeOK
  <2>4. WorkerInv
    BY DEF Init, WorkerInv, QueryDone
  <2>5. QED
    BY <2>3, <2>4
<1>2. Cardinality(Sent) \in Nat
  BY <1>1, UpstreamsFinite DEF Sent, TypeOK
<1>3. ChannelInv
  BY <1>2 DEF Init, ChannelInv
<1>4. LoopInv
  BY FS_EmptySet DEF Init, LoopInv
<1>5. QED
  BY <1>1, <1>3, <1>4 DEF IInv

(* The number of goroutines that have sent, before and after one more has. *)
LEMMA OneMoreSent ==
    ASSUME TypeOK, NEW u \in upstreams, worker[u] # "sent",
           worker' = [worker EXCEPT ![u] = "sent"], UNCHANGED upstreams
    PROVE  /\ Sent' = Sent \cup {u}
           /\ Cardinality(Sent') = Cardinality(Sent) + 1
           /\ Cardinality(Sent) < Cardinality(upstreams)
<1>1. Sent' = Sent \cup {u} /\ u \notin Sent /\ Sent \subseteq upstreams
  BY DEF TypeOK, Sent
<1>2. IsFiniteSet(Sent) /\ Cardinality(Sent) \in Nat
  BY <1>1, UpstreamsFinite DEF TypeOK
<1>3. Cardinality(Sent') = Cardinality(Sent) + 1
  BY <1>1, <1>2, FS_AddElement
<1>4. Sent \cup {u} \subseteq upstreams
  BY <1>1
<1>5. Cardinality(Sent \cup {u}) <= Cardinality(upstreams)
  BY <1>4, UpstreamsFinite DEF TypeOK
<1>6. Cardinality(upstreams) \in Nat
  BY UpstreamsFinite DEF TypeOK
<1>7. QED
  BY <1>1, <1>2, <1>3, <1>5, <1>6

LEMMA InvNext == IInv /\ [Next]_vars => IInv'
<1> SUFFICES ASSUME IInv, [Next]_vars PROVE IInv'
  OBVIOUS
<1>0. TypeOK /\ WorkerInv /\ ChannelInv /\ LoopInv
  BY DEF IInv
<1>c. Cardinality(Sent) \in Nat /\ Cardinality(heard) \in Nat
  <2>1. Sent \subseteq upstreams /\ heard \subseteq upstreams
    BY <1>0 DEF Sent, TypeOK
  <2>2. QED
    BY <1>0, <2>1, UpstreamsFinite DEF TypeOK
<1>1. ASSUME NEW u \in Nameservers, NEW o \in Outcomes \ {"none"}, Exchange(u, o) PROVE IInv'
  <2>1. TypeOK'
    BY <1>0, <1>1 DEF Exchange, TypeOK, WorkerSteps, Outcomes
  <2>2. Sent' = Sent
    BY <1>0, <1>1 DEF Exchange, TypeOK, Sent
  <2>3. WorkerInv'
    BY <1>0, <1>1 DEF Exchange, TypeOK, WorkerInv, QueryDone
  <2>4. u \notin heard
    BY <1>0, <1>1 DEF Exchange, LoopInv, Sent
  <2>5. ChannelInv'
    BY <1>0, <1>1, <2>2 DEF Exchange, ChannelInv
  <2>6. LoopInv'
    BY <1>0, <1>1, <2>2, <2>4 DEF Exchange, LoopInv, TypeOK
  <2>7. QED
    BY <2>1, <2>3, <2>5, <2>6 DEF IInv
<1>2. ASSUME NEW u \in Nameservers, Check(u) PROVE IInv'
  <2>1. TypeOK'
    BY <1>0, <1>2 DEF Check, TypeOK, WorkerSteps
  <2>2. Sent' = Sent
    BY <1>0, <1>2 DEF Check, TypeOK, Sent
  <2>3. WorkerInv'
    BY <1>0, <1>2 DEF Check, TypeOK, WorkerInv, QueryDone
  <2>4. ChannelInv' /\ LoopInv'
    BY <1>0, <1>2, <2>2 DEF Check, ChannelInv, LoopInv
  <2>5. QED
    BY <2>1, <2>3, <2>4 DEF IInv
<1>3. ASSUME NEW u \in Nameservers, Send(u) PROVE IInv'
  <2>1. u \in upstreams /\ u \notin Sent
    BY <1>0, <1>3 DEF Send, WorkerInv, Sent
  <2>2. /\ Len(resChan') = Len(resChan) + 1
        /\ resChan' \in Seq(upstreams)
        /\ \A j \in 1..Len(resChan) : resChan'[j] = resChan[j]
        /\ resChan'[Len(resChan) + 1] = u
    BY <1>0, <1>3, <2>1 DEF Send, TypeOK
  <2>3. Sent' = Sent \cup {u} /\ Cardinality(Sent') = Cardinality(Sent) + 1
    BY <1>0, <1>3, <2>1, OneMoreSent DEF Send
  <2>4. TypeOK'
    BY <1>0, <1>3, <2>2 DEF Send, TypeOK, WorkerSteps
  <2>5. WorkerInv'
    BY <1>0, <1>3 DEF Send, TypeOK, WorkerInv, QueryDone
  <2>6. u \notin heard /\ heard' = heard /\ \A j \in 1..Len(resChan) : resChan[j] # u
    BY <1>0, <1>3, <2>1 DEF Send, LoopInv, ChannelInv
  <2>n. Len(resChan) \in Nat
    BY <1>0 DEF TypeOK
  <2>7. ChannelInv'
    <3>1. \A j \in 1..Len(resChan') : j \in 1..Len(resChan) \/ j = Len(resChan) + 1
      BY <2>2, <2>n
    <3>2. \A j \in 1..Len(resChan') : resChan'[j] \in Sent' \ heard'
      BY <1>0, <2>2, <2>3, <2>6, <3>1 DEF ChannelInv
    <3>3. \A j, k \in 1..Len(resChan') : resChan'[j] = resChan'[k] => j = k
      BY <1>0, <2>2, <2>6, <3>1 DEF ChannelInv
    <3>4. Len(resChan') <= Cardinality(Sent')
      BY <1>0, <1>c, <2>2, <2>3, <2>n DEF ChannelInv
    <3>5. QED
      BY <3>2, <3>3, <3>4 DEF ChannelInv
  <2>8. LoopInv'
    BY <1>0, <1>3, <2>3 DEF Send, LoopInv
  <2>9. QED
    BY <2>4, <2>5, <2>7, <2>8 DEF IInv
<1>4. CASE Receive
  <2> DEFINE h == Head(resChan)
  <2>1. /\ Len(resChan) \in Nat \ {0}
        /\ h = resChan[1]
        /\ resChan' \in Seq(upstreams)
        /\ Len(resChan') = Len(resChan) - 1
        /\ \A j \in 1..Len(resChan') : resChan'[j] = resChan[j + 1]
    BY <1>0, <1>4 DEF Receive, TypeOK
  <2>2. h \in Sent \ heard /\ h \in upstreams /\ h \in Nameservers
    BY <1>0, <2>1 DEF ChannelInv, Sent, TypeOK
  <2>3. Sent' = Sent /\ UNCHANGED <<upstreams, worker, outcome, ctxDone>>
    BY <1>4 DEF Receive, Sent
  <2>4. \A j \in 1..Len(resChan') : resChan'[j] \in Sent' \ (heard \cup {h})
    <3>1. \A j \in 1..Len(resChan') : j + 1 \in 1..Len(resChan) /\ j + 1 # 1
      BY <2>1
    <3>2. QED
      BY <1>0, <2>1, <2>3, <3>1 DEF ChannelInv
  <2>5. \A j, k \in 1..Len(resChan') : resChan'[j] = resChan'[k] => j = k
    <3>1. \A j \in 1..Len(resChan') : j + 1 \in 1..Len(resChan)
      BY <2>1
    <3>2. QED
      BY <1>0, <2>1, <3>1 DEF ChannelInv
  <2>6. Len(resChan') <= Cardinality(Sent')
    BY <1>0, <1>c, <2>1, <2>3 DEF ChannelInv
  <2>7. CASE outcome[h] = "answer" /\ Return(AnswerOf(h)) /\ UNCHANGED <<i, heard>>
    <3>1. TypeOK'
      BY <1>0, <2>1, <2>2, <2>3, <2>7 DEF TypeOK, Return, Results
    <3>2. result' # Pending
      BY <2>7, ResultsDiffer DEF Return
    <3>3. WorkerInv' /\ ChannelInv' /\ LoopInv'
      BY <1>0, <2>3, <2>4, <2>5, <2>6, <2>7, <3>2 DEF WorkerInv, ChannelInv, LoopInv, QueryDone, Return
    <3>4. QED
      BY <3>1, <3>3 DEF IInv
  <2>8. CASE /\ outcome[h] # "answer"
             /\ i' = i + 1
             /\ heard' = heard \cup {h}
             /\ UNCHANGED <<cancelled, result>>
    <3>1. TypeOK'
      BY <1>0, <2>1, <2>2, <2>3, <2>8 DEF TypeOK
    <3>2. Cardinality(heard') = Cardinality(heard) + 1
      <4>1. IsFiniteSet(heard)
        BY <1>0, UpstreamsFinite DEF TypeOK
      <4>2. QED
        BY <2>2, <2>8, <4>1, FS_AddElement
    <3>3. outcome[h] \in {"error", "empty"}
      BY <1>0, <2>2, <2>8 DEF TypeOK, Outcomes, WorkerInv, Sent
    <3>4. WorkerInv' /\ ChannelInv'
      BY <1>0, <2>3, <2>4, <2>5, <2>6, <2>8 DEF WorkerInv, ChannelInv, QueryDone
    <3>5. LoopInv'
      BY <1>0, <2>2, <2>3, <2>8, <3>2, <3>3 DEF LoopInv
    <3>6. QED
      BY <3>1, <3>4, <3>5 DEF IInv
  <2>9. QED
    BY <1>4, <2>7, <2>8 DEF Receive
<1>5. ASSUME NEW r \in {TimedOut, AllFailed}, Return(r),
             UNCHANGED <<upstreams, worker, outcome, resChan, ctxDone, i, heard>>
      PROVE IInv'
  <2>1. r # Pending
    BY <1>5, ResultsDiffer
  <2>2. TypeOK'
    BY <1>0, <1>5 DEF TypeOK, Return, Results
  <2>3. Sent' = Sent
    BY <1>5 DEF Sent
  <2>4. WorkerInv' /\ ChannelInv' /\ LoopInv'
    BY <1>0, <1>5, <2>1, <2>3 DEF WorkerInv, ChannelInv, LoopInv, Return, QueryDone
  <2>5. QED
    BY <2>2, <2>4 DEF IInv
<1>6. CASE TimeOut \/ GiveUp
  BY <1>5, <1>6 DEF TimeOut, GiveUp
<1>7. CASE EndContext
  <2>1. Sent' = Sent
    BY <1>7 DEF EndContext, Sent
  <2>2. QED
    BY <1>0, <1>7, <2>1 DEF EndContext, IInv, TypeOK, WorkerInv, ChannelInv, LoopInv, QueryDone
<1>8. CASE UNCHANGED vars
  <2>1. Sent' = Sent
    BY <1>8 DEF vars, Sent
  <2>2. QED
    BY <1>0, <1>8, <2>1 DEF vars, IInv, TypeOK, WorkerInv, ChannelInv, LoopInv, QueryDone
<1>9. QED
  BY <1>1, <1>2, <1>3, <1>4, <1>6, <1>7, <1>8 DEF Next, Work, Collect

LEMMA Inductive == Spec => []IInv
BY InvInit, InvNext, PTL DEF Spec

(* The variables keep their types: the channel and the loop only ever know *)
(* upstreams of the group.                                                 *)
THEOREM Types == Spec => []TypeOK
<1>1. IInv => TypeOK
  BY DEF IInv
<1>2. QED
  BY <1>1, Inductive, PTL

-----------------------------------------------------------------------------
(* The loop has counted every upstream only when every upstream has failed. *)
LEMMA CountedAll ==
    ASSUME IInv, i = Cardinality(upstreams)
    PROVE  {u \in upstreams : outcome[u] \in {"error", "empty"}} = upstreams
<1>1. heard \subseteq upstreams /\ Cardinality(heard) = Cardinality(upstreams)
  BY DEF IInv, TypeOK, LoopInv
<1>2. heard = upstreams
  BY <1>1, UpstreamsFinite DEF IInv, TypeOK
<1>3. QED
  BY <1>2 DEF IInv, LoopInv

(* Group.Query implements what a query to a group promises: its steps are  *)
(* steps of the promise, or invisible to the caller.                       *)
THEOREM GroupKeepsPromise == Spec => KeepsPromise
<1> DEFINE answered == {u \in upstreams : outcome[u] = "answer"}
           failed == {u \in upstreams : outcome[u] \in {"error", "empty"}}
<1>1. Init => Promise!Init
  BY ResultsDiffer DEF Init, Promise!Init, Pending, Promise!Pending
<1>2. IInv /\ [Next]_vars => [Promise!Next]_Promise!vars
  <2> SUFFICES ASSUME IInv, Next PROVE Promise!Next \/ UNCHANGED Promise!vars
    BY DEF vars, Promise!vars
  <2>1. ASSUME NEW u \in Nameservers, NEW o \in Outcomes \ {"none"}, Exchange(u, o)
        PROVE  Promise!Settle(u)
    <3>1. u \in upstreams /\ outcome[u] = "none"
      BY <2>1 DEF Exchange, IInv, WorkerInv
    <3>2. UNCHANGED <<upstreams, ctxDone, result>>
      BY <2>1 DEF Exchange
    <3>3. \A v \in upstreams : outcome'[v] = IF v = u THEN o ELSE outcome[v]
      BY <2>1 DEF Exchange, IInv, TypeOK
    <3>4. CASE o = "answer"
      <4>1. answered' = answered \cup {u} /\ failed' = failed
        BY <3>1, <3>2, <3>3, <3>4
      <4>2. QED
        BY <3>1, <3>2, <4>1 DEF Promise!Settle
    <3>5. CASE o \in {"error", "empty"}
      <4>1. failed' = failed \cup {u} /\ answered' = answered
        BY <3>1, <3>2, <3>3, <3>5
      <4>2. QED
        BY <3>1, <3>2, <4>1 DEF Promise!Settle
    <3>6. QED
      BY <3>4, <3>5 DEF Outcomes
  <2>2. ASSUME UNCHANGED <<upstreams, outcome, ctxDone, result>>
        PROVE  UNCHANGED Promise!vars
    BY <2>2 DEF Promise!vars
  <2>3. ASSUME NEW u \in Nameservers, Check(u) \/ Send(u) PROVE UNCHANGED Promise!vars
    BY <2>2, <2>3 DEF Check, Send
  <2>4. CASE Receive
    <3> DEFINE h == Head(resChan)
    <3>1. h \in upstreams
      BY <2>4 DEF Receive, IInv, TypeOK
    <3>2. CASE outcome[h] = "answer" /\ Return(AnswerOf(h))
      <4>1. result = Pending /\ result' = AnswerOf(h) /\ UNCHANGED <<upstreams, outcome, ctxDone>>
        BY <2>4, <3>2 DEF Receive, Return
      <4>2. h \in answered
        BY <3>1, <3>2
      <4>3. QED
        BY <4>1, <4>2 DEF Promise!Next, Promise!Return, Promise!Pending, Promise!AnswerOf, Pending, AnswerOf
    <3>3. CASE UNCHANGED <<cancelled, result>>
      BY <2>2, <2>4, <3>3 DEF Receive
    <3>4. QED
      BY <2>4, <3>2, <3>3 DEF Receive
  <2>5. CASE TimeOut
    BY <2>5 DEF TimeOut, Return, Promise!Next, Promise!Return, Promise!Pending, Promise!TimedOut, Pending, TimedOut
  <2>6. CASE GiveUp
    <3>1. failed = upstreams
      BY <2>6, CountedAll DEF GiveUp, Rounds
    <3>2. QED
      BY <2>6, <3>1 DEF GiveUp, Return, Promise!Next, Promise!Return, Promise!Pending, Promise!AllFailed, Pending, AllFailed
  <2>7. CASE EndContext
    BY <2>7 DEF EndContext, Promise!Next, Promise!EndContext, IInv, TypeOK
  <2>8. QED
    BY <2>1, <2>3, <2>4, <2>5, <2>6, <2>7 DEF Next, Work, Collect, Promise!Next
<1>3. QED
  BY <1>1, <1>2, Inductive, PTL DEF Spec, KeepsPromise, Promise!Spec

(* The channel has room for whoever sends, so no goroutine is stuck on it. *)
THEOREM SendNeverBlocksAlways == Spec => []SendNeverBlocks
<1>1. IInv => SendNeverBlocks
  <2> SUFFICES ASSUME IInv, NEW u \in Nameservers, worker[u] = "send"
               PROVE  Len(resChan) < Cardinality(upstreams)
    BY DEF SendNeverBlocks, Capacity
  <2>1. u \in upstreams /\ u \notin Sent /\ Sent \cup {u} \subseteq upstreams
    BY DEF IInv, WorkerInv, Sent
  <2>2. IsFiniteSet(Sent) /\ Cardinality(Sent) \in Nat /\ Cardinality(upstreams) \in Nat
    BY <2>1, UpstreamsFinite DEF IInv, TypeOK
  <2>3. Cardinality(Sent \cup {u}) = Cardinality(Sent) + 1
    BY <2>1, <2>2, FS_AddElement
  <2>4. Cardinality(Sent \cup {u}) <= Cardinality(upstreams)
    BY <2>1, UpstreamsFinite DEF IInv, TypeOK
  <2>5. Len(resChan) \in Nat /\ Len(resChan) <= Cardinality(Sent)
    BY DEF IInv, TypeOK, ChannelInv
  <2>6. QED
    BY <2>2, <2>3, <2>4, <2>5
<1>2. QED
  BY <1>1, Inductive, PTL

(* A dropped result is one nobody waits for. *)
THEOREM DropsAfterTheEndAlways == Spec => []DropsAfterTheEnd
<1>1. IInv => DropsAfterTheEnd
  BY DEF IInv, WorkerInv, LoopInv, QueryDone, DropsAfterTheEnd
<1>2. QED
  BY <1>1, Inductive, PTL
=============================================================================
