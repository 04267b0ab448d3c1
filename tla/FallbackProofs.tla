---------------------------- MODULE FallbackProofs ----------------------------
(***************************************************************************)
(* What holds of Fallback for any number of concurrent calls.              *)
(*                                                                         *)
(* The argument is one of bookkeeping between a call's two goroutines, its *)
(* channel and its loop.  Each result is in the channel once at most, and  *)
(* what the loop has got of a group is what the group answered, if it has  *)
(* received that (Recorded); the rounds of the loop are the results it has *)
(* received and its timeout, if it has received that (Counted).  So a loop *)
(* that is over without its timeout has seen both answers, and what it     *)
(* decided on them (Decided) no late result can change.                    *)
(***************************************************************************)
EXTENDS Fallback, TLAPS

(* The result of g is in the channel; the loop has received it. *)
Pending(c, g) == \E n \in 1..Len(resChan[c]) : resChan[c][n] = g
Received(c, g) == outcome[c][g] # "none" /\ ~Pending(c, g)

Once ==
    \A c \in Calls : \A m, n \in 1..Len(resChan[c]) : resChan[c][m] = resChan[c][n] => m = n

Recorded ==
    \A c \in Calls : \A g \in Raced :
        /\ Pending(c, g) => outcome[c][g] # "none"
        /\ got[c][g] = IF Received(c, g) /\ outcome[c][g] # "error" THEN outcome[c][g] ELSE "nil"

One(event) == IF event THEN 1 ELSE 0
Rounds(c) ==
    One(Received(c, "proxy")) + One(Received(c, "proxy_ecs")) + One(timer[c] = "received")
Counted == \A c \in Calls : round[c] = Rounds(c)

(* Where a call is says what it knows of its answer, and the answer it has *)
(* given follows from what the loop got.                                   *)
Decided ==
    \A c \in Calls :
        /\ pc[c] = "start" => \A g \in Raced : outcome[c][g] = "none"
        /\ pc[c] \in {"start", "gather", "direct"} <=> via[c] = "none"
        /\ pc[c] = "direct" \/ via[c] = "direct" => got[c]["proxy_ecs"] = "match"
        /\ pc[c] = "store" => via[c] \in Groups
        /\ via[c] \in Raced => Gathered(c) /\ got[c]["proxy_ecs"] # "match"
        /\ via[c] = "error" =>
              \/ outcome[c]["direct"] = "error"
              \/ Gathered(c) /\ \A g \in Raced : got[c][g] = "nil"

Taught ==
    \A write \in learning :
        /\ pc[write[1]] = "done"
        /\ via[write[1]] \in Groups
        /\ write[2] = CategoryOf(write[1])

Inv == TypeOK /\ Once /\ Recorded /\ Counted /\ Decided /\ Taught

-----------------------------------------------------------------------------
LEMMA InvInit == Init => Inv
<1> SUFFICES ASSUME Init PROVE Inv
  OBVIOUS
<1> USE DEF Init, Raced, Groups
<1>1. TypeOK
  BY DEF TypeOK, Replies
<1>2. Once /\ Recorded /\ Taught
  BY DEF Once, Recorded, Taught, Pending, Received
<1>3. Counted
  BY DEF Counted, Rounds, One, Received
<1>4. Decided
  BY DEF Decided
<1> QED BY <1>1, <1>2, <1>3, <1>4 DEF Inv

LEMMA StartStep == ASSUME Inv, NEW c \in Calls, Start(c) PROVE Inv'
<1> USE DEF Inv, Start, Raced, Groups
<1>1. TypeOK'
  BY DEF TypeOK
<1>2. Once' /\ Recorded' /\ Counted'
  BY DEF Once, Recorded, Counted, Rounds, Received, Pending
<1>3. Decided'
  BY DEF Decided, Gathered, TypeOK
<1>4. Taught'
  BY DEF Taught, TypeOK, CategoryOf
<1> QED BY <1>1, <1>2, <1>3, <1>4

LEMMA NotBelowTwo == ASSUME NEW n \in Nat, n <= 2, ~(n < 2) PROVE n = 2
OBVIOUS

LEMMA AnswerStep ==
    ASSUME Inv, NEW c \in Calls, NEW g \in Raced, NEW reply \in Replies, Answer(c, g, reply)
    PROVE  Inv'
<1> DEFINE before == resChan[c]
<1>1. before \in Seq(Raced) /\ Len(before) <= 2 /\ resChan'[c] = Append(before, g)
  BY DEF TypeOK, Inv, Answer
<1>2. ~Pending(c, g)
  BY DEF Recorded, Inv, Answer
<1>3. Len(before) < 2
  <2>0. Len(before) \in Nat
    BY <1>1
  <2>1. SUFFICES ASSUME ~(Len(before) < 2) PROVE FALSE
    OBVIOUS
  <2>3. Len(before) = 2
    BY <1>1, <2>0, <2>1, NotBelowTwo
  <2>2. before[1] # before[2] /\ {before[1], before[2]} \subseteq Raced \ {g}
    BY <1>1, <1>2, <2>3 DEF Once, Pending, Inv
  <2> QED BY <2>2 DEF Raced
<1>4. TypeOK'
  BY <1>1, <1>3 DEF Inv, Answer, TypeOK, Raced, Groups
<1>5. /\ \A h \in Raced : Pending(c, h)' <=> Pending(c, h) \/ h = g
      /\ \A d \in Calls \ {c} : \A h \in Raced : Pending(d, h)' = Pending(d, h)
  BY <1>1 DEF Inv, Answer, Pending, TypeOK
<1>6. \A d \in Calls : \A h \in Raced : Received(d, h)' <=> Received(d, h)
  BY <1>2, <1>5 DEF Inv, Answer, Received, TypeOK, Raced, Groups, Replies
<1>7. Once'
  BY <1>1, <1>2 DEF Inv, Answer, Once, Pending, TypeOK
<1>8. Recorded'
  BY <1>2, <1>5, <1>6 DEF Inv, Answer, Recorded, Received, TypeOK, Raced, Groups, Replies
<1>9. Counted'
  BY <1>6 DEF Inv, Answer, Counted, Rounds, One, Raced
<1>10. Decided'
  BY DEF Inv, Answer, Decided, Gathered, TypeOK, Raced, Groups
<1>11. Taught'
  BY DEF Inv, Answer, Taught, CategoryOf
<1> QED BY <1>4, <1>7, <1>8, <1>9, <1>10, <1>11 DEF Inv

LEMMA FireStep == ASSUME Inv, NEW c \in Calls, Fire(c) PROVE Inv'
<1> USE DEF Inv, Fire
<1>1. TypeOK'
  BY DEF TypeOK
<1>2. Once' /\ Recorded' /\ Decided' /\ Taught'
  BY DEF Once, Recorded, Decided, Taught, CategoryOf, Received, Pending, Gathered
<1>3. Counted'
  BY DEF Counted, Rounds, One, Received, Pending, TypeOK
<1> QED BY <1>1, <1>2, <1>3

LEMMA ReceiveStep == ASSUME Inv, NEW c \in Calls, Receive(c) PROVE Inv'
<1>1. PICK before \in Seq(Raced), g \in Raced :
          /\ before = resChan[c] /\ before # <<>> /\ resChan'[c] = Tail(before)
          /\ g = before[1] /\ g = Head(before)
  BY DEF Inv, Receive, TypeOK
<1>2. /\ Pending(c, g)
      /\ \A h \in Raced : Pending(c, h)' <=> Pending(c, h) /\ h # g
      /\ \A d \in Calls \ {c} : \A h \in Raced : Pending(d, h)' = Pending(d, h)
  <2>1. Pending(c, g)
    BY <1>1 DEF Inv, Receive, Pending
  <2>2. ASSUME NEW h \in Raced PROVE Pending(c, h)' <=> Pending(c, h) /\ h # g
    <3>1. \A n \in 1..Len(Tail(before)) : Tail(before)[n] = before[n + 1] /\ n + 1 \in 1..Len(before)
      BY <1>1
    <3>2. \A n \in 2..Len(before) : before[n] = Tail(before)[n - 1] /\ n - 1 \in 1..Len(Tail(before))
      BY <1>1
    <3>3. ASSUME Pending(c, h)' PROVE Pending(c, h) /\ h # g
      <4>1. PICK n \in 1..Len(Tail(before)) : Tail(before)[n] = h
        BY <1>1, <3>3 DEF Inv, Receive, Pending
      <4>2. before[n + 1] = h /\ n + 1 \in 1..Len(before) /\ n + 1 # 1 /\ 1 \in 1..Len(before)
        BY <3>1, <4>1, <1>1
      <4> QED BY <1>1, <4>2 DEF Inv, Receive, Pending, Once
    <3>4. ASSUME Pending(c, h), h # g PROVE Pending(c, h)'
      <4>1. PICK n \in 1..Len(before) : before[n] = h
        BY <1>1, <3>4 DEF Pending
      <4> QED BY <1>1, <3>2, <3>4, <4>1 DEF Inv, Receive, Pending
    <3> QED BY <3>3, <3>4
  <2>3. \A d \in Calls \ {c} : \A h \in Raced : Pending(d, h)' = Pending(d, h)
    BY DEF Inv, Receive, Pending, TypeOK
  <2> QED BY <2>1, <2>2, <2>3
<1>3. /\ ~Received(c, g) /\ Received(c, g)'
      /\ \A h \in Raced \ {g} : Received(c, h)' <=> Received(c, h)
      /\ \A d \in Calls \ {c} : \A h \in Raced : Received(d, h)' <=> Received(d, h)
  <2>1. outcome[c][g] # "none" /\ g \in Raced
    BY <1>1, <1>2 DEF Inv, Receive, Recorded
  <2>2. ~Received(c, g) /\ Received(c, g)'
    BY <1>2, <2>1 DEF Received, Receive
  <2>3. \A h \in Raced \ {g} : Received(c, h)' <=> Received(c, h)
    BY <1>2 DEF Received, Receive
  <2>4. \A d \in Calls \ {c} : \A h \in Raced : Received(d, h)' <=> Received(d, h)
    BY <1>2 DEF Received, Receive
  <2> QED BY <2>2, <2>3, <2>4
<1>4. round[c] \in 0..1
  BY DEF Inv, Receive, Gathered, TypeOK
<1>5. TypeOK'
  <2>1. outcome[c][g] \in Replies
    BY <1>1, <1>2 DEF Inv, Recorded, TypeOK, Raced, Groups
  <2>2. got' \in [Calls -> [Raced -> {"nil", "match", "other"}]]
    BY <1>1, <2>1 DEF Inv, Receive, TypeOK, Replies
  <2>3. resChan' \in [Calls -> Seq(Raced)] /\ \A d \in Calls : Len(resChan'[d]) <= 2
    <3>1. Tail(before) \in Seq(Raced) /\ Len(Tail(before)) = Len(before) - 1 /\ Len(before) \in Nat /\ Len(before) <= 2
      BY <1>1 DEF Inv, TypeOK
    <3>2. \A n \in Nat : n <= 2 => n - 1 <= 2
      OBVIOUS
    <3> QED BY <1>1, <3>1, <3>2 DEF Inv, Receive, TypeOK
  <2>4. round' \in [Calls -> 0..2]
    BY <1>4 DEF Inv, Receive, TypeOK
  <2> QED BY <2>2, <2>3, <2>4 DEF Inv, Receive, TypeOK
<1>6. Once'
  BY <1>1 DEF Inv, Receive, Once, TypeOK
<1>7. Recorded'
  <2>1. outcome[c][g] \in Replies
    BY <1>1, <1>2 DEF Inv, Receive, Recorded, TypeOK, Raced, Groups
  <2> QED BY <1>1, <1>2, <1>3, <2>1 DEF Inv, Receive, Recorded, TypeOK, Raced, Groups
<1>8. Counted'
  BY <1>1, <1>3, <1>4 DEF Inv, Receive, Counted, Rounds, One, TypeOK, Raced
<1>9. Decided'
  BY DEF Inv, Receive, Decided, Gathered, TypeOK, Raced, Groups
<1>10. Taught'
  BY DEF Inv, Receive, Taught, CategoryOf
<1> QED BY <1>5, <1>6, <1>7, <1>8, <1>9, <1>10 DEF Inv

LEMMA ReceiveTimeoutStep == ASSUME Inv, NEW c \in Calls, ReceiveTimeout(c) PROVE Inv'
<1> USE DEF Inv, ReceiveTimeout
<1>1. round[c] \in 0..1
  BY DEF Gathered, TypeOK
<1>2. TypeOK'
  BY <1>1 DEF TypeOK
<1>3. Once' /\ Recorded' /\ Taught'
  BY DEF Once, Recorded, Taught, CategoryOf, Received, Pending
<1>4. \A d \in Calls : \A g \in Raced : Received(d, g)' <=> Received(d, g)
  BY DEF Received, Pending
<1>5. Counted'
  BY <1>1, <1>4 DEF Counted, Rounds, One, TypeOK, Raced
<1>6. Decided'
  BY DEF Decided, Gathered, TypeOK, Raced, Groups
<1> QED BY <1>2, <1>3, <1>5, <1>6

LEMMA DecideStep == ASSUME Inv, NEW c \in Calls, Decide(c) PROVE Inv'
<1> USE DEF Inv, Decide
<1>1. TypeOK'
  BY DEF TypeOK, Preferred, Groups, Raced
<1>2. Once' /\ Recorded' /\ Counted'
  BY DEF Once, Recorded, Counted, Rounds, Received, Pending
<1>3. Decided'
  BY DEF Decided, Gathered, Preferred, TypeOK, Raced, Groups
<1>4. Taught'
  BY DEF Taught, CategoryOf, TypeOK
<1> QED BY <1>1, <1>2, <1>3, <1>4

LEMMA AskDirectStep ==
    ASSUME Inv, NEW c \in Calls, NEW reply \in Replies, AskDirect(c, reply) PROVE Inv'
<1> USE DEF Inv, AskDirect
<1>1. TypeOK'
  BY DEF TypeOK, Groups
<1>2. \A d \in Calls : \A g \in Raced : outcome'[d][g] = outcome[d][g]
  BY DEF TypeOK, Raced, Groups
<1>3. Once' /\ Recorded' /\ Counted'
  <2>1. \A d \in Calls : \A g \in Raced : (Pending(d, g)' <=> Pending(d, g)) /\ (Received(d, g)' <=> Received(d, g))
    BY <1>2 DEF Received, Pending
  <2> QED BY <1>2, <2>1 DEF Once, Recorded, Counted, Rounds, One, Raced
<1>4. Decided'
  BY <1>2 DEF Decided, Gathered, TypeOK, Raced, Groups
<1>5. Taught'
  BY DEF Taught, CategoryOf, TypeOK
<1> QED BY <1>1, <1>3, <1>4, <1>5

LEMMA StoreStep == ASSUME Inv, NEW c \in Calls, Store(c) PROVE Inv'
<1> USE DEF Inv, Store
<1>1. TypeOK'
  BY DEF TypeOK, CategoryOf, Learned
<1>2. Once' /\ Recorded' /\ Counted'
  <2>1. \A d \in Calls : \A g \in Raced : (Pending(d, g)' <=> Pending(d, g)) /\ (Received(d, g)' <=> Received(d, g))
    BY DEF Received, Pending
  <2> QED BY <2>1 DEF Once, Recorded, Counted, Rounds, One, Raced
<1>3. Decided'
  BY DEF Decided, Gathered, TypeOK, Raced, Groups
<1>4. Taught'
  BY DEF Taught, CategoryOf, TypeOK, Decided
<1> QED BY <1>1, <1>2, <1>3, <1>4

LEMMA AsyncStep == ASSUME Inv, NEW write \in learning, AsyncCacheCategory(write) PROVE Inv'
<1> USE DEF Inv, AsyncCacheCategory
<1>1. TypeOK'
  BY DEF TypeOK
<1>2. Once' /\ Recorded' /\ Counted' /\ Decided'
  <2>1. \A d \in Calls : \A g \in Raced : (Pending(d, g)' <=> Pending(d, g)) /\ (Received(d, g)' <=> Received(d, g))
    BY DEF Received, Pending
  <2> QED BY <2>1 DEF Once, Recorded, Counted, Rounds, One, Raced, Decided, Gathered
<1>3. Taught'
  BY DEF Taught, CategoryOf
<1> QED BY <1>1, <1>2, <1>3
LEMMA InvStep == Inv /\ [Next]_vars => Inv'
<1> SUFFICES ASSUME Inv, [Next]_vars PROVE Inv'
  OBVIOUS
<1>1. ASSUME NEW c \in Calls, Collect(c) PROVE Inv'
  BY <1>1, StartStep, ReceiveStep, ReceiveTimeoutStep, DecideStep, StoreStep DEF Collect
<1>2. ASSUME NEW c \in Calls, NEW g \in Groups, Asked(c, g) PROVE Inv'
  BY <1>2, AnswerStep, AskDirectStep DEF Asked, Groups
<1>3. CASE UNCHANGED vars
  <2>1. \A d \in Calls : \A g \in Raced : (Pending(d, g)' <=> Pending(d, g)) /\ (Received(d, g)' <=> Received(d, g))
    BY <1>3 DEF Received, Pending, vars
  <2>2. TypeOK'
    BY <1>3 DEF Inv, TypeOK, vars
  <2>3. Once' /\ Recorded' /\ Counted'
    BY <1>3, <2>1 DEF Inv, Once, Recorded, Counted, Rounds, One, Raced, vars
  <2>4. Decided' /\ Taught'
    BY <1>3 DEF Inv, Decided, Gathered, Taught, CategoryOf, vars
  <2> QED BY <2>2, <2>3, <2>4 DEF Inv
<1> QED BY <1>1, <1>2, <1>3, FireStep, AsyncStep DEF Next

LEMMA Invariant == Spec => []Inv
BY InvInit, InvStep, PTL DEF Spec

-----------------------------------------------------------------------------
(* Every variable keeps its type; in particular the channel never holds    *)
(* more than its capacity of two, so no goroutine blocks on it, and the    *)
(* loop never starts a third round.                                        *)
THEOREM Types == Spec => []TypeOK
<1>1. Inv => TypeOK
  BY DEF Inv
<1> QED BY <1>1, Invariant, PTL

(* An answer of direct means that the ECS answer matched, and with one that*)
(* matched the proxy answers only if the timeout was received: neither the *)
(* order of the two results nor a late one turns the decision round.       *)
THEOREM DecisionHolds == Spec => []DecisionFollowsECS
<1>1. Inv => DecisionFollowsECS
  <2> SUFFICES ASSUME Inv, NEW c \in Calls
               PROVE  /\ via[c] = "direct" => outcome[c]["proxy_ecs"] = "match"
                      /\ via[c] \in Raced /\ outcome[c]["proxy_ecs"] = "match" => timer[c] = "received"
    BY DEF DecisionFollowsECS
  <2>1. via[c] = "direct" => outcome[c]["proxy_ecs"] = "match"
    BY DEF Inv, Decided, Recorded, Raced
  <2>2. ASSUME via[c] \in Raced, outcome[c]["proxy_ecs"] = "match" PROVE timer[c] = "received"
    <3>1. ~Received(c, "proxy_ecs")
      BY <2>2 DEF Inv, Decided, Recorded, Raced
    <3>2. Rounds(c) = 2
      BY <2>2 DEF Inv, Decided, Gathered, Counted
    <3> QED BY <3>1, <3>2 DEF Rounds, One
  <2> QED BY <2>1, <2>2
<1> QED BY <1>1, Invariant, PTL

(* A call that fails had no answer to give: the query to direct failed, or *)
(* each of the two queries failed or was cut off by the timeout, and at    *)
(* least one failed.                                                       *)
THEOREM FailuresAreReal == Spec => []FailureIsReal
<1>1. Inv => FailureIsReal
  <2> SUFFICES ASSUME Inv, NEW c \in Calls, via[c] = "error", outcome[c]["direct"] # "error"
               PROVE  /\ \E g \in Raced : outcome[c][g] = "error"
                      /\ \A g \in Raced : outcome[c][g] = "error" \/ timer[c] = "received"
    BY DEF FailureIsReal
  <2>1. Rounds(c) = 2 /\ \A g \in Raced : got[c][g] = "nil"
    BY DEF Inv, Decided, Gathered, Counted
  <2>2. \A g \in Raced : Received(c, g) => outcome[c][g] = "error"
    <3> SUFFICES ASSUME NEW g \in Raced, Received(c, g), outcome[c][g] # "error" PROVE FALSE
      OBVIOUS
    <3>1. got[c][g] = outcome[c][g]
      BY DEF Inv, Recorded
    <3>2. outcome[c][g] \in Replies \cup {"none"}
      BY DEF Inv, TypeOK, Groups
    <3> QED BY <2>1, <3>1, <3>2 DEF Replies, Received
  <2> QED BY <2>1, <2>2 DEF Rounds, One, Raced
<1> QED BY <1>1, Invariant, PTL

(* What the category cache learns, or has still to learn, is what some call*)
(* answered its client by, whatever order the goroutines of the calls that *)
(* are over run in.                                                        *)
THEOREM LearnedIsDecided == Spec => []LearnedWasDecided
<1> DEFINE Decider(l) == \E c \in Calls : pc[c] = "done" /\ via[c] \in Groups /\ CategoryOf(c) = l
           Settled == category \in Learned => Decider(category)
<1>1. Init => Settled
  BY DEF Init, Learned
<1>2. Inv /\ Settled /\ [Next]_vars => Settled'
  <2> SUFFICES ASSUME Inv, Settled, [Next]_vars PROVE Settled'
    OBVIOUS
  <2>1. ASSUME NEW l \in Learned, Decider(l) PROVE Decider(l)'
    <3>1. PICK c \in Calls : pc[c] = "done" /\ via[c] \in Groups /\ CategoryOf(c) = l
      BY <2>1
    <3>2. pc'[c] = pc[c] /\ via'[c] = via[c]
      BY <3>1 DEF Next, Collect, Start, Receive, ReceiveTimeout, Decide, Store, Fire, Asked, AskDirect, Answer,
             AsyncCacheCategory, vars, Inv, TypeOK
    <3> QED BY <3>1, <3>2 DEF CategoryOf
  <2>2. CASE category' = category
    BY <2>1, <2>2
  <2>3. CASE category' # category
    <3>1. PICK write \in learning : AsyncCacheCategory(write) /\ category' = write[2]
      BY <2>3 DEF Next, Collect, Start, Receive, ReceiveTimeout, Decide, Store, Fire, Asked, AskDirect, Answer,
             AsyncCacheCategory, vars
    <3>2. write[1] \in Calls /\ write[2] \in Learned
      BY DEF Inv, TypeOK
    <3>3. Decider(write[2])
      BY <3>2 DEF Inv, Taught
    <3> QED BY <2>1, <3>1, <3>2, <3>3
  <2> QED BY <2>2, <2>3
<1>3. Inv /\ Settled => LearnedWasDecided
  <2> SUFFICES ASSUME Inv, Settled, NEW l \in Learned, category = l \/ \E c \in Calls : <<c, l>> \in learning
               PROVE  Decider(l)
    BY DEF LearnedWasDecided
  <2>1. ASSUME NEW c \in Calls, <<c, l>> \in learning PROVE Decider(l)
    BY <2>1 DEF Inv, Taught
  <2> QED BY <2>1
<1> QED BY <1>1, <1>2, <1>3, Invariant, PTL DEF Spec
=============================================================================
