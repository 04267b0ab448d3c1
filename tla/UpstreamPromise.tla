--------------------------- MODULE UpstreamPromise ---------------------------
(***************************************************************************)
(* What one query to an upstream group promises its caller, whatever the   *)
(* goroutines and the channel behind it do: the answer of a nameserver     *)
(* that answered, or an error that is true.                                *)
(***************************************************************************)
CONSTANT Nameservers

VARIABLES asked,     \* the nameservers the query goes to
          answered,  \* those that have answered
          failed,    \* those that have failed
          ended,     \* the caller's context is over
          result     \* what the query returned

Pending == [kind |-> "pending"]
AnswerOf(u) == [kind |-> "answer", from |-> u]
AllFailed == [kind |-> "all failed"]
TimedOut == [kind |-> "timed out"]
Results == {Pending, AllFailed, TimedOut} \cup {AnswerOf(u) : u \in Nameservers}

Init ==
    /\ asked \in SUBSET Nameservers
    /\ answered = {}
    /\ failed = {}
    /\ ended = FALSE
    /\ result = Pending

(* A nameserver's exchange ends, before or after the query has returned. *)
Settle(u) ==
    /\ u \in asked \ (answered \cup failed)
    /\ \/ answered' = answered \cup {u} /\ failed' = failed
       \/ failed' = failed \cup {u} /\ answered' = answered
    /\ UNCHANGED <<asked, ended, result>>

EndContext ==
    /\ ~ended
    /\ ended' = TRUE
    /\ UNCHANGED <<asked, answered, failed, result>>

(* The query returns, once. *)
Return ==
    /\ result = Pending
    /\ \/ \E u \in answered : result' = AnswerOf(u)
       \/ failed = asked /\ result' = AllFailed
       \/ ended /\ result' = TimedOut
    /\ UNCHANGED <<asked, answered, failed, ended>>

Next == (\E u \in Nameservers : Settle(u)) \/ EndContext \/ Return

vars == <<asked, answered, failed, ended, result>>
Spec == Init /\ [][Next]_vars
=============================================================================
