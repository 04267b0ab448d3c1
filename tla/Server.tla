------------------------------- MODULE Server --------------------------------
(***************************************************************************)
(* Server.handleQuery and ensureUDPSize (server/server.go): what becomes   *)
(* of the router's result on its way to the client.  A section is the      *)
(* sequence of its records' packed sizes; every size is in the same unit.  *)
(***************************************************************************)
EXTENDS Integers, Sequences, SequencesExt

CONSTANTS Header,       \* size of a message without records
          DefaultSize,  \* 512: a request without an OPT record
          SafeSize,     \* 1232: the largest size honoured
          EdnsSizes,    \* sizes an OPT record may announce
          Sections,     \* record sizes a section may have
          Rcodes        \* response codes, SUCCESS and SERVFAIL among them

ASSUME ConstantsAssumption ==
    /\ Header \in Nat /\ DefaultSize \in Nat /\ SafeSize \in Nat
    /\ EdnsSizes \subseteq Nat
    /\ Sections \subseteq Seq(Nat \ {0})
    /\ {"SUCCESS", "SERVFAIL"} \subseteq Rcodes

VARIABLES pc,       \* where handleQuery is
          udp,      \* the client's address is a UDP one
          asked,    \* the request has a question
          edns,     \* the size announced by the request's OPT, or -1
          err,      \* Route returned an error
          routed,   \* the response it returned otherwise, TC as upstream set it
          resp      \* the message on its way

vars == <<pc, udp, asked, edns, err, routed, resp>>

Message == [rcode : Rcodes, answer : Sections, ns : Sections, extra : Sections, tc : BOOLEAN]
Empty(rcode) == [rcode |-> rcode, answer |-> <<>>, ns |-> <<>>, extra |-> <<>>, tc |-> FALSE]

(* Msg.Len with compression, which points backwards only: what is left     *)
(* when the last record goes keeps its size.                               *)
Records(m) == m.answer \o m.ns \o m.extra
Total(sizes) ==
    LET upTo[n \in 0..Len(sizes)] == IF n = 0 THEN Header ELSE upTo[n - 1] + sizes[n]
    IN  upTo[Len(sizes)]
Size(m) == Total(Records(m))

(* maxSize *)
MaxSize ==
    IF edns = -1 THEN DefaultSize
    ELSE IF edns > SafeSize THEN SafeSize ELSE edns

TooBig(m) == Size(m) > MaxSize

(* Msg.SetReply of the DNS library: it makes the message a reply to the    *)
(* request, and a reply starts out as a success.  TC stays as it is.       *)
SetReply(m) == [m EXCEPT !.rcode = "SUCCESS"]

-----------------------------------------------------------------------------
Init ==
    /\ pc = "received"
    /\ udp \in BOOLEAN
    /\ asked \in BOOLEAN
    /\ edns \in EdnsSizes \cup {-1}
    /\ \/ err = TRUE /\ routed = Empty("SUCCESS")
       \/ err = FALSE /\ routed \in Message
    /\ resp = Empty("SUCCESS")

(* len(r.Question) == 0: the request is dropped. *)
Drop ==
    /\ pc = "received"
    /\ ~asked
    /\ pc' = "dropped"
    /\ UNCHANGED <<udp, asked, edns, err, routed, resp>>

(* The call of Route, whose outcome Init has chosen. *)
Route ==
    /\ pc = "received"
    /\ asked
    /\ pc' = "routed"
    /\ UNCHANGED <<udp, asked, edns, err, routed, resp>>

(* Route failed: SERVFAIL is written as it is. *)
ServFail ==
    /\ pc = "routed"
    /\ err
    /\ resp' = [SetReply(Empty("SUCCESS")) EXCEPT !.rcode = "SERVFAIL"]
    /\ pc' = "written"
    /\ UNCHANGED <<udp, asked, edns, err, routed>>

(* Mutant: replies over TCP are limited, too. *)
PrepareAnyTransport ==
    /\ pc = "routed"
    /\ ~err
    /\ LET reply == SetReply(routed)
       IN  IF TooBig(reply)
           THEN resp' = [reply EXCEPT !.tc = TRUE] /\ pc' = "truncate"
           ELSE resp' = reply /\ pc' = "written"
    /\ UNCHANGED <<udp, asked, edns, err, routed>>

(* resp.SetReply(r), and the tests at the head of ensureUDPSize. *)
Prepare ==
    /\ pc = "routed"
    /\ ~err
    /\ LET reply == SetReply(routed)
       IN  IF udp /\ TooBig(reply)
           THEN resp' = [reply EXCEPT !.tc = TRUE] /\ pc' = "truncate"
           ELSE resp' = reply /\ pc' = "written"
    /\ UNCHANGED <<udp, asked, edns, err, routed>>

(* Mutant: the answer is cut first. *)
TruncateAnswerFirst ==
    /\ pc = "truncate"
    /\ TooBig(resp)
    /\ \/ /\ Len(resp.answer) > 1
          /\ resp' = [resp EXCEPT !.answer = Front(@)]
       \/ /\ Len(resp.answer) <= 1
          /\ resp.extra # <<>>
          /\ resp' = [resp EXCEPT !.extra = Front(@)]
       \/ /\ Len(resp.answer) <= 1
          /\ resp.extra = <<>>
          /\ resp.ns # <<>>
          /\ resp' = [resp EXCEPT !.ns = Front(@)]
    /\ UNCHANGED <<pc, udp, asked, edns, err, routed>>

(* Mutant: sections are cut whole. *)
TruncateSections ==
    /\ pc = "truncate"
    /\ TooBig(resp)
    /\ \/ resp.extra # <<>> /\ resp' = [resp EXCEPT !.extra = <<>>]
       \/ resp.extra = <<>> /\ resp.ns # <<>> /\ resp' = [resp EXCEPT !.ns = <<>>]
       \/ /\ resp.extra = <<>>
          /\ resp.ns = <<>>
          /\ Len(resp.answer) > 1
          /\ resp' = [resp EXCEPT !.answer = Front(@)]
    /\ UNCHANGED <<pc, udp, asked, edns, err, routed>>

(* One iteration of the three loops: the last record of Extra goes first,  *)
(* then of Ns, then of Answer, of which the first record stays.            *)
Truncate ==
    /\ pc = "truncate"
    /\ TooBig(resp)
    /\ \/ /\ resp.extra # <<>>
          /\ resp' = [resp EXCEPT !.extra = Front(@)]
       \/ /\ resp.extra = <<>>
          /\ resp.ns # <<>>
          /\ resp' = [resp EXCEPT !.ns = Front(@)]
       \/ /\ resp.extra = <<>>
          /\ resp.ns = <<>>
          /\ Len(resp.answer) > 1
          /\ resp' = [resp EXCEPT !.answer = Front(@)]
    /\ UNCHANGED <<pc, udp, asked, edns, err, routed>>

(* Mutant: the answer section is never cut. *)
WriteUncut ==
    /\ pc = "truncate"
    /\ ~TooBig(resp) \/ (resp.extra = <<>> /\ resp.ns = <<>>)
    /\ pc' = "written"
    /\ UNCHANGED <<udp, asked, edns, err, routed, resp>>

(* Mutant: the loops go on until the message fits. *)
WriteWhenFits ==
    /\ pc = "truncate"
    /\ ~TooBig(resp)
    /\ pc' = "written"
    /\ UNCHANGED <<udp, asked, edns, err, routed, resp>>

(* The loops are over: w.WriteMsg(resp). *)
Write ==
    /\ pc = "truncate"
    /\ \/ ~TooBig(resp)
       \/ resp.extra = <<>> /\ resp.ns = <<>> /\ Len(resp.answer) <= 1
    /\ pc' = "written"
    /\ UNCHANGED <<udp, asked, edns, err, routed, resp>>

Next == Drop \/ Route \/ ServFail \/ Prepare \/ Truncate \/ Write

Spec == Init /\ [][Next]_vars /\ WF_vars(Next)

-----------------------------------------------------------------------------
Delivered == pc = "written" /\ ~err

TypeOK ==
    /\ pc \in {"received", "dropped", "routed", "truncate", "written"}
    /\ resp.rcode \in Rcodes /\ resp.tc \in BOOLEAN
    /\ pc = "truncate" => udp /\ asked /\ ~err /\ resp.tc
    /\ \A s \in {resp.answer, resp.ns, resp.extra} : \A n \in 1..Len(s) : s[n] \in Nat \ {0}

(* Every section the client gets is a prefix of the router's, and a        *)
(* section of higher priority is only cut when those below it are gone.    *)
CutFromTheEnd ==
    Delivered =>
        /\ IsPrefix(resp.answer, routed.answer)
        /\ IsPrefix(resp.ns, routed.ns)
        /\ IsPrefix(resp.extra, routed.extra)
        /\ resp.answer # routed.answer => resp.ns = <<>>
        /\ resp.ns # routed.ns => resp.extra = <<>>

(* The record that was cut last, by the order in which sections are cut. *)
LastCut ==
    IF resp.answer # routed.answer THEN routed.answer[Len(resp.answer) + 1]
    ELSE IF resp.ns # routed.ns THEN routed.ns[Len(resp.ns) + 1]
    ELSE IF resp.extra # routed.extra THEN routed.extra[Len(resp.extra) + 1]
    ELSE 0

(* Nothing is cut in vain: with the record that was cut last, the message  *)
(* would not have fitted; and the client is told whenever records are gone,*)
(* by a TC bit that only an upstream server sets otherwise.                *)
CutNoMoreThanNeeded ==
    Delivered =>
        /\ LastCut > 0 => resp.tc /\ Size(resp) + LastCut > MaxSize
        /\ resp.tc => routed.tc \/ (udp /\ TooBig(routed))

(* A UDP reply fits the client's limit, unless it is down to one record:   *)
(* the last loop of ensureUDPSize leaves one, although the comments at     *)
(* server.go:106 and 135 know of no exception.                             *)
FitsUDP ==
    Delivered /\ udp => ~TooBig(resp) \/ Len(Records(resp)) <= 1

(* Every question is answered, with SERVFAIL or with the router's response:*)
(* the three loops end although a message may never become small enough.   *)
Replies == asked ~> pc = "written"

(* "nxdomain - NXDOMAIN, the name does not exist" (README.md:134): the     *)
(* client sees the response code the router chose.  Violated: SetReply     *)
(* comes after the router and resets it to success.                        *)
RcodeReachesClient == Delivered => resp.rcode = routed.rcode
=============================================================================
