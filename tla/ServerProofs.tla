----------------------------- MODULE ServerProofs -----------------------------
(***************************************************************************)
(* What holds of Server for every response, every limit and every size.    *)
(*                                                                         *)
(* Two arguments.  A message without its last record is smaller by the size*)
(* of that record (SizeWithoutLast); sizes are sums over a sequence, so    *)
(* this takes an induction, here over sets of natural numbers (Induct).    *)
(* And the three loops keep an account of what they cut (Cut): each section*)
(* is a prefix of the router's, nothing of a section is gone before those  *)
(* below it, and with the record that went last the message was too big.   *)
(***************************************************************************)
EXTENDS Server, SequenceTheorems, WellFoundedInduction, TLAPS

Less == {p \in Nat \X Nat : p[1] < p[2]}

LEMMA LessIsWellFounded == IsWellFoundedOn(Less, Nat)
<1>1. OpToRel(<, Nat) = Less
  BY Zenon DEF OpToRel, Less
<1> QED BY <1>1, NatLessThanWellFounded

LEMMA Least ==
    ASSUME NEW T, T \subseteq Nat, T # {}
    PROVE  \E x \in T : \A y \in T : x <= y
<1>1. \E x \in T : \A y \in T : ~(<<y, x>> \in Less)
  BY LessIsWellFounded, WFMin
<1>2. \A x, y \in Nat : <<y, x>> \in Less <=> y < x
  BY DEF Less
<1>3. PICK x \in T : \A y \in T : ~(<<y, x>> \in Less)
  BY <1>1
<1>4. ASSUME NEW y \in T PROVE x <= y
  <2>1. x \in Nat /\ y \in Nat
    OBVIOUS
  <2>2. ~(y < x)
    BY <1>2, <1>3, <2>1, Zenon
  <2> QED BY <2>1, <2>2
<1> QED BY <1>4

(* A set that has zero, and with each number the next one, has them all.   *)
LEMMA Induct ==
    ASSUME NEW S, S \subseteq Nat, 0 \in S, \A n \in S : n + 1 \in S
    PROVE  S = Nat
<1> SUFFICES ASSUME Nat \ S # {} PROVE FALSE
  OBVIOUS
<1>1. PICK x \in Nat \ S : \A y \in Nat \ S : x <= y
  BY Least
<1>2. x - 1 \in S
  BY <1>1
<1> QED BY <1>1, <1>2

-----------------------------------------------------------------------------
Sizes == Seq(Nat \ {0})

LEMMA FrontOfSizes ==
    ASSUME NEW s \in Sizes, s # <<>>
    PROVE  /\ Len(s) \in Nat \ {0}
           /\ Front(s) \in Sizes /\ Len(Front(s)) = Len(s) - 1
           /\ \A k \in 1..(Len(s) - 1) : Front(s)[k] = s[k]
<1>1. s \in Seq(Nat \ {0}) /\ Len(s) \in Nat \ {0}
  BY EmptySeq DEF Sizes
<1>2. PICK n \in Nat : Len(s) = n + 1 /\ n = Len(s) - 1
  BY <1>1
<1>3. Front(s) = SubSeq(s, 1, n)
  BY <1>2 DEF Front
<1>4. SubSeq(s, 1, n) \in Seq(Nat \ {0}) /\ Len(SubSeq(s, 1, n)) = n /\ \A k \in 1..n : SubSeq(s, 1, n)[k] = s[k]
  BY <1>1, <1>2
<1> QED BY <1>1, <1>2, <1>3, <1>4 DEF Sizes

(* The sums of a section's prefixes. *)
IsSum(f, s) == f = [n \in 0..Len(s) |-> IF n = 0 THEN Header ELSE f[n - 1] + s[n]]

LEMMA SumsExist == \A s \in Sizes : \E f : IsSum(f, s)
<1> DEFINE S == {n \in Nat : \A s \in Sizes : Len(s) = n => \E f : IsSum(f, s)}
<1>1. 0 \in S
  <2> SUFFICES ASSUME NEW s \in Sizes, Len(s) = 0 PROVE \E f : IsSum(f, s)
    OBVIOUS
  <2>1. IsSum([n \in 0..0 |-> Header], s)
    BY DEF IsSum
  <2> QED BY <2>1
<1>2. ASSUME NEW n \in S PROVE n + 1 \in S
  <2> SUFFICES ASSUME NEW s \in Sizes, Len(s) = n + 1 PROVE \E f : IsSum(f, s)
    OBVIOUS
  <2> DEFINE t == SubSeq(s, 1, n)
  <2>1. n \in Nat /\ t \in Sizes /\ Len(t) = n /\ \A k \in 1..n : t[k] = s[k]
    BY DEF Sizes
  <2>2. PICK f : IsSum(f, t)
    BY <2>1
  <2> DEFINE g == [k \in 0..(n + 1) |-> IF k = n + 1 THEN f[n] + s[n + 1] ELSE f[k]]
  <2>3. ASSUME NEW k \in 0..(n + 1) PROVE g[k] = IF k = 0 THEN Header ELSE g[k - 1] + s[k]
    BY <2>1, <2>2 DEF IsSum
  <2>4. g = [k \in 0..Len(s) |-> IF k = 0 THEN Header ELSE g[k - 1] + s[k]]
    BY <2>3
  <2> QED BY <2>4 DEF IsSum
<1> HIDE DEF S
<1>3. S = Nat
  <2>1. S \subseteq Nat
    BY DEF S
  <2> QED BY <1>1, <1>2, <2>1, Induct
<1> QED BY <1>3 DEF S, Sizes

(* The sums of two sections agree as far as the sections do. *)
LEMMA SumsAgree ==
    ASSUME NEW s \in Sizes, NEW t \in Sizes, Len(t) <= Len(s), \A k \in 1..Len(t) : t[k] = s[k],
           NEW f, IsSum(f, s), NEW g, IsSum(g, t)
    PROVE  \A n \in 0..Len(t) : f[n] = g[n] /\ f[n] \in Nat
<1> DEFINE S == {n \in Nat : n <= Len(t) => f[n] = g[n] /\ f[n] \in Nat}
<1>0. Len(s) \in Nat /\ Len(t) \in Nat /\ \A k \in 1..Len(s) : s[k] \in Nat
  BY DEF Sizes
<1>1. 0 \in S
  BY <1>0, ConstantsAssumption DEF IsSum
<1>2. ASSUME NEW n \in S PROVE n + 1 \in S
  <2> SUFFICES ASSUME n + 1 <= Len(t) PROVE f[n + 1] = g[n + 1] /\ f[n + 1] \in Nat
    BY <1>0
  <2>1. n \in Nat /\ f[n] = g[n] /\ f[n] \in Nat
    BY <1>0
  <2>2. f[n + 1] = f[n] + s[n + 1] /\ g[n + 1] = g[n] + t[n + 1]
    BY <1>0, <2>1 DEF IsSum
  <2>3. t[n + 1] = s[n + 1] /\ s[n + 1] \in Nat
    BY <1>0, <2>1
  <2> QED BY <2>1, <2>2, <2>3
<1> HIDE DEF S
<1>3. S = Nat
  <2>1. S \subseteq Nat
    BY DEF S
  <2> QED BY <1>1, <1>2, <2>1, Induct
<1> QED BY <1>0, <1>3 DEF S

LEMMA TotalIsSum == ASSUME NEW s \in Sizes PROVE \E f : IsSum(f, s) /\ Total(s) = f[Len(s)]
<1> DEFINE f == CHOOSE f : f = [n \in 0..Len(s) |-> IF n = 0 THEN Header ELSE f[n - 1] + s[n]]
<1>1. IsSum(f, s)
  BY SumsExist DEF IsSum
<1>2. Total(s) = f[Len(s)]
  BY DEF Total
<1> QED BY <1>1, <1>2

LEMMA TotalWithoutLast ==
    ASSUME NEW s \in Sizes, s # <<>>
    PROVE  /\ Front(s) \in Sizes
           /\ Total(s) \in Nat /\ Total(Front(s)) \in Nat
           /\ Total(s) = Total(Front(s)) + s[Len(s)]
<1> DEFINE N == Len(s)
           t == Front(s)
<1>1. N \in Nat /\ N > 0 /\ t \in Sizes /\ Len(t) = N - 1 /\ \A k \in 1..(N - 1) : t[k] = s[k]
  BY FrontOfSizes
<1>2. PICK f : IsSum(f, s) /\ Total(s) = f[N]
  BY TotalIsSum
<1>3. PICK g : IsSum(g, t) /\ Total(t) = g[N - 1]
  BY <1>1, TotalIsSum
<1>4. f[N - 1] = g[N - 1] /\ f[N - 1] \in Nat
  <2>1. N - 1 <= N /\ N - 1 \in 0..(N - 1)
    BY <1>1
  <2> HIDE DEF t
  <2>2. \A n \in 0..Len(t) : f[n] = g[n] /\ f[n] \in Nat
    BY <1>1, <1>2, <1>3, <2>1, SumsAgree
  <2> QED BY <1>1, <2>1, <2>2
<1>5. f[N] = f[N - 1] + s[N] /\ s[N] \in Nat
  <2>1. N \in 0..N /\ N \in 1..N /\ N # 0
    BY <1>1
  <2>2. s[N] \in Nat
    BY <2>1 DEF Sizes
  <2> QED BY <1>2, <2>1, <2>2 DEF IsSum
<1> QED BY <1>1, <1>2, <1>3, <1>4, <1>5

LEMMA FrontOfConcat ==
    ASSUME NEW s \in Sizes, NEW t \in Sizes, t # <<>>
    PROVE  /\ s \o t \in Sizes /\ s \o t # <<>>
           /\ Front(s \o t) = s \o Front(t)
           /\ (s \o t)[Len(s \o t)] = t[Len(t)]
<1> DEFINE u == s \o t
           f == Front(u)
           g == s \o Front(t)
<1>1. /\ s \in Seq(Nat \ {0}) /\ t \in Seq(Nat \ {0}) /\ Len(s) \in Nat /\ Len(t) \in Nat \ {0}
      /\ Front(t) \in Seq(Nat \ {0}) /\ Len(Front(t)) = Len(t) - 1
      /\ \A k \in 1..(Len(t) - 1) : Front(t)[k] = t[k]
  BY FrontOfSizes DEF Sizes
<1>2. /\ u \in Seq(Nat \ {0}) /\ Len(u) = Len(s) + Len(t)
      /\ \A k \in 1..Len(u) : u[k] = IF k <= Len(s) THEN s[k] ELSE t[k - Len(s)]
  BY <1>1, ConcatProperties
<1>3. /\ g \in Seq(Nat \ {0}) /\ Len(g) = Len(s) + (Len(t) - 1)
      /\ \A k \in 1..(Len(s) + (Len(t) - 1)) : g[k] = IF k <= Len(s) THEN s[k] ELSE Front(t)[k - Len(s)]
  <2>1. g \in Seq(Nat \ {0}) /\ Len(g) = Len(s) + Len(Front(t))
    BY <1>1, ConcatProperties
  <2>2. \A k \in 1..(Len(s) + Len(Front(t))) : g[k] = IF k <= Len(s) THEN s[k] ELSE Front(t)[k - Len(s)]
    BY <1>1, ConcatProperties
  <2> QED BY <1>1, <2>1, <2>2
<1>4. /\ f \in Seq(Nat \ {0}) /\ Len(f) = Len(u) - 1 /\ \A k \in 1..(Len(u) - 1) : f[k] = u[k]
  <2>1. u \in Sizes /\ u # <<>>
    BY <1>1, <1>2, EmptySeq DEF Sizes
  <2> HIDE DEF u
  <2> QED BY <2>1, FrontOfSizes DEF Sizes
<1> HIDE DEF u, f, g
<1>5. f = g
  <2>1. Len(f) = Len(g)
    BY <1>1, <1>2, <1>3, <1>4
  <2>2. ASSUME NEW k \in 1..Len(f) PROVE f[k] = g[k]
    <3>1. k \in 1..(Len(u) - 1) /\ k \in 1..Len(u) /\ k \in 1..(Len(s) + (Len(t) - 1))
      BY <1>1, <1>2, <1>4
    <3>2. CASE k <= Len(s)
      BY <1>2, <1>3, <1>4, <3>1, <3>2
    <3>3. CASE ~(k <= Len(s))
      <4>1. k - Len(s) \in 1..(Len(t) - 1)
        BY <1>1, <3>1, <3>3
      <4> QED BY <1>1, <1>2, <1>3, <1>4, <3>1, <3>3, <4>1
    <3> QED BY <3>2, <3>3
  <2> QED BY <1>3, <1>4, <2>1, <2>2, SeqEqual
<1>6. u[Len(u)] = t[Len(t)]
  <2>1. Len(u) \in 1..Len(u) /\ ~(Len(u) <= Len(s)) /\ Len(u) - Len(s) = Len(t)
    BY <1>1, <1>2
  <2> QED BY <1>2, <2>1
<1>7. u # <<>>
  BY <1>1, <1>2, EmptySeq
<1> QED BY <1>2, <1>5, <1>6, <1>7 DEF u, f, g, Sizes

LEMMA SizesAreTyped ==
    ASSUME NEW T, T \subseteq Sizes
    PROVE  \A s \in T : \A n \in 1..Len(s) : s[n] \in Nat \ {0}
BY DEF Sizes

(* A message as the three loops see it. *)
Packed == [rcode : Rcodes, answer : Sizes, ns : Sizes, extra : Sizes, tc : BOOLEAN]

(* What is left of a message when its last record is gone is smaller by    *)
(* just that record.                                                       *)
LEMMA SizeWithoutLast ==
    ASSUME NEW s \in Sizes, NEW t \in Sizes, t # <<>>
    PROVE  Total(s \o t) = Total(s \o Front(t)) + t[Len(t)]
<1> DEFINE u == s \o t
<1>1. /\ u \in Sizes /\ u # <<>>
      /\ Front(u) = s \o Front(t) /\ u[Len(u)] = t[Len(t)]
  BY FrontOfConcat
<1>2. Total(u) = Total(Front(u)) + u[Len(u)]
  BY <1>1, TotalWithoutLast
<1> QED BY <1>1, <1>2

-----------------------------------------------------------------------------
Prefix(x, y) == Len(x) <= Len(y) /\ \A k \in 1..Len(x) : x[k] = y[k]

Cut ==
    /\ Prefix(resp.answer, routed.answer)
    /\ Prefix(resp.ns, routed.ns)
    /\ Prefix(resp.extra, routed.extra)
    /\ resp.answer # routed.answer => resp.ns = <<>> /\ resp.extra = <<>>
    /\ resp.ns # routed.ns => resp.extra = <<>>
    /\ LastCut > 0 => resp.tc /\ Size(resp) + LastCut > MaxSize
    /\ resp.tc => routed.tc \/ (udp /\ TooBig(routed))

Fits == udp => ~TooBig(resp) \/ Len(Records(resp)) <= 1

Inv ==
    /\ TypeOK
    /\ pc = "routed" => asked
    /\ resp \in Packed /\ routed \in Packed
    /\ pc \in {"truncate", "written"} /\ ~err => Cut
    /\ pc = "written" /\ ~err => Fits

LEMMA InvInit == Init => Inv
<1> SUFFICES ASSUME Init PROVE Inv
  OBVIOUS
<1>1. \A rcode \in Rcodes : Empty(rcode) \in Packed
  BY DEF Empty, Packed, Sizes
<1>2. Message \subseteq Packed
  BY ConstantsAssumption DEF Message, Packed, Sizes
<1>3. resp \in Packed /\ routed \in Packed
  <2>1. CASE err /\ routed = Empty("SUCCESS")
    BY <1>1, <2>1, ConstantsAssumption DEF Init, Empty
  <2>2. CASE routed \in Message
    BY <1>1, <1>2, <2>2, ConstantsAssumption DEF Init, Message
  <2> QED BY <2>1, <2>2 DEF Init
<1>4. TypeOK
  BY ConstantsAssumption DEF Init, TypeOK, Empty
<1> QED BY <1>3, <1>4 DEF Inv, Init

LEMMA ServFailStep == ASSUME Inv, ServFail PROVE Inv'
<1>1. resp' = Empty("SERVFAIL")
  BY DEF ServFail, SetReply, Empty
<1>2. Empty("SERVFAIL") \in Packed
  BY ConstantsAssumption DEF Empty, Packed, Sizes
<1>3. TypeOK'
  <2>1. resp'.rcode \in Rcodes /\ resp'.tc \in BOOLEAN /\ {resp'.answer, resp'.ns, resp'.extra} = {<<>>}
    BY <1>1, ConstantsAssumption DEF Empty
  <2>2. \A n \in 1..Len(<<>>) : FALSE
    OBVIOUS
  <2> QED BY <2>1, <2>2 DEF TypeOK, ServFail
<1> QED BY <1>1, <1>2, <1>3 DEF Inv, ServFail

LEMMA PrepareStep == ASSUME Inv, Prepare PROVE Inv'
<1> DEFINE reply == SetReply(routed)
<1>1. routed \in Packed /\ reply \in Packed /\ Records(reply) = Records(routed)
  BY ConstantsAssumption DEF Inv, SetReply, Packed, Records
<1>2. Size(reply) = Size(routed) /\ (TooBig(reply) <=> TooBig(routed))
  BY <1>1 DEF Size, TooBig
<1>3. /\ resp' \in Packed
      /\ resp'.answer = routed.answer /\ resp'.ns = routed.ns /\ resp'.extra = routed.extra
      /\ routed' = routed
  BY <1>1 DEF Prepare, Packed, SetReply
<1>4. LastCut' = 0 /\ MaxSize' = MaxSize
  BY <1>3 DEF LastCut, MaxSize, Prepare
<1>5. TooBig(routed)' <=> TooBig(routed)
  BY <1>3, <1>4 DEF TooBig
<1>6. Cut'
  <2>1. resp'.tc => routed.tc \/ (udp /\ TooBig(routed))
    BY <1>1, <1>2 DEF Prepare, SetReply, Inv, Packed
  <2>2. udp' = udp
    BY DEF Prepare
  <2> QED BY <1>3, <1>4, <1>5, <2>1, <2>2 DEF Cut, Prefix, Packed, Inv, Sizes
<1>7. TypeOK'
  <2>1. \A s \in Sizes : \A n \in 1..Len(s) : s[n] \in Nat \ {0}
    BY DEF Sizes
  <2>2. pc' = "truncate" => udp /\ resp'.tc
    BY <1>1 DEF Prepare, Packed, SetReply
  <2>3. resp'.rcode \in Rcodes /\ resp'.tc \in BOOLEAN /\ {resp'.answer, resp'.ns, resp'.extra} \subseteq Sizes
    BY <1>3 DEF Packed
  <2>4. \A s \in {resp'.answer, resp'.ns, resp'.extra} : \A n \in 1..Len(s) : s[n] \in Nat \ {0}
    BY <2>3, SizesAreTyped
  <2>5. pc' = "truncate" => udp' /\ asked' /\ ~err' /\ resp'.tc
    BY <2>2 DEF Inv, TypeOK, Prepare, Packed
  <2>6. pc' \in {"truncate", "written"}
    BY DEF Prepare
  <2> QED BY <2>3, <2>4, <2>5, <2>6 DEF TypeOK
<1>8. pc' = "written" => Fits'
  <2>1. CASE udp /\ TooBig(reply)
    BY <2>1 DEF Prepare
  <2>2. CASE ~(udp /\ TooBig(reply))
    <3>1. resp' = reply
      BY <2>2 DEF Prepare
    <3>2. TooBig(resp)' <=> TooBig(reply)
      BY <3>1, <1>4 DEF TooBig
    <3> QED BY <2>2, <3>2 DEF Fits, Prepare
  <2> QED BY <2>1, <2>2
<1> QED BY <1>1, <1>3, <1>6, <1>7, <1>8 DEF Inv, Prepare

(* A section that is cut keeps being a prefix, and the record that goes is *)
(* the one of the router's section at its place.                           *)
LEMMA PrefixOfFront ==
    ASSUME NEW x \in Sizes, NEW y \in Sizes, Prefix(x, y), x # <<>>
    PROVE  /\ Front(x) \in Sizes /\ Prefix(Front(x), y)
           /\ Front(x) # y
           /\ y[Len(Front(x)) + 1] = x[Len(x)]
<1>1. Len(x) \in Nat \ {0} /\ Len(y) \in Nat /\ Len(x) <= Len(y) /\ Len(Front(x)) = Len(x) - 1
  BY FrontOfSizes DEF Prefix, Sizes
<1>2. \A k \in 1..(Len(x) - 1) : Front(x)[k] = x[k]
  BY FrontOfSizes
<1>3. Len(Front(x)) + 1 = Len(x) /\ Len(Front(x)) <= Len(y) /\ Len(Front(x)) # Len(y) /\ Len(x) \in 1..Len(x)
  BY <1>1
<1>4. Prefix(Front(x), y)
  <2>1. \A k \in 1..(Len(x) - 1) : k \in 1..Len(x)
    BY <1>1
  <2> QED BY <1>1, <1>2, <1>3, <2>1 DEF Prefix
<1>5. y[Len(Front(x)) + 1] = x[Len(x)]
  BY <1>3 DEF Prefix
<1> QED BY <1>3, <1>4, <1>5, FrontOfSizes

(* One record goes: of Extra, of Ns or of Answer. *)
LEMMA TruncateStep == ASSUME Inv, Truncate PROVE Inv'
<1>1. /\ pc = "truncate" /\ udp /\ asked /\ ~err /\ resp.tc /\ Cut
      /\ Size(resp) > MaxSize /\ MaxSize' = MaxSize
      /\ resp \in Packed /\ routed \in Packed
      /\ routed' = routed /\ pc' = pc /\ UNCHANGED <<udp, asked, edns, err>>
  BY DEF Inv, TypeOK, Truncate, TooBig, MaxSize
<1>2. TooBig(routed)' <=> TooBig(routed)
  BY <1>1 DEF TooBig, Size, Records
<1>3. ASSUME NEW removed, removed \in Nat \ {0}, resp' \in Packed, resp'.tc,
             Prefix(resp'.answer, routed.answer), Prefix(resp'.ns, routed.ns), Prefix(resp'.extra, routed.extra),
             resp'.answer # routed.answer => resp'.ns = <<>> /\ resp'.extra = <<>>,
             resp'.ns # routed.ns => resp'.extra = <<>>,
             LastCut' = removed, Size(resp) = Size(resp') + removed
      PROVE  Inv'
  <2>1. Size(resp') + LastCut' > MaxSize'
    BY <1>1, <1>3
  <2>2. Cut'
    BY <1>1, <1>2, <1>3, <2>1 DEF Cut, Prefix
  <2>3. TypeOK'
    <3>1. \A s \in Sizes : \A n \in 1..Len(s) : s[n] \in Nat \ {0}
      BY DEF Sizes
    <3> QED BY <1>1, <1>3, <3>1 DEF TypeOK, Packed
  <2> QED BY <1>1, <1>3, <2>2, <2>3 DEF Inv
<1>4. \A s \in Sizes : s \o <<>> = s /\ <<>> \o s = s
  BY ConcatEmptySeq DEF Sizes
<1>5. /\ {resp.answer, resp.ns, resp.extra} \subseteq Sizes
      /\ {routed.answer, routed.ns, routed.extra} \subseteq Sizes
      /\ resp.answer \o resp.ns \in Sizes
  <2>1. \A s, t \in Sizes : s \o t \in Sizes
    BY ConcatProperties DEF Sizes
  <2> QED BY <1>1, <2>1 DEF Packed
<1>6. CASE resp.extra # <<>> /\ resp' = [resp EXCEPT !.extra = Front(@)]
  <2> DEFINE x == resp.extra
  <2>1. /\ Front(x) \in Sizes /\ Prefix(Front(x), routed.extra) /\ Front(x) # routed.extra
        /\ routed.extra[Len(Front(x)) + 1] = x[Len(x)] /\ x[Len(x)] \in Nat \ {0}
    BY <1>1, <1>5, <1>6, PrefixOfFront, FrontOfSizes DEF Cut, Sizes
  <2>2. /\ resp' \in Packed /\ resp'.tc /\ resp'.answer = resp.answer /\ resp'.ns = resp.ns
        /\ resp'.extra = Front(x)
    BY <1>1, <1>6, <2>1 DEF Packed
  <2>3. resp.answer = routed.answer /\ resp.ns = routed.ns
    BY <1>1, <1>6 DEF Cut
  <2>4. Size(resp) = Size(resp') + x[Len(x)]
    <3>1. Records(resp) = (resp.answer \o resp.ns) \o x /\ Records(resp') = (resp.answer \o resp.ns) \o Front(x)
      BY <2>2 DEF Records
    <3> QED BY <1>5, <1>6, <3>1, SizeWithoutLast DEF Size
  <2>5. LastCut' = x[Len(x)]
    BY <1>1, <2>1, <2>2, <2>3 DEF LastCut
  <2> QED BY <1>1, <1>3, <2>1, <2>2, <2>3, <2>4, <2>5 DEF Cut
<1>7. CASE /\ resp.extra = <<>> /\ resp.ns # <<>>
           /\ resp' = [resp EXCEPT !.ns = Front(@)]
  <2> DEFINE x == resp.ns
  <2>1. /\ Front(x) \in Sizes /\ Prefix(Front(x), routed.ns) /\ Front(x) # routed.ns
        /\ routed.ns[Len(Front(x)) + 1] = x[Len(x)] /\ x[Len(x)] \in Nat \ {0}
    BY <1>1, <1>5, <1>7, PrefixOfFront, FrontOfSizes DEF Cut, Sizes
  <2>2. /\ resp' \in Packed /\ resp'.tc /\ resp'.answer = resp.answer /\ resp'.extra = <<>>
        /\ resp'.ns = Front(x)
    BY <1>1, <1>7, <2>1 DEF Packed
  <2>3. resp.answer = routed.answer
    BY <1>1, <1>7 DEF Cut
  <2>4. Size(resp) = Size(resp') + x[Len(x)]
    <3>1. Records(resp) = resp.answer \o x /\ Records(resp') = resp.answer \o Front(x)
      <4>1. resp.answer \o Front(x) \in Sizes
        BY <1>5, <2>1, ConcatProperties DEF Sizes
      <4> QED BY <1>4, <1>5, <1>7, <2>2, <4>1 DEF Records
    <3> QED BY <1>5, <1>7, <3>1, SizeWithoutLast DEF Size
  <2>5. LastCut' = x[Len(x)]
    BY <1>1, <2>1, <2>2, <2>3 DEF LastCut
  <2>6. Prefix(resp'.answer, routed.answer) /\ Prefix(resp'.extra, routed.extra)
    BY <1>1, <1>7, <2>2 DEF Cut
  <2> QED BY <1>1, <1>3, <2>1, <2>2, <2>3, <2>4, <2>5, <2>6
<1>8. CASE /\ resp.extra = <<>> /\ resp.ns = <<>> /\ Len(resp.answer) > 1
           /\ resp' = [resp EXCEPT !.answer = Front(@)]
  <2> DEFINE x == resp.answer
  <2>0. x # <<>>
    BY <1>8
  <2>1. /\ Front(x) \in Sizes /\ Prefix(Front(x), routed.answer) /\ Front(x) # routed.answer
        /\ routed.answer[Len(Front(x)) + 1] = x[Len(x)] /\ x[Len(x)] \in Nat \ {0}
    <3>1. x \in Sizes /\ routed.answer \in Sizes /\ Prefix(x, routed.answer)
      BY <1>1, <1>5 DEF Cut
    <3>2. x[Len(x)] \in Nat \ {0}
      BY <2>0, <3>1, FrontOfSizes DEF Sizes
    <3> QED BY <2>0, <3>1, <3>2, PrefixOfFront
  <2>2. /\ resp' \in Packed /\ resp'.tc /\ resp'.ns = <<>> /\ resp'.extra = <<>>
        /\ resp'.answer = Front(x)
    BY <1>1, <1>8, <2>1 DEF Packed
  <2>4. Size(resp) = Size(resp') + x[Len(x)]
    <3>1. <<>> \in Sizes /\ Records(resp) = <<>> \o x /\ Records(resp') = <<>> \o Front(x)
      <4>1. <<>> \in Sizes
        BY EmptySeq DEF Sizes
      <4>2. Records(resp) = x \o <<>> \o <<>> /\ Records(resp') = Front(x) \o <<>> \o <<>>
        BY <1>8, <2>2 DEF Records
      <4> HIDE DEF x
      <4> QED BY <1>4, <1>5, <2>1, <4>1, <4>2 DEF x
    <3> QED BY <1>5, <2>0, <3>1, SizeWithoutLast DEF Size
  <2>5. LastCut' = x[Len(x)]
    BY <1>1, <2>1, <2>2 DEF LastCut
  <2>6. Prefix(resp'.ns, routed.ns) /\ Prefix(resp'.extra, routed.extra)
    BY <1>1, <1>8, <2>2 DEF Cut
  <2> QED BY <1>1, <1>3, <2>1, <2>2, <2>4, <2>5, <2>6
<1> QED BY <1>6, <1>7, <1>8 DEF Truncate

LEMMA InvStep == Inv /\ [Next]_vars => Inv'
<1> SUFFICES ASSUME Inv, [Next]_vars PROVE Inv'
  OBVIOUS
<1>1. CASE Drop \/ Route
  BY <1>1 DEF Inv, TypeOK, Drop, Route
<1>2. CASE Write
  <2>1. /\ pc = "truncate" /\ pc' = "written" /\ UNCHANGED <<udp, asked, edns, err, routed, resp>>
        /\ Cut /\ TypeOK /\ resp \in Packed /\ routed \in Packed
    BY <1>2 DEF Inv, TypeOK, Write
  <2>2. ~TooBig(resp) \/ Len(Records(resp)) <= 1
    <3>1. CASE resp.extra = <<>> /\ resp.ns = <<>> /\ Len(resp.answer) <= 1
      <4>1. resp.answer \in Seq(Nat \ {0})
        BY <2>1 DEF Packed, Sizes
      <4>2. Records(resp) = resp.answer
        BY <3>1, <4>1, ConcatEmptySeq DEF Records
      <4> QED BY <3>1, <4>2
    <3> QED BY <1>2, <3>1 DEF Write
  <2>3. Cut' /\ Fits' /\ TypeOK'
    BY <2>1, <2>2 DEF Cut, LastCut, Fits, TooBig, Size, Records, MaxSize, TypeOK
  <2> QED BY <2>1, <2>3 DEF Inv
<1>3. CASE UNCHANGED vars
  BY <1>3 DEF Inv, TypeOK, Cut, LastCut, Fits, TooBig, Size, Records, MaxSize, vars
<1> QED BY <1>1, <1>2, <1>3, ServFailStep, PrepareStep, TruncateStep DEF Next

LEMMA Invariant == Spec => []Inv
BY InvInit, InvStep, PTL DEF Spec

-----------------------------------------------------------------------------
(* Every section on its way is one of positive record sizes, and only a    *)
(* response to a question that came over UDP is ever cut, with TC set.     *)
THEOREM Types == Spec => []TypeOK
<1>1. Inv => TypeOK
  BY DEF Inv
<1> QED BY <1>1, Invariant, PTL

LEMMA PrefixIsPrefix ==
    ASSUME NEW x \in Sizes, NEW y \in Sizes, Prefix(x, y)
    PROVE  IsPrefix(x, y)
<1> DEFINE n == Len(x)
<1>1. n \in Nat /\ Len(y) \in Nat /\ n <= Len(y) /\ \A k \in 1..n : x[k] = y[k]
  BY DEF Prefix, Sizes
<1>2. SubSeq(x, 1, n) = SubSeq(y, 1, n)
  BY <1>1
<1> QED BY <1>1, <1>2 DEF IsPrefix

(* What the client gets of each section is where the router's section      *)
(* begins, and no section is cut before those below it are gone.           *)
THEOREM CutsAreFromTheEnd == Spec => []CutFromTheEnd
<1>1. Inv => CutFromTheEnd
  <2> SUFFICES ASSUME Inv, Delivered PROVE CutFromTheEnd
    BY DEF CutFromTheEnd
  <2>1. Cut /\ resp \in Packed /\ routed \in Packed
    BY DEF Inv, Delivered
  <2> QED BY <2>1, PrefixIsPrefix DEF Cut, CutFromTheEnd, Packed
<1> QED BY <1>1, Invariant, PTL

(* With the record that was cut last the message would not have fitted, and*)
(* TC is set on it; TC is set on no message that is small enough, or that  *)
(* goes over TCP, unless it came from upstream with it.                    *)
THEOREM CutsAreNeeded == Spec => []CutNoMoreThanNeeded
<1>1. Inv => CutNoMoreThanNeeded
  BY DEF Inv, Cut, CutNoMoreThanNeeded, Delivered
<1> QED BY <1>1, Invariant, PTL

(* A UDP reply fits the client's limit, or is down to one record.          *)
THEOREM RepliesFit == Spec => []FitsUDP
<1>1. Inv => FitsUDP
  BY DEF Inv, Fits, FitsUDP, Delivered
<1> QED BY <1>1, Invariant, PTL
=============================================================================
