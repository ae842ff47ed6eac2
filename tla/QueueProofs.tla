----------------------------- MODULE QueueProofs -----------------------------
(***************************************************************************)
(* What the commands on Ideas, Plans and the Queue leave is consistent,    *)
(* for any set of them, any Queue and any number of commands at once.      *)
(*                                                                         *)
(* A command names the revisions of the documents it writes.  As long as   *)
(* they are current, what it saw of these documents is still so (Seen);    *)
(* of the others it needs only what no command takes back: that an Idea    *)
(* was dismissed, and that a Plan outside the Queue stays queued.          *)
(*                                                                         *)
(* Ranks add (RankInv) that a pending command keeps the order of the Queue *)
(* it has seen, and that one whose Plan an agent ranks has the verdict on  *)
(* each neighbour that is settled; the revision it names makes this hold   *)
(* when it commits.                                                        *)
(***************************************************************************)
EXTENDS QueueFlow, SequenceTheorems, TLAPS

-----------------------------------------------------------------------------
(* The inductive invariant                                                 *)

EntryType == [plan : Plans, rev : Nat, pinned : BOOLEAN]
Distinct(q) == \A i, k \in DOMAIN q : q[i].plan = q[k].plan => i = k

\* A Queue in which every Plan has one entry.
Line(q) == q \in Seq(EntryType) /\ Distinct(q)

\* What the Queue, the state of a Plan and its Idea may say together.
Proper(p, listed, state, idea) ==
    /\ idea \in {"proposed", "qualified", "queued", "dismissed"}
    /\ p \in listed => state = "queued" /\ idea \in {"queued", "dismissed"}
    /\ idea \in {"qualified", "queued"} => state # "absent"
    /\ idea = "queued" => p \in listed \/ state \in {"started", "completed"}
    /\ state # "absent" => idea # "proposed"

Good(d) ==
    /\ \A k \in Docs : d[k].rev \in Nat
    /\ Line(d[Queue].val)
    /\ \A p \in Plans : Proper(p, Listed(d[Queue].val), d[Plan(p)].val.state, d[Idea(p)].val)

Ops == {"qualify", "dismiss", "policy", "refresh", "insert", "battle", "ranked",
        "audit", "remove", "admit", "close"}
Placing == {"insert", "battle", "ranked"}

\* The documents a command m writes, and what it makes of Plan and Idea.
Shape(m, W, plan, idea) ==
    /\ m.op = "qualify" => /\ W = {plan, idea}
                           /\ m.writes[plan].state = "queued" /\ m.writes[idea] = "qualified"
    /\ m.op = "dismiss" => W = {idea} /\ m.writes[idea] = "dismissed"
    /\ m.op = "policy" => W = {Policy}
    /\ m.op = "refresh" => /\ plan \in W /\ W \subseteq {plan, idea, Queue}
                           /\ m.writes[plan].state = "queued"
                           /\ idea \in W => Queue \in W /\ m.writes[idea] = "qualified"
    /\ m.op \in Placing => /\ Queue \in W /\ W \subseteq {idea, Queue}
                           /\ idea \in W => m.writes[idea] = "queued"
    /\ m.op = "remove" => /\ Queue \in W /\ W \subseteq {idea, Queue}
                          /\ idea \in W => m.writes[idea] = "qualified"
    /\ m.op = "admit" => W = {plan, Queue} /\ m.writes[plan].state = "started"
    /\ m.op = "close" => W = {plan} /\ m.writes[plan].state = "completed"
    /\ m.op = "audit" => W = {}

\* The revisions it names are of the past or current.
Past(m, d) ==
    \A k \in DOMAIN m.expect : k \in Docs /\ m.expect[k] \in Nat /\ m.expect[k] <= d[k].rev
Fits(m, d) == \A k \in DOMAIN m.expect : d[k].rev = m.expect[k]

\* What it saw and, while they are current, still holds; w is the Queue it writes.
Seen(m, q, state, idea) ==
    LET p == m.plan
        w == m.writes[Queue]
    IN  /\ m.op = "qualify" => idea = "proposed"
        /\ m.op \in Placing \cup {"refresh"} => state = "queued"
        /\ m.op \in Placing => p \notin Listed(q)
        /\ m.op \in {"insert", "ranked"} => Line(w) /\ Listed(w) = Listed(q) \cup {p}
        /\ m.op = "battle" => Listed(m.asked) = Listed(q) \cup {p}
        /\ (m.op = "refresh" /\ Queue \in DOMAIN m.writes) \/ m.op \in {"remove", "admit"} =>
             p \in Listed(q) /\ Line(w) /\ Listed(w) = Listed(q) \ {p}
        /\ m.op = "close" => state = "started"

\* It leaves an Idea alone that was dismissed.
Left(m, idea) ==
    /\ m.op \in Placing \cup {"refresh", "remove"}
    /\ Queue \in DOMAIN m.writes /\ Idea(m.plan) \notin DOMAIN m.writes
    => idea = "dismissed"

\* An order of the Plans in S.
Orders(order, S) ==
    /\ order \in Seq(Plans)
    /\ \A i, k \in DOMAIN order : order[i] = order[k] => i = k
    /\ {order[i] : i \in DOMAIN order} = S

\* The candidates an agent ranks are the entries it was shown.
Ranking(m) ==
    m.op = "battle" =>
        /\ Line(m.asked)
        /\ m.rank.at \in DOMAIN m.rank.order
        /\ Orders(m.rank.order, Listed(m.asked))

IsRecord(m) ==
    /\ DOMAIN m = {"op", "plan", "writes", "expect", "finding", "stale", "rank", "asked"}
    /\ DOMAIN m.rank = {"order", "at", "up", "audits", "ties"}

Prepared(m, d) ==
    /\ IsRecord(m) /\ m.plan \in Plans /\ m.op \in Ops
    /\ DOMAIN m.expect = DOMAIN m.writes
    /\ Shape(m, DOMAIN m.writes, Plan(m.plan), Idea(m.plan))
    /\ Past(m, d) /\ Ranking(m) /\ Left(m, d[Idea(m.plan)].val)
    /\ Fits(m, d) => Seen(m, d[Queue].val, d[Plan(m.plan)].val.state, d[Idea(m.plan)].val)

Calls == DOMAIN cmd = Clients /\ \A c \in Clients : cmd[c] # Idle => Prepared(cmd[c], docs)

QueueInv == Good(docs) /\ Calls

-----------------------------------------------------------------------------
(* Documents and sequences                                                 *)

\* The names of documents are distinct.
LEMMA Keys ==
  /\ Queue \in Docs /\ Policy \in Docs /\ Queue # Policy
  /\ \A p \in Plans : Idea(p) \in Docs /\ Plan(p) \in Docs
  /\ \A p, r : /\ Idea(p) = Idea(r) => p = r
               /\ Plan(p) = Plan(r) => p = r
               /\ Idea(p) # Plan(r)
  /\ \A p : Idea(p) # Queue /\ Idea(p) # Policy /\ Plan(p) # Queue /\ Plan(p) # Policy
  BY DEF Docs, Queue, Policy, Idea, Plan

\* Writes that name several documents.
LEMMA BothIs ==
  ASSUME NEW f, NEW g
  PROVE  /\ DOMAIN Both(f, g) = DOMAIN f \cup DOMAIN g
         /\ \A x \in DOMAIN f : Both(f, g)[x] = f[x]
         /\ \A x \in DOMAIN g : x \notin DOMAIN f => Both(f, g)[x] = g[x]
  BY DEF Both

LEMMA ValueIs ==
  ASSUME NEW k, NEW v
  PROVE  DOMAIN Value(k, v) = {k} /\ Value(k, v)[k] = v
  BY DEF Value

LEMMA LineIs ==
  ASSUME NEW q, Line(q)
  PROVE  /\ q \in Seq(EntryType) /\ Len(q) \in Nat /\ DOMAIN q = 1 .. Len(q)
         /\ \A i \in DOMAIN q : q[i] \in EntryType /\ q[i].plan \in Plans
         /\ Listed(q) \subseteq Plans
  <1>1. q \in Seq(EntryType) /\ Len(q) \in Nat /\ DOMAIN q = 1 .. Len(q)
    BY LenProperties DEF Line
  <1>2. ASSUME NEW i \in DOMAIN q PROVE q[i] \in EntryType /\ q[i].plan \in Plans
    <2>1. q[i] \in EntryType
      BY <1>1, ElementOfSeq
    <2> QED
      BY <2>1 DEF EntryType
  <1> QED
    BY <1>1, <1>2 DEF Listed

\* Putting x behind the first n of s moves nothing else.
LEMMA PlaceIs ==
  ASSUME NEW S, NEW s \in Seq(S), NEW n \in 0 .. Len(s), NEW x \in S
  PROVE  /\ Place(s, n, x) \in Seq(S)
         /\ Len(Place(s, n, x)) = Len(s) + 1
         /\ \A i \in 1 .. Len(s) + 1 : /\ i <= n => Place(s, n, x)[i] = s[i]
                                       /\ i = n + 1 => Place(s, n, x)[i] = x
                                       /\ i > n + 1 => Place(s, n, x)[i] = s[i - 1]
  <1> DEFINE a == SubSeq(s, 1, n)
             b == <<x>>
             c == SubSeq(s, n + 1, Len(s))
  <1>0. Len(s) \in Nat /\ \A i \in 1 .. Len(s) : s[i] \in S
    BY LenProperties, ElementOfSeq
  <1>1. a \in Seq(S) /\ Len(a) = n /\ \A i \in 1 .. n : a[i] = s[i]
    <2>1. \A i \in 1 .. n : s[i] \in S
      BY <1>0
    <2> QED
      BY <1>0, <2>1, SubSeqProperties
  <1>2. b \in Seq(S) /\ Len(b) = 1 /\ b[1] = x
    OBVIOUS
  <1>3. c \in Seq(S) /\ Len(c) = Len(s) - n /\ \A i \in 1 .. Len(s) - n : c[i] = s[n + i]
    <2>1. \A i \in n + 1 .. Len(s) : s[i] \in S
      BY <1>0
    <2>2. n + 1 \in Int /\ Len(s) \in Int
      BY <1>0
    <2>3. /\ c \in Seq(S) /\ Len(c) = IF n + 1 <= Len(s) THEN Len(s) - (n + 1) + 1 ELSE 0
          /\ \A i \in 1 .. Len(s) - (n + 1) + 1 : c[i] = s[n + 1 + i - 1]
      BY <2>1, <2>2, SubSeqProperties
    <2> QED
      BY <1>0, <2>3
  <1> HIDE DEF a, b, c
  <1>4. /\ a \o b \in Seq(S) /\ Len(a \o b) = n + 1
        /\ \A i \in 1 .. n + 1 : (a \o b)[i] = IF i <= n THEN a[i] ELSE b[i - n]
    <2>1. /\ a \o b \in Seq(S) /\ Len(a \o b) = Len(a) + Len(b)
          /\ \A i \in 1 .. Len(a) + Len(b) :
               (a \o b)[i] = IF i <= Len(a) THEN a[i] ELSE b[i - Len(a)]
      <3>1. a \in Seq(S) /\ b \in Seq(S)
        BY <1>1, <1>2
      <3> QED
        BY <3>1, ConcatProperties
    <2> QED
      BY <1>1, <1>2, <2>1
  <1>5. /\ (a \o b) \o c \in Seq(S) /\ Len((a \o b) \o c) = Len(s) + 1
        /\ \A i \in 1 .. Len(s) + 1 :
             ((a \o b) \o c)[i] = IF i <= n + 1 THEN (a \o b)[i] ELSE c[i - (n + 1)]
    <2>1. Len(a \o b) + Len(c) = Len(s) + 1
      BY <1>0, <1>3, <1>4
    <2>2. a \o b \in Seq(S) /\ c \in Seq(S)
      BY <1>3, <1>4
    <2>3. /\ (a \o b) \o c \in Seq(S)
          /\ Len((a \o b) \o c) = Len(a \o b) + Len(c)
          /\ \A i \in 1 .. Len(a \o b) + Len(c) :
               ((a \o b) \o c)[i] = IF i <= Len(a \o b) THEN (a \o b)[i] ELSE c[i - Len(a \o b)]
      BY <2>2, ConcatProperties
    <2> QED
      BY <1>4, <2>1, <2>3
  <1>6. Place(s, n, x) = (a \o b) \o c
    BY DEF Place, a, b, c
  <1>7. ASSUME NEW i \in 1 .. Len(s) + 1
        PROVE  /\ i <= n => ((a \o b) \o c)[i] = s[i]
               /\ i = n + 1 => ((a \o b) \o c)[i] = x
               /\ i > n + 1 => ((a \o b) \o c)[i] = s[i - 1]
    <2>1. CASE i <= n
      BY <1>0, <1>1, <1>4, <1>5, <2>1
    <2>2. CASE i = n + 1
      BY <1>0, <1>2, <1>4, <1>5, <2>2
    <2>3. CASE i > n + 1
      <3>1. i - (n + 1) \in 1 .. Len(s) - n /\ n + (i - (n + 1)) = i - 1 /\ ~(i <= n + 1)
        BY <1>0, <2>3
      <3>2. c[i - (n + 1)] = s[i - 1]
        BY <1>3, <3>1
      <3> QED
        BY <1>0, <1>5, <2>3, <3>1, <3>2
    <2>4. i <= n \/ i = n + 1 \/ i > n + 1
      BY <1>0
    <2> QED
      BY <2>1, <2>2, <2>3, <2>4, Zenon
  <1> QED
    BY <1>5, <1>6, <1>7

LEMMA PlaceAt ==
  ASSUME NEW S, NEW s \in Seq(S), NEW n \in 0 .. Len(s), NEW x \in S, NEW i \in 1 .. Len(s) + 1
  PROVE  /\ i <= n => Place(s, n, x)[i] = s[i]
         /\ i = n + 1 => Place(s, n, x)[i] = x
         /\ i > n + 1 => Place(s, n, x)[i] = s[i - 1]
  <1>1. \A k \in 1 .. Len(s) + 1 : /\ k <= n => Place(s, n, x)[k] = s[k]
                                   /\ k = n + 1 => Place(s, n, x)[k] = x
                                   /\ k > n + 1 => Place(s, n, x)[k] = s[k - 1]
    BY PlaceIs
  <1> QED
    BY <1>1

\* Without its entry n a sequence keeps the others in their order.
LEMMA DropIs ==
  ASSUME NEW S, NEW s \in Seq(S), NEW n \in 1 .. Len(s)
  PROVE  LET t == SubSeq(s, 1, n - 1) \o SubSeq(s, n + 1, Len(s))
         IN  /\ t \in Seq(S) /\ Len(t) = Len(s) - 1
             /\ \A i \in 1 .. Len(s) - 1 : t[i] = IF i < n THEN s[i] ELSE s[i + 1]
  <1> DEFINE a == SubSeq(s, 1, n - 1)
             c == SubSeq(s, n + 1, Len(s))
  <1>0. Len(s) \in Nat /\ \A i \in 1 .. Len(s) : s[i] \in S
    BY LenProperties, ElementOfSeq
  <1>1. a \in Seq(S) /\ Len(a) = n - 1 /\ \A i \in 1 .. n - 1 : a[i] = s[i]
    <2>1. \A i \in 1 .. n - 1 : s[i] \in S
      BY <1>0
    <2>2. n - 1 \in Int /\ 1 \in Int
      BY <1>0
    <2>3. /\ a \in Seq(S) /\ Len(a) = IF 1 <= n - 1 THEN n - 1 - 1 + 1 ELSE 0
          /\ \A i \in 1 .. n - 1 - 1 + 1 : a[i] = s[1 + i - 1]
      BY <2>1, <2>2, SubSeqProperties
    <2> QED
      BY <1>0, <2>3
  <1>3. c \in Seq(S) /\ Len(c) = Len(s) - n /\ \A i \in 1 .. Len(s) - n : c[i] = s[n + i]
    <2>1. \A i \in n + 1 .. Len(s) : s[i] \in S
      BY <1>0
    <2>2. n + 1 \in Int /\ Len(s) \in Int
      BY <1>0
    <2>3. /\ c \in Seq(S) /\ Len(c) = IF n + 1 <= Len(s) THEN Len(s) - (n + 1) + 1 ELSE 0
          /\ \A i \in 1 .. Len(s) - (n + 1) + 1 : c[i] = s[n + 1 + i - 1]
      BY <2>1, <2>2, SubSeqProperties
    <2> QED
      BY <1>0, <2>3
  <1> HIDE DEF a, c
  <1>4. /\ a \o c \in Seq(S) /\ Len(a \o c) = Len(s) - 1
        /\ \A i \in 1 .. Len(s) - 1 : (a \o c)[i] = IF i <= n - 1 THEN a[i] ELSE c[i - (n - 1)]
    <2>1. Len(a) + Len(c) = Len(s) - 1
      BY <1>0, <1>1, <1>3
    <2>2. /\ a \o c \in Seq(S) /\ Len(a \o c) = Len(a) + Len(c)
          /\ \A i \in 1 .. Len(a) + Len(c) :
               (a \o c)[i] = IF i <= Len(a) THEN a[i] ELSE c[i - Len(a)]
      BY <1>1, <1>3, ConcatProperties
    <2> QED
      BY <1>1, <2>1, <2>2
  <1>5. ASSUME NEW i \in 1 .. Len(s) - 1
        PROVE  (a \o c)[i] = IF i < n THEN s[i] ELSE s[i + 1]
    <2>1. CASE i < n
      BY <1>0, <1>1, <1>4, <2>1
    <2>2. CASE i >= n
      BY <1>0, <1>3, <1>4, <2>2
    <2>3. i < n \/ i >= n
      BY <1>0
    <2> QED
      BY <2>1, <2>2, <2>3, Zenon
  <1> QED
    BY <1>4, <1>5, Zenon DEF a, c

-----------------------------------------------------------------------------
(* The Queue as a line                                                     *)

\* What leaves the Queue leaves the others as they were.
LEMMA WithoutIs ==
  ASSUME NEW q, Line(q), NEW p \in Listed(q)
  PROVE  /\ Line(Without(q, p)) /\ Listed(Without(q, p)) = Listed(q) \ {p}
         /\ \A i \in DOMAIN Without(q, p) : \E k \in DOMAIN q : Without(q, p)[i] = q[k]
  <1> DEFINE n == CHOOSE i \in DOMAIN q : q[i].plan = p
             w == SubSeq(q, 1, n - 1) \o SubSeq(q, n + 1, Len(q))
  <1>0. q \in Seq(EntryType) /\ Len(q) \in Nat /\ DOMAIN q = 1 .. Len(q) /\ Distinct(q)
    BY LineIs DEF Line
  <1>1. n \in DOMAIN q /\ q[n].plan = p
    <2>1. \E i \in DOMAIN q : q[i].plan = p
      BY DEF Listed
    <2> QED
      BY <2>1
  <1>2. Without(q, p) = w
    BY DEF Without
  <1> HIDE DEF n
  <1>3. /\ w \in Seq(EntryType) /\ Len(w) = Len(q) - 1
        /\ \A i \in 1 .. Len(q) - 1 : w[i] = IF i < n THEN q[i] ELSE q[i + 1]
    BY <1>0, <1>1, DropIs
  <1> HIDE DEF w
  <1>4. DOMAIN w = 1 .. Len(q) - 1
    BY <1>3, LenProperties
  <1>5. ASSUME NEW i \in DOMAIN w
        PROVE  LET k == IF i < n THEN i ELSE i + 1
               IN  k \in DOMAIN q /\ k # n /\ w[i] = q[k]
    <2>1. CASE i < n
      BY <1>0, <1>1, <1>3, <1>4, <2>1
    <2>2. CASE i >= n
      BY <1>0, <1>1, <1>3, <1>4, <2>2
    <2>3. i < n \/ i >= n
      BY <1>0, <1>1, <1>4
    <2> QED
      BY <2>1, <2>2, <2>3
  <1>6. ASSUME NEW k \in DOMAIN q, k # n
        PROVE  \E i \in DOMAIN w : w[i] = q[k]
    <2>1. CASE k < n
      <3>1. k \in DOMAIN w /\ w[k] = q[k]
        BY <1>0, <1>1, <1>3, <1>4, <2>1
      <3> QED
        BY <3>1
    <2>2. CASE k > n
      <3>1. k - 1 \in DOMAIN w /\ w[k - 1] = q[k]
        BY <1>0, <1>1, <1>3, <1>4, <2>2
      <3> QED
        BY <3>1
    <2>3. k < n \/ k > n
      BY <1>0, <1>1, <1>6
    <2> QED
      BY <2>1, <2>2, <2>3
  <1>7. Distinct(w)
    <2> SUFFICES ASSUME NEW i \in DOMAIN w, NEW k \in DOMAIN w, w[i].plan = w[k].plan
                 PROVE  i = k
      BY DEF Distinct
    <2> DEFINE up(x) == IF x < n THEN x ELSE x + 1
    <2>1. up(i) \in DOMAIN q /\ up(k) \in DOMAIN q /\ w[i] = q[up(i)] /\ w[k] = q[up(k)]
      BY <1>5
    <2>2. up(i) = up(k)
      BY <1>0, <2>1 DEF Distinct
    <2> QED
      BY <1>0, <1>1, <1>4, <2>2
  <1>8. Listed(w) = Listed(q) \ {p}
    <2>1. ASSUME NEW x \in Listed(w) PROVE x \in Listed(q) /\ x # p
      <3>1. PICK i \in DOMAIN w : x = w[i].plan
        BY DEF Listed
      <3>2. PICK k \in DOMAIN q : k # n /\ w[i] = q[k]
        BY <1>5
      <3> QED
        BY <1>0, <1>1, <3>1, <3>2 DEF Listed, Distinct
    <2>2. ASSUME NEW x \in Listed(q), x # p PROVE x \in Listed(w)
      <3>1. PICK k \in DOMAIN q : x = q[k].plan
        BY DEF Listed
      <3>2. k # n
        BY <1>1, <2>2, <3>1
      <3>3. PICK i \in DOMAIN w : w[i] = q[k]
        BY <1>6, <3>2
      <3> QED
        BY <3>1, <3>3 DEF Listed
    <2> QED
      BY <2>1, <2>2
  <1>9. \A i \in DOMAIN w : \E k \in DOMAIN q : w[i] = q[k]
    BY <1>5
  <1> QED
    BY <1>2, <1>3, <1>7, <1>8, <1>9 DEF Line

\* The head leaves the Queue.
LEMMA TailIs ==
  ASSUME NEW q, Line(q), q # <<>>
  PROVE  Head(q) = q[1] /\ q[1].plan \in Listed(q) /\ Line(Tail(q))
         /\ Listed(Tail(q)) = Listed(q) \ {q[1].plan}
  <1> DEFINE w == Tail(q)
  <1>0. q \in Seq(EntryType) /\ Len(q) \in Nat /\ DOMAIN q = 1 .. Len(q) /\ Distinct(q)
    BY LineIs DEF Line
  <1>1. Len(q) # 0 /\ 1 \in DOMAIN q
    BY <1>0, EmptySeq
  <1>2. /\ w \in Seq(EntryType) /\ Len(w) = Len(q) - 1
        /\ \A i \in 1 .. Len(w) : w[i] = q[i + 1]
    BY <1>0, HeadTailProperties
  <1>3. DOMAIN w = 1 .. Len(q) - 1
    BY <1>2, LenProperties
  <1>4. Head(q) = q[1] /\ q[1].plan \in Listed(q)
    BY <1>0, <1>1 DEF Listed
  <1> HIDE DEF w
  <1>5. ASSUME NEW i \in DOMAIN w PROVE i + 1 \in DOMAIN q /\ w[i] = q[i + 1] /\ i + 1 # 1
    BY <1>0, <1>2, <1>3
  <1>6. ASSUME NEW k \in DOMAIN q, k # 1 PROVE k - 1 \in DOMAIN w /\ w[k - 1] = q[k]
    BY <1>0, <1>2, <1>3, <1>6
  <1>7. Distinct(w)
    <2> SUFFICES ASSUME NEW i \in DOMAIN w, NEW k \in DOMAIN w, w[i].plan = w[k].plan
                 PROVE  i = k
      BY DEF Distinct
    <2>1. i + 1 = k + 1
      BY <1>0, <1>5 DEF Distinct
    <2> QED
      BY <1>0, <1>3, <2>1
  <1>8. Listed(w) = Listed(q) \ {q[1].plan}
    <2>1. ASSUME NEW x \in Listed(w) PROVE x \in Listed(q) /\ x # q[1].plan
      <3>1. PICK i \in DOMAIN w : x = w[i].plan
        BY DEF Listed
      <3> QED
        BY <1>0, <1>1, <1>5, <3>1 DEF Listed, Distinct
    <2>2. ASSUME NEW x \in Listed(q), x # q[1].plan PROVE x \in Listed(w)
      <3>1. PICK k \in DOMAIN q : x = q[k].plan
        BY DEF Listed
      <3>2. k - 1 \in DOMAIN w /\ w[k - 1].plan = x
        BY <1>6, <2>2, <3>1
      <3> QED
        BY <3>2 DEF Listed
    <2> QED
      BY <2>1, <2>2
  <1> QED
    BY <1>2, <1>4, <1>7, <1>8 DEF Line, w

\* A Plan that is put into the Queue joins the others.
LEMMA EntersIs ==
  ASSUME NEW q, Line(q), NEW e \in EntryType, e.plan \notin Listed(q), NEW n \in 0 .. Len(q)
  PROVE  Line(Place(q, n, e)) /\ Listed(Place(q, n, e)) = Listed(q) \cup {e.plan}
  <1>0. q \in Seq(EntryType) /\ Len(q) \in Nat /\ DOMAIN q = 1 .. Len(q) /\ Distinct(q)
    BY LineIs DEF Line
  <1> DEFINE w == Place(q, n, e)
  <1>a. q \in Seq(EntryType) /\ n \in 0 .. Len(q) /\ e \in EntryType
    BY <1>0
  <1>1. /\ w \in Seq(EntryType)
        /\ Len(w) = Len(q) + 1
        /\ \A i \in 1 .. Len(q) + 1 : /\ i <= n => w[i] = q[i]
                                      /\ i = n + 1 => w[i] = e
                                      /\ i > n + 1 => w[i] = q[i - 1]
    <2>1. Place(q, n, e) \in Seq(EntryType)
      BY <1>a, PlaceIs
    <2>2. Len(Place(q, n, e)) = Len(q) + 1
      BY <1>a, PlaceIs
    <2>3. ASSUME NEW i \in 1 .. Len(q) + 1
          PROVE  /\ i <= n => Place(q, n, e)[i] = q[i]
                 /\ i = n + 1 => Place(q, n, e)[i] = e
                 /\ i > n + 1 => Place(q, n, e)[i] = q[i - 1]
      BY <1>a, PlaceIs
    <2> QED
      BY <2>1, <2>2, <2>3
  <1> HIDE DEF w
  <1> DEFINE from(i) == IF i <= n THEN i ELSE i - 1
  <1>2. DOMAIN w = 1 .. Len(q) + 1 /\ n + 1 \in DOMAIN w /\ w[n + 1] = e
    <2>1. DOMAIN w = 1 .. Len(q) + 1
      BY <1>1, LenProperties
    <2> QED
      BY <1>0, <1>1, <2>1
  <1>3. ASSUME NEW i \in DOMAIN w, i # n + 1
        PROVE  from(i) \in DOMAIN q /\ w[i] = q[from(i)]
    <2>1. CASE i <= n
      BY <1>0, <1>1, <1>2, <2>1
    <2>2. CASE i > n + 1
      BY <1>0, <1>1, <1>2, <2>2
    <2>3. i <= n \/ i > n + 1
      BY <1>0, <1>2, <1>3
    <2> QED
      BY <2>1, <2>2, <2>3
  <1>4. ASSUME NEW k \in DOMAIN q PROVE \E i \in DOMAIN w : w[i] = q[k]
    <2>1. CASE k <= n
      <3>1. k \in DOMAIN w /\ w[k] = q[k]
        BY <1>0, <1>1, <1>2, <2>1
      <3> QED
        BY <3>1
    <2>2. CASE k > n
      <3>1. k + 1 \in DOMAIN w /\ w[k + 1] = q[k]
        BY <1>0, <1>1, <1>2, <2>2
      <3> QED
        BY <3>1
    <2>3. k <= n \/ k > n
      BY <1>0
    <2> QED
      BY <2>1, <2>2, <2>3
  <1>5. Distinct(w)
    <2> SUFFICES ASSUME NEW i \in DOMAIN w, NEW k \in DOMAIN w, w[i].plan = w[k].plan
                 PROVE  i = k
      BY DEF Distinct
    <2>1. CASE i # n + 1 /\ k # n + 1
      <3>1. from(i) \in DOMAIN q /\ from(k) \in DOMAIN q /\ w[i] = q[from(i)] /\ w[k] = q[from(k)]
        BY <1>3, <2>1
      <3>2. from(i) = from(k)
        BY <1>0, <3>1 DEF Distinct
      <3> QED
        BY <1>0, <1>2, <2>1, <3>2
    <2>2. CASE i = n + 1 /\ k # n + 1
      BY <1>2, <1>3, <2>2 DEF Listed
    <2>3. CASE i # n + 1 /\ k = n + 1
      BY <1>2, <1>3, <2>3 DEF Listed
    <2>4. CASE i = n + 1 /\ k = n + 1
      BY <2>4
    <2> QED
      BY <2>1, <2>2, <2>3, <2>4
  <1>6. Listed(w) = Listed(q) \cup {e.plan}
    <2>1. ASSUME NEW x \in Listed(w) PROVE x \in Listed(q) \cup {e.plan}
      <3>1. PICK i \in DOMAIN w : x = w[i].plan
        BY DEF Listed
      <3> QED
        BY <1>2, <1>3, <3>1 DEF Listed
    <2>2. ASSUME NEW x \in Listed(q) PROVE x \in Listed(w)
      <3>1. PICK k \in DOMAIN q : x = q[k].plan
        BY DEF Listed
      <3>2. PICK i \in DOMAIN w : w[i] = q[k]
        BY <1>4
      <3> QED
        BY <3>1, <3>2 DEF Listed
    <2>3. e.plan \in Listed(w)
      BY <1>2 DEF Listed
    <2> QED
      BY <2>1, <2>2, <2>3
  <1> QED
    BY <1>1, <1>5, <1>6 DEF Line, w

-----------------------------------------------------------------------------
(* The diagnostics of an inventory                                         *)

LEMMA BrokenIs ==
  ASSUME NEW d
  PROVE  Broken(d) = {} <=>
           /\ \A i \in DOMAIN d[Queue].val : d[Plan(d[Queue].val[i].plan)].val.state = "queued"
           /\ Distinct(d[Queue].val)
           /\ \A p \in Plans : d[Idea(p)].val \in {"qualified", "queued"} => d[Plan(p)].val.state # "absent"
  <1> DEFINE q == d[Queue].val
             A == {i \in DOMAIN q : d[Plan(q[i].plan)].val.state # "queued"}
             B == {i \in DOMAIN q : \E k \in DOMAIN q : k # i /\ q[k].plan = q[i].plan}
             C == {p \in Plans : /\ d[Idea(p)].val \in {"qualified", "queued"}
                                 /\ d[Plan(p)].val.state = "absent"}
  <1>1. Broken(d) = {<<"queue.plan_state", q[i].plan>> : i \in A}
                    \cup {<<"queue.plan_duplicate", q[i].plan>> : i \in B}
                    \cup {<<"idea.resulting_plan", p>> : p \in C}
    BY Zenon DEF Broken
  <1>2. Broken(d) = {} <=> A = {} /\ B = {} /\ C = {}
    <2> HIDE DEF A, B, C, q
    <2> QED
      BY <1>1
  <1>3. B = {} <=> Distinct(q)
    BY DEF Distinct
  <1> QED
    BY <1>2, <1>3

\* Nothing is broken in a good inventory.
LEMMA GoodIsWhole ==
  ASSUME NEW d, Good(d)
  PROVE  Broken(d) = {}
  <1>1. Line(d[Queue].val)
    BY DEF Good
  <1>2. ASSUME NEW i \in DOMAIN d[Queue].val
        PROVE  d[Plan(d[Queue].val[i].plan)].val.state = "queued"
    <2>1. d[Queue].val[i].plan \in Plans /\ d[Queue].val[i].plan \in Listed(d[Queue].val)
      BY <1>1, LineIs DEF Listed
    <2> QED
      BY <2>1 DEF Good, Proper
  <1>3. ASSUME NEW p \in Plans, d[Idea(p)].val \in {"qualified", "queued"}
        PROVE  d[Plan(p)].val.state # "absent"
    BY <1>3 DEF Good, Proper
  <1> QED
    BY <1>1, <1>2, <1>3, BrokenIs DEF Line

LEMMA GoodIdeas ==
  ASSUME Good(docs)
  PROVE  IdeaFollowsQueue
  <1> SUFFICES ASSUME NEW p \in Plans
               PROVE  /\ docs[Idea(p)].val = "queued" =>
                           p \in Listed(docs[Queue].val)
                           \/ docs[Plan(p)].val.state \in {"started", "completed"}
                      /\ p \in Listed(docs[Queue].val) => docs[Idea(p)].val \in {"queued", "dismissed"}
    BY DEF IdeaFollowsQueue
  <1> QED
    BY DEF Good, Proper

-----------------------------------------------------------------------------
(* A refresh repairs what is stale                                         *)

\* What a diagnostic that may be repaired says.
LEMMA RepairableIs ==
  ASSUME NEW d, NEW fs, NEW x
  PROVE  x \in Repairable(d, fs) <=>
           \/ \E p \in Plans : x = <<"plan.belief_stale", p>> /\ Stale(p, d, fs)
           \/ \E i \in DOMAIN d[Queue].val :
                /\ x = <<"queue.plan_stale", d[Queue].val[i].plan>>
                /\ d[Queue].val[i].rev # d[Plan(d[Queue].val[i].plan)].rev
           \/ \E i \in DOMAIN d[Queue].val :
                /\ x = <<"queue.cluster_saturated", d[Queue].val[i].plan>>
                /\ ~d[Queue].val[i].pinned /\ d[Policy].val.saturated
  BY Zenon DEF Repairable

Refreshed(p) ==
    [k \in Docs |-> IF k \in DOMAIN RefreshWrites(p)
                    THEN [rev |-> docs[k].rev + 1, val |-> RefreshWrites(p)[k]] ELSE docs[k]]

LEMMA RequalifiedIs ==
  ASSUME NEW p
  PROVE  /\ docs[Idea(p)].val = "queued" =>
              DOMAIN Requalified(p) = {Idea(p)} /\ Requalified(p)[Idea(p)] = "qualified"
         /\ docs[Idea(p)].val # "queued" => DOMAIN Requalified(p) = {}
  <1>1. CASE docs[Idea(p)].val = "queued"
    <2>1. Requalified(p) = Value(Idea(p), "qualified")
      BY <1>1 DEF Requalified
    <2> QED
      BY <1>1, <2>1, ValueIs
  <1>2. CASE docs[Idea(p)].val # "queued"
    BY <1>2 DEF Requalified
  <1> QED
    BY <1>1, <1>2

\* What a refresh writes.
LEMMA RefreshIs ==
  ASSUME NEW p \in Plans
  PROVE  LET W == DOMAIN RefreshWrites(p)
             q == docs[Queue].val
         IN  /\ Plan(p) \in W /\ W \subseteq {Plan(p), Idea(p), Queue}
             /\ RefreshWrites(p)[Plan(p)] = [state |-> "queued", pins |-> Pins(p, findings)]
             /\ Queue \in W <=> p \in Listed(q)
             /\ p \in Listed(q) => RefreshWrites(p)[Queue] = Without(q, p)
             /\ Idea(p) \in W <=> docs[Idea(p)].val = "queued"
             /\ Idea(p) \in W => RefreshWrites(p)[Idea(p)] = "qualified"
  <1> DEFINE q == docs[Queue].val
             a == Value(Plan(p), [state |-> "queued", pins |-> Pins(p, findings)])
             b == IF p \in Listed(q) THEN Value(Queue, Without(q, p)) ELSE <<>>
             c == Requalified(p)
  <1>1. DOMAIN a = {Plan(p)} /\ a[Plan(p)] = [state |-> "queued", pins |-> Pins(p, findings)]
    BY ValueIs
  <1>2. /\ p \in Listed(q) => DOMAIN b = {Queue} /\ b[Queue] = Without(q, p)
        /\ p \notin Listed(q) => DOMAIN b = {}
    <2>1. CASE p \in Listed(q)
      <3>1. b = Value(Queue, Without(q, p))
        BY <2>1
      <3> HIDE DEF b
      <3> QED
        BY <2>1, <3>1, ValueIs
    <2>2. CASE p \notin Listed(q)
      BY <2>2
    <2> QED
      BY <2>1, <2>2
  <1>3. /\ docs[Idea(p)].val = "queued" => DOMAIN c = {Idea(p)} /\ c[Idea(p)] = "qualified"
        /\ docs[Idea(p)].val # "queued" => DOMAIN c = {}
    BY RequalifiedIs
  <1>4. RefreshWrites(p) = Both(a, Both(b, c))
    BY DEF RefreshWrites
  <1> HIDE DEF a, b, c, q
  <1>5. /\ DOMAIN Both(b, c) = DOMAIN b \cup DOMAIN c
        /\ \A x \in DOMAIN b : Both(b, c)[x] = b[x]
        /\ \A x \in DOMAIN c : x \notin DOMAIN b => Both(b, c)[x] = c[x]
    BY BothIs
  <1>6. /\ DOMAIN Both(a, Both(b, c)) = DOMAIN a \cup DOMAIN Both(b, c)
        /\ \A x \in DOMAIN a : Both(a, Both(b, c))[x] = a[x]
        /\ \A x \in DOMAIN Both(b, c) : x \notin DOMAIN a => Both(a, Both(b, c))[x] = Both(b, c)[x]
    BY BothIs
  <1>7. Idea(p) # Queue /\ Plan(p) # Queue /\ Idea(p) # Plan(p)
    BY Keys
  <1> QED
    BY <1>1, <1>2, <1>3, <1>4, <1>5, <1>6, <1>7 DEF q

\* The inventory after a refresh that is not disturbed.
LEMMA RefreshedIs ==
  ASSUME Good(docs), NEW p \in Plans
  PROVE  LET d == Refreshed(p)
             q == docs[Queue].val
         IN  /\ Line(d[Queue].val) /\ Listed(d[Queue].val) = Listed(q) \ {p}
             /\ \A i \in DOMAIN d[Queue].val : \E k \in DOMAIN q : d[Queue].val[i] = q[k]
             /\ d[Plan(p)].val = [state |-> "queued", pins |-> Pins(p, findings)]
             /\ d[Idea(p)].val # "queued"
             /\ d[Policy] = docs[Policy]
             /\ \A r \in Plans \ {p} : d[Plan(r)] = docs[Plan(r)] /\ d[Idea(r)] = docs[Idea(r)]
  <1> DEFINE d == Refreshed(p)
             q == docs[Queue].val
             W == DOMAIN RefreshWrites(p)
             w == RefreshWrites(p)
  <1>1. Line(q)
    BY DEF Good
  <1>2. ASSUME NEW k \in Docs
        PROVE  (k \in W => d[k].val = w[k]) /\ (k \notin W => d[k] = docs[k])
    BY DEF Refreshed
  <1>3. /\ Plan(p) \in W /\ W \subseteq {Plan(p), Idea(p), Queue}
        /\ w[Plan(p)] = [state |-> "queued", pins |-> Pins(p, findings)]
        /\ Queue \in W <=> p \in Listed(q)
        /\ p \in Listed(q) => w[Queue] = Without(q, p)
        /\ Idea(p) \in W <=> docs[Idea(p)].val = "queued"
        /\ Idea(p) \in W => w[Idea(p)] = "qualified"
    BY RefreshIs
  <1> HIDE DEF d, W, w
  <1>4. /\ Queue \in Docs /\ Policy \in Docs /\ Plan(p) \in Docs /\ Idea(p) \in Docs
        /\ Queue # Policy /\ Queue # Plan(p) /\ Queue # Idea(p) /\ Plan(p) # Idea(p)
        /\ Policy # Plan(p) /\ Policy # Idea(p)
    BY Keys
  <1>5. ASSUME NEW r \in Plans \ {p}
        PROVE  /\ Plan(r) \in Docs /\ Idea(r) \in Docs
               /\ Plan(r) \notin {Plan(p), Idea(p), Queue} /\ Idea(r) \notin {Plan(p), Idea(p), Queue}
    BY Keys
  <1>6. /\ Line(d[Queue].val) /\ Listed(d[Queue].val) = Listed(q) \ {p}
        /\ \A i \in DOMAIN d[Queue].val : \E k \in DOMAIN q : d[Queue].val[i] = q[k]
    <2>1. CASE p \in Listed(q)
      <3>1. d[Queue].val = Without(q, p)
        BY <1>2, <1>3, <1>4, <2>1
      <3> QED
        BY <1>1, <2>1, <3>1, WithoutIs
    <2>2. CASE p \notin Listed(q)
      <3>1. d[Queue].val = q
        BY <1>2, <1>3, <1>4, <2>2
      <3> QED
        BY <1>1, <2>2, <3>1
    <2> QED
      BY <2>1, <2>2
  <1>7. d[Plan(p)].val = [state |-> "queued", pins |-> Pins(p, findings)]
    BY <1>2, <1>3, <1>4
  <1>8. d[Idea(p)].val # "queued"
    BY <1>2, <1>3, <1>4
  <1>9. d[Policy] = docs[Policy]
    BY <1>2, <1>3, <1>4
  <1>10. ASSUME NEW r \in Plans \ {p}
         PROVE  d[Plan(r)] = docs[Plan(r)] /\ d[Idea(r)] = docs[Idea(r)]
    BY <1>2, <1>3, <1>5
  <1> QED
    BY <1>6, <1>7, <1>8, <1>9, <1>10 DEF d

LEMMA GoodIsRepairable ==
  ASSUME Good(docs)
  PROVE  RepairPossible
  <1> SUFFICES ASSUME NEW x \in Repairable(docs, findings)
               PROVE  /\ docs[Plan(x[2])].val.state = "queued"
                      /\ Broken(Refreshed(x[2])) = {}
                      /\ Repairable(Refreshed(x[2]), findings)
                           \subseteq {y \in Repairable(docs, findings) : y[2] # x[2]}
    BY Zenon DEF RepairPossible, Refreshed
  <1> DEFINE p == x[2]
             q == docs[Queue].val
             d == Refreshed(p)
  <1>1. Line(q)
    BY DEF Good
  <1>2. p \in Plans /\ docs[Plan(p)].val.state = "queued"
    <2>1. CASE \E r \in Plans : x = <<"plan.belief_stale", r>> /\ Stale(r, docs, findings)
      BY <2>1 DEF Stale
    <2>2. CASE \E i \in DOMAIN q, s \in {"queue.plan_stale", "queue.cluster_saturated"} :
                 x = <<s, q[i].plan>>
      <3>1. PICK i \in DOMAIN q : p = q[i].plan
        BY <2>2
      <3>2. p \in Plans /\ p \in Listed(q)
        BY <1>1, <3>1, LineIs DEF Listed
      <3> QED
        BY <3>2 DEF Good, Proper
    <2> QED
      BY <2>1, <2>2, RepairableIs
  <1>3. /\ Line(d[Queue].val) /\ Listed(d[Queue].val) = Listed(q) \ {p}
        /\ \A i \in DOMAIN d[Queue].val : \E k \in DOMAIN q : d[Queue].val[i] = q[k]
        /\ d[Plan(p)].val = [state |-> "queued", pins |-> Pins(p, findings)]
        /\ d[Idea(p)].val # "queued"
        /\ d[Policy] = docs[Policy]
        /\ \A r \in Plans \ {p} : d[Plan(r)] = docs[Plan(r)] /\ d[Idea(r)] = docs[Idea(r)]
    BY <1>2, RefreshedIs
  <1> HIDE DEF p, d
  <1>4. Broken(d) = {}
    <2>1. ASSUME NEW i \in DOMAIN d[Queue].val
          PROVE  d[Plan(d[Queue].val[i].plan)].val.state = "queued"
      <3>1. d[Queue].val[i].plan \in Listed(q) \ {p} /\ d[Queue].val[i].plan \in Plans
        BY <1>3, LineIs DEF Listed
      <3> QED
        BY <1>3, <3>1 DEF Good, Proper
    <2>2. ASSUME NEW r \in Plans, d[Idea(r)].val \in {"qualified", "queued"}
          PROVE  d[Plan(r)].val.state # "absent"
      BY <1>3, <2>2 DEF Good, Proper
    <2> QED
      BY <1>3, <2>1, <2>2, BrokenIs DEF Line
  <1>5. ASSUME NEW y \in Repairable(d, findings)
        PROVE  y \in Repairable(docs, findings) /\ y[2] # p
    <2>1. CASE \E r \in Plans : y = <<"plan.belief_stale", r>> /\ Stale(r, d, findings)
      <3>1. PICK r \in Plans : y = <<"plan.belief_stale", r>> /\ Stale(r, d, findings)
        BY <2>1
      <3>2. r # p
        BY <1>3, <3>1 DEF Stale
      <3>3. Stale(r, docs, findings)
        BY <1>3, <3>1, <3>2 DEF Stale
      <3> QED
        BY <3>1, <3>2, <3>3, RepairableIs
    <2>2. ASSUME NEW i \in DOMAIN d[Queue].val
          PROVE  \E k \in DOMAIN q : /\ d[Queue].val[i] = q[k] /\ q[k].plan # p
                                     /\ d[Plan(q[k].plan)] = docs[Plan(q[k].plan)]
      <3>1. PICK k \in DOMAIN q : d[Queue].val[i] = q[k]
        BY <1>3
      <3>2. d[Queue].val[i].plan \in Listed(q) \ {p}
        BY <1>3 DEF Listed
      <3>3. q[k].plan \in Plans
        BY <1>1, LineIs
      <3> QED
        BY <1>3, <3>1, <3>2, <3>3
    <2>3. CASE \E i \in DOMAIN d[Queue].val :
                 /\ y = <<"queue.plan_stale", d[Queue].val[i].plan>>
                 /\ d[Queue].val[i].rev # d[Plan(d[Queue].val[i].plan)].rev
      <3>1. PICK i \in DOMAIN d[Queue].val :
                 /\ y = <<"queue.plan_stale", d[Queue].val[i].plan>>
                 /\ d[Queue].val[i].rev # d[Plan(d[Queue].val[i].plan)].rev
        BY <2>3
      <3>2. PICK k \in DOMAIN q : /\ d[Queue].val[i] = q[k] /\ q[k].plan # p
                                  /\ d[Plan(q[k].plan)] = docs[Plan(q[k].plan)]
        BY <2>2
      <3>3. y = <<"queue.plan_stale", q[k].plan>> /\ q[k].rev # docs[Plan(q[k].plan)].rev
        BY <3>1, <3>2
      <3> QED
        BY <3>2, <3>3, RepairableIs
    <2>4. CASE \E i \in DOMAIN d[Queue].val :
                 /\ y = <<"queue.cluster_saturated", d[Queue].val[i].plan>>
                 /\ ~d[Queue].val[i].pinned /\ d[Policy].val.saturated
      <3>1. PICK i \in DOMAIN d[Queue].val :
                 /\ y = <<"queue.cluster_saturated", d[Queue].val[i].plan>>
                 /\ ~d[Queue].val[i].pinned /\ d[Policy].val.saturated
        BY <2>4
      <3>2. PICK k \in DOMAIN q : /\ d[Queue].val[i] = q[k] /\ q[k].plan # p
        BY <2>2
      <3>3. y = <<"queue.cluster_saturated", q[k].plan>> /\ ~q[k].pinned /\ docs[Policy].val.saturated
        BY <1>3, <3>1, <3>2
      <3> QED
        BY <3>2, <3>3, RepairableIs
    <2> QED
      BY <2>1, <2>3, <2>4, RepairableIs, Zenon
  <1> QED
    BY <1>2, <1>4, <1>5 DEF p, d

-----------------------------------------------------------------------------
(* What a command leaves that names current revisions                      *)

LEMMA AfterIs ==
  ASSUME NEW c, NEW k \in Docs
  PROVE  LET W == DOMAIN cmd[c].writes
             d == After(c)
         IN  /\ k \in W => d[k].rev = docs[k].rev + 1 /\ d[k].val = cmd[c].writes[k]
             /\ k \notin W => d[k] = docs[k]
  BY DEF After

\* A command writes its own Plan and Idea, the Queue and the Policy at most.
LEMMA WritesFew ==
  ASSUME NEW m, NEW d, Prepared(m, d)
  PROVE  /\ DOMAIN m.writes \subseteq {Plan(m.plan), Idea(m.plan), Queue, Policy}
         /\ Policy \in DOMAIN m.writes => m.op = "policy"
  <1>1. m.op \in Ops /\ Shape(m, DOMAIN m.writes, Plan(m.plan), Idea(m.plan)) /\ m.plan \in Plans
    BY DEF Prepared
  <1>2. Plan(m.plan) # Policy /\ Idea(m.plan) # Policy /\ Queue # Policy
    BY Keys
  <1> QED
    BY <1>1, <1>2 DEF Shape, Ops, Placing

\* The Queue it leaves is a line, in which only its own Plan came or went.
LEMMA QueueAfter ==
  ASSUME NEW m, NEW d, Good(d), Prepared(m, d), Fits(m, d), m.op # "battle"
  PROVE  LET q == d[Queue].val
             w == m.writes[Queue]
         IN  Queue \in DOMAIN m.writes =>
               /\ Line(w)
               /\ \/ /\ m.op \in {"insert", "ranked"} /\ Listed(w) = Listed(q) \cup {m.plan}
                  \/ /\ m.op \in {"refresh", "remove", "admit"}
                     /\ m.plan \in Listed(q) /\ Listed(w) = Listed(q) \ {m.plan}
  <1> SUFFICES ASSUME Queue \in DOMAIN m.writes
               PROVE  LET q == d[Queue].val
                          w == m.writes[Queue]
                      IN  /\ Line(w)
                          /\ \/ /\ m.op \in {"insert", "ranked"} /\ Listed(w) = Listed(q) \cup {m.plan}
                             \/ /\ m.op \in {"refresh", "remove", "admit"}
                                /\ m.plan \in Listed(q) /\ Listed(w) = Listed(q) \ {m.plan}
    OBVIOUS
  <1>1. m.op \in Ops /\ Shape(m, DOMAIN m.writes, Plan(m.plan), Idea(m.plan))
    BY DEF Prepared
  <1>2. Plan(m.plan) # Queue /\ Idea(m.plan) # Queue /\ Policy # Queue
    BY Keys
  <1>3. m.op \in {"refresh", "insert", "ranked", "remove", "admit"}
    BY <1>1, <1>2 DEF Shape, Ops
  <1>4. Seen(m, d[Queue].val, d[Plan(m.plan)].val.state, d[Idea(m.plan)].val)
    BY DEF Prepared
  <1> QED
    BY <1>3, <1>4 DEF Seen

\* Its own Plan and Idea agree with the Queue.
LEMMA OwnAfter ==
  ASSUME NEW m, NEW d, Good(d), Prepared(m, d), Fits(m, d), m.op # "battle"
  PROVE  LET W == DOMAIN m.writes
             p == m.plan
         IN  Proper(p, Listed(IF Queue \in W THEN m.writes[Queue] ELSE d[Queue].val),
                    IF Plan(p) \in W THEN m.writes[Plan(p)].state ELSE d[Plan(p)].val.state,
                    IF Idea(p) \in W THEN m.writes[Idea(p)] ELSE d[Idea(p)].val)
  <1> DEFINE W == DOMAIN m.writes
             p == m.plan
             q == d[Queue].val
             state == d[Plan(p)].val.state
             idea == d[Idea(p)].val
             now == Listed(IF Queue \in W THEN m.writes[Queue] ELSE q)
             newState == IF Plan(p) \in W THEN m.writes[Plan(p)].state ELSE state
             newIdea == IF Idea(p) \in W THEN m.writes[Idea(p)] ELSE idea
  <1>1. m.op \in Ops /\ p \in Plans /\ Shape(m, W, Plan(p), Idea(p)) /\ Left(m, idea)
    BY DEF Prepared
  <1>2. Seen(m, q, state, idea)
    BY DEF Prepared
  <1>3. Proper(p, Listed(q), state, idea)
    BY <1>1 DEF Good
  <1>4. /\ Plan(p) # Queue /\ Idea(p) # Queue /\ Policy # Queue /\ Plan(p) # Policy
        /\ Idea(p) # Policy /\ Plan(p) # Idea(p)
    BY Keys
  <1>5. /\ Queue \notin W => now = Listed(q)
        /\ Queue \in W => now = Listed(m.writes[Queue])
        /\ Plan(p) \in W => newState = m.writes[Plan(p)].state
        /\ Plan(p) \notin W => newState = state
        /\ Idea(p) \in W => newIdea = m.writes[Idea(p)]
        /\ Idea(p) \notin W => newIdea = idea
    OBVIOUS
  <1>6. Queue \in W => /\ m.op \in {"insert", "ranked"} => p \in now
                       /\ m.op \in {"refresh", "remove", "admit"} => p \notin now /\ p \in Listed(q)
    BY <1>5, QueueAfter
  <1> SUFFICES Proper(p, now, newState, newIdea)
    OBVIOUS
  <1> HIDE DEF W, p, q, state, idea, now, newState, newIdea
  <1>7. CASE m.op = "qualify"
    BY <1>1, <1>2, <1>3, <1>4, <1>5, <1>7 DEF Shape, Seen, Proper, p, W
  <1>8. CASE m.op = "dismiss"
    BY <1>1, <1>3, <1>4, <1>5, <1>8 DEF Shape, Proper, p, W
  <1>9. CASE m.op = "policy"
    BY <1>1, <1>3, <1>4, <1>5, <1>9 DEF Shape, Proper, p, W
  <1>10. CASE m.op = "refresh"
    <2>1. state = "queued" /\ newState = "queued"
      BY <1>1, <1>2, <1>5, <1>10 DEF Shape, Seen, Placing
    <2>2. CASE Queue \in W
      <3>1. p \notin now /\ p \in Listed(q) /\ newIdea \in {"qualified", "dismissed"}
        BY <1>1, <1>4, <1>5, <1>6, <1>10, <2>2 DEF Shape, Left, Placing, p, W
      <3> QED
        BY <2>1, <3>1 DEF Proper
    <2>3. CASE Queue \notin W
      BY <1>1, <1>3, <1>4, <1>5, <1>10, <2>1, <2>3 DEF Shape, Proper, p, W
    <2> QED
      BY <2>2, <2>3
  <1>11. CASE m.op \in {"insert", "ranked"}
    <2>1. Queue \in W /\ p \in now
      BY <1>1, <1>6, <1>11 DEF Shape, Placing
    <2>2. newState = "queued"
      BY <1>1, <1>2, <1>4, <1>5, <1>11 DEF Shape, Seen, Placing, p, W
    <2>3. newIdea \in {"queued", "dismissed"}
      BY <1>1, <1>5, <1>11, <2>1 DEF Shape, Left, Placing, p, W
    <2> QED
      BY <2>1, <2>2, <2>3 DEF Proper
  <1>12. CASE m.op = "remove"
    <2>1. Queue \in W /\ p \notin now /\ p \in Listed(q)
      BY <1>1, <1>6, <1>12 DEF Shape
    <2>2. newState = "queued"
      BY <1>1, <1>3, <1>4, <1>5, <1>12, <2>1 DEF Shape, Proper
    <2>3. newIdea \in {"qualified", "dismissed"}
      BY <1>1, <1>5, <1>12, <2>1 DEF Shape, Left, p, W
    <2> QED
      BY <2>1, <2>2, <2>3 DEF Proper
  <1>13. CASE m.op = "admit"
    <2>1. Queue \in W /\ p \notin now /\ p \in Listed(q) /\ newState = "started" /\ newIdea = idea
      BY <1>1, <1>4, <1>5, <1>6, <1>13 DEF Shape, p, W
    <2> QED
      BY <1>3, <2>1 DEF Proper
  <1>14. CASE m.op = "close"
    <2>1. /\ newState = "completed" /\ state = "started" /\ newIdea = idea
          /\ now = Listed(q)
      BY <1>1, <1>2, <1>4, <1>5, <1>14 DEF Shape, Seen, p, W
    <2> QED
      BY <1>3, <2>1 DEF Proper
  <1>15. CASE m.op = "audit"
    BY <1>1, <1>3, <1>5, <1>15 DEF Shape, Proper
  <1> QED
    BY <1>1, <1>7, <1>8, <1>9, <1>10, <1>11, <1>12, <1>13, <1>14, <1>15 DEF Ops

\* A command whose revisions are current leaves a good inventory.
LEMMA AfterIsGood ==
  ASSUME Good(docs), NEW c, Prepared(cmd[c], docs), Fits(cmd[c], docs), cmd[c].op # "battle"
  PROVE  Good(After(c))
  <1> DEFINE m == cmd[c]
             d == After(c)
             W == DOMAIN m.writes
             p == m.plan
             q == docs[Queue].val
  <1>1. ASSUME NEW k \in Docs
        PROVE  /\ k \in W => d[k].rev = docs[k].rev + 1 /\ d[k].val = m.writes[k]
               /\ k \notin W => d[k] = docs[k]
    BY AfterIs
  <1>2. Queue \in Docs /\ p \in Plans /\ Plan(p) \in Docs /\ Idea(p) \in Docs
    BY Keys DEF Prepared
  <1>3. W \subseteq {Plan(p), Idea(p), Queue, Policy}
    BY WritesFew
  <1>4. Queue \in W =>
          /\ Line(m.writes[Queue])
          /\ \/ Listed(m.writes[Queue]) = Listed(q) \cup {p}
             \/ p \in Listed(q) /\ Listed(m.writes[Queue]) = Listed(q) \ {p}
    BY QueueAfter
  <1>5. Proper(p, Listed(IF Queue \in W THEN m.writes[Queue] ELSE q),
               IF Plan(p) \in W THEN m.writes[Plan(p)].state ELSE docs[Plan(p)].val.state,
               IF Idea(p) \in W THEN m.writes[Idea(p)] ELSE docs[Idea(p)].val)
    BY OwnAfter
  <1> HIDE DEF m, d, W, p
  <1>6. d[Queue].val = IF Queue \in W THEN m.writes[Queue] ELSE q
    BY <1>1, <1>2
  <1>7. d[Plan(p)].val.state = IF Plan(p) \in W THEN m.writes[Plan(p)].state ELSE docs[Plan(p)].val.state
    BY <1>1, <1>2
  <1>8. d[Idea(p)].val = IF Idea(p) \in W THEN m.writes[Idea(p)] ELSE docs[Idea(p)].val
    BY <1>1, <1>2
  <1>9. \A k \in Docs : d[k].rev \in Nat
    BY <1>1 DEF Good
  <1>10. /\ Line(d[Queue].val)
         /\ \A r \in Plans \ {p} : r \in Listed(d[Queue].val) <=> r \in Listed(q)
    <2>1. CASE Queue \in W
      BY <1>4, <1>6, <2>1
    <2>2. CASE Queue \notin W
      BY <1>6, <2>2 DEF Good
    <2> QED
      BY <2>1, <2>2
  <1>11. ASSUME NEW r \in Plans
         PROVE  Proper(r, Listed(d[Queue].val), d[Plan(r)].val.state, d[Idea(r)].val)
    <2>1. CASE r = p
      BY <1>5, <1>6, <1>7, <1>8, <2>1
    <2>2. CASE r # p
      <3>1. /\ Plan(r) \in Docs /\ Idea(r) \in Docs
            /\ Plan(r) \notin {Plan(p), Idea(p), Queue, Policy}
            /\ Idea(r) \notin {Plan(p), Idea(p), Queue, Policy}
        BY <2>2, Keys
      <3>2. d[Plan(r)] = docs[Plan(r)] /\ d[Idea(r)] = docs[Idea(r)]
        BY <1>1, <1>3, <3>1
      <3>3. Proper(r, Listed(q), docs[Plan(r)].val.state, docs[Idea(r)].val)
        BY DEF Good
      <3> QED
        BY <1>10, <2>2, <3>2, <3>3 DEF Proper
    <2> QED
      BY <2>1, <2>2
  <1> QED
    BY <1>9, <1>10, <1>11 DEF Good, d

\* Revisions a command names are thus all the protection it needs.
LEMMA GoodSuffices ==
  ASSUME QueueInv
  PROVE  GuardsSuffice
  <1> SUFFICES ASSUME NEW c \in Clients, cmd[c] # Idle, cmd[c].op # "battle", Current(c)
               PROVE  Broken(After(c)) = {}
    BY DEF GuardsSuffice
  <1>1. Good(docs) /\ Prepared(cmd[c], docs)
    BY DEF QueueInv, Calls
  <1>2. Fits(cmd[c], docs)
    BY DEF Current, Fits
  <1> QED
    BY <1>1, <1>2, AfterIsGood, GoodIsWhole

-----------------------------------------------------------------------------
(* What other commands leave of what a command knows                       *)

\* They change a document it names, which it notices, or none of them.
LEMMA Apart ==
  ASSUME Good(docs), NEW c, NEW m, Past(m, docs), Fits(m, After(c)),
         DOMAIN cmd[c].writes \subseteq Docs
  PROVE  /\ Fits(m, docs)
         /\ \A k \in DOMAIN m.expect : k \notin DOMAIN cmd[c].writes /\ After(c)[k] = docs[k]
  <1>1. ASSUME NEW k \in DOMAIN m.expect
        PROVE  k \notin DOMAIN cmd[c].writes /\ After(c)[k] = docs[k]
    <2>1. k \in Docs /\ m.expect[k] \in Nat /\ m.expect[k] <= docs[k].rev /\ docs[k].rev \in Nat
      BY DEF Past, Good
    <2>2. After(c)[k].rev = m.expect[k]
      BY DEF Fits
    <2>3. k \notin DOMAIN cmd[c].writes
      BY <2>1, <2>2, AfterIs
    <2> QED
      BY <2>1, <2>3, AfterIs
  <1> QED
    BY <1>1 DEF Fits

\* A queued Plan stays so unless its command writes the Queue.
LEMMA StaysQueued ==
  ASSUME Good(docs), NEW c, Prepared(cmd[c], docs), Fits(cmd[c], docs), cmd[c].op # "battle",
         NEW p \in Plans, docs[Plan(p)].val.state = "queued", Queue \notin DOMAIN cmd[c].writes
  PROVE  After(c)[Plan(p)].val.state = "queued"
  <1> DEFINE m == cmd[c]
             W == DOMAIN m.writes
  <1>1. Plan(p) \in Docs
    BY Keys
  <1>2. CASE Plan(p) \notin W
    BY <1>1, <1>2, AfterIs
  <1>3. CASE Plan(p) \in W
    <2>1. After(c)[Plan(p)].val = m.writes[Plan(p)]
      BY <1>1, <1>3, AfterIs
    <2>2. m.plan = p
      <3>1. Plan(p) \in {Plan(m.plan), Idea(m.plan), Queue, Policy}
        BY <1>3, WritesFew
      <3> QED
        BY <3>1, Keys
    <2>3. m.op \in Ops /\ Shape(m, W, Plan(p), Idea(p)) /\ Plan(p) # Queue /\ Plan(p) # Idea(p) /\ Plan(p) # Policy
      BY <2>2, Keys DEF Prepared
    <2>4. m.op = "close" => docs[Plan(p)].val.state = "started"
      BY <2>2 DEF Prepared, Seen
    <2> HIDE DEF m, W
    <2>5. m.op \in {"qualify", "refresh"}
      BY <1>3, <2>3, <2>4 DEF Shape, Ops, Placing, m, W
    <2> QED
      BY <2>1, <2>3, <2>5 DEF Shape
  <1> QED
    BY <1>2, <1>3

\* What a command knows is still so after another.
LEMMA StaysPrepared ==
  ASSUME Good(docs), NEW c, Prepared(cmd[c], docs), Fits(cmd[c], docs), cmd[c].op # "battle",
         \A p \in Plans : MayTurn(docs[Idea(p)].val, After(c)[Idea(p)].val),
         NEW m, Prepared(m, docs)
  PROVE  Prepared(m, After(c))
  <1> DEFINE d == After(c)
             p == m.plan
             V == DOMAIN cmd[c].writes
  <1>1. Queue \in Docs /\ p \in Plans /\ Plan(p) \in Docs /\ Idea(p) \in Docs /\ Policy \in Docs
    BY Keys DEF Prepared
  <1>2. V \subseteq Docs
    <2>1. V \subseteq {Plan(cmd[c].plan), Idea(cmd[c].plan), Queue, Policy} /\ cmd[c].plan \in Plans
      BY WritesFew DEF Prepared
    <2> QED
      BY <2>1, Keys
  <1>3. Past(m, d)
    <2> SUFFICES ASSUME NEW k \in DOMAIN m.expect
                 PROVE  k \in Docs /\ m.expect[k] \in Nat /\ m.expect[k] <= d[k].rev
      BY DEF Past
    <2>1. k \in Docs /\ m.expect[k] \in Nat /\ m.expect[k] <= docs[k].rev /\ docs[k].rev \in Nat
      BY DEF Prepared, Past, Good
    <2>2. d[k].rev \in {docs[k].rev, docs[k].rev + 1}
      BY <2>1, AfterIs
    <2> HIDE DEF d
    <2> QED
      BY <2>1, <2>2
  <1>4. Left(m, d[Idea(p)].val)
    <2>1. Left(m, docs[Idea(p)].val)
      BY DEF Prepared
    <2>2. docs[Idea(p)].val = "dismissed" => d[Idea(p)].val = "dismissed"
      BY <1>1 DEF MayTurn
    <2> QED
      BY <2>1, <2>2 DEF Left
  <1>5. ASSUME Fits(m, d)
        PROVE  Seen(m, d[Queue].val, d[Plan(p)].val.state, d[Idea(p)].val)
    <2>1. Past(m, docs) /\ DOMAIN m.expect = DOMAIN m.writes
      BY DEF Prepared
    <2>2. /\ Fits(m, docs)
          /\ \A k \in DOMAIN m.writes : k \notin V /\ d[k] = docs[k]
      BY <1>2, <1>5, <2>1, Apart
    <2>3. Seen(m, docs[Queue].val, docs[Plan(p)].val.state, docs[Idea(p)].val)
      BY <2>2 DEF Prepared
    <2>4. Shape(m, DOMAIN m.writes, Plan(p), Idea(p)) /\ m.op \in Ops
      BY DEF Prepared
    <2>5. Queue \in DOMAIN m.writes => d[Queue] = docs[Queue] /\ Queue \notin V
      BY <2>2
    <2>6. m.op \in {"refresh", "close"} => d[Plan(p)] = docs[Plan(p)]
      <3>1. m.op \in {"refresh", "close"} => Plan(p) \in DOMAIN m.writes
        BY <2>4 DEF Shape
      <3> QED
        BY <2>2, <3>1
    <2>7. m.op = "qualify" => d[Idea(p)] = docs[Idea(p)]
      <3>1. m.op = "qualify" => Idea(p) \in DOMAIN m.writes
        BY <2>4 DEF Shape
      <3> QED
        BY <2>2, <3>1
    <2>8. m.op \in Placing => d[Plan(p)].val.state = "queued" /\ Queue \in DOMAIN m.writes
      <3>1. m.op \in Placing => Queue \in DOMAIN m.writes /\ docs[Plan(p)].val.state = "queued"
        BY <2>3, <2>4 DEF Shape, Seen
      <3> QED
        BY <1>1, <2>5, <3>1, StaysQueued
    <2>9. m.op \in {"remove", "admit"} => Queue \in DOMAIN m.writes
      BY <2>4 DEF Shape
    <2> HIDE DEF d, p
    <2> QED
      BY <2>3, <2>5, <2>6, <2>7, <2>8, <2>9 DEF Seen, Placing
  <1> QED
    BY <1>3, <1>4, <1>5 DEF Prepared

-----------------------------------------------------------------------------
(* Preparing a command                                                     *)

LEMMA CommandIs ==
  ASSUME Good(docs), NEW op, NEW p, NEW writes, DOMAIN writes \subseteq Docs
  PROVE  LET m == Command(op, p, writes)
         IN  /\ m.op = op /\ m.plan = p /\ m.writes = writes /\ IsRecord(m)
             /\ DOMAIN m.expect = DOMAIN writes /\ Past(m, docs)
  <1> DEFINE m == Command(op, p, writes)
  <1>1. m.op = op /\ m.plan = p /\ m.writes = writes /\ IsRecord(m)
    BY DEF Command, IsRecord, NoBattle
  <1>2. m.expect = [k \in DOMAIN writes |-> docs[k].rev]
    BY DEF Command
  <1>3. Past(m, docs)
    BY <1>2 DEF Past, Good
  <1> QED
    BY <1>1, <1>2, <1>3

\* Two commands that differ in what is not said of their operation.
LEMMA AlikeIs ==
  ASSUME NEW m, NEW n, NEW d, Prepared(m, d), IsRecord(n), n.op = m.op, n.plan = m.plan,
         n.writes = m.writes, n.expect = m.expect, m.op # "battle"
  PROVE  Prepared(n, d)
  BY DEF Prepared, Shape, Past, Ranking, Left, Fits, Seen

LEMMA QualifyIs ==
  ASSUME QueueInv, NEW c \in Clients, NEW p \in Plans, Qualify(c, p)
  PROVE  \E m : Begin(c, m) /\ Prepared(m, docs)
  <1> DEFINE a == Value(Plan(p), [state |-> "queued", pins |-> Pins(p, findings)])
             b == Value(Idea(p), "qualified")
             w == Both(a, b)
             m == Command("qualify", p, w)
  <1>1. Begin(c, m) /\ docs[Idea(p)].val = "proposed"
    BY DEF Qualify
  <1>2. /\ DOMAIN a = {Plan(p)} /\ a[Plan(p)].state = "queued"
        /\ DOMAIN b = {Idea(p)} /\ b[Idea(p)] = "qualified"
    <2>1. /\ DOMAIN a = {Plan(p)} /\ a[Plan(p)] = [state |-> "queued", pins |-> Pins(p, findings)]
          /\ DOMAIN b = {Idea(p)} /\ b[Idea(p)] = "qualified"
      BY ValueIs
    <2> HIDE DEF a, b
    <2> QED
      BY <2>1
  <1>3. Plan(p) # Idea(p) /\ Plan(p) \in Docs /\ Idea(p) \in Docs
    BY Keys
  <1> HIDE DEF a, b
  <1>4. /\ DOMAIN w = {Plan(p), Idea(p)} /\ w[Plan(p)].state = "queued"
        /\ w[Idea(p)] = "qualified"
    <2>1. /\ DOMAIN w = DOMAIN a \cup DOMAIN b
          /\ \A x \in DOMAIN a : w[x] = a[x]
          /\ \A x \in DOMAIN b : x \notin DOMAIN a => w[x] = b[x]
      BY BothIs
    <2> QED
      BY <1>2, <1>3, <2>1
  <1> HIDE DEF w
  <1>5. /\ m.op = "qualify" /\ m.plan = p /\ m.writes = w /\ IsRecord(m)
        /\ DOMAIN m.expect = DOMAIN w /\ Past(m, docs)
    BY <1>3, <1>4, CommandIs DEF QueueInv
  <1> HIDE DEF m
  <1>6. Prepared(m, docs)
    BY <1>1, <1>4, <1>5 DEF Prepared, Shape, Seen, Left, Ranking, Ops, Placing
  <1> QED
    BY <1>1, <1>6

LEMMA DismissIs ==
  ASSUME QueueInv, NEW c \in Clients, NEW p \in Plans, Dismiss(c, p)
  PROVE  \E m : Begin(c, m) /\ Prepared(m, docs)
  <1> DEFINE w == Value(Idea(p), "dismissed")
             m == Command("dismiss", p, w)
  <1>1. Begin(c, m)
    BY DEF Dismiss
  <1>2. DOMAIN w = {Idea(p)} /\ w[Idea(p)] = "dismissed" /\ Idea(p) \in Docs
    BY ValueIs, Keys
  <1> HIDE DEF w
  <1>3. /\ m.op = "dismiss" /\ m.plan = p /\ m.writes = w /\ IsRecord(m)
        /\ DOMAIN m.expect = DOMAIN w /\ Past(m, docs)
    BY <1>2, CommandIs DEF QueueInv
  <1> HIDE DEF m
  <1>4. Prepared(m, docs)
    BY <1>2, <1>3 DEF Prepared, Shape, Seen, Left, Ranking, Ops, Placing
  <1> QED
    BY <1>1, <1>4

LEMMA SetPolicyIs ==
  ASSUME Lined, QueueInv, NEW c \in Clients, SetPolicy(c)
  PROVE  \E m : Begin(c, m) /\ Prepared(m, docs)
  <1>1. PICK value : Begin(c, Command("policy", Underway, Value(Policy, value)))
    BY DEF SetPolicy
  <1> DEFINE w == Value(Policy, value)
             m == Command("policy", Underway, w)
  <1>2. DOMAIN w = {Policy} /\ Policy \in Docs
    BY ValueIs, Keys
  <1> HIDE DEF w
  <1>3. /\ m.op = "policy" /\ m.plan = Underway /\ m.writes = w /\ IsRecord(m)
        /\ DOMAIN m.expect = DOMAIN w /\ Past(m, docs)
    BY <1>2, CommandIs DEF QueueInv
  <1>4. Begin(c, m)
    BY <1>1 DEF w
  <1> HIDE DEF m
  <1>5. Prepared(m, docs)
    BY <1>2, <1>3 DEF Prepared, Shape, Seen, Left, Ranking, Ops, Placing, Lined
  <1> QED
    BY <1>4, <1>5

LEMMA RefreshBegins ==
  ASSUME QueueInv, NEW c \in Clients, NEW p \in Plans, Refresh(c, p)
  PROVE  \E m : Begin(c, m) /\ Prepared(m, docs)
  <1> DEFINE w == RefreshWrites(p)
             W == DOMAIN w
             q == docs[Queue].val
             m == Command("refresh", p, w)
             n == [m EXCEPT !.stale = TRUE]
  <1>1. Begin(c, n) /\ docs[Plan(p)].val.state = "queued"
    BY DEF Refresh
  <1>2. /\ Plan(p) \in W /\ W \subseteq {Plan(p), Idea(p), Queue}
        /\ w[Plan(p)].state = "queued"
        /\ Queue \in W <=> p \in Listed(q)
        /\ p \in Listed(q) => w[Queue] = Without(q, p)
        /\ Idea(p) \in W <=> docs[Idea(p)].val = "queued"
        /\ Idea(p) \in W => w[Idea(p)] = "qualified"
    <2>1. w[Plan(p)] = [state |-> "queued", pins |-> Pins(p, findings)]
      BY RefreshIs
    <2>2. w[Plan(p)].state = "queued"
      <3> HIDE DEF w
      <3> QED
        BY <2>1
    <2> QED
      BY <2>2, RefreshIs
  <1>3. Plan(p) \in Docs /\ Idea(p) \in Docs /\ Queue \in Docs
    BY Keys
  <1>4. Line(q) /\ Proper(p, Listed(q), docs[Plan(p)].val.state, docs[Idea(p)].val)
    BY DEF QueueInv, Good
  <1>5. p \in Listed(q) => Line(w[Queue]) /\ Listed(w[Queue]) = Listed(q) \ {p}
    BY <1>2, <1>4, WithoutIs
  <1> HIDE DEF w, q
  <1>6. /\ m.op = "refresh" /\ m.plan = p /\ m.writes = w /\ IsRecord(m)
        /\ DOMAIN m.expect = DOMAIN w /\ Past(m, docs)
    BY <1>2, <1>3, CommandIs DEF QueueInv
  <1> HIDE DEF m
  <1>7. Shape(m, W, Plan(p), Idea(p))
    BY <1>1, <1>2, <1>4, <1>6 DEF Shape, Placing, Proper
  <1>8. Seen(m, q, docs[Plan(p)].val.state, docs[Idea(p)].val)
    BY <1>1, <1>2, <1>5, <1>6 DEF Seen, Placing
  <1>9. Left(m, docs[Idea(p)].val)
    BY <1>2, <1>4, <1>6 DEF Left, Proper
  <1>10. Prepared(m, docs)
    BY <1>6, <1>7, <1>8, <1>9 DEF Prepared, Ranking, Ops, q
  <1>11. /\ n.op = m.op /\ n.plan = m.plan /\ n.writes = m.writes /\ n.expect = m.expect
         /\ IsRecord(n)
    BY <1>6 DEF IsRecord
  <1>12. Prepared(n, docs)
    BY <1>6, <1>10, <1>11, AlikeIs
  <1> QED
    BY <1>1, <1>12

\* The Idea of a Plan that may be inserted is qualified, or was dismissed.
LEMMA InsertableIs ==
  ASSUME QueueInv, NEW p \in Plans, Insertable(p), NEW pinned \in BOOLEAN
  PROVE  LET e == Entry(p, docs[Plan(p)].rev, pinned)
             u == QueuedIdea(p)
         IN  /\ docs[Plan(p)].val.state = "queued" /\ p \notin Listed(docs[Queue].val)
             /\ Line(docs[Queue].val) /\ e \in EntryType /\ e.plan = p
             /\ \/ DOMAIN u = {Idea(p)} /\ u[Idea(p)] = "queued"
                \/ DOMAIN u = {} /\ docs[Idea(p)].val = "dismissed"
  <1>1. docs[Plan(p)].val.state = "queued" /\ p \notin Listed(docs[Queue].val)
    BY DEF Insertable
  <1>2. Line(docs[Queue].val)
    BY DEF QueueInv, Good
  <1>3. Plan(p) \in Docs /\ docs[Plan(p)].rev \in Nat
    BY Keys DEF QueueInv, Good
  <1>4. Proper(p, Listed(docs[Queue].val), docs[Plan(p)].val.state, docs[Idea(p)].val)
    BY DEF QueueInv, Good
  <1>5. CASE docs[Idea(p)].val = "qualified"
    <2>1. QueuedIdea(p) = Value(Idea(p), "queued")
      BY <1>5 DEF QueuedIdea
    <2>2. DOMAIN QueuedIdea(p) = {Idea(p)} /\ QueuedIdea(p)[Idea(p)] = "queued"
      BY <2>1, ValueIs
    <2> QED
      BY <1>1, <1>2, <1>3, <2>2 DEF Entry, EntryType
  <1>6. CASE docs[Idea(p)].val # "qualified"
    <2>1. QueuedIdea(p) = <<>> /\ DOMAIN QueuedIdea(p) = {}
      BY <1>6 DEF QueuedIdea
    <2>2. docs[Idea(p)].val = "dismissed"
      BY <1>1, <1>4, <1>6 DEF Proper
    <2> QED
      BY <1>1, <1>2, <1>3, <2>1, <2>2 DEF Entry, EntryType
  <1> QED
    BY <1>5, <1>6

LEMMA InsertIs ==
  ASSUME QueueInv, NEW c \in Clients, NEW p \in Plans, NEW pinned \in BOOLEAN, Insert(c, p, pinned)
  PROVE  \E m : Begin(c, m) /\ Prepared(m, docs)
  <1>1. PICK n \in Positions(p) : Begin(c, Command("insert", p, InsertWrites(p, n, pinned)))
    BY DEF Insert
  <1> DEFINE q == docs[Queue].val
             e == Entry(p, docs[Plan(p)].rev, pinned)
             u == QueuedIdea(p)
             v == Value(Queue, Place(q, n, e))
             w == Both(v, u)
             W == DOMAIN w
             m == Command("insert", p, w)
  <1>2. Begin(c, m)
    BY <1>1 DEF InsertWrites
  <1>3. /\ docs[Plan(p)].val.state = "queued" /\ p \notin Listed(q)
        /\ Line(q) /\ e \in EntryType /\ e.plan = p
        /\ \/ DOMAIN u = {Idea(p)} /\ u[Idea(p)] = "queued"
           \/ DOMAIN u = {} /\ docs[Idea(p)].val = "dismissed"
    BY InsertableIs DEF Insert
  <1>4. n \in 0 .. Len(q)
    BY <1>1 DEF Positions
  <1> HIDE DEF q, e, u
  <1>5. Line(Place(q, n, e)) /\ Listed(Place(q, n, e)) = Listed(q) \cup {p}
    BY <1>3, <1>4, EntersIs
  <1>6. DOMAIN v = {Queue} /\ v[Queue] = Place(q, n, e)
    BY ValueIs
  <1> HIDE DEF v
  <1>7. /\ W = DOMAIN v \cup DOMAIN u
        /\ \A x \in DOMAIN v : w[x] = v[x]
        /\ \A x \in DOMAIN u : x \notin DOMAIN v => w[x] = u[x]
    BY BothIs
  <1>8. Queue \in Docs /\ Idea(p) \in Docs /\ Idea(p) # Queue
    BY Keys
  <1> HIDE DEF w
  <1>9. /\ Queue \in W /\ W \subseteq {Idea(p), Queue} /\ w[Queue] = Place(q, n, e)
        /\ Idea(p) \in W => w[Idea(p)] = "queued"
        /\ Idea(p) \notin W => docs[Idea(p)].val = "dismissed"
    BY <1>3, <1>6, <1>7, <1>8
  <1>10. /\ m.op = "insert" /\ m.plan = p /\ m.writes = w /\ IsRecord(m)
         /\ DOMAIN m.expect = DOMAIN w /\ Past(m, docs)
    BY <1>8, <1>9, CommandIs DEF QueueInv
  <1> HIDE DEF m
  <1>11. Shape(m, W, Plan(p), Idea(p))
    BY <1>9, <1>10 DEF Shape, Placing
  <1>12. Seen(m, q, docs[Plan(p)].val.state, docs[Idea(p)].val)
    BY <1>3, <1>5, <1>9, <1>10 DEF Seen, Placing
  <1>13. Left(m, docs[Idea(p)].val)
    BY <1>9, <1>10 DEF Left
  <1>14. Prepared(m, docs)
    BY <1>10, <1>11, <1>12, <1>13 DEF Prepared, Ranking, Ops, q
  <1> QED
    BY <1>2, <1>14

\* An agent is shown the Queue and the Plan, and ranks the Plan among the others.
LEMMA ShownIs ==
  ASSUME NEW q, Line(q), NEW e \in EntryType, e.plan \notin Listed(q), NEW n \in 0 .. Len(q)
  PROVE  LET asked == Append(q, e)
             order == Place(Ranks(q), n, e.plan)
         IN  /\ Line(asked) /\ Listed(asked) = Listed(q) \cup {e.plan}
             /\ n + 1 \in DOMAIN order /\ Orders(order, Listed(asked))
  <1> DEFINE asked == Append(q, e)
             plans == Ranks(q)
             order == Place(plans, n, e.plan)
             placed == Place(q, n, e)
  <1>0. /\ q \in Seq(EntryType) /\ Len(q) \in Nat /\ DOMAIN q = 1 .. Len(q) /\ Distinct(q)
        /\ \A i \in DOMAIN q : q[i] \in EntryType /\ q[i].plan \in Plans
    BY LineIs DEF Line
  <1>1. e.plan \in Plans
    BY DEF EntryType
  <1>2. plans \in Seq(Plans) /\ Len(plans) = Len(q)
    BY <1>0 DEF Ranks
  <1>3. \A i \in 1 .. Len(q) : plans[i] = q[i].plan
    BY <1>0 DEF Ranks
  <1> HIDE DEF plans
  <1>4. /\ order \in Seq(Plans) /\ Len(order) = Len(q) + 1
        /\ \A i \in 1 .. Len(q) + 1 : /\ i <= n => order[i] = plans[i]
                                      /\ i = n + 1 => order[i] = e.plan
                                      /\ i > n + 1 => order[i] = plans[i - 1]
    <2>1. n \in 0 .. Len(plans)
      BY <1>2
    <2>2. order \in Seq(Plans)
      BY <1>1, <1>2, <2>1, PlaceIs
    <2>3. Len(order) = Len(plans) + 1
      BY <1>1, <1>2, <2>1, PlaceIs
    <2>4. ASSUME NEW i \in 1 .. Len(plans) + 1
          PROVE  /\ i <= n => order[i] = plans[i]
                 /\ i = n + 1 => order[i] = e.plan
                 /\ i > n + 1 => order[i] = plans[i - 1]
      <3> DEFINE x == e.plan
      <3>1. plans \in Seq(Plans) /\ n \in 0 .. Len(plans) /\ x \in Plans
        BY <1>1, <1>2, <2>1
      <3> HIDE DEF x
      <3>2. /\ i <= n => Place(plans, n, x)[i] = plans[i]
            /\ i = n + 1 => Place(plans, n, x)[i] = x
            /\ i > n + 1 => Place(plans, n, x)[i] = plans[i - 1]
        BY <1>2, <3>1, PlaceAt
      <3> QED
        BY <3>2 DEF x
    <2> QED
      BY <1>2, <2>2, <2>3, <2>4
  <1>5. /\ placed \in Seq(EntryType) /\ Len(placed) = Len(q) + 1
        /\ \A i \in 1 .. Len(q) + 1 : /\ i <= n => placed[i] = q[i]
                                      /\ i = n + 1 => placed[i] = e
                                      /\ i > n + 1 => placed[i] = q[i - 1]
    <2>1. placed \in Seq(EntryType)
      BY <1>0, PlaceIs
    <2>2. Len(placed) = Len(q) + 1
      BY <1>0, PlaceIs
    <2>3. ASSUME NEW i \in 1 .. Len(q) + 1
          PROVE  /\ i <= n => placed[i] = q[i]
                 /\ i = n + 1 => placed[i] = e
                 /\ i > n + 1 => placed[i] = q[i - 1]
      <3>1. q \in Seq(EntryType) /\ n \in 0 .. Len(q) /\ e \in EntryType
        BY <1>0
      <3> QED
        BY <3>1, PlaceIs
    <2> QED
      BY <2>1, <2>2, <2>3
  <1>6. Distinct(placed) /\ Listed(placed) = Listed(q) \cup {e.plan}
    BY EntersIs DEF Line
  <1> HIDE DEF order, placed
  <1>7. DOMAIN order = 1 .. Len(q) + 1 /\ DOMAIN placed = 1 .. Len(q) + 1 /\ n + 1 \in DOMAIN order
    <2>1. DOMAIN order = 1 .. Len(q) + 1 /\ DOMAIN placed = 1 .. Len(q) + 1
      BY <1>4, <1>5, LenProperties
    <2> QED
      BY <1>0, <2>1
  <1>8. ASSUME NEW i \in DOMAIN order PROVE order[i] = placed[i].plan
    <2>1. CASE i <= n
      BY <1>0, <1>3, <1>4, <1>5, <1>7, <2>1
    <2>2. CASE i = n + 1
      BY <1>4, <1>5, <1>7, <2>2
    <2>3. CASE i > n + 1
      <3>1. i - 1 \in 1 .. Len(q)
        BY <1>0, <1>7, <2>3
      <3> QED
        BY <1>3, <1>4, <1>5, <1>7, <2>3, <3>1
    <2>4. i <= n \/ i = n + 1 \/ i > n + 1
      BY <1>0, <1>7
    <2> QED
      BY <2>1, <2>2, <2>3, <2>4
  <1>9. \A i, k \in DOMAIN order : order[i] = order[k] => i = k
    BY <1>6, <1>7, <1>8 DEF Distinct
  <1>10. {order[i] : i \in DOMAIN order} = Listed(q) \cup {e.plan}
    <2>1. {order[i] : i \in DOMAIN order} = Listed(placed)
      BY <1>7, <1>8 DEF Listed
    <2> QED
      BY <1>6, <2>1
  <1>11. Line(asked) /\ Listed(asked) = Listed(q) \cup {e.plan}
    <2>1. /\ asked \in Seq(EntryType) /\ Len(asked) = Len(q) + 1
          /\ \A i \in 1 .. Len(q) : asked[i] = q[i]
          /\ asked[Len(q) + 1] = e
      BY <1>0, AppendProperties
    <2>2. DOMAIN asked = 1 .. Len(q) + 1
      BY <2>1, LenProperties
    <2> HIDE DEF asked
    <2>3. Distinct(asked)
      <3> SUFFICES ASSUME NEW i \in DOMAIN asked, NEW k \in DOMAIN asked, asked[i].plan = asked[k].plan
                   PROVE  i = k
        BY DEF Distinct
      <3>1. i \in 1 .. Len(q) \/ i = Len(q) + 1
        BY <1>0, <2>2
      <3>2. k \in 1 .. Len(q) \/ k = Len(q) + 1
        BY <1>0, <2>2
      <3> QED
        BY <1>0, <2>1, <3>1, <3>2 DEF Distinct, Listed
    <2>4. ASSUME NEW x \in Listed(asked) PROVE x \in Listed(q) \cup {e.plan}
      <3>1. PICK i \in DOMAIN asked : x = asked[i].plan
        BY DEF Listed
      <3>2. i \in 1 .. Len(q) \/ i = Len(q) + 1
        BY <1>0, <2>2
      <3> QED
        BY <1>0, <2>1, <3>1, <3>2 DEF Listed
    <2>5. ASSUME NEW x \in Listed(q) PROVE x \in Listed(asked)
      <3>1. PICK i \in DOMAIN q : x = q[i].plan
        BY DEF Listed
      <3>2. i \in DOMAIN asked /\ asked[i] = q[i]
        BY <1>0, <2>1, <2>2
      <3> QED
        BY <3>1, <3>2 DEF Listed
    <2>6. e.plan \in Listed(asked)
      <3>1. Len(q) + 1 \in DOMAIN asked
        BY <1>0, <2>2
      <3> QED
        BY <2>1, <3>1 DEF Listed
    <2> QED
      BY <2>1, <2>3, <2>4, <2>5, <2>6 DEF Line
  <1> QED
    BY <1>4, <1>7, <1>9, <1>10, <1>11 DEF order, plans, Orders

LEMMA AdviseIs ==
  ASSUME QueueInv, NEW c \in Clients, NEW p \in Plans, NEW pinned \in BOOLEAN, Advise(c, p, pinned)
  PROVE  \E m : Begin(c, m) /\ Prepared(m, docs)
  <1> DEFINE q == docs[Queue].val
             e == Entry(p, docs[Plan(p)].rev, pinned)
             u == QueuedIdea(p)
             v == Value(Queue, q)
             w == Both(u, v)
             W == DOMAIN w
             shown == Append(q, e)
  <1>1. PICK n \in 0 .. Len(q), ties \in BOOLEAN :
          Begin(c, [Command("battle", p, w) EXCEPT
                      !.rank = [order |-> Place(Ranks(q), n, p),
                                at |-> n + 1, up |-> TRUE, audits |-> <<>>, ties |-> ties],
                      !.asked = shown])
    BY DEF Advise
  <1> DEFINE order == Place(Ranks(q), n, p)
             rank == [order |-> order, at |-> n + 1, up |-> TRUE, audits |-> <<>>, ties |-> ties]
             m == Command("battle", p, w)
             b == [m EXCEPT !.rank = rank, !.asked = shown]
  <1>2. Begin(c, b)
    BY <1>1
  <1>3. /\ docs[Plan(p)].val.state = "queued" /\ p \notin Listed(q)
        /\ Line(q) /\ e \in EntryType /\ e.plan = p
        /\ \/ DOMAIN u = {Idea(p)} /\ u[Idea(p)] = "queued"
           \/ DOMAIN u = {} /\ docs[Idea(p)].val = "dismissed"
    BY InsertableIs DEF Advise
  <1> HIDE DEF q, e, u
  <1>4. /\ Line(shown) /\ Listed(shown) = Listed(q) \cup {p}
        /\ n + 1 \in DOMAIN order /\ Orders(order, Listed(shown))
    <2>1. n \in 0 .. Len(q)
      BY DEF q
    <2>2. order = Place(Ranks(q), n, e.plan)
      BY <1>3
    <2> HIDE DEF order, shown
    <2>3. /\ Line(Append(q, e)) /\ Listed(Append(q, e)) = Listed(q) \cup {e.plan}
          /\ n + 1 \in DOMAIN order
          /\ Orders(order, Listed(Append(q, e)))
      BY <1>3, <2>1, <2>2, ShownIs
    <2> QED
      BY <1>3, <2>3 DEF shown
  <1>5. DOMAIN v = {Queue}
    BY ValueIs
  <1> HIDE DEF v, shown, order
  <1>6. /\ W = DOMAIN u \cup DOMAIN v
        /\ \A x \in DOMAIN u : w[x] = u[x]
    BY BothIs
  <1>7. Queue \in Docs /\ Idea(p) \in Docs /\ Idea(p) # Queue
    BY Keys
  <1> HIDE DEF w
  <1>8. /\ Queue \in W /\ W \subseteq {Idea(p), Queue}
        /\ Idea(p) \in W => w[Idea(p)] = "queued"
        /\ Idea(p) \notin W => docs[Idea(p)].val = "dismissed"
    BY <1>3, <1>5, <1>6, <1>7
  <1>9. /\ m.op = "battle" /\ m.plan = p /\ m.writes = w /\ IsRecord(m)
        /\ DOMAIN m.expect = DOMAIN w /\ Past(m, docs)
    BY <1>7, <1>8, CommandIs DEF QueueInv
  <1> HIDE DEF m
  <1>10. /\ b.op = "battle" /\ b.plan = p /\ b.writes = w /\ b.expect = m.expect
         /\ b.rank = rank /\ b.asked = shown /\ IsRecord(b)
    BY <1>9 DEF IsRecord
  <1>11. rank.order = order /\ rank.at = n + 1
    OBVIOUS
  <1> HIDE DEF b, rank
  <1>12. Shape(b, W, Plan(p), Idea(p))
    BY <1>8, <1>10 DEF Shape, Placing
  <1>13. Seen(b, q, docs[Plan(p)].val.state, docs[Idea(p)].val)
    BY <1>3, <1>4, <1>8, <1>10 DEF Seen, Placing
  <1>14. Left(b, docs[Idea(p)].val)
    BY <1>8, <1>10 DEF Left
  <1>15. Ranking(b)
    <2>1. b.rank.order = order /\ b.rank.at = n + 1 /\ b.asked = shown
      BY <1>10, <1>11
    <2> QED
      BY <1>4, <2>1 DEF Ranking
  <1>16. Past(b, docs)
    BY <1>9, <1>10 DEF Past
  <1>17. Prepared(b, docs)
    BY <1>9, <1>10, <1>12, <1>13, <1>14, <1>15, <1>16 DEF Prepared, Ops, q
  <1> QED
    BY <1>2, <1>17

LEMMA RemoveIs ==
  ASSUME QueueInv, NEW c \in Clients, NEW p \in Plans, Remove(c, p)
  PROVE  \E m : Begin(c, m) /\ Prepared(m, docs)
  <1> DEFINE q == docs[Queue].val
             v == Value(Queue, Without(q, p))
             u == Requalified(p)
             w == Both(v, u)
             W == DOMAIN w
             m == Command("remove", p, w)
  <1>1. Begin(c, m) /\ p \in Listed(q)
    BY DEF Remove
  <1>2. Line(q) /\ Proper(p, Listed(q), docs[Plan(p)].val.state, docs[Idea(p)].val)
    BY DEF QueueInv, Good
  <1>3. Line(Without(q, p)) /\ Listed(Without(q, p)) = Listed(q) \ {p}
    BY <1>1, <1>2, WithoutIs
  <1>4. DOMAIN v = {Queue} /\ v[Queue] = Without(q, p)
    BY ValueIs
  <1>5. /\ docs[Idea(p)].val = "queued" => DOMAIN u = {Idea(p)} /\ u[Idea(p)] = "qualified"
        /\ docs[Idea(p)].val # "queued" => DOMAIN u = {}
    BY RequalifiedIs
  <1> HIDE DEF u, v, q
  <1>6. /\ W = DOMAIN v \cup DOMAIN u
        /\ \A x \in DOMAIN v : w[x] = v[x]
        /\ \A x \in DOMAIN u : x \notin DOMAIN v => w[x] = u[x]
    BY BothIs
  <1>7. Queue \in Docs /\ Idea(p) \in Docs /\ Idea(p) # Queue
    BY Keys
  <1> HIDE DEF w
  <1>8. /\ Queue \in W /\ W \subseteq {Idea(p), Queue} /\ w[Queue] = Without(q, p)
        /\ Idea(p) \in W => w[Idea(p)] = "qualified"
        /\ Idea(p) \notin W => docs[Idea(p)].val = "dismissed"
    BY <1>1, <1>2, <1>4, <1>5, <1>6, <1>7 DEF Proper
  <1>9. /\ m.op = "remove" /\ m.plan = p /\ m.writes = w /\ IsRecord(m)
        /\ DOMAIN m.expect = DOMAIN w /\ Past(m, docs)
    BY <1>7, <1>8, CommandIs DEF QueueInv
  <1> HIDE DEF m
  <1>10. Shape(m, W, Plan(p), Idea(p))
    BY <1>8, <1>9 DEF Shape, Placing
  <1>11. Seen(m, q, docs[Plan(p)].val.state, docs[Idea(p)].val)
    BY <1>1, <1>3, <1>8, <1>9 DEF Seen, Placing
  <1>12. Left(m, docs[Idea(p)].val)
    BY <1>8, <1>9 DEF Left
  <1>13. Prepared(m, docs)
    BY <1>9, <1>10, <1>11, <1>12 DEF Prepared, Ranking, Ops, q
  <1> QED
    BY <1>1, <1>13

LEMMA AdmitIs ==
  ASSUME QueueInv, NEW c \in Clients, Admit(c)
  PROVE  \E m : Begin(c, m) /\ Prepared(m, docs)
  <1> DEFINE q == docs[Queue].val
  <1>1. PICK p \in Eligible : Begin(c, Command("admit", p, AdmitWrites(p)))
    BY DEF Admit
  <1>2. Line(q)
    BY DEF QueueInv, Good
  <1>3. /\ 1 \in DOMAIN q /\ q[1].plan = p /\ p \in Plans /\ docs[Plan(p)].val.state = "queued"
    <2>1. \E x \in Frontier : p = x.plan
      BY DEF Eligible
    <2>2. 1 \in DOMAIN q /\ p = q[1].plan
      BY <2>1 DEF Frontier
    <2> QED
      BY <1>2, <2>2, LineIs DEF Eligible
  <1>4. q # <<>>
    BY <1>2, <1>3, LineIs, EmptySeq
  <1> DEFINE a == [state |-> "started", pins |-> docs[Plan(p)].val.pins]
             v == Value(Plan(p), a)
             u == Value(Queue, Tail(q))
             w == Both(v, u)
             W == DOMAIN w
             m == Command("admit", p, w)
  <1>5. Begin(c, m)
    BY <1>1 DEF AdmitWrites
  <1>6. Line(Tail(q)) /\ Listed(Tail(q)) = Listed(q) \ {p} /\ p \in Listed(q)
    BY <1>2, <1>3, <1>4, TailIs
  <1>7. a.state = "started"
    OBVIOUS
  <1> HIDE DEF q, a
  <1>8. DOMAIN v = {Plan(p)} /\ v[Plan(p)] = a /\ DOMAIN u = {Queue} /\ u[Queue] = Tail(q)
    BY ValueIs
  <1> HIDE DEF u, v
  <1>9. /\ W = DOMAIN v \cup DOMAIN u
        /\ \A x \in DOMAIN v : w[x] = v[x]
        /\ \A x \in DOMAIN u : x \notin DOMAIN v => w[x] = u[x]
    BY BothIs
  <1>10. Queue \in Docs /\ Plan(p) \in Docs /\ Plan(p) # Queue
    BY <1>3, Keys
  <1> HIDE DEF w
  <1>11. W = {Plan(p), Queue} /\ w[Plan(p)].state = "started" /\ w[Queue] = Tail(q)
    BY <1>7, <1>8, <1>9, <1>10
  <1>12. /\ m.op = "admit" /\ m.plan = p /\ m.writes = w /\ IsRecord(m)
         /\ DOMAIN m.expect = DOMAIN w /\ Past(m, docs)
    BY <1>10, <1>11, CommandIs DEF QueueInv
  <1> HIDE DEF m
  <1>13. Shape(m, W, Plan(p), Idea(p))
    BY <1>11, <1>12 DEF Shape, Placing
  <1>14. Seen(m, q, docs[Plan(p)].val.state, docs[Idea(p)].val)
    BY <1>6, <1>11, <1>12 DEF Seen, Placing
  <1>15. Prepared(m, docs)
    BY <1>3, <1>12, <1>13, <1>14 DEF Prepared, Left, Ranking, Ops, Placing, q
  <1> QED
    BY <1>5, <1>15

LEMMA CloseIs ==
  ASSUME QueueInv, NEW c \in Clients, NEW p \in Plans, Close(c, p)
  PROVE  \E m : Begin(c, m) /\ Prepared(m, docs)
  <1> DEFINE a == [state |-> "completed", pins |-> docs[Plan(p)].val.pins]
             w == Value(Plan(p), a)
             W == DOMAIN w
             m == Command("close", p, w)
  <1>1. PICK finding \in Conclusions(p) :
          Begin(c, [m EXCEPT !.finding = finding, !.stale = TRUE])
    BY DEF Close
  <1> DEFINE n == [m EXCEPT !.finding = finding, !.stale = TRUE]
  <1>2. Begin(c, n) /\ docs[Plan(p)].val.state = "started"
    BY <1>1 DEF Close
  <1>3. a.state = "completed"
    OBVIOUS
  <1> HIDE DEF a
  <1>4. W = {Plan(p)} /\ w[Plan(p)] = a
    BY ValueIs
  <1>5. Plan(p) \in Docs
    BY Keys
  <1> HIDE DEF w
  <1>6. /\ m.op = "close" /\ m.plan = p /\ m.writes = w /\ IsRecord(m)
        /\ DOMAIN m.expect = DOMAIN w /\ Past(m, docs)
    BY <1>4, <1>5, CommandIs DEF QueueInv
  <1> HIDE DEF m
  <1>7. Shape(m, W, Plan(p), Idea(p))
    BY <1>3, <1>4, <1>6 DEF Shape, Placing
  <1>8. Seen(m, docs[Queue].val, docs[Plan(p)].val.state, docs[Idea(p)].val)
    BY <1>2, <1>6 DEF Seen, Placing
  <1>9. Prepared(m, docs)
    BY <1>6, <1>7, <1>8 DEF Prepared, Left, Ranking, Ops, Placing
  <1>10. /\ n.op = m.op /\ n.plan = m.plan /\ n.writes = m.writes /\ n.expect = m.expect
         /\ IsRecord(n)
    BY <1>6 DEF IsRecord
  <1>11. Prepared(n, docs)
    BY <1>6, <1>9, <1>10, AlikeIs
  <1> QED
    BY <1>2, <1>11

-----------------------------------------------------------------------------
(* Battles                                                                 *)

\* A battle won moves the Plan one place.
LEMMA SwapIs ==
  ASSUME NEW S, NEW order, Orders(order, S), NEW i \in DOMAIN order, NEW k \in DOMAIN order
  PROVE  Orders(Switch(order, i, k), S) /\ DOMAIN Switch(order, i, k) = DOMAIN order
  <1> DEFINE new == Switch(order, i, k)
             from(x) == IF x = i THEN k ELSE IF x = k THEN i ELSE x
  <1>1. /\ order \in Seq(Plans) /\ Len(order) \in Nat /\ DOMAIN order = 1 .. Len(order)
        /\ \A x \in DOMAIN order : order[x] \in Plans
    <2>1. order \in Seq(Plans)
      BY DEF Orders
    <2>2. Len(order) \in Nat /\ DOMAIN order = 1 .. Len(order)
      BY <2>1, LenProperties
    <2> QED
      BY <2>1, <2>2, ElementOfSeq
  <1>2. new \in Seq(Plans) /\ DOMAIN new = DOMAIN order
    <2>1. [order EXCEPT ![i] = order[k]] \in Seq(Plans)
          /\ Len([order EXCEPT ![i] = order[k]]) = Len(order)
      BY <1>1, ExceptSeq
    <2>2. [[order EXCEPT ![i] = order[k]] EXCEPT ![k] = order[i]] \in Seq(Plans)
      BY <1>1, <2>1, ExceptSeq
    <2>3. new = [[order EXCEPT ![i] = order[k]] EXCEPT ![k] = order[i]]
      BY <1>1 DEF Switch
    <2> QED
      BY <2>2, <2>3
  <1>3. ASSUME NEW x \in DOMAIN order
        PROVE  from(x) \in DOMAIN order /\ new[x] = order[from(x)] /\ from(from(x)) = x
    BY <1>1 DEF Switch
  <1> HIDE DEF new, from
  <1>4. \A x, y \in DOMAIN new : new[x] = new[y] => x = y
    <2> SUFFICES ASSUME NEW x \in DOMAIN new, NEW y \in DOMAIN new, new[x] = new[y]
                 PROVE  x = y
      OBVIOUS
    <2>1. from(x) = from(y)
      BY <1>2, <1>3 DEF Orders
    <2> QED
      BY <1>2, <1>3, <2>1
  <1>5. {new[x] : x \in DOMAIN new} = S
    <2>1. \A x \in DOMAIN new : new[x] \in S
      BY <1>2, <1>3 DEF Orders
    <2>2. ASSUME NEW s \in S PROVE \E x \in DOMAIN new : new[x] = s
      <3>1. PICK y \in DOMAIN order : order[y] = s
        BY DEF Orders
      <3>2. from(y) \in DOMAIN new /\ new[from(y)] = s
        BY <1>2, <1>3, <3>1
      <3> QED
        BY <3>2
    <2> QED
      BY <2>1, <2>2
  <1> QED
    BY <1>2, <1>4, <1>5 DEF Orders, new

LEMMA OpponentIs ==
  ASSUME NEW r, r.order \in Seq(Plans), r.at \in DOMAIN r.order, Opponent(r) # 0
  PROVE  Opponent(r) \in DOMAIN r.order
  <1>1. Len(r.order) \in Nat /\ DOMAIN r.order = 1 .. Len(r.order)
    BY LenProperties
  <1>2. CASE r.up
    BY <1>1, <1>2 DEF Opponent
  <1>3. CASE ~r.up
    BY <1>1, <1>3 DEF Opponent
  <1> QED
    BY <1>2, <1>3

\* The entries in the order the agent gave them are a line of the same Plans.
LEMMA FromRankingIs ==
  ASSUME NEW m, Line(m.asked), NEW order, Orders(order, Listed(m.asked))
  PROVE  /\ Line(FromRanking(m, order))
         /\ Listed(FromRanking(m, order)) = Listed(m.asked)
         /\ Ranks(FromRanking(m, order)) = order
  <1> DEFINE w == FromRanking(m, order)
             E == {m.asked[n] : n \in DOMAIN m.asked}
             entry(i) == CHOOSE e \in E : e.plan = order[i]
  <1>1. order \in Seq(Plans) /\ Len(order) \in Nat /\ DOMAIN order = 1 .. Len(order)
    BY LenProperties DEF Orders
  <1>2. w = [i \in DOMAIN order |-> entry(i)]
    BY DEF FromRanking
  <1>3. ASSUME NEW i \in DOMAIN order
        PROVE  entry(i) \in E /\ entry(i).plan = order[i]
    <2>1. order[i] \in Listed(m.asked)
      BY DEF Orders
    <2>2. \E e \in E : e.plan = order[i]
      BY <2>1 DEF Listed
    <2> QED
      BY <2>2
  <1>4. E \subseteq EntryType
    BY LineIs
  <1> HIDE DEF w, entry, E
  <1>5. w \in Seq(EntryType) /\ DOMAIN w = DOMAIN order
    BY <1>1, <1>2, <1>3, <1>4
  <1>6. ASSUME NEW i \in DOMAIN w PROVE w[i].plan = order[i]
    BY <1>2, <1>3, <1>5
  <1>7. Distinct(w)
    BY <1>5, <1>6 DEF Distinct, Orders
  <1>8. Listed(w) = Listed(m.asked)
    <2>1. Listed(w) = {order[i] : i \in DOMAIN order}
      BY <1>5, <1>6 DEF Listed
    <2> QED
      BY <2>1 DEF Orders
  <1>9. Ranks(w) = order
    BY <1>1, <1>5, <1>6 DEF Ranks
  <1> QED
    BY <1>5, <1>7, <1>8, <1>9 DEF Line, w

\* Three things may become of a command that battles.
LEMMA RanksOn ==
  ASSUME NEW m, NEW d, Prepared(m, d), m.op = "battle",
         NEW n, IsRecord(n), n.op = "battle", n.plan = m.plan, n.writes = m.writes,
         n.expect = m.expect, n.asked = m.asked,
         n.rank.at \in DOMAIN n.rank.order, Orders(n.rank.order, Listed(m.asked))
  PROVE  Prepared(n, d)
  <1>1. Shape(n, DOMAIN n.writes, Plan(n.plan), Idea(n.plan)) /\ Past(n, d) /\ Left(n, d[Idea(n.plan)].val)
    BY DEF Prepared, Shape, Past, Left, Placing
  <1>2. Ranking(n)
    BY DEF Prepared, Ranking
  <1>3. Fits(n, d) => Seen(n, d[Queue].val, d[Plan(n.plan)].val.state, d[Idea(n.plan)].val)
    BY DEF Prepared, Fits, Seen, Placing
  <1> QED
    BY <1>1, <1>2, <1>3 DEF Prepared

LEMMA QueueWritten ==
  ASSUME NEW s, NEW g, Queue \in DOMAIN g
  PROVE  LET f == Both(Value(Queue, s), g)
         IN  /\ DOMAIN f = DOMAIN g /\ f[Queue] = s
             /\ \A x \in DOMAIN g : x # Queue => f[x] = g[x]
  <1> DEFINE v == Value(Queue, s)
             f == Both(v, g)
  <1>1. DOMAIN v = {Queue} /\ v[Queue] = s
    BY ValueIs
  <1> HIDE DEF v
  <1>2. /\ DOMAIN f = DOMAIN v \cup DOMAIN g
        /\ \A x \in DOMAIN v : f[x] = v[x]
        /\ \A x \in DOMAIN g : x \notin DOMAIN v => f[x] = g[x]
    BY BothIs
  <1> HIDE DEF f
  <1>3. /\ DOMAIN f = DOMAIN g /\ f[Queue] = s
        /\ \A x \in DOMAIN g : x # Queue => f[x] = g[x]
    BY <1>1, <1>2
  <1> QED
    BY <1>3 DEF f, v

LEMMA IsRanked ==
  ASSUME NEW m, NEW d, Prepared(m, d), m.op = "battle",
         NEW n, IsRecord(n), n.op = "ranked", n.plan = m.plan, n.expect = m.expect,
         NEW order, Orders(order, Listed(m.asked)),
         n.writes = Both(Value(Queue, FromRanking(m, order)), m.writes)
  PROVE  Prepared(n, d)
  <1> DEFINE s == FromRanking(m, order)
             W == DOMAIN m.writes
  <1>1. Line(s) /\ Listed(s) = Listed(m.asked)
    BY FromRankingIs DEF Prepared, Ranking
  <1>2. n.writes = Both(Value(Queue, s), m.writes)
    OBVIOUS
  <1> HIDE DEF s
  <1>3. Shape(m, W, Plan(m.plan), Idea(m.plan)) /\ Idea(m.plan) # Queue
    BY Keys DEF Prepared
  <1>4. /\ Queue \in W /\ W \subseteq {Idea(m.plan), Queue}
        /\ Idea(m.plan) \in W => m.writes[Idea(m.plan)] = "queued"
    BY <1>3 DEF Shape, Placing
  <1>5. /\ DOMAIN n.writes = W /\ n.writes[Queue] = s
        /\ \A x \in W : x # Queue => n.writes[x] = m.writes[x]
    BY <1>2, <1>4, QueueWritten
  <1>6. Idea(m.plan) \in W => n.writes[Idea(m.plan)] = "queued"
    BY <1>3, <1>4, <1>5
  <1>7. Shape(n, DOMAIN n.writes, Plan(n.plan), Idea(n.plan)) /\ Past(n, d)
    BY <1>4, <1>5, <1>6 DEF Prepared, Shape, Past, Placing
  <1>8. Left(n, d[Idea(n.plan)].val)
    BY <1>5 DEF Prepared, Left, Placing
  <1>9. Fits(n, d) => Seen(n, d[Queue].val, d[Plan(n.plan)].val.state, d[Idea(n.plan)].val)
    BY <1>1, <1>5 DEF Prepared, Fits, Seen, Placing
  <1> QED
    BY <1>5, <1>7, <1>8, <1>9 DEF Prepared, Ranking, Ops

LEMMA IsAudit ==
  ASSUME NEW m, NEW d, Prepared(m, d), NEW n, IsRecord(n), n.op = "audit", n.plan = m.plan,
         n.writes = <<>>, n.expect = <<>>
  PROVE  Prepared(n, d)
  BY DEF Prepared, Shape, Past, Ranking, Left, Fits, Seen, Ops, Placing

\* Whatever the battles of a command come to, it knows what it knew.
LEMMA BattleIs ==
  ASSUME QueueInv, NEW c \in Clients, Battle(c)
  PROVE  /\ DOMAIN cmd' = Clients
         /\ \A x \in Clients \ {c} : cmd'[x] = cmd[x]
         /\ Prepared(cmd'[c], docs)
  <1> DEFINE m == cmd[c]
             r == m.rank
             rival == Opponent(r)
             audited(o) == [r EXCEPT !.audits = Append(@, <<r.order[rival], o>>)]
             moved(o) == [audited(o) EXCEPT !.order = Switch(@, r.at, rival), !.at = rival]
             Decided(rank) == [cmd EXCEPT ![c].rank = rank, ![c].op = "ranked",
                   ![c].writes = Both(Value(Queue, FromRanking(cmd[c], rank.order)), cmd[c].writes)]
             n == cmd'[c]
             others == DOMAIN cmd' = Clients /\ \A x \in Clients \ {c} : cmd'[x] = cmd[x]
  <1>1. m.op = "battle" /\ Prepared(m, docs) /\ DOMAIN cmd = Clients
    BY DEF QueueInv, Calls, Battle
  <1>2. IsRecord(m) /\ r.at \in DOMAIN r.order /\ Orders(r.order, Listed(m.asked))
    BY <1>1 DEF Prepared, Ranking
  <1>3. /\ DOMAIN m = {"op", "plan", "writes", "expect", "finding", "stale", "rank", "asked"}
        /\ DOMAIN r = {"order", "at", "up", "audits", "ties"}
    BY <1>2 DEF IsRecord
  <1>4. rival # 0 => rival \in DOMAIN r.order
    BY <1>2, OpponentIs DEF Orders
  <1>5. PICK outcome \in {"challenger", "incumbent", "tie", "needs_human"} :
          \/ cmd' = [cmd EXCEPT ![c].rank.up = FALSE]
          \/ \E rank \in {r, audited(outcome)} : cmd' = Decided(rank)
          \/ cmd' = [cmd EXCEPT ![c].rank = audited(outcome), ![c].op = "audit",
                                ![c].writes = <<>>, ![c].expect = <<>>]
          \/ rival # 0 /\ cmd' = [cmd EXCEPT ![c].rank = moved(outcome)]
          \/ cmd' = [cmd EXCEPT ![c].rank = [audited(outcome) EXCEPT !.up = FALSE]]
    BY DEF Battle
  <1>6. CASE cmd' = [cmd EXCEPT ![c].rank.up = FALSE]
    <2>1. /\ others /\ n = [m EXCEPT !.rank = [r EXCEPT !.up = FALSE]]
      BY <1>1, <1>6
    <2> HIDE DEF n
    <2>2. /\ IsRecord(n) /\ n.op = "battle" /\ n.plan = m.plan /\ n.writes = m.writes
          /\ n.expect = m.expect /\ n.asked = m.asked /\ n.rank.at = r.at /\ n.rank.order = r.order
      BY <1>1, <1>3, <2>1 DEF IsRecord
    <2>3. Prepared(n, docs)
      BY <1>1, <1>2, <2>2, RanksOn
    <2> QED
      BY <2>1, <2>3 DEF n
  <1>7. CASE cmd' = [cmd EXCEPT ![c].rank = [audited(outcome) EXCEPT !.up = FALSE]]
    <2>1. /\ others /\ n = [m EXCEPT !.rank = [audited(outcome) EXCEPT !.up = FALSE]]
      BY <1>1, <1>7
    <2> HIDE DEF n
    <2>2. /\ IsRecord(n) /\ n.op = "battle" /\ n.plan = m.plan /\ n.writes = m.writes
          /\ n.expect = m.expect /\ n.asked = m.asked /\ n.rank.at = r.at /\ n.rank.order = r.order
      BY <1>1, <1>3, <2>1 DEF IsRecord
    <2>3. Prepared(n, docs)
      BY <1>1, <1>2, <2>2, RanksOn
    <2> QED
      BY <2>1, <2>3 DEF n
  <1>8. CASE rival # 0 /\ cmd' = [cmd EXCEPT ![c].rank = moved(outcome)]
    <2>1. /\ others /\ n = [m EXCEPT !.rank = moved(outcome)]
      BY <1>1, <1>8
    <2> HIDE DEF n, rival
    <2>2. /\ IsRecord(n) /\ n.op = "battle" /\ n.plan = m.plan /\ n.writes = m.writes
          /\ n.expect = m.expect /\ n.asked = m.asked /\ n.rank.at = rival
          /\ n.rank.order = Switch(r.order, r.at, rival)
      BY <1>1, <1>3, <2>1 DEF IsRecord
    <2>3. Orders(n.rank.order, Listed(m.asked)) /\ n.rank.at \in DOMAIN n.rank.order
      BY <1>2, <1>4, <1>8, <2>2, SwapIs
    <2>4. Prepared(n, docs)
      BY <1>1, <2>2, <2>3, RanksOn
    <2> QED
      BY <2>1, <2>4 DEF n
  <1>9. CASE \E rank \in {r, audited(outcome)} : cmd' = Decided(rank)
    <2>1. PICK rank \in {r, audited(outcome)} : cmd' = Decided(rank)
      BY <1>9
    <2>2. rank.order = r.order /\ DOMAIN rank = DOMAIN r
      BY <1>3, <2>1
    <2> DEFINE w == Both(Value(Queue, FromRanking(m, rank.order)), m.writes)
    <2>3. /\ others
          /\ n = [[[m EXCEPT !.rank = rank] EXCEPT !.op = "ranked"] EXCEPT !.writes = w]
      BY <1>1, <2>1
    <2>4. Orders(rank.order, Listed(m.asked))
      BY <1>2, <2>2
    <2>5. w = Both(Value(Queue, FromRanking(m, rank.order)), m.writes)
      OBVIOUS
    <2> HIDE DEF n, w
    <2>6. /\ IsRecord(n) /\ n.op = "ranked" /\ n.plan = m.plan /\ n.writes = w
          /\ n.expect = m.expect
      BY <1>1, <1>3, <2>2, <2>3 DEF IsRecord
    <2>7. Prepared(n, docs)
      BY <1>1, <2>4, <2>5, <2>6, IsRanked
    <2> QED
      BY <2>3, <2>7 DEF n
  <1>10. CASE cmd' = [cmd EXCEPT ![c].rank = audited(outcome), ![c].op = "audit",
                                 ![c].writes = <<>>, ![c].expect = <<>>]
    <2>1. /\ others
          /\ n = [[[[m EXCEPT !.rank = audited(outcome)] EXCEPT !.op = "audit"]
                     EXCEPT !.writes = <<>>] EXCEPT !.expect = <<>>]
      BY <1>1, <1>10
    <2> HIDE DEF n
    <2>2. /\ IsRecord(n) /\ n.op = "audit" /\ n.plan = m.plan /\ n.writes = <<>>
          /\ n.expect = <<>>
      BY <1>1, <1>3, <2>1 DEF IsRecord
    <2>3. Prepared(n, docs)
      BY <1>1, <2>2, IsAudit
    <2> QED
      BY <2>1, <2>3 DEF n
  <1> QED
    BY <1>5, <1>6, <1>7, <1>8, <1>9, <1>10

-----------------------------------------------------------------------------
(* Every step keeps the invariant                                          *)

LEMMA BeginKeeps ==
  ASSUME QueueInv, NEW c \in Clients, NEW m, Begin(c, m), Prepared(m, docs)
  PROVE  QueueInv'
  <1>1. docs' = docs /\ cmd' = [cmd EXCEPT ![c] = m] /\ DOMAIN cmd = Clients
    BY DEF Begin, QueueInv, Calls
  <1>2. Good(docs')
    BY <1>1 DEF QueueInv
  <1>3. ASSUME NEW x \in Clients, cmd'[x] # Idle
        PROVE  Prepared(cmd'[x], docs')
    <2>1. cmd'[x] = IF x = c THEN m ELSE cmd[x]
      BY <1>1
    <2> QED
      BY <1>1, <1>3, <2>1 DEF QueueInv, Calls
  <1> QED
    BY <1>1, <1>2, <1>3 DEF QueueInv, Calls, Good

LEMMA BattleKeeps ==
  ASSUME QueueInv, NEW c \in Clients, Battle(c)
  PROVE  QueueInv'
  <1>1. docs' = docs
    BY DEF Battle
  <1>2. /\ DOMAIN cmd' = Clients
        /\ \A x \in Clients \ {c} : cmd'[x] = cmd[x]
        /\ Prepared(cmd'[c], docs)
    BY BattleIs
  <1>3. Good(docs')
    BY <1>1 DEF QueueInv
  <1>4. ASSUME NEW x \in Clients, cmd'[x] # Idle
        PROVE  Prepared(cmd'[x], docs')
    BY <1>1, <1>2, <1>4 DEF QueueInv, Calls
  <1> QED
    BY <1>2, <1>3, <1>4 DEF QueueInv, Calls, Good

\* Transact publishes a command that is acceptable, or nothing.
LEMMA CommitKeeps ==
  ASSUME QueueInv, NEW c \in Clients, Commit(c)
  PROVE  QueueInv'
  <1>1. /\ cmd[c] # Idle /\ cmd[c].op # "battle"
        /\ docs' = IF Acceptable(c) THEN After(c) ELSE docs
        /\ cmd' = [cmd EXCEPT ![c] = Idle]
    BY DEF Commit
  <1>2. Good(docs) /\ DOMAIN cmd = Clients /\ Prepared(cmd[c], docs)
    BY <1>1 DEF QueueInv, Calls
  <1>3. /\ DOMAIN cmd' = Clients /\ cmd'[c] = Idle
        /\ \A x \in Clients \ {c} : cmd'[x] = cmd[x]
    BY <1>1, <1>2
  <1>4. CASE Acceptable(c)
    <2>1. docs' = After(c)
      BY <1>1, <1>4
    <2>2. Fits(cmd[c], docs) /\ \A p \in Plans : MayTurn(docs[Idea(p)].val, After(c)[Idea(p)].val)
      BY <1>4 DEF Acceptable, Current, Fits
    <2>3. Good(docs')
      BY <1>1, <1>2, <2>1, <2>2, AfterIsGood
    <2>4. ASSUME NEW x \in Clients, cmd'[x] # Idle
          PROVE  Prepared(cmd'[x], docs')
      <3>1. x # c /\ cmd'[x] = cmd[x]
        BY <1>3, <2>4
      <3>2. Prepared(cmd[x], docs)
        BY <2>4, <3>1 DEF QueueInv, Calls
      <3>3. Prepared(cmd[x], After(c))
        BY <1>1, <1>2, <2>2, <3>2, StaysPrepared
      <3> QED
        BY <2>1, <3>1, <3>3
    <2> QED
      BY <1>3, <2>3, <2>4 DEF QueueInv, Calls, Good
  <1>5. CASE ~Acceptable(c)
    <2>1. docs' = docs
      BY <1>1, <1>5
    <2>2. ASSUME NEW x \in Clients, cmd'[x] # Idle
          PROVE  Prepared(cmd'[x], docs')
      BY <1>3, <2>1, <2>2 DEF QueueInv, Calls
    <2> QED
      BY <1>2, <1>3, <2>1, <2>2 DEF QueueInv, Calls, Good
  <1> QED
    BY <1>4, <1>5

LEMMA FailKeeps ==
  ASSUME QueueInv, NEW c \in Clients, Fail(c)
  PROVE  QueueInv'
  <1>1. docs' = docs /\ DOMAIN cmd = Clients /\ cmd' = [cmd EXCEPT ![c] = Idle]
    BY DEF Fail, QueueInv, Calls
  <1>2. ASSUME NEW x \in Clients, cmd'[x] # Idle
        PROVE  Prepared(cmd'[x], docs')
    BY <1>1, <1>2 DEF QueueInv, Calls
  <1>3. Good(docs')
    BY <1>1 DEF QueueInv
  <1> QED
    BY <1>1, <1>2, <1>3 DEF QueueInv, Calls, Good

LEMMA StutterKeeps ==
  ASSUME QueueInv, UNCHANGED <<docs, cmd>>
  PROVE  QueueInv'
  BY DEF QueueInv, Good, Calls

LEMMA QueueInitGood ==
  ASSUME Lined, QueueInit
  PROVE  QueueInv
  <1> DEFINE waiting == {Waiting[i] : i \in DOMAIN Waiting}
             line == [i \in DOMAIN Waiting |-> Entry(Waiting[i], 1, FALSE)]
             idea(k) == CASE k[2] = Underway \/ k[2] \in waiting -> "queued"
                          [] OTHER -> "proposed"
             plan(k) == CASE k[2] = Underway ->
                               [rev |-> 2, val |-> [state |-> "started", pins |-> Pins(k[2], findings)]]
                          [] k[2] \in waiting ->
                               [rev |-> 1, val |-> [state |-> "queued", pins |-> Pins(k[2], findings)]]
                          [] OTHER -> [rev |-> 0, val |-> [state |-> "absent", pins |-> <<>>]]
             policy == [auto |-> TRUE, saturated |-> FALSE]
  <1>1. Waiting \in Seq(Plans) /\ \A i \in DOMAIN Waiting : Waiting[i] \in Plans
    BY ElementOfSeq, LenProperties DEF Lined
  <1>2. ASSUME NEW k \in Docs
        PROVE  docs[k] = CASE k = Queue -> [rev |-> 1, val |-> line]
                           [] k = Policy -> [rev |-> 1, val |-> policy]
                           [] k[1] = "idea" -> [rev |-> 1, val |-> idea(k)]
                           [] k[1] = "plan" -> plan(k)
    BY Zenon DEF QueueInit
  <1>3. Underway \notin waiting
    BY DEF Lined
  <1>4. ASSUME NEW k
        PROVE  /\ idea(k) = IF k[2] = Underway \/ k[2] \in waiting THEN "queued" ELSE "proposed"
               /\ plan(k).rev \in {0, 1, 2}
               /\ plan(k).val.state = IF k[2] = Underway THEN "started"
                                      ELSE IF k[2] \in waiting THEN "queued" ELSE "absent"
    <2> HIDE DEF waiting
    <2>1. CASE k[2] = Underway
      BY <1>3, <2>1
    <2>2. CASE k[2] # Underway /\ k[2] \in waiting
      BY <2>2
    <2>3. CASE k[2] # Underway /\ k[2] \notin waiting
      BY <2>3
    <2> QED
      BY <2>1, <2>2, <2>3
  <1> HIDE DEF line, waiting, idea, plan, policy
  <1>5. /\ Queue \in Docs /\ docs[Queue].val = line /\ docs[Queue].rev = 1 /\ docs[Policy].rev = 1
    <2>1. Queue \in Docs /\ Policy \in Docs /\ Queue # Policy
      BY Keys
    <2>2. Queue[1] = "queue" /\ Policy[1] = "policy"
      BY DEF Queue, Policy
    <2>3. docs[Queue] = [rev |-> 1, val |-> line]
      BY <1>2, <2>1, <2>2
    <2>4. docs[Policy] = [rev |-> 1, val |-> policy]
      BY <1>2, <2>1, <2>2
    <2> QED
      BY <2>1, <2>3, <2>4
  <1>6. ASSUME NEW p \in Plans
        PROVE  /\ docs[Idea(p)].rev = 1 /\ docs[Plan(p)].rev \in {0, 1, 2}
               /\ docs[Idea(p)].val = IF p = Underway \/ p \in waiting THEN "queued" ELSE "proposed"
               /\ docs[Plan(p)].val.state = IF p = Underway THEN "started"
                                            ELSE IF p \in waiting THEN "queued" ELSE "absent"
    <2>1. /\ Idea(p) \in Docs /\ Idea(p) # Queue /\ Idea(p) # Policy
          /\ Plan(p) \in Docs /\ Plan(p) # Queue /\ Plan(p) # Policy
      BY Keys
    <2>2. Idea(p)[1] = "idea" /\ Idea(p)[2] = p /\ Plan(p)[1] = "plan" /\ Plan(p)[2] = p
      BY DEF Idea, Plan
    <2>3. docs[Idea(p)] = [rev |-> 1, val |-> idea(Idea(p))] /\ docs[Plan(p)] = plan(Plan(p))
      BY <1>2, <2>1, <2>2
    <2> QED
      BY <1>4, <2>2, <2>3
  <1>7. line \in Seq(EntryType) /\ DOMAIN line = DOMAIN Waiting
        /\ \A i \in DOMAIN Waiting : line[i].plan = Waiting[i]
    <2>1. DOMAIN Waiting = 1 .. Len(Waiting) /\ Len(Waiting) \in Nat
      BY <1>1, LenProperties
    <2>2. \A i \in DOMAIN Waiting : Entry(Waiting[i], 1, FALSE) \in EntryType
      BY <1>1 DEF Entry, EntryType
    <2> QED
      BY <2>1, <2>2 DEF line, Entry
  <1>8. Line(line) /\ Listed(line) = waiting
    BY <1>7 DEF Line, Distinct, Listed, waiting, Lined
  <1>9. \A p \in Plans : Proper(p, Listed(line), docs[Plan(p)].val.state, docs[Idea(p)].val)
    BY <1>6, <1>8, <1>3 DEF Proper
  <1>10. ASSUME NEW k \in Docs PROVE docs[k].rev \in Nat
    <2>1. CASE k \in {Queue, Policy}
      BY <1>5, <2>1
    <2>2. CASE \E p \in Plans : k \in {Idea(p), Plan(p)}
      BY <1>6, <2>2
    <2> QED
      BY <2>1, <2>2 DEF Docs
  <1>11. Calls
    BY DEF QueueInit, Calls
  <1> QED
    BY <1>8, <1>9, <1>10, <1>11, <1>5 DEF QueueInv, Good

LEMMA QueueStep ==
  ASSUME Lined, QueueInv, [QueueNext]_queueVars
  PROVE  QueueInv'
  <1>1. ASSUME NEW c \in Clients, \E m : Begin(c, m) /\ Prepared(m, docs)
        PROVE  QueueInv'
    BY <1>1, BeginKeeps
  <1>2. ASSUME NEW c \in Clients, NEW p \in Plans, Qualify(c, p)
        PROVE  QueueInv'
    BY <1>1, <1>2, QualifyIs
  <1>3. ASSUME NEW c \in Clients, NEW p \in Plans, Dismiss(c, p)
        PROVE  QueueInv'
    BY <1>1, <1>3, DismissIs
  <1>4. ASSUME NEW c \in Clients, NEW p \in Plans, Refresh(c, p)
        PROVE  QueueInv'
    BY <1>1, <1>4, RefreshBegins
  <1>5. ASSUME NEW c \in Clients, NEW p \in Plans, Remove(c, p)
        PROVE  QueueInv'
    BY <1>1, <1>5, RemoveIs
  <1>6. ASSUME NEW c \in Clients, NEW p \in Plans, Close(c, p)
        PROVE  QueueInv'
    BY <1>1, <1>6, CloseIs
  <1>7. ASSUME NEW c \in Clients, NEW p \in Plans, NEW pinned \in BOOLEAN, Insert(c, p, pinned)
        PROVE  QueueInv'
    BY <1>1, <1>7, InsertIs
  <1>8. ASSUME NEW c \in Clients, NEW p \in Plans, NEW pinned \in BOOLEAN, Advise(c, p, pinned)
        PROVE  QueueInv'
    BY <1>1, <1>8, AdviseIs
  <1>9. ASSUME NEW c \in Clients, SetPolicy(c) PROVE QueueInv'
    BY <1>1, <1>9, SetPolicyIs
  <1>10. ASSUME NEW c \in Clients, Battle(c) PROVE QueueInv'
    BY <1>10, BattleKeeps
  <1>11. ASSUME NEW c \in Clients, Admit(c) PROVE QueueInv'
    BY <1>1, <1>11, AdmitIs
  <1>12. ASSUME NEW c \in Clients, Commit(c) PROVE QueueInv'
    BY <1>12, CommitKeeps
  <1>13. ASSUME NEW c \in Clients, Fail(c) PROVE QueueInv'
    BY <1>13, FailKeeps
  <1>14. ASSUME NEW p \in Plans, Import(p) PROVE QueueInv'
    BY <1>14, StutterKeeps DEF Import
  <1>15. ASSUME UNCHANGED queueVars PROVE QueueInv'
    BY <1>15, StutterKeeps DEF queueVars
  <1> QED
    BY <1>2, <1>3, <1>4, <1>5, <1>6, <1>7, <1>8, <1>9, <1>10, <1>11, <1>12, <1>13, <1>14, <1>15
    DEF QueueNext

\* What the Queue, the Ideas and the Plans say together stays so, and every
\* pending command can only be refused for its revisions: QueueInv, for any
\* Plans, Queue and number of commands (internal/queueflow, record.Transact).
THEOREM QueueStaysGood ==
  ASSUME Lined
  PROVE  QueueSpec => []QueueInv
  <1>1. QueueInit => QueueInv
    BY QueueInitGood
  <1>2. QueueInv /\ [QueueNext]_queueVars => QueueInv'
    BY QueueStep
  <1> QED
    BY <1>1, <1>2, PTL DEF QueueSpec

\* The revisions a command names suffice to keep the inventory whole, an Idea
\* is queued exactly while its Plan waits in the Queue or has been taken from
\* it, and a stale Plan can be refreshed without making another one stale.
THEOREM QueueStaysSound ==
  ASSUME Lined
  PROVE  QueueSpec => []QueueSound
  <1>1. QueueInv => QueueSound
    BY GoodSuffices, GoodIdeas, GoodIsRepairable DEF QueueInv, QueueSound
  <1> QED
    BY <1>1, QueueStaysGood, PTL


-----------------------------------------------------------------------------
(* The order of the Queue                                                  *)
(*                                                                         *)
(* A prepared command keeps the order of what it saw (Kept), and one whose *)
(* Plan an agent ranks has for each neighbour that is settled the verdict  *)
(* that settled it (Judged).  The revision of the Queue, which it names,   *)
(* is what still makes this true when it commits.                          *)

Outcomes == {"challenger", "incumbent", "tie", "needs_human"}

\* What is in both sequences is in g in the order it has in f.
Follows(f, g) ==
    \A i, k \in DOMAIN f : \A j, l \in DOMAIN g :
        i < k /\ f[i] = g[j] /\ f[k] = g[l] => j < l

\* The last verdict on r is one of the outcomes.
Said(audits, r, outcomes) ==
    \E n \in DOMAIN audits :
        /\ audits[n][1] = r /\ audits[n][2] \in outcomes
        /\ \A k \in n + 1 .. Len(audits) : audits[k][1] # r

Settled(r, p, S) ==
    /\ Orders(r.order, S) /\ r.audits \in Seq(Plans \X Outcomes)
    /\ r.at \in DOMAIN r.order /\ r.order[r.at] = p

\* The neighbour above is settled when the battles turn down, the one below
\* when the Plan is placed.
Above(r) == r.at > 1 => Said(r.audits, r.order[r.at - 1], {"incumbent", "tie"})
Below(r) == r.at < Len(r.order) => Said(r.audits, r.order[r.at + 1], {"challenger"})

Judged(m) ==
    /\ m.op \in {"battle", "ranked"} => Settled(m.rank, m.plan, Listed(m.asked))
    /\ m.op = "battle" => m.rank.up \/ Above(m.rank)
    /\ m.op = "ranked" => /\ Above(m.rank) /\ Below(m.rank)
                          /\ Ranks(m.writes[Queue]) = m.rank.order

Kept(m, d) ==
    LET q == d[Queue].val
        w == m.writes[Queue]
    IN  Fits(m, d) =>
          /\ m.op = "battle" => Follows(Ranks(q), m.rank.order)
          /\ m.op # "battle" /\ Queue \in DOMAIN m.writes => Follows(Ranks(q), Ranks(w))
          /\ m.op = "admit" =>
               q # <<>> /\ q[1] = Entry(m.plan, d[Plan(m.plan)].rev, q[1].pinned) /\ w = Tail(q)

RankInv == \A c \in Clients : cmd[c] # Idle => Judged(cmd[c]) /\ Kept(cmd[c], docs)


-----------------------------------------------------------------------------
(* Sequences and the order in them                                         *)

\* What is left of a Queue keeps its order.
LEMMA DroppedFollows ==
  ASSUME NEW q, Line(q), NEW w \in Seq(EntryType), NEW n \in DOMAIN q, Len(w) = Len(q) - 1,
         \A i \in 1 .. Len(q) - 1 : w[i] = IF i < n THEN q[i] ELSE q[i + 1]
  PROVE  Follows(Ranks(q), Ranks(w))
  <1>0. Len(q) \in Nat /\ DOMAIN q = 1 .. Len(q) /\ DOMAIN w = 1 .. Len(q) - 1 /\ Distinct(q)
    BY LineIs, LenProperties DEF Line
  <1> DEFINE from(j) == IF j < n THEN j ELSE j + 1
  <1>1. ASSUME NEW j \in DOMAIN w PROVE from(j) \in DOMAIN q /\ w[j] = q[from(j)]
    BY <1>0
  <1>2. ASSUME NEW j \in DOMAIN w, NEW l \in DOMAIN w, from(j) < from(l) PROVE j < l
    BY <1>0, <1>2
  <1> HIDE DEF from
  <1> SUFFICES ASSUME NEW i \in DOMAIN q, NEW k \in DOMAIN q, NEW j \in DOMAIN w, NEW l \in DOMAIN w,
                      i < k, q[i].plan = w[j].plan, q[k].plan = w[l].plan
               PROVE  j < l
    BY DEF Follows, Ranks
  <1>3. i = from(j) /\ k = from(l)
    BY <1>0, <1>1 DEF Distinct
  <1> QED
    BY <1>2, <1>3

\* A Plan that was not in the Queue changes no order where it is put.
LEMMA PlacedFollows ==
  ASSUME NEW q, Line(q), NEW p, p \notin Listed(q), NEW n \in 0 .. Len(q),
         NEW w, DOMAIN w = 1 .. Len(q) + 1,
         \A i \in 1 .. Len(q) + 1 : /\ i <= n => w[i] = q[i].plan
                                    /\ i = n + 1 => w[i] = p
                                    /\ i > n + 1 => w[i] = q[i - 1].plan
  PROVE  Follows(Ranks(q), w)
  <1>0. Len(q) \in Nat /\ DOMAIN q = 1 .. Len(q) /\ Distinct(q)
    BY LineIs DEF Line
  <1> DEFINE from(j) == IF j <= n THEN j ELSE j - 1
  <1>1. ASSUME NEW j \in DOMAIN w, w[j] # p PROVE from(j) \in DOMAIN q /\ w[j] = q[from(j)].plan
    <2>1. CASE j <= n
      BY <1>0, <1>1, <2>1
    <2>2. CASE j > n + 1
      BY <1>0, <1>1, <2>2
    <2>3. j <= n \/ j > n + 1
      BY <1>0, <1>1
    <2> QED
      BY <2>1, <2>2, <2>3
  <1>2. ASSUME NEW j \in DOMAIN w, NEW l \in DOMAIN w, from(j) < from(l) PROVE j < l
    BY <1>0, <1>2
  <1> HIDE DEF from
  <1> SUFFICES ASSUME NEW i \in DOMAIN q, NEW k \in DOMAIN q, NEW j \in DOMAIN w, NEW l \in DOMAIN w,
                      i < k, q[i].plan = w[j], q[k].plan = w[l]
               PROVE  j < l
    BY DEF Follows, Ranks
  <1>3. w[j] # p /\ w[l] # p
    BY DEF Listed
  <1>4. i = from(j) /\ k = from(l)
    BY <1>0, <1>1, <1>3 DEF Distinct
  <1> QED
    BY <1>2, <1>4

\* Two neighbours trade places, of which f has at most the second.
LEMMA SwappedFollows ==
  ASSUME NEW S, NEW order, Orders(order, S), NEW f, Follows(f, order),
         NEW i \in DOMAIN order, NEW k \in DOMAIN order, i = k + 1 \/ k = i + 1,
         \A x \in DOMAIN f : f[x] # order[i]
  PROVE  /\ Follows(f, Switch(order, i, k))
         /\ Switch(order, i, k)[i] = order[k] /\ Switch(order, i, k)[k] = order[i]
  <1> DEFINE new == Switch(order, i, k)
             from(x) == IF x = i THEN k ELSE IF x = k THEN i ELSE x
  <1>0. Len(order) \in Nat /\ DOMAIN order = 1 .. Len(order)
    BY LenProperties DEF Orders
  <1>1. DOMAIN new = DOMAIN order
    BY DEF Switch
  <1>2. ASSUME NEW x \in DOMAIN order
        PROVE  from(x) \in DOMAIN order /\ new[x] = order[from(x)]
    BY <1>0 DEF Switch
  <1>3. new[i] = order[k] /\ new[k] = order[i]
    BY <1>0, <1>2
  <1>4. ASSUME NEW x \in DOMAIN order, NEW y \in DOMAIN order, x # k, y # k, from(x) < from(y)
        PROVE  x < y
    BY <1>0, <1>4
  <1> HIDE DEF new, from
  <1>5. Follows(f, new)
    <2> SUFFICES ASSUME NEW a \in DOMAIN f, NEW b \in DOMAIN f,
                        NEW x \in DOMAIN new, NEW y \in DOMAIN new,
                        a < b, f[a] = new[x], f[b] = new[y]
                 PROVE  x < y
      BY DEF Follows
    <2>1. x # k /\ y # k
      BY <1>3
    <2>2. from(x) < from(y)
      BY <1>1, <1>2 DEF Follows
    <2> QED
      BY <1>1, <1>4, <2>1, <2>2
  <1> QED
    BY <1>3, <1>5 DEF new

\* A verdict is the last on its rival, and says nothing of the others.
LEMMA SaidNow ==
  ASSUME NEW s \in Seq(Plans \X Outcomes), NEW r \in Plans, NEW o \in Outcomes
  PROVE  /\ Append(s, <<r, o>>) \in Seq(Plans \X Outcomes)
         /\ \A O : o \in O => Said(Append(s, <<r, o>>), r, O)
         /\ \A x, O : x # r /\ Said(s, x, O) => Said(Append(s, <<r, o>>), x, O)
  <1> DEFINE t == Append(s, <<r, o>>)
  <1>1. <<r, o>> \in Plans \X Outcomes
    OBVIOUS
  <1>2. Len(s) \in Nat /\ DOMAIN s = 1 .. Len(s)
    BY LenProperties
  <1>3. /\ t \in Seq(Plans \X Outcomes) /\ Len(t) = Len(s) + 1
        /\ \A i \in 1 .. Len(s) : t[i] = s[i]
        /\ t[Len(s) + 1] = <<r, o>>
    BY <1>1, AppendProperties
  <1> HIDE DEF t
  <1>4. DOMAIN t = 1 .. Len(s) + 1
    BY <1>3, LenProperties
  <1>5. ASSUME NEW O, o \in O PROVE Said(t, r, O)
    <2>1. Len(s) + 1 \in DOMAIN t
      BY <1>2, <1>4
    <2>2. t[Len(s) + 1][1] = r /\ t[Len(s) + 1][2] = o
      BY <1>3
    <2>3. \A k \in Len(s) + 1 + 1 .. Len(t) : FALSE
      BY <1>2, <1>3
    <2> QED
      BY <1>5, <2>1, <2>2, <2>3 DEF Said
  <1>6. ASSUME NEW x, NEW O, x # r, Said(s, x, O) PROVE Said(t, x, O)
    <2>1. PICK n \in DOMAIN s : /\ s[n][1] = x /\ s[n][2] \in O
                                /\ \A k \in n + 1 .. Len(s) : s[k][1] # x
      BY <1>6 DEF Said
    <2>2. n \in DOMAIN t /\ t[n] = s[n]
      BY <1>2, <1>3, <1>4
    <2>3. ASSUME NEW k \in n + 1 .. Len(t) PROVE t[k][1] # x
      <3>1. CASE k = Len(s) + 1
        BY <1>3, <1>6, <3>1
      <3>2. CASE k # Len(s) + 1
        <4>1. k \in n + 1 .. Len(s) /\ k \in 1 .. Len(s)
          BY <1>2, <1>3, <3>2
        <4> QED
          BY <1>3, <2>1, <4>1
      <3> QED
        BY <3>1, <3>2
    <2> QED
      BY <2>1, <2>2, <2>3 DEF Said
  <1> QED
    BY <1>3, <1>5, <1>6 DEF t

\* What a refresh or a removal leaves of the Queue keeps its order.
LEMMA WithoutFollows ==
  ASSUME NEW q, Line(q), NEW p \in Listed(q)
  PROVE  Follows(Ranks(q), Ranks(Without(q, p)))
  <1> DEFINE n == CHOOSE i \in DOMAIN q : q[i].plan = p
             w == SubSeq(q, 1, n - 1) \o SubSeq(q, n + 1, Len(q))
  <1>1. q \in Seq(EntryType) /\ Len(q) \in Nat /\ DOMAIN q = 1 .. Len(q)
    BY LineIs
  <1>2. n \in DOMAIN q
    BY DEF Listed
  <1>3. Without(q, p) = w
    BY DEF Without
  <1> HIDE DEF n
  <1>4. /\ w \in Seq(EntryType) /\ Len(w) = Len(q) - 1
        /\ \A i \in 1 .. Len(q) - 1 : w[i] = IF i < n THEN q[i] ELSE q[i + 1]
    BY <1>1, <1>2, DropIs
  <1> HIDE DEF w
  <1>5. Follows(Ranks(q), Ranks(w))
    BY <1>2, <1>4, DroppedFollows
  <1> QED
    BY <1>3, <1>5

\* So does what the admission of its head leaves.
LEMMA TailFollows ==
  ASSUME NEW q, Line(q), q # <<>>
  PROVE  Follows(Ranks(q), Ranks(Tail(q)))
  <1> DEFINE w == Tail(q)
  <1>1. q \in Seq(EntryType) /\ Len(q) \in Nat /\ DOMAIN q = 1 .. Len(q)
    BY LineIs
  <1>2. Len(q) # 0 /\ 1 \in DOMAIN q
    BY <1>1, EmptySeq
  <1>3. /\ w \in Seq(EntryType) /\ Len(w) = Len(q) - 1
        /\ \A i \in 1 .. Len(w) : w[i] = q[i + 1]
    BY <1>1, <1>2, HeadTailProperties
  <1> HIDE DEF w
  <1>4. \A i \in 1 .. Len(q) - 1 : w[i] = IF i < 1 THEN q[i] ELSE q[i + 1]
    BY <1>1, <1>3
  <1>5. Follows(Ranks(q), Ranks(w))
    BY <1>2, <1>3, <1>4, DroppedFollows
  <1> QED
    BY <1>5 DEF w

\* And a Queue with one Plan more, wherever it is put.
LEMMA EnteredFollows ==
  ASSUME NEW q, Line(q), NEW e \in EntryType, e.plan \notin Listed(q), NEW n \in 0 .. Len(q)
  PROVE  Follows(Ranks(q), Ranks(Place(q, n, e)))
  <1> DEFINE w == Place(q, n, e)
             ranks == Ranks(w)
             p == e.plan
  <1>1. q \in Seq(EntryType) /\ Len(q) \in Nat
    BY LineIs
  <1>2. w \in Seq(EntryType) /\ Len(w) = Len(q) + 1
    BY <1>1, PlaceIs
  <1>3. ASSUME NEW i \in 1 .. Len(q) + 1
        PROVE  /\ i <= n => w[i] = q[i]
               /\ i = n + 1 => w[i] = e
               /\ i > n + 1 => w[i] = q[i - 1]
    BY <1>1, PlaceIs
  <1> HIDE DEF w
  <1>4. DOMAIN w = 1 .. Len(q) + 1
    BY <1>2, LenProperties
  <1>5. DOMAIN ranks = 1 .. Len(q) + 1 /\ \A i \in 1 .. Len(q) + 1 : ranks[i] = w[i].plan
    BY <1>4 DEF Ranks
  <1> HIDE DEF ranks
  <1>6. \A i \in 1 .. Len(q) + 1 : /\ i <= n => ranks[i] = q[i].plan
                                   /\ i = n + 1 => ranks[i] = p
                                   /\ i > n + 1 => ranks[i] = q[i - 1].plan
    BY <1>3, <1>5
  <1>a. p \notin Listed(q)
    OBVIOUS
  <1> HIDE DEF p
  <1>b. DOMAIN ranks = 1 .. Len(q) + 1
    BY <1>5
  <1>7. Follows(Ranks(q), ranks)
    BY <1>6, <1>a, <1>b, PlacedFollows
  <1>8. ranks = Ranks(w)
    BY DEF ranks
  <1>9. Follows(Ranks(q), Ranks(w))
    BY <1>7, <1>8
  <1> QED
    BY <1>9 DEF w

\* And the candidates in the order that an agent gives them at first.
LEMMA RankedFollows ==
  ASSUME NEW q, Line(q), NEW p \in Plans, p \notin Listed(q), NEW n \in 0 .. Len(q)
  PROVE  Follows(Ranks(q), Place(Ranks(q), n, p)) /\ Place(Ranks(q), n, p)[n + 1] = p
  <1> DEFINE plans == Ranks(q)
             w == Place(plans, n, p)
  <1>1. Len(q) \in Nat /\ DOMAIN q = 1 .. Len(q) /\ \A i \in DOMAIN q : q[i].plan \in Plans
    BY LineIs
  <1>2. /\ plans \in Seq(Plans) /\ Len(plans) = Len(q)
        /\ \A i \in 1 .. Len(q) : plans[i] = q[i].plan
    BY <1>1 DEF Ranks
  <1> HIDE DEF plans
  <1>3. n \in 0 .. Len(plans)
    BY <1>2
  <1>4. w \in Seq(Plans) /\ Len(w) = Len(q) + 1
    <2>1. plans \in Seq(Plans) /\ n \in 0 .. Len(plans) /\ p \in Plans
      BY <1>2, <1>3
    <2> HIDE DEF w
    <2>2. Place(plans, n, p) \in Seq(Plans) /\ Len(Place(plans, n, p)) = Len(plans) + 1
      BY <2>1, PlaceIs
    <2> QED
      BY <1>2, <2>2 DEF w
  <1>5. ASSUME NEW i \in 1 .. Len(plans) + 1
        PROVE  /\ i <= n => w[i] = plans[i]
               /\ i = n + 1 => w[i] = p
               /\ i > n + 1 => w[i] = plans[i - 1]
    BY <1>2, <1>3, PlaceAt
  <1> HIDE DEF w
  <1>6. DOMAIN w = 1 .. Len(q) + 1
    BY <1>4, LenProperties
  <1>7. ASSUME NEW i \in 1 .. Len(q) + 1
        PROVE  /\ i <= n => w[i] = q[i].plan
               /\ i = n + 1 => w[i] = p
               /\ i > n + 1 => w[i] = q[i - 1].plan
    <2>1. i <= n => i \in 1 .. Len(q)
      BY <1>1
    <2>2. i > n + 1 => i - 1 \in 1 .. Len(q)
      BY <1>1
    <2> QED
      BY <1>2, <1>5, <2>1, <2>2
  <1>8. Follows(Ranks(q), w)
    BY <1>6, <1>7, PlacedFollows
  <1>9. w[n + 1] = p
    <2>1. n + 1 \in 1 .. Len(q) + 1
      BY <1>1
    <2> QED
      BY <1>7, <2>1
  <1> QED
    BY <1>8, <1>9 DEF w, plans

-----------------------------------------------------------------------------
(* A command that begins keeps the order of what it saw                    *)

\* Commands that leave the Queue alone.
LEMMA QuietRanks ==
  ASSUME NEW m, NEW d, Prepared(m, d), m.op \notin Placing \cup {"refresh", "remove", "admit"}
  PROVE  Judged(m) /\ Kept(m, d)
  <1>1. m.op \in Ops /\ Shape(m, DOMAIN m.writes, Plan(m.plan), Idea(m.plan))
    BY DEF Prepared
  <1>2. Plan(m.plan) # Queue /\ Idea(m.plan) # Queue /\ Policy # Queue
    BY Keys
  <1>3. m.op \in {"qualify", "dismiss", "policy", "audit", "close"}
    BY <1>1 DEF Ops, Placing
  <1>4. Queue \notin DOMAIN m.writes
    BY <1>1, <1>2, <1>3 DEF Shape
  <1> QED
    BY <1>3, <1>4 DEF Judged, Kept

\* Commands that take their Plan out of the Queue, if it is there.
LEMMA LeavingRanks ==
  ASSUME NEW m, NEW d, m.op \in {"refresh", "remove"}, Line(d[Queue].val),
         Queue \in DOMAIN m.writes => /\ m.plan \in Listed(d[Queue].val)
                                      /\ m.writes[Queue] = Without(d[Queue].val, m.plan)
  PROVE  Judged(m) /\ Kept(m, d)
  <1>1. Queue \in DOMAIN m.writes => Follows(Ranks(d[Queue].val), Ranks(m.writes[Queue]))
    BY WithoutFollows
  <1> QED
    BY <1>1 DEF Judged, Kept

LEMMA BeganIs ==
  ASSUME QueueInv, NEW c \in Clients, NEW m, Begin(c, m)
  PROVE  cmd'[c] = m /\ docs' = docs /\ \A x \in Clients \ {c} : cmd'[x] = cmd[x]
  BY DEF QueueInv, Calls, Begin

\* A command that begins is prepared, as the step keeps QueueInv.
LEMMA BeganPrepared ==
  ASSUME QueueInv, NEW c \in Clients, NEW m, Begin(c, m),
         \E n : Begin(c, n) /\ Prepared(n, docs)
  PROVE  Prepared(m, docs)
  <1>1. PICK n : Begin(c, n) /\ Prepared(n, docs)
    OBVIOUS
  <1>2. cmd'[c] = m /\ cmd'[c] = n
    BY <1>1, BeganIs
  <1> QED
    BY <1>1, <1>2

LEMMA QuietBegin ==
  ASSUME QueueInv, NEW c \in Clients, NEW m, Begin(c, m),
         \E n : Begin(c, n) /\ Prepared(n, docs),
         m.op \notin Placing \cup {"refresh", "remove", "admit"}
  PROVE  \E n : Begin(c, n) /\ Judged(n) /\ Kept(n, docs)
  <1>1. Prepared(m, docs)
    BY BeganPrepared
  <1> QED
    BY <1>1, QuietRanks

LEMMA QualifyRanks ==
  ASSUME QueueInv, NEW c \in Clients, NEW p \in Plans, Qualify(c, p)
  PROVE  \E m : Begin(c, m) /\ Judged(m) /\ Kept(m, docs)
  <1> DEFINE w == Both(Value(Plan(p), [state |-> "queued", pins |-> Pins(p, findings)]),
                       Value(Idea(p), "qualified"))
             m == Command("qualify", p, w)
  <1>1. Begin(c, m)
    BY DEF Qualify
  <1>2. m.op = "qualify"
    BY DEF Command
  <1>3. \E n : Begin(c, n) /\ Prepared(n, docs)
    BY QualifyIs
  <1> HIDE DEF m
  <1> QED
    BY <1>1, <1>2, <1>3, QuietBegin DEF Placing

LEMMA DismissRanks ==
  ASSUME QueueInv, NEW c \in Clients, NEW p \in Plans, Dismiss(c, p)
  PROVE  \E m : Begin(c, m) /\ Judged(m) /\ Kept(m, docs)
  <1> DEFINE m == Command("dismiss", p, Value(Idea(p), "dismissed"))
  <1>1. Begin(c, m)
    BY DEF Dismiss
  <1>2. m.op = "dismiss"
    BY DEF Command
  <1>3. \E n : Begin(c, n) /\ Prepared(n, docs)
    BY DismissIs
  <1> HIDE DEF m
  <1> QED
    BY <1>1, <1>2, <1>3, QuietBegin DEF Placing

LEMMA SetPolicyRanks ==
  ASSUME Lined, QueueInv, NEW c \in Clients, SetPolicy(c)
  PROVE  \E m : Begin(c, m) /\ Judged(m) /\ Kept(m, docs)
  <1>1. PICK value : Begin(c, Command("policy", Underway, Value(Policy, value)))
    BY DEF SetPolicy
  <1> DEFINE m == Command("policy", Underway, Value(Policy, value))
  <1>2. Begin(c, m)
    BY <1>1
  <1>3. m.op = "policy"
    BY DEF Command
  <1>4. \E n : Begin(c, n) /\ Prepared(n, docs)
    BY SetPolicyIs
  <1> HIDE DEF m
  <1> QED
    BY <1>2, <1>3, <1>4, QuietBegin DEF Placing

LEMMA CloseRanks ==
  ASSUME QueueInv, NEW c \in Clients, NEW p \in Plans, Close(c, p)
  PROVE  \E m : Begin(c, m) /\ Judged(m) /\ Kept(m, docs)
  <1> DEFINE a == [state |-> "completed", pins |-> docs[Plan(p)].val.pins]
             m == Command("close", p, Value(Plan(p), a))
  <1>1. PICK finding \in Conclusions(p) :
          Begin(c, [m EXCEPT !.finding = finding, !.stale = TRUE])
    BY DEF Close
  <1> DEFINE n == [m EXCEPT !.finding = finding, !.stale = TRUE]
  <1>2. Begin(c, n)
    BY <1>1
  <1>3. n.op = "close"
    BY DEF Command
  <1>4. \E x : Begin(c, x) /\ Prepared(x, docs)
    BY CloseIs
  <1> HIDE DEF n
  <1> QED
    BY <1>2, <1>3, <1>4, QuietBegin DEF Placing

LEMMA RefreshRanks ==
  ASSUME QueueInv, NEW c \in Clients, NEW p \in Plans, Refresh(c, p)
  PROVE  \E m : Begin(c, m) /\ Judged(m) /\ Kept(m, docs)
  <1> DEFINE w == RefreshWrites(p)
             m == Command("refresh", p, w)
             n == [m EXCEPT !.stale = TRUE]
  <1>1. Begin(c, n)
    BY DEF Refresh
  <1>2. /\ Queue \in DOMAIN w <=> p \in Listed(docs[Queue].val)
        /\ p \in Listed(docs[Queue].val) => w[Queue] = Without(docs[Queue].val, p)
    BY RefreshIs
  <1> HIDE DEF w
  <1>3. n.op = "refresh" /\ n.plan = p /\ n.writes = w
    BY DEF Command
  <1>4. Line(docs[Queue].val)
    BY DEF QueueInv, Good
  <1> HIDE DEF n
  <1>5. Judged(n) /\ Kept(n, docs)
    BY <1>2, <1>3, <1>4, LeavingRanks
  <1> QED
    BY <1>1, <1>5

LEMMA RemoveRanks ==
  ASSUME QueueInv, NEW c \in Clients, NEW p \in Plans, Remove(c, p)
  PROVE  \E m : Begin(c, m) /\ Judged(m) /\ Kept(m, docs)
  <1> DEFINE v == Value(Queue, Without(docs[Queue].val, p))
             w == Both(v, Requalified(p))
             m == Command("remove", p, w)
  <1>1. Begin(c, m) /\ p \in Listed(docs[Queue].val)
    BY DEF Remove
  <1>2. DOMAIN v = {Queue} /\ v[Queue] = Without(docs[Queue].val, p)
    BY ValueIs
  <1> HIDE DEF v
  <1>3. \A x \in DOMAIN v : w[x] = v[x]
    BY BothIs
  <1>4. w[Queue] = Without(docs[Queue].val, p)
    BY <1>2, <1>3
  <1> HIDE DEF w
  <1>5. m.op = "remove" /\ m.plan = p /\ m.writes = w
    BY DEF Command
  <1>6. Line(docs[Queue].val)
    BY DEF QueueInv, Good
  <1> HIDE DEF m
  <1>7. Judged(m) /\ Kept(m, docs)
    BY <1>1, <1>4, <1>5, <1>6, LeavingRanks
  <1> QED
    BY <1>1, <1>7

LEMMA InsertRanks ==
  ASSUME QueueInv, NEW c \in Clients, NEW p \in Plans, NEW pinned \in BOOLEAN, Insert(c, p, pinned)
  PROVE  \E m : Begin(c, m) /\ Judged(m) /\ Kept(m, docs)
  <1>1. PICK n \in Positions(p) : Begin(c, Command("insert", p, InsertWrites(p, n, pinned)))
    BY DEF Insert
  <1> DEFINE q == docs[Queue].val
             e == Entry(p, docs[Plan(p)].rev, pinned)
             v == Value(Queue, Place(q, n, e))
             w == Both(v, QueuedIdea(p))
             m == Command("insert", p, w)
  <1>2. Begin(c, m)
    BY <1>1 DEF InsertWrites
  <1>3. Line(q) /\ e \in EntryType /\ e.plan \notin Listed(q)
    <2>1. p \notin Listed(q) /\ Line(q) /\ e \in EntryType /\ e.plan = p
      BY InsertableIs DEF Insert
    <2> QED
      BY <2>1
  <1>4. n \in 0 .. Len(q)
    BY <1>1 DEF Positions
  <1>5. DOMAIN v = {Queue} /\ v[Queue] = Place(q, n, e)
    BY ValueIs
  <1> HIDE DEF v, e
  <1>6. \A x \in DOMAIN v : w[x] = v[x]
    BY BothIs
  <1>7. w[Queue] = Place(q, n, e)
    BY <1>5, <1>6
  <1> HIDE DEF w
  <1>8. m.op = "insert" /\ m.writes = w
    BY DEF Command
  <1> HIDE DEF m, q
  <1>9. Follows(Ranks(q), Ranks(m.writes[Queue]))
    <2>1. Follows(Ranks(q), Ranks(Place(q, n, e)))
      BY <1>3, <1>4, EnteredFollows
    <2> QED
      BY <1>7, <1>8, <2>1
  <1>10. Judged(m) /\ Kept(m, docs)
    BY <1>8, <1>9 DEF Judged, Kept, q
  <1> QED
    BY <1>2, <1>10

\* What an agent ranks first has no battles behind it, and climbs.
LEMMA AdviseRanks ==
  ASSUME QueueInv, NEW c \in Clients, NEW p \in Plans, NEW pinned \in BOOLEAN, Advise(c, p, pinned)
  PROVE  \E m : Begin(c, m) /\ Judged(m) /\ Kept(m, docs)
  <1> DEFINE q == docs[Queue].val
             e == Entry(p, docs[Plan(p)].rev, pinned)
             w == Both(QueuedIdea(p), Value(Queue, q))
             shown == Append(q, e)
  <1>1. PICK n \in 0 .. Len(q), ties \in BOOLEAN :
          Begin(c, [Command("battle", p, w) EXCEPT
                      !.rank = [order |-> Place(Ranks(q), n, p),
                                at |-> n + 1, up |-> TRUE, audits |-> <<>>, ties |-> ties],
                      !.asked = shown])
    BY DEF Advise
  <1> DEFINE order == Place(Ranks(q), n, p)
             rank == [order |-> order, at |-> n + 1, up |-> TRUE, audits |-> <<>>, ties |-> ties]
             m == Command("battle", p, w)
             b == [m EXCEPT !.rank = rank, !.asked = shown]
  <1>2. Begin(c, b)
    BY <1>1
  <1>3. p \notin Listed(q) /\ Line(q) /\ e \in EntryType /\ e.plan = p
    BY InsertableIs DEF Advise
  <1>4. n \in 0 .. Len(q)
    OBVIOUS
  <1> HIDE DEF e, w
  <1>5. n + 1 \in DOMAIN order /\ Orders(order, Listed(shown))
    <2> HIDE DEF q
    <2>1. /\ n + 1 \in DOMAIN Place(Ranks(q), n, e.plan)
          /\ Orders(Place(Ranks(q), n, e.plan), Listed(Append(q, e)))
      BY <1>3, <1>4, ShownIs
    <2> QED
      BY <1>3, <2>1
  <1>6. Follows(Ranks(q), order) /\ order[n + 1] = p
    <2> HIDE DEF q
    <2> QED
      BY <1>3, <1>4, RankedFollows
  <1> HIDE DEF order, shown
  <1>7. b.op = "battle" /\ b.plan = p /\ b.rank = rank /\ b.asked = shown
    BY DEF Command
  <1>8. rank.order = order /\ rank.at = n + 1 /\ rank.up = TRUE /\ rank.audits = <<>>
    OBVIOUS
  <1> HIDE DEF b, rank, q
  <1>9. Settled(rank, p, Listed(shown))
    <2>1. <<>> \in Seq(Plans \X Outcomes)
      BY EmptySeq
    <2> QED
      BY <1>5, <1>6, <1>8, <2>1 DEF Settled
  <1>10. Judged(b)
    BY <1>7, <1>8, <1>9 DEF Judged
  <1>11. Kept(b, docs)
    BY <1>6, <1>7, <1>8 DEF Kept, q
  <1> QED
    BY <1>2, <1>10, <1>11

\* Nothing is admitted but at the revision it is ranked with.
LEMMA AdmitRanks ==
  ASSUME QueueInv, NEW c \in Clients, Admit(c)
  PROVE  \E m : Begin(c, m) /\ Judged(m) /\ Kept(m, docs)
  <1> DEFINE q == docs[Queue].val
  <1>1. PICK p \in Eligible : Begin(c, Command("admit", p, AdmitWrites(p)))
    BY DEF Admit
  <1>2. Line(q) /\ Repairable(docs, findings) = {}
    BY DEF QueueInv, Good, Admit, Dispatchable, Valid
  <1>3. 1 \in DOMAIN q /\ q[1].plan = p
    <2>1. \E x \in Frontier : p = x.plan
      BY DEF Eligible
    <2> QED
      BY <2>1 DEF Frontier
  <1>4. q # <<>>
    BY <1>2, <1>3, LineIs, EmptySeq
  <1>5. q[1] = Entry(p, docs[Plan(p)].rev, q[1].pinned)
    <2>1. q[1].rev = docs[Plan(p)].rev
      <3>1. <<"queue.plan_stale", q[1].plan>> \notin Repairable(docs, findings)
        BY <1>2
      <3> QED
        BY <1>3, <3>1, RepairableIs
    <2>2. q[1] \in EntryType
      BY <1>2, <1>3, LineIs
    <2> HIDE DEF q
    <2>3. q[1] = [plan |-> q[1].plan, rev |-> q[1].rev, pinned |-> q[1].pinned]
      BY <2>2 DEF EntryType
    <2> QED
      BY <1>3, <2>1, <2>3 DEF Entry
  <1> DEFINE a == [state |-> "started", pins |-> docs[Plan(p)].val.pins]
             v == Value(Plan(p), a)
             u == Value(Queue, Tail(q))
             w == Both(v, u)
             m == Command("admit", p, w)
  <1>6. Begin(c, m)
    BY <1>1 DEF AdmitWrites
  <1>7. Plan(p) # Queue
    BY Keys
  <1> HIDE DEF q, a
  <1>8. DOMAIN v = {Plan(p)} /\ DOMAIN u = {Queue} /\ u[Queue] = Tail(q)
    BY ValueIs
  <1> HIDE DEF u, v
  <1>9. \A x \in DOMAIN u : x \notin DOMAIN v => w[x] = u[x]
    BY BothIs
  <1>10. w[Queue] = Tail(q)
    BY <1>7, <1>8, <1>9
  <1> HIDE DEF w
  <1>11. m.op = "admit" /\ m.plan = p /\ m.writes = w
    BY DEF Command
  <1> HIDE DEF m
  <1>12. Follows(Ranks(q), Ranks(w[Queue]))
    BY <1>2, <1>4, <1>10, TailFollows
  <1>13. Judged(m) /\ Kept(m, docs)
    BY <1>4, <1>5, <1>10, <1>11, <1>12 DEF Judged, Kept, q
  <1> QED
    BY <1>6, <1>13

-----------------------------------------------------------------------------
(* Battles put a Plan between neighbours that are settled                  *)

\* The Plan that battles stays where it is, and the one above is settled or
\* it climbs on.
LEMMA StaysRanked ==
  ASSUME NEW m, NEW d, Judged(m), Kept(m, d), m.op = "battle",
         NEW n, n.op = "battle", n.plan = m.plan, n.expect = m.expect, n.asked = m.asked,
         n.rank.order = m.rank.order, n.rank.at = m.rank.at,
         n.rank.audits \in Seq(Plans \X Outcomes), Above(n.rank)
  PROVE  Judged(n) /\ Kept(n, d)
  <1>1. Settled(n.rank, n.plan, Listed(n.asked))
    BY DEF Judged, Settled
  <1>2. Fits(n, d) => Follows(Ranks(d[Queue].val), n.rank.order)
    BY DEF Kept, Fits
  <1> QED
    BY <1>1, <1>2 DEF Judged, Kept

\* It trades places with a neighbour.
LEMMA MovesRanked ==
  ASSUME NEW m, NEW d, Prepared(m, d), Judged(m), Kept(m, d), m.op = "battle",
         NEW k \in DOMAIN m.rank.order, m.rank.at = k + 1 \/ k = m.rank.at + 1,
         NEW n, n.op = "battle", n.plan = m.plan, n.expect = m.expect, n.asked = m.asked,
         n.rank.order = Switch(m.rank.order, m.rank.at, k), n.rank.at = k,
         n.rank.audits \in Seq(Plans \X Outcomes), n.rank.up \/ Above(n.rank)
  PROVE  Judged(n) /\ Kept(n, d)
  <1> DEFINE order == m.rank.order
             i == m.rank.at
             S == Listed(m.asked)
             f == Ranks(d[Queue].val)
             new == Switch(order, i, k)
  <1>1. Orders(order, S) /\ i \in DOMAIN order /\ order[i] = m.plan
    BY DEF Judged, Settled
  <1>2. Orders(new, S) /\ DOMAIN new = DOMAIN order
    BY <1>1, SwapIs
  <1>3. k \in DOMAIN order /\ (i = k + 1 \/ k = i + 1)
    OBVIOUS
  <1>4. new[k] = order[i]
    <2>1. Len(order) \in Nat /\ DOMAIN order = 1 .. Len(order)
      BY <1>1, LenProperties DEF Orders
    <2> HIDE DEF order, i
    <2> QED
      BY <1>1, <1>3, <2>1 DEF Switch
  <1>5. Settled(n.rank, n.plan, Listed(n.asked))
    BY <1>1, <1>2, <1>4 DEF Settled
  <1>6. ASSUME Fits(n, d) PROVE Follows(f, new)
    <2>1. Fits(m, d)
      BY <1>6 DEF Fits
    <2>2. Follows(f, order)
      BY <2>1 DEF Kept
    <2>3. m.plan \notin Listed(d[Queue].val)
      BY <2>1 DEF Prepared, Seen, Placing
    <2>4. \A x \in DOMAIN f : f[x] # order[i]
      BY <1>1, <2>3 DEF Ranks, Listed
    <2> HIDE DEF order, i, S, f
    <2> QED
      BY <1>1, <1>3, <2>2, <2>4, SwappedFollows
  <1>7. Fits(n, d) => Follows(Ranks(d[Queue].val), n.rank.order)
    BY <1>6
  <1> QED
    BY <1>5, <1>7 DEF Judged, Kept

\* It is placed where both neighbours are settled.
LEMMA PlacedRanked ==
  ASSUME NEW m, NEW d, Prepared(m, d), Judged(m), Kept(m, d), m.op = "battle",
         NEW n, n.op = "ranked", n.plan = m.plan, n.expect = m.expect, n.asked = m.asked,
         n.rank.order = m.rank.order, n.rank.at = m.rank.at,
         n.rank.audits \in Seq(Plans \X Outcomes), Above(n.rank), Below(n.rank),
         n.writes = Both(Value(Queue, FromRanking(m, m.rank.order)), m.writes)
  PROVE  Judged(n) /\ Kept(n, d)
  <1> DEFINE w == FromRanking(m, m.rank.order)
  <1>1. Settled(m.rank, m.plan, Listed(m.asked)) /\ Line(m.asked)
    BY DEF Judged, Prepared, Ranking
  <1>2. Ranks(w) = m.rank.order
    BY <1>1, FromRankingIs DEF Settled
  <1> HIDE DEF w
  <1>3. Queue \in DOMAIN m.writes
    BY DEF Prepared, Shape, Placing
  <1>4. n.writes = Both(Value(Queue, w), m.writes)
    BY DEF w
  <1>5. n.writes[Queue] = w
    BY <1>3, <1>4, QueueWritten
  <1>6. Settled(n.rank, n.plan, Listed(n.asked))
    BY <1>1 DEF Settled
  <1>7. Fits(n, d) => Follows(Ranks(d[Queue].val), Ranks(w))
    BY <1>2 DEF Kept, Fits
  <1> QED
    BY <1>2, <1>5, <1>6, <1>7 DEF Judged, Kept

\* A verdict on the rival leaves what was said of the neighbour on the other side.
LEMMA Heard ==
  ASSUME NEW r, NEW p, NEW S, Settled(r, p, S), NEW k \in DOMAIN r.order,
         NEW o \in Outcomes
  PROVE  LET t == Append(r.audits, <<r.order[k], o>>)
         IN  /\ t \in Seq(Plans \X Outcomes)
             /\ \A O : o \in O => Said(t, r.order[k], O)
             /\ \A i \in DOMAIN r.order : \A O : i # k /\ Said(r.audits, r.order[i], O) => Said(t, r.order[i], O)
  <1>1. r.audits \in Seq(Plans \X Outcomes) /\ r.order[k] \in Plans
    BY LenProperties, ElementOfSeq DEF Settled, Orders
  <1>2. \A i \in DOMAIN r.order : i # k => r.order[i] # r.order[k]
    BY DEF Settled, Orders
  <1> QED
    BY <1>1, <1>2, SaidNow

\* Who the rival is.
LEMMA RivalIs ==
  ASSUME NEW r, r.order \in Seq(Plans), r.at \in DOMAIN r.order
  PROVE  LET k == Opponent(r)
         IN  /\ k = 0 /\ r.up => ~(r.at > 1)
             /\ k = 0 /\ ~r.up => ~(r.at < Len(r.order))
             /\ k # 0 => k \in DOMAIN r.order
             /\ k # 0 /\ r.up => r.at = k + 1
             /\ k # 0 /\ ~r.up => k = r.at + 1
  <1>1. Len(r.order) \in Nat /\ DOMAIN r.order = 1 .. Len(r.order)
    BY LenProperties
  <1>2. CASE r.up
    BY <1>1, <1>2 DEF Opponent
  <1>3. CASE ~r.up
    BY <1>1, <1>3 DEF Opponent
  <1> QED
    BY <1>2, <1>3

\* A battle keeps the order that was seen, and what was said of neighbours.
LEMMA BattleRanks ==
  ASSUME QueueInv, RankInv, NEW c \in Clients, Battle(c)
  PROVE  Judged(cmd'[c]) /\ Kept(cmd'[c], docs)
  <1> DEFINE m == cmd[c]
             r == m.rank
             rival == Opponent(r)
             audited(o) == [r EXCEPT !.audits = Append(@, <<r.order[rival], o>>)]
             moved(o) == [audited(o) EXCEPT !.order = Switch(@, r.at, rival), !.at = rival]
             Decided(rank) == [cmd EXCEPT ![c].rank = rank, ![c].op = "ranked",
                   ![c].writes = Both(Value(Queue, FromRanking(cmd[c], rank.order)), cmd[c].writes)]
             stays(o) == o = "incumbent" \/ (o = "tie" /\ ~r.ties)
             n == cmd'[c]
  <1>1. m.op = "battle" /\ Prepared(m, docs) /\ DOMAIN cmd = Clients /\ Judged(m) /\ Kept(m, docs)
    BY DEF QueueInv, RankInv, Calls, Battle
  <1>2. /\ DOMAIN m = {"op", "plan", "writes", "expect", "finding", "stale", "rank", "asked"}
        /\ DOMAIN r = {"order", "at", "up", "audits", "ties"}
    BY <1>1 DEF Prepared, IsRecord
  <1>3. Settled(r, m.plan, Listed(m.asked)) /\ (r.up \/ Above(r))
    BY <1>1 DEF Judged
  <1>4. /\ r.order \in Seq(Plans) /\ r.at \in DOMAIN r.order /\ r.audits \in Seq(Plans \X Outcomes)
        /\ Len(r.order) \in Nat /\ DOMAIN r.order = 1 .. Len(r.order)
    BY <1>3, LenProperties DEF Settled, Orders
  <1>5. /\ rival = 0 /\ r.up => ~(r.at > 1)
        /\ rival = 0 /\ ~r.up => ~(r.at < Len(r.order))
        /\ rival # 0 => rival \in DOMAIN r.order
        /\ rival # 0 /\ r.up => r.at = rival + 1
        /\ rival # 0 /\ ~r.up => rival = r.at + 1
    BY <1>4, RivalIs
  <1>6. PICK outcome \in Outcomes :
          \/ rival = 0 /\ r.up /\ cmd' = [cmd EXCEPT ![c].rank.up = FALSE]
          \/ rival = 0 /\ ~r.up /\ cmd' = Decided(r)
          \/ rival # 0 /\ cmd' = [cmd EXCEPT ![c].rank = audited(outcome), ![c].op = "audit",
                                             ![c].writes = <<>>, ![c].expect = <<>>]
          \/ rival # 0 /\ r.up /\ cmd' = [cmd EXCEPT ![c].rank = moved(outcome)]
          \/ rival # 0 /\ r.up /\ stays(outcome)
             /\ cmd' = [cmd EXCEPT ![c].rank = [audited(outcome) EXCEPT !.up = FALSE]]
          \/ rival # 0 /\ ~r.up /\ outcome = "challenger" /\ cmd' = Decided(audited(outcome))
          \/ rival # 0 /\ ~r.up /\ stays(outcome) /\ cmd' = [cmd EXCEPT ![c].rank = moved(outcome)]
    BY DEF Battle, Outcomes
  <1> DEFINE heard == Append(r.audits, <<r.order[rival], outcome>>)
  <1>7. rival # 0 =>
          /\ heard \in Seq(Plans \X Outcomes)
          /\ \A O : outcome \in O => Said(heard, r.order[rival], O)
          /\ \A i \in DOMAIN r.order : \A O :
               i # rival /\ Said(r.audits, r.order[i], O) => Said(heard, r.order[i], O)
    <2> HIDE DEF r, m, rival
    <2> QED
      BY <1>3, <1>5, Heard
  <1>8. CASE rival = 0 /\ r.up /\ cmd' = [cmd EXCEPT ![c].rank.up = FALSE]
    <2>1. n = [m EXCEPT !.rank = [r EXCEPT !.up = FALSE]]
      BY <1>1, <1>8
    <2> HIDE DEF n
    <2>2. /\ n.op = "battle" /\ n.plan = m.plan /\ n.expect = m.expect /\ n.asked = m.asked
          /\ n.rank.order = r.order /\ n.rank.at = r.at /\ n.rank.audits = r.audits
      BY <1>1, <1>2, <2>1
    <2>3. Above(n.rank)
      BY <1>5, <1>8, <2>2 DEF Above
    <2>4. Judged(n) /\ Kept(n, docs)
      BY <1>1, <1>4, <2>2, <2>3, StaysRanked
    <2> QED
      BY <2>4 DEF n
  <1>9. CASE rival = 0 /\ ~r.up /\ cmd' = Decided(r)
    <2> DEFINE w == Both(Value(Queue, FromRanking(m, r.order)), m.writes)
    <2>1. n = [[[m EXCEPT !.rank = r] EXCEPT !.op = "ranked"] EXCEPT !.writes = w]
      BY <1>1, <1>9
    <2>2. w = Both(Value(Queue, FromRanking(m, r.order)), m.writes)
      OBVIOUS
    <2> HIDE DEF n, w
    <2>3. /\ n.op = "ranked" /\ n.plan = m.plan /\ n.expect = m.expect /\ n.asked = m.asked
          /\ n.rank = r /\ n.writes = w
      BY <1>1, <1>2, <2>1
    <2>4. Above(n.rank) /\ Below(n.rank)
      BY <1>3, <1>5, <1>9, <2>3 DEF Below
    <2>5. Judged(n) /\ Kept(n, docs)
      BY <1>1, <1>4, <2>2, <2>3, <2>4, PlacedRanked
    <2> QED
      BY <2>5 DEF n
  <1>10. CASE rival # 0 /\ cmd' = [cmd EXCEPT ![c].rank = audited(outcome), ![c].op = "audit",
                                              ![c].writes = <<>>, ![c].expect = <<>>]
    <2>1. n = [[[[m EXCEPT !.rank = audited(outcome)] EXCEPT !.op = "audit"]
                 EXCEPT !.writes = <<>>] EXCEPT !.expect = <<>>]
      BY <1>1, <1>10
    <2>2. Prepared(n, docs)
      BY BattleIs
    <2> HIDE DEF n
    <2>3. n.op = "audit"
      BY <1>1, <1>2, <2>1
    <2>4. Judged(n) /\ Kept(n, docs)
      BY <2>2, <2>3, QuietRanks DEF Placing
    <2> QED
      BY <2>4 DEF n
  <1>11. CASE /\ rival # 0 /\ cmd' = [cmd EXCEPT ![c].rank = moved(outcome)]
              /\ r.up \/ (~r.up /\ stays(outcome))
    <2>1. n = [m EXCEPT !.rank = moved(outcome)]
      BY <1>1, <1>11
    <2> HIDE DEF n
    <2>2. /\ n.op = "battle" /\ n.plan = m.plan /\ n.expect = m.expect /\ n.asked = m.asked
          /\ n.rank.order = Switch(r.order, r.at, rival) /\ n.rank.at = rival
          /\ n.rank.audits = heard /\ n.rank.up = r.up
      BY <1>1, <1>2, <2>1
    <2>3. rival \in DOMAIN r.order /\ (r.at = rival + 1 \/ rival = r.at + 1)
      BY <1>5, <1>11
    <2>4. n.rank.up \/ Above(n.rank)
      <3>1. CASE r.up
        BY <2>2, <3>1
      <3>2. CASE ~r.up /\ stays(outcome)
        <4>1. rival = r.at + 1 /\ n.rank.at - 1 = r.at
          BY <1>4, <1>5, <1>11, <2>2, <3>2
        <4>2. n.rank.order[r.at] = r.order[rival]
          <5>1. n.rank.order = [r.order EXCEPT ![r.at] = r.order[rival], ![rival] = r.order[r.at]]
            BY <2>2 DEF Switch
          <5> HIDE DEF r, rival
          <5> QED
            BY <1>4, <2>3, <4>1, <5>1
        <4>3. Said(heard, r.order[rival], {"incumbent", "tie"})
          BY <1>7, <1>11, <3>2
        <4> HIDE DEF heard, r, rival
        <4> QED
          BY <2>2, <4>1, <4>2, <4>3 DEF Above
      <3> QED
        BY <1>11, <3>1, <3>2
    <2>5. n.rank.audits \in Seq(Plans \X Outcomes)
      BY <1>7, <1>11, <2>2
    <2> HIDE DEF heard, rival
    <2>6. Judged(n) /\ Kept(n, docs)
      BY <1>1, <2>2, <2>3, <2>4, <2>5, MovesRanked
    <2> QED
      BY <2>6 DEF n
  <1>12. CASE rival # 0 /\ r.up /\ stays(outcome)
              /\ cmd' = [cmd EXCEPT ![c].rank = [audited(outcome) EXCEPT !.up = FALSE]]
    <2>1. n = [m EXCEPT !.rank = [audited(outcome) EXCEPT !.up = FALSE]]
      BY <1>1, <1>12
    <2> HIDE DEF n
    <2>2. /\ n.op = "battle" /\ n.plan = m.plan /\ n.expect = m.expect /\ n.asked = m.asked
          /\ n.rank.order = r.order /\ n.rank.at = r.at /\ n.rank.audits = heard
      BY <1>1, <1>2, <2>1
    <2>3. heard \in Seq(Plans \X Outcomes) /\ Said(heard, r.order[rival], {"incumbent", "tie"})
      BY <1>7, <1>12
    <2>4. r.at - 1 = rival
      <3>1. r.at = rival + 1 /\ rival \in DOMAIN r.order
        BY <1>5, <1>12
      <3> HIDE DEF r, rival
      <3> QED
        BY <1>4, <3>1
    <2> HIDE DEF heard, rival
    <2>5. Above(n.rank)
      BY <2>2, <2>3, <2>4 DEF Above
    <2>6. Judged(n) /\ Kept(n, docs)
      BY <1>1, <2>2, <2>3, <2>5, StaysRanked
    <2> QED
      BY <2>6 DEF n
  <1>13. CASE rival # 0 /\ ~r.up /\ outcome = "challenger" /\ cmd' = Decided(audited(outcome))
    <2> DEFINE w == Both(Value(Queue, FromRanking(m, r.order)), m.writes)
    <2>1. audited(outcome).order = r.order
      BY <1>2
    <2>2. n = [[[m EXCEPT !.rank = audited(outcome)] EXCEPT !.op = "ranked"] EXCEPT !.writes = w]
      BY <1>1, <1>13, <2>1
    <2>3. w = Both(Value(Queue, FromRanking(m, r.order)), m.writes)
      OBVIOUS
    <2> HIDE DEF n, w
    <2>4. /\ n.op = "ranked" /\ n.plan = m.plan /\ n.expect = m.expect /\ n.asked = m.asked
          /\ n.rank.order = r.order /\ n.rank.at = r.at /\ n.rank.audits = heard /\ n.writes = w
      BY <1>1, <1>2, <2>2
    <2>5. heard \in Seq(Plans \X Outcomes) /\ Said(heard, r.order[rival], {"challenger"})
      BY <1>7, <1>13
    <2>6. rival = r.at + 1 /\ Above(r)
      BY <1>3, <1>5, <1>13
    <2>7. r.at > 1 => Said(heard, r.order[r.at - 1], {"incumbent", "tie"})
      <3>1. r.at > 1 => r.at - 1 \in DOMAIN r.order /\ r.at - 1 # rival
        BY <1>4, <2>6
      <3> HIDE DEF heard, rival, r
      <3> QED
        BY <1>7, <1>13, <2>6, <3>1 DEF Above
    <2> HIDE DEF heard, rival
    <2>8. Above(n.rank) /\ Below(n.rank)
      BY <2>4, <2>5, <2>6, <2>7 DEF Above, Below
    <2>9. Judged(n) /\ Kept(n, docs)
      BY <1>1, <2>3, <2>4, <2>5, <2>8, PlacedRanked
    <2> QED
      BY <2>9 DEF n
  <1> HIDE DEF n, r, rival, heard
  <1> QED
    BY <1>6, <1>8, <1>9, <1>10, <1>11, <1>12, <1>13

-----------------------------------------------------------------------------
(* Every step keeps the order                                              *)

LEMMA BeginOrders ==
  ASSUME QueueInv, RankInv, NEW c \in Clients, \E m : Begin(c, m) /\ Judged(m) /\ Kept(m, docs)
  PROVE  RankInv'
  <1>1. PICK m : Begin(c, m) /\ Judged(m) /\ Kept(m, docs)
    OBVIOUS
  <1>2. cmd'[c] = m /\ docs' = docs /\ \A x \in Clients \ {c} : cmd'[x] = cmd[x]
    BY <1>1, BeganIs
  <1>3. ASSUME NEW x \in Clients, cmd'[x] # Idle
        PROVE  Judged(cmd'[x]) /\ Kept(cmd'[x], docs')
    <2>1. CASE x = c
      BY <1>1, <1>2, <2>1
    <2>2. CASE x # c
      BY <1>2, <1>3, <2>2 DEF RankInv
    <2> QED
      BY <2>1, <2>2
  <1> QED
    BY <1>3 DEF RankInv

LEMMA BattleOrders ==
  ASSUME QueueInv, RankInv, NEW c \in Clients, Battle(c)
  PROVE  RankInv'
  <1>1. docs' = docs /\ \A x \in Clients \ {c} : cmd'[x] = cmd[x]
    BY BattleIs DEF Battle
  <1>2. Judged(cmd'[c]) /\ Kept(cmd'[c], docs)
    BY BattleRanks
  <1>3. ASSUME NEW x \in Clients, cmd'[x] # Idle
        PROVE  Judged(cmd'[x]) /\ Kept(cmd'[x], docs')
    <2>1. CASE x = c
      BY <1>1, <1>2, <2>1
    <2>2. CASE x # c
      BY <1>1, <1>3, <2>2 DEF RankInv
    <2> QED
      BY <2>1, <2>2
  <1> QED
    BY <1>3 DEF RankInv

\* What a command saw of the documents it writes is as it saw it until
\* another one writes them, which it notices.
LEMMA StaysKept ==
  ASSUME Good(docs), NEW c, Prepared(cmd[c], docs), NEW m, Prepared(m, docs), Kept(m, docs)
  PROVE  Kept(m, After(c))
  <1> SUFFICES ASSUME Fits(m, After(c))
               PROVE  Kept(m, After(c))
    BY DEF Kept
  <1>1. DOMAIN cmd[c].writes \subseteq Docs
    <2>1. /\ DOMAIN cmd[c].writes \subseteq
                {Plan(cmd[c].plan), Idea(cmd[c].plan), Queue, Policy}
          /\ cmd[c].plan \in Plans
      BY WritesFew DEF Prepared
    <2> QED
      BY <2>1, Keys
  <1>2. Past(m, docs) /\ DOMAIN m.expect = DOMAIN m.writes
    BY DEF Prepared
  <1>3. Fits(m, docs) /\ \A k \in DOMAIN m.writes : After(c)[k] = docs[k]
    BY <1>1, <1>2, Apart
  <1>4. Shape(m, DOMAIN m.writes, Plan(m.plan), Idea(m.plan))
    BY DEF Prepared
  <1>5. m.op = "battle" => After(c)[Queue] = docs[Queue]
    BY <1>3, <1>4 DEF Shape, Placing
  <1>6. m.op = "admit" => After(c)[Queue] = docs[Queue] /\ After(c)[Plan(m.plan)] = docs[Plan(m.plan)]
    BY <1>3, <1>4 DEF Shape
  <1>7. Queue \in DOMAIN m.writes => After(c)[Queue] = docs[Queue]
    BY <1>3
  <1> QED
    BY <1>3, <1>5, <1>6, <1>7 DEF Kept

\* The case in which a command commits is that it names current revisions.
LEMMA CommitOrders ==
  ASSUME QueueInv, RankInv, NEW c \in Clients, Commit(c)
  PROVE  RankInv'
  <1>1. /\ cmd[c] # Idle /\ docs' \in {docs, After(c)} /\ cmd' = [cmd EXCEPT ![c] = Idle]
        /\ Good(docs) /\ DOMAIN cmd = Clients /\ Prepared(cmd[c], docs)
    BY DEF Commit, QueueInv, Calls
  <1>2. ASSUME NEW x \in Clients, cmd'[x] # Idle
        PROVE  Judged(cmd'[x]) /\ Kept(cmd'[x], docs')
    <2>1. cmd'[x] = cmd[x]
      BY <1>1, <1>2
    <2>2. Judged(cmd[x]) /\ Kept(cmd[x], docs) /\ Prepared(cmd[x], docs)
      BY <1>2, <2>1 DEF RankInv, QueueInv, Calls
    <2>3. Kept(cmd[x], After(c))
      BY <1>1, <2>2, StaysKept
    <2> QED
      BY <1>1, <2>1, <2>2, <2>3
  <1> QED
    BY <1>2 DEF RankInv

LEMMA FailOrders ==
  ASSUME QueueInv, RankInv, NEW c \in Clients, Fail(c)
  PROVE  RankInv'
  <1>1. docs' = docs /\ DOMAIN cmd = Clients /\ cmd' = [cmd EXCEPT ![c] = Idle]
    BY DEF Fail, QueueInv, Calls
  <1>2. ASSUME NEW x \in Clients, cmd'[x] # Idle
        PROVE  Judged(cmd'[x]) /\ Kept(cmd'[x], docs')
    BY <1>1, <1>2 DEF RankInv
  <1> QED
    BY <1>2 DEF RankInv

LEMMA StutterOrders ==
  ASSUME RankInv, UNCHANGED <<docs, cmd>>
  PROVE  RankInv'
  BY DEF RankInv

-----------------------------------------------------------------------------
(* What a step does to the order                                           *)

\* What follows has the order of the Queue.
LEMMA OrderFollows ==
  ASSUME Line(docs[Queue].val), Line(docs'[Queue].val),
         Follows(Ranks(docs[Queue].val), Ranks(docs'[Queue].val))
  PROVE  OrderKept
  <1> DEFINE old == docs[Queue].val
             new == docs'[Queue].val
             At(q, p) == CHOOSE i \in DOMAIN q : q[i].plan = p
  <1>1. ASSUME NEW q, NEW p \in Listed(q) PROVE At(q, p) \in DOMAIN q /\ q[At(q, p)].plan = p
    BY DEF Listed
  <1>2. ASSUME NEW p \in Listed(old) \cap Listed(new), NEW r \in Listed(old) \cap Listed(new),
               At(old, p) < At(old, r)
        PROVE  At(new, p) < At(new, r)
    <2>1. /\ At(old, p) \in DOMAIN old /\ old[At(old, p)].plan = p
          /\ At(old, r) \in DOMAIN old /\ old[At(old, r)].plan = r
          /\ At(new, p) \in DOMAIN new /\ new[At(new, p)].plan = p
          /\ At(new, r) \in DOMAIN new /\ new[At(new, r)].plan = r
      BY <1>1
    <2> HIDE DEF At, old, new
    <2>2. Follows(Ranks(old), Ranks(new))
      BY DEF old, new
    <2> QED
      BY <1>2, <2>1, <2>2 DEF Follows, Ranks
  <1> QED
    BY <1>2 DEF OrderKept

\* Nothing is ranked by a step that leaves the documents alone.
LEMMA StillRanked ==
  ASSUME docs' = docs
  PROVE  Ranked
  <1>1. OrderKept
    BY Zenon DEF OrderKept
  <1>2. Justified
    BY DEF Justified
  <1>3. AdmittedAsRanked
    BY DEF AdmittedAsRanked
  <1> QED
    BY <1>1, <1>2, <1>3 DEF Ranked

\* What a command publishes is ranked.
LEMMA CommitRanked ==
  ASSUME QueueInv, RankInv, NEW c \in Clients, Commit(c)
  PROVE  Ranked
  <1> DEFINE m == cmd[c]
             W == DOMAIN m.writes
             q == docs[Queue].val
             w == docs'[Queue].val
  <1>1. /\ m # Idle /\ m.op # "battle" /\ cmd' = [cmd EXCEPT ![c] = Idle]
        /\ docs' = IF Acceptable(c) THEN After(c) ELSE docs
        /\ Good(docs) /\ DOMAIN cmd = Clients /\ Prepared(m, docs) /\ Judged(m) /\ Kept(m, docs)
    BY DEF Commit, QueueInv, Calls, RankInv
  <1>2. CASE ~Acceptable(c)
    BY <1>1, <1>2, StillRanked
  <1>3. CASE Acceptable(c)
    <2>1. docs' = After(c) /\ Fits(m, docs)
      BY <1>1, <1>3 DEF Acceptable, Current, Fits
    <2>2. ASSUME NEW k \in Docs
          PROVE  /\ k \in W => docs'[k].val = m.writes[k]
                 /\ k \notin W => docs'[k] = docs[k]
      BY <2>1, AfterIs
    <2>3. Queue \in Docs /\ m.plan \in Plans
      BY <1>1, Keys DEF Prepared
    <2>4. Line(q) /\ (Queue \in W => Line(m.writes[Queue]) /\ w = m.writes[Queue])
      BY <1>1, <2>1, <2>2, <2>3, QueueAfter DEF Good
    <2>5. Shape(m, W, Plan(m.plan), Idea(m.plan)) /\ m.op \in Ops
      BY <1>1 DEF Prepared
    <2>6. OrderKept
      <3>1. CASE Queue \in W
        <4>1. Follows(Ranks(q), Ranks(w))
          BY <1>1, <2>1, <2>4, <3>1 DEF Kept
        <4> QED
          BY <2>4, <3>1, <4>1, OrderFollows
      <3>2. CASE Queue \notin W
        <4>1. docs'[Queue] = docs[Queue]
          BY <2>2, <2>3, <3>2
        <4> QED
          BY <4>1, Zenon DEF OrderKept
      <3> QED
        BY <3>1, <3>2
    <2>7. Justified
      <3> SUFFICES ASSUME NEW x \in Clients, cmd[x] # Idle, cmd[x].op = "ranked",
                          docs'[Queue].rev # docs[Queue].rev, cmd'[x] = Idle
                   PROVE  LET i == CHOOSE n \in DOMAIN w : w[n].plan = cmd[x].plan
                              said == cmd[x].rank.audits
                          IN  /\ i > 1 => Said(said, w[i - 1].plan, {"incumbent", "tie"})
                              /\ i < Len(w) => Said(said, w[i + 1].plan, {"challenger"})
        BY Zenon DEF Justified, Said
      <3>1. x = c
        BY <1>1
      <3> DEFINE r == m.rank
                 p == m.plan
                 i == CHOOSE n \in DOMAIN w : w[n].plan = p
      <3>2. /\ Settled(r, p, Listed(m.asked)) /\ Above(r) /\ Below(r)
            /\ Ranks(m.writes[Queue]) = r.order
        BY <1>1, <3>1 DEF Judged
      <3>3. Line(w) /\ Ranks(w) = r.order
        BY <2>4, <2>5, <3>1, <3>2 DEF Shape, Placing
      <3>4. /\ Len(w) \in Nat /\ DOMAIN w = 1 .. Len(w) /\ Distinct(w)
            /\ DOMAIN r.order = DOMAIN w /\ \A n \in DOMAIN w : r.order[n] = w[n].plan
        BY <3>3, LineIs DEF Line, Ranks
      <3>5. r.at \in DOMAIN w /\ w[r.at].plan = p
        BY <3>2, <3>4 DEF Settled
      <3>6. i = r.at
        BY <3>4, <3>5 DEF Distinct
      <3>7. Len(r.order) = Len(w)
        <4>1. r.order \in Seq(Plans)
          BY <3>2 DEF Settled, Orders
        <4> QED
          BY <3>4, <4>1, LenProperties
      <3> HIDE DEF i, w, r, m
      <3>8. i > 1 => Said(r.audits, w[i - 1].plan, {"incumbent", "tie"})
        <4>1. i > 1 => i - 1 \in DOMAIN w
          BY <3>4, <3>5, <3>6
        <4> QED
          BY <3>2, <3>4, <3>6, <4>1 DEF Above
      <3>9. i < Len(w) => Said(r.audits, w[i + 1].plan, {"challenger"})
        <4>1. i < Len(w) => i + 1 \in DOMAIN w
          BY <3>4, <3>5, <3>6
        <4> QED
          BY <3>2, <3>4, <3>6, <3>7, <4>1 DEF Below
      <3> QED
        BY <3>1, <3>8, <3>9 DEF i, r, m
    <2>8. AdmittedAsRanked
      <3> SUFFICES ASSUME NEW p \in Plans, docs[Plan(p)].val.state = "queued",
                          docs'[Plan(p)].val.state = "started"
                   PROVE  /\ q # <<>> /\ Head(q) = Entry(p, docs[Plan(p)].rev, Head(q).pinned)
                          /\ w = Tail(q)
        BY DEF AdmittedAsRanked
      <3>1. Plan(p) \in W /\ m.writes[Plan(p)].state = "started"
        BY <2>2, Keys
      <3>2. m.plan = p
        <4>1. Plan(p) \in {Plan(m.plan), Idea(m.plan), Queue, Policy}
          BY <1>1, <3>1, WritesFew
        <4> QED
          BY <4>1, Keys
      <3>3. m.op = "admit"
        <4>1. Plan(p) # Idea(p) /\ Plan(p) # Queue /\ Plan(p) # Policy
          BY Keys
        <4> HIDE DEF m, W
        <4> QED
          BY <1>1, <2>5, <3>1, <3>2, <4>1 DEF Shape, Ops, Placing, W
      <3>4. /\ q # <<>> /\ q[1] = Entry(p, docs[Plan(p)].rev, q[1].pinned)
            /\ m.writes[Queue] = Tail(q) /\ Queue \in W
        BY <1>1, <2>1, <2>5, <3>2, <3>3 DEF Kept, Shape
      <3>5. Head(q) = q[1]
        BY <2>4, <3>4, TailIs
      <3> QED
        BY <2>4, <3>4, <3>5
    <2> QED
      BY <2>6, <2>7, <2>8 DEF Ranked
  <1> QED
    BY <1>2, <1>3

LEMMA OrderStep ==
  ASSUME Lined, QueueInv, RankInv, [QueueNext]_queueVars
  PROVE  RankInv' /\ [Ranked]_queueVars
  <1>1. ASSUME NEW c \in Clients, \E m : Begin(c, m) /\ Judged(m) /\ Kept(m, docs)
        PROVE  RankInv' /\ Ranked
    <2>1. docs' = docs
      BY <1>1 DEF Begin
    <2> QED
      BY <1>1, <2>1, BeginOrders, StillRanked
  <1>2. ASSUME NEW c \in Clients, NEW p \in Plans, Qualify(c, p)
        PROVE  RankInv' /\ Ranked
    BY <1>1, <1>2, QualifyRanks
  <1>3. ASSUME NEW c \in Clients, NEW p \in Plans, Dismiss(c, p)
        PROVE  RankInv' /\ Ranked
    BY <1>1, <1>3, DismissRanks
  <1>4. ASSUME NEW c \in Clients, NEW p \in Plans, Refresh(c, p)
        PROVE  RankInv' /\ Ranked
    BY <1>1, <1>4, RefreshRanks
  <1>5. ASSUME NEW c \in Clients, NEW p \in Plans, Remove(c, p)
        PROVE  RankInv' /\ Ranked
    BY <1>1, <1>5, RemoveRanks
  <1>6. ASSUME NEW c \in Clients, NEW p \in Plans, Close(c, p)
        PROVE  RankInv' /\ Ranked
    BY <1>1, <1>6, CloseRanks
  <1>7. ASSUME NEW c \in Clients, NEW p \in Plans, NEW pinned \in BOOLEAN, Insert(c, p, pinned)
        PROVE  RankInv' /\ Ranked
    BY <1>1, <1>7, InsertRanks
  <1>8. ASSUME NEW c \in Clients, NEW p \in Plans, NEW pinned \in BOOLEAN, Advise(c, p, pinned)
        PROVE  RankInv' /\ Ranked
    BY <1>1, <1>8, AdviseRanks
  <1>9. ASSUME NEW c \in Clients, SetPolicy(c)
        PROVE  RankInv' /\ Ranked
    BY <1>1, <1>9, SetPolicyRanks
  <1>10. ASSUME NEW c \in Clients, Battle(c)
         PROVE  RankInv' /\ Ranked
    BY <1>10, BattleOrders, StillRanked DEF Battle
  <1>11. ASSUME NEW c \in Clients, Admit(c)
         PROVE  RankInv' /\ Ranked
    BY <1>1, <1>11, AdmitRanks
  <1>12. ASSUME NEW c \in Clients, Commit(c)
         PROVE  RankInv' /\ Ranked
    BY <1>12, CommitOrders, CommitRanked
  <1>13. ASSUME NEW c \in Clients, Fail(c)
         PROVE  RankInv' /\ Ranked
    BY <1>13, FailOrders, StillRanked DEF Fail
  <1>14. ASSUME NEW p \in Plans, Import(p)
         PROVE  RankInv' /\ Ranked
    BY <1>14, StutterOrders, StillRanked DEF Import
  <1>15. ASSUME UNCHANGED queueVars
         PROVE  RankInv' /\ [Ranked]_queueVars
    BY <1>15, StutterOrders DEF queueVars
  <1>16. ASSUME QueueNext
         PROVE  RankInv' /\ Ranked
    BY <1>2, <1>3, <1>4, <1>5, <1>6, <1>7, <1>8, <1>9, <1>10, <1>11, <1>12, <1>13, <1>14, <1>16
    DEF QueueNext
  <1> QED
    BY <1>15, <1>16

\* No change of the Queue swaps two Plans that stay in it; a Plan that an agent
\* ranked enters between neighbours that the last verdict on each settles; and
\* what is admitted is the head of the Queue at the revision it was ranked
\* with, whatever commands race and however long the agent takes
\* (queueflow.Advise, ranking, controlplane.Prepare).
THEOREM QueueKeepsRanking ==
  ASSUME Lined
  PROVE  QueueSpec => QueueRanked
  <1>1. QueueInit => QueueInv /\ RankInv
    <2>1. QueueInit => RankInv
      BY DEF QueueInit, RankInv
    <2> QED
      BY <2>1, QueueInitGood
  <1>2. QueueInv /\ RankInv /\ [QueueNext]_queueVars => (QueueInv /\ RankInv)' /\ [Ranked]_queueVars
    BY QueueStep, OrderStep
  <1> QED
    BY <1>1, <1>2, PTL DEF QueueSpec, QueueRanked

=============================================================================
