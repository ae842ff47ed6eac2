----------------------------- MODULE HostProofs ----------------------------
(***************************************************************************)
(* What a host keeps beside the records, for any number of users, files,   *)
(* clones and commands: trust receipts, the receipt and marker of a        *)
(* Project, the installed skill, and the clone registered for a Source.    *)
(*                                                                         *)
(* Trust: a value that is used was approved.  A receipt never says more    *)
(* than what was last decided (Reflects): the lock keeps the copy a        *)
(* decision starts from current until it is published.  What a load knows  *)
(* stood at some time of the load (Knows), because its window has gathered *)
(* every decision that stood since it began (Watches).  And the fields it  *)
(* has set so far are either untrusted or backed by the window (Backed).   *)
(*                                                                         *)
(* ProjectInit: one Project.  All that holds an identity, in Git, in a     *)
(* worktree, in the receipt or in the hands of a command, holds the one of *)
(* the receipt or the one there was at first (Identities).                 *)
(*                                                                         *)
(* Installer: reports are true.  What an installation has written stays    *)
(* unless it is edited (Written), the only temporary is its own            *)
(* (Temporaries), and a check that is content has seen the directory whole *)
(* or has yet to meet a file that is not its version's (Looks).            *)
(*                                                                         *)
(* Sources: a clone means its Source.  No home loses a record, so that the *)
(* registration that is about to be written is one of a record (Grounded). *)
(***************************************************************************)
EXTENDS Trust, ProjectInit, Installer, Sources, FiniteSetTheorems, TLAPS

-----------------------------------------------------------------------------
(* Types.                                                                  *)

Contents == Versions \cup {"absent"}
Directories == 0 .. 2
Stamp == [digest : Contents \cup {"none"}, id : Directories]
Standings == [subject : Subjects, cap : Capabilities, of : Stamp]
ReceiptRow == [subject : Subjects, digest : Contents \cup {"none"}, id : 1 .. 2,
               caps : SUBSET Capabilities]
Field == [layer : Layers \cup {"none"}, bytes : Contents \cup {"none"},
          id : Directories, trusted : BOOLEAN]

LoadTask ==
    [pc : {"read", "apply", "used"}, what : {"load"}, want : Wants,
     src : Selections \cup {FALSE}, left : Seq(Layers), layer : Layers, bytes : Contents,
     asked : BOOLEAN, known : SUBSET ReceiptRow, field : [Fields -> Field],
     window : SUBSET Standings]

DecisionTask ==
    [what : {"approve", "revoke"}, subject : Subjects, digest : Contents \cup {"none"},
     caps : SUBSET Capabilities, pc : {"confirm", "resolve", "identify", "lock", "publish"},
     id : Directories, basis : SUBSET ReceiptRow, seen : SUBSET ReceiptRow]

WorldTypes ==
    /\ content \in [Layers -> Contents]
    /\ identity \in [{"canon", "clone"} -> Directories]
    /\ receipts \subseteq ReceiptRow
    /\ decided \in [Subjects -> [Capabilities -> Stamp]]
    /\ locked \in Users \cup {Resting}
    /\ task \in [Users -> LoadTask \cup DecisionTask \cup {Resting}]

-----------------------------------------------------------------------------
(* What receipts and commands know.                                        *)

Of(r) == [digest |-> r.digest, id |-> r.id]
Stood(s, k, of) == [subject |-> s, cap |-> k, of |-> of]

\* A receipt grants what was last decided, and nothing else.
Backs(set, dec) == \A r \in set : \A k \in r.caps : dec[r.subject][k] = Of(r)
Reflects == Backs(receipts, decided)

\* The window of a load holds every decision that stands, ...
Watches(t, dec) == \A x \in Standing(dec) : x.of # Undecided => x \in t.window

\* ... so the receipts it has read are in it, ...
Knows(t) == \A r \in t.known : \A k \in r.caps : Stood(r.subject, k, Of(r)) \in t.window

\* ... and what it trusts.
Backed(t) == \A f \in Fields :
    LET v == t.field[f]
    IN  v.layer \notin {"none", "user"} /\ v.trusted =>
            Stood(<<v.layer, t.src>>, Needs[f], [digest |-> v.bytes, id |-> v.id]) \in t.window

\* Only what is set and trusted is used.
Checked(t) == t.pc = "used" => \A f \in Required(t) : t.field[f].layer # "none" /\ t.field[f].trusted

LoadSound(t, dec) == Watches(t, dec) /\ Knows(t) /\ Backed(t) /\ Checked(t)

\* Who decides holds the lock and the current receipts, and has found the
\* directory it decides about.
Decides(u, t) ==
    /\ t.pc = "publish" => locked = u /\ t.basis \subseteq receipts
    /\ t.what = "approve" /\ t.pc \in {"lock", "publish"} => t.id # 0

Sound(u) == task[u] # Resting =>
    IF task[u].what = "load" THEN task[u] \in LoadTask /\ LoadSound(task[u], decided)
                             ELSE task[u] \in DecisionTask /\ Decides(u, task[u])

TrustInv == WorldTypes /\ Reflects /\ \A u \in Users : Sound(u)

-----------------------------------------------------------------------------
(* Steps of one command.                                                   *)

Fine(t, u, lock) == t # Resting =>
    IF t.what = "load" THEN t \in LoadTask /\ LoadSound(t, decided)
    ELSE /\ t \in DecisionTask
         /\ t.pc = "publish" => lock = u /\ t.basis \subseteq receipts
         /\ t.what = "approve" /\ t.pc \in {"lock", "publish"} => t.id # 0

\* A step of one command that decides nothing is judged by what it leaves.
LEMMA Frame ==
  ASSUME TrustInv, NEW u \in Users, NEW t \in LoadTask \cup DecisionTask \cup {Resting},
         Set(u, t), Fine(t, u, locked'),
         UNCHANGED <<content, identity, receipts, decided>>,
         locked' \in Users \cup {Resting},
         \A v \in Users \ {u} : locked = v => locked' = v
  PROVE  TrustInv'
<1>1. WorldTypes'
  BY DEF TrustInv, WorldTypes, Set
<1>2. Reflects'
  BY DEF TrustInv, Reflects
<1>3. Sound(u)'
  BY DEF TrustInv, WorldTypes, Set, Fine, Sound, Decides
<1>4. ASSUME NEW v \in Users \ {u} PROVE Sound(v)'
  <2>1. task'[v] = task[v] /\ Sound(v)
    BY DEF TrustInv, WorldTypes, Set
  <2>2. task[v] # Resting /\ task[v].what # "load" => Decides(v, task[v])'
    BY <2>1 DEF Sound, Decides
  <2> QED BY <2>1, <2>2 DEF Sound
<1> QED BY <1>1, <1>2, <1>3, <1>4 DEF TrustInv

\* A command that stops, with the lock or without.
LEMMA QuitFine ==
  ASSUME TrustInv, NEW u \in Users, Quit(u),
         UNCHANGED <<content, identity, receipts, decided>>,
         \/ UNCHANGED locked
         \/ locked' = IF locked = u THEN Resting ELSE locked
  PROVE  TrustInv'
<1>1. Fine(Resting, u, locked')
  BY DEF Fine
<1>2. locked' \in Users \cup {Resting} /\ \A v \in Users \ {u} : locked = v => locked' = v
  BY DEF TrustInv, WorldTypes
<1>3. Set(u, Resting)
  BY DEF Quit
<1> QED BY <1>1, <1>2, <1>3, Frame

\* What a command at work is.
LEMMA LoadAt ==
  ASSUME TrustInv, NEW u \in Users,
         \/ At(u, "read") \/ At(u, "apply") \/ At(u, "used")
  PROVE  task[u] \in LoadTask /\ LoadSound(task[u], decided)
BY DEF TrustInv, Sound, At, LoadTask, DecisionTask

LEMMA DecisionAt ==
  ASSUME TrustInv, NEW u \in Users,
         \/ At(u, "confirm") \/ At(u, "resolve") \/ At(u, "identify") \/ At(u, "lock")
         \/ At(u, "publish")
  PROVE  task[u] \in DecisionTask /\ Decides(u, task[u])
BY DEF TrustInv, Sound, At, LoadTask, DecisionTask

\* A load that changes neither its window nor its receipts.
LEMMA LoadFine ==
  ASSUME TrustInv, NEW u \in Users, NEW t \in LoadTask, Set(u, t), LoadSound(t, decided),
         UNCHANGED <<content, identity, receipts, locked, decided>>
  PROVE  TrustInv'
<1>1. Fine(t, u, locked')
  BY DEF Fine, LoadTask
<1> QED BY <1>1, Frame DEF TrustInv, WorldTypes

\* A decision that is prepared.
LEMMA DecisionFine ==
  ASSUME TrustInv, NEW u \in Users, NEW t \in DecisionTask, Set(u, t),
         t.pc # "publish", t.what = "approve" /\ t.pc = "lock" => t.id # 0,
         UNCHANGED <<content, identity, receipts, locked, decided>>
  PROVE  TrustInv'
<1>1. Fine(t, u, locked')
  BY DEF Fine, DecisionTask
<1> QED BY <1>1, Frame DEF TrustInv, WorldTypes

-----------------------------------------------------------------------------
(* Loading.                                                                *)

LEMMA SubjectsKnown ==
  \A s \in Subjects : s[1] \in InRepository /\ Repository[s[1]] \in {"canon", "clone"}
<1> SUFFICES ASSUME NEW s \in Subjects
             PROVE  s[1] \in InRepository /\ Repository[s[1]] \in {"canon", "clone"}
  OBVIOUS
<1>1. s[1] \in {"canonical", "source", "runtime"}
  <2>1. CASE s \in {"canonical"} \X Selections
    BY <2>1
  <2>2. CASE s \in {<<"source", src>> : src \in Selections \ {FALSE}}
    <3>1. PICK src \in Selections \ {FALSE} : s = <<"source", src>>
      BY <2>2
    <3> QED BY <3>1
  <2>3. CASE s \in IF "dispatch" \in Wants THEN {<<"runtime", FALSE>>} ELSE {}
    <3>1. s = <<"runtime", FALSE>>
      BY <2>3
    <3> QED BY <3>1
  <2> QED BY <2>1, <2>2, <2>3 DEF Subjects
<1> QED BY <1>1 DEF InRepository, Repository

LEMMA StandingType == WorldTypes => Standing(decided) \subseteq Standings
BY DEF WorldTypes, Standing, Standings

LEMMA LoadStep ==
  ASSUME Sensible, TrustInv, NEW u \in Users, NEW w \in Wants,
         NEW src \in Selections \cup {FALSE}, LoadConfig(u, w, src)
  PROVE  TrustInv'
<1> DEFINE t == [pc |-> "read", what |-> "load", want |-> w, src |-> src,
                 left |-> Candidates(w, src), layer |-> "user", bytes |-> "absent",
                 asked |-> FALSE, known |-> {},
                 field |-> [f \in Fields |-> [layer |-> "none", bytes |-> "none", id |-> 0,
                                              trusted |-> TRUE]],
                 window |-> {x \in Standing(decided) : x.of # Undecided}]
<1>1. Candidates(w, src) \in Seq(Layers)
  <2>1. "user" \in Layers /\ "canonical" \in Layers /\ "source" \in Layers /\ "runtime" \in Layers
    BY DEF Layers, InRepository
  <2>2. <<"runtime">> \in Seq(Layers) /\ <<"user", "canonical">> \in Seq(Layers)
        /\ <<"source">> \in Seq(Layers) /\ << >> \in Seq(Layers)
    BY <2>1
  <2>3. <<"user", "canonical">> \o (IF src THEN <<"source">> ELSE << >>) \in Seq(Layers)
    BY <2>2
  <2> QED BY <2>2, <2>3 DEF Candidates
<1>2. {x \in Standing(decided) : x.of # Undecided} \subseteq Standings
  BY StandingType DEF TrustInv
<1>3. [f \in Fields |-> [layer |-> "none", bytes |-> "none", id |-> 0, trusted |-> TRUE]]
        \in [Fields -> Field]
  BY DEF Field, Directories, Contents
<1>4. t \in LoadTask
  BY <1>1, <1>2, <1>3 DEF LoadTask, Layers, Contents
<1>5. LoadSound(t, decided)
  BY DEF LoadSound, Watches, Knows, Backed, Checked
<1>6. Set(u, t) /\ UNCHANGED <<content, identity, receipts, locked, decided>>
  BY DEF LoadConfig, places
<1> HIDE DEF t
<1> QED BY <1>4, <1>5, <1>6, LoadFine

LEMMA ReadStep ==
  ASSUME TrustInv, NEW u \in Users, ReadCandidate(u)
  PROVE  TrustInv'
<1> DEFINE l == Head(task[u].left)
           t == [task[u] EXCEPT !.left = Tail(@), !.layer = l, !.bytes = content[l],
                     !.pc = IF content[l] = "absent" THEN "read" ELSE "apply"]
<1>1. CASE Quit(u)
  BY <1>1, QuitFine DEF ReadCandidate, places
<1>2. CASE Set(u, t)
  <2>1. task[u] \in LoadTask /\ LoadSound(task[u], decided) /\ task[u].left # <<>>
    BY LoadAt DEF ReadCandidate
  <2>2. l \in Layers /\ Tail(task[u].left) \in Seq(Layers)
    <3>1. task[u].left \in Seq(Layers) /\ task[u].left # << >>
      BY <2>1 DEF LoadTask
    <3> QED BY <3>1
  <2>3. content[l] \in Contents
    <3> HIDE DEF l
    <3> QED BY <2>2 DEF TrustInv, WorldTypes
  <2>4. t \in LoadTask
    BY <2>1, <2>2, <2>3 DEF LoadTask
  <2>5. LoadSound(t, decided)
    BY <2>1, <2>4 DEF LoadTask, LoadSound, Watches, Knows, Backed, Checked
  <2> HIDE DEF t
  <2> QED BY <1>2, <2>4, <2>5, LoadFine DEF ReadCandidate, places
<1> QED BY <1>1, <1>2 DEF ReadCandidate

\* Receipts that are read stand in the window.
LEMMA SnapshotStep ==
  ASSUME TrustInv, NEW u \in Users, TrustSnapshot(u)
  PROVE  TrustInv'
<1> DEFINE t == [task[u] EXCEPT !.asked = TRUE, !.known = List(receipts)]
<1>1. task[u] \in LoadTask /\ LoadSound(task[u], decided)
  BY LoadAt DEF TrustSnapshot
<1>2. List(receipts) \subseteq receipts /\ receipts \subseteq ReceiptRow
  BY DEF List, TrustInv, WorldTypes
<1>3. t \in LoadTask
  BY <1>1, <1>2 DEF LoadTask
<1>4. Knows(t)
  <2> SUFFICES ASSUME NEW r \in List(receipts), NEW k \in r.caps
               PROVE  Stood(r.subject, k, Of(r)) \in task[u].window
    BY <1>1 DEF Knows, LoadTask
  <2>1. r \in receipts /\ r.subject \in Subjects /\ k \in Capabilities /\ r.id # 0
    BY <1>2 DEF ReceiptRow
  <2>2. decided[r.subject][k] = Of(r)
    BY <2>1 DEF TrustInv, Reflects, Backs
  <2>3. Stood(r.subject, k, Of(r)) \in Standing(decided)
    BY <2>1, <2>2 DEF Standing, Stood
  <2>4. Stood(r.subject, k, Of(r)).of # Undecided
    BY <2>1 DEF Stood, Of, Undecided
  <2> QED BY <1>1, <2>3, <2>4 DEF LoadSound, Watches
<1>5. LoadSound(t, decided)
  BY <1>1, <1>3, <1>4 DEF LoadTask, LoadSound, Watches, Backed, Checked, Required, IsSet
<1>6. Set(u, t) /\ UNCHANGED <<content, identity, receipts, locked, decided>>
  BY DEF TrustSnapshot, places
<1> HIDE DEF t
<1> QED BY <1>3, <1>5, <1>6, LoadFine

\* A layer that is trusted is backed by a receipt that was read.
LEMMA TrustedStood ==
  ASSUME NEW t \in LoadTask, Knows(t), NEW f \in Fields, t.layer # "user", LayerTrusted(t, f)
  PROVE  Stood(<<t.layer, t.src>>, Needs[f],
               [digest |-> t.bytes, id |-> NormalizeSubject(Subject(t))]) \in t.window
<1>1. PICK r \in t.known : /\ r.subject = <<t.layer, t.src>> /\ r.digest = t.bytes
                           /\ r.id = NormalizeSubject(Subject(t)) /\ Needs[f] \in r.caps
  BY DEF LayerTrusted, InspectReceipts, ExactReceipt, SameSubject, SameLogicalSubject, Subject
<1> QED BY <1>1 DEF Knows, Of

LEMMA ApplyStep ==
  ASSUME TrustInv, NEW u \in Users, ApplyLayer(u)
  PROVE  TrustInv'
<1> DEFINE t == [task[u] EXCEPT !.field = Apply(task[u]), !.pc = "read"]
<1>1. CASE Quit(u)
  BY <1>1, QuitFine DEF ApplyLayer, places
<1>2. CASE Set(u, t)
  <2>1. task[u] \in LoadTask /\ LoadSound(task[u], decided)
    BY LoadAt DEF ApplyLayer
  <2>2. ASSUME NEW f \in Fields, f \in Sets(task[u]) PROVE Apply(task[u])[f] \in Field
    <3>1. LayerTrusted(task[u], f) \in BOOLEAN
      BY DEF LayerTrusted, InspectReceipts
    <3>2. task[u].layer # "user" =>
             task[u].layer \in InRepository /\ Repository[task[u].layer] \in {"canon", "clone"}
      <4>1. task[u].layer \in Layers
        BY <2>1 DEF LoadTask
      <4> QED BY <4>1 DEF Layers, InRepository, Repository
    <3>3. task[u].layer # "user" => NormalizeSubject(Subject(task[u])) \in Directories
      <4>1. NormalizeSubject(Subject(task[u])) = identity[Repository[task[u].layer]]
        BY DEF NormalizeSubject, Subject
      <4> QED BY <3>2, <4>1 DEF TrustInv, WorldTypes
    <3>4. Apply(task[u])[f] =
            [layer |-> task[u].layer, bytes |-> task[u].bytes, trusted |-> LayerTrusted(task[u], f),
             id |-> IF task[u].layer = "user" THEN 0 ELSE NormalizeSubject(Subject(task[u]))]
      BY <2>2 DEF Apply
    <3>5. task[u].layer \in Layers /\ task[u].bytes \in Contents
      BY <2>1 DEF LoadTask
    <3>6. (IF task[u].layer = "user" THEN 0 ELSE NormalizeSubject(Subject(task[u]))) \in Directories
      BY <3>3 DEF Directories
    <3> HIDE DEF Layers
    <3> QED BY <3>1, <3>4, <3>5, <3>6 DEF Field
  <2>3. Apply(task[u]) \in [Fields -> Field]
    BY <2>1, <2>2 DEF Apply, LoadTask
  <2>4. t \in LoadTask
    BY <2>1, <2>3 DEF LoadTask
  <2>5. Backed(t)
    <3> SUFFICES ASSUME NEW f \in Fields, t.field[f].layer \notin {"none", "user"},
                        t.field[f].trusted
                 PROVE  Stood(<<t.field[f].layer, t.src>>, Needs[f],
                            [digest |-> t.field[f].bytes, id |-> t.field[f].id]) \in t.window
      BY DEF Backed
    <3>1. t.field = Apply(task[u]) /\ t.src = task[u].src /\ t.window = task[u].window
      BY <2>1 DEF LoadTask
    <3>2. CASE f \in Sets(task[u])
      BY <2>1, <3>1, <3>2, TrustedStood DEF Apply, LoadSound
    <3>3. CASE f \notin Sets(task[u])
      BY <2>1, <3>1, <3>3 DEF Apply, LoadSound, Backed
    <3> QED BY <3>2, <3>3
  <2>6. LoadSound(t, decided)
    BY <2>1, <2>4, <2>5 DEF LoadTask, LoadSound, Watches, Knows, Checked
  <2> HIDE DEF t
  <2> QED BY <1>2, <2>4, <2>6, LoadFine DEF ApplyLayer, places
<1> QED BY <1>1, <1>2 DEF ApplyLayer

LEMMA UseStep ==
  ASSUME TrustInv, NEW u \in Users, Use(u)
  PROVE  TrustInv'
<1> DEFINE t == [task[u] EXCEPT !.pc = "used"]
<1>1. CASE Quit(u)
  BY <1>1, QuitFine DEF Use, places
<1>2. CASE GoOn(u, "used") /\ ValidateEffective(task[u]) /\ RequireTrusted(task[u])
  <2>1. task[u] \in LoadTask /\ LoadSound(task[u], decided)
    BY LoadAt DEF Use
  <2>2. t \in LoadTask /\ Set(u, t)
    BY <1>2, <2>1 DEF LoadTask, GoOn
  <2>3. Required(t) = Required(task[u]) /\ t.field = task[u].field
    BY <2>1 DEF LoadTask, Required, IsSet
  <2>4. \A f \in Required(task[u]) : IsSet(task[u], f)
    BY <1>2 DEF Required, ValidateEffective
  <2>5. Checked(t)
    BY <1>2, <2>3, <2>4 DEF Checked, RequireTrusted, IsSet
  <2>6. LoadSound(t, decided)
    BY <2>1, <2>2, <2>5 DEF LoadTask, LoadSound, Watches, Knows, Backed
  <2> HIDE DEF t
  <2> QED BY <2>2, <2>6, LoadFine DEF Use, places
<1> QED BY <1>1, <1>2 DEF Use

-----------------------------------------------------------------------------
(* Approving and revoking.                                                 *)

LEMMA BearsCapabilities ==
  ASSUME Sensible, WorldTypes, NEW l \in InRepository, content[l] # "absent"
  PROVE  Bears(l) \subseteq Capabilities
<1>1. content[l] \in Versions
  BY DEF WorldTypes, Layers, Contents
<1>2. Defines[content[l]] \subseteq Fields
  BY <1>1 DEF Sensible
<1> QED BY <1>2 DEF Bears, Needs, Fields, Capabilities

LEMMA DecisionType ==
  ASSUME NEW what \in {"approve", "revoke"}, NEW s \in Subjects, NEW d \in Contents \cup {"none"},
         NEW caps \in SUBSET Capabilities, NEW pc \in {"confirm", "identify", "lock"}
  PROVE  Decision(what, s, d, caps, pc) \in DecisionTask
BY DEF Decision, DecisionTask, Directories

LEMMA BeginDecision ==
  ASSUME Sensible, TrustInv, NEW u \in Users, NEW s \in Subjects,
         \/ \E d \in Versions, c \in SUBSET Capabilities : ConfigTrust(u, s, d, c)
         \/ GuidedTrust(u, s)
         \/ \E d \in {"none"} \cup {r.digest : r \in receipts}, c \in SUBSET {First} :
              ConfigRevoke(u, s, d, c)
  PROVE  TrustInv'
<1>1. ASSUME NEW d \in Versions, NEW c \in SUBSET Capabilities, ConfigTrust(u, s, d, c)
      PROVE  TrustInv'
  <2>1. Decision("approve", s, d, c, "identify") \in DecisionTask
    BY DecisionType DEF Contents
  <2> QED BY <1>1, <2>1, DecisionFine DEF ConfigTrust, Decision, places
<1>2. ASSUME GuidedTrust(u, s) PROVE TrustInv'
  <2> DEFINE D == Decision("approve", s, content[s[1]], Bears(s[1]), "confirm")
             t == [D EXCEPT !.seen = receipts, !.id = NormalizeSubject(s)]
  <2>1. s[1] \in InRepository /\ Repository[s[1]] \in {"canon", "clone"}
    BY SubjectsKnown
  <2>2. content[s[1]] \in Contents /\ NormalizeSubject(s) \in Directories
        /\ receipts \subseteq ReceiptRow
    BY <2>1 DEF TrustInv, WorldTypes, Layers, NormalizeSubject
  <2>3. Bears(s[1]) \subseteq Capabilities
    BY <1>2, <2>1, BearsCapabilities DEF GuidedTrust, Applied, TrustInv
  <2>4. D \in DecisionTask
    BY <2>2, <2>3, DecisionType
  <2>5. t \in DecisionTask /\ t.pc = "confirm"
    BY <2>2, <2>4 DEF DecisionTask, Decision
  <2>6. Set(u, t) /\ UNCHANGED <<content, identity, receipts, locked, decided>>
    BY <1>2 DEF GuidedTrust, places
  <2> HIDE DEF t, D
  <2> QED BY <2>5, <2>6, DecisionFine
<1>3. ASSUME NEW d \in {"none"} \cup {r.digest : r \in receipts}, NEW c \in SUBSET {First},
             ConfigRevoke(u, s, d, c)
      PROVE  TrustInv'
  <2>1. d \in Contents \cup {"none"}
    BY DEF TrustInv, WorldTypes, ReceiptRow
  <2>2. c \subseteq Capabilities
    BY DEF First, Capabilities
  <2>3. Decision("revoke", s, d, c, "lock") \in DecisionTask
    BY <2>1, <2>2, DecisionType
  <2> QED BY <1>3, <2>3, DecisionFine DEF ConfigRevoke, Decision, places
<1> QED BY <1>1, <1>2, <1>3

LEMMA PrepareDecision ==
  ASSUME TrustInv, NEW u \in Users, Confirm(u) \/ ResolveAgain(u) \/ NormalizeQuery(u)
  PROVE  TrustInv'
<1>1. task[u] \in DecisionTask
  BY DecisionAt DEF Confirm, ResolveAgain, NormalizeQuery
<1>2. UNCHANGED <<content, identity, receipts, locked, decided>>
  BY DEF Confirm, ResolveAgain, NormalizeQuery, places
<1>3. CASE Quit(u)
  BY <1>2, <1>3, QuitFine
<1>4. ASSUME NEW pc \in {"resolve", "identify"}, GoOn(u, pc) PROVE TrustInv'
  <2> DEFINE t == [task[u] EXCEPT !.pc = pc]
  <2>1. t \in DecisionTask /\ t.pc = pc
    BY <1>1 DEF DecisionTask
  <2>2. Set(u, t)
    BY <1>4 DEF GoOn
  <2> HIDE DEF t
  <2> QED BY <1>2, <2>1, <2>2, DecisionFine
<1>5. CASE NormalizeQuery(u) /\ ~Quit(u)
  <2> DEFINE t == [task[u] EXCEPT !.id = NormalizeSubject(task[u].subject), !.pc = "lock"]
  <2>1. Set(u, t) /\ Exists(task[u].subject)
    BY <1>5 DEF NormalizeQuery
  <2>2. task[u].subject \in Subjects
    BY <1>1 DEF DecisionTask
  <2>3. NormalizeSubject(task[u].subject) \in Directories
    BY <2>2, SubjectsKnown DEF NormalizeSubject, TrustInv, WorldTypes
  <2>4. t \in DecisionTask /\ t.pc = "lock" /\ t.id # 0
    BY <1>1, <2>1, <2>3 DEF DecisionTask, Exists
  <2> HIDE DEF t
  <2> QED BY <1>2, <2>1, <2>4, DecisionFine
<1> QED BY <1>3, <1>4, <1>5 DEF Confirm, ResolveAgain

\* The copy a decision starts from is taken under the lock.
LEMMA LockStep ==
  ASSUME Sensible, TrustInv, NEW u \in Users, WithLockedFile(u)
  PROVE  TrustInv'
<1> DEFINE t == [task[u] EXCEPT !.pc = "publish", !.basis = List(receipts)]
<1>1. task[u] \in DecisionTask /\ Decides(u, task[u])
  BY DecisionAt DEF WithLockedFile
<1>2. List(receipts) \subseteq receipts /\ receipts \subseteq ReceiptRow
  BY DEF List, TrustInv, WorldTypes
<1>3. t \in DecisionTask
  BY <1>1, <1>2 DEF DecisionTask
<1>4. Fine(t, u, locked')
  BY <1>1, <1>2, <1>3 DEF Fine, Decides, DecisionTask, WithLockedFile, At
<1>5. Set(u, t) /\ UNCHANGED <<content, identity, receipts, decided>>
  BY DEF WithLockedFile, places
<1>6. locked' \in Users \cup {Resting} /\ \A v \in Users \ {u} : locked = v => locked' = v
  BY DEF WithLockedFile, Available, Sensible
<1> HIDE DEF t
<1> QED BY <1>3, <1>4, <1>5, <1>6, Frame

-----------------------------------------------------------------------------
(* Publishing a decision.                                                  *)

Decided(t, c) ==
    IF t.what = "approve"
    THEN IF c \in t.caps THEN [digest |-> t.digest, id |-> t.id]
         ELSE IF decided[t.subject][c].id = t.id THEN decided[t.subject][c] ELSE Undecided
    ELSE IF (t.caps = {} \/ c \in t.caps) /\ t.digest \in {decided[t.subject][c].digest, "none"}
         THEN Undecided ELSE decided[t.subject][c]

LEMMA DecideIs ==
  ASSUME WorldTypes, NEW t \in DecisionTask
  PROVE  /\ Decide(t) \in [Subjects -> [Capabilities -> Stamp]]
         /\ \A s \in Subjects \ {t.subject} : Decide(t)[s] = decided[s]
         /\ \A c \in Capabilities : Decide(t)[t.subject][c] = Decided(t, c)
<1> DEFINE row == [c \in Capabilities |-> Decided(t, c)]
<1>1. t.subject \in Subjects /\ t.digest \in Contents \cup {"none"} /\ t.id \in Directories
  BY DEF DecisionTask
<1>2. decided \in [Subjects -> [Capabilities -> Stamp]]
  BY DEF WorldTypes
<1>3. Decide(t) = [decided EXCEPT ![t.subject] = row]
  BY DEF Decide, Decided
<1>4. Undecided \in Stamp /\ [digest |-> t.digest, id |-> t.id] \in Stamp
  BY <1>1 DEF Undecided, Stamp, Directories
<1>5. \A c \in Capabilities : Decided(t, c) \in Stamp
  BY <1>1, <1>2, <1>4 DEF Decided
<1>6. row \in [Capabilities -> Stamp] /\ \A c \in Capabilities : row[c] = Decided(t, c)
  BY <1>5
<1> HIDE DEF row
<1> QED BY <1>1, <1>2, <1>3, <1>6

\* An approval takes what it approves from receipts of other contents, and drops
\* those of other directories.
LEMMA ApproveReflects ==
  ASSUME WorldTypes, NEW t \in DecisionTask, t.what = "approve", t.id # 0, Backs(t.basis, decided)
  PROVE  Mutate(t) \subseteq ReceiptRow /\ Backs(Mutate(t), Decide(t))
<1> DEFINE same == {r \in t.basis : ExactReceipt(r, t.subject, t.id, t.digest)}
           other == {r \in t.basis : SameSubject(r, t.subject, t.id) /\ r.digest # t.digest}
           kept == {r \in t.basis : ~SameLogicalSubject(r, t.subject)}
           less(r) == [r EXCEPT !.caps = @ \ t.caps]
           one == Receipt(t.subject, t.digest, t.id, t.caps \cup UNION {r.caps : r \in same})
<1>1. /\ t.subject \in Subjects /\ t.digest \in Contents \cup {"none"} /\ t.id \in 1 .. 2
      /\ t.caps \subseteq Capabilities /\ t.basis \subseteq ReceiptRow
  BY DEF DecisionTask, Directories
<1>2. Mutate(t) = kept \cup {less(r) : r \in {q \in other : q.caps \ t.caps # {}}} \cup {one}
  BY DEF Mutate, Approve
<1>3. ASSUME NEW r \in kept
      PROVE  r \in ReceiptRow /\ \A k \in r.caps : Decide(t)[r.subject][k] = Of(r)
  <2>1. r \in ReceiptRow /\ r \in t.basis /\ r.subject \in Subjects \ {t.subject}
    BY <1>1 DEF ReceiptRow, SameLogicalSubject
  <2> QED BY <2>1, DecideIs DEF Backs
<1>4. ASSUME NEW r \in other
      PROVE  less(r) \in ReceiptRow /\ \A k \in less(r).caps : Decide(t)[less(r).subject][k] = Of(less(r))
  <2>1. r \in ReceiptRow /\ r \in t.basis /\ r.subject = t.subject /\ r.id = t.id
    BY <1>1 DEF SameSubject, SameLogicalSubject
  <2>2. /\ less(r) \in ReceiptRow /\ less(r).subject = t.subject /\ less(r).caps = r.caps \ t.caps
        /\ Of(less(r)) = Of(r)
    BY <2>1 DEF ReceiptRow, Of
  <2>3. ASSUME NEW k \in r.caps, k \notin t.caps PROVE Decide(t)[t.subject][k] = Of(r)
    <3>1. k \in Capabilities /\ decided[t.subject][k] = Of(r)
      BY <2>1 DEF Backs, ReceiptRow
    <3>2. Decided(t, k) = Of(r)
      BY <2>1, <2>3, <3>1 DEF Decided, Of
    <3> QED BY <3>1, <3>2, DecideIs
  <2> QED BY <2>2, <2>3
<1>5. one \in ReceiptRow /\ \A k \in one.caps : Decide(t)[one.subject][k] = Of(one)
  <2>1. \A r \in same : /\ r \in ReceiptRow /\ r \in t.basis /\ r.subject = t.subject
                        /\ r.id = t.id /\ r.digest = t.digest
    BY <1>1 DEF ExactReceipt, SameSubject, SameLogicalSubject
  <2>2. UNION {r.caps : r \in same} \subseteq Capabilities
    BY <2>1 DEF ReceiptRow
  <2>3. one \in ReceiptRow
    BY <1>1, <2>2 DEF ReceiptRow, Receipt
  <2>4. /\ one.subject = t.subject /\ one.caps = t.caps \cup UNION {r.caps : r \in same}
        /\ Of(one) = [digest |-> t.digest, id |-> t.id]
    BY DEF Receipt, Of
  <2>5. ASSUME NEW k \in one.caps PROVE Decided(t, k) = Of(one)
    <3>1. CASE k \in t.caps
      BY <2>4, <3>1 DEF Decided
    <3>2. CASE k \notin t.caps
      <4>1. PICK r \in same : k \in r.caps
        BY <2>4, <2>5, <3>2
      <4>2. decided[t.subject][k] = Of(r) /\ Of(r) = Of(one)
        BY <2>1, <2>4, <4>1 DEF Backs, Of
      <4> QED BY <2>4, <3>2, <4>2 DEF Decided, Of
    <3> QED BY <3>1, <3>2
  <2> HIDE DEF one
  <2> QED BY <1>1, <2>2, <2>3, <2>4, <2>5, DecideIs
<1> HIDE DEF kept, other, one, less
<1> QED BY <1>2, <1>3, <1>4, <1>5 DEF Backs

\* A revocation takes at least what is undecided by it.
LEMMA RevokeReflects ==
  ASSUME WorldTypes, NEW t \in DecisionTask, t.what = "revoke", Backs(t.basis, decided)
  PROVE  Mutate(t) \subseteq ReceiptRow /\ Backs(Mutate(t), Decide(t))
<1> DEFINE hit == {r \in t.basis : SameLogicalSubject(r, t.subject) /\ t.digest \in {r.digest, "none"}}
           left(r) == IF t.caps = {} THEN {} ELSE r.caps \ t.caps
           less(r) == [r EXCEPT !.caps = left(r)]
<1>1. t.subject \in Subjects /\ t.basis \subseteq ReceiptRow
  BY DEF DecisionTask
<1>2. Mutate(t) = (t.basis \ hit) \cup {less(r) : r \in {q \in hit : left(q) # {}}}
  BY DEF Mutate, Revoke
<1>3. ASSUME NEW r \in t.basis, NEW k \in r.caps, r \notin hit \/ k \in left(r)
      PROVE  Decide(t)[r.subject][k] = Of(r)
  <2>1. r \in ReceiptRow /\ r.subject \in Subjects /\ k \in Capabilities
    BY <1>1 DEF ReceiptRow
  <2>2. decided[r.subject][k] = Of(r)
    BY DEF Backs
  <2>3. CASE r.subject # t.subject
    BY <2>1, <2>2, <2>3, DecideIs
  <2>4. CASE r.subject = t.subject
    <3>1. decided[t.subject][k].digest = r.digest
      BY <2>2, <2>4 DEF Of
    <3>2. Decided(t, k) = decided[t.subject][k]
      BY <1>3, <2>4, <3>1 DEF Decided, SameLogicalSubject
    <3> QED BY <2>1, <2>2, <2>4, <3>2, DecideIs
  <2> QED BY <2>3, <2>4
<1>4. ASSUME NEW r \in hit
      PROVE  less(r) \in ReceiptRow /\ \A k \in less(r).caps : Decide(t)[less(r).subject][k] = Of(less(r))
  <2>1. r \in ReceiptRow /\ r \in t.basis
    BY <1>1
  <2>2. /\ less(r) \in ReceiptRow /\ less(r).subject = r.subject /\ less(r).caps = left(r)
        /\ Of(less(r)) = Of(r) /\ left(r) \subseteq r.caps
    BY <2>1 DEF ReceiptRow, Of
  <2> HIDE DEF less, left, hit
  <2> QED BY <1>3, <2>1, <2>2
<1>5. ASSUME NEW r \in t.basis \ hit
      PROVE  r \in ReceiptRow /\ \A k \in r.caps : Decide(t)[r.subject][k] = Of(r)
  BY <1>1, <1>3
<1> HIDE DEF hit, left, less
<1> QED BY <1>2, <1>4, <1>5 DEF Backs

\* A load under way notices what was decided.
LEMMA NoticedSound ==
  ASSUME WorldTypes, NEW dec \in [Subjects -> [Capabilities -> Stamp]], NEW v \in Users,
         task[v] # Resting, task[v].what = "load", task[v] \in LoadTask, LoadSound(task[v], decided)
  PROVE  Noticed(dec)[v] \in LoadTask /\ LoadSound(Noticed(dec)[v], dec)
<1> DEFINE new == {x \in Standing(dec) : x.of # Undecided}
           t == [task[v] EXCEPT !.window = @ \cup new]
<1>1. Noticed(dec)[v] = t
  BY DEF Noticed
<1>2. new \subseteq Standings
  BY DEF Standing, Standings
<1> HIDE DEF new
<1>3. t \in LoadTask
  BY <1>2 DEF LoadTask
<1>4. /\ t.window = task[v].window \cup new /\ t.known = task[v].known /\ t.pc = task[v].pc
      /\ t.field = task[v].field /\ t.src = task[v].src /\ t.want = task[v].want
  BY DEF LoadTask
<1> HIDE DEF t
<1>5. Watches(t, dec)
  BY <1>4 DEF Watches, new
<1>6. Knows(t) /\ Backed(t)
  BY <1>4 DEF LoadSound, Knows, Backed
<1>7. Checked(t)
  BY <1>4 DEF LoadSound, Checked, Required, IsSet
<1> QED BY <1>1, <1>3, <1>5, <1>6, <1>7 DEF LoadSound

LEMMA PublishStep ==
  ASSUME Sensible, TrustInv, NEW u \in Users, WriteRoot(u)
  PROVE  TrustInv'
<1> DEFINE t == task[u]
<1>1. t \in DecisionTask /\ Decides(u, t) /\ t.pc = "publish" /\ t.what \in {"approve", "revoke"}
  BY DecisionAt DEF WriteRoot, At, DecisionTask
<1>2. WorldTypes /\ Reflects /\ locked = u
  BY <1>1 DEF TrustInv, Decides
<1>3. Backs(t.basis, decided)
  BY <1>1, <1>2 DEF Decides, Reflects, Backs
<1>4. receipts' = Mutate(t) /\ decided' = Decide(t) /\ locked' = Resting
      /\ task' = [Noticed(decided') EXCEPT ![u] = Resting] /\ UNCHANGED <<content, identity>>
  BY <1>2 DEF WriteRoot, places
<1>5. receipts' \subseteq ReceiptRow /\ Backs(receipts', decided')
  BY <1>1, <1>2, <1>3, <1>4, ApproveReflects, RevokeReflects DEF Decides
<1>6. decided' \in [Subjects -> [Capabilities -> Stamp]]
  BY <1>1, <1>2, <1>4, DecideIs
<1> HIDE DEF t
<1>7. /\ task'[u] = Resting
      /\ \A v \in Users \ {u} : task'[v] = Noticed(decided')[v]
  BY <1>4 DEF Noticed
<1>8. ASSUME NEW v \in Users \ {u}, task[v] # Resting, task[v].what = "load"
      PROVE  task'[v] \in LoadTask /\ LoadSound(task'[v], decided')
  BY <1>2, <1>6, <1>7, <1>8, NoticedSound DEF TrustInv, Sound
<1>9. ASSUME NEW v \in Users \ {u}, ~(task[v] # Resting /\ task[v].what = "load")
      PROVE  task'[v] = task[v]
  BY <1>7, <1>9 DEF Noticed
<1>10. task' \in [Users -> LoadTask \cup DecisionTask \cup {Resting}]
  <2>1. \A v \in Users : task'[v] \in LoadTask \cup DecisionTask \cup {Resting}
    BY <1>2, <1>7, <1>8, <1>9 DEF WorldTypes
  <2>2. task' = [v \in Users |-> task'[v]]
    BY <1>4 DEF Noticed
  <2> QED BY <2>1, <2>2
<1>11. WorldTypes'
  BY <1>2, <1>4, <1>5, <1>6, <1>10 DEF WorldTypes
<1>12. ASSUME NEW v \in Users PROVE Sound(v)'
  <2>1. CASE v = u
    BY <1>7, <2>1 DEF Sound
  <2>2. CASE v # u /\ task[v] # Resting /\ task[v].what = "load"
    BY <1>8, <2>2 DEF Sound, LoadTask
  <2>3. CASE v # u /\ ~(task[v] # Resting /\ task[v].what = "load")
    <3>1. task'[v] = task[v] /\ Sound(v)
      BY <1>9, <2>3 DEF TrustInv
    <3>2. task[v] # Resting => task[v].pc # "publish"
      BY <1>2, <2>3, <3>1 DEF Sound, Decides
    <3> QED BY <2>3, <3>1, <3>2 DEF Sound, Decides
  <2> QED BY <2>1, <2>2, <2>3
<1> QED BY <1>4, <1>5, <1>11, <1>12 DEF TrustInv, Reflects

-----------------------------------------------------------------------------
(* The theorem.                                                            *)

LEMMA TrustInvInit == Sensible /\ TrustInit => TrustInv
<1> SUFFICES ASSUME Sensible, TrustInit PROVE TrustInv
  OBVIOUS
<1>1. PICK now \in Versions \ Malformed, then \in Versions \ Malformed, c \in SUBSET {First} :
        /\ \E l \in {"absent", now} :
             content = [user |-> "absent", canonical |-> now, source |-> l, runtime |-> now]
        /\ receipts = {Receipt(Approved, then, 1, c) : k \in c}
        /\ decided = [s \in Subjects |-> [k \in Capabilities |->
               IF s = Approved /\ k \in c THEN [digest |-> then, id |-> 1] ELSE Undecided]]
  BY DEF TrustInit
<1>2. content \in [Layers -> Contents]
  <2>1. PICK l \in {"absent", now} :
          content = [user |-> "absent", canonical |-> now, source |-> l, runtime |-> now]
    BY <1>1
  <2>2. Layers = {"user", "canonical", "source", "runtime"}
    BY DEF Layers, InRepository
  <2> QED BY <2>1, <2>2 DEF Contents
<1>3. identity \in [{"canon", "clone"} -> Directories]
  BY DEF TrustInit, Directories
<1>4. decided \in [Subjects -> [Capabilities -> Stamp]]
  <2>1. [digest |-> then, id |-> 1] \in Stamp /\ Undecided \in Stamp
    BY DEF Stamp, Undecided, Contents, Directories
  <2> QED BY <1>1, <2>1
<1>5. receipts \subseteq ReceiptRow /\ Reflects
  <2>1. CASE c = {}
    <3>1. receipts = {}
      BY <1>1, <2>1
    <3> QED BY <3>1 DEF Reflects, Backs
  <2>2. CASE c = {First}
    <3>1. receipts = {Receipt(Approved, then, 1, {First})}
      BY <1>1, <2>2
    <3>2. First \in Capabilities
      BY DEF First, Capabilities
    <3>3. Approved \in Subjects
      <4>1. CASE TRUE \in Selections
        <5>1. <<"canonical", TRUE>> \in {"canonical"} \X Selections
          BY <4>1
        <5> QED BY <4>1, <5>1 DEF Approved, Subjects
      <4>2. CASE TRUE \notin Selections
        BY <4>2 DEF Approved, Subjects, Sensible
      <4> QED BY <4>1, <4>2
    <3> QED BY <1>1, <2>2, <3>1, <3>2, <3>3 DEF Receipt, ReceiptRow, Contents, Reflects, Backs, Of
  <2> QED BY <2>1, <2>2
<1>6. locked \in Users \cup {Resting} /\ task \in [Users -> LoadTask \cup DecisionTask \cup {Resting}]
  BY DEF TrustInit
<1>7. \A u \in Users : Sound(u)
  BY DEF TrustInit, Sound
<1> QED BY <1>2, <1>3, <1>4, <1>5, <1>6, <1>7 DEF TrustInv, WorldTypes

\* Edits and replacements change nothing a command has read.
LEMMA WorldStep ==
  ASSUME TrustInv,
         \/ \E l \in InRepository, v \in Versions \cup {"absent"} : EditLayer(l, v)
         \/ \E r \in {"canon", "clone"}, i \in 0 .. 2 : Replace(r, i)
  PROVE  TrustInv'
<1>1. UNCHANGED <<receipts, locked, task, decided>>
  BY DEF EditLayer, Replace
<1>2. content' \in [Layers -> Contents] /\ identity' \in [{"canon", "clone"} -> Directories]
  BY DEF TrustInv, WorldTypes, EditLayer, Replace, Contents, Directories
<1>3. WorldTypes'
  BY <1>1, <1>2 DEF TrustInv, WorldTypes
<1>4. \A u \in Users : Sound(u)'
  BY <1>1 DEF TrustInv, Sound, Decides
<1> QED BY <1>1, <1>3, <1>4 DEF TrustInv, Reflects

LEMMA TrustInvStep == Sensible /\ TrustInv /\ [TrustNext]_trustVars => TrustInv'
<1> SUFFICES ASSUME Sensible, TrustInv, [TrustNext]_trustVars PROVE TrustInv'
  OBVIOUS
<1>1. CASE UNCHANGED trustVars
  <2>1. UNCHANGED <<content, identity, receipts, locked, task, decided>>
    BY <1>1 DEF trustVars
  <2> QED BY <2>1 DEF TrustInv, WorldTypes, Reflects, Sound, Decides
<1>2. ASSUME NEW u \in Users, NEW w \in Wants, NEW src \in Selections \cup {FALSE}, LoadConfig(u, w, src)
      PROVE  TrustInv'
  BY <1>2, LoadStep
<1>3. ASSUME NEW u \in Users, ReadCandidate(u) \/ TrustSnapshot(u) \/ ApplyLayer(u) \/ Use(u)
      PROVE  TrustInv'
  BY <1>3, ReadStep, SnapshotStep, ApplyStep, UseStep
<1>4. ASSUME NEW u \in Users, EndTask(u) \/ Die(u) PROVE TrustInv'
  BY <1>4, QuitFine DEF EndTask, Die, places
<1>5. ASSUME NEW u \in Users, NEW s \in Subjects,
             \/ \E d \in Versions, c \in SUBSET Capabilities : ConfigTrust(u, s, d, c)
             \/ GuidedTrust(u, s)
             \/ \E d \in {"none"} \cup {r.digest : r \in receipts}, c \in SUBSET {First} :
                  ConfigRevoke(u, s, d, c)
      PROVE  TrustInv'
  BY <1>5, BeginDecision
<1>6. ASSUME NEW u \in Users, Confirm(u) \/ ResolveAgain(u) \/ NormalizeQuery(u) PROVE TrustInv'
  BY <1>6, PrepareDecision
<1>7. ASSUME NEW u \in Users, WithLockedFile(u) \/ WriteRoot(u) PROVE TrustInv'
  BY <1>7, LockStep, PublishStep
<1>8. CASE \/ \E l \in InRepository, v \in Versions \cup {"absent"} : EditLayer(l, v)
           \/ \E r \in {"canon", "clone"}, i \in 0 .. 2 : Replace(r, i)
  BY <1>8, WorldStep
<1> QED BY <1>1, <1>2, <1>3, <1>4, <1>5, <1>6, <1>7, <1>8 DEF TrustNext

LEMMA TrustInvUses == Sensible /\ TrustInv => UsesApproved
<1> SUFFICES ASSUME Sensible, TrustInv, NEW u \in Users, At(u, "used"), NEW f \in Required(task[u])
             PROVE  \/ task[u].field[f].layer = "user"
                    \/ Stood(<<task[u].field[f].layer, task[u].src>>, Needs[f],
                          [digest |-> task[u].field[f].bytes, id |-> task[u].field[f].id])
                         \in task[u].window
  BY DEF UsesApproved, Stood
<1>1. task[u] \in LoadTask /\ LoadSound(task[u], decided)
  BY LoadAt
<1>2. f \in Fields
  BY <1>1 DEF Required, Sensible, Fields, LoadTask
<1>3. task[u].field[f].layer # "none" /\ task[u].field[f].trusted
  BY <1>1 DEF LoadSound, Checked, At
<1> QED BY <1>1, <1>2, <1>3 DEF LoadSound, Backed

(* What the MLflow profile or the dispatcher uses comes from the user's own *)
(* layer or from bytes that were approved at some time of the load, for the *)
(* Source selected and the directory that stood there: no content that     *)
(* comes back, repository put in place of another, decision lost to a      *)
(* concurrent one or command killed under the lock revives an approval     *)
(* (trust.Store.Approve, Revoke, inspectReceipts; config.Loader.Load).           *)
THEOREM OnlyApprovedIsUsed ==
  ASSUME Sensible
  PROVE  TrustSpec => []UsesApproved
<1>1. TrustInit => TrustInv
  BY TrustInvInit
<1>2. TrustInv /\ [TrustNext]_trustVars => TrustInv'
  BY TrustInvStep
<1>3. TrustInv => UsesApproved
  BY TrustInvUses
<1> QED BY <1>1, <1>2, <1>3, PTL DEF TrustSpec

(* Receipts never grant more than what was last decided about a capability *)
(* of a layer, whatever decisions raced or died (trust.Store.mutate).      *)
THEOREM ReceiptsFollowDecisions ==
  ASSUME Sensible
  PROVE  TrustSpec => []Reflects
<1>1. TrustInit => TrustInv
  BY TrustInvInit
<1>2. TrustInv /\ [TrustNext]_trustVars => TrustInv'
  BY TrustInvStep
<1>3. TrustInv => Reflects
  BY DEF TrustInv
<1> QED BY <1>1, <1>2, <1>3, PTL DEF TrustSpec

-----------------------------------------------------------------------------
(* ProjectInit: types.                                                     *)

Markers == [id : Nat, text : {0, 1}]
Statuses == [here : BOOLEAN, marker : {Nil} \cup Markers, dirs : Nat, temp : BOOLEAN,
              other : {"none", "unrelated"}]
Pledges == {NoPledge} \cup [state : {"good", "damaged"}, content : Markers]
Points == {"lock", "scan", "receipt", "clean", "classify", "choose", "promise", "directories",
           "ensure", "existing", "again", "temp", "publish", "verify"}
Chores == [pc : Points, at : Trees, todo : SUBSET Trees, found : SUBSET Markers,
           own : {Nil} \cup Markers, absent : SUBSET Trees, read : Pledges,
           chosen : {Nil} \cup Markers]
Tallies == [inits : Nat, outside : Nat, crashes : Nat]

InitTypes ==
    /\ tree \in [Trees -> Statuses]
    /\ history \subseteq Markers
    /\ pledge \in Pledges
    /\ init \in [Starters -> {Nil} \cup Chores]
    /\ minted \subseteq Nat
    /\ tampered \in {"kept", "damaged", "removed"}
    /\ tally \in Tallies

Starting(u) == init[u] # Nil

\* Who is past the lock holds it.
OneAtATime == \A u \in Starters : Starting(u) /\ init[u].pc # "lock" => holder = u

-----------------------------------------------------------------------------
(* Identities.                                                             *)

\* Past the choice and the receipt.
Promised == {"directories", "ensure", "existing", "again", "temp", "publish", "verify"}

\* A command knows identities of S, but for the one it is about to promise.
ChoreWithin(i, S) ==
    /\ \A m \in i.found : m.id \in S
    /\ i.own # Nil => i.own.id \in S
    /\ i.read.state # "none" => i.read.content.id \in S
    /\ i.pc \in Promised => i.chosen.id \in S
    /\ i.pc = "promise" /\ (i.found # {} \/ i.read.state # "none") => i.chosen.id \in S

\* What Git, the worktrees and the receipt hold are identities of S.
PlacesWithin(S) ==
    /\ \A m \in history : m.id \in S
    /\ \A w \in Trees : Marked(w) => tree[w].marker.id \in S
    /\ pledge.state # "none" => pledge.content.id \in S
    /\ minted \subseteq S \ {0}

Within(S) == PlacesWithin(S) /\ \A u \in Starters : Starting(u) => ChoreWithin(init[u], S)

\* Without a receipt there is no new identity, with one there is at most one.
Identities ==
    tampered # "removed" =>
        IF pledge.state = "none" THEN Within({0}) ELSE \E n \in Nat : Within({0, n})

\* What a command has read, and what it has chosen, is what the receipt says.
Faithful(i) ==
    tampered = "kept" =>
        /\ i.pc \in {"clean", "classify", "choose", "promise"} => i.read = pledge
        /\ i.pc \in {"directories", "again", "temp", "publish"} =>
             pledge = [state |-> "good", content |-> i.chosen]

\* From its choice on a command has a content to publish.
HasChosen(i) == i.pc \in Promised \cup {"promise"} => i.chosen \in Markers

ProjectInv ==
    /\ InitTypes
    /\ OneAtATime
    /\ Identities
    /\ \A u \in Starters : Starting(u) => Faithful(init[u]) /\ HasChosen(init[u])

LEMMA ProjectInvInit == ProjectInitInit => ProjectInv
<1> SUFFICES ASSUME ProjectInitInit PROVE ProjectInv
  OBVIOUS
<1>1. Old \in Markers /\ Old.id = 0
  BY DEF Old, Markers
<1>2. pledge = NoPledge /\ pledge.state = "none"
  BY DEF ProjectInitInit, NoPledge
<1>3. tree \in [Trees -> Statuses] /\ \A w \in Trees : tree[w].marker \in {Nil, Old}
  BY <1>1 DEF ProjectInitInit, Statuses
<1>4. history \subseteq {Old}
  BY DEF ProjectInitInit
<1>5. InitTypes
  <2>1. tally \in Tallies
    BY DEF ProjectInitInit, Tallies
  <2>2. init \in [Starters -> {Nil} \cup Chores]
    BY DEF ProjectInitInit
  <2> QED BY <1>1, <1>2, <1>3, <1>4, <2>1, <2>2 DEF InitTypes, ProjectInitInit, Pledges
<1>6. \A u \in Starters : ~Starting(u)
  BY DEF ProjectInitInit, Starting
<1>7. Within({0})
  BY <1>1, <1>2, <1>3, <1>4, <1>6 DEF Within, PlacesWithin, Marked, ProjectInitInit
<1> QED BY <1>2, <1>5, <1>6, <1>7 DEF ProjectInv, OneAtATime, Identities

-----------------------------------------------------------------------------
(* A command goes on; nothing that holds an identity changes.              *)

LEMMA InitGoesOn ==
  ASSUME ProjectInv,
         NEW u \in Starters, NEW x \in {Nil} \cup Chores,
         init' = [init EXCEPT ![u] = x],
         tree' \in [Trees -> Statuses],
         \A w \in Trees : tree'[w].marker = tree[w].marker,
         UNCHANGED <<pledge, history, minted, tampered>>,
         tally' \in Tallies,
         \/ holder' = holder
         \/ holder = Nil /\ holder' = u
         \/ holder' = Nil /\ x = Nil /\ holder = u,
         Lockable,
         x # Nil => /\ x.pc # "lock" => holder' = u
                    /\ \A S \in SUBSET Nat : Within(S) => ChoreWithin(x, S)
                    /\ Faithful(x) /\ HasChosen(x)
  PROVE  ProjectInv'
<1>1. InitTypes'
  BY DEF ProjectInv, InitTypes
<1>2. \A v \in Starters : init'[v] = IF v = u THEN x ELSE init[v]
  BY DEF ProjectInv, InitTypes
<1>3. OneAtATime'
  <2> SUFFICES ASSUME NEW v \in Starters, init'[v] # Nil, init'[v].pc # "lock" PROVE holder' = v
    BY DEF OneAtATime, Starting
  <2>1. CASE v = u
    BY <1>2, <2>1
  <2>2. CASE v # u
    <3>1. holder = v
      BY <1>2, <2>2 DEF ProjectInv, OneAtATime, Starting
    <3> QED BY <2>2, <3>1 DEF Lockable
  <2> QED BY <2>1, <2>2
<1>4. ASSUME NEW S \in SUBSET Nat, Within(S) PROVE Within(S)'
  <2>1. PlacesWithin(S)'
    BY <1>4 DEF Within, PlacesWithin, Marked
  <2>2. ASSUME NEW v \in Starters, init'[v] # Nil PROVE ChoreWithin(init[v], S)'
    <3>1. ChoreWithin(init'[v], S)
      BY <1>2, <1>4, <2>2 DEF Within, Starting
    <3> QED BY <3>1 DEF ChoreWithin
  <2> QED BY <2>1, <2>2 DEF Within, Starting
<1>5. Identities'
  <2>1. {0} \in SUBSET Nat /\ \A n \in Nat : {0, n} \in SUBSET Nat
    OBVIOUS
  <2> QED BY <1>4, <2>1 DEF ProjectInv, Identities
<1>6. ASSUME NEW v \in Starters, init'[v] # Nil PROVE Faithful(init[v])' /\ HasChosen(init[v])'
  <2>1. Faithful(init'[v]) /\ HasChosen(init'[v])
    BY <1>2, <1>6 DEF ProjectInv, Starting
  <2> QED BY <2>1 DEF Faithful, HasChosen
<1> QED BY <1>1, <1>3, <1>5, <1>6 DEF ProjectInv, Starting

LEMMA InCommand ==
  ASSUME ProjectInv, NEW u \in Starters, NEW pc, Stands(u, pc)
  PROVE  /\ init[u] \in Chores /\ init[u].pc = pc /\ Starting(u)
         /\ Faithful(init[u]) /\ HasChosen(init[u])
         /\ pc # "lock" => holder = u
         /\ \A S \in SUBSET Nat : Within(S) => ChoreWithin(init[u], S)
BY DEF ProjectInv, InitTypes, Stands, IsNothing, Starting, OneAtATime, Within

LEMMA InitEnds ==
  ASSUME ProjectInv, Lockable, NEW u \in Starters, NEW pc, Stands(u, pc), pc # "lock",
         EndInit(u), tree' \in [Trees -> Statuses],
         \A w \in Trees : tree'[w].marker = tree[w].marker,
         UNCHANGED <<pledge, history, minted, tampered, tally>>
  PROVE  ProjectInv'
<1>1. holder = u
  BY InCommand
<1>2. tally' \in Tallies
  BY DEF ProjectInv, InitTypes
<1>3. init' = [init EXCEPT ![u] = Nil] /\ holder' = Nil
  BY DEF EndInit, Continue
<1> QED BY <1>1, <1>2, <1>3, InitGoesOn

\* A stage that keeps to its part of the command.
Part(pc) ==
    CASE pc \in {"scan", "receipt"} -> 1
      [] pc \in {"clean", "classify", "choose"} -> 2
      [] pc \in {"directories", "again", "temp", "publish"} -> 3
      [] pc \in {"ensure", "existing"} -> 4
      [] OTHER -> 5

LEMMA InitStepsTo ==
  ASSUME ProjectInv, Lockable, NEW u \in Starters, NEW pc, Stands(u, pc),
         NEW to \in Points, Part(to) = Part(pc), Part(pc) # 5, Onward(u, to),
         tree' \in [Trees -> Statuses],
         \A w \in Trees : tree'[w].marker = tree[w].marker,
         UNCHANGED <<pledge, holder, history4>>
  PROVE  ProjectInv'
<1>1. PICK x : x = [init[u] EXCEPT !.pc = to]
  OBVIOUS
<1>2. /\ init[u] \in Chores /\ init[u].pc = pc
      /\ Faithful(init[u]) /\ HasChosen(init[u])
      /\ pc # "lock" => holder = u
      /\ \A S \in SUBSET Nat : Within(S) => ChoreWithin(init[u], S)
  BY InCommand
<1>3. x \in Chores /\ x.pc = to /\ x.found = init[u].found /\ x.own = init[u].own
      /\ x.read = init[u].read /\ x.chosen = init[u].chosen
  BY <1>1, <1>2 DEF Chores
<1>4. pc \in Points
  BY <1>2 DEF Chores
<1>5. /\ pc # "lock" /\ to # "promise"
      /\ to \in Promised => pc \in Promised
      /\ to \in {"clean", "classify", "choose", "promise"} => pc \in {"clean", "classify", "choose"}
      /\ to \in {"directories", "again", "temp", "publish"} =>
            pc \in {"directories", "again", "temp", "publish"}
  BY <1>4 DEF Part, Points, Promised
<1>6. Faithful(x)
  BY <1>2, <1>3, <1>5 DEF Faithful
<1>7. HasChosen(x)
  BY <1>2, <1>3, <1>5 DEF HasChosen
<1>8. ASSUME NEW S \in SUBSET Nat, Within(S) PROVE ChoreWithin(x, S)
  BY <1>2, <1>3, <1>5, <1>8 DEF ChoreWithin
<1>9. init' = [init EXCEPT ![u] = x]
  BY <1>1 DEF Onward, Continue
<1>10. tally' \in Tallies /\ UNCHANGED <<history, minted, tampered>>
  BY DEF history4, ProjectInv, InitTypes
<1> QED BY <1>2, <1>3, <1>5, <1>6, <1>7, <1>8, <1>9, <1>10, InitGoesOn

\* Directories and temporaries come and go, markers stay.
LEMMA MarkersStay ==
  ASSUME ProjectInv, NEW w \in Trees, NEW t \in Statuses, t.marker = tree[w].marker,
         tree' = tree \/ Change(w, t)
  PROVE  tree' \in [Trees -> Statuses] /\ \A v \in Trees : tree'[v].marker = tree[v].marker
BY DEF ProjectInv, InitTypes, Change

LEMMA InitLooks ==
  ASSUME ProjectInv, Lockable, NEW u \in Starters,
         \/ SelectProject(u) \/ Classify(u) \/ ClassifyAgain(u) \/ Verified(u)
  PROVE  ProjectInv'
<1>1. tree' = tree /\ UNCHANGED <<pledge, history4>>
  BY DEF SelectProject, Classify, ClassifyAgain, Verified, StepTo, RefuseInit
<1>2. tree' \in [Trees -> Statuses] /\ \A v \in Trees : tree'[v].marker = tree[v].marker
  BY <1>1 DEF ProjectInv, InitTypes
<1>3. UNCHANGED <<pledge, history, minted, tampered, tally>>
  BY <1>1 DEF history4
<1>4. ASSUME NEW pc \in Points, NEW to \in Points, Stands(u, pc), Part(to) = Part(pc), Part(pc) # 5,
             StepTo(u, to) \/ RefuseInit(u)
      PROVE  ProjectInv'
  <2>1. CASE StepTo(u, to)
    BY <1>1, <1>2, <1>4, <2>1, InitStepsTo DEF StepTo
  <2>2. CASE RefuseInit(u)
    <3>1. pc # "lock"
      BY <1>4 DEF Part
    <3> QED BY <1>2, <1>3, <1>4, <2>2, <3>1, InitEnds DEF RefuseInit
  <2> QED BY <1>4, <2>1, <2>2
<1>5. CASE SelectProject(u)
  BY <1>4, <1>5 DEF SelectProject, Part, Points
<1>6. CASE Classify(u)
  BY <1>4, <1>6 DEF Classify, Part, Points
<1>7. CASE ClassifyAgain(u)
  BY <1>4, <1>7 DEF ClassifyAgain, Part, Points
<1>8. CASE Verified(u)
  BY <1>2, <1>3, <1>8, InitEnds DEF Verified, RefuseInit
<1> QED BY <1>5, <1>6, <1>7, <1>8

LEMMA InitTouches ==
  ASSUME ProjectInv, Lockable, NEW u \in Starters,
         \/ CleanTemps(u) \/ EnsureDirectory(u) \/ KeepExisting(u) \/ WriteTemp(u)
         \/ PublishFails(u)
  PROVE  ProjectInv'
<1>1. PICK w \in Trees : w = Site(u)
  BY InCommand DEF CleanTemps, EnsureDirectory, KeepExisting, WriteTemp, PublishFails, Site, Chores
<1>2. tree[w] \in Statuses
  BY DEF ProjectInv, InitTypes
<1>3. tree \in [Trees -> Statuses]
  BY DEF ProjectInv, InitTypes
<1>4. CASE CleanTemps(u)
  <2> DEFINE known == init[u].read.state = "good" \/ init[u].found # {}
  <2>1. PICK t : t = [tree[w] EXCEPT !.temp = @ /\ ~known]
    OBVIOUS
  <2>2. t \in Statuses /\ t.marker = tree[w].marker
    BY <1>2, <2>1 DEF Statuses
  <2>3. Change(w, t) /\ Stands(u, "clean") /\ Onward(u, "classify")
        /\ UNCHANGED <<pledge, holder, history4>>
    BY <1>1, <1>4, <2>1 DEF CleanTemps
  <2>4. tree' \in [Trees -> Statuses] /\ \A v \in Trees : tree'[v].marker = tree[v].marker
    BY <2>2, <2>3, MarkersStay
  <2> QED BY <2>3, <2>4, InitStepsTo DEF Part, Points
<1>5. CASE EnsureDirectory(u)
  <2>1. PICK pc \in {"directories", "ensure"} : Stands(u, pc)
    BY <1>5 DEF EnsureDirectory
  <2>2. CASE RefuseInit(u)
    BY <1>3, <2>1, <2>2, InitEnds DEF RefuseInit, history4
  <2>3. CASE StepTo(u, IF Stands(u, "ensure") THEN "existing" ELSE "again")
    <3> DEFINE to == IF pc = "ensure" THEN "existing" ELSE "again"
    <3>1. StepTo(u, to)
      BY <2>1, <2>3 DEF Stands
    <3>2. to \in Points /\ Part(to) = Part(pc) /\ Part(pc) # 5
      BY <2>1 DEF Part, Points
    <3> HIDE DEF to
    <3> QED BY <1>3, <2>1, <3>1, <3>2, InitStepsTo DEF StepTo
  <2>4. CASE /\ Change(w, [tree[w] EXCEPT !.dirs = @ + 1])
             /\ UNCHANGED <<pledge, holder, init, history4>>
    <3>1. PICK t : t = [tree[w] EXCEPT !.dirs = @ + 1]
      OBVIOUS
    <3>2. t \in Statuses /\ t.marker = tree[w].marker
      BY <1>2, <3>1 DEF Statuses
    <3>3. tree' \in [Trees -> Statuses] /\ \A v \in Trees : tree'[v].marker = tree[v].marker
      BY <2>4, <3>1, <3>2, MarkersStay
    <3>4. Onward(u, pc) /\ pc \in Points /\ Part(pc) # 5
      BY <2>1, <2>4, InCommand DEF Onward, Continue, Chores, Part, Points, ProjectInv, InitTypes
    <3> QED BY <2>1, <2>4, <3>3, <3>4, InitStepsTo
  <2> QED BY <1>1, <1>5, <2>2, <2>3, <2>4 DEF EnsureDirectory
<1>6. PICK bare : bare = [tree[w] EXCEPT !.temp = FALSE]
  OBVIOUS
<1>7. bare \in Statuses /\ bare.marker = tree[w].marker
  BY <1>2, <1>6 DEF Statuses
<1>8. [tree EXCEPT ![w].temp = FALSE] = [tree EXCEPT ![w] = bare]
  BY <1>6
<1>9. CASE KeepExisting(u)
  <2>1. tree' = tree \/ Change(w, bare)
    BY <1>1, <1>8, <1>9 DEF KeepExisting, Change
  <2>2. tree' \in [Trees -> Statuses] /\ \A v \in Trees : tree'[v].marker = tree[v].marker
    BY <1>7, <2>1, MarkersStay
  <2> QED BY <1>9, <2>2, InitEnds DEF KeepExisting, history4
<1>10. CASE PublishFails(u)
  <2>1. tree' = tree \/ Change(w, bare)
    BY <1>1, <1>8, <1>10 DEF PublishFails, Change
  <2>2. tree' \in [Trees -> Statuses] /\ \A v \in Trees : tree'[v].marker = tree[v].marker
    BY <1>7, <2>1, MarkersStay
  <2> QED BY <1>10, <2>2, InitEnds DEF PublishFails, history4
<1>11. CASE WriteTemp(u)
  <2>1. CASE RefuseInit(u)
    BY <1>3, <1>11, <2>1, InitEnds DEF WriteTemp, RefuseInit, history4
  <2>2. CASE ~RefuseInit(u)
    <3>1. PICK t : t = [tree[w] EXCEPT !.temp = TRUE]
      OBVIOUS
    <3>2. t \in Statuses /\ t.marker = tree[w].marker
      BY <1>2, <3>1 DEF Statuses
    <3>3. Change(w, t) /\ Stands(u, "temp") /\ Onward(u, "publish")
          /\ UNCHANGED <<pledge, holder, history4>>
      BY <1>1, <1>11, <2>2, <3>1 DEF WriteTemp
    <3>4. tree' \in [Trees -> Statuses] /\ \A v \in Trees : tree'[v].marker = tree[v].marker
      BY <3>2, <3>3, MarkersStay
    <3> QED BY <3>3, <3>4, InitStepsTo DEF Part, Points
  <2> QED BY <2>1, <2>2
<1> QED BY <1>4, <1>5, <1>9, <1>10, <1>11

-----------------------------------------------------------------------------
(* What a command reads, and what it chooses.                              *)

LEMMA InitReads ==
  ASSUME ProjectInv, Lockable, NEW u \in Starters,
         \/ \E w \in Trees : BeginInit(u, w) \/ ReadMarker(u, w)
         \/ ListWorktrees(u) \/ LookAtReceipt(u) \/ DieInit(u)
  PROVE  ProjectInv'
<1>1. tree \in [Trees -> Statuses] /\ tally \in Tallies
  BY DEF ProjectInv, InitTypes
<1>2. ASSUME NEW x \in {Nil} \cup Chores, Continue(u, x), UNCHANGED <<tree, pledge, history4>>,
             \/ holder' = holder
             \/ holder = Nil /\ holder' = u
             \/ holder' = Nil /\ x = Nil /\ holder = u,
             x # Nil => /\ x.pc # "lock" => holder' = u
                        /\ \A S \in SUBSET Nat : Within(S) => ChoreWithin(x, S)
                        /\ Faithful(x) /\ HasChosen(x)
      PROVE  ProjectInv'
  BY <1>1, <1>2, InitGoesOn DEF Continue, history4
<1>3. ASSUME NEW w \in Trees, BeginInit(u, w) PROVE ProjectInv'
  <2>1. PICK x : x = [pc |-> "lock", at |-> w, todo |-> {}, found |-> {}, own |-> Nil,
                      absent |-> {}, read |-> NoPledge, chosen |-> Nil]
    OBVIOUS
  <2>2. /\ x \in Chores /\ x.pc = "lock" /\ x.found = {} /\ x.own = Nil
        /\ x.read.state = "none"
    BY <2>1 DEF Chores, Points, Pledges, NoPledge
  <2>3. \A S : ChoreWithin(x, S)
    BY <2>2 DEF ChoreWithin, Promised
  <2>4. Faithful(x) /\ HasChosen(x)
    BY <2>2 DEF Faithful, HasChosen, Promised
  <2>5. tally' \in Tallies
    BY <1>1, <1>3 DEF BeginInit, Tallies
  <2>6. init' = [init EXCEPT ![u] = x] /\ UNCHANGED <<tree, pledge, holder, history, minted, tampered>>
    BY <1>3, <2>1 DEF BeginInit, Continue
  <2> QED BY <1>1, <2>2, <2>3, <2>4, <2>5, <2>6, InitGoesOn
<1>4. CASE ListWorktrees(u)
  <2>1. PICK x : x = [init[u] EXCEPT !.pc = "scan", !.absent = Unplugged \ {Site(u)},
                                     !.todo = (Trees \ Unplugged) \cup {Site(u)}]
    OBVIOUS
  <2>2. /\ init[u] \in Chores /\ init[u].pc = "lock" /\ Faithful(init[u])
        /\ \A S \in SUBSET Nat : Within(S) => ChoreWithin(init[u], S)
    BY <1>4, InCommand DEF ListWorktrees
  <2>3. /\ x \in Chores /\ x.pc = "scan" /\ x.found = init[u].found /\ x.own = init[u].own
        /\ x.read = init[u].read
    BY <2>1, <2>2 DEF Chores, Points, Unplugged, Site
  <2>4. Faithful(x) /\ HasChosen(x)
    BY <2>3 DEF Faithful, HasChosen, Promised
  <2>5. \A S \in SUBSET Nat : Within(S) => ChoreWithin(x, S)
    BY <2>2, <2>3 DEF ChoreWithin, Promised
  <2> QED BY <1>2, <1>4, <2>1, <2>3, <2>4, <2>5 DEF ListWorktrees, IsNothing
<1>5. ASSUME NEW w \in Trees, ReadMarker(u, w) PROVE ProjectInv'
  <2>1. /\ init[u] \in Chores /\ init[u].pc = "scan" /\ holder = u
        /\ \A S \in SUBSET Nat : Within(S) => ChoreWithin(init[u], S)
    <3>1. Stands(u, "scan")
      BY <1>5 DEF ReadMarker
    <3> QED BY <3>1, InCommand
  <2>2. CASE RefuseInit(u)
    BY <1>1, <1>5, <2>2, InitEnds DEF ReadMarker, RefuseInit, history4
  <2>3. CASE ~RefuseInit(u)
    <3>1. PICK x : x = [init[u] EXCEPT !.todo = @ \ {w},
                          !.found = IF Marked(w) THEN @ \cup {tree[w].marker} ELSE @,
                          !.own = IF w = Site(u) THEN tree[w].marker ELSE @]
      OBVIOUS
    <3>2. tree[w].marker \in {Nil} \cup Markers /\ (Marked(w) <=> tree[w].marker # Nil)
      BY <1>1 DEF Statuses, Marked
    <3>3. /\ x \in Chores /\ x.pc = "scan" /\ x.read = init[u].read
          /\ x.found \subseteq init[u].found \cup (IF Marked(w) THEN {tree[w].marker} ELSE {})
          /\ x.own \in {init[u].own, tree[w].marker}
      BY <2>1, <3>1, <3>2 DEF Chores
    <3>4. Faithful(x) /\ HasChosen(x)
      BY <3>3 DEF Faithful, HasChosen, Promised
    <3>5. ASSUME NEW S \in SUBSET Nat, Within(S) PROVE ChoreWithin(x, S)
      <4>1. ChoreWithin(init[u], S) /\ (Marked(w) => tree[w].marker.id \in S)
        BY <2>1, <3>5 DEF Within, PlacesWithin
      <4> QED BY <3>2, <3>3, <4>1 DEF ChoreWithin, Promised
    <3>6. Continue(u, x) /\ UNCHANGED <<tree, pledge, holder, history4>>
      BY <1>5, <2>3, <3>1 DEF ReadMarker
    <3> QED BY <1>2, <2>1, <3>3, <3>4, <3>5, <3>6
  <2> QED BY <2>2, <2>3
<1>6. CASE LookAtReceipt(u)
  <2>1. PICK x : x = [init[u] EXCEPT !.read = pledge,
                                     !.pc = IF IsNothing(init[u].own) THEN "clean" ELSE "choose"]
    OBVIOUS
  <2>2. /\ init[u] \in Chores /\ init[u].pc = "receipt" /\ holder = u
        /\ \A S \in SUBSET Nat : Within(S) => ChoreWithin(init[u], S)
    BY <1>6, InCommand DEF LookAtReceipt
  <2>3. /\ x \in Chores /\ x.pc \in {"clean", "choose"} /\ x.found = init[u].found
        /\ x.own = init[u].own /\ x.read = pledge
    BY <2>1, <2>2 DEF Chores, Points, ProjectInv, InitTypes
  <2>4. Faithful(x) /\ HasChosen(x)
    BY <2>3 DEF Faithful, HasChosen, Promised
  <2>5. \A S \in SUBSET Nat : Within(S) => ChoreWithin(x, S)
    BY <2>2, <2>3 DEF ChoreWithin, Promised, Within, PlacesWithin
  <2> QED BY <1>2, <1>6, <2>1, <2>2, <2>3, <2>4, <2>5 DEF LookAtReceipt
<1>7. CASE DieInit(u)
  <2>1. tally' \in Tallies
    BY <1>1, <1>7 DEF DieInit, Tallies
  <2>2. init' = [init EXCEPT ![u] = Nil] /\ UNCHANGED <<tree, pledge, history, minted, tampered>>
    BY <1>7 DEF DieInit, Continue
  <2>3. holder' = holder \/ (holder' = Nil /\ holder = u)
    BY <1>7 DEF DieInit
  <2> QED BY <1>1, <2>1, <2>2, <2>3, InitGoesOn
<1> QED BY <1>3, <1>4, <1>5, <1>6, <1>7

LEMMA InitChooses ==
  ASSUME ProjectInv, Lockable, NEW u \in Starters, Choose(u) PROVE ProjectInv'
<1>1. /\ init[u] \in Chores /\ init[u].pc = "choose" /\ Faithful(init[u]) /\ holder = u
      /\ \A S \in SUBSET Nat : Within(S) => ChoreWithin(init[u], S)
  BY InCommand DEF Choose
<1>2. tree \in [Trees -> Statuses] /\ tally \in Tallies
  BY DEF ProjectInv, InitTypes
<1> DEFINE Next(m, pc) ==
             /\ Continue(u, [init[u] EXCEPT !.chosen = m, !.pc = pc])
             /\ UNCHANGED <<tree, pledge, holder, history4>>
<1> DEFINE after == IF IsNothing(init[u].own) THEN "directories" ELSE "ensure"
<1>3. ASSUME NEW m \in Markers, NEW pc \in {"promise", "directories", "ensure"}, Next(m, pc),
             pc # "promise" => init[u].read = [state |-> "good", content |-> m],
             \/ m \in init[u].found
             \/ m = init[u].own /\ init[u].own # Nil
             \/ init[u].read.state = "good" /\ m = init[u].read.content
             \/ init[u].found = {} /\ init[u].read.state = "none" /\ pc = "promise"
      PROVE  ProjectInv'
  <2>1. PICK x : x = [init[u] EXCEPT !.chosen = m, !.pc = pc]
    OBVIOUS
  <2>2. /\ x \in Chores /\ x.pc = pc /\ x.found = init[u].found /\ x.own = init[u].own
        /\ x.read = init[u].read /\ x.chosen = m
    BY <1>1, <2>1 DEF Chores, Points
  <2>3. Faithful(x)
    BY <1>1, <1>3, <2>2 DEF Faithful
  <2>4. HasChosen(x)
    BY <2>2 DEF HasChosen
  <2>5. ASSUME NEW S \in SUBSET Nat, Within(S) PROVE ChoreWithin(x, S)
    <3>1. ChoreWithin(init[u], S)
      BY <1>1, <2>5
    <3> QED BY <1>3, <2>2, <3>1 DEF ChoreWithin, Promised
  <2>6. init' = [init EXCEPT ![u] = x] /\ UNCHANGED <<tree, pledge, holder, history, minted, tampered, tally>>
    BY <1>3, <2>1 DEF Continue, history4
  <2> QED BY <1>1, <1>2, <2>2, <2>3, <2>4, <2>5, <2>6, InitGoesOn
<1>4. after \in {"directories", "ensure"}
  OBVIOUS
<1>5. CASE RefuseInit(u)
  BY <1>2, <1>5, InitEnds DEF Choose, RefuseInit, history4
<1>6. ASSUME NEW m \in Canonical(init[u]), init[u].found # {},
             IF init[u].read = [state |-> "good", content |-> m]
             THEN Next(m, after) ELSE Next(m, "promise")
      PROVE  ProjectInv'
  <2>1. m \in Markers
        /\ (m \in init[u].found \/ (m = init[u].own /\ init[u].own # Nil))
    BY <1>1, <1>6 DEF Canonical, IsNothing, Chores
  <2> HIDE DEF after, Next
  <2> QED BY <1>3, <1>4, <1>6, <2>1
<1>7. CASE init[u].read.state = "good" /\ Next(init[u].read.content, after)
  <2>1. init[u].read = [state |-> "good", content |-> init[u].read.content]
        /\ init[u].read.content \in Markers
    BY <1>1, <1>7 DEF Chores, Pledges, NoPledge
  <2> HIDE DEF after, Next
  <2> QED BY <1>3, <1>4, <1>7, <2>1
<1>8. CASE init[u].found = {} /\ init[u].read.state = "none"
           /\ Next([id |-> tally.inits, text |-> 0], "promise")
  <2>1. [id |-> tally.inits, text |-> 0] \in Markers
    BY <1>2 DEF Tallies, Markers
  <2> HIDE DEF after, Next
  <2> QED BY <1>3, <1>8, <2>1
<1> QED BY <1>5, <1>6, <1>7, <1>8 DEF Choose

-----------------------------------------------------------------------------
(* The receipt and the marker.                                             *)

LEMMA ReceiptWritten ==
  ASSUME ProjectInv, Lockable, NEW u \in Starters, WriteReceipt(u) PROVE ProjectInv'
<1>1. /\ init[u] \in Chores /\ init[u].pc = "promise" /\ HasChosen(init[u]) /\ holder = u /\ Starting(u)
      /\ \A S \in SUBSET Nat : Within(S) => ChoreWithin(init[u], S)
  BY InCommand DEF WriteReceipt
<1>2. tree \in [Trees -> Statuses] /\ tally \in Tallies /\ InitTypes
  BY DEF ProjectInv, InitTypes
<1>3. CASE RefuseInit(u)
  BY <1>2, <1>3, InitEnds DEF WriteReceipt, RefuseInit, history4
<1>4. CASE ~RefuseInit(u)
  <2> DEFINE to == IF IsNothing(init[u].own) THEN "directories" ELSE "ensure"
  <2>1. PICK m : m = init[u].chosen
    OBVIOUS
  <2>2. m \in Markers
    BY <1>1, <2>1 DEF HasChosen
  <2>3. PICK x : x = [init[u] EXCEPT !.pc = to]
    OBVIOUS
  <2>4. to \in {"directories", "ensure"}
    OBVIOUS
  <2>5. /\ x \in Chores /\ x.pc \in {"directories", "ensure"} /\ x.found = init[u].found
        /\ x.own = init[u].own /\ x.read = init[u].read /\ x.chosen = m
    BY <1>1, <2>1, <2>3, <2>4 DEF Chores, Points
  <2>6. /\ pledge = init[u].read
        /\ pledge' = [state |-> "good", content |-> m]
        /\ tampered' = IF tampered = "damaged" THEN "kept" ELSE tampered
        /\ init' = [init EXCEPT ![u] = x]
        /\ UNCHANGED <<tree, holder, history, minted, tally>>
    BY <1>4, <2>1, <2>3 DEF WriteReceipt, Onward, Continue
  <2>7. \A v \in Starters : init'[v] = IF v = u THEN x ELSE init[v]
    BY <1>2, <2>6 DEF InitTypes
  <2>8. \A v \in Starters : v # u /\ Starting(v) => init[v].pc = "lock"
    BY <1>1 DEF ProjectInv, OneAtATime
  <2>9. InitTypes'
    BY <1>2, <2>2, <2>5, <2>6 DEF InitTypes, Pledges
  <2>10. OneAtATime'
    BY <1>1, <2>6, <2>7 DEF ProjectInv, OneAtATime, Starting
  <2>11. ASSUME NEW S \in SUBSET Nat, Within(S), m.id \in S PROVE Within(S)'
    <3>1. PlacesWithin(S)'
      BY <2>6, <2>11 DEF Within, PlacesWithin, Marked
    <3>2. ChoreWithin(init[u], S)
      BY <1>1, <2>11
    <3>3. ChoreWithin(x, S)
      BY <2>5, <2>11, <3>2 DEF ChoreWithin
    <3>4. ASSUME NEW v \in Starters, init'[v] # Nil PROVE ChoreWithin(init[v], S)'
      <4>1. ChoreWithin(init'[v], S)
        BY <2>7, <2>11, <3>3, <3>4 DEF Within, Starting
      <4> QED BY <4>1 DEF ChoreWithin
    <3> QED BY <3>1, <3>4 DEF Within, Starting
  <2>12. ASSUME tampered' # "removed" PROVE \E n \in Nat : Within({0, n})'
    <3>1. CASE pledge.state = "none"
      <4>1. Within({0})
        BY <2>6, <2>12, <3>1 DEF ProjectInv, Identities
      <4>2. PICK n \in Nat : n = m.id
        BY <2>2 DEF Markers
      <4>3. \A i : ChoreWithin(i, {0}) => ChoreWithin(i, {0, n})
        BY DEF ChoreWithin
      <4>4. PlacesWithin({0}) => PlacesWithin({0, n})
        BY DEF PlacesWithin
      <4>5. Within({0, n})
        BY <4>1, <4>3, <4>4 DEF Within
      <4>6. {0, n} \in SUBSET Nat
        OBVIOUS
      <4> QED BY <2>11, <4>2, <4>5, <4>6
    <3>2. CASE pledge.state # "none"
      <4>1. PICK n \in Nat : Within({0, n})
        BY <2>6, <2>12, <3>2 DEF ProjectInv, Identities
      <4>2. {0, n} \in SUBSET Nat
        OBVIOUS
      <4>3. ChoreWithin(init[u], {0, n})
        BY <1>1, <4>1, <4>2
      <4>4. m.id \in {0, n}
        BY <1>1, <2>1, <2>6, <3>2, <4>3 DEF ChoreWithin
      <4> QED BY <2>11, <4>1, <4>2, <4>4
    <3> QED BY <3>1, <3>2
  <2>13. Identities'
    BY <2>6, <2>12 DEF Identities
  <2>14. ASSUME NEW v \in Starters, init'[v] # Nil PROVE Faithful(init[v])' /\ HasChosen(init[v])'
    <3>1. CASE v = u
      BY <2>2, <2>5, <2>6, <2>7, <3>1 DEF Faithful, HasChosen
    <3>2. CASE v # u
      BY <2>7, <2>8, <2>14, <3>2 DEF Faithful, HasChosen, Starting, Promised
    <3> QED BY <3>1, <3>2
  <2> QED BY <2>9, <2>10, <2>13, <2>14 DEF ProjectInv, Starting
<1> QED BY <1>3, <1>4

\* Markers move between history, worktrees and the receipt; the commands go on.
LEMMA MarkersMove ==
  ASSUME ProjectInv, Lockable, InitTypes', UNCHANGED holder,
         pledge' = pledge \/ tampered' # "kept",
         pledge'.state # "none" => pledge'.content = pledge.content,
         tampered' # "removed" => /\ tampered # "removed"
                                  /\ pledge'.state = "none" <=> pledge.state = "none",
         tampered' = "kept" => tampered = "kept",
         \A S \in SUBSET Nat : Within(S) => PlacesWithin(S)',
         \A v \in Starters : init'[v] # Nil =>
            /\ Starting(v)
            /\ init'[v].pc # "lock" => init[v].pc # "lock"
            /\ init'[v] = init[v] \/ (/\ \A S \in SUBSET Nat : Within(S) => ChoreWithin(init'[v], S)
                                      /\ Faithful(init'[v]) /\ HasChosen(init'[v]))
  PROVE  ProjectInv'
<1>1. OneAtATime'
  BY DEF ProjectInv, OneAtATime, Starting
<1>2. ASSUME NEW S \in SUBSET Nat, Within(S) PROVE Within(S)'
  <2>1. ASSUME NEW v \in Starters, init'[v] # Nil PROVE ChoreWithin(init[v], S)'
    <3>1. ChoreWithin(init'[v], S)
      BY <1>2, <2>1 DEF Within, Starting
    <3> QED BY <3>1 DEF ChoreWithin
  <2> QED BY <1>2, <2>1 DEF Within, Starting
<1>3. Identities'
  <2>1. {0} \in SUBSET Nat /\ \A n \in Nat : {0, n} \in SUBSET Nat
    OBVIOUS
  <2> QED BY <1>2, <2>1 DEF ProjectInv, Identities
<1>4. ASSUME NEW v \in Starters, init'[v] # Nil PROVE Faithful(init[v])' /\ HasChosen(init[v])'
  <2>1. Faithful(init'[v]) /\ HasChosen(init'[v])
    BY <1>4 DEF ProjectInv, Starting
  <2> QED BY <2>1 DEF Faithful, HasChosen
<1> QED BY <1>1, <1>3, <1>4 DEF ProjectInv, Starting

LEMMA MarkerPublished ==
  ASSUME ProjectInv, Lockable, NEW u \in Starters, PublishMarker(u) PROVE ProjectInv'
<1>1. /\ init[u] \in Chores /\ init[u].pc = "publish" /\ HasChosen(init[u]) /\ holder = u /\ Starting(u)
      /\ \A S \in SUBSET Nat : Within(S) => ChoreWithin(init[u], S)
  BY InCommand DEF PublishMarker
<1>2. tree \in [Trees -> Statuses] /\ tally \in Tallies /\ InitTypes
  BY DEF ProjectInv, InitTypes
<1>3. PICK m, w, x : m = init[u].chosen /\ w = Site(u) /\ x = [init[u] EXCEPT !.pc = "verify"]
  OBVIOUS
<1>4. m \in Markers /\ w \in Trees
  BY <1>1, <1>3 DEF HasChosen, Promised, Site, Chores
<1>5. /\ x \in Chores /\ x.pc = "verify" /\ x.found = init[u].found
      /\ x.own = init[u].own /\ x.read = init[u].read /\ x.chosen = m
  BY <1>1, <1>3 DEF Chores, Points
<1>6. PICK t : t = [tree[w] EXCEPT !.temp = FALSE, !.marker = m]
  OBVIOUS
<1>7. t \in Statuses /\ t.marker = m
  <2>1. tree[w] \in Statuses
    BY <1>2, <1>4
  <2> QED BY <1>4, <1>6, <2>1 DEF Statuses
<1>8. /\ tree' = [tree EXCEPT ![w] = t] /\ history' = history \cup {m}
      /\ minted' = IF m.id # Old.id THEN minted \cup {m.id} ELSE minted
      /\ init' = [init EXCEPT ![u] = x]
      /\ UNCHANGED <<pledge, holder, tampered, tally>>
  BY <1>3, <1>6 DEF PublishMarker, Change, Onward, Continue
<1>9. InitTypes'
  BY <1>2, <1>4, <1>5, <1>7, <1>8 DEF InitTypes, Markers
<1>10. \A v \in Starters : init'[v] = IF v = u THEN x ELSE init[v]
  BY <1>2, <1>8 DEF InitTypes
<1>11. ASSUME NEW S \in SUBSET Nat, Within(S) PROVE m.id \in S /\ ChoreWithin(x, S)
  BY <1>1, <1>3, <1>5, <1>11 DEF ChoreWithin, Promised
<1>12. ASSUME NEW S \in SUBSET Nat, Within(S) PROVE PlacesWithin(S)'
  <2>1. m.id \in S /\ PlacesWithin(S)
    BY <1>11, <1>12 DEF Within
  <2>2. \A v \in Trees : Marked(v)' => tree'[v].marker.id \in S
    BY <1>2, <1>7, <1>8, <2>1 DEF PlacesWithin, Marked
  <2>3. minted' \subseteq S \ {0}
    BY <1>8, <2>1 DEF PlacesWithin, Old
  <2> QED BY <1>8, <2>1, <2>2, <2>3 DEF PlacesWithin
<1>13. Faithful(x) /\ HasChosen(x)
  BY <1>4, <1>5 DEF Faithful, HasChosen
<1>14. ASSUME NEW v \in Starters, init'[v] # Nil
       PROVE  /\ Starting(v)
              /\ init'[v].pc # "lock" => init[v].pc # "lock"
              /\ init'[v] = init[v] \/ (/\ \A S \in SUBSET Nat : Within(S) => ChoreWithin(init'[v], S)
                                        /\ Faithful(init'[v]) /\ HasChosen(init'[v]))
  <2>1. CASE v = u
    BY <1>1, <1>10, <1>11, <1>13, <2>1
  <2>2. CASE v # u
    BY <1>10, <1>14, <2>2 DEF Starting
  <2> QED BY <2>1, <2>2
<1> QED BY <1>8, <1>9, <1>12, <1>14, MarkersMove

-----------------------------------------------------------------------------
(* Git and people.                                                         *)

LEMMA PeopleMeddle ==
  ASSUME ProjectInv, Lockable,
         \/ \E w \in Trees : \/ Retitle(w) \/ Unplug(w) \/ Litter(w)
                             \/ \E m \in history \cup {Nil} : Checkout(w, m)
         \/ \E state \in {"damaged", "removed"} : SpoilReceipt(state)
  PROVE  ProjectInv'
<1>1. InitTypes
  BY DEF ProjectInv
<1>2. UNCHANGED <<holder, init, minted>> /\ tally' \in Tallies
  <2>1. Beyond
    BY DEF Retitle, Unplug, Litter, Checkout, SpoilReceipt
  <2> QED BY <1>1, <2>1 DEF Beyond, InitTypes, Tallies
<1>3. ASSUME NEW w \in Trees, NEW t \in Statuses, Change(w, t), NEW h \in SUBSET Markers,
             history' = history \cup h, UNCHANGED <<pledge, tampered>>,
             \A S \in SUBSET Nat : PlacesWithin(S) =>
                 /\ t.marker # Nil => t.marker.id \in S
                 /\ \A m \in h : m.id \in S
      PROVE  ProjectInv'
  <2>1. InitTypes'
    BY <1>1, <1>2, <1>3 DEF InitTypes, Change
  <2>2. ASSUME NEW S \in SUBSET Nat, Within(S) PROVE PlacesWithin(S)'
    <3>1. PlacesWithin(S)
      BY <2>2 DEF Within
    <3>2. \A v \in Trees : tree'[v] = IF v = w THEN t ELSE tree[v]
      BY <1>1, <1>3 DEF InitTypes, Change
    <3>3. \A v \in Trees : Marked(v)' => tree'[v].marker.id \in S
      BY <1>3, <3>1, <3>2 DEF PlacesWithin, Marked
    <3>4. \A m \in history' : m.id \in S
      BY <1>3, <3>1 DEF PlacesWithin
    <3> QED BY <1>2, <1>3, <3>1, <3>3, <3>4 DEF PlacesWithin
  <2> QED BY <1>2, <1>3, <2>1, <2>2, MarkersMove DEF Starting
<1>4. \A w \in Trees : tree[w] \in Statuses
  BY <1>1 DEF InitTypes
<1>5. ASSUME NEW w \in Trees, Retitle(w) PROVE ProjectInv'
  <2>1. PICK t : t = [tree[w] EXCEPT !.marker.text = 1]
    OBVIOUS
  <2>2. tree[w].marker \in Markers
    BY <1>4, <1>5 DEF Retitle, Marked, Statuses
  <2>3. PICK n : n = [tree[w].marker EXCEPT !.text = 1]
    OBVIOUS
  <2>4. n \in Markers /\ n.id = tree[w].marker.id
    BY <2>2, <2>3 DEF Markers
  <2>5. t \in Statuses /\ t.marker = n
    BY <1>4, <2>1, <2>3, <2>4 DEF Statuses
  <2>6. Change(w, t) /\ UNCHANGED <<pledge, tampered>>
    BY <1>5, <2>1 DEF Retitle
  <2>7. tree'[w] = t /\ history' = history \cup {n}
    BY <1>1, <1>5, <2>5, <2>6 DEF Retitle, Change, InitTypes
  <2>8. PICK h \in SUBSET Markers : h = {n}
    BY <2>4
  <2>9. ASSUME NEW S \in SUBSET Nat, PlacesWithin(S)
        PROVE  (t.marker # Nil => t.marker.id \in S) /\ \A m \in h : m.id \in S
    BY <1>5, <2>4, <2>5, <2>8, <2>9 DEF PlacesWithin, Retitle
  <2> QED BY <1>3, <2>5, <2>6, <2>7, <2>8, <2>9
<1>6. ASSUME NEW w \in Trees, NEW m \in history \cup {Nil}, Checkout(w, m) PROVE ProjectInv'
  <2>1. PICK t : t = [tree[w] EXCEPT !.marker = m, !.dirs = IF IsNothing(m) THEN @ ELSE 2]
    OBVIOUS
  <2>2. m \in {Nil} \cup Markers
    BY <1>1 DEF InitTypes
  <2>3. t \in Statuses /\ t.marker = m
    BY <1>4, <2>1, <2>2 DEF Statuses
  <2>4. PICK h \in SUBSET Markers : h = {}
    OBVIOUS
  <2>5. Change(w, t) /\ history' = history \cup h /\ UNCHANGED <<pledge, tampered>>
    BY <1>6, <2>1, <2>4 DEF Checkout
  <2>6. ASSUME NEW S \in SUBSET Nat, PlacesWithin(S)
        PROVE  (t.marker # Nil => t.marker.id \in S) /\ \A n \in h : n.id \in S
    BY <2>3, <2>4, <2>6 DEF PlacesWithin
  <2> QED BY <1>3, <2>3, <2>5, <2>6
<1>7. ASSUME NEW w \in Trees, Unplug(w) \/ Litter(w) PROVE ProjectInv'
  <2>1. PICK t \in Statuses : t.marker = tree[w].marker /\ Change(w, t)
    <3>1. [tree[w] EXCEPT !.here = ~@] \in Statuses
          /\ [tree[w] EXCEPT !.here = ~@].marker = tree[w].marker
      BY <1>4 DEF Statuses
    <3>2. [tree[w] EXCEPT !.other = "unrelated"] \in Statuses
          /\ [tree[w] EXCEPT !.other = "unrelated"].marker = tree[w].marker
      BY <1>4 DEF Statuses
    <3> QED BY <1>7, <3>1, <3>2 DEF Unplug, Litter
  <2>2. PICK h \in SUBSET Markers : h = {}
    OBVIOUS
  <2>3. history' = history \cup h /\ UNCHANGED <<pledge, tampered>>
    BY <1>7, <2>2 DEF Unplug, Litter
  <2>4. ASSUME NEW S \in SUBSET Nat, PlacesWithin(S)
        PROVE  (t.marker # Nil => t.marker.id \in S) /\ \A n \in h : n.id \in S
    BY <2>1, <2>2, <2>4 DEF PlacesWithin, Marked
  <2> QED BY <1>3, <2>1, <2>3, <2>4
<1>8. ASSUME NEW state \in {"damaged", "removed"}, SpoilReceipt(state) PROVE ProjectInv'
  <2>1. pledge \in [state : {"good", "damaged"}, content : Markers]
    BY <1>1, <1>8 DEF SpoilReceipt, InitTypes, Pledges, NoPledge
  <2>2. /\ pledge' \in Pledges
        /\ state = "removed" => pledge' = NoPledge
        /\ state = "damaged" => pledge'.content = pledge.content /\ pledge'.state = "damaged"
    BY <1>8, <2>1 DEF SpoilReceipt, Pledges
  <2>3. tampered' = (IF tampered = "removed" THEN tampered ELSE state)
        /\ UNCHANGED <<tree, history>> /\ pledge.state = "good"
    BY <1>8 DEF SpoilReceipt
  <2>4. InitTypes'
    BY <1>1, <1>2, <2>2, <2>3 DEF InitTypes
  <2>5. pledge'.state # "none" => state = "damaged"
    BY <2>2 DEF NoPledge
  <2>6. ASSUME NEW S \in SUBSET Nat, Within(S) PROVE PlacesWithin(S)'
    BY <1>2, <2>2, <2>3, <2>5, <2>6 DEF Within, PlacesWithin, Marked
  <2> QED BY <1>2, <2>2, <2>3, <2>4, <2>5, <2>6, MarkersMove DEF Starting
<1> QED BY <1>5, <1>6, <1>7, <1>8

-----------------------------------------------------------------------------
(* Every step.                                                             *)

LEMMA ProjectInvStep ==
  ASSUME ProjectInv, Lockable, [ProjectInitNext]_initVars PROVE ProjectInv'
<1>1. CASE UNCHANGED initVars
  BY <1>1, MarkersMove DEF initVars, ProjectInv, InitTypes, Starting, Within, PlacesWithin, Marked
<1>2. ASSUME NEW u \in Starters,
             \/ ListWorktrees(u) \/ SelectProject(u) \/ LookAtReceipt(u) \/ CleanTemps(u)
             \/ Classify(u) \/ Choose(u) \/ WriteReceipt(u) \/ EnsureDirectory(u)
             \/ KeepExisting(u) \/ ClassifyAgain(u) \/ WriteTemp(u) \/ PublishMarker(u)
             \/ PublishFails(u) \/ Verified(u) \/ DieInit(u)
             \/ \E w \in Trees : BeginInit(u, w) \/ ReadMarker(u, w)
      PROVE  ProjectInv'
  BY <1>2, InitReads, InitLooks, InitTouches, InitChooses, ReceiptWritten, MarkerPublished
<1>3. CASE \/ \E w \in Trees : \/ Retitle(w) \/ Unplug(w) \/ Litter(w)
                               \/ \E m \in history \cup {Nil} : Checkout(w, m)
           \/ \E state \in {"damaged", "removed"} : SpoilReceipt(state)
  BY <1>3, PeopleMeddle
<1> QED BY <1>1, <1>2, <1>3 DEF ProjectInitNext

\* Only the publication gets past it.
LEMMA PublishesOnly ==
  ASSUME ProjectInv, [ProjectInitNext]_initVars, NEW u \in Starters, Stands(u, "publish"),
         init'[u] # Nil, init'[u].pc = "verify"
  PROVE  PublishMarker(u)
<1>1. init[u].pc = "publish" /\ init[u] # Nil /\ init \in [Starters -> {Nil} \cup Chores]
  BY DEF Stands, IsNothing, ProjectInv, InitTypes
<1>2. ~UNCHANGED init
  BY <1>1
<1>3. ASSUME NEW v \in Starters, v # u, NEW x, init' = [init EXCEPT ![v] = x] PROVE FALSE
  BY <1>1, <1>3
<1>4. init' # [init EXCEPT ![u] = Nil]
  BY <1>1
<1>5. ASSUME NEW v \in Starters,
             \/ ListWorktrees(v) \/ SelectProject(v) \/ LookAtReceipt(v) \/ CleanTemps(v)
             \/ Classify(v) \/ Choose(v) \/ WriteReceipt(v) \/ EnsureDirectory(v)
             \/ KeepExisting(v) \/ ClassifyAgain(v) \/ WriteTemp(v) \/ PublishMarker(v)
             \/ PublishFails(v) \/ Verified(v) \/ DieInit(v)
             \/ \E w \in Trees : BeginInit(v, w) \/ ReadMarker(v, w)
      PROVE  v = u /\ PublishMarker(u)
  <2>1. \E x : init' = [init EXCEPT ![v] = x]
    BY <1>2, <1>5 DEF ListWorktrees, SelectProject, LookAtReceipt, CleanTemps, Classify, Choose,
       WriteReceipt, EnsureDirectory, KeepExisting, ClassifyAgain, WriteTemp, PublishMarker,
       PublishFails, Verified, DieInit, BeginInit, ReadMarker, StepTo, RefuseInit, EndInit,
       Onward, Continue
  <2>2. v = u
    BY <1>3, <2>1
  <2>3. ASSUME \/ ListWorktrees(u) \/ SelectProject(u) \/ LookAtReceipt(u) \/ CleanTemps(u)
               \/ Classify(u) \/ Choose(u) \/ WriteReceipt(u) \/ EnsureDirectory(u)
               \/ KeepExisting(u) \/ ClassifyAgain(u) \/ WriteTemp(u) \/ Verified(u)
               \/ \E w \in Trees : BeginInit(u, w) \/ ReadMarker(u, w)
        PROVE  FALSE
    BY <1>1, <2>3 DEF ListWorktrees, SelectProject, LookAtReceipt, CleanTemps, Classify, Choose,
       WriteReceipt, EnsureDirectory, KeepExisting, ClassifyAgain, WriteTemp, Verified,
       BeginInit, ReadMarker, Stands, IsNothing
  <2>4. ~PublishFails(u) /\ ~DieInit(u)
    BY <1>4 DEF PublishFails, DieInit, EndInit, Continue
  <2> QED BY <1>5, <2>2, <2>3, <2>4
<1>6. ASSUME \/ \E w \in Trees : \/ Retitle(w) \/ Unplug(w) \/ Litter(w)
                                 \/ \E m \in history \cup {Nil} : Checkout(w, m)
             \/ \E state \in {"damaged", "removed"} : SpoilReceipt(state)
      PROVE  FALSE
  BY <1>2, <1>6 DEF Retitle, Unplug, Litter, Checkout, SpoilReceipt, Beyond
<1> QED BY <1>2, <1>5, <1>6 DEF ProjectInitNext, initVars

LEMMA PublishesOne ==
  ASSUME ProjectInv, ProjectInv', NEW u \in Starters, PublishMarker(u)
  PROVE  /\ IsNothing(tree[Site(u)].marker)
         /\ tampered # "removed" => Cardinality(minted') <= 1
         /\ tampered = "kept" => pledge = [state |-> "good", content |-> init[u].chosen]
<1>1. IsNothing(tree[Site(u)].marker)
  BY DEF PublishMarker, Marked, IsNothing
<1>2. ASSUME tampered # "removed" PROVE Cardinality(minted') <= 1
  <2>1. tampered' # "removed"
    BY <1>2 DEF PublishMarker
  <2>2. PICK n \in Nat : Within({0, n})' \/ Within({0})'
    BY <2>1 DEF ProjectInv, Identities
  <2>3. minted' \subseteq {n}
    BY <2>2 DEF Within, PlacesWithin
  <2>4. IsFiniteSet({n}) /\ Cardinality({n}) = 1
    BY FS_Singleton
  <2> QED BY <2>3, <2>4, FS_Subset
<1>3. ASSUME tampered = "kept"
      PROVE  pledge = [state |-> "good", content |-> init[u].chosen]
  <2>1. Faithful(init[u]) /\ init[u].pc = "publish"
    BY InCommand DEF PublishMarker
  <2> QED BY <1>3, <2>1 DEF Faithful
<1> QED BY <1>1, <1>2, <1>3

\* However many commands and worktrees there are, and whatever dies or is checked
\* out, unplugged or spoiled between their steps: PROJECT.md is published only
\* where there is none, at most one new identity is ever published unless the
\* receipt was removed, and what is published is what the receipt, left alone,
\* promises to the next command (project.Initialize and the Project receipt).
THEOREM InitMakesOneProject ==
  ASSUME Lockable
  PROVE  ProjectInitSpec => OneProject
<1>1. ProjectInitInit => ProjectInv
  BY ProjectInvInit
<1>2. ProjectInv /\ [ProjectInitNext]_initVars => ProjectInv'
  BY ProjectInvStep
<1>3. ProjectInv /\ ProjectInv' /\ [ProjectInitNext]_initVars => [OneProjectStep]_initVars
  BY PublishesOnly, PublishesOne DEF OneProjectStep, IsNothing
<1> QED BY <1>1, <1>2, <1>3, PTL DEF ProjectInitSpec, OneProject

-----------------------------------------------------------------------------
(* Installer: types.                                                       *)

Texts == Bundles \cup {"absent", "edited"}
Phases == {"lock", "inspect", "verify", "rename", "tidy", "link", "unlock",
           "read", "walk", "report"}
Runs == [pc : Phases, ver : Bundles, root : Folders, n : Nat, old : Texts, good : BOOLEAN,
         edits : Nat]
Counts == [runs : Nat, edits : Nat, swaps : Nat]

InstallTypes ==
    /\ folder \in Folders \cup {"none"}
    /\ file \in [Folders -> [Bundled -> Texts]]
    /\ spare \in [Folders -> SUBSET Installers]
    /\ latch \in Installers \cup {AtRest}
    /\ run \in [Installers -> {AtRest} \cup Runs]
    /\ whole \subseteq Installers
    /\ count \in Counts

-----------------------------------------------------------------------------
(* Commands under way.                                                     *)

Held == {"inspect", "verify", "rename", "tidy", "link", "unlock"}
Reading == {"read", "walk", "report"}
Working(u) == run[u] # AtRest

\* The file a command is at.
Sane(r) ==
    /\ r.edits <= count.edits
    /\ r.n \in 1 .. Size + 1
    /\ r.pc = "lock" => r.n = 1
    /\ r.pc \in {"inspect", "verify", "rename", "tidy", "read"} => r.n <= Size
    /\ r.pc \in {"link", "unlock", "walk", "report"} => r.n = Size + 1

\* What an installation has written is there, unless somebody edited it since.
Finished(r) == {i \in Bundled : i < r.n \/ (i = r.n /\ r.pc = "tidy")}
Written(r) ==
    \A i \in Finished(r) :
        \/ file[r.root][i] = r.ver
        \/ file[r.root][i] = "edited" /\ r.edits < count.edits

\* Of temporaries there is its own, while it publishes.
Temporaries(u, r) ==
    spare[r.root] = IF r.pc \in {"verify", "rename", "tidy"} THEN {u} ELSE {}

Installs(u) ==
    Working(u) /\ run[u].pc \in Held =>
        latch = u /\ Written(run[u]) /\ Temporaries(u, run[u])

\* A check that is content so far has either seen the directory complete, or
\* has yet to read a file that is not its version's.
Looks(u) ==
    Working(u) /\ run[u].pc \in Reading /\ run[u].good /\ run[u].edits = count.edits =>
        /\ \A i \in Bundled : i < run[u].n => file[run[u].root][i] # "edited"
        /\ \/ u \in whole
           \/ \E j \in Bundled : j >= run[u].n /\ file[run[u].root][j] # run[u].ver

InstallerInv ==
    /\ InstallTypes
    /\ \A u \in Installers : (Working(u) => Sane(run[u])) /\ Installs(u) /\ Looks(u)

LEMMA InstallerInvInit == ASSUME InstallerInit PROVE InstallerInv
<1>1. PICK v \in Bundles :
        file = [d \in Folders |-> [n \in Bundled |-> IF d = folder THEN v ELSE "absent"]]
  BY DEF InstallerInit
<1>2. file \in [Folders -> [Bundled -> Texts]]
  BY <1>1 DEF Texts
<1>3. InstallTypes
  BY <1>2 DEF InstallerInit, InstallTypes, Counts
<1> QED BY <1>3 DEF InstallerInit, InstallerInv, Installs, Looks, Working

-----------------------------------------------------------------------------
(* One command goes on; the others see nothing of it but what they may.    *)

LEMMA InstallGoesOn ==
  ASSUME Installable, InstallerInv,
         folder' \in Folders \cup {"none"},
         file' \in [Folders -> [Bundled -> Texts]],
         spare' \in [Folders -> SUBSET Installers],
         latch' \in Installers \cup {AtRest},
         whole' \subseteq Installers,
         count' \in Counts, count'.edits = count.edits,
         NEW v \in Installers, NEW x \in {AtRest} \cup Runs,
         run' = [run EXCEPT ![v] = x],
         \/ latch \in {v, AtRest}
         \/ UNCHANGED <<file, spare, latch>>,
         \A u \in Installers : u # v => Looks(u)',
         x # AtRest => /\ Sane(x)
                       /\ x.pc \in Held => latch' = v /\ Written(x)' /\ Temporaries(v, x)'
                       /\ Looks(v)'
  PROVE  InstallerInv'
<1>1. InstallTypes'
  BY DEF InstallerInv, InstallTypes
<1>2. \A u \in Installers : run'[u] = IF u = v THEN x ELSE run[u]
  BY DEF InstallerInv, InstallTypes
<1>3. ASSUME NEW u \in Installers, run'[u] # AtRest PROVE Sane(run[u])'
  <2>1. Sane(run'[u])
    BY <1>2, <1>3 DEF InstallerInv, Working
  <2> QED BY <2>1 DEF Sane
<1>4. ASSUME NEW u \in Installers PROVE Installs(u)'
  <2> SUFFICES ASSUME run'[u] # AtRest, run'[u].pc \in Held
               PROVE  latch' = u /\ Written(run[u])' /\ Temporaries(u, run[u])'
    BY DEF Installs, Working
  <2>1. CASE u = v
    <3>1. run'[u] = x
      BY <1>2, <2>1
    <3> QED BY <2>1, <3>1 DEF Written, Temporaries, Finished
  <2>2. CASE u # v
    <3>1. run'[u] = run[u]
      BY <1>2, <2>2
    <3>2. latch = u /\ Written(run[u]) /\ Temporaries(u, run[u])
      BY <3>1 DEF InstallerInv, Installs, Working
    <3>3. UNCHANGED <<file, spare, latch>>
      BY <2>2, <3>2 DEF Installable
    <3> QED BY <3>1, <3>2, <3>3 DEF Written, Temporaries, Finished
  <2> QED BY <2>1, <2>2
<1>5. ASSUME NEW u \in Installers PROVE Looks(u)'
  <2>1. CASE u = v /\ x = AtRest
    BY <1>2, <2>1 DEF Looks, Working
  <2> QED BY <2>1
<1> QED BY <1>1, <1>3, <1>4, <1>5 DEF InstallerInv, Working

LEMMA LooksKept ==
  ASSUME InstallerInv, Witnessed, NEW u \in Installers, run'[u] = run[u], count' \in Counts,
         (count'.edits = count.edits /\ file' = file) \/ count'.edits > count.edits
  PROVE  Looks(u)'
<1> SUFFICES ASSUME run[u] # AtRest, run[u].pc \in Reading, run[u].good,
                    run[u].edits = count'.edits
             PROVE  /\ \A i \in Bundled : i < run[u].n => file'[run[u].root][i] # "edited"
                    /\ \/ u \in whole'
                       \/ \E j \in Bundled : j >= run[u].n /\ file'[run[u].root][j] # run[u].ver
  BY DEF Looks, Working
<1>1. run[u] \in Runs /\ run[u].edits <= count.edits /\ count.edits \in Nat
  BY DEF InstallerInv, InstallTypes, Sane, Working, Counts
<1>2. count'.edits = count.edits /\ file' = file
  BY <1>1 DEF Runs, Counts
<1>3. u \in whole => u \in whole'
  BY DEF Witnessed, Checking, Reading
<1> QED BY <1>2, <1>3 DEF InstallerInv, Looks, Working

\* The steps of others that write no file.
LEMMA QuietInstall ==
  ASSUME Installable, InstallerInv, Witnessed,
         folder' \in Folders \cup {"none"}, file' = file,
         spare' \in [Folders -> SUBSET Installers],
         latch' \in Installers \cup {AtRest},
         count' \in Counts, count'.edits = count.edits,
         NEW v \in Installers, NEW x \in {AtRest} \cup Runs,
         run' = [run EXCEPT ![v] = x],
         latch \in {v, AtRest} \/ UNCHANGED <<spare, latch>>,
         x # AtRest => /\ Sane(x)
                       /\ x.pc \in Held => latch' = v /\ Written(x) /\ Temporaries(v, x)'
                       /\ x.pc \in Reading => Looks(v)'
  PROVE  InstallerInv'
<1>1. \A u \in Installers : run'[u] = IF u = v THEN x ELSE run[u]
  BY DEF InstallerInv, InstallTypes
<1>2. \A u \in Installers : u # v => Looks(u)'
  BY <1>1, LooksKept
<1>3. whole' \subseteq Installers
  BY DEF Witnessed
<1>4. x # AtRest => Looks(v)'
  BY <1>1 DEF Looks
<1>5. x # AtRest /\ x.pc \in Held => Written(x)'
  BY DEF Written, Finished
<1>6. file' \in [Folders -> [Bundled -> Texts]]
  BY DEF InstallerInv, InstallTypes
<1> QED BY <1>2, <1>3, <1>4, <1>5, <1>6, InstallGoesOn

\* What is known of a command at work.
LEMMA AtWork ==
  ASSUME InstallerInv, NEW u \in Installers, Working(u)
  PROVE  /\ run[u] \in Runs /\ Sane(run[u])
         /\ run[u].root \in Folders
         /\ run[u].pc \in Held =>
              latch = u /\ Written(run[u]) /\ Temporaries(u, run[u])
BY DEF InstallerInv, InstallTypes, Working, Runs, Installs

LEMMA GivesUp ==
  ASSUME Installable, InstallerInv, Witnessed, NEW u \in Installers, Working(u), GiveUp(u),
         UNCHANGED <<folder, file, count>>
  PROVE  InstallerInv'
<1>1. run[u].root \in Folders
  BY AtWork
<1>2. spare' \in [Folders -> SUBSET Installers] /\ latch' \in Installers \cup {AtRest}
  BY <1>1 DEF InstallerInv, InstallTypes, GiveUp
<1>3. latch = u \/ UNCHANGED <<spare, latch>>
  BY DEF GiveUp
<1>4. folder' \in Folders \cup {"none"} /\ count' \in Counts
  BY DEF InstallerInv, InstallTypes
<1>5. PICK x : x = AtRest
  OBVIOUS
<1>6. run' = [run EXCEPT ![u] = x]
  BY <1>5 DEF GiveUp, SetRun
<1> QED BY <1>2, <1>3, <1>4, <1>5, <1>6, QuietInstall

\* On to the next file, which the last one being in place allows.
LEMMA GoesToNextFile ==
  ASSUME Installable, InstallerInv, Witnessed, NEW u \in Installers, Working(u), NextFile(u),
         run[u].pc \in {"inspect", "tidy"}, Steady(u),
         file[run[u].root][run[u].n] = run[u].ver \/ run[u].pc = "tidy",
         spare' = [spare EXCEPT ![run[u].root] = @ \ {u}],
         UNCHANGED <<folder, file, count>>
  PROVE  InstallerInv'
<1>1. PICK x : x = [run[u] EXCEPT !.n = @ + 1, !.pc = IF run[u].n = Size THEN "link" ELSE "inspect"]
  OBVIOUS
<1>2. run' = [run EXCEPT ![u] = x] /\ UNCHANGED latch
  BY <1>1 DEF NextFile, SetRun
<1>3. run[u] \in Runs /\ Sane(run[u]) /\ run[u].root \in Folders
      /\ latch = u /\ Written(run[u]) /\ Temporaries(u, run[u])
  BY AtWork DEF Held
<1>4. /\ x \in Runs /\ x.pc \in {"link", "inspect"} /\ x.root = run[u].root /\ x.ver = run[u].ver
      /\ x.n = run[u].n + 1 /\ x.edits = run[u].edits
      /\ x.pc = IF run[u].n = Size THEN "link" ELSE "inspect"
  <2>1. run[u] \in Runs /\ run[u].n + 1 \in Nat
    BY <1>3 DEF Runs
  <2>2. PICK p \in {"link", "inspect"} : p = IF run[u].n = Size THEN "link" ELSE "inspect"
    OBVIOUS
  <2>3. x = [run[u] EXCEPT !.n = @ + 1, !.pc = p]
    BY <1>1, <2>2
  <2> QED BY <2>1, <2>2, <2>3 DEF Runs, Phases
<1>5. /\ run[u].n \in Nat /\ run[u].n <= Size /\ run[u].n >= 1 /\ Size \in Nat
      /\ run[u].edits <= count.edits
  <2>1. run[u].n \in 1 .. Size + 1 /\ run[u].n <= Size /\ run[u].edits <= count.edits
    BY <1>3 DEF Sane
  <2> QED BY <2>1 DEF Installable
<1>6. Sane(x)
  BY <1>4, <1>5 DEF Sane
<1>7. Written(x)
  <2> SUFFICES ASSUME NEW i \in Bundled, i < x.n
               PROVE  \/ file[run[u].root][i] = run[u].ver
                      \/ file[run[u].root][i] = "edited" /\ run[u].edits < count.edits
    BY <1>4 DEF Written, Finished
  <2>1. i < run[u].n \/ i = run[u].n
    BY <1>4, <1>5 DEF Bundled
  <2> QED BY <1>3, <2>1 DEF Written, Finished
<1>8. spare'[run[u].root] = {}
  BY <1>3 DEF InstallerInv, InstallTypes, Temporaries
<1>9. Temporaries(u, x)'
  BY <1>4, <1>8 DEF Temporaries
<1>10. spare' \in [Folders -> SUBSET Installers]
  BY <1>3 DEF InstallerInv, InstallTypes
<1>11. folder' \in Folders \cup {"none"} /\ count' \in Counts /\ latch' \in Installers \cup {AtRest}
  BY <1>2 DEF InstallerInv, InstallTypes
<1>12. x.pc \notin Reading /\ latch' = u
  BY <1>2, <1>3, <1>4 DEF Reading
<1> QED BY <1>2, <1>3, <1>4, <1>6, <1>7, <1>9, <1>10, <1>11, <1>12, QuietInstall

LEMMA ResolveKeeps ==
  ASSUME Installable, InstallerInv, Witnessed, NEW u \in Installers, NEW v \in Bundles,
         ResolveDestination(u, v)
  PROVE  InstallerInv'
<1>1. PICK d \in Folders :
        /\ folder' = d
        /\ Launch(u, [pc |-> "lock", ver |-> v, root |-> d, n |-> 1, old |-> "absent",
                      good |-> FALSE, edits |-> count.edits])
  BY DEF ResolveDestination
<1>2. PICK x : x = [pc |-> "lock", ver |-> v, root |-> d, n |-> 1, old |-> "absent",
                    good |-> FALSE, edits |-> count.edits]
  OBVIOUS
<1>3. count \in Counts
  BY DEF InstallerInv, InstallTypes
<1>4. run' = [run EXCEPT ![u] = x] /\ count' = [count EXCEPT !.runs = @ + 1]
  BY <1>1, <1>2 DEF Launch, SetRun
<1>5. x \in Runs /\ x.pc = "lock"
  BY <1>2, <1>3 DEF Runs, Phases, Texts, Counts
<1>6. Sane(x)
  BY <1>2, <1>3 DEF Sane, Installable, Counts
<1>7. count' \in Counts /\ count'.edits = count.edits
  BY <1>3, <1>4 DEF Counts
<1>8. UNCHANGED <<file, spare, latch>>
  BY DEF ResolveDestination, files
<1>9. spare' \in [Folders -> SUBSET Installers] /\ latch' \in Installers \cup {AtRest}
  BY <1>8 DEF InstallerInv, InstallTypes
<1>10. x.pc \notin Held /\ x.pc \notin Reading
  BY <1>5 DEF Held, Reading
<1> QED BY <1>1, <1>4, <1>5, <1>6, <1>7, <1>8, <1>9, <1>10, QuietInstall

LEMMA LockKeeps ==
  ASSUME Installable, InstallerInv, Witnessed, NEW u \in Installers, LockAndClean(u)
  PROVE  InstallerInv'
<1>0. Working(u) /\ run[u].pc = "lock" /\ latch = AtRest /\ UNCHANGED <<folder, file, count>>
  BY DEF LockAndClean, Doing, Working, LatchFree
<1>1. CASE ~Steady(u)
  BY <1>0, <1>1, GivesUp DEF LockAndClean
<1>2. CASE Steady(u)
  <2>1. PICK x : x = [run[u] EXCEPT !.pc = "inspect"]
    OBVIOUS
  <2>2. run' = [run EXCEPT ![u] = x] /\ latch' = u /\ spare' = [spare EXCEPT ![run[u].root] = {}]
    BY <1>2, <2>1 DEF LockAndClean, GoTo, SetRun
  <2>3. run[u] \in Runs /\ Sane(run[u]) /\ run[u].root \in Folders
    BY <1>0, AtWork
  <2>4. x \in Runs /\ x.pc = "inspect" /\ x.root = run[u].root /\ x.n = run[u].n /\ x.edits = run[u].edits
    BY <2>1, <2>3 DEF Runs, Phases
  <2>5. x.n = 1 /\ Sane(x)
    BY <1>0, <2>3, <2>4 DEF Sane, Installable
  <2>6. Written(x)
    BY <2>4, <2>5 DEF Written, Finished, Bundled
  <2>7. spare' \in [Folders -> SUBSET Installers] /\ spare'[x.root] = {}
    BY <2>2, <2>3, <2>4 DEF InstallerInv, InstallTypes
  <2>8. Temporaries(u, x)'
    BY <2>4, <2>7 DEF Temporaries
  <2>9. folder' \in Folders \cup {"none"} /\ count' \in Counts /\ latch' \in Installers \cup {AtRest}
    BY <1>0, <2>2 DEF InstallerInv, InstallTypes
  <2>10. x.pc \notin Reading
    BY <2>4 DEF Reading
  <2> QED BY <1>0, <2>2, <2>4, <2>5, <2>6, <2>7, <2>8, <2>9, <2>10, QuietInstall
<1> QED BY <1>1, <1>2

LEMMA InspectKeeps ==
  ASSUME Installable, InstallerInv, Witnessed, NEW u \in Installers, InspectFile(u)
  PROVE  InstallerInv'
<1>0. /\ Working(u) /\ run[u].pc = "inspect" /\ UNCHANGED <<folder, file, count>>
  BY DEF InspectFile, Doing, Working
<1>1. /\ run[u] \in Runs /\ Sane(run[u]) /\ run[u].root \in Folders
      /\ latch = u /\ Written(run[u]) /\ Temporaries(u, run[u])
  BY <1>0, AtWork DEF Held
<1>2. spare[run[u].root] = {} /\ spare \in [Folders -> SUBSET Installers]
  BY <1>0, <1>1 DEF Temporaries, InstallerInv, InstallTypes
<1>3. CASE file[run[u].root][run[u].n] = run[u].ver /\ ~Steady(u)
  BY <1>0, <1>3, GivesUp DEF InspectFile, NextFile
<1>4. CASE file[run[u].root][run[u].n] = run[u].ver /\ Steady(u)
  <2>1. NextFile(u) /\ spare' = spare
    BY <1>4 DEF InspectFile
  <2>2. spare' = [spare EXCEPT ![run[u].root] = @ \ {u}]
    BY <1>1, <1>2, <2>1
  <2> QED BY <1>0, <1>4, <2>1, <2>2, GoesToNextFile
<1>5. CASE file[run[u].root][run[u].n] # run[u].ver
  <2>1. PICK x : x = [run[u] EXCEPT !.old = file[run[u].root][run[u].n], !.pc = "verify"]
    OBVIOUS
  <2>2. /\ run' = [run EXCEPT ![u] = x] /\ latch' = latch
        /\ spare' = [spare EXCEPT ![run[u].root] = @ \cup {u}]
    BY <1>5, <2>1 DEF InspectFile, SetRun
  <2>3. file[run[u].root][run[u].n] \in Texts
    BY <1>0, <1>1 DEF InstallerInv, InstallTypes, Sane, Bundled, Installable
  <2>4. /\ x \in Runs /\ x.pc = "verify" /\ x.root = run[u].root /\ x.n = run[u].n /\ x.edits = run[u].edits
        /\ x.ver = run[u].ver
    BY <1>1, <2>1, <2>3 DEF Runs, Phases
  <2>5. Sane(x)
    BY <1>0, <1>1, <2>4 DEF Sane
  <2>6. Written(x)
    BY <1>0, <1>1, <2>4 DEF Written, Finished
  <2>7. spare' \in [Folders -> SUBSET Installers] /\ spare'[x.root] = {u}
    BY <1>1, <1>2, <2>2, <2>4
  <2>8. Temporaries(u, x)'
    BY <2>4, <2>7 DEF Temporaries
  <2>9. folder' \in Folders \cup {"none"} /\ count' \in Counts /\ latch' \in Installers \cup {AtRest}
    BY <1>0, <2>2 DEF InstallerInv, InstallTypes
  <2>10. x.pc \notin Reading
    BY <2>4 DEF Reading
  <2> QED BY <1>0, <1>1, <2>2, <2>4, <2>5, <2>6, <2>7, <2>8, <2>9, <2>10, QuietInstall
<1> QED BY <1>3, <1>4, <1>5

LEMMA VerifyKeeps ==
  ASSUME Installable, InstallerInv, Witnessed, NEW u \in Installers, VerifyFile(u)
  PROVE  InstallerInv'
<1>0. Working(u) /\ run[u].pc = "verify" /\ UNCHANGED <<folder, file, count>>
  BY DEF VerifyFile, Doing, Working
<1>1. CASE file[run[u].root][run[u].n] # run[u].old
  BY <1>0, <1>1, GivesUp DEF VerifyFile
<1>2. CASE file[run[u].root][run[u].n] = run[u].old
  <2>1. PICK x : x = [run[u] EXCEPT !.pc = "rename"]
    OBVIOUS
  <2>2. run' = [run EXCEPT ![u] = x] /\ UNCHANGED <<spare, latch>>
    BY <1>2, <2>1 DEF VerifyFile, GoTo, SetRun
  <2>3. /\ run[u] \in Runs /\ Sane(run[u]) /\ run[u].root \in Folders
        /\ latch = u /\ Written(run[u]) /\ Temporaries(u, run[u])
    BY <1>0, AtWork DEF Held
  <2>4. /\ x \in Runs /\ x.pc = "rename" /\ x.root = run[u].root /\ x.n = run[u].n
        /\ x.edits = run[u].edits /\ x.ver = run[u].ver
    BY <2>1, <2>3 DEF Runs, Phases
  <2>5. Sane(x)
    BY <1>0, <2>3, <2>4 DEF Sane
  <2>6. Written(x)
    BY <1>0, <2>3, <2>4 DEF Written, Finished
  <2>7. Temporaries(u, x)'
    BY <1>0, <2>2, <2>3, <2>4 DEF Temporaries
  <2>8. /\ folder' \in Folders \cup {"none"} /\ count' \in Counts
        /\ latch' \in Installers \cup {AtRest} /\ spare' \in [Folders -> SUBSET Installers]
    BY <1>0, <2>2 DEF InstallerInv, InstallTypes
  <2>9. x.pc \notin Reading /\ latch' = u
    BY <2>2, <2>3, <2>4 DEF Reading
  <2> QED BY <1>0, <2>2, <2>3, <2>4, <2>5, <2>6, <2>7, <2>8, <2>9, QuietInstall
<1> QED BY <1>1, <1>2

LEMMA TidyKeeps ==
  ASSUME Installable, InstallerInv, Witnessed, NEW u \in Installers, TidyFile(u)
  PROVE  InstallerInv'
<1>0. Working(u) /\ run[u].pc = "tidy" /\ UNCHANGED <<folder, file, count>> /\ NextFile(u)
      /\ spare' = [spare EXCEPT ![run[u].root] = @ \ {u}]
  BY DEF TidyFile, Doing, Working
<1>1. CASE Steady(u)
  BY <1>0, <1>1, GoesToNextFile
<1>2. CASE ~Steady(u)
  BY <1>0, <1>2, GivesUp DEF NextFile
<1> QED BY <1>1, <1>2

LEMMA LinkKeeps ==
  ASSUME Installable, InstallerInv, Witnessed, NEW u \in Installers, InstallLink(u)
  PROVE  InstallerInv'
<1>0. Working(u) /\ run[u].pc = "link" /\ UNCHANGED <<folder, file, count>>
  BY DEF InstallLink, Doing, Working
<1>1. CASE ~Success(u)
  BY <1>0, <1>1, GivesUp DEF InstallLink
<1>2. CASE Success(u)
  <2>1. PICK x : x = [run[u] EXCEPT !.pc = "unlock", !.good = TRUE]
    OBVIOUS
  <2>2. run' = [run EXCEPT ![u] = x] /\ UNCHANGED <<spare, latch>>
    BY <1>2, <2>1 DEF InstallLink, SetRun
  <2>3. /\ run[u] \in Runs /\ Sane(run[u]) /\ run[u].root \in Folders
        /\ latch = u /\ Written(run[u]) /\ Temporaries(u, run[u])
    BY <1>0, AtWork DEF Held
  <2>4. /\ x \in Runs /\ x.pc = "unlock" /\ x.root = run[u].root /\ x.n = run[u].n
        /\ x.edits = run[u].edits /\ x.ver = run[u].ver
    BY <2>1, <2>3 DEF Runs, Phases
  <2>5. Sane(x)
    BY <1>0, <2>3, <2>4 DEF Sane
  <2>6. Written(x)
    BY <1>0, <2>3, <2>4 DEF Written, Finished
  <2>7. Temporaries(u, x)'
    BY <1>0, <2>2, <2>3, <2>4 DEF Temporaries
  <2>8. /\ folder' \in Folders \cup {"none"} /\ count' \in Counts
        /\ latch' \in Installers \cup {AtRest} /\ spare' \in [Folders -> SUBSET Installers]
    BY <1>0, <2>2 DEF InstallerInv, InstallTypes
  <2>9. x.pc \notin Reading /\ latch' = u
    BY <2>2, <2>3, <2>4 DEF Reading
  <2> QED BY <1>0, <2>2, <2>3, <2>4, <2>5, <2>6, <2>7, <2>8, <2>9, QuietInstall
<1> QED BY <1>1, <1>2

LEMMA EndsKeep ==
  ASSUME Installable, InstallerInv, Witnessed, NEW u \in Installers,
         Unlock(u) \/ InstallFails(u) \/ Report(u) \/ DieInstall(u)
  PROVE  InstallerInv'
<1>1. Working(u)
  BY DEF Unlock, InstallFails, Report, DieInstall, Doing, Working
<1>2. CASE Unlock(u) \/ InstallFails(u)
  BY <1>1, <1>2, GivesUp DEF Unlock, InstallFails
<1>3. CASE Report(u) \/ DieInstall(u)
  <2>1. PICK x : x = AtRest
    OBVIOUS
  <2>2. run' = [run EXCEPT ![u] = x] /\ UNCHANGED <<folder, file, spare, count>>
        /\ (latch = u \/ UNCHANGED latch) /\ latch' \in {latch, AtRest}
    BY <1>3, <2>1 DEF Report, DieInstall, SetRun, files
  <2>3. /\ folder' \in Folders \cup {"none"} /\ count' \in Counts
        /\ latch' \in Installers \cup {AtRest} /\ spare' \in [Folders -> SUBSET Installers]
    BY <2>2 DEF InstallerInv, InstallTypes
  <2> QED BY <2>1, <2>2, <2>3, QuietInstall
<1> QED BY <1>2, <1>3

\* A check goes on with x.
LEMMA ReadsOn ==
  ASSUME Installable, InstallerInv, Witnessed, NEW u \in Installers, NEW x \in Runs,
         run' = [run EXCEPT ![u] = x], x.pc \in Reading, Sane(x), Looks(u)',
         UNCHANGED <<folder, files, latch>>, count' \in Counts, count'.edits = count.edits
  PROVE  InstallerInv'
<1>1. /\ folder' \in Folders \cup {"none"} /\ UNCHANGED <<file, spare, latch>>
      /\ latch' \in Installers \cup {AtRest} /\ spare' \in [Folders -> SUBSET Installers]
  BY DEF InstallerInv, InstallTypes, files
<1>2. x.pc \notin Held
  BY DEF Held, Reading
<1> QED BY <1>1, <1>2, QuietInstall

LEMMA BeginCheckKeeps ==
  ASSUME Installable, InstallerInv, Witnessed, NEW u \in Installers, NEW v \in Bundles,
         BeginCheck(u, v)
  PROVE  InstallerInv'
<1>1. PICK x : x = [pc |-> "read", ver |-> v, root |-> folder, n |-> 1, old |-> "absent",
                    good |-> TRUE, edits |-> count.edits]
  OBVIOUS
<1>2. count \in Counts /\ folder \in Folders /\ run \in [Installers -> {AtRest} \cup Runs]
  BY DEF InstallerInv, InstallTypes, BeginCheck
<1>3. run' = [run EXCEPT ![u] = x] /\ count' = [count EXCEPT !.runs = @ + 1] /\ run'[u] = x
  BY <1>1, <1>2 DEF BeginCheck, Launch, SetRun
<1>4. x \in Runs
  BY <1>1, <1>2 DEF Runs, Phases, Texts, Counts
<1>5. count' \in Counts /\ count'.edits = count.edits
  BY <1>2, <1>3 DEF Counts
<1>6. Sane(x)
  BY <1>1, <1>2 DEF Sane, Installable, Counts
<1>7. Looks(u)'
  <2> SUFFICES ASSUME x # AtRest PROVE Looks(u)'
    BY <1>3 DEF Looks, Working
  <2>1. x.n = 1 /\ x.pc = "read" /\ x.root = folder /\ x.ver = v
    BY <1>1
  <2>2. u \in whole' \/ \E j \in Bundled : file'[x.root][j] # x.ver
    <3>1. Checking(u)'
      BY <1>3, <2>1 DEF Checking
    <3>2. (u \in whole \/ Complete(run[u].root, run[u].ver)') => u \in whole'
      BY <3>1 DEF Witnessed
    <3>3. run'[u].root = x.root /\ run'[u].ver = x.ver
      BY <1>3
    <3> QED BY <3>2, <3>3 DEF Complete
  <2>3. \A i \in Bundled : i >= x.n /\ ~(i < x.n)
    BY <2>1 DEF Bundled, Installable
  <2> QED BY <1>3, <2>2, <2>3 DEF Looks
<1> QED BY <1>1, <1>3, <1>4, <1>5, <1>6, <1>7, ReadsOn DEF BeginCheck, Reading

LEMMA CheckFileKeeps ==
  ASSUME Installable, InstallerInv, Witnessed, NEW u \in Installers, CheckFile(u)
  PROVE  InstallerInv'
<1>0. /\ Working(u) /\ run[u].pc = "read" /\ UNCHANGED <<folder, files, latch, count>>
  BY DEF CheckFile, Doing, Working
<1>1. run[u] \in Runs /\ Sane(run[u]) /\ run[u].root \in Folders
  BY <1>0, AtWork
<1>2. PICK g \in BOOLEAN : g <=> run[u].good /\ ReadFile(u) = run[u].ver
  OBVIOUS
<1>3. PICK p \in {"walk", "read"} : p = IF run[u].n = Size THEN "walk" ELSE "read"
  OBVIOUS
<1>4. PICK x : x = [run[u] EXCEPT !.good = g, !.n = @ + 1, !.pc = p]
  OBVIOUS
<1>5. run' = [run EXCEPT ![u] = x]
  <2>1. run[u].good \in BOOLEAN
    BY <1>1 DEF Runs
  <2>2. g = (run[u].good /\ ReadFile(u) = run[u].ver)
    BY <1>2, <2>1
  <2> QED BY <1>3, <1>4, <2>2 DEF CheckFile, SetRun
<1>6. /\ x \in Runs /\ x.pc = p /\ x.root = run[u].root /\ x.n = run[u].n + 1
      /\ x.edits = run[u].edits /\ x.ver = run[u].ver /\ x.good = g
  <2>1. run[u] \in Runs /\ run[u].n + 1 \in Nat /\ p \in Phases
    BY <1>1 DEF Runs, Phases
  <2> QED BY <1>4, <2>1 DEF Runs
<1>7. /\ run[u].n \in Nat /\ run[u].n <= Size /\ run[u].n >= 1 /\ Size \in Nat
      /\ run[u].edits <= count.edits
  <2>1. run[u].n \in 1 .. Size + 1 /\ run[u].n <= Size /\ run[u].edits <= count.edits
    BY <1>0, <1>1 DEF Sane
  <2> QED BY <2>1 DEF Installable
<1>8. Sane(x)
  BY <1>3, <1>6, <1>7 DEF Sane
<1>9. run'[u] = x
  BY <1>5 DEF InstallerInv, InstallTypes
<1>10. Looks(u)'
  <2> SUFFICES ASSUME x # AtRest, x.good, x.edits = count.edits
               PROVE  /\ \A i \in Bundled : i < x.n => file[x.root][i] # "edited"
                      /\ \/ u \in whole'
                         \/ \E j \in Bundled : j >= x.n /\ file[x.root][j] # x.ver
    BY <1>0, <1>9 DEF Looks, Working, files
  <2>1. run[u].good /\ file[run[u].root][run[u].n] = run[u].ver
    BY <1>2, <1>6 DEF ReadFile
  <2>2. /\ \A i \in Bundled : i < run[u].n => file[run[u].root][i] # "edited"
        /\ \/ u \in whole
           \/ \E j \in Bundled : j >= run[u].n /\ file[run[u].root][j] # run[u].ver
    BY <1>0, <1>6, <2>1 DEF InstallerInv, Looks, Reading
  <2>3. run[u].ver # "edited"
    BY <1>1 DEF Installable, Runs
  <2>4. \A i \in Bundled : i < x.n => i < run[u].n \/ i = run[u].n
    BY <1>6, <1>7 DEF Bundled
  <2>5. \A i \in Bundled : i < x.n => file[x.root][i] # "edited"
    BY <1>6, <2>1, <2>2, <2>3, <2>4
  <2>6. u \in whole => u \in whole'
    BY <1>3, <1>6, <1>9 DEF Witnessed, Checking
  <2>7. \A j \in Bundled : j >= run[u].n => j = run[u].n \/ j >= x.n
    BY <1>6, <1>7 DEF Bundled
  <2> QED BY <1>6, <2>1, <2>2, <2>5, <2>6, <2>7
<1> QED BY <1>0, <1>3, <1>5, <1>6, <1>8, <1>10, ReadsOn DEF Reading, InstallerInv, InstallTypes

LEMMA CheckRestKeeps ==
  ASSUME Installable, InstallerInv, Witnessed, NEW u \in Installers, CheckRest(u)
  PROVE  InstallerInv'
<1>0. Working(u) /\ run[u].pc = "walk" /\ UNCHANGED <<folder, files, latch, count>>
  BY DEF CheckRest, Doing, Working
<1>1. run[u] \in Runs /\ Sane(run[u]) /\ run[u].root \in Folders
  BY <1>0, AtWork
<1>2. PICK g \in BOOLEAN : g <=> run[u].good /\ spare[run[u].root] = {} /\ link = "right"
  OBVIOUS
<1>4. PICK x : x = [run[u] EXCEPT !.good = g, !.pc = "report"]
  OBVIOUS
<1>5. run' = [run EXCEPT ![u] = x]
  <2>1. run[u].good \in BOOLEAN
    BY <1>1 DEF Runs
  <2>2. g = (run[u].good /\ spare[run[u].root] = {} /\ link = "right")
    BY <1>2, <2>1
  <2> QED BY <1>4, <2>2 DEF CheckRest, SetRun
<1>6. /\ x \in Runs /\ x.pc = "report" /\ x.root = run[u].root /\ x.n = run[u].n
      /\ x.edits = run[u].edits /\ x.ver = run[u].ver /\ x.good = g
  BY <1>1, <1>4 DEF Runs, Phases
<1>8. Sane(x)
  BY <1>0, <1>1, <1>6 DEF Sane
<1>9. run'[u] = x
  BY <1>5 DEF InstallerInv, InstallTypes
<1>10. Looks(u)'
  <2> SUFFICES ASSUME x # AtRest, x.good, x.edits = count.edits
               PROVE  /\ \A i \in Bundled : i < x.n => file[x.root][i] # "edited"
                      /\ \/ u \in whole'
                         \/ \E j \in Bundled : j >= x.n /\ file[x.root][j] # x.ver
    BY <1>0, <1>9 DEF Looks, Working, files
  <2>1. /\ \A i \in Bundled : i < run[u].n => file[run[u].root][i] # "edited"
        /\ \/ u \in whole
           \/ \E j \in Bundled : j >= run[u].n /\ file[run[u].root][j] # run[u].ver
    BY <1>0, <1>2, <1>6 DEF InstallerInv, Looks, Reading
  <2>2. u \in whole => u \in whole'
    BY <1>6, <1>9 DEF Witnessed, Checking
  <2> QED BY <1>6, <2>1, <2>2
<1> QED BY <1>0, <1>5, <1>6, <1>8, <1>10, ReadsOn DEF Reading, InstallerInv, InstallTypes

-----------------------------------------------------------------------------
(* A file is written.                                                      *)

\* A check to which an installer of its own version gives the last file it
\* would have missed sees the directory complete: the files before were
\* written by that installer, the files behind are its version's.
LEMMA LooksAtWriter ==
  ASSUME Installable, InstallerInv, Witnessed, UNCHANGED count,
         NEW u \in Installers, NEW w \in Installers, w # u,
         Working(u), run[u].pc = "rename", run'[w] = run[w],
         file' = [file EXCEPT ![run[u].root][run[u].n] = run[u].ver]
  PROVE  Looks(w)'
<1> SUFFICES ASSUME Working(w), run[w].pc \in Reading, run[w].good, run[w].edits = count.edits
             PROVE  /\ \A i \in Bundled : i < run[w].n => file'[run[w].root][i] # "edited"
                    /\ \/ w \in whole'
                       \/ \E j \in Bundled : j >= run[w].n /\ file'[run[w].root][j] # run[w].ver
  BY DEF Looks, Working
<1>1. /\ \A i \in Bundled : i < run[w].n => file[run[w].root][i] # "edited"
      /\ \/ w \in whole
         \/ \E j \in Bundled : j >= run[w].n /\ file[run[w].root][j] # run[w].ver
  BY DEF InstallerInv, Looks
<1>2. run[u] \in Runs /\ Sane(run[u]) /\ Written(run[u])
  BY AtWork DEF Held
<1>3. run[w] \in Runs /\ Sane(run[w])
  BY AtWork
<1>4. /\ run[u].n \in Bundled /\ run[w].n \in Nat /\ run[u].root \in Folders
      /\ run[w].root \in Folders /\ run[u].ver # "edited"
  BY <1>2, <1>3 DEF Sane, Bundled, Installable, Runs
<1>5. \A d \in Folders : \A i \in Bundled :
        file'[d][i] = IF d = run[u].root /\ i = run[u].n THEN run[u].ver ELSE file[d][i]
  BY <1>4 DEF InstallerInv, InstallTypes
<1>6. \A i \in Bundled : i < run[w].n => file'[run[w].root][i] # "edited"
  BY <1>1, <1>4, <1>5
<1>7. Checking(w)'
  BY DEF Checking, Reading, Working
<1>8. ASSUME w \notin whole, \A j \in Bundled : j >= run[w].n => file'[run[w].root][j] = run[w].ver
      PROVE  w \in whole'
  <2>1. PICK j \in Bundled : j >= run[w].n /\ file[run[w].root][j] # run[w].ver
    BY <1>1, <1>8
  <2>2. run[w].root = run[u].root /\ j = run[u].n /\ run[w].ver = run[u].ver
    BY <1>4, <1>5, <1>8, <2>1
  <2>3. ASSUME NEW k \in Bundled, ~(k >= run[w].n) PROVE file'[run[w].root][k] = run[w].ver
    <3>1. k < run[w].n /\ k < run[u].n
      BY <1>4, <2>1, <2>2, <2>3 DEF Bundled
    <3>2. file[run[u].root][k] = run[u].ver \/ file[run[u].root][k] = "edited"
      BY <1>2, <3>1 DEF Written, Finished
    <3> QED BY <1>1, <1>4, <1>5, <2>2, <3>1, <3>2
  <2>4. Complete(run[w].root, run[w].ver)'
    BY <1>8, <2>3 DEF Complete
  <2> QED BY <1>7, <2>4 DEF Witnessed
<1>9. w \in whole => w \in whole'
  BY <1>7 DEF Witnessed
<1> QED BY <1>6, <1>8, <1>9

LEMMA RenameKeeps ==
  ASSUME Installable, InstallerInv, Witnessed, NEW u \in Installers, RenameFile(u)
  PROVE  InstallerInv'
<1>0. Working(u) /\ run[u].pc = "rename" /\ UNCHANGED <<folder, count>>
  BY DEF RenameFile, Doing, Working
<1>1. CASE run[u].old = "absent" /\ file[run[u].root][run[u].n] # "absent"
  BY <1>0, <1>1, GivesUp DEF RenameFile
<1>2. CASE ~(run[u].old = "absent" /\ file[run[u].root][run[u].n] # "absent")
  <2>1. PICK x : x = [run[u] EXCEPT !.pc = "tidy"]
    OBVIOUS
  <2>2. /\ run' = [run EXCEPT ![u] = x] /\ UNCHANGED <<spare, latch>>
        /\ file' = [file EXCEPT ![run[u].root][run[u].n] = run[u].ver]
    BY <1>2, <2>1 DEF RenameFile, GoTo, SetRun
  <2>3. /\ run[u] \in Runs /\ Sane(run[u]) /\ run[u].root \in Folders
        /\ latch = u /\ Written(run[u]) /\ Temporaries(u, run[u])
    BY <1>0, AtWork DEF Held
  <2>4. /\ x \in Runs /\ x.pc = "tidy" /\ x.root = run[u].root /\ x.n = run[u].n
        /\ x.edits = run[u].edits /\ x.ver = run[u].ver
    BY <2>1, <2>3 DEF Runs, Phases
  <2>5. Sane(x)
    BY <1>0, <2>3, <2>4 DEF Sane
  <2>6. /\ run[u].n \in Bundled /\ run[u].ver \in Texts /\ file \in [Folders -> [Bundled -> Texts]]
        /\ run \in [Installers -> {AtRest} \cup Runs]
    BY <1>0, <2>3 DEF Sane, Bundled, Installable, Runs, Texts, InstallerInv, InstallTypes
  <2>7. file' \in [Folders -> [Bundled -> Texts]]
    BY <2>2, <2>3, <2>6
  <2>8. \A i \in Bundled :
          file'[run[u].root][i] = IF i = run[u].n THEN run[u].ver ELSE file[run[u].root][i]
    BY <2>2, <2>3, <2>6
  <2>9. Written(x)'
    <3> SUFFICES ASSUME NEW i \in Bundled, i < run[u].n \/ i = run[u].n
                 PROVE  \/ file'[run[u].root][i] = run[u].ver
                        \/ file'[run[u].root][i] = "edited" /\ run[u].edits < count.edits
      BY <1>0, <2>4 DEF Written, Finished
    <3> QED BY <2>3, <2>8 DEF Written, Finished
  <2>10. Temporaries(u, x)'
    BY <1>0, <2>2, <2>3, <2>4 DEF Temporaries
  <2>11. \A w \in Installers : w # u => Looks(w)'
    BY <1>0, <2>2, <2>6, LooksAtWriter
  <2>12. Looks(u)'
    BY <2>2, <2>4, <2>6 DEF Looks, Reading
  <2>13. /\ folder' \in Folders \cup {"none"} /\ count' \in Counts /\ count'.edits = count.edits
         /\ latch' = u /\ latch' \in Installers \cup {AtRest}
         /\ spare' \in [Folders -> SUBSET Installers] /\ whole' \subseteq Installers
    BY <1>0, <2>2, <2>3 DEF InstallerInv, InstallTypes, Witnessed
  <2> QED BY <2>2, <2>3, <2>4, <2>5, <2>7, <2>9, <2>10, <2>11, <2>12, <2>13, InstallGoesOn
<1> QED BY <1>1, <1>2

\* Others touch a file or replace the directory.
LEMMA TouchKeeps ==
  ASSUME Installable, InstallerInv, Witnessed, NEW d \in Folders,
         SwapFolder(d) \/ \E n \in Bundled : EditFile(d, n)
  PROVE  InstallerInv'
<1>1. UNCHANGED <<spare, latch, run>> /\ count \in Counts /\ whole' \subseteq Installers
  BY DEF SwapFolder, EditFile, files, InstallerInv, InstallTypes, Witnessed
<1>2. CASE SwapFolder(d)
  <2>1. folder' = d /\ file' = file /\ count' \in Counts /\ count'.edits = count.edits
    BY <1>1, <1>2 DEF SwapFolder, files, Counts
  <2>2. \A u \in Installers : Looks(u)'
    BY <1>1, <2>1, LooksKept
  <2>3. InstallTypes'
    BY <1>1, <2>1 DEF InstallerInv, InstallTypes
  <2> QED BY <1>1, <2>1, <2>2, <2>3
          DEF InstallerInv, Working, Sane, Installs, Written, Finished, Temporaries
<1>3. CASE \E n \in Bundled : EditFile(d, n)
  <2>1. PICK n \in Bundled : EditFile(d, n)
    BY <1>3
  <2>2. folder' = folder /\ file' = [file EXCEPT ![d][n] = "edited"]
        /\ count' = [count EXCEPT !.edits = @ + 1]
    BY <2>1 DEF EditFile
  <2>3. count' \in Counts /\ count'.edits = count.edits + 1 /\ count.edits \in Nat
    BY <1>1, <2>2 DEF Counts
  <2>4. \A u \in Installers : Looks(u)'
    BY <1>1, <2>3, LooksKept
  <2>5. file \in [Folders -> [Bundled -> Texts]] /\ "edited" \in Texts
    BY DEF InstallerInv, InstallTypes, Texts
  <2>6. file' \in [Folders -> [Bundled -> Texts]]
    BY <2>2, <2>5
  <2>7. \A c \in Folders : \A i \in Bundled : file'[c][i] \in {file[c][i], "edited"}
    BY <2>2, <2>5
  <2>8. InstallTypes'
    BY <1>1, <2>2, <2>3, <2>6 DEF InstallerInv, InstallTypes
  <2>9. ASSUME NEW u \in Installers, Working(u) PROVE Sane(run[u])'
    <3>1. run[u] \in Runs /\ Sane(run[u])
      BY <2>9, AtWork
    <3>2. run[u].edits \in Nat /\ run[u].edits <= count.edits
      BY <3>1 DEF Runs, Sane
    <3> QED BY <1>1, <2>3, <3>1, <3>2 DEF Sane
  <2>10. ASSUME NEW u \in Installers PROVE Installs(u)'
    <3> SUFFICES ASSUME Working(u), run[u].pc \in Held
                 PROVE  latch = u /\ Written(run[u])' /\ Temporaries(u, run[u])'
      BY <1>1 DEF Installs, Working
    <3>1. /\ run[u] \in Runs /\ Sane(run[u]) /\ run[u].root \in Folders
          /\ latch = u /\ Written(run[u]) /\ Temporaries(u, run[u])
      BY AtWork
    <3>2. run[u].edits < count'.edits
      BY <2>3, <3>1 DEF Runs, Sane
    <3>3. Written(run[u])'
      BY <1>1, <2>7, <3>1, <3>2 DEF Written, Finished
    <3> QED BY <1>1, <3>1, <3>3 DEF Temporaries
  <2> QED BY <1>1, <2>4, <2>8, <2>9, <2>10 DEF InstallerInv, Working
<1> QED BY <1>2, <1>3

LEMMA InstallerInvStep ==
  ASSUME Installable, InstallerInv, [InstallerNext]_installerVars PROVE InstallerInv'
<1>1. CASE UNCHANGED installerVars
  BY <1>1 DEF installerVars, InstallerInv, InstallTypes, Installs, Looks, Working, Sane, Written,
              Finished, Temporaries
<1>2. CASE InstallerNext
  <2>1. Witnessed
    BY <1>2 DEF InstallerNext
  <2>2. ASSUME NEW d \in Folders, SwapFolder(d) \/ \E n \in Bundled : EditFile(d, n)
        PROVE  InstallerInv'
    BY <2>1, <2>2, TouchKeeps
  <2>3. ASSUME NEW u \in Installers, NEW v \in Bundles,
               ResolveDestination(u, v) \/ BeginCheck(u, v)
        PROVE  InstallerInv'
    BY <2>1, <2>3, ResolveKeeps, BeginCheckKeeps
  <2>4. ASSUME NEW u \in Installers, LockAndClean(u) \/ InspectFile(u) \/ VerifyFile(u)
        PROVE  InstallerInv'
    BY <2>1, <2>4, LockKeeps, InspectKeeps, VerifyKeeps
  <2>5. ASSUME NEW u \in Installers, RenameFile(u) \/ TidyFile(u) \/ InstallLink(u)
        PROVE  InstallerInv'
    BY <2>1, <2>5, RenameKeeps, TidyKeeps, LinkKeeps
  <2>6. ASSUME NEW u \in Installers, CheckFile(u) \/ CheckRest(u)
        PROVE  InstallerInv'
    BY <2>1, <2>6, CheckFileKeeps, CheckRestKeeps
  <2>7. ASSUME NEW u \in Installers, Unlock(u) \/ InstallFails(u) \/ Report(u) \/ DieInstall(u)
        PROVE  InstallerInv'
    BY <2>1, <2>7, EndsKeep
  <2> QED BY <1>2, <2>2, <2>3, <2>4, <2>5, <2>6, <2>7 DEF InstallerNext, InstallStep
<1> QED BY <1>1, <1>2

-----------------------------------------------------------------------------
(* What is reported.                                                       *)

LEMMA InstallAlone ==
  ASSUME InstallerInv, NEW u \in Installers, NEW w \in Installers, w # u, InstallStep(u)
  PROVE  run'[w] = run[w]
<1> USE DEF SetRun, GoTo, GiveUp
<1>1. \A x : SetRun(u, x) => run'[w] = run[w]
  BY DEF InstallerInv, InstallTypes
<1>2. CASE \E v \in Bundles : ResolveDestination(u, v) \/ BeginCheck(u, v)
  BY <1>1, <1>2 DEF ResolveDestination, BeginCheck, Launch
<1>3. CASE LockAndClean(u) \/ InspectFile(u) \/ VerifyFile(u)
  BY <1>1, <1>3 DEF LockAndClean, InspectFile, VerifyFile, NextFile
<1>4. CASE RenameFile(u) \/ TidyFile(u) \/ InstallLink(u)
  BY <1>1, <1>4 DEF RenameFile, TidyFile, NextFile, InstallLink
<1>5. CASE Unlock(u) \/ InstallFails(u) \/ Report(u) \/ DieInstall(u)
  BY <1>1, <1>5 DEF Unlock, InstallFails, Report, DieInstall
<1>6. CASE CheckFile(u) \/ CheckRest(u)
  BY <1>1, <1>6 DEF CheckFile, CheckRest
<1> QED BY <1>2, <1>3, <1>4, <1>5, <1>6 DEF InstallStep

\* The phases a command of u can be in after a step of u.
LEMMA InstallPhases ==
  ASSUME InstallerInv, NEW u \in Installers, InstallStep(u), run'[u] # AtRest
  PROVE  \/ run'[u].pc \in {"lock", "inspect", "verify", "tidy", "link", "read", "walk"}
         \/ run'[u].pc = "rename" /\ Doing(u, "verify")
         \/ InstallLink(u) /\ Success(u)
         \/ CheckRest(u)
<1>1. \A x : SetRun(u, x) => run'[u] = x
  BY DEF InstallerInv, InstallTypes, SetRun
<1>2. ~GiveUp(u)
  BY <1>1 DEF GiveUp
<1>3. run[u] # AtRest => run[u] \in Runs
  BY DEF InstallerInv, InstallTypes
<1>4. ASSUME NEW pc \in Phases, run[u] # AtRest, GoTo(u, pc) PROVE run'[u].pc = pc
  BY <1>1, <1>3, <1>4 DEF GoTo, Runs
<1>5. ASSUME NEW v \in Bundles, ResolveDestination(u, v) \/ BeginCheck(u, v)
      PROVE  run'[u].pc \in {"lock", "read"}
  <2>1. CASE ResolveDestination(u, v)
    <3>1. PICK d \in Folders :
            SetRun(u, [pc |-> "lock", ver |-> v, root |-> d, n |-> 1, old |-> "absent",
                       good |-> FALSE, edits |-> count.edits])
      BY <2>1 DEF ResolveDestination, Launch
    <3> QED BY <1>1, <3>1
  <2>2. CASE BeginCheck(u, v)
    <3>1. SetRun(u, [pc |-> "read", ver |-> v, root |-> folder, n |-> 1, old |-> "absent",
                     good |-> TRUE, edits |-> count.edits])
      BY <2>2 DEF BeginCheck, Launch
    <3> QED BY <1>1, <3>1
  <2> QED BY <1>5, <2>1, <2>2
<1>6. ASSUME run[u] # AtRest, NextFile(u) PROVE run'[u].pc \in {"link", "inspect"}
  BY <1>1, <1>2, <1>3, <1>6 DEF NextFile, Runs
<1>7. CASE LockAndClean(u)
  BY <1>2, <1>4, <1>7 DEF LockAndClean, Doing, Phases
<1>8. CASE InspectFile(u)
  <2>1. CASE file[run[u].root][run[u].n] = run[u].ver
    BY <1>6, <1>8, <2>1 DEF InspectFile, Doing
  <2>2. CASE file[run[u].root][run[u].n] # run[u].ver
    <3>1. run'[u] = [run[u] EXCEPT !.old = file[run[u].root][run[u].n], !.pc = "verify"]
      BY <1>1, <1>8, <2>2 DEF InspectFile
    <3> QED BY <1>3, <1>8, <3>1 DEF InspectFile, Doing, Runs
  <2> QED BY <2>1, <2>2
<1>9. CASE VerifyFile(u)
  BY <1>2, <1>4, <1>9 DEF VerifyFile, Doing, Phases
<1>10. CASE RenameFile(u)
  BY <1>2, <1>4, <1>10 DEF RenameFile, Doing, Phases
<1>11. CASE TidyFile(u)
  BY <1>6, <1>11 DEF TidyFile, Doing
<1>12. CASE InstallLink(u)
  BY <1>2, <1>12 DEF InstallLink
<1>13. CASE Unlock(u) \/ InstallFails(u) \/ Report(u) \/ DieInstall(u)
  BY <1>1, <1>2, <1>13 DEF Unlock, InstallFails, Report, DieInstall
<1>14. CASE CheckFile(u)
  <2>1. PICK p \in {"walk", "read"} : p = IF run[u].n = Size THEN "walk" ELSE "read"
    OBVIOUS
  <2>2. run'[u] = [run[u] EXCEPT !.good = @ /\ ReadFile(u) = run[u].ver, !.n = @ + 1, !.pc = p]
    BY <1>1, <1>14, <2>1 DEF CheckFile
  <2> QED BY <1>3, <1>14, <2>1, <2>2 DEF CheckFile, Doing, Runs
<1>15. CASE CheckRest(u)
  BY <1>15
<1> QED BY <1>5, <1>7, <1>8, <1>9, <1>10, <1>11, <1>12, <1>13, <1>14, <1>15 DEF InstallStep

LEMMA InstallSpeaksTrue ==
  ASSUME Installable, InstallerInv, InstallerInv', [InstallerNext]_installerVars
  PROVE  InstallHonest
<1>1. ASSUME NEW u \in Installers
      PROVE  run'[u] = run[u] \/ InstallStep(u)
  <2>1. CASE UNCHANGED installerVars
    BY <2>1 DEF installerVars
  <2>2. CASE \E w \in Installers : InstallStep(w)
    BY <2>2, InstallAlone
  <2>3. CASE \E d \in Folders : SwapFolder(d) \/ \E n \in Bundled : EditFile(d, n)
    BY <2>3 DEF SwapFolder, EditFile
  <2> QED BY <2>1, <2>2, <2>3 DEF InstallerNext
<1>2. ASSUME NEW u \in Installers PROVE SuccessIsWhole(u)
  <2> SUFFICES ASSUME Doing(u, "unlock")', ~Doing(u, "unlock"), Undisturbed(u)
               PROVE  (folder # "none" /\ Complete(folder, run[u].ver) /\ spare[folder] = {})'
    BY DEF SuccessIsWhole
  <2>1. InstallLink(u) /\ Success(u)
    <3>1. InstallStep(u) /\ run'[u] # AtRest /\ run'[u].pc = "unlock"
      BY <1>1 DEF Doing
    <3>2. (InstallLink(u) /\ Success(u)) \/ CheckRest(u)
      BY <3>1, InstallPhases
    <3>3. ~CheckRest(u)
      <4> SUFFICES ASSUME CheckRest(u) PROVE FALSE
        OBVIOUS
      <4>1. run[u] \in Runs
        BY DEF CheckRest, Doing, InstallerInv, InstallTypes
      <4>2. run'[u].pc = "report"
        BY <4>1 DEF CheckRest, SetRun, Runs, InstallerInv, InstallTypes
      <4> QED BY <3>1, <4>2
    <3> QED BY <3>2, <3>3
  <2>2. Working(u) /\ run[u].pc = "link" /\ folder = run[u].root /\ UNCHANGED <<folder, file, count>>
    BY <2>1 DEF InstallLink, Doing, Working, Success, Steady
  <2>3. UNCHANGED spare
    BY <2>1 DEF InstallLink
  <2>4. /\ run[u] \in Runs /\ Sane(run[u]) /\ run[u].root \in Folders
        /\ Written(run[u]) /\ Temporaries(u, run[u])
    BY <2>2, AtWork DEF Held
  <2>5. run'[u].ver = run[u].ver
    <3>1. run'[u] = [run[u] EXCEPT !.pc = "unlock", !.good = TRUE]
      BY <2>1 DEF InstallLink, SetRun, InstallerInv, InstallTypes
    <3> QED BY <2>4, <3>1 DEF Runs
  <2>6. \A i \in Bundled : i < run[u].n
    BY <2>2, <2>4 DEF Sane, Bundled, Installable
  <2>7. ~(run[u].edits < count.edits)
    BY <2>2 DEF Undisturbed, InstallerInv, InstallTypes, Counts
  <2>8. \A i \in Bundled : file[run[u].root][i] = run[u].ver
    BY <2>4, <2>6, <2>7 DEF Written, Finished
  <2>9. spare[run[u].root] = {}
    BY <2>2, <2>4 DEF Temporaries
  <2>10. folder # "none"
    BY <2>2, <2>4 DEF Installable
  <2> QED BY <2>2, <2>3, <2>5, <2>8, <2>9, <2>10 DEF Complete
<1>3. ASSUME NEW u \in Installers PROVE CurrentWasWhole(u)
  <2> SUFFICES ASSUME Doing(u, "report")', ~Doing(u, "report"), run'[u].good, Undisturbed(u)
               PROVE  u \in whole'
    BY DEF CurrentWasWhole
  <2>1. InstallStep(u) /\ run'[u] # AtRest /\ run'[u].pc = "report"
    BY <1>1 DEF Doing
  <2>2. run[u] # AtRest => run[u] \in Runs
    BY DEF InstallerInv, InstallTypes
  <2>3. ~InstallLink(u) \/ ~Success(u)
    <3> SUFFICES ASSUME InstallLink(u), Success(u) PROVE FALSE
      OBVIOUS
    <3>1. run'[u] = [run[u] EXCEPT !.pc = "unlock", !.good = TRUE] /\ run[u] # AtRest
      BY DEF InstallLink, SetRun, InstallerInv, InstallTypes, Doing
    <3> QED BY <2>1, <2>2, <3>1 DEF Runs
  <2>4. CheckRest(u)
    BY <2>1, <2>3, InstallPhases
  <2>5. run'[u].edits = run[u].edits
    BY <2>2, <2>4 DEF CheckRest, SetRun, Doing, Runs, InstallerInv, InstallTypes
  <2>6. run'[u].n = Size + 1
    BY <2>1 DEF InstallerInv, Working, Sane
  <2>7. \A j \in Bundled : ~(j >= run'[u].n)
    BY <2>6 DEF Bundled, Installable
  <2>8. run'[u].edits = count'.edits
    BY <2>5 DEF Undisturbed
  <2>9. Looks(u)'
    BY DEF InstallerInv
  <2> QED BY <2>1, <2>7, <2>8, <2>9 DEF Looks, Working, Reading
<1>4. ASSUME NEW u \in Installers PROVE TemporariesKept(u)
  <2> SUFFICES ASSUME Doing(u, "rename"), Doing(u, "rename")' PROVE u \in spare'[run[u].root]
    BY DEF TemporariesKept
  <2>1. run'[u] = run[u]
    <3> SUFFICES ASSUME InstallStep(u) PROVE FALSE
      BY <1>1
    <3>1. run'[u] # AtRest /\ run'[u].pc = "rename"
      BY DEF Doing
    <3>2. (InstallLink(u) /\ Success(u)) \/ CheckRest(u)
      BY <3>1, InstallPhases DEF Doing
    <3> QED BY <3>2 DEF InstallLink, CheckRest, Doing
  <2>2. Working(u)' /\ run'[u].pc = "rename"
    BY DEF Doing, Working
  <2>3. Temporaries(u, run[u])'
    BY <2>2 DEF InstallerInv, Installs, Held
  <2> QED BY <2>1, <2>2, <2>3 DEF Temporaries
<1> QED BY <1>2, <1>3, <1>4 DEF InstallHonest

\* What the installer of the skill reports is true of the directory it worked
\* on, whoever replaces that directory, edits its files by hand, installs
\* another version or dies meanwhile: a successful installation has put its
\* whole bundle there, a check that finds it current had it whole before it at
\* one instant, and nobody removes a temporary of a publication under way.
THEOREM InstallTellsTruth == ASSUME Installable PROVE InstallerSpec => InstallReports
<1>1. InstallerInit => InstallerInv
  BY InstallerInvInit
<1>2. InstallerInv /\ [InstallerNext]_installerVars => InstallerInv'
  BY InstallerInvStep
<1>3. InstallerInv /\ InstallerInv' /\ [InstallerNext]_installerVars => InstallHonest
  BY InstallSpeaksTrue
<1> QED BY <1>1, <1>2, <1>3, PTL DEF InstallerSpec, InstallReports

-----------------------------------------------------------------------------
(* Sources: types.                                                         *)

Records == [key : Keys, active : BOOLEAN, hints : SUBSET Locators]
Clones == [identity : Nat, remotes : SUBSET Locators]
Entries == [root : Roots, identity : Nat, hints : SUBSET Locators]
Registries == [home : Homes, clone : [SourceIDs -> {Unregistered} \cup Entries]]
Publications == [at : {"publish"}, home : Homes, root : Roots, value : Records]
Registrations == [at : {"project", "inspect"}, home : Homes, root : Roots, source : SourceIDs]
Associations == [at : {"associate"}, home : Homes, source : SourceIDs, entry : Entries]
Resolutions == [at : {"resolve"}, root : Roots, key : Keys \cup {Unnamed}, home : Homes,
                listed : Registries]
Answers == [at : {"use"}, root : Roots, key : Keys \cup {Unnamed}, home : Homes,
            listed : Registries, source : SourceIDs]
Errands == Publications \cup Registrations \cup Associations \cup Resolutions \cup Answers

Collection(records) == \E D \in SUBSET SourceIDs : records \in [D -> Records]

SourceTypes ==
    /\ sources = [h \in Homes |-> sources[h]]
    /\ \A h \in Homes : Collection(sources[h])
    /\ clones \in [Roots -> Clones]
    /\ registry \in Registries
    /\ errand \in [Hands -> {Leisure} \cup Errands]

\* A registration that is about to be written is one of a Source that the home
\* it was inspected in has; no home ever loses a record.
Grounded(e) == e \in Associations => e.source \in DOMAIN sources[e.home]

SourceInv ==
    /\ SourceTypes
    /\ \A u \in Hands : errand[u] # Leisure => Grounded(errand[u])

LEMMA SourceInvInit == ASSUME Placed, SourcesInit PROVE SourceInv
<1>1. PICK k \in Keys : k = CHOOSE c \in Keys : TRUE
  BY DEF Placed
<1>2. PICK g \in Homes : g = CHOOSE h \in Homes : TRUE
  BY DEF Placed
<1>3. PICK r : r = [key |-> k, active |-> TRUE, hints |-> {Hint}]
  OBVIOUS
<1>4. r \in Records
  BY <1>3 DEF Records, Placed
<1>5. sources = [h \in Homes |-> [s \in {Elder} |-> r]]
  BY <1>1, <1>3 DEF SourcesInit
<1>6. \A h \in Homes : sources[h] \in [{Elder} -> Records] /\ {Elder} \in SUBSET SourceIDs
  BY <1>4, <1>5 DEF Placed
<1>7. \A h \in Homes : Collection(sources[h])
  BY <1>6 DEF Collection
<1>8. clones \in [Roots -> Clones]
  BY DEF SourcesInit, Clones, Placed
<1>9. registry \in Registries
  <2>1. [root |-> Outer, identity |-> 1, hints |-> {Hint}] \in Entries
    BY DEF Entries, Placed
  <2>2. registry = [home |-> g, clone |-> [s \in SourceIDs |->
          IF s = Elder THEN [root |-> Outer, identity |-> 1, hints |-> {Hint}] ELSE Unregistered]]
    BY <1>2 DEF SourcesInit
  <2> QED BY <2>1, <2>2 DEF Registries
<1>10. errand \in [Hands -> {Leisure} \cup Errands] /\ \A u \in Hands : errand[u] = Leisure
  BY DEF SourcesInit
<1> QED BY <1>5, <1>7, <1>8, <1>9, <1>10 DEF SourceInv, SourceTypes

-----------------------------------------------------------------------------
(* A hand goes on with x; records are only added to.                       *)

LEMMA ErrandGoesOn ==
  ASSUME SourceInv, NEW u \in Hands, NEW x \in {Leisure} \cup Errands,
         errand' = [errand EXCEPT ![u] = x],
         x # Leisure => Grounded(x),
         UNCHANGED <<sources, clones>>, registry' \in Registries
  PROVE  SourceInv'
<1>1. SourceTypes'
  BY DEF SourceInv, SourceTypes, Collection
<1>2. \A v \in Hands : errand'[v] = IF v = u THEN x ELSE errand[v]
  BY DEF SourceInv, SourceTypes
<1>3. ASSUME NEW v \in Hands, errand'[v] # Leisure PROVE Grounded(errand[v])'
  BY <1>2, <1>3 DEF SourceInv, Grounded
<1> QED BY <1>1, <1>3 DEF SourceInv

\* The records of one home change; none is lost.
LEMMA RecordsGrow ==
  ASSUME SourceInv, NEW u \in Hands, NEW x \in {Leisure} \cup Errands,
         errand' = [errand EXCEPT ![u] = x] \/ errand' = errand,
         x \notin Associations,
         NEW h \in Homes, NEW after, Collection(after), DOMAIN sources[h] \subseteq DOMAIN after,
         sources' = [sources EXCEPT ![h] = after],
         UNCHANGED <<clones, registry>>
  PROVE  SourceInv'
<1>1. /\ sources' = [g \in Homes |-> sources'[g]]
      /\ \A g \in Homes : sources'[g] = IF g = h THEN after ELSE sources[g]
  BY DEF SourceInv, SourceTypes
<1>2. \A g \in Homes : Collection(sources[g])' /\ DOMAIN sources[g] \subseteq DOMAIN sources'[g]
  BY <1>1 DEF SourceInv, SourceTypes, Collection
<1>3. \A v \in Hands : errand'[v] = errand[v] \/ errand'[v] = x
  BY DEF SourceInv, SourceTypes
<1>4. SourceTypes'
  BY <1>1, <1>2 DEF SourceInv, SourceTypes
<1>5. ASSUME NEW v \in Hands, errand'[v] # Leisure PROVE Grounded(errand[v])'
  <2> SUFFICES ASSUME errand'[v] \in Associations
               PROVE  errand'[v].source \in DOMAIN sources'[errand'[v].home]
    BY DEF Grounded
  <2>1. errand'[v] = errand[v]
    BY <1>3
  <2>2. errand[v].home \in Homes
    BY <2>1 DEF Associations
  <2> QED BY <1>2, <1>5, <2>1, <2>2 DEF SourceInv, Grounded
<1> QED BY <1>4, <1>5 DEF SourceInv

LEMMA RecordOf ==
  ASSUME SourceInv, NEW h \in Homes, NEW s, Known(h, s)
  PROVE  s \in SourceIDs /\ sources[h][s] \in Records
BY DEF SourceInv, SourceTypes, Collection, Known

\* What a hand that is busy at a step of its command carries.
LEMMA ErrandAt ==
  ASSUME SourceInv, NEW u \in Hands, errand[u] # Leisure
  PROVE  /\ errand[u] \in Errands
         /\ errand[u].at = "publish" => errand[u] \in Publications
         /\ errand[u].at \in {"project", "inspect"} => errand[u] \in Registrations
         /\ errand[u].at = "associate" => errand[u] \in Associations
         /\ errand[u].at = "resolve" => errand[u] \in Resolutions
         /\ errand[u].at = "use" => errand[u] \in Answers
<1>1. errand[u] \in Errands
  BY DEF SourceInv, SourceTypes
<1>2. CASE errand[u] \in Publications
  BY <1>1, <1>2 DEF Publications
<1>3. CASE errand[u] \in Registrations
  BY <1>1, <1>3 DEF Registrations
<1>4. CASE errand[u] \in Associations
  BY <1>1, <1>4 DEF Associations
<1>5. CASE errand[u] \in Resolutions
  BY <1>1, <1>5 DEF Resolutions
<1>6. CASE errand[u] \in Answers
  BY <1>1, <1>6 DEF Answers
<1> QED BY <1>1, <1>2, <1>3, <1>4, <1>5, <1>6 DEF Errands

\* An inspection of a clone shows what the model says it shows.
LEMMA RemotesOf ==
  ASSUME SourceInv, NEW r \in Roots
  PROVE  clones[r] \in Clones /\ Remotes(r) \in SUBSET Locators /\ clones[r].identity \in Nat
BY DEF SourceInv, SourceTypes, Remotes, Clones

LEMMA PlansKeep ==
  ASSUME SourceInv, NEW u \in Hands, NEW h \in Homes, NEW r \in Roots,
         \/ \E key \in Keys, asked \in SUBSET Locators : PlanAdd(u, h, r, key, asked)
         \/ \E s \in SourceIDs : PlanRegister(u, h, s, r)
         \/ \E key \in Keys \cup {Unnamed} : ListAssociations(u, r, h, key)
  PROVE  SourceInv'
<1>0. UNCHANGED <<sources, clones, registry>> /\ registry \in Registries
  BY DEF PlanAdd, PlanRegister, ListAssociations, SourceInv, SourceTypes
<1>1. CASE \E key \in Keys, asked \in SUBSET Locators : PlanAdd(u, h, r, key, asked)
  <2>1. PICK key \in Keys, asked \in SUBSET Locators : PlanAdd(u, h, r, key, asked)
    BY <1>1
  <2>2. PICK v : v = Planned(r, key, asked)
    OBVIOUS
  <2>3. v \in Records
    BY <2>2, RemotesOf DEF Planned, Records
  <2>4. PICK x : x = [at |-> "publish", home |-> h, root |-> r, value |-> v]
    OBVIOUS
  <2>5. x \in Publications /\ x.at = "publish"
    BY <2>3, <2>4 DEF Publications
  <2>6. errand' = [errand EXCEPT ![u] = x]
    BY <2>1, <2>2, <2>4 DEF PlanAdd, Begin, SetErrand
  <2>7. Grounded(x)
    BY <2>5 DEF Grounded, Associations
  <2> QED BY <1>0, <2>5, <2>6, <2>7, ErrandGoesOn DEF Errands
<1>2. CASE \E s \in SourceIDs : PlanRegister(u, h, s, r)
  <2>1. PICK s \in SourceIDs : PlanRegister(u, h, s, r)
    BY <1>2
  <2>2. PICK x : x = [at |-> "project", home |-> h, root |-> r, source |-> s]
    OBVIOUS
  <2>3. x \in Registrations /\ x.at = "project"
    BY <2>2 DEF Registrations
  <2>4. errand' = [errand EXCEPT ![u] = x]
    BY <2>1, <2>2 DEF PlanRegister, Begin, SetErrand
  <2>5. Grounded(x)
    BY <2>3 DEF Grounded, Associations
  <2> QED BY <1>0, <2>3, <2>4, <2>5, ErrandGoesOn DEF Errands
<1>3. CASE \E key \in Keys \cup {Unnamed} : ListAssociations(u, r, h, key)
  <2>1. PICK key \in Keys \cup {Unnamed} : ListAssociations(u, r, h, key)
    BY <1>3
  <2>2. PICK x : x = [at |-> "resolve", root |-> r, key |-> key, home |-> h, listed |-> registry]
    OBVIOUS
  <2>3. x \in Resolutions /\ x.at = "resolve"
    BY <1>0, <2>2 DEF Resolutions
  <2>4. errand' = [errand EXCEPT ![u] = x]
    BY <2>1, <2>2 DEF ListAssociations, Begin, SetErrand
  <2>5. Grounded(x)
    BY <2>3 DEF Grounded, Associations
  <2> QED BY <1>0, <2>3, <2>4, <2>5, ErrandGoesOn DEF Errands
<1> QED BY <1>1, <1>2, <1>3

LEMMA AddKeeps ==
  ASSUME SourceInv, NEW u \in Hands, Add(u)
  PROVE  SourceInv'
<1>1. errand[u] \in Publications
  BY ErrandAt DEF Add
<1>2. PICK s \in NewIDs : s = CHOOSE t \in NewIDs : TRUE
  BY DEF Add
<1>3. PICK after : after = [t \in DOMAIN sources[errand[u].home] \cup {s} |->
                              IF t = s THEN errand[u].value ELSE sources[errand[u].home][t]]
  OBVIOUS
<1>4. PICK h \in Homes : h = errand[u].home
  BY <1>1 DEF Publications
<1>5. /\ UNCHANGED <<clones, registry>>
      /\ IF KeysUnique(after)
         THEN /\ sources' = [sources EXCEPT ![h] = after]
              /\ SetErrand(u, [at |-> "project", home |-> h, root |-> errand[u].root, source |-> s])
         ELSE SetErrand(u, Leisure) /\ UNCHANGED sources
  BY <1>2, <1>3, <1>4 DEF Add
<1>6. CASE KeysUnique(after)
  <2>1. PICK x : x = [at |-> "project", home |-> h, root |-> errand[u].root, source |-> s]
    OBVIOUS
  <2>2. errand[u].root \in Roots /\ errand[u].value \in Records /\ s \in SourceIDs
    BY <1>1 DEF Publications, NewIDs
  <2>3. x \in Registrations /\ x.at = "project"
    BY <2>1, <2>2 DEF Registrations
  <2>4. x \in Errands /\ x \notin Associations
    BY <2>3 DEF Errands, Associations
  <2>5. Collection(after)
    <3>1. PICK D \in SUBSET SourceIDs : sources[h] \in [D -> Records]
      BY DEF SourceInv, SourceTypes, Collection
    <3>2. after \in [D \cup {s} -> Records]
      BY <1>3, <1>4, <2>2, <3>1
    <3> QED BY <2>2, <3>1, <3>2 DEF Collection
  <2>6. DOMAIN sources[h] \subseteq DOMAIN after
    BY <1>3, <1>4
  <2>7. errand' = [errand EXCEPT ![u] = x] /\ sources' = [sources EXCEPT ![h] = after]
    BY <1>5, <1>6, <2>1 DEF SetErrand
  <2> QED BY <1>5, <2>4, <2>5, <2>6, <2>7, RecordsGrow
<1>7. CASE ~KeysUnique(after)
  <2>1. PICK x : x = Leisure
    OBVIOUS
  <2>2. errand' = [errand EXCEPT ![u] = x] /\ UNCHANGED <<sources, clones, registry>>
    BY <1>5, <1>7, <2>1 DEF SetErrand
  <2>3. registry' \in Registries
    BY <2>2 DEF SourceInv, SourceTypes
  <2> QED BY <2>1, <2>2, <2>3, ErrandGoesOn
<1> QED BY <1>6, <1>7

\* A record is changed where it is.
LEMMA RecordKeeps ==
  ASSUME SourceInv, NEW h \in Homes, NEW s, Known(h, s), NEW r \in Records,
         sources' = [sources EXCEPT ![h][s] = r], UNCHANGED <<errand, clones, registry>>
  PROVE  SourceInv'
<1>1. PICK after : after = [sources[h] EXCEPT ![s] = r]
  OBVIOUS
<1>2. PICK D \in SUBSET SourceIDs : sources[h] \in [D -> Records]
  BY DEF SourceInv, SourceTypes, Collection
<1>3. after \in [D -> Records] /\ DOMAIN sources[h] \subseteq DOMAIN after
  BY <1>1, <1>2
<1>4. sources' = [sources EXCEPT ![h] = after]
  BY <1>1
<1>5. Collection(after)
  BY <1>2, <1>3 DEF Collection
<1>6. SourceTypes'
  <2>1. /\ sources' = [g \in Homes |-> sources'[g]]
        /\ \A g \in Homes : sources'[g] = IF g = h THEN after ELSE sources[g]
    BY <1>4 DEF SourceInv, SourceTypes
  <2>2. \A g \in Homes : Collection(sources'[g])
    BY <1>5, <2>1 DEF SourceInv, SourceTypes
  <2> QED BY <2>1, <2>2 DEF SourceInv, SourceTypes, Collection
<1>7. \A g \in Homes : DOMAIN sources[g] \subseteq DOMAIN sources'[g]
  BY <1>3, <1>4 DEF SourceInv, SourceTypes
<1>8. ASSUME NEW v \in Hands, errand'[v] # Leisure PROVE Grounded(errand[v])'
  BY <1>7, <1>8 DEF SourceInv, Grounded, Associations
<1> QED BY <1>6, <1>8 DEF SourceInv

LEMMA UpdatesKeep ==
  ASSUME SourceInv, NEW u \in Hands, NEW h \in Homes, NEW s \in SourceIDs,
         (\E l \in Locators : AppendLocator(u, h, s, l)) \/ Retire(u, h, s)
  PROVE  SourceInv'
<1>1. CASE \E l \in Locators : AppendLocator(u, h, s, l)
  <2>1. PICK l \in Locators : AppendLocator(u, h, s, l)
    BY <1>1
  <2>2. PICK r : r = Appended(sources[h][s], l)
    OBVIOUS
  <2>3. r \in Records
    BY <2>1, <2>2, RecordOf DEF AppendLocator, Appended, Records
  <2>4. Known(h, s) /\ sources' = [sources EXCEPT ![h][s] = r] /\ UNCHANGED <<errand, clones, registry>>
    BY <2>1, <2>2 DEF AppendLocator, Appended
  <2> QED BY <2>3, <2>4, RecordKeeps
<1>2. CASE Retire(u, h, s)
  <2>2. PICK r : r = Retired(sources[h][s])
    OBVIOUS
  <2>3. r \in Records
    BY <1>2, <2>2, RecordOf DEF Retire, Retired, Records
  <2>4. Known(h, s) /\ sources' = [sources EXCEPT ![h][s] = r] /\ UNCHANGED <<errand, clones, registry>>
    BY <1>2, <2>2 DEF Retire, Retired
  <2> QED BY <2>3, <2>4, RecordKeeps
<1> QED BY <1>1, <1>2

LEMMA RegistrationKeeps ==
  ASSUME SourceInv, NEW u \in Hands, RegisterProject(u) \/ InspectClone(u) \/ RegisterSource(u)
  PROVE  SourceInv'
<1>0. registry \in Registries
  BY DEF SourceInv, SourceTypes
<1>1. CASE RegisterProject(u)
  <2>1. errand[u] \in Registrations
    BY <1>1, ErrandAt DEF RegisterProject
  <2>2. PICK x : x = [errand[u] EXCEPT !.at = "inspect"]
    OBVIOUS
  <2>3. x \in Registrations /\ x.at = "inspect"
    BY <2>1, <2>2 DEF Registrations
  <2>4. errand' = [errand EXCEPT ![u] = x] /\ UNCHANGED <<sources, clones>>
    BY <1>1, <2>2 DEF RegisterProject, SetErrand
  <2>5. registry' \in Registries
    BY <1>0, <1>1, <2>1 DEF RegisterProject, Registries, Registrations
  <2>6. Grounded(x)
    BY <2>3 DEF Grounded, Associations
  <2> QED BY <2>3, <2>4, <2>5, <2>6, ErrandGoesOn DEF Errands
<1>2. CASE InspectClone(u)
  <2>0. errand[u] \in Registrations /\ UNCHANGED <<sources, clones, registry>>
    BY <1>2, ErrandAt DEF InspectClone
  <2>1. PICK s \in SourceIDs : s = errand[u].source
    BY <2>0 DEF Registrations
  <2>2. PICK h \in Homes : h = registry.home
    BY <1>0 DEF Registries
  <2>3. PICK r \in Roots : r = errand[u].root
    BY <2>0 DEF Registrations
  <2>4. CASE Known(h, s) /\ Recognised(sources[h][s], Remotes(r))
    <3>1. PICK y : y = [root |-> r, identity |-> clones[r].identity,
                        hints |-> Matched(sources[h][s], Remotes(r))]
      OBVIOUS
    <3>2. PICK x : x = [at |-> "associate", home |-> h, source |-> s, entry |-> y]
      OBVIOUS
    <3>3. y \in Entries
      BY <3>1, RemotesOf DEF Entries, Matched
    <3>4. x \in Associations
      BY <3>2, <3>3 DEF Associations
    <3>5. errand' = [errand EXCEPT ![u] = x]
      BY <1>2, <2>1, <2>2, <2>3, <2>4, <3>1, <3>2 DEF InspectClone, SetErrand
    <3>6. Grounded(x)
      BY <2>4, <3>2 DEF Grounded, Known
    <3> QED BY <1>0, <2>0, <3>4, <3>5, <3>6, ErrandGoesOn DEF Errands
  <2>5. CASE ~(Known(h, s) /\ Recognised(sources[h][s], Remotes(r)))
    <3>1. PICK x : x = Leisure
      OBVIOUS
    <3>2. errand' = [errand EXCEPT ![u] = x]
      BY <1>2, <2>1, <2>2, <2>3, <2>5, <3>1 DEF InspectClone, SetErrand
    <3> QED BY <1>0, <2>0, <3>1, <3>2, ErrandGoesOn
  <2> QED BY <2>4, <2>5
<1>3. CASE RegisterSource(u)
  <2>1. errand[u] \in Associations
    BY <1>3, ErrandAt DEF RegisterSource
  <2>2. registry' \in Registries
    BY <1>0, <1>3, <2>1 DEF RegisterSource, Registries, Associations
  <2>3. PICK x : x = Leisure
    OBVIOUS
  <2>4. errand' = [errand EXCEPT ![u] = x] /\ UNCHANGED <<sources, clones>>
    BY <1>3, <2>3 DEF RegisterSource, SetErrand
  <2> QED BY <2>2, <2>3, <2>4, ErrandGoesOn
<1> QED BY <1>1, <1>2, <1>3

LEMMA UseKeeps ==
  ASSUME SourceInv, NEW u \in Hands, Resolve(u) \/ UseSource(u) \/ Interrupt(u)
  PROVE  SourceInv'
<1>0. UNCHANGED <<sources, clones, registry>> /\ registry \in Registries
  BY DEF SourceInv, SourceTypes, Resolve, UseSource, Interrupt
<1>1. CASE SetErrand(u, Leisure)
  <2>1. PICK x : x = Leisure
    OBVIOUS
  <2> QED BY <1>0, <1>1, <2>1, ErrandGoesOn DEF SetErrand
<1>2. CASE Resolve(u) /\ ~SetErrand(u, Leisure)
  <2>1. errand[u] \in Resolutions
    BY <1>2, ErrandAt DEF Resolve
  <2>2. PICK s \in IF errand[u].key = Unnamed THEN Answer(errand[u]) ELSE Explicit(errand[u]) :
          SetErrand(u, [at |-> "use", root |-> errand[u].root, key |-> errand[u].key,
                        home |-> errand[u].home, listed |-> errand[u].listed, source |-> s])
    BY <1>2 DEF Resolve
  <2>3. s \in SourceIDs
    <3>1. CASE errand[u].key = Unnamed
      BY <2>2, <3>1 DEF Answer, Deepest, Fitting, Containing
    <3>2. CASE errand[u].key # Unnamed
      <4>1. s \in DOMAIN sources[errand[u].home] /\ errand[u].home \in Homes
        BY <2>1, <2>2, <3>2 DEF Explicit, Resolutions
      <4> QED BY <4>1, RecordOf DEF Known
    <3> QED BY <3>1, <3>2
  <2>4. PICK x : x = [at |-> "use", root |-> errand[u].root, key |-> errand[u].key,
                      home |-> errand[u].home, listed |-> errand[u].listed, source |-> s]
    OBVIOUS
  <2>5. x \in Answers /\ x.at = "use"
    BY <2>1, <2>3, <2>4 DEF Answers, Resolutions
  <2>6. Grounded(x)
    BY <2>5 DEF Grounded, Associations
  <2>7. errand' = [errand EXCEPT ![u] = x]
    BY <2>2, <2>4 DEF SetErrand
  <2> QED BY <1>0, <2>5, <2>6, <2>7, ErrandGoesOn DEF Errands
<1> QED BY <1>1, <1>2 DEF UseSource, Interrupt

LEMMA MoveKeeps ==
  ASSUME SourceInv, NEW r \in Roots, MoveClone(r)
  PROVE  SourceInv'
<1>1. clones' \in [Roots -> Clones]
  <2>1. clones[r] \in Clones /\ clones \in [Roots -> Clones]
    BY DEF SourceInv, SourceTypes
  <2>2. CASE clones' = [clones EXCEPT ![r].identity = @ + 1]
    BY <2>1, <2>2 DEF Clones
  <2>3. ASSUME NEW l \in Locators, clones' = [clones EXCEPT ![r].remotes = {l}]
        PROVE  clones' \in [Roots -> Clones]
    BY <2>1, <2>3 DEF Clones
  <2> QED BY <2>2, <2>3 DEF MoveClone
<1>2. UNCHANGED <<sources, registry, errand>>
  BY DEF MoveClone
<1> QED BY <1>1, <1>2 DEF SourceInv, SourceTypes, Grounded

LEMMA SourceInvStep ==
  ASSUME SourceInv, [SourcesNext]_sourceVars PROVE SourceInv'
<1>1. CASE UNCHANGED sourceVars
  BY <1>1 DEF sourceVars, SourceInv, SourceTypes, Collection, Grounded
<1>2. ASSUME NEW u \in Hands, NEW h \in Homes, NEW r \in Roots,
             \/ \E key \in Keys, asked \in SUBSET (Locators \ {Hint}) : PlanAdd(u, h, r, key, asked)
             \/ \E s \in SourceIDs : PlanRegister(u, h, s, r)
             \/ \E key \in Keys \cup {Unnamed} : ListAssociations(u, r, h, key)
      PROVE  SourceInv'
  BY <1>2, PlansKeep
<1>3. ASSUME NEW u \in Hands, NEW h \in Homes, NEW s \in SourceIDs,
             (\E l \in Locators : AppendLocator(u, h, s, l)) \/ Retire(u, h, s)
      PROVE  SourceInv'
  BY <1>3, UpdatesKeep
<1>4. ASSUME NEW u \in Hands,
             \/ Add(u) \/ RegisterProject(u) \/ InspectClone(u) \/ RegisterSource(u)
             \/ Resolve(u) \/ UseSource(u) \/ Interrupt(u)
      PROVE  SourceInv'
  BY <1>4, AddKeeps, RegistrationKeeps, UseKeeps
<1>5. ASSUME NEW r \in Roots, MoveClone(r) PROVE SourceInv'
  BY <1>5, MoveKeeps
<1> QED BY <1>1, <1>2, <1>3, <1>4, <1>5 DEF SourcesNext

-----------------------------------------------------------------------------
(* From its registration to its use.                                       *)

LEMMA RegistersWhatIsThere ==
  ASSUME SourceInv, [SourcesNext]_sourceVars PROVE RegistrationGrounded
<1> SUFFICES ASSUME NEW s \in SourceIDs, registry'.clone[s] # registry.clone[s]
             PROVE  s \in DOMAIN sources'[registry'.home]
  BY DEF RegistrationGrounded
<1>1. registry \in Registries
  BY DEF SourceInv, SourceTypes
<1>2. registry' # registry
  OBVIOUS
<1>3. PICK u \in Hands : RegisterProject(u) \/ RegisterSource(u)
  BY <1>2 DEF SourcesNext, sourceVars, PlanAdd, PlanRegister, ListAssociations, AppendLocator,
              Retire, Add, InspectClone, Resolve, UseSource, Interrupt, MoveClone
<1>4. ~RegisterProject(u)
  <2> SUFFICES ASSUME RegisterProject(u) PROVE FALSE
    OBVIOUS
  <2>1. registry'.clone = registry.clone
    BY <1>1 DEF RegisterProject, Registries
  <2> QED BY <2>1
<1>5. RegisterSource(u) /\ Unmoved(errand[u]) /\ errand[u] \in Associations
  BY <1>2, <1>3, <1>4, ErrandAt DEF RegisterSource
<1>6. errand[u].source \in DOMAIN sources[errand[u].home]
  BY <1>5 DEF SourceInv, Grounded, RegisterSource
<1>7. registry' = [registry EXCEPT !.clone[errand[u].source] = errand[u].entry]
  BY <1>5 DEF RegisterSource
<1>8. registry'.home = registry.home /\ (s # errand[u].source => registry'.clone[s] = registry.clone[s])
  BY <1>1, <1>7 DEF Registries
<1>9. sources' = sources
  BY <1>5 DEF RegisterSource
<1> QED BY <1>5, <1>6, <1>8, <1>9 DEF Unmoved

\* Only a resolution attributes a directory to a Source.
LEMMA OnlyResolved ==
  ASSUME SourceInv, [SourcesNext]_sourceVars, NEW u \in Hands,
         errand'[u] # errand[u], errand'[u] # Leisure, errand'[u].at = "use"
  PROVE  Resolve(u)
<1>1. \A v \in Hands : \A x : SetErrand(v, x) => errand'[u] = IF v = u THEN x ELSE errand[u]
  BY DEF SourceInv, SourceTypes, SetErrand
<1>2. ~UNCHANGED errand
  OBVIOUS
<1>3. ASSUME NEW v \in Hands, NEW h \in Homes, NEW r \in Roots, NEW key, NEW asked,
             PlanAdd(v, h, r, key, asked)
      PROVE  FALSE
  BY <1>1, <1>3 DEF PlanAdd, Begin
<1>4. ASSUME NEW v \in Hands, NEW h \in Homes, NEW s \in SourceIDs, NEW r \in Roots,
             PlanRegister(v, h, s, r)
      PROVE  FALSE
  BY <1>1, <1>4 DEF PlanRegister, Begin
<1>5. ASSUME NEW v \in Hands, NEW h \in Homes, NEW r \in Roots, NEW key, ListAssociations(v, r, h, key)
      PROVE  FALSE
  BY <1>1, <1>5 DEF ListAssociations, Begin
<1>6. ASSUME NEW v \in Hands, Add(v) PROVE FALSE
  <2>1. \/ \E s : SetErrand(v, [at |-> "project", home |-> errand[v].home, root |-> errand[v].root,
                                source |-> s])
        \/ SetErrand(v, Leisure)
    BY <1>6 DEF Add
  <2>2. ASSUME NEW s, SetErrand(v, [at |-> "project", home |-> errand[v].home,
                                    root |-> errand[v].root, source |-> s])
        PROVE  FALSE
    BY <1>1, <2>2
  <2> QED BY <1>1, <2>1, <2>2
<1>7. ASSUME NEW v \in Hands, RegisterProject(v) PROVE FALSE
  <2>1. errand[v] \in Registrations
    BY <1>7, ErrandAt DEF RegisterProject
  <2>2. [errand[v] EXCEPT !.at = "inspect"].at = "inspect"
    BY <2>1 DEF Registrations
  <2> QED BY <1>1, <1>7, <2>2 DEF RegisterProject
<1>8. ASSUME NEW v \in Hands, InspectClone(v) PROVE FALSE
  <2>1. \/ \E y : SetErrand(v, [at |-> "associate", home |-> registry.home,
                                source |-> errand[v].source, entry |-> y])
        \/ SetErrand(v, Leisure)
    BY <1>8 DEF InspectClone
  <2>2. ASSUME NEW y, SetErrand(v, [at |-> "associate", home |-> registry.home,
                                    source |-> errand[v].source, entry |-> y])
        PROVE  FALSE
    BY <1>1, <2>2
  <2> QED BY <1>1, <2>1, <2>2
<1>9. ASSUME NEW v \in Hands, RegisterSource(v) \/ UseSource(v) \/ Interrupt(v) PROVE FALSE
  BY <1>1, <1>9 DEF RegisterSource, UseSource, Interrupt
<1>10. ASSUME NEW v \in Hands, Resolve(v), v # u PROVE FALSE
  <2>1. \E x : SetErrand(v, x)
    BY <1>10 DEF Resolve
  <2> QED BY <1>1, <1>10, <2>1
<1>11. ~\E v \in Hands, h \in Homes, s \in SourceIDs :
          (\E l \in Locators : AppendLocator(v, h, s, l)) \/ Retire(v, h, s)
  BY <1>2 DEF AppendLocator, Retire
<1>12. ~\E r \in Roots : MoveClone(r)
  BY <1>2 DEF MoveClone
<1> QED BY <1>2, <1>3, <1>4, <1>5, <1>6, <1>7, <1>8, <1>9, <1>10, <1>11, <1>12
        DEF SourcesNext, sourceVars

LEMMA AnswersRight ==
  ASSUME Placed, SourceInv, [SourcesNext]_sourceVars PROVE RightSource
<1> SUFFICES ASSUME NEW u \in Hands, errand'[u] # errand[u], errand'[u] # Leisure,
                    errand'[u].at = "use",
                    NEW e, e = errand'[u],
                    NEW records,
                    records = sources[IF e.key = Unnamed THEN e.listed.home ELSE e.home]
             PROVE  /\ records[e.source].active
                    /\ clones[e.listed.clone[e.source].root].identity
                         = e.listed.clone[e.source].identity
                    /\ e.key = Unnamed => \A t \in Containing(e) \ {e.source} :
                         (t \in DOMAIN records => records[t].active) => Deep(e, t) < Deep(e, e.source)
  BY DEF RightSource
<1>1. Resolve(u)
  BY OnlyResolved
<1>2. PICK o \in Resolutions : o = errand[u]
  BY <1>1, ErrandAt DEF Resolve
<1>3. PICK s \in IF o.key = Unnamed THEN Answer(o) ELSE Explicit(o) :
        e = [at |-> "use", root |-> o.root, key |-> o.key, home |-> o.home, listed |-> o.listed,
             source |-> s]
  <2>1. \A x : SetErrand(u, x) => errand'[u] = x
    BY DEF SetErrand, SourceInv, SourceTypes
  <2> QED BY <1>1, <1>2, <2>1 DEF Resolve
<1>4. /\ e.key = o.key /\ e.home = o.home /\ e.listed = o.listed /\ e.source = s /\ e.root = o.root
  BY <1>3
<1>5. CASE o.key # Unnamed
  <2>1. s \in Explicit(o)
    BY <1>3, <1>5
  <2>2. records = sources[o.home]
    BY <1>4, <1>5
  <2>3. records[s].active /\ Current(records[s], o.listed.clone[s])
    BY <2>1, <2>2 DEF Explicit
  <2> QED BY <1>4, <1>5, <2>3 DEF Current
<1>6. CASE o.key = Unnamed
  <2>1. s \in Answer(o)
    BY <1>3, <1>6
  <2>2. records = sources[o.listed.home]
    BY <1>4, <1>6
  <2>3. /\ Deepest(o) = {s} /\ s \in Fitting(o)
        /\ \A t \in Stale(o) : Deep(o, t) < Deep(o, s)
    BY <2>1 DEF Answer, Deepest
  <2>4. s \in Containing(o) /\ s \notin Stale(o) /\ records[s].active
    BY <2>2, <2>3 DEF Fitting
  <2>5. clones[o.listed.clone[s].root].identity = o.listed.clone[s].identity
    BY <2>2, <2>4 DEF Stale, Current
  <2>6. \A t \in Containing(o) : Deep(o, t) \in Nat
    <3>1. o.listed.clone \in [SourceIDs -> {Unregistered} \cup Entries]
      BY DEF Resolutions, Registries
    <3>2. ASSUME NEW t \in Containing(o) PROVE o.listed.clone[t].root \in Roots
      BY <3>1, <3>2 DEF Containing, Entries
    <3> QED BY <3>2 DEF Deep, Placed
  <2>7. ASSUME NEW t \in Containing(o), t # s, t \in DOMAIN records => records[t].active
        PROVE  Deep(o, t) < Deep(o, s)
    <3>1. CASE t \in Stale(o)
      BY <2>3, <3>1
    <3>2. CASE t \notin Stale(o)
      <4>1. t \in Fitting(o)
        BY <2>2, <2>7, <3>2 DEF Fitting, Stale, Known
      <4>2. \A w \in Fitting(o) : Deep(o, w) <= Deep(o, s)
        BY <2>3 DEF Deepest
      <4>3. t \notin Deepest(o)
        BY <2>3, <2>7
      <4>4. PICK w \in Fitting(o) : ~(Deep(o, w) <= Deep(o, t))
        BY <4>1, <4>3 DEF Deepest
      <4>5. w \in Containing(o) /\ Deep(o, w) <= Deep(o, s)
        BY <4>2 DEF Fitting
      <4>6. Deep(o, w) \in Nat /\ Deep(o, t) \in Nat /\ Deep(o, s) \in Nat
        BY <2>4, <2>6, <4>5
      <4> QED BY <4>4, <4>5, <4>6
    <3> QED BY <3>1, <3>2
  <2>8. Containing(e) = Containing(o) /\ \A t : Deep(e, t) = Deep(o, t)
    BY <1>4 DEF Containing, Deep
  <2> QED BY <1>4, <2>4, <2>5, <2>7, <2>8
<1> QED BY <1>5, <1>6

LEMMA FaithKept ==
  ASSUME SourceInv, [SourcesNext]_sourceVars PROVE RecordsKeepFaith
<1> SUFFICES ASSUME clones' = clones, registry' = registry, NEW s \in SourceIDs, Registered(s),
                    Known(registry.home, s), sources[registry.home][s].hints # {},
                    Current(sources[registry.home][s], registry.clone[s])
             PROVE  Current(sources'[registry.home][s], registry.clone[s])
  BY DEF RecordsKeepFaith
<1>1. PICK g \in Homes : g = registry.home
  BY DEF SourceInv, SourceTypes, Registries
<1>2. sources[g][s] \in Records /\ sources[g][s].hints # {} /\ Known(g, s)
  BY <1>1, RecordOf
<1>3. sources[g][s].hints \subseteq sources'[g][s].hints
  <2>1. CASE sources' = sources
    BY <2>1
  <2>2. ASSUME NEW u \in Hands, Add(u) PROVE sources'[g][s].hints = sources[g][s].hints
    <3>1. CASE sources' = sources
      BY <3>1
    <3>2. CASE sources' # sources
      <4>1. PICK t \in NewIDs : t = CHOOSE w \in NewIDs : TRUE
        BY <2>2 DEF Add
      <4>2. sources' = [sources EXCEPT ![errand[u].home] =
              [w \in DOMAIN sources[errand[u].home] \cup {t} |->
                 IF w = t THEN errand[u].value ELSE sources[errand[u].home][w]]]
        BY <2>2, <3>2, <4>1 DEF Add
      <4>3. t # s
        BY <1>2, <4>1 DEF NewIDs
      <4>4. sources'[g] = sources[g] \/ errand[u].home = g
        BY <4>2 DEF SourceInv, SourceTypes
      <4>5. errand[u].home = g => sources'[g] = [w \in DOMAIN sources[g] \cup {t} |->
                 IF w = t THEN errand[u].value ELSE sources[g][w]]
        BY <4>2 DEF SourceInv, SourceTypes
      <4>6. errand[u].home = g => sources'[g][s] = sources[g][s]
        BY <1>2, <4>3, <4>5 DEF Known
      <4> QED BY <4>4, <4>6
    <3> QED BY <3>1, <3>2
  <2>3. ASSUME NEW h \in Homes, NEW t \in SourceIDs, NEW r \in Records, Known(h, t),
               sources[h][t].hints \subseteq r.hints, sources' = [sources EXCEPT ![h][t] = r]
        PROVE  sources[g][s].hints \subseteq sources'[g][s].hints
    <3>1. sources'[g] = IF h = g THEN [sources[g] EXCEPT ![t] = r] ELSE sources[g]
      BY <2>3 DEF SourceInv, SourceTypes
    <3>2. PICK D \in SUBSET SourceIDs : sources[g] \in [D -> Records] /\ s \in D
      BY <1>2 DEF SourceInv, SourceTypes, Collection, Known
    <3>3. h = g => sources'[g][s] = IF t = s THEN r ELSE sources[g][s]
      BY <3>1, <3>2
    <3> QED BY <2>3, <3>1, <3>3
  <2>4. ASSUME NEW u \in Hands, NEW h \in Homes, NEW t \in SourceIDs, NEW l \in Locators,
               AppendLocator(u, h, t, l)
        PROVE  sources[g][s].hints \subseteq sources'[g][s].hints
    <3>1. PICK r : r = Appended(sources[h][t], l)
      OBVIOUS
    <3>2. Known(h, t) /\ sources[h][t] \in Records
      BY <2>4, RecordOf DEF AppendLocator
    <3>3. r \in Records /\ sources[h][t].hints \subseteq r.hints
      BY <3>1, <3>2 DEF Appended, Records
    <3>4. sources' = [sources EXCEPT ![h][t] = r]
      BY <2>4, <3>1 DEF AppendLocator, Appended
    <3> QED BY <2>3, <3>2, <3>3, <3>4
  <2>5. ASSUME NEW u \in Hands, NEW h \in Homes, NEW t \in SourceIDs, Retire(u, h, t)
        PROVE  sources[g][s].hints \subseteq sources'[g][s].hints
    <3>1. PICK r : r = Retired(sources[h][t])
      OBVIOUS
    <3>2. Known(h, t) /\ sources[h][t] \in Records
      BY <2>5, RecordOf DEF Retire
    <3>3. r \in Records /\ sources[h][t].hints \subseteq r.hints
      BY <3>1, <3>2 DEF Retired, Records
    <3>4. sources' = [sources EXCEPT ![h][t] = r]
      BY <2>5, <3>1 DEF Retire, Retired
    <3> QED BY <2>3, <3>2, <3>3, <3>4
  <2> QED BY <2>1, <2>2, <2>4, <2>5 DEF SourcesNext, sourceVars, PlanAdd, PlanRegister,
             ListAssociations, RegisterProject, InspectClone, RegisterSource, Resolve, UseSource,
             Interrupt, MoveClone
<1> QED BY <1>1, <1>2, <1>3 DEF Current, Recognised, Matched, Remotes

\* A clone stands for the Source it is registered for, however many hands
\* publish, register, retire and resolve while clones are moved and other
\* homes are made to count: it is registered only for a Source the home that
\* counts has, a directory is attributed only to the registered clone and
\* never past one as deep that may mean another Source, and no change of a
\* record makes a sound registration stale.
THEOREM DirectoriesMeanTheirSource == ASSUME Placed PROVE SourcesSpec => CloneMeansSource
<1>1. SourcesInit => SourceInv
  BY SourceInvInit
<1>2. SourceInv /\ [SourcesNext]_sourceVars => SourceInv'
  BY SourceInvStep
<1>3. SourceInv /\ [SourcesNext]_sourceVars => MeansSource
  BY RegistersWhatIsThere, AnswersRight, FaithKept DEF MeansSource
<1> QED BY <1>1, <1>2, <1>3, PTL DEF SourcesSpec, CloneMeansSource

=============================================================================
