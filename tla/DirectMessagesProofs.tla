------------------------- MODULE DirectMessagesProofs -------------------------
(***************************************************************************)
(* Theorems about DirectMessages.  The wifi behind the direct messages is  *)
(* the one WifiManager specifies, so that what is proved of it holds here. *)
(* What the settings are rests on two things: the text of each message     *)
(* gives back what was sent (DecodesAsSent), and no restart, loss of     *)
(* power or other message changes them (KeptInv).                          *)
(*                                                                         *)
(* The first is about texts.  Two texts with a separator between them have *)
(* the pieces of the one and then those of the other (TokensJoin), so that *)
(* with each field that the app writes the text of a message has that      *)
(* field's pieces more (FieldsReadNext): as many as there are fields when  *)
(* none has a comma in it, and more otherwise, so that the ";" is not where*)
(* a handler looks for it.                                                 *)
(***************************************************************************)
EXTENDS DirectMessages, WifiManagerProofs, FiniteSetTheorems,
        WellFoundedInduction, SequenceTheorems

-----------------------------------------------------------------------------
(* The messages are those WifiManager has *)

LEMMA DirectStep == [DirectNext]_directVars => [Next]_vars
<1> SUFFICES ASSUME [DirectNext]_directVars PROVE [Next]_vars
  OBVIOUS
<1>1. ASSUME NEW cmd \in Commands, ModeMessage(cmd) PROVE Next
  <2>1. AskMode("httpd", "AP") \/ AskMode("httpd", "APSTA")
    BY <1>1 DEF ModeMessage
  <2> QED
    BY <2>1 DEF Next, Asks, Restarters, Modes
<1>2. ASSUME NEW cmd \in Commands, ApMessage(cmd) PROVE Next
  <2>1. ApOf(Received[cmd].args) \in ApConfigs
    BY <1>2, DirectAssumption DEF ApMessage, DirectAssumption
  <2>2. ApChange(ApOf(Received[cmd].args))
    BY <1>2 DEF ApMessage
  <2> QED
    BY <2>1, <2>2 DEF Next, Asks, Restarters
<1>7. ASSUME NEW cmd \in Commands, ApOverrun(cmd) PROVE Next
  <2>1. \E c \in ApOverruns : ApChange(c)
    BY <1>7 DEF ApOverrun
  <2> QED
    BY <2>1, OverrunAssumption DEF OverrunAssumption, Next, Asks, Restarters
<1>3. ASSUME NEW cmd \in Commands, StaMessage(cmd) PROVE Next
  <2>1. /\ StaOf(Received[cmd].args) \in StaConfigs
        /\ AddressesOf(Received[cmd].args) \in Ips
    BY <1>3, DirectAssumption DEF StaMessage, DirectAssumption
  <2>2. StaChange(StaOf(Received[cmd].args), AddressesOf(Received[cmd].args))
    BY <1>3 DEF StaMessage
  <2> QED
    BY <2>1, <2>2 DEF Next, Asks, Restarters
<1>8. ASSUME NEW cmd \in Commands, StaOverrun(cmd) PROVE Next
  <2>1. AddressesOf(Received[cmd].args) \in Ips
    BY <1>8, DirectAssumption DEF StaOverrun, DirectAssumption
  <2>2. \E c \in StaOverruns : StaChange(c, AddressesOf(Received[cmd].args))
    BY <1>8 DEF StaOverrun
  <2> QED
    BY <2>1, <2>2, OverrunAssumption
    DEF OverrunAssumption, Next, Asks, Restarters
<1>4. CASE DirectSaves
  BY <1>4 DEF DirectSaves, Next, Saves
<1>9. CASE DirectPowerCycle
  BY <1>9 DEF DirectPowerCycle, Next
<1>5. CASE OtherNext
  BY <1>5 DEF OtherNext, Next, Asks, Restarters, Modes
<1>6. CASE UNCHANGED directVars
  BY <1>6 DEF directVars
<1> QED
  BY <1>1, <1>2, <1>3, <1>4, <1>5, <1>6, <1>7, <1>8, <1>9 DEF DirectNext

\* Whatever the app sends, what msg_handler_wifi_mode_change and its like do to
\* the wifi is a step of WifiManager.
THEOREM DirectImplementsWifi == DirectSpec => Spec
<1>1. DirectInit => Init
  BY DEF DirectInit
<1> QED
  BY <1>1, DirectStep, PTL DEF DirectSpec, Spec

\* Behind the app's messages too, the driver is worked on by one task and a
\* wifi at rest runs with the settings in flash: restart and the direct messages.
THEOREM DirectIsSafe ==
  DirectSpec => [](RestartExclusive /\ SettingsInForce /\ HaltsOnBadSettings)
BY DirectImplementsWifi, RestartIsExclusive, SettingsAreInForce,
   HaltsOnlyOnBadSettings, PTL

-----------------------------------------------------------------------------
(* Least numbers *)

\* Every set of numbers with a member has a least one.
LEMMA LeastNumber ==
  ASSUME NEW T \in SUBSET Nat, T # {}
  PROVE  \E x \in T : \A y \in T : x <= y
<1> DEFINE Less == {ss \in Nat \X Nat : ss[1] < ss[2]}
<1>1. OpToRel(<, Nat) = Less
  BY DEF OpToRel
<1>2. PICK x \in T : \A y \in T : ~(<<y, x>> \in Less)
  BY <1>1, WFMin, NatLessThanWellFounded
<1>3. ASSUME NEW y \in T PROVE x <= y
  <2>1. <<y, x>> \in Nat \X Nat /\ <<y, x>>[1] = y /\ <<y, x>>[2] = x
    OBVIOUS
  <2>2. y < x => <<y, x>> \in Less
    BY <2>1
  <2> QED
    BY <1>2, <2>2
<1> QED
  BY <1>3

-----------------------------------------------------------------------------
(* The numbers of a finite set, in order *)

\* How many are smaller than p.
Rank(S, p) == Cardinality({q \in S : q < p})

\* A finite set has finitely many smaller ones.
LEMMA RankIsNumber ==
  ASSUME NEW S \in SUBSET Nat, IsFiniteSet(S), NEW p \in Nat
  PROVE  Rank(S, p) \in Nat /\ IsFiniteSet({q \in S : q < p})
BY FS_Subset, FS_CardinalityType DEF Rank

\* The next one has the next rank.
LEMMA RankSteps ==
  ASSUME NEW S \in SUBSET Nat, IsFiniteSet(S), NEW p \in S, NEW r \in S, p < r
  PROVE  /\ Rank(S, p) < Rank(S, r)
         /\ (\A q \in S : q <= p \/ r <= q) => Rank(S, r) = Rank(S, p) + 1
<1> DEFINE below == {q \in S : q < p}
           more == {q \in S : q < r}
<1>0. p \in Nat /\ r \in Nat /\ \A q \in S : q \in Nat
  OBVIOUS
<1>1. IsFiniteSet(below) /\ IsFiniteSet(more) /\ p \notin below
  <2>1. below \in SUBSET S /\ more \in SUBSET S
    OBVIOUS
  <2> QED
    BY <1>0, <2>1, FS_Subset
<1>2. /\ IsFiniteSet(below \cup {p})
      /\ Cardinality(below \cup {p}) = Cardinality(below) + 1
  BY <1>1, FS_AddElement
<1>3. below \cup {p} \in SUBSET more
  <2>1. ASSUME NEW q \in below PROVE q \in more
    BY <1>0
  <2> QED
    BY <2>1
<1>4. Cardinality(below \cup {p}) <= Cardinality(more)
  BY <1>1, <1>3, FS_Subset
<1>5. Cardinality(below) \in Nat /\ Cardinality(more) \in Nat
  BY <1>1, FS_CardinalityType
<1>6. ASSUME \A q \in S : q <= p \/ r <= q PROVE more = below \cup {p}
  <2>1. ASSUME NEW q \in more PROVE q \in below \cup {p}
    BY <1>0, <1>6
  <2> QED
    BY <1>3, <2>1
<1> QED
  BY <1>2, <1>4, <1>5, <1>6 DEF Rank

\* There is one of every rank.
LEMMA RankReached ==
  ASSUME NEW S \in SUBSET Nat, IsFiniteSet(S), NEW i \in 1..Cardinality(S)
  PROVE  \E p \in S : Rank(S, p) = i - 1
<1> DEFINE n == Cardinality(S)
           Missing == {k \in Nat : k < n /\ \A p \in S : Rank(S, p) # k}
<1>0. n \in Nat
  BY FS_CardinalityType
<1>1. SUFFICES ASSUME Missing # {} PROVE FALSE
  <2>1. i - 1 \in Nat /\ i - 1 < n
    BY <1>0
  <2> QED
    BY <1>1, <2>1
<1>2. PICK k \in Missing : \A j \in Missing : k <= j
  BY <1>1, LeastNumber
<1>3. k \in Nat /\ k < n
  OBVIOUS
<1>4. CASE k = 0
  <2>1. S # {}
    BY <1>3, FS_EmptySet
  <2>2. PICK p \in S : \A q \in S : p <= q
    BY <2>1, LeastNumber
  <2>3. {q \in S : q < p} = {}
    <3>1. p \in Nat /\ \A q \in S : q \in Nat
      OBVIOUS
    <3>2. ASSUME NEW q \in S, q < p PROVE FALSE
      BY <2>2, <3>1, <3>2
    <3> QED
      BY <3>2
  <2> QED
    BY <1>4, <2>3, FS_EmptySet DEF Rank
<1>5. CASE k # 0
  <2>1. k - 1 \in Nat /\ k - 1 < n /\ k - 1 \notin Missing
    BY <1>0, <1>2, <1>3, <1>5
  <2>2. PICK p \in S : Rank(S, p) = k - 1
    BY <2>1
  <2> DEFINE upTo == {q \in S : q <= p}
  <2> DEFINE below == {q \in S : q < p}
  <2>0. p \in Nat /\ \A q \in S : q \in Nat
    OBVIOUS
  <2>3. IsFiniteSet(below) /\ p \notin below
    BY <2>0, RankIsNumber
  <2>4. upTo = below \cup {p}
    <3>1. \A q \in S : q <= p <=> q < p \/ q = p
      BY <2>0
    <3> QED
      BY <3>1
  <2>5. Cardinality(upTo) = k
    <3>1. Cardinality(below) = k - 1
      BY <2>2 DEF Rank
    <3> HIDE DEF below, upTo
    <3>2. Cardinality(below \cup {p}) = Cardinality(below) + 1
      BY <2>3, FS_AddElement
    <3> QED
      BY <1>3, <2>4, <3>1, <3>2
  <2>6. S \ upTo # {}
    <3>1. upTo # S
      BY <1>3, <2>5
    <3> QED
      BY <3>1
  <2>7. PICK r \in S \ upTo : \A q \in S \ upTo : r <= q
    BY <2>6, LeastNumber
  <2>8. Rank(S, r) = Rank(S, p) + 1
    BY <2>7, RankSteps
  <2> QED
    BY <1>3, <2>2, <2>8
<1> QED
  BY <1>4, <1>5

\* And no other.
LEMMA NthIs ==
  ASSUME NEW S \in SUBSET Nat, IsFiniteSet(S), NEW p \in S, NEW i \in Nat,
         Rank(S, p) = i - 1
  PROVE  Nth(S, i) = p
<1>1. ASSUME NEW q \in S, Rank(S, q) = i - 1 PROVE q = p
  <2>1. ~(q < p) /\ ~(p < q)
    BY <1>1, RankSteps, RankIsNumber
  <2> QED
    BY <2>1
<1> QED
  BY <1>1 DEF Nth, Rank

-----------------------------------------------------------------------------
(* Pieces of a text *)

\* The piece that begins at p ends at q.
EndsAt(text, sep, p, q) ==
  /\ q \in p..Len(text)
  /\ \A i \in p..q : text[i] # sep
  /\ q < Len(text) => text[q + 1] = sep

\* A text has finitely many pieces.
LEMMA BeginsAreNumbers ==
  ASSUME NEW text \in Seq(Letters), NEW sep
  PROVE  /\ Begins(text, sep) \in SUBSET Nat /\ IsFiniteSet(Begins(text, sep))
         /\ Cardinality(Begins(text, sep)) \in Nat
<1>1. DOMAIN text = 1..Len(text) /\ Len(text) \in Nat
  OBVIOUS
<1>2. Begins(text, sep) \in SUBSET (1..Len(text))
  BY <1>1 DEF Begins
<1>3. IsFiniteSet(1..Len(text))
  BY <1>1, FS_Interval
<1>4. IsFiniteSet(Begins(text, sep))
  BY <1>2, <1>3, FS_Subset
<1> QED
  BY <1>2, <1>4, FS_CardinalityType

\* A piece ends, and in the text.
LEMMA EndReached ==
  ASSUME NEW text \in Seq(Letters), NEW sep, NEW p \in Begins(text, sep)
  PROVE  \E q \in p..Len(text) : EndsAt(text, sep, p, q)
<1>1. p \in 1..Len(text) /\ Len(text) \in Nat /\ text[p] # sep
  BY DEF Begins
<1> DEFINE T == {q \in Nat : q \in p..Len(text) /\ (q < Len(text) => text[q + 1] = sep)}
<1>2. T \in SUBSET Nat /\ Len(text) \in T
  BY <1>1
<1>3. PICK q \in T : \A r \in T : q <= r
  BY <1>2, LeastNumber
<1>4. ASSUME NEW i \in p..q PROVE text[i] # sep
  <2>1. CASE i = p
    BY <1>1, <2>1
  <2>2. CASE i # p
    <3>1. q \in Nat /\ q <= Len(text)
      BY <1>1
    <3>2. i - 1 \in Nat /\ i - 1 \in p..Len(text) /\ i - 1 < q /\ (i - 1) + 1 = i
      BY <1>1, <2>2, <3>1
    <3>3. ~(q <= i - 1)
      BY <3>1, <3>2
    <3>4. i - 1 \notin T
      BY <1>3, <3>3
    <3> QED
      BY <1>1, <3>1, <3>2, <3>4
  <2> QED
    BY <2>1, <2>2
<1> QED
  BY <1>4 DEF EndsAt

\* Out of the sight of the provers, which take SubSeq apart.
Part(text, p, q) == SubSeq(text, p, q)

\* A piece ends at one place only.
LEMMA PieceIs ==
  ASSUME NEW text \in Seq(Letters), NEW sep, NEW p \in Nat, NEW q,
         EndsAt(text, sep, p, q)
  PROVE  PieceAt(text, sep, p) = Part(text, p, q)
<1>1. Len(text) \in Nat
  OBVIOUS
<1>2. ASSUME NEW r \in p..Len(text), EndsAt(text, sep, p, r) PROVE r = q
  <2>1. q \in p..Len(text)
    BY DEF EndsAt
  <2>2. ~(q < r)
    BY <1>1, <1>2, <2>1 DEF EndsAt
  <2>3. ~(r < q)
    BY <1>1, <1>2, <2>1 DEF EndsAt
  <2> QED
    BY <1>1, <2>1, <2>2, <2>3
<1>3. q = CHOOSE r \in p..Len(text) :
            /\ \A i \in p..r : text[i] # sep
            /\ r < Len(text) => text[r + 1] = sep
  BY <1>2 DEF EndsAt
<1> QED
  BY <1>3 DEF PieceAt, Part

-----------------------------------------------------------------------------
(* Two texts put together, the first ended by a separator, the second perhaps *)

\* w is t and then u, and perhaps a separator behind them.
Joined(w, t, u, sep) ==
  /\ w \in Seq(Letters) /\ t \in Seq(Letters) /\ u \in Seq(Letters)
  /\ \A i \in 1..Len(t) : w[i] = t[i]
  /\ \A i \in 1..Len(u) : w[Len(t) + i] = u[i]
  /\ t = <<>> \/ t[Len(t)] = sep
  /\ \/ Len(w) = Len(t) + Len(u)
     \/ Len(w) = Len(t) + Len(u) + 1 /\ w[Len(w)] = sep

\* A piece of w is one of t or one of u.
LEMMA JoinedBegins ==
  ASSUME NEW w, NEW t, NEW u, NEW sep, Joined(w, t, u, sep)
  PROVE  /\ \A p \in Begins(t, sep) : p \in Begins(w, sep) /\ p <= Len(t)
         /\ \A p \in Begins(u, sep) : Len(t) + p \in Begins(w, sep)
         /\ \A r \in Begins(w, sep) :
              \/ r \in Begins(t, sep)
              \/ \E p \in Begins(u, sep) : r = Len(t) + p
<1>1. /\ Len(w) \in Nat /\ Len(t) \in Nat /\ Len(u) \in Nat
      /\ Len(w) >= Len(t) + Len(u)
  <2>1. w \in Seq(Letters) /\ t \in Seq(Letters) /\ u \in Seq(Letters)
    BY DEF Joined
  <2>2. Len(w) \in Nat /\ Len(t) \in Nat /\ Len(u) \in Nat
    BY <2>1
  <2>3. Len(w) = Len(t) + Len(u) \/ Len(w) = Len(t) + Len(u) + 1
    BY DEF Joined
  <2>4. Len(w) >= Len(t) + Len(u)
    BY <2>2, <2>3
  <2> QED
    BY <2>2, <2>4
<1>9. DOMAIN w = 1..Len(w) /\ DOMAIN t = 1..Len(t) /\ DOMAIN u = 1..Len(u)
  <2>1. w \in Seq(Letters) /\ t \in Seq(Letters) /\ u \in Seq(Letters)
    BY DEF Joined
  <2> QED
    BY <2>1
<1>0. /\ \A i \in 1..Len(t) : w[i] = t[i]
      /\ \A i \in 1..Len(u) : w[Len(t) + i] = u[i]
      /\ Len(t) > 0 => t[Len(t)] = sep
      /\ \/ Len(w) = Len(t) + Len(u)
         \/ Len(w) = Len(t) + Len(u) + 1 /\ w[Len(w)] = sep
  <2>1. Len(t) > 0 => t # <<>>
    OBVIOUS
  <2> QED
    BY <2>1 DEF Joined
<1>2. ASSUME NEW p \in 1..Len(t) PROVE p \in Begins(t, sep) <=> p \in Begins(w, sep)
  <2>1. p \in 1..Len(w)
    BY <1>1
  <2>5. w[p] = t[p]
    BY <1>0
  <2>2. p > 1 => w[p - 1] = t[p - 1]
    <3>1. p > 1 => p - 1 \in 1..Len(t)
      BY <1>1
    <3> QED
      BY <1>0, <3>1
  <2> QED
    BY <1>1, <1>9, <2>1, <2>2, <2>5 DEF Begins
<1>3. ASSUME NEW p \in 1..Len(u)
      PROVE  p \in Begins(u, sep) <=> Len(t) + p \in Begins(w, sep)
  <2>0. Len(t) + p \in 1..Len(w)
    BY <1>1
  <2>1. Len(t) + p \in 1..Len(w) /\ w[Len(t) + p] = u[p]
    BY <1>0, <2>0
  <2>2. CASE p > 1
    <3>1. /\ p - 1 \in 1..Len(u) /\ (Len(t) + p) - 1 = Len(t) + (p - 1)
          /\ Len(t) + p > 1
      BY <1>1, <2>2
    <3>2. w[(Len(t) + p) - 1] = u[p - 1]
      BY <1>0, <3>1
    <3> QED
      BY <1>9, <1>1, <2>1, <2>2, <3>1, <3>2 DEF Begins
  <2>3. CASE p = 1
    <3>1. Len(t) + p > 1 => w[(Len(t) + p) - 1] = sep
      <4>1. ASSUME Len(t) > 0 PROVE w[Len(t)] = sep
        <5>1. Len(t) \in 1..Len(t)
          BY <1>1, <4>1
        <5> QED
          BY <1>0, <4>1, <5>1
      <4>2. (Len(t) + p) - 1 = Len(t) /\ (Len(t) + p > 1 => Len(t) > 0)
        BY <1>1, <2>3
      <4> QED
        BY <4>1, <4>2
    <3> QED
      BY <1>9, <1>1, <2>1, <2>3, <3>1 DEF Begins
  <2> QED
    BY <1>1, <2>2, <2>3
<1>4. ASSUME NEW r \in Begins(w, sep)
      PROVE  r \in 1..Len(t) \/ \E p \in 1..Len(u) : r = Len(t) + p
  <2>1. r \in 1..Len(w) /\ w[r] # sep
    BY <1>9, <1>1, <1>4 DEF Begins
  <2>2. r <= Len(t) + Len(u)
    BY <1>0, <1>1, <2>1
  <2>3. ASSUME r > Len(t) PROVE r - Len(t) \in 1..Len(u) /\ r = Len(t) + (r - Len(t))
    BY <1>1, <2>1, <2>2, <2>3
  <2>4. ASSUME ~(r > Len(t)) PROVE r \in 1..Len(t)
    BY <1>1, <2>1, <2>4
  <2> QED
    BY <2>3, <2>4
<1>5. Begins(t, sep) \in SUBSET (1..Len(t)) /\ Begins(u, sep) \in SUBSET (1..Len(u))
  BY <1>1, <1>9 DEF Begins
<1>6. ASSUME NEW p \in Begins(t, sep) PROVE p \in Begins(w, sep) /\ p <= Len(t)
  BY <1>1, <1>2, <1>5
<1>7. ASSUME NEW p \in Begins(u, sep) PROVE Len(t) + p \in Begins(w, sep)
  BY <1>3, <1>5
<1>8. ASSUME NEW r \in Begins(w, sep)
      PROVE  r \in Begins(t, sep) \/ \E p \in Begins(u, sep) : r = Len(t) + p
  BY <1>2, <1>3, <1>4
<1> QED
  BY <1>6, <1>7, <1>8

\* Shifted by n.
Shifted(S, n) == {n + p : p \in S}

\* They are as many as before.
LEMMA ShiftedCount ==
  ASSUME NEW S \in SUBSET Nat, IsFiniteSet(S), NEW n \in Nat
  PROVE  /\ IsFiniteSet(Shifted(S, n)) /\ Shifted(S, n) \in SUBSET Nat
         /\ Cardinality(Shifted(S, n)) = Cardinality(S)
<1> DEFINE f == [p \in S |-> n + p]
<1>1. \A p \in S : p \in Nat
  OBVIOUS
<1>2. f \in [S -> Shifted(S, n)]
  BY DEF Shifted
<1>3. \A p, q \in S : f[p] = f[q] => p = q
  BY <1>1
<1>4. \A r \in Shifted(S, n) : \E p \in S : f[p] = r
  BY DEF Shifted
<1>5. f \in Bijection(S, Shifted(S, n))
  BY <1>2, <1>3, <1>4 DEF Bijection, Injection, Surjection, IsInjective
<1>6. ExistsBijection(S, Shifted(S, n))
  BY <1>5 DEF ExistsBijection
<1>7. Shifted(S, n) \in SUBSET Nat
  BY <1>1 DEF Shifted
<1> QED
  BY <1>6, <1>7, FS_Bijection

\* The pieces of the first keep their place, those of the second follow them.
LEMMA JoinedRanks ==
  ASSUME NEW w, NEW t, NEW u, NEW sep, Joined(w, t, u, sep)
  PROVE  /\ Cardinality(Begins(w, sep)) =
              Cardinality(Begins(t, sep)) + Cardinality(Begins(u, sep))
         /\ \A p \in Begins(t, sep) :
              Rank(Begins(w, sep), p) = Rank(Begins(t, sep), p)
         /\ \A p \in Begins(u, sep) :
              Rank(Begins(w, sep), Len(t) + p) =
                Cardinality(Begins(t, sep)) + Rank(Begins(u, sep), p)
<1> DEFINE W == Begins(w, sep)
           T == Begins(t, sep)
           U == Begins(u, sep)
           n == Len(t)
<1>1. /\ w \in Seq(Letters) /\ t \in Seq(Letters) /\ u \in Seq(Letters)
      /\ n \in Nat
  BY DEF Joined
<1>2. /\ W \in SUBSET Nat /\ IsFiniteSet(W) /\ T \in SUBSET Nat /\ IsFiniteSet(T)
      /\ U \in SUBSET Nat /\ IsFiniteSet(U)
  BY <1>1, BeginsAreNumbers
<1>3. /\ \A p \in T : p \in W /\ p <= n
      /\ \A p \in U : n + p \in W
      /\ \A r \in W : r \in T \/ \E p \in U : r = n + p
  BY JoinedBegins
<1>4. \A p \in U : p \in Nat /\ p >= 1
  BY <1>1, <1>2 DEF Begins
<1> HIDE DEF W, T, U, n
<1>5. ASSUME NEW S \in SUBSET U
      PROVE  /\ Cardinality(T \cup Shifted(S, n)) = Cardinality(T) + Cardinality(S)
             /\ Cardinality(T) \in Nat /\ Cardinality(S) \in Nat
  <2>1. IsFiniteSet(S) /\ S \in SUBSET Nat
    BY <1>2, FS_Subset
  <2>2. /\ IsFiniteSet(Shifted(S, n))
        /\ Cardinality(Shifted(S, n)) = Cardinality(S)
    BY <1>1, <2>1, ShiftedCount
  <2>3. T \cap Shifted(S, n) = {}
    <3>1. ASSUME NEW p \in S, n + p \in T PROVE FALSE
      BY <1>1, <1>3, <1>4, <3>1
    <3> QED
      BY <3>1 DEF Shifted
  <2>4. Cardinality(T) \in Nat /\ Cardinality(S) \in Nat
    BY <1>2, <2>1, FS_CardinalityType
  <2>5. Cardinality(T \cap Shifted(S, n)) = 0
    BY <2>3, FS_EmptySet
  <2>6. Cardinality(T \cup Shifted(S, n)) =
          Cardinality(T) + Cardinality(Shifted(S, n))
            - Cardinality(T \cap Shifted(S, n))
    BY <1>2, <2>2, FS_Union
  <2> QED
    BY <2>2, <2>4, <2>5, <2>6
<1>6. W = T \cup Shifted(U, n)
  BY <1>3 DEF Shifted
<1>7. Cardinality(W) = Cardinality(T) + Cardinality(U)
  BY <1>5, <1>6
<1>8. ASSUME NEW p \in T PROVE Rank(W, p) = Rank(T, p)
  <2>1. p \in Nat /\ p <= n
    BY <1>2, <1>3
  <2>2. ASSUME NEW r \in W, r < p PROVE r \in T
    <3>1. ASSUME NEW q \in U, r = n + q PROVE FALSE
      BY <1>1, <1>4, <2>1, <2>2, <3>1
    <3> QED
      BY <1>3, <3>1
  <2>3. {r \in W : r < p} = {r \in T : r < p}
    BY <1>3, <2>2
  <2> QED
    BY <2>3 DEF Rank
<1>9. ASSUME NEW p \in U
      PROVE  Rank(W, n + p) = Cardinality(T) + Rank(U, p)
  <2> DEFINE S == {q \in U : q < p}
  <2>1. ASSUME NEW r \in W, r < n + p PROVE r \in T \cup Shifted(S, n)
    <3>1. ASSUME NEW q \in U, r = n + q PROVE r \in Shifted(S, n)
      <4>1. q < p
        BY <1>1, <1>4, <2>1, <3>1
      <4> QED
        BY <3>1, <4>1 DEF Shifted
    <3> QED
      BY <1>3, <3>1
  <2>2. ASSUME NEW r \in T \cup Shifted(S, n) PROVE r \in W /\ r < n + p
    <3>1. CASE r \in T
      <4>1. r \in Nat /\ r <= n /\ p \in Nat /\ p >= 1
        BY <1>2, <1>3, <1>4, <3>1
      <4> QED
        BY <1>1, <1>3, <3>1, <4>1
    <3>2. CASE r \in Shifted(S, n)
      <4>1. PICK q \in S : r = n + q
        BY <3>2 DEF Shifted
      <4> QED
        BY <1>1, <1>3, <1>4, <4>1
    <3> QED
      BY <2>2, <3>1, <3>2
  <2>3. {r \in W : r < n + p} = T \cup Shifted(S, n)
    BY <2>1, <2>2
  <2>4. S \in SUBSET U
    OBVIOUS
  <2> HIDE DEF S
  <2>5. Cardinality({r \in W : r < n + p}) = Cardinality(T) + Cardinality(S)
    BY <1>5, <2>3, <2>4
  <2> QED
    BY <2>5 DEF Rank, S
<1> QED
  BY <1>7, <1>8, <1>9 DEF W, T, U, n

\* From p to q in w stands what from a to b stands in t.
SamePart(w, p, q, t, a, b) ==
  /\ w \in Seq(Letters) /\ t \in Seq(Letters)
  /\ p \in Nat \ {0} /\ p <= q /\ q \in Nat /\ q <= Len(w)
  /\ a \in Nat \ {0} /\ a <= b /\ b \in Nat /\ b <= Len(t)
  /\ q - p = b - a
  /\ \A i \in 1..(q - p + 1) : w[p + i - 1] = t[a + i - 1]

\* Equal stretches of two texts are equal texts.
LEMMA SameSubSeq ==
  ASSUME NEW w, NEW p, NEW q, NEW t, NEW a, NEW b, SamePart(w, p, q, t, a, b)
  PROVE  Part(w, p, q) = Part(t, a, b)
<1> USE DEF SamePart
<1>1. Len(w) \in Nat /\ Len(t) \in Nat
  OBVIOUS
<1>2. (\A i \in p..q : w[i] \in Letters) /\ (\A i \in a..b : t[i] \in Letters)
  <2>1. (\A i \in p..q : i \in 1..Len(w)) /\ (\A i \in a..b : i \in 1..Len(t))
    BY <1>1
  <2> QED
    BY <2>1
<1>3. /\ SubSeq(w, p, q) \in Seq(Letters) /\ Len(SubSeq(w, p, q)) = q - p + 1
      /\ \A i \in 1..(q - p + 1) : SubSeq(w, p, q)[i] = w[p + i - 1]
  BY <1>2, SubSeqProperties
<1>4. /\ SubSeq(t, a, b) \in Seq(Letters) /\ Len(SubSeq(t, a, b)) = b - a + 1
      /\ \A i \in 1..(b - a + 1) : SubSeq(t, a, b)[i] = t[a + i - 1]
  BY <1>2, SubSeqProperties
<1>5. q - p + 1 = b - a + 1
  OBVIOUS
<1> DEFINE x == SubSeq(w, p, q)
           y == SubSeq(t, a, b)
<1> HIDE DEF x, y
<1>6. Len(x) = Len(y) /\ \A i \in 1..Len(x) : x[i] = y[i]
  BY <1>3, <1>4, <1>5 DEF x, y
<1>7. x \in Seq(Letters) /\ y \in Seq(Letters)
  BY <1>3, <1>4 DEF x, y
<1>8. x = y
  BY <1>6, <1>7, SeqEqual
<1> QED
  BY <1>8 DEF Part, x, y

\* And it is the same piece there.
LEMMA JoinedPieces ==
  ASSUME NEW w, NEW t, NEW u, NEW sep, Joined(w, t, u, sep)
  PROVE  /\ \A p \in Begins(t, sep) : PieceAt(w, sep, p) = PieceAt(t, sep, p)
         /\ \A p \in Begins(u, sep) : PieceAt(w, sep, Len(t) + p) = PieceAt(u, sep, p)
<1> DEFINE n == Len(t)
<1>1. w \in Seq(Letters) /\ t \in Seq(Letters) /\ u \in Seq(Letters)
  BY DEF Joined
<1>2. Len(w) \in Nat /\ n \in Nat /\ Len(u) \in Nat
  BY <1>1
<1>3. /\ \A i \in 1..n : w[i] = t[i]
      /\ \A i \in 1..Len(u) : w[n + i] = u[i]
      /\ n > 0 => t[n] = sep
      /\ Len(w) = n + Len(u) \/ (Len(w) = n + Len(u) + 1 /\ w[Len(w)] = sep)
  <2>1. n > 0 => t # <<>>
    OBVIOUS
  <2> QED
    BY <2>1 DEF Joined
<1>4. Len(w) >= n + Len(u)
  BY <1>2, <1>3
<1>5. ASSUME NEW p \in Begins(t, sep)
      PROVE  PieceAt(w, sep, p) = PieceAt(t, sep, p)
  <2>1. PICK q \in p..n : EndsAt(t, sep, p, q)
    BY <1>1, EndReached
  <2>2. p \in 1..n
    BY <1>1 DEF Begins
  <2> HIDE DEF n
  <2>3. q \in Nat /\ 1 <= p /\ p <= q /\ q <= n /\ p \in Nat
    BY <1>2, <2>2
  <2>4. q # n
    <3>1. q \in p..q
      BY <2>3
    <3>2. t[q] # sep
      BY <2>1, <3>1 DEF EndsAt
    <3>3. n > 0
      BY <1>2, <2>2
    <3> QED
      BY <1>3, <3>2, <3>3
  <2>5. q < n /\ q < Len(w) /\ q \in p..Len(w) /\ q + 1 \in 1..n
    BY <1>2, <1>4, <2>3, <2>4
  <2>6. \A i \in p..q : i \in 1..n
    BY <1>2, <2>3
  <2>7. EndsAt(w, sep, p, q)
    <3>1. \A i \in p..q : w[i] # sep
      BY <1>3, <2>1, <2>6 DEF EndsAt
    <3>2. t[q + 1] = sep
      BY <2>1, <2>5 DEF EndsAt, n
    <3>3. w[q + 1] = sep
      BY <1>3, <2>5, <3>2
    <3> QED
      BY <2>5, <3>1, <3>3 DEF EndsAt
  <2>8. Part(w, p, q) = Part(t, p, q)
    <3>1. ASSUME NEW i \in 1..(q - p + 1) PROVE w[p + i - 1] = t[p + i - 1]
      <4>1. p + i - 1 \in 1..n
        BY <1>2, <2>3
      <4> QED
        BY <1>3, <4>1
    <3>2. q <= Len(w) /\ q <= Len(t)
      BY <1>2, <2>3, <2>5 DEF n
    <3>3. \A i \in 1..(q - p + 1) : w[p + i - 1] = t[p + i - 1]
      BY <3>1
    <3>4. q - p = q - p /\ 1 <= p /\ p <= q /\ p \in Nat /\ q \in Nat
      BY <2>3
    <3>5. SamePart(w, p, q, t, p, q)
      BY <1>1, <3>2, <3>3, <3>4 DEF SamePart
    <3> QED
      BY <3>5, SameSubSeq
  <2>9. PieceAt(w, sep, p) = Part(w, p, q)
    BY <1>1, <2>3, <2>7, PieceIs
  <2>10. PieceAt(t, sep, p) = Part(t, p, q)
    BY <1>1, <2>1, <2>3, PieceIs
  <2> QED
    BY <2>8, <2>9, <2>10
<1>6. ASSUME NEW p \in Begins(u, sep)
      PROVE  PieceAt(w, sep, n + p) = PieceAt(u, sep, p)
  <2>1. PICK q \in p..Len(u) : EndsAt(u, sep, p, q)
    BY <1>1, EndReached
  <2>2. p \in 1..Len(u)
    BY <1>1 DEF Begins
  <2> HIDE DEF n
  <2>3. q \in Nat /\ 1 <= p /\ p <= q /\ q <= Len(u) /\ p \in Nat
    BY <1>2, <2>2
  <2>7. EndsAt(w, sep, n + p, n + q)
    <3>1. ASSUME NEW i \in (n + p)..(n + q) PROVE w[i] # sep
      <4>1. i - n \in p..q /\ i - n \in 1..Len(u) /\ n + (i - n) = i
        BY <1>2, <2>3
      <4>2. u[i - n] # sep
        BY <2>1, <4>1 DEF EndsAt
      <4> QED
        BY <1>3, <4>1, <4>2
    <3>2. ASSUME n + q < Len(w) PROVE w[n + q + 1] = sep
      <4>1. CASE q < Len(u)
        <5>1. q + 1 \in 1..Len(u) /\ n + (q + 1) = n + q + 1
          BY <1>2, <2>3, <4>1
        <5>2. u[q + 1] = sep
          BY <2>1, <4>1 DEF EndsAt
        <5> QED
          BY <1>3, <5>1, <5>2
      <4>2. CASE q = Len(u)
        BY <1>2, <1>3, <3>2, <4>2
      <4> QED
        BY <1>2, <2>3, <4>1, <4>2
    <3>3. n + q \in (n + p)..Len(w)
      BY <1>2, <1>4, <2>3
    <3> QED
      BY <3>1, <3>2, <3>3 DEF EndsAt
  <2>8. Part(w, n + p, n + q) = Part(u, p, q)
    <3> DEFINE a == n + p
               b == n + q
    <3>1. /\ a \in Nat /\ b \in Nat /\ 1 <= a /\ a <= b /\ b <= Len(w)
          /\ b - a = q - p
      BY <1>2, <1>4, <2>3
    <3>2. ASSUME NEW i \in 1..(b - a + 1) PROVE w[a + i - 1] = u[p + i - 1]
      <4>1. p + i - 1 \in 1..Len(u) /\ n + (p + i - 1) = a + i - 1
        BY <1>2, <2>3
      <4> QED
        BY <1>3, <4>1
    <3> HIDE DEF a, b
    <3>4. \A i \in 1..(b - a + 1) : w[a + i - 1] = u[p + i - 1]
      BY <3>2
    <3>5. SamePart(w, a, b, u, p, q)
      BY <1>1, <2>3, <3>1, <3>4 DEF SamePart
    <3>3. Part(w, a, b) = Part(u, p, q)
      BY <3>5, SameSubSeq
    <3> QED
      BY <3>3 DEF a, b
  <2>9. n + p \in Nat
    BY <1>2, <2>3
  <2>10. PieceAt(w, sep, n + p) = Part(w, n + p, n + q)
    BY <1>1, <2>7, <2>9, PieceIs
  <2>11. PieceAt(u, sep, p) = Part(u, p, q)
    BY <1>1, <2>1, <2>3, PieceIs
  <2> QED
    BY <2>8, <2>10, <2>11
<1> QED
  BY <1>5, <1>6

\* The pieces of the first, then those of the second.
LEMMA TokensJoin ==
  ASSUME NEW w, NEW t, NEW u, NEW sep, Joined(w, t, u, sep)
  PROVE  /\ Len(Tokens(w, sep)) = Len(Tokens(t, sep)) + Len(Tokens(u, sep))
         /\ Len(Tokens(t, sep)) \in Nat /\ Len(Tokens(u, sep)) \in Nat
         /\ \A i \in 1..Len(Tokens(t, sep)) : Tokens(w, sep)[i] = Tokens(t, sep)[i]
         /\ \A i \in 1..Len(Tokens(u, sep)) :
              Tokens(w, sep)[Len(Tokens(t, sep)) + i] = Tokens(u, sep)[i]
<1> DEFINE W == Begins(w, sep)
           T == Begins(t, sep)
           U == Begins(u, sep)
           n == Len(t)
<1>1. w \in Seq(Letters) /\ t \in Seq(Letters) /\ u \in Seq(Letters) /\ n \in Nat
  BY DEF Joined
<1>2. /\ W \in SUBSET Nat /\ IsFiniteSet(W) /\ Cardinality(W) \in Nat
      /\ T \in SUBSET Nat /\ IsFiniteSet(T) /\ Cardinality(T) \in Nat
      /\ U \in SUBSET Nat /\ IsFiniteSet(U) /\ Cardinality(U) \in Nat
  BY <1>1, BeginsAreNumbers
<1>3. /\ \A p \in T : p \in W
      /\ \A p \in U : n + p \in W
  BY JoinedBegins
<1>4. /\ Cardinality(W) = Cardinality(T) + Cardinality(U)
      /\ \A p \in T : Rank(W, p) = Rank(T, p)
      /\ \A p \in U : Rank(W, n + p) = Cardinality(T) + Rank(U, p)
  BY JoinedRanks
<1>5. /\ \A p \in T : PieceAt(w, sep, p) = PieceAt(t, sep, p)
      /\ \A p \in U : PieceAt(w, sep, n + p) = PieceAt(u, sep, p)
  BY JoinedPieces
<1>6. /\ Tokens(w, sep) = [i \in 1..Cardinality(W) |-> PieceAt(w, sep, Nth(W, i))]
      /\ Tokens(t, sep) = [i \in 1..Cardinality(T) |-> PieceAt(t, sep, Nth(T, i))]
      /\ Tokens(u, sep) = [i \in 1..Cardinality(U) |-> PieceAt(u, sep, Nth(U, i))]
  BY DEF Tokens
<1> HIDE DEF W, T, U, n
<1>7. /\ Len(Tokens(w, sep)) = Cardinality(W)
      /\ Len(Tokens(t, sep)) = Cardinality(T)
      /\ Len(Tokens(u, sep)) = Cardinality(U)
  BY <1>2, <1>6
<1>8. ASSUME NEW i \in 1..Cardinality(T) PROVE Tokens(w, sep)[i] = Tokens(t, sep)[i]
  <2>1. PICK p \in T : Rank(T, p) = i - 1
    BY <1>2, RankReached
  <2>2. Nth(T, i) = p
    BY <1>2, <2>1, NthIs
  <2>3. Nth(W, i) = p
    BY <1>2, <1>3, <1>4, <2>1, NthIs
  <2>4. i \in 1..Cardinality(W)
    BY <1>2, <1>4
  <2> QED
    BY <1>5, <1>6, <2>2, <2>3, <2>4
<1>9. ASSUME NEW i \in 1..Cardinality(U)
      PROVE  Tokens(w, sep)[Cardinality(T) + i] = Tokens(u, sep)[i]
  <2>1. PICK p \in U : Rank(U, p) = i - 1
    BY <1>2, RankReached
  <2>2. Nth(U, i) = p
    BY <1>2, <2>1, NthIs
  <2>3. Rank(W, n + p) = (Cardinality(T) + i) - 1 /\ Cardinality(T) + i \in Nat
    BY <1>2, <1>4, <2>1
  <2>4. Nth(W, Cardinality(T) + i) = n + p
    BY <1>2, <1>3, <2>3, NthIs
  <2>5. Cardinality(T) + i \in 1..Cardinality(W)
    BY <1>2, <1>4
  <2> QED
    BY <1>5, <1>6, <2>2, <2>4, <2>5
<1> QED
  BY <1>2, <1>4, <1>7, <1>8, <1>9

-----------------------------------------------------------------------------
(* Texts without a separator in them *)

\* The whole text is its one piece.
LEMMA OnePiece ==
  ASSUME NEW u \in Seq(Letters), NEW sep, u # <<>>, \A i \in DOMAIN u : u[i] # sep
  PROVE  Len(Tokens(u, sep)) = 1 /\ Tokens(u, sep)[1] = u
<1>1. Len(u) \in Nat /\ Len(u) > 0 /\ DOMAIN u = 1..Len(u)
  OBVIOUS
<1>2. Begins(u, sep) = {1}
  <2>1. 1 \in Begins(u, sep)
    BY <1>1 DEF Begins
  <2>2. ASSUME NEW p \in Begins(u, sep) PROVE p = 1
    <3>1. p \in 1..Len(u) /\ (p > 1 => u[p - 1] = sep)
      BY <1>1 DEF Begins
    <3>2. p > 1 => p - 1 \in 1..Len(u)
      BY <1>1, <3>1
    <3> QED
      BY <1>1, <3>1, <3>2
  <2> QED
    BY <2>1, <2>2
<1>3. IsFiniteSet({1}) /\ Cardinality({1}) = 1
  BY FS_Singleton
<1>4. Rank({1}, 1) = 0
  <2>1. {q \in {1} : q < 1} = {}
    OBVIOUS
  <2> QED
    BY <2>1, FS_EmptySet DEF Rank
<1>5. Nth({1}, 1) = 1
  BY <1>3, <1>4, NthIs
<1>6. EndsAt(u, sep, 1, Len(u))
  BY <1>1 DEF EndsAt
<1>7. PieceAt(u, sep, 1) = Part(u, 1, Len(u))
  BY <1>6, PieceIs
<1>8. Part(u, 1, Len(u)) = u
  BY SubSeqFull DEF Part
<1>9. Tokens(u, sep) = [i \in 1..1 |-> PieceAt(u, sep, Nth({1}, i))]
  BY <1>2, <1>3 DEF Tokens
<1> QED
  BY <1>5, <1>7, <1>8, <1>9

\* The empty text has none.
LEMMA NoPiece ==
  ASSUME NEW sep PROVE Len(Tokens(<<>>, sep)) = 0
<1>1. Begins(<<>>, sep) = {}
  BY DEF Begins
<1>2. Tokens(<<>>, sep) = [i \in 1..0 |-> PieceAt(<<>>, sep, Nth({}, i))]
  BY <1>1, FS_EmptySet DEF Tokens
<1> QED
  BY <1>2

\* A text of one character has no other in it.
LEMMA OneSymbol ==
  ASSUME NEW c \in Letters, NEW u, u = <<c>>, NEW sep, c # sep
  PROVE  u \in Seq(Letters) /\ u # <<>> /\ \A i \in DOMAIN u : u[i] # sep
<1>1. u \in Seq(Letters) /\ u # <<>> /\ u[1] = c
  OBVIOUS
<1>2. Len(u) = 1 /\ DOMAIN u = 1..Len(u)
  OBVIOUS
<1>3. \A i \in 1..1 : i = 1
  OBVIOUS
<1> QED
  BY <1>1, <1>2, <1>3

\* The pieces are a sequence.
LEMMA TokensAreSequence ==
  ASSUME NEW text \in Seq(Letters), NEW sep
  PROVE  /\ Len(Tokens(text, sep)) \in Nat
         /\ DOMAIN Tokens(text, sep) = 1..Len(Tokens(text, sep))
         /\ Tokens(text, sep) =
              [i \in 1..Len(Tokens(text, sep)) |-> Tokens(text, sep)[i]]
<1> DEFINE m == Cardinality(Begins(text, sep))
<1>1. m \in Nat
  BY BeginsAreNumbers
<1>2. Tokens(text, sep) = [i \in 1..m |-> PieceAt(text, sep, Nth(Begins(text, sep), i))]
  BY DEF Tokens
<1> HIDE DEF m
<1> QED
  BY <1>1, <1>2

\* A text with one more character.
LEMMA CharacterAdded ==
  ASSUME NEW v \in Seq(Letters), NEW c \in Letters, NEW w, w = v \o <<c>>
  PROVE  /\ w \in Seq(Letters) /\ Len(w) = Len(v) + 1 /\ w # <<>>
         /\ w[Len(v) + 1] = c /\ w[Len(w)] = c
         /\ \A i \in 1..Len(v) : w[i] = v[i]
<1>1. <<c>> \in Seq(Letters) /\ Len(<<c>>) = 1 /\ <<c>>[1] = c
  OBVIOUS
<1>2. /\ w \in Seq(Letters) /\ Len(w) = Len(v) + 1 /\ Len(v) \in Nat
      /\ \A i \in 1..Len(v) : w[i] = v[i]
  OBVIOUS
<1>3. w[Len(v) + 1] = c
  OBVIOUS
<1> QED
  BY <1>2, <1>3

\* Two texts put together, with a separator behind them and without.
LEMMA SeparatorEnds ==
  ASSUME NEW t \in Seq(Letters), NEW u \in Seq(Letters), NEW sep \in Letters,
         t = <<>> \/ t[Len(t)] = sep
  PROVE  /\ Joined(t \o u \o <<sep>>, t, u, sep)
         /\ Joined(t \o u, t, u, sep)
<1> DEFINE v == t \o u
           w == v \o <<sep>>
<1>1. /\ v \in Seq(Letters) /\ Len(v) = Len(t) + Len(u)
      /\ Len(t) \in Nat /\ Len(u) \in Nat
      /\ \A i \in 1..Len(t) : v[i] = t[i]
      /\ \A i \in 1..Len(u) : v[Len(t) + i] = u[i]
  OBVIOUS
<1>2. Joined(v, t, u, sep)
  BY <1>1 DEF Joined
<1> HIDE DEF v
<1>0. w = v \o <<sep>>
  OBVIOUS
<1> HIDE DEF w
<1>3. /\ w \in Seq(Letters) /\ Len(w) = Len(v) + 1 /\ w[Len(v) + 1] = sep
      /\ \A i \in 1..Len(v) : w[i] = v[i]
  <2>1. ASSUME NEW y \in Seq(Letters), NEW z, z = y \o <<sep>>
        PROVE  /\ z \in Seq(Letters) /\ Len(z) = Len(y) + 1 /\ z[Len(y) + 1] = sep
               /\ \A i \in 1..Len(y) : z[i] = y[i]
    BY <2>1, CharacterAdded
  <2> QED
    BY <1>0, <1>1, <2>1, Zenon
<1>4. \A i \in 1..Len(t) : i \in 1..Len(v)
  BY <1>1
<1>5. \A i \in 1..Len(u) : Len(t) + i \in 1..Len(v)
  BY <1>1
<1>6. \A i \in 1..Len(t) : w[i] = t[i]
  BY <1>1, <1>3, <1>4
<1>7. \A i \in 1..Len(u) : w[Len(t) + i] = u[i]
  BY <1>1, <1>3, <1>5
<1>8. Len(w) = Len(t) + Len(u) + 1 /\ w[Len(w)] = sep
  BY <1>1, <1>3
<1>9. Joined(w, t, u, sep)
  BY <1>3, <1>6, <1>7, <1>8 DEF Joined
<1> QED
  BY <1>2, <1>9 DEF v, w

-----------------------------------------------------------------------------
(* The text of a message *)

\* A constant the SMT backend does not look into.
Comma == ","

\* One turn of the loop of Url, and the texts of all its turns.
FieldsTurn(cmd, f, n) ==
  IF n = 0 THEN <<cmd.code>> \o <<Comma>>
  ELSE f[n - 1] \o Field(Written(cmd)[n]) \o <<Comma>>

FieldsOf(cmd) == CHOOSE f : f = [n \in 0..Len(Written(cmd)) |-> FieldsTurn(cmd, f, n)]

\* What a turn makes of the text of the one before.
LEMMA Turns ==
  ASSUME NEW cmd, NEW f
  PROVE  /\ FieldsTurn(cmd, f, 0) = <<cmd.code>> \o <<Comma>>
         /\ \A n \in Nat \ {0} :
              FieldsTurn(cmd, f, n) = f[n - 1] \o Field(Written(cmd)[n]) \o <<Comma>>
BY DEF FieldsTurn

\* The loop is a function: by its least turn that is not.
LEMMA FieldsExist ==
  ASSUME NEW cmd, NEW m \in Nat
  PROVE  \E f : f = [n \in 0..m |-> FieldsTurn(cmd, f, n)]
<1> DEFINE Wrong == {k \in Nat : ~ \E f : f = [n \in 0..k |-> FieldsTurn(cmd, f, n)]}
<1>1. SUFFICES ASSUME Wrong # {} PROVE FALSE
  OBVIOUS
<1>2. PICK k \in Wrong : \A j \in Wrong : k <= j
  BY <1>1, LeastNumber
<1>3. k # 0
  <2> DEFINE f == [n \in 0..0 |-> <<cmd.code>> \o <<Comma>>]
  <2>1. \A n \in 0..0 : n = 0
    OBVIOUS
  <2> HIDE DEF f
  <2>2. FieldsTurn(cmd, f, 0) = <<cmd.code>> \o <<Comma>>
    BY Turns
  <2>3. f = [n \in 0..0 |-> FieldsTurn(cmd, f, n)]
    BY <2>1, <2>2 DEF f
  <2> QED
    BY <2>3
<1>4. k - 1 \in Nat /\ k - 1 \notin Wrong /\ k \in Nat
  BY <1>2, <1>3
<1>5. PICK f : f = [n \in 0..(k - 1) |-> FieldsTurn(cmd, f, n)]
  BY <1>4
<1> DEFINE g == [n \in 0..k |-> IF n = k THEN FieldsTurn(cmd, f, k) ELSE f[n]]
<1>6. ASSUME NEW n \in 0..k PROVE g[n] = FieldsTurn(cmd, g, n)
  <2>1. n = 0 \/ (n - 1 \in 0..(k - 1) /\ g[n - 1] = f[n - 1])
    BY <1>4
  <2> HIDE DEF g
  <2>2. FieldsTurn(cmd, g, n) = FieldsTurn(cmd, f, n)
    <3>1. CASE n = 0
      BY <3>1, Turns
    <3>2. CASE n # 0
      <4>1. n \in Nat \ {0}
        BY <1>4, <3>2
      <4> QED
        BY <2>1, <3>2, <4>1, Turns
    <3> QED
      BY <3>1, <3>2
  <2> USE DEF g
  <2>3. CASE n = k
    BY <2>2, <2>3
  <2>4. CASE n # k
    <3>1. n \in 0..(k - 1)
      BY <1>4, <2>4
    <3>2. f[n] = FieldsTurn(cmd, f, n)
      BY <1>5, <3>1
    <3> QED
      BY <2>2, <2>4, <3>2
  <2> QED
    BY <2>3, <2>4
<1>7. g = [n \in 0..k |-> FieldsTurn(cmd, g, n)]
  BY <1>6
<1> QED
  BY <1>7

\* Url, one turn after the other.
LEMMA FieldsAre ==
  ASSUME NEW cmd, Len(Written(cmd)) \in Nat
  PROVE  /\ FieldsOf(cmd)[0] = <<cmd.code>> \o <<Comma>>
         /\ \A n \in 1..Len(Written(cmd)) :
              FieldsOf(cmd)[n] = FieldsOf(cmd)[n - 1] \o Field(Written(cmd)[n]) \o <<Comma>>
         /\ Url(cmd) = LET text == FieldsOf(cmd)[Len(Written(cmd))] \o <<";">>
                       IN  [i \in DOMAIN text |-> Escape(text[i])]
<1> DEFINE k == Len(Written(cmd))
<1>1. \E f : f = [n \in 0..k |-> FieldsTurn(cmd, f, n)]
  BY FieldsExist
<1>2. FieldsOf(cmd) = [n \in 0..k |-> FieldsTurn(cmd, FieldsOf(cmd), n)]
  BY <1>1, Zenon DEF FieldsOf
<1>3. ASSUME NEW n \in 0..k PROVE FieldsOf(cmd)[n] = FieldsTurn(cmd, FieldsOf(cmd), n)
  BY <1>2
<1>4. FieldsOf(cmd)[0] = <<cmd.code>> \o <<Comma>>
  <2>1. 0 \in 0..k
    OBVIOUS
  <2> QED
    BY <1>3, <2>1, Turns
<1>5. ASSUME NEW n \in 1..k
      PROVE  FieldsOf(cmd)[n] = FieldsOf(cmd)[n - 1] \o Field(Written(cmd)[n]) \o <<Comma>>
  <2>1. n \in 0..k /\ n \in Nat \ {0}
    OBVIOUS
  <2> QED
    BY <1>3, <2>1, Turns
<1>6. Url(cmd) = LET text == FieldsOf(cmd)[k] \o <<";">>
                 IN  [i \in DOMAIN text |-> Escape(text[i])]
  BY Zenon DEF Url, FieldsOf, FieldsTurn, Comma
<1> QED
  BY <1>4, <1>5, <1>6

\* The decoder undoes what a form does to a character.
LEMMA AsciiOfEscape ==
  ASSUME NEW c \in Letters PROVE Ascii(Escape(c)) = c
<1>1. c \notin Encoded
  BY SymbolAssumption DEF SymbolAssumption
<1> QED
  BY <1>1 DEF Ascii, Escape, Encoded

\* So it undoes what a form does to a text of characters that it does not take.
LEMMA DecodedText ==
  ASSUME NEW text \in Seq(Letters)
  PROVE  convert_html_text_to_ascii([i \in DOMAIN text |-> Escape(text[i])]) = text
<1> DEFINE url == [i \in DOMAIN text |-> Escape(text[i])]
<1>1. DOMAIN url = DOMAIN text /\ \A i \in DOMAIN text : url[i] = Escape(text[i])
  OBVIOUS
<1>2. \A i \in DOMAIN text : text[i] \in Letters
  OBVIOUS
<1>3. \A i \in DOMAIN text : Ascii(url[i]) = text[i]
  BY <1>1, <1>2, AsciiOfEscape
<1>4. text = [i \in DOMAIN text |-> text[i]]
  OBVIOUS
<1> HIDE DEF url
<1>5. convert_html_text_to_ascii(url) = text
  BY <1>1, <1>3, <1>4 DEF convert_html_text_to_ascii
<1> QED
  BY <1>5 DEF url

\* A text that is one piece between commas.
NoComma(text) == \A i \in DOMAIN text : text[i] # Comma

\* The characters that messages and addresses are written with.
LEMMA SymbolsAre ==
  Comma \in Letters /\ ";" \in Letters /\ "." \in Letters /\ "#" \in Letters
BY SymbolAssumption DEF SymbolAssumption, Comma, Letters

-----------------------------------------------------------------------------
(* The same between commas *)

\* What strtok_r finds between commas.
Pieces(text) == Tokens(text, Comma)

\* TokensAreSequence, OnePiece and TokensJoin for them.
LEMMA PiecesAreSequence ==
  ASSUME NEW text \in Seq(Letters)
  PROVE  /\ Len(Pieces(text)) \in Nat /\ DOMAIN Pieces(text) = 1..Len(Pieces(text))
         /\ Pieces(text) = [i \in 1..Len(Pieces(text)) |-> Pieces(text)[i]]
BY TokensAreSequence, Zenon DEF Pieces

LEMMA PieceAlone ==
  ASSUME NEW u \in Seq(Letters), u # <<>>, NoComma(u)
  PROVE  Len(Pieces(u)) = 1 /\ Pieces(u)[1] = u
BY OnePiece, Zenon DEF Pieces, NoComma

LEMMA PiecesJoined ==
  ASSUME NEW t \in Seq(Letters), NEW u \in Seq(Letters),
         t = <<>> \/ t[Len(t)] = Comma,
         NEW w, w = t \o u \/ w = t \o u \o <<Comma>>
  PROVE  /\ Len(Pieces(w)) = Len(Pieces(t)) + Len(Pieces(u))
         /\ Len(Pieces(t)) \in Nat /\ Len(Pieces(u)) \in Nat
         /\ \A i \in 1..Len(Pieces(t)) : Pieces(w)[i] = Pieces(t)[i]
         /\ \A i \in 1..Len(Pieces(u)) : Pieces(w)[Len(Pieces(t)) + i] = Pieces(u)[i]
<1>1. Comma \in Letters
  BY SymbolsAre
<1>2. Joined(t \o u \o <<Comma>>, t, u, Comma) /\ Joined(t \o u, t, u, Comma)
  BY <1>1, SeparatorEnds
<1>3. Joined(w, t, u, Comma)
  <2>1. CASE w = t \o u
    BY <1>2, <2>1
  <2>2. CASE w = t \o u \o <<Comma>>
    BY <1>2, <2>2
  <2> QED
    BY <2>1, <2>2
<1> QED
  BY <1>3, TokensJoin DEF Pieces

\* What may be typed, in the same words.
LEMMA TypeableIs ==
  ASSUME NEW u, Typeable(u)
  PROVE  /\ u \in Seq(Letters)
         /\ u # <<>> => Pieces(u) = <<u>> \/ Len(Pieces(u)) > 1
         /\ \A i \in DOMAIN Pieces(u) : Pieces(u)[i][1] # ";"
BY Zenon DEF Typeable, Pieces, Comma

\* A field has a piece at least, and if it has no more, that is the field.
LEMMA FieldPieces ==
  ASSUME NEW typed, Typeable(typed)
  PROVE  /\ Field(typed) \in Seq(Letters)
         /\ Len(Pieces(Field(typed))) \in Nat /\ Len(Pieces(Field(typed))) >= 1
         /\ Len(Pieces(Field(typed))) = 1 => Pieces(Field(typed))[1] = Field(typed)
         /\ NoComma(typed) => Len(Pieces(Field(typed))) = 1
         /\ \A j \in 1..Len(Pieces(Field(typed))) : Pieces(Field(typed))[j][1] # ";"
<1>1. typed \in Seq(Letters)
  BY TypeableIs
<1>2. CASE typed = <<>>
  <2> DEFINE u == <<"#">>
  <2>1. u \in Seq(Letters) /\ u # <<>> /\ u[1] = "#" /\ "#" # ";"
    <3>1. "#" \in Letters /\ "#" # ";"
      BY SymbolsAre
    <3> QED
      BY <3>1
  <2>2. NoComma(u)
    <3>1. "#" \in Letters /\ "#" # Comma
      BY SymbolsAre DEF Comma
    <3> QED
      BY <3>1, OneSymbol DEF NoComma
  <2>3. Field(typed) = u
    BY <1>2 DEF Field
  <2> HIDE DEF u
  <2>4. Len(Pieces(u)) = 1 /\ Pieces(u)[1] = u
    BY <2>1, <2>2, PieceAlone
  <2>5. \A j \in 1..1 : j = 1
    OBVIOUS
  <2>6. \A j \in 1..Len(Pieces(u)) : Pieces(u)[j][1] # ";"
    BY <2>1, <2>4, <2>5
  <2>7. Len(Pieces(u)) \in Nat /\ Len(Pieces(u)) >= 1
    BY <2>4
  <2> QED
    BY <2>1, <2>3, <2>4, <2>6, <2>7, Zenon
<1>3. CASE typed # <<>>
  <2>1. Field(typed) = typed
    BY <1>3 DEF Field
  <2>2. Len(Pieces(typed)) \in Nat /\ DOMAIN Pieces(typed) = 1..Len(Pieces(typed))
    BY <1>1, PiecesAreSequence
  <2>3. /\ Pieces(typed) = <<typed>> \/ Len(Pieces(typed)) > 1
        /\ \A j \in 1..Len(Pieces(typed)) : Pieces(typed)[j][1] # ";"
    BY <1>3, <2>2, TypeableIs
  <2>4. Len(<<typed>>) = 1 /\ <<typed>>[1] = typed
    OBVIOUS
  <2>5. NoComma(typed) => Len(Pieces(typed)) = 1
    BY <1>1, <1>3, PieceAlone
  <2>6. Len(Pieces(typed)) >= 1 /\ (Len(Pieces(typed)) = 1 => Pieces(typed)[1] = typed)
    <3>1. CASE Pieces(typed) = <<typed>>
      BY <2>4, <3>1
    <3>2. CASE Len(Pieces(typed)) > 1
      BY <2>2, <3>2
    <3> QED
      BY <2>3, <3>1, <3>2
  <2> QED
    BY <1>1, <2>1, <2>2, <2>3, <2>5, <2>6
<1> QED
  BY <1>2, <1>3

\* After n fields the text has a piece for its code and one for each field, and
\* more only if a field has a comma in it.
PiecesOf(cmd, n) == Pieces(FieldsOf(cmd)[n])

FieldsRead(cmd, n) ==
  LET text   == FieldsOf(cmd)[n]
      pieces == PiecesOf(cmd, n)
  IN  /\ text \in Seq(Letters) /\ text # <<>> /\ text[Len(text)] = Comma
      /\ Len(pieces) \in Nat /\ Len(pieces) >= n + 1
      /\ pieces[1] = <<cmd.code>>
      /\ \A j \in 2..Len(pieces) : pieces[j][1] # ";"
      /\ Len(pieces) = n + 1 => \A k \in 1..n : pieces[k + 1] = Field(Written(cmd)[k])
      /\ (\A k \in 1..n : NoComma(Written(cmd)[k])) => Len(pieces) = n + 1

\* What the app writes its messages from.
LEMMA CommandsAre ==
  ASSUME NEW cmd \in Commands
  PROVE  /\ cmd.code \in Letters /\ cmd.code # Comma
         /\ Written(cmd) \in Seq(Seq(Letters)) /\ Len(Written(cmd)) \in Nat
         /\ \A i \in 1..Len(Written(cmd)) : Typeable(Written(cmd)[i])
         /\ FieldsTyped(cmd)
<1>4. cmd.code \in Letters
  BY AppAssumption DEF AppAssumption, Letters
<1>1. /\ cmd.code \in Letters /\ cmd.code # Comma
      /\ Written(cmd) \in Seq(Seq(Letters))
      /\ \A i \in DOMAIN Written(cmd) : Typeable(Written(cmd)[i])
      /\ FieldsTyped(cmd)
  BY AppAssumption, <1>4, Zenon DEF AppAssumption, Comma
<1> DEFINE typed == Written(cmd)
<1>2. typed \in Seq(Seq(Letters))
  BY <1>1
<1> HIDE DEF typed
<1>3. DOMAIN typed = 1..Len(typed) /\ Len(typed) \in Nat
  BY <1>2
<1> QED
  BY <1>1, <1>3, Zenon DEF typed

\* Before the first field there is the code and its comma.
LEMMA FieldsReadFirst ==
  ASSUME NEW cmd \in Commands PROVE FieldsRead(cmd, 0)
<1> DEFINE u == <<cmd.code>>
           text == u \o <<Comma>>
<1>1. cmd.code \in Letters /\ cmd.code # Comma /\ Len(Written(cmd)) \in Nat
  BY CommandsAre
<1>2. u \in Seq(Letters) /\ Len(u) = 1 /\ u # <<>> /\ NoComma(u)
  BY <1>1, OneSymbol DEF NoComma
<1>4. FieldsOf(cmd)[0] = text
  BY <1>1, FieldsAre
<1>5. <<>> \in Seq(Letters)
  OBVIOUS
<1> HIDE DEF u
<1>6. <<>> \o u = u
  BY <1>2
<1>7. text = <<>> \o u \o <<Comma>>
  BY <1>6
<1>14. text = u \o <<Comma>> /\ Comma \in Letters
  BY SymbolsAre
<1> HIDE DEF text
<1>8. text \in Seq(Letters) /\ text # <<>> /\ text[Len(text)] = Comma
  BY <1>2, <1>14, CharacterAdded
<1>9. Len(Pieces(u)) = 1 /\ Pieces(u)[1] = u
  BY <1>2, PieceAlone
<1>10. Len(Pieces(<<>>)) = 0
  BY NoPiece, Zenon DEF Pieces
<1>11. /\ Len(Pieces(text)) = Len(Pieces(<<>>)) + Len(Pieces(u))
       /\ \A i \in 1..Len(Pieces(u)) : Pieces(text)[Len(Pieces(<<>>)) + i] = Pieces(u)[i]
  BY <1>2, <1>5, <1>7, PiecesJoined
<1>12. Len(Pieces(text)) = 1 /\ Pieces(text)[1] = u
  <2>1. Pieces(text)[0 + 1] = Pieces(u)[1]
    BY <1>9, <1>10, <1>11
  <2> QED
    BY <1>9, <1>10, <1>11, <2>1
<1>13. FieldsOf(cmd)[0] = text /\ PiecesOf(cmd, 0) = Pieces(text)
  BY <1>4 DEF PiecesOf
<1> QED
  <2>1. /\ Len(Pieces(text)) \in Nat /\ Len(Pieces(text)) >= 0 + 1
        /\ Len(Pieces(text)) = 0 + 1 /\ Pieces(text)[1] = <<cmd.code>>
    BY <1>12 DEF u
  <2>2. (\A j \in 2..Len(Pieces(text)) : FALSE) /\ (\A k \in 1..0 : FALSE)
    BY <1>12
  <2> QED
    BY <1>8, <1>13, <2>1, <2>2, Zenon DEF FieldsRead

\* A text with one more field, and the pieces of it.
LEMMA FieldAdded ==
  ASSUME NEW t \in Seq(Letters), t # <<>>, t[Len(t)] = Comma, NEW u \in Seq(Letters)
  PROVE  /\ t \o u \o <<Comma>> \in Seq(Letters) /\ t \o u \o <<Comma>> # <<>>
         /\ (t \o u \o <<Comma>>)[Len(t \o u \o <<Comma>>)] = Comma
         /\ Len(Pieces(t \o u \o <<Comma>>)) = Len(Pieces(t)) + Len(Pieces(u))
         /\ \A i \in 1..Len(Pieces(t)) :
              Pieces(t \o u \o <<Comma>>)[i] = Pieces(t)[i]
         /\ \A i \in 1..Len(Pieces(u)) :
              Pieces(t \o u \o <<Comma>>)[Len(Pieces(t)) + i] = Pieces(u)[i]
<1> DEFINE v == t \o u
           w == v \o <<Comma>>
<1>1. v \in Seq(Letters) /\ Comma \in Letters
  <2>1. v \in Seq(Letters)
    OBVIOUS
  <2> QED
    BY <2>1, SymbolsAre, Zenon
<1>2. w = t \o u \o <<Comma>> /\ w = v \o <<Comma>>
  OBVIOUS
<1> HIDE DEF v, w
<1>3. w \in Seq(Letters) /\ w # <<>> /\ w[Len(w)] = Comma
  BY <1>1, <1>2, CharacterAdded
<1>4. /\ Len(Pieces(w)) = Len(Pieces(t)) + Len(Pieces(u))
      /\ \A i \in 1..Len(Pieces(t)) : Pieces(w)[i] = Pieces(t)[i]
      /\ \A i \in 1..Len(Pieces(u)) : Pieces(w)[Len(Pieces(t)) + i] = Pieces(u)[i]
  <2>1. Joined(w, t, u, Comma)
    BY <1>1, <1>2, SeparatorEnds, Zenon
  <2> QED
    BY <2>1, TokensJoin DEF Pieces
<1> QED
  BY <1>2, <1>3, <1>4, Zenon

\* The pieces P of a text that ends with its n-th field are those before the field,
\* Q, and those of the field, R.
WithField(P, Q, R, n, code, semi, f) ==
  /\ n \in Nat \ {0}
  /\ Len(Q) \in Nat /\ Len(Q) >= n /\ Len(R) \in Nat /\ Len(R) >= 1
  /\ Len(P) = Len(Q) + Len(R)
  /\ \A i \in 1..Len(Q) : P[i] = Q[i]
  /\ \A i \in 1..Len(R) : P[Len(Q) + i] = R[i]
  /\ Q[1] = code
  /\ \A j \in 2..Len(Q) : Q[j][1] # semi
  /\ \A j \in 1..Len(R) : R[j][1] # semi
  /\ Len(Q) = n => \A k \in 1..(n - 1) : Q[k + 1] = f[k]
  /\ Len(R) = 1 => R[1] = f[n]

\* A piece for the code, and one or more for each of n fields.
HasFields(P, n, code, semi, f) ==
  /\ Len(P) \in Nat /\ Len(P) >= n + 1 /\ P[1] = code
  /\ \A j \in 2..Len(P) : P[j][1] # semi
  /\ Len(P) = n + 1 => \A k \in 1..n : P[k + 1] = f[k]

\* So there is one or more for that field too.
LEMMA PiecesAdded ==
  ASSUME NEW P, NEW Q, NEW R, NEW n, NEW code, NEW semi, NEW f,
         WithField(P, Q, R, n, code, semi, f)
  PROVE  HasFields(P, n, code, semi, f)
<1> DEFINE p == Len(P)
           q == Len(Q)
           r == Len(R)
<1>1. n \in Nat \ {0} /\ q \in Nat /\ q >= n /\ r \in Nat /\ r >= 1 /\ p = q + r
  BY DEF WithField
<1>2. /\ \A i \in 1..q : P[i] = Q[i]
      /\ \A i \in 1..r : P[q + i] = R[i]
  BY DEF WithField
<1>3. /\ Q[1] = code
      /\ \A j \in 2..q : Q[j][1] # semi
      /\ \A j \in 1..r : R[j][1] # semi
  BY DEF WithField
<1>4. /\ q = n => \A k \in 1..(n - 1) : Q[k + 1] = f[k]
      /\ r = 1 => R[1] = f[n]
  BY DEF WithField
<1> HIDE DEF p, q, r
<1>7. p \in Nat /\ p >= n + 1 /\ P[1] = code
  <2>1. 1 \in 1..q
    BY <1>1
  <2> QED
    BY <1>1, <1>2, <1>3, <2>1
<1>8. ASSUME NEW j \in 2..p PROVE P[j][1] # semi
  <2>1. CASE j <= q
    BY <1>1, <1>2, <1>3, <2>1
  <2>2. CASE j > q
    <3>1. j - q \in 1..r /\ q + (j - q) = j
      BY <1>1, <2>2
    <3>2. P[j] = R[j - q]
      BY <1>2, <3>1
    <3> QED
      BY <1>3, <3>1, <3>2
  <2> QED
    BY <1>1, <2>1, <2>2
<1>9. ASSUME p = n + 1, NEW k \in 1..n PROVE P[k + 1] = f[k]
  <2>1. q = n /\ r = 1
    BY <1>1, <1>9
  <2>2. CASE k = n
    <3>1. 1 \in 1..r
      BY <2>1
    <3>2. P[q + 1] = R[1]
      BY <1>2, <3>1
    <3> QED
      BY <1>1, <1>4, <2>1, <2>2, <3>2
  <2>3. CASE k # n
    <3>1. k \in 1..(n - 1) /\ k + 1 \in 1..q
      BY <1>1, <2>1, <2>3
    <3> QED
      BY <1>2, <1>4, <2>1, <3>1
  <2> QED
    BY <2>2, <2>3
<1> QED
  BY <1>7, <1>8, <1>9 DEF HasFields, p, q, r

\* With each field the text has its pieces more.
LEMMA FieldsReadNext ==
  ASSUME NEW cmd \in Commands, NEW n \in Nat \ {0}, n <= Len(Written(cmd)),
         FieldsRead(cmd, n - 1)
  PROVE  FieldsRead(cmd, n)
<1> DEFINE t == FieldsOf(cmd)[n - 1]
           u == Field(Written(cmd)[n])
           w == t \o u \o <<Comma>>
           P == Pieces(w)
           Q == Pieces(t)
           R == Pieces(u)
           f == [k \in 1..n |-> Field(Written(cmd)[k])]
           Plain(k) == NoComma(Written(cmd)[k])
<1>1. n \in 1..Len(Written(cmd)) /\ Len(Written(cmd)) \in Nat
  BY CommandsAre
<1>2. FieldsOf(cmd)[n] = w
  BY <1>1, FieldsAre
<1>3. (n - 1) + 1 = n /\ n \in 1..n /\ \A k \in 1..(n - 1) : k \in 1..n
  OBVIOUS
<1>4. \A k \in 1..n : f[k] = Field(Written(cmd)[k])
  OBVIOUS
<1>5. Typeable(Written(cmd)[n])
  BY <1>1, CommandsAre
<1> HIDE DEF f
<1>6. /\ t \in Seq(Letters) /\ t # <<>> /\ t[Len(t)] = Comma
      /\ Len(Q) \in Nat /\ Len(Q) >= n
      /\ Q[1] = <<cmd.code>>
      /\ \A j \in 2..Len(Q) : Q[j][1] # ";"
      /\ Len(Q) = n => \A k \in 1..(n - 1) : Q[k + 1] = f[k]
      /\ (\A k \in 1..(n - 1) : Plain(k)) => Len(Q) = n
  BY <1>3, <1>4, Zenon DEF FieldsRead, PiecesOf
<1>7. /\ u \in Seq(Letters)
      /\ Len(R) \in Nat /\ Len(R) >= 1
      /\ Len(R) = 1 => R[1] = f[n]
      /\ \A j \in 1..Len(R) : R[j][1] # ";"
      /\ Plain(n) => Len(R) = 1
  BY <1>3, <1>4, <1>5, FieldPieces, Zenon
<1>8. /\ w \in Seq(Letters) /\ w # <<>> /\ w[Len(w)] = Comma
      /\ Len(P) = Len(Q) + Len(R)
      /\ \A i \in 1..Len(Q) : P[i] = Q[i]
      /\ \A i \in 1..Len(R) : P[Len(Q) + i] = R[i]
  BY <1>6, <1>7, FieldAdded, Zenon
<1>9. PiecesOf(cmd, n) = P
  BY <1>2 DEF PiecesOf
<1> HIDE DEF t, u, w, P, Q, R
<1>10. /\ Len(P) \in Nat /\ Len(P) >= n + 1 /\ P[1] = <<cmd.code>>
       /\ \A j \in 2..Len(P) : P[j][1] # ";"
       /\ Len(P) = n + 1 => \A k \in 1..n : P[k + 1] = f[k]
  <2> DEFINE code == <<cmd.code>>
             semi == ";"
  <2>1. WithField(P, Q, R, n, code, semi, f)
    BY <1>6, <1>7, <1>8, Zenon DEF WithField
  <2> HIDE DEF code, semi
  <2>2. HasFields(P, n, code, semi, f)
    BY <2>1, PiecesAdded, Zenon
  <2> QED
    BY <2>2, Zenon DEF HasFields, code, semi
<1>11. Len(Q) = n /\ Len(R) = 1 => Len(P) = n + 1
  BY <1>8
<1>12. (\A k \in 1..n : Plain(k)) => Len(P) = n + 1
  BY <1>3, <1>6, <1>7, <1>11, Zenon
<1> QED
  BY <1>2, <1>4, <1>8, <1>9, <1>10, <1>12, Zenon DEF FieldsRead

\* After the last one it has those of all: by the least number of fields for which
\* it had not.
LEMMA AllFieldsRead ==
  ASSUME NEW cmd \in Commands PROVE FieldsRead(cmd, Len(Written(cmd)))
<1> DEFINE m == Len(Written(cmd))
           Wrong == {n \in Nat : n <= m /\ ~FieldsRead(cmd, n)}
<1>1. m \in Nat
  BY CommandsAre
<1> HIDE DEF m
<1>2. SUFFICES ASSUME Wrong # {} PROVE FALSE
  BY <1>1 DEF m
<1>3. PICK n \in Wrong : \A j \in Wrong : n <= j
  <2>1. Wrong \in SUBSET Nat
    OBVIOUS
  <2> HIDE DEF Wrong
  <2> QED
    BY <1>2, <2>1, LeastNumber
<1>4. n # 0
  BY FieldsReadFirst
<1>5. n \in Nat \ {0} /\ n <= Len(Written(cmd)) /\ n - 1 \in Nat
  BY <1>4 DEF m
<1>6. n - 1 \notin Wrong
  BY <1>3, <1>5
<1>7. FieldsRead(cmd, n - 1)
  BY <1>1, <1>5, <1>6 DEF m
<1> QED
  BY <1>5, <1>7, FieldsReadNext

-----------------------------------------------------------------------------
(* The arguments of a message *)

\* A text with one more character that no comma ends.
LEMMA EndAdded ==
  ASSUME NEW t \in Seq(Letters), t # <<>>, t[Len(t)] = Comma,
         NEW c \in Letters, c # Comma
  PROVE  /\ t \o <<c>> \in Seq(Letters)
         /\ Len(Pieces(t \o <<c>>)) = Len(Pieces(t)) + 1
         /\ \A i \in 1..Len(Pieces(t)) : Pieces(t \o <<c>>)[i] = Pieces(t)[i]
         /\ Pieces(t \o <<c>>)[Len(Pieces(t)) + 1] = <<c>>
<1> DEFINE u == <<c>>
           w == t \o u
<1>1. u \in Seq(Letters) /\ u # <<>> /\ NoComma(u)
  BY OneSymbol DEF NoComma
<1>2. w \in Seq(Letters)
  BY <1>1
<1>3. Len(Pieces(u)) = 1 /\ Pieces(u)[1] = u
  <2> HIDE DEF u
  <2> QED
    BY <1>1, PieceAlone
<1>4. w = t \o u
  OBVIOUS
<1> HIDE DEF u, w
<1>5. /\ Len(Pieces(w)) = Len(Pieces(t)) + Len(Pieces(u))
      /\ \A i \in 1..Len(Pieces(t)) : Pieces(w)[i] = Pieces(t)[i]
      /\ \A i \in 1..Len(Pieces(u)) : Pieces(w)[Len(Pieces(t)) + i] = Pieces(u)[i]
  <2>1. Comma \in Letters
    BY SymbolsAre
  <2>2. Joined(w, t, u, Comma)
    BY <1>1, <1>4, <2>1, SeparatorEnds, Zenon
  <2> QED
    BY <2>2, TokensJoin DEF Pieces
<1>6. Len(Pieces(w)) = Len(Pieces(t)) + 1 /\ Pieces(w)[Len(Pieces(t)) + 1] = u
  <2>1. 1 \in 1..Len(Pieces(u))
    BY <1>3
  <2> QED
    BY <1>3, <1>5, <2>1
<1> QED
  BY <1>2, <1>5, <1>6, Zenon DEF u, w

\* The first piece is the code, and the arguments are the others.
LEMMA TailIs ==
  ASSUME NEW s, NEW m \in Nat \ {0}, Len(s) = m, s = [i \in 1..m |-> s[i]]
  PROVE  Len(Tail(s)) = m - 1 /\ \A i \in 1..(m - 1) : Tail(s)[i] = s[i + 1]
<1> DEFINE S == {s[i] : i \in 1..m}
<1>1. s \in Seq(S) /\ s # <<>>
  <2>1. \A i \in 1..m : s[i] \in S
    OBVIOUS
  <2> HIDE DEF S
  <2>2. [i \in 1..m |-> s[i]] \in Seq(S)
    BY <2>1
  <2> QED
    BY <2>2
<1> HIDE DEF S
<1> QED
  BY <1>1, HeadTailProperties

\* What direct_msg_handler hands to the handlers.
ArgsRead(cmd, args) ==
  /\ Len(args) \in Nat /\ Len(args) >= Len(Written(cmd)) + 1
  /\ \A i \in 1..(Len(args) - 1) : args[i][1] # ";"
  /\ args[Len(args)] = <<";">>
  /\ Len(args) = Len(Written(cmd)) + 1 =>
       \A k \in 1..Len(Written(cmd)) : args[k] = Field(Written(cmd)[k])
  /\ (\A k \in 1..Len(Written(cmd)) : NoComma(Written(cmd)[k])) =>
       Len(args) = Len(Written(cmd)) + 1

\* The pieces of the URL, decoded, are those of the text with the ";" at its end.
LEMMA ArgsAreRead ==
  ASSUME NEW cmd \in Commands PROVE ArgsRead(cmd, Received[cmd].args)
<1> DEFINE n == Len(Written(cmd))
           t == FieldsOf(cmd)[n]
           semi == ";"
           w == t \o <<semi>>
           Q == Pieces(t)
           P == Pieces(w)
           f == [k \in 1..n |-> Field(Written(cmd)[k])]
           Plain == \A k \in 1..n : NoComma(Written(cmd)[k])
           args == Tail(P)
<1>1. n \in Nat
  BY CommandsAre
<1>2. FieldsRead(cmd, n)
  BY AllFieldsRead
<1>3. semi \in Letters /\ semi # Comma
  BY SymbolsAre DEF Comma
<1>4. Url(cmd) = [i \in DOMAIN w |-> Escape(w[i])]
  BY <1>1, FieldsAre
<1>5. \A k \in 1..n : f[k] = Field(Written(cmd)[k])
  OBVIOUS
<1> HIDE DEF f
<1>6. /\ t \in Seq(Letters) /\ t # <<>> /\ t[Len(t)] = Comma
      /\ Len(Q) \in Nat /\ Len(Q) >= n + 1
      /\ \A j \in 2..Len(Q) : Q[j][1] # semi
      /\ Len(Q) = n + 1 => \A k \in 1..n : Q[k + 1] = f[k]
      /\ Plain => Len(Q) = n + 1
  BY <1>2, <1>5, Zenon DEF FieldsRead, PiecesOf
<1> HIDE DEF n, t, semi, Q
<1>7. /\ w \in Seq(Letters)
      /\ Len(P) = Len(Q) + 1
      /\ \A i \in 1..Len(Q) : P[i] = Q[i]
      /\ P[Len(Q) + 1] = <<semi>>
  BY <1>3, <1>6, EndAdded, Zenon DEF Q
<1>8. Received[cmd].args = args
  <2>1. convert_html_text_to_ascii(Url(cmd)) = w
    BY <1>4, <1>7, DecodedText, Zenon
  <2>2. Received[cmd] = Parsed(Url(cmd))
    BY DEF Received
  <2>3. Parsed(Url(cmd)).args = Tail(Tokens(w, ","))
    BY <2>1, Zenon DEF Parsed
  <2> QED
    BY <2>2, <2>3, Zenon DEF Pieces, Comma
<1>9. P = [i \in 1..Len(P) |-> P[i]]
  BY <1>7, PiecesAreSequence, Zenon
<1> DEFINE q == Len(Q)
<1>10. q \in Nat /\ q >= n + 1
  BY <1>6
<1>11. Len(args) = q /\ \A i \in 1..q : args[i] = P[i + 1]
  <2> DEFINE m == q + 1
  <2>1. m \in Nat \ {0} /\ m - 1 = q
    BY <1>10
  <2>2. Len(P) = m
    BY <1>7
  <2> HIDE DEF P, m, q
  <2>3. Len(Tail(P)) = m - 1 /\ \A i \in 1..(m - 1) : Tail(P)[i] = P[i + 1]
    BY <1>9, <2>1, <2>2, TailIs
  <2> QED
    BY <2>1, <2>3
<1> HIDE DEF args, P, q, Plain
<1>12. \A i \in 1..q : P[i] = Q[i]
  BY <1>7 DEF q
<1>13. ASSUME NEW i \in 1..(q - 1) PROVE args[i] = Q[i + 1] /\ i + 1 \in 2..q
  <2>1. i \in 1..q /\ i + 1 \in 1..q /\ i + 1 \in 2..q
    BY <1>10
  <2> QED
    BY <1>11, <1>12, <2>1
<1>14. args[q] = <<semi>>
  <2>1. q \in 1..q
    BY <1>1, <1>10
  <2> QED
    BY <1>7, <1>11, <2>1 DEF q
<1>15. \A i \in 1..(q - 1) : args[i][1] # semi
  BY <1>6, <1>13, Zenon DEF q
<1>16. ASSUME q = n + 1, NEW k \in 1..n PROVE args[k] = Field(Written(cmd)[k])
  <2>1. k \in 1..(q - 1)
    BY <1>1, <1>16
  <2>2. args[k] = Q[k + 1]
    BY <1>13, <2>1
  <2>3. Q[k + 1] = f[k]
    BY <1>6, <1>16, Zenon DEF q
  <2> QED
    BY <1>5, <2>2, <2>3
<1>17. Plain => q = n + 1
  BY <1>6, Zenon DEF q
<1> QED
  BY <1>8, <1>10, <1>11, <1>14, <1>15, <1>16, <1>17, Zenon DEF ArgsRead, n, semi, Plain

\* A message that ends after its last field has the fields that were typed.
FieldsGiven(cmd, args, n) ==
  /\ Ends(args, n) => \A k \in 1..n : args[k] = Field(Written(cmd)[k])
  /\ (\A k \in 1..n : NoComma(Written(cmd)[k])) => Ends(args, n)

\* A ";" ends the arguments: no field but the last one begins with it.
LEMMA MessageRead ==
  ASSUME NEW cmd \in Commands, NEW args, args = Received[cmd].args,
         NEW n, n = Len(Written(cmd))
  PROVE  FieldsGiven(cmd, args, n)
<1> DEFINE a == Len(args)
           semi == ";"
           Plain == \A k \in 1..n : NoComma(Written(cmd)[k])
<1>0. n \in Nat
  BY CommandsAre
<1>1. ArgsRead(cmd, args)
  BY ArgsAreRead
<1>2. /\ a \in Nat /\ a >= n + 1
      /\ \A i \in 1..(a - 1) : args[i][1] # semi
      /\ args[a] = <<semi>>
  BY <1>1, Zenon DEF ArgsRead
<1>3. a = n + 1 => \A k \in 1..n : args[k] = Field(Written(cmd)[k])
  BY <1>1, Zenon DEF ArgsRead
<1>4. Plain => a = n + 1
  BY <1>1, Zenon DEF ArgsRead
<1>5. Ends(args, n) <=> args[n + 1][1] = semi
  BY Zenon DEF Ends
<1> HIDE DEF a, semi, Plain
<1>6. ASSUME args[n + 1][1] = semi PROVE a = n + 1
  <2>1. n + 1 \in 1..(a - 1) \/ a = n + 1
    BY <1>0, <1>2
  <2> QED
    BY <1>2, <1>6, <2>1
<1>7. ASSUME a = n + 1 PROVE args[n + 1][1] = semi
  BY <1>2, <1>7
<1> QED
  BY <1>3, <1>4, <1>5, <1>6, <1>7, Zenon DEF Plain, FieldsGiven

-----------------------------------------------------------------------------
(* Addresses *)

\* Another constant that is not looked into.
Dot == "."

\* The first m symbols.
Prefix(text, m) == [i \in 1..m |-> text[i]]

\* One more number, and perhaps the dot behind it.
LEMMA PrefixJoined ==
  ASSUME NEW text \in Seq(Letters), NEW sep, NEW m \in Nat, NEW k \in Nat,
         k = m + 1 \/ k = m + 2, k <= Len(text),
         m > 0 => text[m] = sep, k = m + 2 => text[k] = sep
  PROVE  Joined(Prefix(text, k), Prefix(text, m), <<text[m + 1]>>, sep)
<1> DEFINE w == Prefix(text, k)
           t == Prefix(text, m)
           u == <<text[m + 1]>>
<1>1. \A i \in 1..k : text[i] \in Letters
  OBVIOUS
<1>2. w \in Seq(Letters) /\ Len(w) = k /\ \A i \in 1..k : w[i] = text[i]
  BY <1>1 DEF Prefix
<1>3. t \in Seq(Letters) /\ Len(t) = m /\ \A i \in 1..m : t[i] = text[i]
  <2>1. \A i \in 1..m : text[i] \in Letters
    BY <1>1
  <2> QED
    BY <2>1 DEF Prefix
<1>4. u \in Seq(Letters) /\ Len(u) = 1 /\ u[1] = text[m + 1]
  <2>1. text[m + 1] \in Letters
    BY <1>1
  <2> QED
    BY <2>1
<1> HIDE DEF w, t, u
<1>5. \A i \in 1..Len(t) : w[i] = t[i]
  BY <1>2, <1>3
<1>6. \A i \in 1..Len(u) : w[Len(t) + i] = u[i]
  BY <1>2, <1>3, <1>4
<1>7. t = <<>> \/ t[Len(t)] = sep
  BY <1>3
<1>8. \/ Len(w) = Len(t) + Len(u)
      \/ Len(w) = Len(t) + Len(u) + 1 /\ w[Len(w)] = sep
  BY <1>2, <1>3, <1>4
<1> QED
  BY <1>2, <1>3, <1>4, <1>5, <1>6, <1>7, <1>8 DEF Joined, w, t, u

\* The number at m + 1 comes behind a dot and before one, or at the end.
NumberAt(text, sep, m, k) ==
  /\ text \in Seq(Letters) /\ m \in Nat /\ k \in Nat /\ k <= Len(text)
  /\ k = m + 1 \/ k = m + 2
  /\ m > 0 => text[m] = sep
  /\ k = m + 2 => text[k] = sep
  /\ text[m + 1] # sep

\* The pieces W are the j pieces T and one more.
OneMore(W, T, j, piece) ==
  Len(W) = j + 1 /\ (\A i \in 1..j : W[i] = T[i]) /\ W[j + 1] = piece

\* A number is one more piece.
LEMMA NumberAdded ==
  ASSUME NEW text, NEW sep, NEW m, NEW k, NumberAt(text, sep, m, k)
  PROVE  OneMore(Tokens(Prefix(text, k), sep), Tokens(Prefix(text, m), sep),
                 Len(Tokens(Prefix(text, m), sep)), <<text[m + 1]>>)
<1> DEFINE u == <<text[m + 1]>>
           W == Tokens(Prefix(text, k), sep)
           T == Tokens(Prefix(text, m), sep)
           U == Tokens(u, sep)
<1> DEFINE j == Len(T)
<1>1. /\ text \in Seq(Letters) /\ m \in Nat /\ k \in Nat /\ k <= Len(text)
      /\ k = m + 1 \/ k = m + 2
      /\ m > 0 => text[m] = sep
      /\ k = m + 2 => text[k] = sep
      /\ text[m + 1] # sep
  BY DEF NumberAt
<1>2. u \in Seq(Letters) /\ u # <<>> /\ \A i \in DOMAIN u : u[i] # sep
  <2>1. text[m + 1] \in Letters
    BY <1>1
  <2> QED
    BY <1>1, <2>1, OneSymbol
<1>3. Joined(Prefix(text, k), Prefix(text, m), u, sep)
  BY <1>1, PrefixJoined
<1> HIDE DEF u
<1>4. Len(U) = 1 /\ U[1] = u
  BY <1>2, OnePiece
<1>5. /\ Len(W) = j + Len(U) /\ j \in Nat
      /\ \A i \in 1..j : W[i] = T[i]
      /\ \A i \in 1..Len(U) : W[j + i] = U[i]
  BY <1>3, TokensJoin
<1> HIDE DEF W, T, U, j
<1>6. W[j + 1] = u
  <2>1. 1 \in 1..Len(U)
    BY <1>4
  <2> QED
    BY <1>4, <1>5, <2>1
<1>7. OneMore(W, T, j, u)
  BY <1>4, <1>5, <1>6 DEF OneMore
<1> QED
  BY <1>7 DEF W, T, j, u

\* An address has the pieces that its numbers are.
LEMMA DotsAre ==
  ASSUME NEW text \in Seq(Letters), NEW sep, Len(text) = 7,
         text[2] = sep, text[4] = sep, text[6] = sep,
         text[1] # sep, text[3] # sep, text[5] # sep, text[7] # sep
  PROVE  /\ Len(Tokens(text, sep)) = 4
         /\ Tokens(text, sep)[1] = <<text[1]>> /\ Tokens(text, sep)[2] = <<text[3]>>
         /\ Tokens(text, sep)[3] = <<text[5]>> /\ Tokens(text, sep)[4] = <<text[7]>>
<1> DEFINE T0 == Tokens(Prefix(text, 0), sep)
           T2 == Tokens(Prefix(text, 2), sep)
           T4 == Tokens(Prefix(text, 4), sep)
           T6 == Tokens(Prefix(text, 6), sep)
           T7 == Tokens(Prefix(text, 7), sep)
<1>0. Prefix(text, 0) = <<>> /\ Prefix(text, 7) = text
  BY DEF Prefix
<1>1. /\ OneMore(T2, T0, Len(T0), <<text[0 + 1]>>)
      /\ OneMore(T4, T2, Len(T2), <<text[2 + 1]>>)
      /\ OneMore(T6, T4, Len(T4), <<text[4 + 1]>>)
      /\ OneMore(T7, T6, Len(T6), <<text[6 + 1]>>)
  <2>1. /\ NumberAt(text, sep, 0, 2) /\ NumberAt(text, sep, 2, 4)
        /\ NumberAt(text, sep, 4, 6) /\ NumberAt(text, sep, 6, 7)
    BY DEF NumberAt
  <2> QED
    BY <2>1, NumberAdded, Zenon
<1>2. Len(T0) = 0
  BY <1>0, NoPiece
<1> HIDE DEF T0, T2, T4, T6, T7
<1>3. Len(T2) = 1 /\ T2[1] = <<text[1]>>
  BY <1>1, <1>2 DEF OneMore
<1>4. Len(T4) = 2 /\ T4[1] = <<text[1]>> /\ T4[2] = <<text[3]>>
  <2>1. OneMore(T4, T2, 1, <<text[3]>>)
    BY <1>1, <1>3
  <2>2. Len(T4) = 2 /\ T4[1] = T2[1] /\ T4[2] = <<text[3]>>
    BY <2>1 DEF OneMore
  <2> QED
    BY <1>3, <2>2, Zenon
<1>5. /\ Len(T6) = 3 /\ T6[1] = <<text[1]>> /\ T6[2] = <<text[3]>>
      /\ T6[3] = <<text[5]>>
  <2>1. OneMore(T6, T4, 2, <<text[5]>>)
    BY <1>1, <1>4
  <2>2. Len(T6) = 3 /\ T6[1] = T4[1] /\ T6[2] = T4[2] /\ T6[3] = <<text[5]>>
    BY <2>1 DEF OneMore
  <2> QED
    BY <1>4, <2>2, Zenon
<1>6. /\ Len(T7) = 4 /\ T7[1] = <<text[1]>> /\ T7[2] = <<text[3]>>
      /\ T7[3] = <<text[5]>> /\ T7[4] = <<text[7]>>
  <2>1. OneMore(T7, T6, 3, <<text[7]>>)
    BY <1>1, <1>5
  <2>2. /\ Len(T7) = 4 /\ T7[1] = T6[1] /\ T7[2] = T6[2] /\ T7[3] = T6[3]
        /\ T7[4] = <<text[7]>>
    BY <2>1 DEF OneMore
  <2> QED
    BY <1>5, <2>2, Zenon
<1> QED
  BY <1>0, <1>6, Zenon DEF T7

\* An address is read back from what is stored of it.
LEMMA AddressReadBack ==
  ASSUME NEW text \in Seq(Letters), IsAddress(text)
  PROVE  /\ ipv4_str_to_uint8_array(text) \in Octets
         /\ ipv4_str_to_uint8_array(text) # <<>>
         /\ ipv4_uint8_array_to_str(ipv4_str_to_uint8_array(text)) = text
<1> DEFINE parts == Tokens(text, ".")
           o == [i \in 1..4 |-> Byte(atoi(parts[i]))]
           dot == "."
<1>1. Len(text) = 7 /\ text[2] = dot /\ text[4] = dot /\ text[6] = dot
  BY Zenon DEF IsAddress
<1>2. ASSUME NEW i \in {1, 3, 5, 7}
      PROVE  /\ text[i] \in DOMAIN Numeral /\ text[i] # dot
             /\ Numeral[text[i]] \in 0..255 /\ Word(Numeral[text[i]]) = text[i]
  <2>1. /\ text[i] \in DOMAIN Numeral
        /\ Numeral[text[i]] \in 0..255 /\ Word(Numeral[text[i]]) = text[i]
    BY Zenon DEF IsAddress
  <2>2. dot \notin DOMAIN Numeral
    BY SymbolAssumption DEF SymbolAssumption
  <2> QED
    BY <2>1, <2>2, Zenon
<1>3. text[1] # dot /\ text[3] # dot /\ text[5] # dot /\ text[7] # dot
  <2>1. 1 \in {1, 3, 5, 7} /\ 3 \in {1, 3, 5, 7} /\ 5 \in {1, 3, 5, 7} /\ 7 \in {1, 3, 5, 7}
    OBVIOUS
  <2> QED
    BY <1>2, <2>1, Zenon
<1>4. /\ Len(parts) = 4
      /\ parts[1] = <<text[1]>> /\ parts[2] = <<text[3]>>
      /\ parts[3] = <<text[5]>> /\ parts[4] = <<text[7]>>
  <2> HIDE DEF dot
  <2>1. /\ Len(Tokens(text, dot)) = 4
        /\ Tokens(text, dot)[1] = <<text[1]>> /\ Tokens(text, dot)[2] = <<text[3]>>
        /\ Tokens(text, dot)[3] = <<text[5]>> /\ Tokens(text, dot)[4] = <<text[7]>>
    BY <1>1, <1>3, DotsAre
  <2> QED
    BY <2>1, Zenon DEF dot
<1> HIDE DEF dot
<1>5. ipv4_str_to_uint8_array(text) = o
  <2> HIDE DEF parts, o
  <2>1. ~(Len(parts) < 4)
    BY <1>4
  <2> QED
    BY <2>1, Zenon DEF ipv4_str_to_uint8_array, parts, o
<1> HIDE DEF parts
<1>6. ASSUME NEW c, c \in DOMAIN Numeral, Numeral[c] \in 0..255
      PROVE  Byte(atoi(<<c>>)) = Numeral[c]
  <2>1. <<c>>[1] = c
    OBVIOUS
  <2>2. atoi(<<c>>) = Numeral[c]
    BY <1>6, <2>1, Zenon DEF atoi
  <2>3. Numeral[c] % 256 = Numeral[c]
    <3>1. \A x \in 0..255 : x % 256 = x
      OBVIOUS
    <3> QED
      BY <1>6, <3>1, Zenon
  <2> QED
    BY <2>2, <2>3, Zenon DEF Byte
<1>7. /\ o[1] = Numeral[text[1]] /\ o[2] = Numeral[text[3]]
      /\ o[3] = Numeral[text[5]] /\ o[4] = Numeral[text[7]]
  <2>1. /\ o[1] = Byte(atoi(parts[1])) /\ o[2] = Byte(atoi(parts[2]))
        /\ o[3] = Byte(atoi(parts[3])) /\ o[4] = Byte(atoi(parts[4]))
    OBVIOUS
  <2>2. 1 \in {1, 3, 5, 7} /\ 3 \in {1, 3, 5, 7} /\ 5 \in {1, 3, 5, 7} /\ 7 \in {1, 3, 5, 7}
    OBVIOUS
  <2> HIDE DEF o
  <2> QED
    BY <1>2, <1>4, <1>6, <2>1, <2>2, Zenon
<1>8. o \in Octets /\ o # <<>>
  <2>1. /\ o[1] \in 0..255 /\ o[2] \in 0..255 /\ o[3] \in 0..255 /\ o[4] \in 0..255
    BY <1>2, <1>7
  <2>2. \A i \in 1..4 : i = 1 \/ i = 2 \/ i = 3 \/ i = 4
    OBVIOUS
  <2>3. DOMAIN o = 1..4 /\ o = [i \in 1..4 |-> o[i]]
    OBVIOUS
  <2> HIDE DEF o
  <2>4. \A i \in 1..4 : o[i] \in 0..255
    BY <2>1, <2>2
  <2>5. o # <<>>
    <3>1. 1 \in DOMAIN o
      BY <2>3
    <3> QED
      BY <3>1
  <2> QED
    BY <2>3, <2>4, <2>5 DEF Octets
<1>9. ipv4_uint8_array_to_str(o) =
        <<text[1], ".", text[3], ".", text[5], ".", text[7]>>
  <2>1. /\ Word(o[1]) = text[1] /\ Word(o[2]) = text[3]
        /\ Word(o[3]) = text[5] /\ Word(o[4]) = text[7]
    BY <1>2, <1>7
  <2> HIDE DEF o
  <2> QED
    BY <2>1, Zenon DEF ipv4_uint8_array_to_str
<1>10. <<text[1], ".", text[3], ".", text[5], ".", text[7]>> = text
  <2>1. text = <<text[1], text[2], text[3], text[4], text[5], text[6], text[7]>>
    BY <1>1
  <2> QED
    BY <1>1, <2>1, Zenon DEF dot
<1> HIDE DEF o
<1> QED
  BY <1>5, <1>8, <1>9, <1>10, Zenon

-----------------------------------------------------------------------------
(* The settings are those that were typed *)

\* A message that is not refused gives back what was typed, and credentials that
\* are asked about are found right exactly when they are those of the network.
DecodesAsSent ==
  \A cmd \in Commands :
    LET args == Received[cmd].args
        typed == Written(cmd)
    IN  /\ Asked(cmd, "ap") /\ Ends(args, 2) =>
             ApOf(args) = [ssid |-> typed[1], password |-> typed[2]]
        /\ Asked(cmd, "sta") /\ StaComplete(args) =>
             /\ StaOf(args) = [ssid |-> typed[1], password |-> typed[2]]
             /\ typed[3] = <<>> => AddressesOf(args) = NoIp
             /\ typed[3] # <<>> =>
                  /\ AddressesOf(args) # NoIp
                  /\ Shown(AddressesOf(args)) = <<typed[3], typed[4], typed[5]>>
                  /\ <<typed[3], typed[4], typed[5]>> # NoIp
        /\ Asked(cmd, "validate") =>
             \A c \in ApConfigs :
               Ends(args, 2) /\ args[1] = c.ssid /\ args[2] = c.password
                 <=> <<c.ssid, c.password>> = typed

\* A field that is not empty, and does not begin as an empty one, is read as it is.
LEMMA FieldIsTyped ==
  ASSUME NEW text PROVE text # <<>> => Field(text) = text
BY DEF Field

\* And an empty one as empty, by the "#" that it was written as.
LEMMA StaFieldIs ==
  ASSUME NEW args, NEW i \in Nat, i > 1, NEW text, args[i] = Field(text),
         text # <<>> => text[1] # "#"
  PROVE  StaField(args, i) = text
<1>1. CASE text = <<>>
  <2>1. args[i] = <<"#">>
    BY <1>1 DEF Field
  <2>2. args[i][1] = "#"
    BY <2>1
  <2> QED
    BY <1>1, <2>2, Zenon DEF StaField
<1>2. CASE text # <<>>
  <2>1. args[i] = text
    BY <1>2, FieldIsTyped
  <2> QED
    BY <1>2, <2>1, Zenon DEF StaField
<1> QED
  BY <1>1, <1>2

\* The two fields of the network, and of the question about its credentials.
LEMMA ApRead ==
  ASSUME NEW cmd \in Commands, Asked(cmd, "ap") \/ Asked(cmd, "validate"),
         NEW args, args = Received[cmd].args, NEW typed, typed = Written(cmd)
  PROVE  /\ typed = <<typed[1], typed[2]>>
         /\ Ends(args, 2) => args[1] = typed[1] /\ args[2] = typed[2]
         /\ NoComma(typed[1]) /\ NoComma(typed[2]) => Ends(args, 2)
<1>1. Len(typed) = 2 /\ typed[1] # <<>> /\ typed[2] # <<>>
  BY CommandsAre, Zenon DEF FieldsTyped
<1>2. typed \in Seq(Seq(Letters))
  BY CommandsAre, Zenon
<1>3. /\ Ends(args, 2) => \A k \in 1..2 : args[k] = Field(typed[k])
      /\ (\A k \in 1..2 : NoComma(typed[k])) => Ends(args, 2)
  <2>1. FieldsGiven(cmd, args, 2)
    BY <1>1, MessageRead, Zenon
  <2> QED
    BY <2>1, Zenon DEF FieldsGiven
<1>4. 1 \in 1..2 /\ 2 \in 1..2 /\ \A k \in 1..2 : k = 1 \/ k = 2
  OBVIOUS
<1>5. typed = <<typed[1], typed[2]>>
  <2>1. \A s \in Seq(Seq(Letters)) : Len(s) = 2 => s = <<s[1], s[2]>>
    OBVIOUS
  <2> QED
    BY <1>1, <1>2, <2>1, Zenon
<1>6. Ends(args, 2) => args[1] = typed[1] /\ args[2] = typed[2]
  BY <1>1, <1>3, <1>4, FieldIsTyped, Zenon
<1>7. NoComma(typed[1]) /\ NoComma(typed[2]) => Ends(args, 2)
  BY <1>3, <1>4, Zenon
<1> QED
  BY <1>5, <1>6, <1>7

\* The credentials are those of a network when they were typed as they are.
LEMMA CredentialsRead ==
  ASSUME NEW cmd \in Commands, Asked(cmd, "validate"), NEW c \in ApConfigs,
         NEW args, args = Received[cmd].args
  PROVE  Ends(args, 2) /\ args[1] = c.ssid /\ args[2] = c.password
           <=> <<c.ssid, c.password>> = Written(cmd)
<1> DEFINE typed == Written(cmd)
<1>1. /\ typed = <<typed[1], typed[2]>>
      /\ Ends(args, 2) => args[1] = typed[1] /\ args[2] = typed[2]
      /\ NoComma(typed[1]) /\ NoComma(typed[2]) => Ends(args, 2)
  BY ApRead, Zenon
<1>2. NoComma(c.ssid) /\ NoComma(c.password)
  BY AppAssumption, Zenon DEF AppAssumption, NoComma, Comma
<1> HIDE DEF typed
<1>3. ASSUME <<c.ssid, c.password>> = typed
      PROVE  Ends(args, 2) /\ args[1] = c.ssid /\ args[2] = c.password
  <2>1. typed[1] = c.ssid /\ typed[2] = c.password
    BY <1>3
  <2> QED
    BY <1>1, <1>2, <2>1, Zenon
<1>4. ASSUME Ends(args, 2), args[1] = c.ssid, args[2] = c.password
      PROVE  <<c.ssid, c.password>> = typed
  BY <1>1, <1>4, Zenon
<1> QED
  <2>1. Ends(args, 2) /\ args[1] = c.ssid /\ args[2] = c.password
          <=> <<c.ssid, c.password>> = typed
    BY <1>3, <1>4, Zenon
  <2> QED
    BY <2>1, Zenon DEF typed

\* The fields of the station, and of its addresses.
LEMMA StaRead ==
  ASSUME NEW cmd \in Commands, Asked(cmd, "sta"),
         NEW args, args = Received[cmd].args, StaComplete(args),
         NEW typed, typed = Written(cmd)
  PROVE  /\ args[1] = typed[1] /\ StaField(args, 2) = typed[2]
         /\ StaField(args, 3) = typed[3] /\ StaField(args, 4) = typed[4]
         /\ StaField(args, 5) = typed[5]
         /\ typed[3] \in Seq(Letters) /\ typed[4] \in Seq(Letters)
         /\ typed[5] \in Seq(Letters)
<1> DEFINE hash == "#"
<1>1. /\ Len(typed) = 7 /\ typed[1] # <<>>
      /\ typed[2] # <<>> => typed[2][1] # hash
      /\ \/ \A i \in 3..5 : typed[i] = <<>>
         \/ \A i \in 3..5 : IsAddress(typed[i])
  BY CommandsAre, Zenon DEF FieldsTyped
<1>2. Ends(args, 7)
  BY Zenon DEF StaComplete
<1>3. \A k \in 1..7 : args[k] = Field(typed[k])
  <2>1. FieldsGiven(cmd, args, 7)
    BY <1>1, MessageRead, Zenon
  <2> QED
    BY <1>2, <2>1, Zenon DEF FieldsGiven
<1>4. \A k \in 1..7 : typed[k] \in Seq(Letters)
  <2>1. \A k \in 1..7 : Typeable(typed[k])
    BY <1>1, CommandsAre, Zenon
  <2> QED
    BY <2>1, TypeableIs, Zenon
<1>5. /\ 1 \in 1..7 /\ 2 \in 1..7 /\ 3 \in 1..7 /\ 4 \in 1..7 /\ 5 \in 1..7
      /\ 2 \in Nat /\ 3 \in Nat /\ 4 \in Nat /\ 5 \in Nat
      /\ 2 > 1 /\ 3 > 1 /\ 4 > 1 /\ 5 > 1
      /\ 3 \in 3..5 /\ 4 \in 3..5 /\ 5 \in 3..5
  OBVIOUS
<1>6. ASSUME NEW text, IsAddress(text) PROVE text[1] # hash
  <2>1. 1 \in {1, 3, 5, 7}
    OBVIOUS
  <2>2. text[1] \in DOMAIN Numeral
    BY <1>6, <2>1, Zenon DEF IsAddress
  <2>3. hash \notin DOMAIN Numeral
    BY SymbolAssumption DEF SymbolAssumption
  <2> QED
    BY <2>2, <2>3, Zenon
<1>7. \A i \in 3..5 : typed[i] # <<>> => typed[i][1] # hash
  BY <1>1, <1>6, Zenon
<1>8. args[1] = typed[1]
  BY <1>1, <1>3, <1>5, FieldIsTyped, Zenon
<1>9. ASSUME NEW i \in {2, 3, 4, 5} PROVE StaField(args, i) = typed[i]
  <2>1. i \in 1..7 /\ i \in Nat /\ i > 1 /\ (i = 2 \/ i \in 3..5)
    OBVIOUS
  <2>2. args[i] = Field(typed[i])
    BY <1>3, <2>1, Zenon
  <2>3. typed[i] # <<>> => typed[i][1] # "#"
    BY <1>1, <1>7, <2>1, Zenon
  <2> QED
    BY <2>1, <2>2, <2>3, StaFieldIs, Zenon
<1>10. 2 \in {2, 3, 4, 5} /\ 3 \in {2, 3, 4, 5} /\ 4 \in {2, 3, 4, 5} /\ 5 \in {2, 3, 4, 5}
  OBVIOUS
<1>11. /\ StaField(args, 2) = typed[2] /\ StaField(args, 3) = typed[3]
       /\ StaField(args, 4) = typed[4] /\ StaField(args, 5) = typed[5]
  BY <1>9, <1>10, Zenon
<1> QED
  BY <1>4, <1>5, <1>8, <1>11, Zenon

\* The addresses of a message, from the three texts they were typed as.
LEMMA AddressesRead ==
  ASSUME NEW args, NEW a, NEW b, NEW c,
         StaField(args, 3) = a, StaField(args, 4) = b, StaField(args, 5) = c
  PROVE  /\ a = <<>> => AddressesOf(args) = NoIp
         /\ a \in Seq(Letters) /\ b \in Seq(Letters) /\ c \in Seq(Letters)
            /\ IsAddress(a) /\ IsAddress(b) /\ IsAddress(c) =>
              AddressesOf(args) # NoIp /\ Shown(AddressesOf(args)) = <<a, b, c>>
<1> DEFINE O(t) == ipv4_str_to_uint8_array(t)
           o == [i \in 1..3 |-> O(StaField(args, i + 2))]
           r == [ip |-> o[1], mask |-> o[2], gateway |-> o[3]]
<1>1. o[1] = O(a) /\ o[2] = O(b) /\ o[3] = O(c)
  <2>1. /\ o[1] = O(StaField(args, 1 + 2)) /\ o[2] = O(StaField(args, 2 + 2))
        /\ o[3] = O(StaField(args, 3 + 2))
    OBVIOUS
  <2>2. 1 + 2 = 3 /\ 2 + 2 = 4 /\ 3 + 2 = 5
    OBVIOUS
  <2> QED
    BY <2>1, <2>2, Zenon
<1>2. AddressesOf(args) = IF \E i \in 1..3 : o[i] = <<>> THEN NoIp ELSE r
  BY Zenon DEF AddressesOf
<1>3. 1 \in 1..3 /\ \A i \in 1..3 : i = 1 \/ i = 2 \/ i = 3
  OBVIOUS
<1> HIDE DEF o
<1>4. ASSUME a = <<>> PROVE AddressesOf(args) = NoIp
  <2>1. O(<<>>) = <<>>
    <3>1. Len(Tokens(<<>>, Dot)) = 0
      BY NoPiece
    <3>2. Len(Tokens(<<>>, Dot)) < 4
      BY <3>1
    <3> QED
      BY <3>2, Zenon DEF ipv4_str_to_uint8_array, Dot
  <2>2. o[1] = <<>>
    BY <1>1, <1>4, <2>1, Zenon
  <2> QED
    BY <1>2, <1>3, <2>2, Zenon
<1>5. ASSUME a \in Seq(Letters), b \in Seq(Letters), c \in Seq(Letters),
             IsAddress(a), IsAddress(b), IsAddress(c)
      PROVE  AddressesOf(args) # NoIp /\ Shown(AddressesOf(args)) = <<a, b, c>>
  <2> DEFINE S(t) == ipv4_uint8_array_to_str(t)
  <2>1. /\ O(a) \in Octets /\ O(a) # <<>> /\ S(O(a)) = a
        /\ O(b) \in Octets /\ O(b) # <<>> /\ S(O(b)) = b
        /\ O(c) \in Octets /\ O(c) # <<>> /\ S(O(c)) = c
    BY <1>5, AddressReadBack, Zenon
  <2>2. ~ \E i \in 1..3 : o[i] = <<>>
    BY <1>1, <1>3, <2>1, Zenon
  <2>3. AddressesOf(args) = r
    BY <1>2, <2>2, Zenon
  <2>4. r # NoIp
    <3>1. o[1] \in Octets /\ o[2] \in Octets /\ o[3] \in Octets
      BY <1>1, <2>1, Zenon
    <3>2. r \in [ip : Octets, mask : Octets, gateway : Octets]
      BY <3>1
    <3> QED
      BY <3>2, SymbolAssumption, Zenon DEF SymbolAssumption
  <2>5. r.ip = o[1] /\ r.mask = o[2] /\ r.gateway = o[3]
    OBVIOUS
  <2> HIDE DEF r
  <2>6. Shown(r) = <<S(r.ip), S(r.mask), S(r.gateway)>>
    BY Zenon DEF Shown
  <2>7. S(r.ip) = a /\ S(r.mask) = b /\ S(r.gateway) = c
    BY <1>1, <2>1, <2>5, Zenon
  <2> QED
    BY <2>3, <2>4, <2>6, <2>7, Zenon
<1> QED
  BY <1>4, <1>5, Zenon

\* A message that is not refused gives back what was typed in each field.
LEMMA MessagesDecode == DecodesAsSent
<1>1. ASSUME NEW cmd \in Commands, NEW args, args = Received[cmd].args,
             NEW typed, typed = Written(cmd), Asked(cmd, "ap"), Ends(args, 2)
      PROVE  ApOf(args) = [ssid |-> typed[1], password |-> typed[2]]
  BY <1>1, ApRead, Zenon DEF ApOf
<1>2. ASSUME NEW cmd \in Commands, NEW args, args = Received[cmd].args,
             NEW typed, typed = Written(cmd), Asked(cmd, "sta"), StaComplete(args)
      PROVE  /\ StaOf(args) = [ssid |-> typed[1], password |-> typed[2]]
             /\ typed[3] = <<>> => AddressesOf(args) = NoIp
             /\ typed[3] # <<>> =>
                  /\ AddressesOf(args) # NoIp
                  /\ Shown(AddressesOf(args)) = <<typed[3], typed[4], typed[5]>>
                  /\ <<typed[3], typed[4], typed[5]>> # NoIp
  <2>1. /\ args[1] = typed[1] /\ StaField(args, 2) = typed[2]
        /\ StaField(args, 3) = typed[3] /\ StaField(args, 4) = typed[4]
        /\ StaField(args, 5) = typed[5]
        /\ typed[3] \in Seq(Letters) /\ typed[4] \in Seq(Letters)
        /\ typed[5] \in Seq(Letters)
    BY <1>2, StaRead, Zenon
  <2>2. /\ \/ \A i \in 3..5 : typed[i] = <<>>
           \/ \A i \in 3..5 : IsAddress(typed[i])
        /\ <<typed[3], typed[4], typed[5]>> # NoIp
    BY <1>2, CommandsAre, Zenon DEF FieldsTyped
  <2>3. 3 \in 3..5 /\ 4 \in 3..5 /\ 5 \in 3..5
    OBVIOUS
  <2>4. typed[3] = <<>> => AddressesOf(args) = NoIp
    BY <2>1, AddressesRead, Zenon
  <2>5. typed[3] # <<>> =>
          AddressesOf(args) # NoIp
          /\ Shown(AddressesOf(args)) = <<typed[3], typed[4], typed[5]>>
    BY <2>1, <2>2, <2>3, AddressesRead, Zenon
  <2>6. StaOf(args) = [ssid |-> typed[1], password |-> typed[2]]
    BY <2>1, Zenon DEF StaOf
  <2> QED
    BY <2>2, <2>4, <2>5, <2>6, Zenon
<1>3. ASSUME NEW cmd \in Commands, NEW args, args = Received[cmd].args,
             Asked(cmd, "validate"), NEW c \in ApConfigs
      PROVE  Ends(args, 2) /\ args[1] = c.ssid /\ args[2] = c.password
               <=> <<c.ssid, c.password>> = Written(cmd)
  BY <1>3, CredentialsRead, Zenon
<1> QED
  BY <1>1, <1>2, <1>3, Zenon DEF DecodesAsSent

\* The settings s are what was sent, as r has it.
Kept(s, r) ==
  /\ s.ap = r.ap /\ s.sta = r.sta
  /\ s.ip = NoIp <=> r.ip = NoIp
  /\ r.ip # NoIp => Shown(s.ip) = r.ip

\* The addresses that are still to be taken are those that were sent.
NewIpKept(ip, text) ==
  /\ ip = NoIp <=> text = NoIp
  /\ text # NoIp => Shown(ip) = text

\* Only what is being saved is not in flash.
Behind(place) ==
  /\ place # "saveAp" => kept.ap = sent.ap
  /\ place # "saveSta" => kept.sta = sent.sta
  /\ kept.ip = sent.ip
  /\ place \notin {"saveSta", "saveIp"} => sent.newIp = NoIp

SentIs == [ap |-> sent.ap, sta |-> sent.sta, ip |-> sent.ip, newIp |-> sent.newIp]
KeptIs == [ap |-> kept.ap, sta |-> kept.sta, ip |-> kept.ip]

KeptInv ==
  /\ Kept(conf, sent) /\ Kept(nvs, kept) /\ NewIpKept(newIp, sent.newIp)
  /\ Behind(pc["httpd"])
  /\ sent = SentIs /\ kept = KeptIs

\* Nothing but a message, its saves and a power cycle touches more of the
\* settings than the mode.
LEMMA SettingsKept ==
  ASSUME OtherNext
  PROVE  \/ UNCHANGED settings
         \/ \E p \in Restarters : RestartSwitch(p)
<1>1. CASE Boot \/ BootRejected \/ MessageCrash
  BY <1>1 DEF Boot, BootRejected, MessageCrash, settings
<1>2. CASE AskMode("mesh", "AP")
  BY <1>2 DEF AskMode, settings
<1>3. ASSUME NEW p \in Restarters, Restarts(p), ~RestartSwitch(p)
      PROVE  UNCHANGED settings
  BY <1>3 DEF Restarts, ReadMode, RestartTake, RestartTimeout, RestartStop,
              RestartConfig, RestartRejected, RestartStart, settings
<1>4. CASE EventNext
  BY <1>4 DEF EventNext, EventDrop, EventIgnored, StaDisconnected, StaConnected,
              settings
<1>5. CASE DaemonNext
  BY <1>5 DEF DaemonNext, ReconnectTick, RssiWake, RssiTake, RssiTimeout,
              RssiNoList, RssiGood, RssiWeak, RssiStart, settings
<1>6. CASE DriverNext
  BY <1>6 DEF DriverNext, LinkUp, LinkFail, LinkLost, LinkChange, settings
<1> QED
  BY <1>1, <1>2, <1>3, <1>4, <1>5, <1>6 DEF OtherNext

SavePcs == {"saveAp", "saveSta", "saveIp"}

\* A task of the wifi that is saving goes on with that.
LEMMA SavingGoesOn ==
  ASSUME TypeOK, OtherNext, pc["httpd"] \in SavePcs
  PROVE  pc'["httpd"] = pc["httpd"]
<1> USE DEF SavePcs, Goto, Return, tasks, Restarters, Daemon, Tasks
<1>a. pc \in [Tasks -> MainPcs \cup DaemonPcs \cup RestartPcs]
  BY DEF TypeOK
<1> USE <1>a
<1>1. CASE Boot \/ BootRejected \/ MessageCrash
  BY <1>1 DEF Boot, BootRejected, MessageCrash
<1>2. CASE AskMode("mesh", "AP")
  BY <1>2 DEF AskMode
<1>3. ASSUME NEW p \in Restarters, Restarts(p) PROVE pc'["httpd"] = pc["httpd"]
  BY <1>3 DEF Restarts, ReadMode, RestartTake, RestartTimeout, RestartStop,
              RestartSwitch, RestartConfig, RestartRejected, RestartStart
<1>4. CASE EventNext
  BY <1>4 DEF EventNext, EventDrop, EventIgnored, StaDisconnected, StaConnected
<1>5. CASE DaemonNext
  BY <1>5 DEF DaemonNext, ReconnectTick, RssiWake, RssiTake, RssiTimeout,
              RssiNoList, RssiGood, RssiWeak, RssiStart
<1>6. CASE DriverNext
  BY <1>6 DEF DriverNext, LinkUp, LinkFail, LinkLost, LinkChange
<1> QED
  BY <1>1, <1>2, <1>3, <1>4, <1>5, <1>6 DEF OtherNext

\* A message has the access point or the station changed to what was sent.
LEMMA KeptByMessage ==
  ASSUME TypeOK, KeptInv, NEW cmd \in Commands,
         \/ ApMessage(cmd) \/ ApOverrun(cmd) \/ StaMessage(cmd) \/ StaOverrun(cmd)
  PROVE  KeptInv'
<1>a. conf \in Settings /\ pc["httpd"] = "idle"
      /\ pc \in [Tasks -> MainPcs \cup DaemonPcs \cup RestartPcs]
  BY DEF TypeOK, ApMessage, ApOverrun, StaMessage, StaOverrun, ApChange, StaChange
<1>b. \A q : (pc' = [pc EXCEPT !["httpd"] = q]) => pc'["httpd"] = q
  BY <1>a DEF Tasks, Restarters
<1>c. kept.ap = sent.ap /\ kept.sta = sent.sta /\ kept.ip = sent.ip
      /\ sent.newIp = NoIp
  BY <1>a DEF KeptInv, Behind
<1>1. ASSUME NEW c, ApChange(c), sent' = [sent EXCEPT !.ap = c], kept' = kept
      PROVE  KeptInv'
  <2>1. conf' = [conf EXCEPT !.ap = c] /\ nvs' = nvs /\ newIp' = newIp
        /\ pc'["httpd"] = "saveAp"
    BY <1>1, <1>b DEF ApChange, Goto
  <2>2. sent'.ap = c /\ sent'.sta = sent.sta /\ sent'.ip = sent.ip
        /\ sent'.newIp = sent.newIp
        /\ sent' = [ap |-> c, sta |-> sent.sta, ip |-> sent.ip,
                    newIp |-> sent.newIp]
    BY <1>1 DEF KeptInv, SentIs
  <2>3. Kept(conf, sent)'
    BY <1>a, <2>1, <2>2 DEF KeptInv, Kept, Settings
  <2>4. Behind(pc["httpd"])'
    BY <1>1, <1>c, <2>1, <2>2 DEF Behind
  <2>5. Kept(nvs, kept)' /\ NewIpKept(newIp, sent.newIp)'
    BY <1>1, <2>1, <2>2 DEF KeptInv, Kept, NewIpKept
  <2>6. (sent = SentIs)' /\ (kept = KeptIs)'
    BY <1>1, <2>2 DEF KeptInv, SentIs, KeptIs
  <2> QED
    BY <2>3, <2>4, <2>5, <2>6 DEF KeptInv
<1>2. ASSUME NEW c, NEW a, NEW text, NewIpKept(a, text), StaChange(c, a),
             sent' = [sent EXCEPT !.sta = c, !.newIp = text], kept' = kept
      PROVE  KeptInv'
  <2>1. conf' = [conf EXCEPT !.sta = c] /\ nvs' = nvs /\ newIp' = a
        /\ pc'["httpd"] = "saveSta"
    BY <1>2, <1>b DEF StaChange, Goto
  <2>2. sent'.ap = sent.ap /\ sent'.sta = c /\ sent'.ip = sent.ip
        /\ sent'.newIp = text
        /\ sent' = [ap |-> sent.ap, sta |-> c, ip |-> sent.ip, newIp |-> text]
    BY <1>2 DEF KeptInv, SentIs
  <2>3. Kept(conf, sent)'
    BY <1>a, <2>1, <2>2 DEF KeptInv, Kept, Settings
  <2>4. Behind(pc["httpd"])'
    BY <1>2, <1>c, <2>1, <2>2 DEF Behind
  <2>5. Kept(nvs, kept)' /\ NewIpKept(newIp, sent.newIp)'
    BY <1>2, <2>1, <2>2 DEF KeptInv, Kept, NewIpKept
  <2>6. (sent = SentIs)' /\ (kept = KeptIs)'
    BY <1>2, <2>2 DEF KeptInv, SentIs, KeptIs
  <2> QED
    BY <2>3, <2>4, <2>5, <2>6 DEF KeptInv
<1>3. ASSUME Asked(cmd, "sta"), StaComplete(Received[cmd].args)
      PROVE  NewIpKept(AddressesOf(Received[cmd].args), AddressesSent(cmd))
  <2> DEFINE a == AddressesOf(Received[cmd].args)
             typed == Written(cmd)
  <2>1. /\ typed[3] = <<>> => a = NoIp
        /\ typed[3] # <<>> =>
             /\ a # NoIp /\ Shown(a) = <<typed[3], typed[4], typed[5]>>
             /\ <<typed[3], typed[4], typed[5]>> # NoIp
    BY <1>3, MessagesDecode DEF DecodesAsSent
  <2> HIDE DEF a
  <2>2. NewIpKept(a, AddressesSent(cmd))
    BY <2>1 DEF NewIpKept, AddressesSent
  <2> QED
    BY <2>2 DEF a
<1>4. CASE ApMessage(cmd)
  <2> DEFINE c == ApOf(Received[cmd].args)
  <2>1. c = [ssid |-> Written(cmd)[1], password |-> Written(cmd)[2]]
    BY <1>4, MessagesDecode DEF ApMessage, DecodesAsSent
  <2>2. ApChange(c) /\ sent' = [sent EXCEPT !.ap = c] /\ kept' = kept
    BY <1>4, <2>1 DEF ApMessage
  <2> QED
    BY <1>1, <2>2
<1>5. CASE ApOverrun(cmd)
  BY <1>1, <1>5 DEF ApOverrun
<1>6. CASE StaMessage(cmd)
  <2> DEFINE c == StaOf(Received[cmd].args)
  <2>1. c = [ssid |-> Written(cmd)[1], password |-> Written(cmd)[2]]
    BY <1>6, MessagesDecode DEF StaMessage, DecodesAsSent
  <2>2. /\ StaChange(c, AddressesOf(Received[cmd].args))
        /\ sent' = [sent EXCEPT !.sta = c, !.newIp = AddressesSent(cmd)]
        /\ kept' = kept
    BY <1>6, <2>1 DEF StaMessage
  <2>3. NewIpKept(AddressesOf(Received[cmd].args), AddressesSent(cmd))
    BY <1>3, <1>6 DEF StaMessage
  <2> QED
    BY <1>2, <2>2, <2>3
<1>7. CASE StaOverrun(cmd)
  <2>1. PICK c \in StaOverruns :
          /\ StaChange(c, AddressesOf(Received[cmd].args))
          /\ sent' = [sent EXCEPT !.sta = c, !.newIp = AddressesSent(cmd)]
    BY <1>7 DEF StaOverrun
  <2>2. kept' = kept
    BY <1>7 DEF StaOverrun
  <2>3. NewIpKept(AddressesOf(Received[cmd].args), AddressesSent(cmd))
    BY <1>3, <1>7 DEF StaOverrun
  <2> QED
    BY <1>2, <2>1, <2>2, <2>3
<1> QED
  BY <1>4, <1>5, <1>6, <1>7

\* The saves bring the flash up to what was sent.
LEMMA KeptBySaves ==
  ASSUME TypeOK, KeptInv, DirectSaves
  PROVE  KeptInv'
<1>a. conf \in Settings /\ nvs \in Settings
      /\ pc \in [Tasks -> MainPcs \cup DaemonPcs \cup RestartPcs]
  BY DEF TypeOK
<1>b. \A q : (pc' = [pc EXCEPT !["httpd"] = q]) => pc'["httpd"] = q
  BY <1>a DEF Tasks, Restarters
<1>1. CASE SaveAp /\ kept' = [kept EXCEPT !.ap = sent.ap] /\ UNCHANGED sent
  <2>1. nvs' = [nvs EXCEPT !.ap = conf.ap] /\ conf' = conf /\ newIp' = newIp
        /\ pc["httpd"] = "saveAp" /\ pc'["httpd"] = "mode"
    BY <1>1, <1>b DEF SaveAp, Goto
  <2>2. kept' = [ap |-> sent.ap, sta |-> kept.sta, ip |-> kept.ip]
    BY <1>1 DEF KeptInv, KeptIs
  <2>3. Kept(nvs, kept)'
    BY <1>a, <1>1, <2>1, <2>2 DEF KeptInv, Kept, Settings
  <2>4. Behind(pc["httpd"])'
    BY <1>1, <2>1, <2>2 DEF KeptInv, Behind
  <2>5. Kept(conf, sent)' /\ NewIpKept(newIp, sent.newIp)'
    BY <1>1, <2>1 DEF KeptInv, Kept, NewIpKept
  <2>6. (sent = SentIs)' /\ (kept = KeptIs)'
    BY <1>1, <2>2 DEF KeptInv, SentIs, KeptIs
  <2> QED
    BY <2>3, <2>4, <2>5, <2>6 DEF KeptInv
<1>2. CASE SaveSta /\ kept' = [kept EXCEPT !.sta = sent.sta] /\ UNCHANGED sent
  <2>1. nvs' = [nvs EXCEPT !.sta = conf.sta] /\ conf' = conf /\ newIp' = newIp
        /\ pc["httpd"] = "saveSta" /\ pc'["httpd"] = "saveIp"
    BY <1>2, <1>b DEF SaveSta, Goto
  <2>2. kept' = [ap |-> kept.ap, sta |-> sent.sta, ip |-> kept.ip]
    BY <1>2 DEF KeptInv, KeptIs
  <2>3. Kept(nvs, kept)'
    BY <1>a, <1>2, <2>1, <2>2 DEF KeptInv, Kept, Settings
  <2>4. Behind(pc["httpd"])'
    BY <1>2, <2>1, <2>2 DEF KeptInv, Behind
  <2>5. Kept(conf, sent)' /\ NewIpKept(newIp, sent.newIp)'
    BY <1>2, <2>1 DEF KeptInv, Kept, NewIpKept
  <2>6. (sent = SentIs)' /\ (kept = KeptIs)'
    BY <1>2, <2>2 DEF KeptInv, SentIs, KeptIs
  <2> QED
    BY <2>3, <2>4, <2>5, <2>6 DEF KeptInv
<1>3. CASE /\ SaveIp
           /\ sent' = [sent EXCEPT !.ip = IpGiven(@, sent.newIp), !.newIp = NoIp]
           /\ kept' = [kept EXCEPT !.ip = IpGiven(@, sent.newIp)]
  <2>1. /\ conf' = [conf EXCEPT !.ip = IpGiven(@, newIp)]
        /\ nvs' = [nvs EXCEPT !.ip = IpGiven(@, newIp)]
        /\ newIp' = NoIp
        /\ pc["httpd"] = "saveIp" /\ pc'["httpd"] = "mode"
    BY <1>3, <1>b DEF SaveIp, Goto
  <2>2. /\ sent' = [ap |-> sent.ap, sta |-> sent.sta,
                    ip |-> IpGiven(sent.ip, sent.newIp), newIp |-> NoIp]
        /\ kept' = [ap |-> kept.ap, sta |-> kept.sta,
                    ip |-> IpGiven(kept.ip, sent.newIp)]
    BY <1>3 DEF KeptInv, SentIs, KeptIs
  <2>3. Kept(conf, sent)'
    BY <1>a, <2>1, <2>2 DEF KeptInv, Kept, NewIpKept, IpGiven, Settings
  <2>4. Kept(nvs, kept)'
    BY <1>a, <2>1, <2>2 DEF KeptInv, Kept, NewIpKept, IpGiven, Settings
  <2>5. Behind(pc["httpd"])'
    BY <2>1, <2>2 DEF KeptInv, Behind
  <2>6. NewIpKept(newIp, sent.newIp)'
    BY <2>1, <2>2 DEF NewIpKept
  <2>7. (sent = SentIs)' /\ (kept = KeptIs)'
    BY <2>2 DEF SentIs, KeptIs
  <2> QED
    BY <2>3, <2>4, <2>5, <2>6, <2>7 DEF KeptInv
<1> QED
  BY <1>1, <1>2, <1>3 DEF DirectSaves

LEMMA KeptStep ==
  ASSUME TypeOK, KeptInv, [DirectNext]_directVars
  PROVE  KeptInv'
<1>a. conf \in Settings /\ nvs \in Settings /\ want \in [Restarters -> Modes]
      /\ pc \in [Tasks -> MainPcs \cup DaemonPcs \cup RestartPcs]
  BY DEF TypeOK
<1>1. ASSUME UNCHANGED <<sent, kept, newIp>>, Kept(conf', sent), Kept(nvs', kept),
             Behind(pc'["httpd"])
      PROVE  KeptInv'
  BY <1>1 DEF KeptInv, Kept, NewIpKept, Behind, SentIs, KeptIs
<1>2. ASSUME NEW cmd \in Commands, ModeMessage(cmd) PROVE KeptInv'
  <2>1. PICK m : AskMode("httpd", m)
    BY <1>2 DEF ModeMessage
  <2>2. pc["httpd"] = "idle" /\ pc'["httpd"] = "take" /\ UNCHANGED settings
    BY <1>a, <2>1 DEF AskMode, Goto, Tasks, Restarters
  <2>3. Behind("take")
    BY <2>2 DEF KeptInv, Behind
  <2> QED
    BY <1>1, <1>2, <2>2, <2>3 DEF ModeMessage, settings, KeptInv
<1>3. ASSUME NEW cmd \in Commands,
             \/ ApMessage(cmd) \/ ApOverrun(cmd) \/ StaMessage(cmd) \/ StaOverrun(cmd)
      PROVE  KeptInv'
  BY <1>3, KeptByMessage
<1>4. CASE DirectSaves
  BY <1>4, KeptBySaves
<1>5. CASE DirectPowerCycle
  <2>1. conf' = nvs /\ nvs' = nvs /\ newIp' = NoIp /\ pc'["httpd"] = "idle"
    BY <1>5, AsleepTypes DEF DirectPowerCycle, PowerCycle, Reboot, Restarters
  <2>2. /\ sent' = [ap |-> kept.ap, sta |-> kept.sta, ip |-> kept.ip,
                    newIp |-> NoIp]
        /\ kept' = kept
    BY <1>5 DEF DirectPowerCycle
  <2>3. Kept(conf, sent)' /\ Kept(nvs, kept)'
    BY <2>1, <2>2 DEF KeptInv, Kept
  <2>4. Behind(pc["httpd"])' /\ NewIpKept(newIp, sent.newIp)'
    BY <2>1, <2>2 DEF Behind, NewIpKept
  <2>5. (sent = SentIs)' /\ (kept = KeptIs)'
    BY <2>2 DEF KeptInv, SentIs, KeptIs
  <2> QED
    BY <2>3, <2>4, <2>5 DEF KeptInv
<1>6. ASSUME OtherNext, UNCHANGED <<sent, kept>> PROVE KeptInv'
  <2>1. Behind(pc'["httpd"])
    BY <1>6, SavingGoesOn DEF KeptInv, Behind, SavePcs
  <2>2. CASE UNCHANGED settings
    BY <1>1, <1>6, <2>1, <2>2 DEF settings, KeptInv
  <2>3. ASSUME NEW p \in Restarters, RestartSwitch(p) PROVE KeptInv'
    <3>1. /\ conf' = [conf EXCEPT !.mode = want[p]]
          /\ nvs' = [nvs EXCEPT !.mode = want[p]] \/ nvs' = nvs
          /\ newIp' = newIp
      BY <2>3 DEF RestartSwitch
    <3>2. Kept(conf', sent) /\ Kept(nvs', kept)
      BY <1>a, <3>1 DEF KeptInv, Kept, Settings
    <3> QED
      BY <1>1, <1>6, <2>1, <3>1, <3>2
  <2> QED
    BY <1>6, <2>2, <2>3, SettingsKept
<1>7. CASE UNCHANGED directVars
  BY <1>7 DEF directVars, vars, settings, tasks, KeptInv, Kept, NewIpKept,
              Behind, SentIs, KeptIs
<1> QED
  BY <1>2, <1>3, <1>4, <1>5, <1>6, <1>7 DEF DirectNext

\* Behind KeptInv: what the app is shown and may ask about is what is kept.
LEMMA KeptIsStored ==
  ASSUME TypeOK, KeptInv
  PROVE  StoredAsSent
<1>1. conf \in Settings
  BY DEF TypeOK
<1>2. /\ conf.ap = sent.ap /\ conf.sta = sent.sta /\ conf.ap \in ApConfigs
      /\ conf.ip = NoIp <=> sent.ip = NoIp
      /\ sent.ip # NoIp => Shown(conf.ip) = sent.ip
  BY <1>1 DEF KeptInv, Kept, Settings
<1>3. ASSUME NEW cmd \in Commands, Asked(cmd, "validate")
      PROVE  CredentialsOk(Received[cmd].args)
               <=> <<sent.ap.ssid, sent.ap.password>> = Written(cmd)
  BY <1>2, <1>3, MessagesDecode DEF DecodesAsSent, CredentialsOk
<1>4. /\ Info.ap = conf.ap.ssid /\ Info.sta = conf.sta.ssid
      /\ conf.ip # NoIp => Info.ip = Shown(conf.ip)
  BY DEF Info
<1>5. Behind(pc["httpd"])
  BY DEF KeptInv
<1> QED
  BY <1>2, <1>3, <1>4, <1>5 DEF StoredAsSent, Behind

\* The settings, in memory and once saved after a power cycle too, are what was
\* sent in the last messages that were not refused and whose texts fit, and the
\* app is told so: the decoder, the handlers of direct messages, the setters and
\* begin.
THEOREM SettingsAreAsSent == DirectSpec => []StoredAsSent
<1>1. DirectInit => KeptInv
  BY AsleepTypes DEF DirectInit, Init, Defaults, KeptInv, Kept, NewIpKept, Behind,
    SentIs, KeptIs, Restarters
<1>2. TypeOK /\ KeptInv /\ [DirectNext]_directVars => KeptInv'
  BY KeptStep
<1>3. TypeOK /\ KeptInv => StoredAsSent
  BY KeptIsStored
<1>4. DirectSpec => []TypeOK
  BY DirectImplementsWifi, WifiTypeCorrect, PTL
<1> QED
  BY <1>1, <1>2, <1>3, <1>4, PTL DEF DirectSpec

=============================================================================
