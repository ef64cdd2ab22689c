------------------------ MODULE CandleHistoryProofs ------------------------
(***************************************************************************)
(* Proofs about the candle cache, for any timeframes, intervals and        *)
(* numbers of bars: its types, that what is cached for an account is of    *)
(* one load, and that a merge which began inside the cached series gives   *)
(* what a full load would have given.                                      *)
(***************************************************************************)
EXTENDS CandleHistory, FiniteSetTheorems, WellFoundedInduction, TLAPS

----------------------------------------------------------------------------
(* Sets of instants                                                        *)

(* Every set of numbers has a least one.                                   *)
LEMMA Least ==
    ASSUME NEW T \in SUBSET Nat, T # {}
    PROVE  \E x \in T : \A y \in T : x <= y
<1> DEFINE R == {ss \in Nat \X Nat : ss[1] < ss[2]}
<1>1. IsWellFoundedOn(R, Nat)
  BY NatLessThanWellFounded DEF OpToRel
<1>2. PICK x \in T : \A y \in T : <<y, x>> \notin R
  BY <1>1, WFMin
<1>3. ASSUME NEW y \in T PROVE x <= y
  <2>1. x \in Nat /\ y \in Nat
    OBVIOUS
  <2>2. y < x => <<y, x>> \in R
    BY <2>1
  <2>3. QED
    BY <1>2, <2>1, <2>2
<1>4. QED
  BY <1>3

(* Every set of instants has a greatest one.                               *)
LEMMA GreatestIs ==
    ASSUME NEW S \in SUBSET Instants, S # {}
    PROVE  Greatest(S) \in S /\ \A y \in S : y <= Greatest(S)
<1> DEFINE T == {MaxClock - x : x \in S}
<1>1. MaxClock \in Nat /\ \A x \in S : x \in Nat /\ x <= MaxClock
  BY HistoryAssumption DEF Instants
<1>2. T \in SUBSET Nat /\ T # {}
  BY <1>1
<1>3. PICK m \in T : \A y \in T : m <= y
  BY <1>2, Least
<1>4. PICK x \in S : m = MaxClock - x
  OBVIOUS
<1>5. \A y \in S : y <= x
  <2>1. TAKE y \in S
  <2>2. MaxClock - y \in T
    OBVIOUS
  <2>3. QED
    BY <1>1, <1>3, <1>4, <2>2
<1>6. QED
  BY <1>5 DEF Greatest

(* Sets of instants are finite, and larger ones have more elements.        *)
LEMMA InstantSets ==
    ASSUME NEW S \in SUBSET Instants, NEW T \in SUBSET S
    PROVE  /\ IsFiniteSet(S) /\ IsFiniteSet(T)
           /\ Cardinality(S) \in Nat /\ Cardinality(T) \in Nat
           /\ Cardinality(T) <= Cardinality(S)
<1>1. IsFiniteSet(Instants)
  BY HistoryAssumption, FS_Interval DEF Instants
<1>2. IsFiniteSet(S)
  BY <1>1, FS_Subset
<1>3. QED
  BY <1>2, FS_Subset, FS_CardinalityType

(* The newest elements of a set are closed upwards.                        *)
LEMMA NewestUpward ==
    ASSUME NEW B \in SUBSET Instants, NEW n \in Nat,
           NEW t \in Newest(B, n), NEW u \in B, u > t
    PROVE  u \in Newest(B, n)
<1>1. t \in B /\ Cardinality({v \in B : v > t}) < n
  BY DEF Newest
<1>2. t \in Nat /\ u \in Nat /\ \A v \in B : v \in Nat
  BY <1>1 DEF Instants
<1>3. {v \in B : v > u} \subseteq {v \in B : v > t}
  <2>1. ASSUME NEW v \in B, v > u PROVE v > t
    BY <1>2, <2>1
  <2>2. QED
    BY <2>1
<1>4. Cardinality({v \in B : v > u}) <= Cardinality({v \in B : v > t})
  BY <1>3, InstantSets
<1>5. /\ Cardinality({v \in B : v > u}) \in Nat
      /\ Cardinality({v \in B : v > t}) \in Nat
  BY <1>3, InstantSets
<1>6. Cardinality({v \in B : v > u}) < n
  BY <1>1, <1>4, <1>5
<1>7. QED
  BY <1>6 DEF Newest

(* A subset that is closed upwards and has the newest elements has the     *)
(* same newest elements.                                                   *)
LEMMA NewestOfUpper ==
    ASSUME NEW B \in SUBSET Instants, NEW D \in SUBSET B, NEW n \in Nat,
           Newest(B, n) \subseteq D,
           \A t \in D, u \in B : u > t => u \in D
    PROVE  Newest(D, n) = Newest(B, n)
<1>1. \A t \in D : {u \in D : u > t} = {u \in B : u > t}
  OBVIOUS
<1>2. QED
  BY <1>1 DEF Newest

(* The newest n of a set that is not empty are between one and n.          *)
LEMMA NewestCount ==
    ASSUME NEW B \in SUBSET Instants, B # {}, NEW n \in Nat \ {0}
    PROVE  /\ Greatest(B) \in Newest(B, n)
           /\ Cardinality(Newest(B, n)) \in 1 .. n
<1> DEFINE N == Newest(B, n)
<1>0. N \in SUBSET B /\ \A v \in B : v \in Nat
  BY DEF Newest, Instants
<1>1. Greatest(B) \in N
  <2>1. {u \in B : u > Greatest(B)} = {}
    BY <1>0, GreatestIs
  <2>2. QED
    BY <2>1, FS_EmptySet, GreatestIs DEF Newest
<1>2. IsFiniteSet(N) /\ Cardinality(N) \in Nat
  BY <1>0, InstantSets
<1>3. Cardinality(N) # 0
  BY <1>1, <1>2, FS_EmptySet
<1>4. Cardinality(N) <= n
  <2>1. PICK m \in N : \A y \in N : m <= y
    <3>1. N \in SUBSET Nat /\ N # {}
      BY <1>0, <1>1
    <3>2. QED
      BY <3>1, Least
  <2>2. N \ {m} \subseteq {u \in B : u > m}
    BY <1>0, <2>1
  <2>3. Cardinality({u \in B : u > m}) < n
    BY <2>1 DEF Newest
  <2>4. /\ Cardinality(N \ {m}) <= Cardinality({u \in B : u > m})
        /\ Cardinality(N \ {m}) \in Nat /\ Cardinality({u \in B : u > m}) \in Nat
    BY <2>2, InstantSets
  <2>5. Cardinality(N \ {m}) = Cardinality(N) - 1
    BY <1>2, <2>1, FS_RemoveElement
  <2>6. QED
    BY <1>2, <2>3, <2>4, <2>5
<1>5. QED
  BY <1>1, <1>2, <1>3, <1>4

----------------------------------------------------------------------------
(* Bars                                                                    *)

(* Bars follow one another as their quotes do.                             *)
LEMMA BarOrder ==
    ASSUME NEW tf \in Timeframes, NEW q \in Nat, NEW p \in Nat
    PROVE  /\ BarOf(tf, q) \in Nat /\ BarOf(tf, q) <= q
           /\ q <= p => BarOf(tf, q) <= BarOf(tf, p)
<1>1. Interval[tf] \in Nat \ {0}
  BY HistoryAssumption
<1>2. ASSUME NEW n \in Nat \ {0}
      PROVE  /\ (q \div n) * n \in Nat /\ (q \div n) * n <= q
             /\ q <= p => (q \div n) * n <= (p \div n) * n
  OBVIOUS
<1>3. QED
  BY <1>1, <1>2 DEF BarOf

LEMMA BarTimesType ==
    ASSUME NEW tf \in Timeframes, NEW K \in SUBSET Instants
    PROVE  BarTimes(tf, K) \in SUBSET Instants
<1>1. \A q \in K : BarOf(tf, q) \in Nat /\ BarOf(tf, q) <= q /\ q \in Nat /\ q <= MaxClock
  BY BarOrder DEF Instants
<1>2. QED
  BY <1>1, HistoryAssumption DEF BarTimes, Instants

(* A series is a history, as long as asked for and never empty.            *)
LEMMA SeriesType ==
    ASSUME NEW tf \in Timeframes, NEW a \in Accounts, NEW K \in SUBSET Instants, K # {},
           NEW n \in Nat \ {0}
    PROVE  /\ Series(tf, a, K, n) \in Histories
           /\ DOMAIN Series(tf, a, K, n) = Newest(BarTimes(tf, K), n)
           /\ DOMAIN Series(tf, a, K, n) # {}
<1> DEFINE N == Newest(BarTimes(tf, K), n)
<1>1. BarTimes(tf, K) \in SUBSET Instants /\ BarTimes(tf, K) # {}
  BY BarTimesType DEF BarTimes
<1>2. N \in SUBSET Instants /\ N # {} /\ N \subseteq BarTimes(tf, K)
  BY <1>1, NewestCount DEF Newest
<1>3. ASSUME NEW t \in N PROVE Candle(tf, a, t, K) \in Candles
  <2>1. BarQuotes(tf, t, K) \in SUBSET Instants /\ BarQuotes(tf, t, K) # {}
    BY <1>2 DEF BarQuotes, BarTimes
  <2>2. QED
    BY <2>1, GreatestIs DEF Candle, Candles
<1>4. Series(tf, a, K, n) \in [N -> Candles]
  BY <1>3 DEF Series
<1>5. QED
  BY <1>2, <1>4 DEF Histories

\* What was known earlier is the beginning of what is known later.
Earlier(K, M) == K \subseteq M /\ \A q \in M \ K, p \in K : p < q

(* A bar with a later one behind it is closed: later quotes neither change *)
(* it nor bring it forth.                                                  *)
LEMMA ClosedBar ==
    ASSUME NEW tf \in Timeframes, NEW K \in SUBSET Instants, NEW M \in SUBSET Instants,
           Earlier(K, M), NEW u \in BarTimes(tf, K), NEW t \in Instants, t < u
    PROVE  /\ BarQuotes(tf, t, K) = BarQuotes(tf, t, M)
           /\ t \in BarTimes(tf, M) => t \in BarTimes(tf, K)
<1>1. PICK p \in K : u = BarOf(tf, p)
  BY DEF BarTimes
<1>2. ASSUME NEW q \in M, BarOf(tf, q) = t
      PROVE  q \in K
  <2>1. SUFFICES ASSUME q \notin K PROVE FALSE
    OBVIOUS
  <2>2. p < q /\ p \in Nat /\ q \in Nat
    BY <2>1 DEF Earlier, Instants
  <2>3. u <= t
    BY <1>1, <1>2, <2>2, BarOrder
  <2>4. u \in Nat /\ t \in Nat
    BY <1>1, <2>2, BarOrder DEF Instants
  <2>5. QED
    BY <2>3, <2>4
<1>3. BarQuotes(tf, t, K) = BarQuotes(tf, t, M)
  BY <1>2 DEF BarQuotes, Earlier
<1>4. QED
  BY <1>2, <1>3 DEF BarTimes

(* Cutting a series to its own length leaves it as it is.                  *)
LEMMA SeriesIsNewest ==
    ASSUME NEW tf \in Timeframes, NEW a \in Accounts, NEW K \in SUBSET Instants, K # {},
           NEW n \in Nat \ {0}
    PROVE  KeepNewest(Series(tf, a, K, n), n) = Series(tf, a, K, n)
<1> DEFINE B == BarTimes(tf, K)
<1>1. B \in SUBSET Instants
  BY BarTimesType
<1>2. Newest(B, n) \in SUBSET B
  BY DEF Newest
<1>3. \A t \in Newest(B, n), u \in B : u > t => u \in Newest(B, n)
  BY <1>1, NewestUpward
<1>4. Newest(Newest(B, n), n) = Newest(B, n)
  BY <1>1, <1>2, <1>3, NewestOfUpper
<1>5. QED
  BY <1>4 DEF Series, KeepNewest, Restrict

(* The heart of the cache: a tail that begins inside the cached series and *)
(* is not older yields, merged, the series of the newer read.              *)
LEMMA MergeIsSeries ==
    ASSUME NEW tf \in Timeframes, NEW a \in Accounts, NEW n \in Nat \ {0},
           NEW K \in SUBSET Instants, K # {}, NEW M \in SUBSET Instants, M # {},
           Earlier(K, M) \/ Earlier(M, K),
           NEW cached, cached = Series(tf, a, K, n),
           NEW tail, tail = Series(tf, a, M, TailBars),
           DOMAIN tail \cap DOMAIN cached # {}, ~Regressed(cached, tail)
    PROVE  Merged(cached, tail, n) = Series(tf, a, M, n)
<1> DEFINE B == BarTimes(tf, K)
           A == BarTimes(tf, M)
           C == DOMAIN cached
           T == DOMAIN tail
           D == C \cup T
<1>1. /\ A \in SUBSET Instants /\ B \in SUBSET Instants /\ A # {} /\ B # {}
      /\ C = Newest(B, n) /\ T = Newest(A, TailBars) /\ C # {} /\ T # {}
      /\ C \subseteq B /\ T \subseteq A
      /\ TailBars \in Nat \ {0}
  <2>1. TailBars \in Nat \ {0}
    BY DEF TailBars
  <2>2. C = Newest(B, n) /\ T = Newest(A, TailBars) /\ C # {} /\ T # {}
    BY <2>1, SeriesType
  <2>3. QED
    BY <2>1, <2>2, BarTimesType DEF Newest, BarTimes
<1>2. B \subseteq A
  <2>1. CASE Earlier(K, M)
    BY <2>1 DEF Earlier, BarTimes
  <2>2. CASE Earlier(M, K)
    <3>1. Greatest(B) \in C
      BY <1>1, NewestCount
    <3>2. Greatest(C) \in C /\ \A t \in C : t <= Greatest(C)
      BY <1>1, GreatestIs
    <3>3. Greatest(T) \in T
      BY <1>1, GreatestIs
    <3>4. Greatest(C) <= Greatest(T)
      BY <1>1, <3>2, <3>3 DEF Regressed, Last, Instants
    <3>5. ASSUME NEW t \in B PROVE t \in A
      <4>1. t <= Greatest(B)
        BY <1>1, GreatestIs
      <4>2. t <= Greatest(T)
        BY <1>1, <3>1, <3>2, <3>3, <3>4, <4>1 DEF Instants
      <4>3. CASE t = Greatest(T)
        BY <1>1, <3>3, <4>3
      <4>4. CASE t < Greatest(T)
        BY <1>1, <2>2, <3>3, <4>4, ClosedBar
      <4>5. QED
        BY <1>1, <3>3, <4>2, <4>3, <4>4 DEF Instants
    <3>6. QED
      BY <3>5
  <2>3. QED
    BY <2>1, <2>2
<1>3. PICK x \in T : x \in C
  OBVIOUS
<1>4. \A t \in A : t \notin T => t < x
  <2>1. TAKE t \in A
  <2>2. t > x => t \in T
    BY <1>1, <1>3, NewestUpward
  <2>3. t \in Nat /\ x \in Nat
    BY <1>1 DEF Instants
  <2>4. QED
    BY <2>2, <2>3
<1>5. \A t \in Instants : t < x =>
        /\ BarQuotes(tf, t, K) = BarQuotes(tf, t, M)
        /\ t \in A => t \in B
  <2>1. x \in A /\ x \in B
    BY <1>1, <1>3
  <2>2. CASE Earlier(K, M)
    BY <2>1, <2>2, ClosedBar
  <2>3. CASE Earlier(M, K)
    <3>1. A \subseteq B
      BY <2>3 DEF Earlier, BarTimes
    <3>2. QED
      BY <2>1, <2>3, <3>1, ClosedBar
  <2>4. QED
    BY <2>2, <2>3
<1>6. \A t \in D, u \in A : u > t => u \in D
  <2>1. TAKE t \in D, u \in A
  <2>2. SUFFICES ASSUME u > t, u \notin T PROVE u \in C
    OBVIOUS
  <2>3. u < x /\ u \in B
    BY <1>1, <1>4, <1>5, <2>2
  <2>4. t \in C
    BY <1>1, <2>2, NewestUpward
  <2>5. QED
    BY <1>1, <2>2, <2>3, <2>4, NewestUpward
<1>7. Newest(A, n) \subseteq D
  <2>1. SUFFICES ASSUME NEW t \in Newest(A, n), t \notin T PROVE t \in C
    OBVIOUS
  <2>2. t \in A /\ t \in B
    BY <1>1, <1>4, <1>5, <2>1 DEF Newest
  <2>3. {u \in B : u > t} \subseteq {u \in A : u > t}
    BY <1>2
  <2>4. /\ Cardinality({u \in B : u > t}) <= Cardinality({u \in A : u > t})
        /\ Cardinality({u \in B : u > t}) \in Nat
        /\ Cardinality({u \in A : u > t}) \in Nat
    BY <1>1, <2>3, InstantSets
  <2>5. Cardinality({u \in A : u > t}) < n
    BY <2>1 DEF Newest
  <2>6. Cardinality({u \in B : u > t}) < n
    BY <2>4, <2>5
  <2>7. QED
    BY <1>1, <2>2, <2>6 DEF Newest
<1>8. Newest(D, n) = Newest(A, n)
  <2>1. D \in SUBSET A
    BY <1>1, <1>2
  <2>2. QED
    BY <1>1, <1>6, <1>7, <2>1, NewestOfUpper
<1>9. ASSUME NEW t \in D
      PROVE  Overlaid(cached, tail)[t] = Candle(tf, a, t, M)
  <2>1. CASE t \in T
    <3>1. Overlaid(cached, tail)[t] = tail[t]
      BY <2>1 DEF Overlaid
    <3>2. tail[t] = Candle(tf, a, t, M)
      BY <1>1, <2>1 DEF Series
    <3>3. QED
      BY <3>1, <3>2
  <2>2. CASE t \notin T
    <3>1. t \in C /\ t \in Instants /\ t < x
      BY <1>1, <1>2, <1>4, <2>2
    <3>2. Overlaid(cached, tail)[t] = Candle(tf, a, t, K)
      <4>1. Overlaid(cached, tail)[t] = cached[t]
        BY <2>2, <3>1 DEF Overlaid
      <4>2. cached[t] = Candle(tf, a, t, K)
        BY <1>1, <3>1 DEF Series
      <4>3. QED
        BY <4>1, <4>2
    <3>3. QED
      BY <1>5, <3>1, <3>2 DEF Candle
  <2>3. QED
    BY <2>1, <2>2
<1>10. DOMAIN Overlaid(cached, tail) = D
  BY DEF Overlaid
<1>11. Merged(cached, tail, n) = [t \in Newest(A, n) |-> Overlaid(cached, tail)[t]]
  BY <1>8, <1>10 DEF Merged, KeepNewest, Restrict
<1>12. QED
  BY <1>7, <1>9, <1>11 DEF Series

----------------------------------------------------------------------------
(* Entries and reads                                                       *)

\* What is known of the quotes Q at an instant.
Seen(Q, asOf) == {q \in Q : q <= asOf}

\* An entry at instant c, after quotes Q: of one account's timeframe, no longer
\* than asked for, and a full history as long as its tails overlapped.
SoundEntry(c, Q, a, tf, e) ==
    /\ e \in Entries
    /\ Cardinality(DOMAIN e.bars) \in 1 .. e.count
    /\ e.asOf <= c
    /\ ~MidScanSwitch /\ e.overlapped =>
          /\ Seen(Q, e.asOf) # {}
          /\ e.bars = Series(tf, a, Seen(Q, e.asOf), e.count)

Responses == [bars : Histories \cup {Garbled}, asOf : Instants]

\* A read of n bars while the terminal is logged in to s.
SoundRead(c, Q, s, n, tf, r) ==
    /\ r \in Responses
    /\ r.asOf <= c
    /\ Seen(Q, r.asOf) # {}
    /\ \/ r.bars = Garbled
       \/ \E a \in Accounts :
            /\ r.bars = Series(tf, a, Seen(Q, r.asOf), n)
            /\ ~MidScanSwitch => a = s

(* Two reads differ by the quotes between them.                            *)
LEMMA SeenInOrder ==
    ASSUME NEW Q \in SUBSET Instants, NEW m \in Instants, NEW n \in Instants
    PROVE  /\ Seen(Q, m) \in SUBSET Instants
           /\ Earlier(Seen(Q, m), Seen(Q, n)) \/ Earlier(Seen(Q, n), Seen(Q, m))
<1>1. \A q \in Q : q \in Nat /\ m \in Nat /\ n \in Nat
  BY DEF Instants
<1>2. m <= n \/ n <= m
  BY DEF Instants
<1>3. QED
  BY <1>1, <1>2 DEF Seen, Earlier

(* A later quote changes nothing that was read before.                     *)
LEMMA QuoteKeeps ==
    ASSUME NEW c \in Instants, NEW d \in Instants, c < d, NEW Q \in SUBSET (0 .. c)
    PROVE  /\ \A a, tf, e : SoundEntry(c, Q, a, tf, e) =>
                                SoundEntry(d, Q \cup {d}, a, tf, e)
           /\ \A s, n, tf, r : SoundRead(c, Q, s, n, tf, r) =>
                                SoundRead(d, Q \cup {d}, s, n, tf, r)
<1>1. c \in Nat /\ d \in Nat
  BY DEF Instants
<1>2. ASSUME NEW m \in Instants, m <= c
      PROVE  m <= d /\ Seen(Q \cup {d}, m) = Seen(Q, m)
  BY <1>1, <1>2 DEF Seen, Instants
<1>3. ASSUME NEW a, NEW tf, NEW e, SoundEntry(c, Q, a, tf, e)
      PROVE  SoundEntry(d, Q \cup {d}, a, tf, e)
  <2>1. e.asOf \in Instants /\ e.asOf <= c
    BY <1>3 DEF SoundEntry, Entries
  <2>2. e.asOf <= d /\ Seen(Q \cup {d}, e.asOf) = Seen(Q, e.asOf)
    BY <1>2, <2>1
  <2>3. QED
    BY <1>3, <2>2 DEF SoundEntry
<1>4. ASSUME NEW s, NEW n, NEW tf, NEW r, SoundRead(c, Q, s, n, tf, r)
      PROVE  SoundRead(d, Q \cup {d}, s, n, tf, r)
  <2>1. r.asOf \in Instants /\ r.asOf <= c
    BY <1>4 DEF SoundRead, Responses
  <2>2. r.asOf <= d /\ Seen(Q \cup {d}, r.asOf) = Seen(Q, r.asOf)
    BY <1>2, <2>1
  <2>3. QED
    BY <1>4, <2>2 DEF SoundRead
<1>5. QED
  BY <1>3, <1>4

(* The newest part of a history that is not empty is one, of the right     *)
(* length.                                                                 *)
LEMMA KeepNewestType ==
    ASSUME NEW h \in Histories, DOMAIN h # {}, NEW n \in Nat \ {0}
    PROVE  /\ KeepNewest(h, n) \in Histories
           /\ Cardinality(DOMAIN KeepNewest(h, n)) \in 1 .. n
<1>1. PICK S \in SUBSET Instants : h \in [S -> Candles]
  BY DEF Histories
<1>2. DOMAIN h = S
  BY <1>1
<1>3. Newest(S, n) \in SUBSET S
  BY DEF Newest
<1>4. KeepNewest(h, n) \in [Newest(S, n) -> Candles]
  BY <1>1, <1>2, <1>3 DEF KeepNewest, Restrict
<1>5. Newest(S, n) \in SUBSET Instants
  BY <1>3
<1>6. KeepNewest(h, n) \in Histories
  BY <1>4, <1>5 DEF Histories
<1>7. DOMAIN KeepNewest(h, n) = Newest(S, n)
  BY <1>4
<1>8. QED
  BY <1>2, <1>6, <1>7, NewestCount

LEMMA OverlaidType ==
    ASSUME NEW g \in Histories, NEW h \in Histories
    PROVE  Overlaid(g, h) \in Histories /\ DOMAIN Overlaid(g, h) = DOMAIN g \cup DOMAIN h
<1>1. PICK S \in SUBSET Instants, T \in SUBSET Instants :
        g \in [S -> Candles] /\ h \in [T -> Candles]
  BY DEF Histories
<1>2. Overlaid(g, h) \in [S \cup T -> Candles] /\ S \cup T \in SUBSET Instants
  BY <1>1 DEF Overlaid
<1>3. QED
  BY <1>1, <1>2 DEF Histories

(* An entry is a record of its parts.                                      *)
LEMMA EntryType ==
    ASSUME NEW n \in Counts, NEW bars \in Histories, NEW asOf \in Instants,
           NEW overlapped \in BOOLEAN, NEW turn \in {0, 1}
    PROVE  /\ Entry(n, bars, asOf, overlapped, turn) \in Entries
           /\ Entry(n, bars, asOf, overlapped, turn).count = n
           /\ Entry(n, bars, asOf, overlapped, turn).bars = bars
           /\ Entry(n, bars, asOf, overlapped, turn).asOf = asOf
           /\ Entry(n, bars, asOf, overlapped, turn).overlapped = overlapped
           /\ Entry(n, bars, asOf, overlapped, turn).turn = turn
BY DEF Entry, Entries

(* A full history makes a sound entry.                                     *)
LEMMA FullIsSound ==
    ASSUME NEW c \in Instants, NEW Q \in SUBSET Instants, NEW a \in Accounts,
           NEW tf \in Timeframes, NEW n \in Counts, NEW s, NEW r, NEW k \in {0, 1},
           SoundRead(c, Q, s, n, tf, r), r.bars # Garbled, ~MidScanSwitch => a = s
    PROVE  SoundEntry(c, Q, a, tf, Entry(n, KeepNewest(r.bars, n), r.asOf, TRUE, k))
<1>0. n \in Nat \ {0}
  BY HistoryAssumption
<1>1. r.bars \in Histories /\ r.asOf \in Instants /\ r.asOf <= c /\ Seen(Q, r.asOf) # {}
  BY DEF SoundRead, Responses
<1>2. PICK b \in Accounts : /\ r.bars = Series(tf, b, Seen(Q, r.asOf), n)
                            /\ ~MidScanSwitch => b = s
  BY DEF SoundRead
<1>3. Seen(Q, r.asOf) \in SUBSET Instants
  BY DEF Seen
<1>4. DOMAIN r.bars # {}
  <2>1. DOMAIN Series(tf, b, Seen(Q, r.asOf), n) # {}
    BY <1>0, <1>1, <1>3, SeriesType
  <2>2. QED
    BY <1>2, <2>1
<1>5. /\ KeepNewest(r.bars, n) \in Histories
      /\ Cardinality(DOMAIN KeepNewest(r.bars, n)) \in 1 .. n
  BY <1>0, <1>1, <1>4, KeepNewestType
<1>6. KeepNewest(r.bars, n) = r.bars
  BY <1>0, <1>1, <1>2, <1>3, SeriesIsNewest
<1>7. ~MidScanSwitch => r.bars = Series(tf, a, Seen(Q, r.asOf), n)
  BY <1>2
<1>8. ASSUME NEW o \in BOOLEAN
      PROVE  SoundEntry(c, Q, a, tf, Entry(n, KeepNewest(r.bars, n), r.asOf, o, k))
  <2>1. ~MidScanSwitch =>
            KeepNewest(r.bars, n) = Series(tf, a, Seen(Q, r.asOf), n)
    BY <1>6, <1>7
  <2>2. QED
    BY <1>1, <1>5, <2>1, EntryType DEF SoundEntry
<1>9. QED
  BY <1>8

(* A usable tail merged into a sound entry makes a sound entry.            *)
LEMMA MergeIsSound ==
    ASSUME NEW c \in Instants, NEW Q \in SUBSET Instants, NEW a \in Accounts,
           NEW tf \in Timeframes, NEW e, SoundEntry(c, Q, a, tf, e), NEW s, NEW r,
           SoundRead(c, Q, s, TailBars, tf, r), ~MidScanSwitch => a = s,
           TailUsable(tf, e.bars, r.bars),
           NEW o \in BOOLEAN, o => e.overlapped /\ DOMAIN r.bars \cap DOMAIN e.bars # {},
           NEW k \in {0, 1}
    PROVE  SoundEntry(c, Q, a, tf, Entry(e.count, Merged(e.bars, r.bars, e.count),
                                         r.asOf, o, k))
<1>0. /\ TailBars \in Nat \ {0} /\ e.count \in Counts /\ e.count \in Nat \ {0}
      /\ e.asOf \in Instants /\ e.bars \in Histories /\ e.overlapped \in BOOLEAN
  <2>1. e \in Entries
    BY DEF SoundEntry
  <2>2. /\ e.count \in Counts /\ e.asOf \in Instants
        /\ e.bars \in Histories /\ e.overlapped \in BOOLEAN
    BY <2>1 DEF Entries
  <2>3. e.count \in Nat \ {0}
    BY <2>2, HistoryAssumption
  <2>4. TailBars \in Nat \ {0}
    BY DEF TailBars
  <2>5. QED
    BY <2>2, <2>3, <2>4
<1>1. r.bars \in Histories /\ r.asOf \in Instants /\ r.asOf <= c /\ Seen(Q, r.asOf) # {}
  BY DEF SoundRead, Responses, TailUsable
<1>2. PICK b \in Accounts : /\ r.bars = Series(tf, b, Seen(Q, r.asOf), TailBars)
                            /\ ~MidScanSwitch => b = s
  BY DEF SoundRead, TailUsable
<1>3. Seen(Q, r.asOf) \in SUBSET Instants /\ Seen(Q, e.asOf) \in SUBSET Instants
  BY DEF Seen
<1>4. DOMAIN r.bars # {}
  BY <1>0, <1>1, <1>2, <1>3, SeriesType
<1>5. /\ Overlaid(e.bars, r.bars) \in Histories
      /\ DOMAIN Overlaid(e.bars, r.bars) # {}
  BY <1>0, <1>1, <1>4, OverlaidType
<1>6. /\ Merged(e.bars, r.bars, e.count) \in Histories
      /\ Cardinality(DOMAIN Merged(e.bars, r.bars, e.count)) \in 1 .. e.count
  BY <1>0, <1>5, KeepNewestType DEF Merged
<1>7. ASSUME ~MidScanSwitch, o
      PROVE  Merged(e.bars, r.bars, e.count)
                = Series(tf, a, Seen(Q, r.asOf), e.count)
  <2>1. /\ Seen(Q, e.asOf) # {} /\ e.bars = Series(tf, a, Seen(Q, e.asOf), e.count)
        /\ DOMAIN r.bars \cap DOMAIN e.bars # {}
    BY <1>7 DEF SoundEntry
  <2>2. r.bars = Series(tf, a, Seen(Q, r.asOf), TailBars)
    BY <1>2, <1>7
  <2>3. ~Regressed(e.bars, r.bars)
    BY DEF TailUsable
  <2>4. Earlier(Seen(Q, e.asOf), Seen(Q, r.asOf))
            \/ Earlier(Seen(Q, r.asOf), Seen(Q, e.asOf))
    BY <1>0, <1>1, SeenInOrder
  <2>5. QED
    BY <1>0, <1>1, <1>3, <2>1, <2>2, <2>3, <2>4, MergeIsSeries
<1>8. QED
  BY <1>0, <1>1, <1>6, <1>7, EntryType DEF SoundEntry

----------------------------------------------------------------------------
(* The invariant                                                           *)

Clocks == clock \in Instants /\ quotes \in SUBSET (0 .. clock)

\* A scan that knows its account runs on it, unless the user may switch.
Connection ==
    /\ terminal \in Accounts /\ scanning \in BOOLEAN
    /\ identity \in Accounts \cup {NoAccount} /\ active \in Accounts \cup {NoAccount}
    /\ identity # NoAccount => scanning /\ (~MidScanSwitch => identity = terminal)

Cached ==
    /\ entries \in [Accounts -> [Timeframes -> Entries \cup {None}]]
    /\ \A a \in Accounts, tf \in Timeframes : entries[a][tf] # None =>
            SoundEntry(clock, quotes, a, tf, entries[a][tf])

Loads ==
    [stage : {"idle", "tail", "full", "uncached"},
     counts : [Timeframes -> Counts \cup {0}], turn : {0, 1},
     reads : UNION {[S -> Responses] : S \in SUBSET Timeframes}]

Loading ==
    /\ load \in Loads
    /\ load.stage = "idle" => load = Idle
    /\ load.stage # "idle" => scanning /\ load.counts \in Requests
    /\ load.stage \in {"tail", "full"} => identity # NoAccount
    /\ load.stage = "tail" =>
          \A tf \in Timeframes : /\ entries[identity][tf] # None
                                 /\ entries[identity][tf].count = load.counts[tf]
    /\ \A tf \in DOMAIN load.reads :
          SoundRead(clock, quotes, terminal, Requested(tf), tf, load.reads[tf])

CInv == Clocks /\ Connection /\ Cached /\ Loading /\ OneLoad

(* Quotes are instants of the past.                                        *)
LEMMA ClocksType ==
    ASSUME CInv
    PROVE  /\ quotes \in SUBSET Instants /\ clock \in Instants
           /\ clock \in Nat /\ clock <= MaxClock
<1>1. clock \in Nat /\ clock <= MaxClock /\ clock \in Instants
  BY DEF CInv, Clocks, Instants
<1>2. \A q \in quotes : q \in 0 .. clock
  BY DEF CInv, Clocks
<1>3. \A q \in 0 .. clock : q \in Instants
  <2>1. MaxClock \in Nat
    BY HistoryAssumption
  <2>2. QED
    BY <1>1, <2>1 DEF Instants
<1>4. QED
  BY <1>1, <1>2, <1>3

(* A load under way asks for some bars.                                    *)
LEMMA RequestedType ==
    ASSUME CInv, load # Idle
    PROVE  /\ load.stage # "idle" /\ load.counts \in Requests
           /\ \A tf \in Timeframes : Requested(tf) \in Nat \ {0}
<1>1. load.stage # "idle" /\ load.counts \in Requests
  BY DEF CInv, Loading
<1>2. \A n \in Counts : n \in Nat \ {0}
  BY HistoryAssumption
<1>3. \A tf \in Timeframes : load.counts[tf] \in Counts
  BY <1>1 DEF Requests
<1>4. QED
  BY <1>1, <1>2, <1>3 DEF Requested, TailBars

(* A load that begins has read nothing.                                    *)
LEMMA ReadingType ==
    ASSUME NEW stage \in {"idle", "tail", "full", "uncached"},
           NEW request \in [Timeframes -> Counts \cup {0}], NEW k \in {0, 1}
    PROVE  /\ Reading(stage, request, k) \in Loads
           /\ Reading(stage, request, k).stage = stage
           /\ Reading(stage, request, k).counts = request
           /\ DOMAIN Reading(stage, request, k).reads = {}
<1>1. NoReads \in [{} -> Responses] /\ DOMAIN NoReads = {}
  BY DEF NoReads
<1>2. NoReads \in UNION {[S -> Responses] : S \in SUBSET Timeframes}
  BY <1>1
<1>3. QED
  BY <1>1, <1>2 DEF Reading, Loads

LEMMA IdleType == Idle \in Loads /\ Idle.stage = "idle" /\ DOMAIN Idle.reads = {}
<1>1. NoRequest \in [Timeframes -> Counts \cup {0}]
  BY DEF NoRequest
<1>2. QED
  BY <1>1, ReadingType DEF Idle

(* A request asks for a number of bars of every timeframe.                 *)
LEMMA RequestType ==
    ASSUME NEW request \in Requests
    PROVE  request \in [Timeframes -> Counts \cup {0}]
BY DEF Requests

(* Without a load under way nothing has been read.                         *)
LEMMA NotScanning ==
    ASSUME CInv, ~scanning
    PROVE  load = Idle /\ identity = NoAccount
BY DEF CInv, Loading, Connection

(* Time passes.                                                            *)
LEMMA QuoteCInv ==
    ASSUME CInv, Quote
    PROVE  CInv'
<1>1. PICK pause \in Pauses : clock + pause <= MaxClock /\ clock' = clock + pause
  BY DEF Quote
<1>2. /\ clock \in Instants /\ clock' \in Instants /\ clock < clock'
      /\ quotes' = quotes \cup {clock'} /\ quotes \in SUBSET (0 .. clock)
      /\ UNCHANGED <<terminal, identity, scanning, active, entries, load>>
  BY <1>1, HistoryAssumption DEF Quote, CInv, Clocks, Instants
<1>3. Clocks'
  BY <1>2 DEF Clocks, Instants
<1>4. Cached'
  <2>1. ASSUME NEW a \in Accounts, NEW tf \in Timeframes, entries[a][tf] # None
        PROVE  SoundEntry(clock', quotes', a, tf, entries[a][tf])
    <3>1. SoundEntry(clock, quotes, a, tf, entries[a][tf])
      BY <2>1 DEF CInv, Cached
    <3>2. QED
      BY <1>2, <3>1, QuoteKeeps
  <2>2. QED
    BY <1>2, <2>1 DEF CInv, Cached
<1>5. Loading'
  <2>1. ASSUME NEW tf \in DOMAIN load.reads
        PROVE  SoundRead(clock', quotes', terminal, Requested(tf), tf, load.reads[tf])
    <3>1. SoundRead(clock, quotes, terminal, Requested(tf), tf, load.reads[tf])
      BY DEF CInv, Loading
    <3>2. QED
      BY <1>2, <3>1, QuoteKeeps
  <2>2. \A tf : Requested(tf)' = Requested(tf)
    BY <1>2 DEF Requested
  <2>3. QED
    BY <1>2, <2>1, <2>2 DEF CInv, Loading
<1>6. QED
  BY <1>2, <1>3, <1>4, <1>5 DEF CInv, Connection, OneLoad

(* The user switches accounts, or a scan begins or ends.                   *)
LEMMA ScanCInv ==
    ASSUME CInv, SwitchAccount \/ StartScan \/ EndScan
    PROVE  CInv'
<1>1. UNCHANGED <<clock, quotes, active, entries, load>>
  BY DEF SwitchAccount, StartScan, EndScan
<1>2. Clocks' /\ Cached' /\ OneLoad'
  BY <1>1 DEF CInv, Clocks, Cached, OneLoad
<1>3. \A tf : Requested(tf)' = Requested(tf)
  BY <1>1 DEF Requested
<1>4. CASE SwitchAccount /\ scanning
  <2>1. /\ MidScanSwitch /\ terminal' \in Accounts
        /\ UNCHANGED <<identity, scanning>>
    BY <1>4 DEF SwitchAccount
  <2>2. \A tf \in DOMAIN load.reads :
            SoundRead(clock, quotes, terminal', Requested(tf), tf, load.reads[tf])
    BY <2>1 DEF CInv, Loading, SoundRead
  <2>3. Connection'
    BY <1>1, <2>1 DEF CInv, Connection
  <2>4. Loading'
    BY <1>1, <1>3, <2>1, <2>2 DEF CInv, Loading
  <2>5. QED
    BY <1>2, <2>3, <2>4 DEF CInv
<1>5. CASE load = Idle /\ identity' \in Accounts \cup {NoAccount} /\ scanning' \in BOOLEAN
             /\ terminal' \in Accounts
             /\ (identity' # NoAccount => scanning' /\ identity' = terminal')
  <2>1. Connection'
    BY <1>1, <1>5 DEF CInv, Connection
  <2>2. Loading'
    BY <1>1, <1>5, IdleType DEF Loading
  <2>3. QED
    BY <1>2, <2>1, <2>2 DEF CInv
<1>6. CASE SwitchAccount /\ ~scanning
  <2>1. /\ load = Idle /\ identity' = NoAccount /\ scanning' \in BOOLEAN
        /\ terminal' \in Accounts
    BY <1>6, NotScanning DEF SwitchAccount, CInv, Connection
  <2>2. QED
    BY <1>5, <2>1
<1>7. CASE StartScan
  BY <1>5, <1>7, NotScanning DEF StartScan, CInv, Connection
<1>8. CASE EndScan
  BY <1>5, <1>8 DEF EndScan, CInv, Connection
<1>9. QED
  BY <1>4, <1>6, <1>7, <1>8

(* A load that ends or starts over without storing.                        *)
LEMMA UnstoredCInv ==
    ASSUME CInv, (\E request \in Requests : BeginUncached(request)) \/ ReadFails \/ FallBack
                    \/ EndUnstored
    PROVE  CInv'
<1>1. UNCHANGED <<clock, quotes, terminal, identity, scanning, active, entries>>
  BY DEF BeginUncached, ReadFails, FallBack, EndUnstored
<1>2. Clocks' /\ Connection' /\ Cached' /\ OneLoad'
  BY <1>1 DEF CInv, Clocks, Connection, Cached, OneLoad
<1>3. CASE load' = Idle
  BY <1>2, <1>3, IdleType DEF CInv, Loading
<1>4. CASE \E request \in Requests : BeginUncached(request)
  <2>1. PICK request \in Requests : load' = Reading("uncached", request, 0) /\ scanning
    BY <1>4 DEF BeginUncached
  <2>2. QED
    BY <1>1, <1>2, <2>1, RequestType, ReadingType DEF CInv, Loading
<1>5. CASE FallBack
  <2>1. load' = Reading("full", load.counts, load.turn) /\ load.stage = "tail"
    BY <1>5 DEF FallBack
  <2>2. /\ load.counts \in Requests /\ load.turn \in {0, 1}
        /\ scanning /\ identity # NoAccount
    BY <2>1 DEF CInv, Loading, Loads
  <2>3. QED
    BY <1>1, <1>2, <2>1, <2>2, RequestType, ReadingType DEF CInv, Loading
<1>6. QED
  BY <1>3, <1>4, <1>5 DEF ReadFails, EndUnstored

(* A cached load begins: what cannot be used is dropped.                   *)
LEMMA BeginCInv ==
    ASSUME CInv, NEW request \in Requests, BeginCached(request)
    PROVE  CInv'
<1>1. /\ scanning /\ identity # NoAccount /\ identity \in Accounts /\ active' = identity
      /\ entries' = LookedUp(Activated(identity), identity, request)
      /\ load' = Reading(IF AllUsable(entries', identity) THEN "tail" ELSE "full",
                         request, TurnAfter(entries', identity))
      /\ UNCHANGED <<clock, quotes, terminal, identity, scanning>>
  BY DEF BeginCached, CInv, Connection
<1> DEFINE es == Activated(identity)
<1>2. /\ es \in [Accounts -> [Timeframes -> Entries \cup {None}]]
      /\ \A a \in Accounts, tf \in Timeframes : es[a][tf] # None =>
            es[a][tf] = entries[a][tf]
  BY DEF Activated, Empty, CInv, Cached
<1> HIDE DEF es
<1>3. \A tf \in Timeframes : entries'[identity][tf] =
            IF es[identity][tf] # None /\ es[identity][tf].count # request[tf]
            THEN None ELSE es[identity][tf]
  BY <1>1, <1>2 DEF LookedUp, es
<1>4. /\ entries' \in [Accounts -> [Timeframes -> Entries \cup {None}]]
      /\ \A a \in Accounts \ {identity} : entries'[a] = es[a]
  <2>1. [tf \in Timeframes |->
            IF es[identity][tf] # None /\ es[identity][tf].count # request[tf]
            THEN None ELSE es[identity][tf]]
            \in [Timeframes -> Entries \cup {None}]
    BY <1>1, <1>2
  <2>2. QED
    BY <1>1, <1>2, <2>1 DEF LookedUp, es
<1>5. \A a \in Accounts, tf \in Timeframes : entries'[a][tf] # None =>
            entries'[a][tf] = entries[a][tf]
  <2>1. TAKE a \in Accounts, tf \in Timeframes
  <2>2. CASE a = identity
    BY <1>2, <1>3, <2>2
  <2>3. CASE a # identity
    BY <1>2, <1>4, <2>3
  <2>4. QED
    BY <2>2, <2>3
<1>6. Cached'
  <2>1. ASSUME NEW a \in Accounts, NEW tf \in Timeframes, entries'[a][tf] # None
        PROVE  SoundEntry(clock, quotes, a, tf, entries'[a][tf])
    BY <1>5, <2>1 DEF CInv, Cached
  <2>2. QED
    BY <1>1, <1>4, <2>1 DEF Cached
<1>7. OneLoad'
  BY <1>5 DEF CInv, OneLoad
<1>8. Loading'
  <2>0. TurnAfter(entries', identity) \in {0, 1}
    BY DEF TurnAfter
  <2>1. CASE AllUsable(entries', identity)
    <3>1. load' = Reading("tail", request, TurnAfter(entries', identity))
      BY <1>1, <2>1
    <3>2. \A tf \in Timeframes : /\ entries'[identity][tf] # None
                                 /\ entries'[identity][tf].count = request[tf]
      BY <1>3, <2>1 DEF AllUsable
    <3>3. QED
      BY <1>1, <2>0, <3>1, <3>2, RequestType, ReadingType DEF Loading
  <2>2. CASE ~AllUsable(entries', identity)
    <3>1. load' = Reading("full", request, TurnAfter(entries', identity))
      BY <1>1, <2>2
    <3>2. QED
      BY <1>1, <2>0, <3>1, RequestType, ReadingType DEF Loading
  <2>3. QED
    BY <2>1, <2>2
<1>9. Clocks' /\ Connection'
  BY <1>1 DEF CInv, Clocks, Connection
<1>10. QED
  BY <1>6, <1>7, <1>8, <1>9 DEF CInv

(* A read brings a series of what its terminal knew, or garbage.           *)
LEMMA ReadCInv ==
    ASSUME CInv, NEW tf \in Timeframes, Read(tf)
    PROVE  CInv'
<1>1. /\ load # Idle /\ UNCHANGED <<clock, quotes, terminal, identity, scanning, active,
                                    entries>>
  BY DEF Read
<1>2. /\ load \in Loads /\ load.stage # "idle" /\ load.counts \in Requests
      /\ Requested(tf) \in Nat \ {0} /\ terminal \in Accounts
      /\ clock \in Nat /\ clock <= MaxClock /\ quotes \in SUBSET Instants
  BY <1>1, ClocksType, RequestedType DEF CInv, Loading, Connection
<1>a. PICK asOf \in (clock - MaxLag) .. clock :
        /\ Known(asOf) # {}
        /\ \E bars \in {Series(tf, terminal, Known(asOf), Requested(tf)), Garbled} :
            load' = [load EXCEPT !.reads =
                [t \in DOMAIN @ \cup {tf} |->
                    IF t = tf THEN [bars |-> bars, asOf |-> asOf] ELSE @[t]]]
  BY DEF Read
<1>3. PICK bars \in {Series(tf, terminal, Known(asOf), Requested(tf)), Garbled} :
            load' = [load EXCEPT !.reads =
                [t \in DOMAIN @ \cup {tf} |->
                    IF t = tf THEN [bars |-> bars, asOf |-> asOf] ELSE @[t]]]
  BY <1>a
<1> DEFINE r == [bars |-> bars, asOf |-> asOf]
<1>4. asOf \in Instants /\ asOf <= clock /\ Known(asOf) \in SUBSET Instants
      /\ Known(asOf) = Seen(quotes, asOf)
  <2>1. PICK q \in quotes : q <= asOf
    BY <1>a DEF Known
  <2>2. q \in Nat
    BY <1>2, <2>1 DEF Instants
  <2>3. asOf \in Int /\ asOf <= clock /\ 0 <= asOf
    BY <1>2, <2>1, <2>2, HistoryAssumption
  <2>4. asOf \in Instants
    BY <1>2, <2>3, HistoryAssumption DEF Instants
  <2>5. Known(asOf) = Seen(quotes, asOf) /\ Known(asOf) \subseteq quotes
    BY DEF Known, Seen
  <2>6. QED
    BY <1>2, <2>3, <2>4, <2>5
<1>5. r \in Responses /\ r.asOf = asOf /\ r.bars = bars
  <2>1. Series(tf, terminal, Known(asOf), Requested(tf)) \in Histories
    BY <1>2, <1>a, <1>4, SeriesType
  <2>2. QED
    BY <1>3, <1>4, <2>1 DEF Responses
<1>6. SoundRead(clock, quotes, terminal, Requested(tf), tf, r)
  <2>1. bars = Garbled \/ bars = Series(tf, terminal, Seen(quotes, asOf), Requested(tf))
    BY <1>3, <1>4
  <2>2. Seen(quotes, asOf) # {}
    BY <1>a, <1>4
  <2>3. QED
    BY <1>2, <1>4, <1>5, <2>1, <2>2 DEF SoundRead
<1> HIDE DEF r
<1>7. PICK S \in SUBSET Timeframes : load.reads \in [S -> Responses]
  BY <1>2 DEF Loads
<1> DEFINE reads == [t \in S \cup {tf} |-> IF t = tf THEN r ELSE load.reads[t]]
<1>8. load' = [load EXCEPT !.reads = reads]
  BY <1>3, <1>7 DEF r
<1>9. reads \in [S \cup {tf} -> Responses] /\ S \cup {tf} \in SUBSET Timeframes
  BY <1>5, <1>7
<1>10. /\ load' \in Loads /\ load'.stage = load.stage /\ load'.counts = load.counts
       /\ load'.reads = reads /\ DOMAIN reads = S \cup {tf}
  <2>1. reads \in UNION {[T -> Responses] : T \in SUBSET Timeframes}
    BY <1>9
  <2> HIDE DEF reads
  <2>2. QED
    BY <1>2, <1>8, <1>9, <2>1 DEF Loads
<1>11. \A t : Requested(t)' = Requested(t)
  BY <1>10 DEF Requested
<1>12. ASSUME NEW t \in DOMAIN reads
       PROVE  SoundRead(clock, quotes, terminal, Requested(t), t, reads[t])
  <2>1. CASE t = tf
    BY <1>6, <2>1
  <2>2. CASE t # tf
    <3>1. t \in DOMAIN load.reads /\ reads[t] = load.reads[t]
      BY <1>7, <2>2
    <3>2. QED
      BY <3>1 DEF CInv, Loading
  <2>3. QED
    BY <2>1, <2>2
<1> HIDE DEF reads
<1>13. Loading'
  BY <1>1, <1>2, <1>10, <1>11, <1>12 DEF CInv, Loading
<1>14. QED
  BY <1>1, <1>13 DEF CInv, Clocks, Connection, Cached, OneLoad

(* A load that stores, stores sound entries of its own for all timeframes  *)
(* of its account.                                                         *)
LEMMA StoreCInv ==
    ASSUME CInv, NEW new \in [Timeframes -> Entries], identity \in Accounts,
           \A tf \in Timeframes : /\ new[tf].turn = load.turn
                                  /\ SoundEntry(clock, quotes, identity, tf, new[tf]),
           entries' = [entries EXCEPT ![identity] = new], load' = Idle,
           UNCHANGED <<clock, quotes, terminal, identity, scanning, active>>
    PROVE  CInv'
<1>1. /\ entries'[identity] = new
      /\ \A a \in Accounts \ {identity} : entries'[a] = entries[a]
      /\ entries' \in [Accounts -> [Timeframes -> Entries \cup {None}]]
  BY DEF CInv, Cached
<1>2. \A tf \in Timeframes : new[tf] # None
  BY HistoryAssumption
<1>3. Cached'
  <2>1. ASSUME NEW a \in Accounts, NEW tf \in Timeframes, entries'[a][tf] # None
        PROVE  SoundEntry(clock, quotes, a, tf, entries'[a][tf])
    <3>1. CASE a = identity
      BY <1>1, <3>1
    <3>2. CASE a # identity
      BY <1>1, <2>1, <3>2 DEF CInv, Cached
    <3>3. QED
      BY <3>1, <3>2
  <2>2. QED
    BY <1>1, <2>1 DEF Cached
<1>4. OneLoad'
  <2>1. ASSUME NEW a \in Accounts, NEW tf \in Timeframes, NEW u \in Timeframes,
               entries'[a][tf] # None, entries'[a][u] # None
        PROVE  entries'[a][tf].turn = entries'[a][u].turn
    <3>1. CASE a = identity
      BY <1>1, <3>1
    <3>2. CASE a # identity
      BY <1>1, <2>1, <3>2 DEF CInv, OneLoad
    <3>3. QED
      BY <3>1, <3>2
  <2>2. QED
    BY <2>1 DEF OneLoad
<1>5. Loading'
  BY IdleType DEF Loading
<1>6. QED
  BY <1>3, <1>4, <1>5 DEF CInv, Clocks, Connection

LEMMA CommitCInv ==
    ASSUME CInv, CommitTails \/ CommitFulls
    PROVE  CInv'
<1>1. /\ load.stage \in {"tail", "full"} /\ DOMAIN load.reads = Timeframes
      /\ load' = Idle
      /\ UNCHANGED <<clock, quotes, terminal, identity, scanning, active>>
  BY DEF CommitTails, CommitFulls, AllRead
<1>2. /\ identity # NoAccount /\ identity \in Accounts
      /\ load.counts \in Requests /\ load.turn \in {0, 1}
      /\ clock \in Instants /\ quotes \in SUBSET Instants
      /\ ~MidScanSwitch => identity = terminal
  BY <1>1, ClocksType, IdleType DEF CInv, Loading, Loads, Connection
<1>3. CASE CommitTails
  <2>1. /\ load.stage = "tail" /\ TailsUsable
        /\ entries' = [entries EXCEPT ![identity] = [tf \in Timeframes |-> MergedEntry(tf)]]
    BY <1>3 DEF CommitTails
  <2>2. ASSUME NEW tf \in Timeframes
        PROVE  /\ MergedEntry(tf).turn = load.turn /\ MergedEntry(tf) \in Entries
               /\ SoundEntry(clock, quotes, identity, tf, MergedEntry(tf))
    <3> DEFINE e == entries[identity][tf]
               r == load.reads[tf]
               o == e.overlapped /\ DOMAIN r.bars \cap DOMAIN e.bars # {}
    <3>1. /\ e # None /\ e.count = load.counts[tf]
          /\ SoundEntry(clock, quotes, identity, tf, e)
      BY <1>2, <2>1 DEF CInv, Loading, Cached
    <3>2. SoundRead(clock, quotes, terminal, TailBars, tf, r)
      BY <1>1, <2>1 DEF CInv, Loading, Requested
    <3>3. TailUsable(tf, e.bars, r.bars)
      BY <2>1 DEF TailsUsable
    <3>4. o \in BOOLEAN /\ (o => e.overlapped /\ DOMAIN r.bars \cap DOMAIN e.bars # {})
      OBVIOUS
    <3>5. MergedEntry(tf)
            = Entry(e.count, Merged(e.bars, r.bars, e.count), r.asOf, o, load.turn)
      BY <3>1 DEF MergedEntry
    <3> HIDE DEF e, r, o
    <3>6. SoundEntry(clock, quotes, identity, tf,
                Entry(e.count, Merged(e.bars, r.bars, e.count), r.asOf, o, load.turn))
      BY <1>2, <3>1, <3>2, <3>3, <3>4, MergeIsSound
    <3>7. MergedEntry(tf) \in Entries
      BY <3>5, <3>6 DEF SoundEntry
    <3>8. MergedEntry(tf).turn = load.turn
      BY <3>5 DEF Entry
    <3>9. QED
      BY <3>5, <3>6, <3>7, <3>8
  <2> DEFINE new == [tf \in Timeframes |-> MergedEntry(tf)]
  <2>3. /\ new \in [Timeframes -> Entries]
        /\ \A tf \in Timeframes : /\ new[tf].turn = load.turn
                                  /\ SoundEntry(clock, quotes, identity, tf, new[tf])
        /\ entries' = [entries EXCEPT ![identity] = new]
    BY <2>1, <2>2
  <2> HIDE DEF new
  <2>4. QED
    BY <1>1, <1>2, <2>3, StoreCInv
<1>4. CASE CommitFulls
  <2>1. /\ load.stage = "full" /\ FullsValid
        /\ entries' = [entries EXCEPT ![identity] = [tf \in Timeframes |-> FullEntry(tf)]]
    BY <1>4 DEF CommitFulls
  <2>2. ASSUME NEW tf \in Timeframes
        PROVE  /\ FullEntry(tf).turn = load.turn /\ FullEntry(tf) \in Entries
               /\ SoundEntry(clock, quotes, identity, tf, FullEntry(tf))
    <3>1. /\ SoundRead(clock, quotes, terminal, load.counts[tf], tf, load.reads[tf])
          /\ load.counts[tf] \in Counts
      BY <1>1, <1>2, <2>1 DEF CInv, Loading, Requested, Requests
    <3>2. load.reads[tf].bars # Garbled
      BY <2>1 DEF FullsValid, FullValid
    <3>3. SoundEntry(clock, quotes, identity, tf, FullEntry(tf))
      BY <1>2, <3>1, <3>2, FullIsSound DEF FullEntry
    <3>4. QED
      BY <3>3 DEF FullEntry, Entry, SoundEntry
  <2> DEFINE new == [tf \in Timeframes |-> FullEntry(tf)]
  <2>3. /\ new \in [Timeframes -> Entries]
        /\ \A tf \in Timeframes : /\ new[tf].turn = load.turn
                                  /\ SoundEntry(clock, quotes, identity, tf, new[tf])
        /\ entries' = [entries EXCEPT ![identity] = new]
    BY <2>1, <2>2
  <2> HIDE DEF new
  <2>4. QED
    BY <1>1, <1>2, <2>3, StoreCInv
<1>5. QED
  BY <1>3, <1>4

(* The invariant holds in every reachable state.                           *)
LEMMA Invariance == Spec => []CInv
<1>1. Init => CInv
  <2>1. SUFFICES ASSUME Init PROVE CInv
    OBVIOUS
  <2>2. Clocks /\ Connection
    <3>1. 0 \in Instants /\ {0} \in SUBSET (0 .. 0)
      BY HistoryAssumption DEF Instants
    <3>2. QED
      BY <2>1, <3>1 DEF Init, Clocks, Connection
  <2>3. Cached /\ OneLoad
    BY <2>1 DEF Init, Cached, OneLoad, Empty
  <2>4. Loading
    BY <2>1, IdleType DEF Init, Loading
  <2>5. QED
    BY <2>2, <2>3, <2>4 DEF CInv
<1>2. CInv /\ [Next]_vars => CInv'
  <2>1. SUFFICES ASSUME CInv, [Next]_vars PROVE CInv'
    OBVIOUS
  <2>2. CASE UNCHANGED vars
    BY <2>1, <2>2 DEF vars, CInv, Clocks, Connection, Cached, Loading, OneLoad,
                      Requested
  <2>3. CASE Next
    BY <2>1, <2>3, QuoteCInv, ScanCInv, UnstoredCInv, BeginCInv, ReadCInv, CommitCInv
       DEF Next
  <2>4. QED
    BY <2>1, <2>2, <2>3
<1>3. QED
  BY <1>1, <1>2, PTL DEF Spec

----------------------------------------------------------------------------
(* What it gives                                                           *)

(* Whatever is cached for an account is of one load (OneLoad), for every   *)
(* set of timeframes, every sequence of settings and whatever fails.       *)
THEOREM HistoriesAreOfOneLoad == Spec => []OneLoad
<1>1. CInv => OneLoad
  BY DEF CInv
<1>2. QED
  BY <1>1, Invariance, PTL

(* A warm history whose tails began inside it is a full history.           *)
THEOREM WarmHistoriesAreFull ==
    ASSUME ~MidScanSwitch
    PROVE  Spec => []WarmIsFull
<1>1. CInv => WarmIsFull
  <2>1. SUFFICES ASSUME CInv, NEW a \in Accounts, NEW tf \in Timeframes,
                        entries[a][tf] # None, entries[a][tf].overlapped
                 PROVE  IsFullHistory(tf, a, entries[a][tf])
    BY DEF WarmIsFull
  <2>2. SoundEntry(clock, quotes, a, tf, entries[a][tf])
    BY <2>1 DEF CInv, Cached
  <2>3. QED
    BY <2>1, <2>2 DEF SoundEntry, IsFullHistory, Seen, Known
<1>2. QED
  BY <1>1, Invariance, PTL

(* Every variable keeps its type.                                          *)
THEOREM TypeCorrect == Spec => []TypeOK
<1>1. ASSUME NEW h \in Histories PROVE IsHistory(h)
  BY DEF Histories, IsHistory
<1>2. CInv => TypeOK
  <2>1. SUFFICES ASSUME CInv PROVE TypeOK
    OBVIOUS
  <2>2. /\ clock \in Instants /\ quotes \subseteq Instants /\ terminal \in Accounts
        /\ identity \in Accounts \cup {NoAccount} /\ scanning \in BOOLEAN
        /\ active \in Accounts \cup {NoAccount}
    BY <2>1, ClocksType DEF CInv, Connection
  <2>3. entries = [a \in Accounts |-> [tf \in Timeframes |-> entries[a][tf]]]
    BY <2>1 DEF CInv, Cached
  <2>4. ASSUME NEW a \in Accounts, NEW tf \in Timeframes, entries[a][tf] # None
        PROVE  IsEntry(entries[a][tf])
    <3> DEFINE e == entries[a][tf]
    <3>1. e \in Entries /\ Cardinality(DOMAIN e.bars) \in 1 .. e.count
      BY <2>1, <2>4 DEF CInv, Cached, SoundEntry
    <3> HIDE DEF e
    <3>2. IsHistory(e.bars)
      BY <1>1, <3>1 DEF Entries
    <3>3. e = Entry(e.count, e.bars, e.asOf, e.overlapped, e.turn)
      BY <3>1 DEF Entries, Entry
    <3>4. IsEntry(e)
      BY <3>1, <3>2, <3>3 DEF IsEntry, Entries
    <3>5. QED
      BY <3>4 DEF e
  <2>5. /\ load = [stage |-> load.stage, counts |-> load.counts, turn |-> load.turn,
                   reads |-> load.reads]
        /\ load.stage \in {"idle", "tail", "full", "uncached"}
        /\ load.counts \in [Timeframes -> Counts \cup {0}] /\ load.turn \in {0, 1}
        /\ DOMAIN load.reads \subseteq Timeframes
    BY <2>1 DEF CInv, Loading, Loads
  <2>6. ASSUME NEW tf \in DOMAIN load.reads
        PROVE  IsResponse(load.reads[tf])
    <3> DEFINE r == load.reads[tf]
    <3>1. SoundRead(clock, quotes, terminal, Requested(tf), tf, r) /\ tf \in Timeframes
      BY <2>1, <2>5 DEF CInv, Loading
    <3>2. load # Idle
      BY IdleType
    <3>3. Requested(tf) \in Nat \ {0}
      BY <2>1, <3>1, <3>2, RequestedType
    <3> HIDE DEF r
    <3>4. r \in Responses
      BY <3>1 DEF SoundRead
    <3>5. r.bars # Garbled => IsHistory(r.bars) /\ DOMAIN r.bars # {}
      <4>1. SUFFICES ASSUME r.bars # Garbled PROVE DOMAIN r.bars # {}
        BY <1>1, <3>4 DEF Responses
      <4>2. PICK a \in Accounts : r.bars = Series(tf, a, Seen(quotes, r.asOf), Requested(tf))
        BY <3>1, <4>1 DEF SoundRead
      <4>3. Seen(quotes, r.asOf) \in SUBSET Instants /\ Seen(quotes, r.asOf) # {}
        BY <2>2, <3>1 DEF Seen, SoundRead
      <4>4. DOMAIN Series(tf, a, Seen(quotes, r.asOf), Requested(tf)) # {}
        BY <3>1, <3>3, <4>3, SeriesType
      <4>5. QED
        BY <4>2, <4>4
    <3>6. r = [bars |-> r.bars, asOf |-> r.asOf] /\ r.asOf \in Instants
      BY <3>4 DEF Responses
    <3>7. IsResponse(r)
      BY <3>5, <3>6 DEF IsResponse
    <3>8. QED
      BY <3>7 DEF r
  <2>7. QED
    BY <2>2, <2>3, <2>4, <2>5, <2>6 DEF TypeOK
<1>3. QED
  BY <1>2, Invariance, PTL

============================================================================
