--------------------------- MODULE CandleHistory ---------------------------
(***************************************************************************)
(* The rolling cache of MT5 candle histories (CandleHistoryCache) and the  *)
(* load that fills it (MT5Service.load_primary_timeframes_cached).  A warm *)
(* load reads the newest TailBars bars of every timeframe and merges them  *)
(* into the cached series; anything unexpected falls back to a full load.  *)
(* A request asks for a number of bars of each timeframe: three settings,  *)
(* each edited by itself (scanner_controller.py:715).                      *)
(*                                                                         *)
(* The market is the set of instants that brought a quote.  A bar exists   *)
(* from its first quote on, and its content is the last quote it took in,  *)
(* so the newest bar goes on forming while a closed bar is final.  Time    *)
(* passes, and the terminal may lag or fail, between any two reads of one  *)
(* load; the load holds the MT5 operation lock, so loads do not interleave.*)
(* A history is a function from bar times: the code sorts by time whatever *)
(* it stores, and a response that is not strictly increasing is Garbled.   *)
(***************************************************************************)
EXTENDS Integers, FiniteSets, Functions

CONSTANTS
    Timeframes,     \* the timeframes of one scan request
    Interval,       \* [Timeframes -> length of a bar]
    Counts,         \* the numbers of bars a request may ask of a timeframe
    Accounts,       \* broker accounts the terminal may be logged in to
    NoAccount,      \* a connection status without a complete identity
    None,           \* no cache entry
    Garbled,        \* a response whose times are not strictly increasing
    MidScanSwitch,  \* the terminal may change account while a scan runs
    Pauses,         \* how far apart two quotes may be
    MaxClock,       \* bound: instants
    MaxLag          \* bound: how far a terminal's series may lag

VARIABLES
    clock,      \* now
    quotes,     \* the instants that brought a quote
    terminal,   \* the account the terminal is logged in to
    identity,   \* the cache identity captured when the scan connected
    scanning,   \* a scan is running
    active,     \* CandleHistoryCache._active_connection
    entries,    \* CandleHistoryCache._entries
    load        \* the load under way

vars == <<clock, quotes, terminal, identity, scanning, active, entries, load>>

----------------------------------------------------------------------------
(* The broker's series                                                     *)

TailBars == 3

Instants == 0 .. MaxClock

BarOf(tf, q) == (q \div Interval[tf]) * Interval[tf]

Known(asOf) == {q \in quotes : q <= asOf}

BarTimes(tf, known) == {BarOf(tf, q) : q \in known}

\* The quotes that the bar at time t has taken in.
BarQuotes(tf, t, known) == {q \in known : BarOf(tf, q) = t}

Greatest(S) == CHOOSE x \in S : \A y \in S : y <= x

Newest(times, n) == {t \in times : Cardinality({u \in times : u > t}) < n}

Candle(tf, account, t, known) ==
    [account |-> account, last |-> Greatest(BarQuotes(tf, t, known))]

\* copy_rates_from_pos(symbol, timeframe, 0, n), of the quotes a terminal has.
Series(tf, account, known, n) ==
    [t \in Newest(BarTimes(tf, known), n) |-> Candle(tf, account, t, known)]

Candles == [account : Accounts, last : Instants]

Histories == UNION {[S -> Candles] : S \in SUBSET Instants}

----------------------------------------------------------------------------
(* The cache                                                               *)

\* Three parts are history: asOf is the instant of the last read, overlapped
\* says whether every tail merged since the full load began inside the series,
\* and turn tells the load that stored the entry from the one before it.
Entry(n, bars, asOf, overlapped, turn) ==
    [count |-> n, bars |-> bars, asOf |-> asOf, overlapped |-> overlapped,
     turn |-> turn]

Entries ==
    [count : Counts, bars : Histories, asOf : Instants, overlapped : BOOLEAN,
     turn : {0, 1}]

Requests == [Timeframes -> Counts]

ASSUME HistoryAssumption ==
    /\ Interval \in [Timeframes -> Nat \ {0}]
    /\ Counts \subseteq Nat \ {0}
    /\ NoAccount \notin Accounts
    /\ MidScanSwitch \in BOOLEAN
    /\ Pauses \subseteq Nat \ {0}
    /\ MaxClock \in Nat
    /\ MaxLag \in Nat
    /\ None \notin Entries

Empty == [a \in Accounts |-> [tf \in Timeframes |-> None]]

Activated(account) ==
    IF active \in {NoAccount, account} THEN entries ELSE Empty

\* A lookup drops the entry it finds stored for another number of bars; the
\* other timeframes keep theirs.
LookedUp(es, account, request) ==
    [es EXCEPT ![account] =
        [tf \in Timeframes |->
            IF es[account][tf] # None /\ es[account][tf].count # request[tf]
            THEN None ELSE es[account][tf]]]

\* History: a load takes the turn that no entry of its account has.
TurnAfter(es, account) ==
    IF \E tf \in Timeframes : es[account][tf] # None /\ es[account][tf].turn = 0
    THEN 1 ELSE 0

AllUsable(es, account) == \A tf \in Timeframes : es[account][tf] # None

Last(h) == Greatest(DOMAIN h)

Regressed(cached, tail) ==
    \/ Last(tail) < Last(cached)
    \/ \E t \in DOMAIN tail : t < Last(cached) /\ t \notin DOMAIN cached

Appended(cached, tail) == {t \in DOMAIN tail : t > Last(cached)}

HasGap(tf, cached, tail) ==
    \E t \in Appended(cached, tail) :
        \A u \in Appended(cached, tail) \cup {Last(cached)} :
            u < t => t - u > Interval[tf]

TailUsable(tf, cached, tail) ==
    /\ tail # Garbled
    /\ ~Regressed(cached, tail)
    /\ ~HasGap(tf, cached, tail)

CachedWins(cached, tail) ==
    [t \in DOMAIN cached \cup DOMAIN tail |->
        IF t \in DOMAIN cached THEN cached[t] ELSE tail[t]]

Overlaid(cached, tail) ==
    [t \in DOMAIN cached \cup DOMAIN tail |->
        IF t \in DOMAIN tail THEN tail[t] ELSE cached[t]]

KeepAll(h, n) == h

KeepNewest(h, n) == Restrict(h, Newest(DOMAIN h, n))

Merged(cached, tail, n) == KeepNewest(Overlaid(cached, tail), n)

----------------------------------------------------------------------------
(* The load                                                                *)

NoReads == [tf \in {} |-> None]

Reading(stage, request, turn) ==
    [stage |-> stage, counts |-> request, turn |-> turn, reads |-> NoReads]

NoRequest == [tf \in Timeframes |-> 0]

Idle == Reading("idle", NoRequest, 0)

Init ==
    /\ clock = 0
    /\ quotes = {0}
    /\ terminal \in Accounts
    /\ identity = NoAccount
    /\ scanning = FALSE
    /\ active = NoAccount
    /\ entries = Empty
    /\ load = Idle

\* Environment: the next quote; the market may have been closed for a while.
Quote ==
    /\ \E pause \in Pauses :
        /\ clock + pause <= MaxClock
        /\ clock' = clock + pause
    /\ quotes' = quotes \cup {clock'}
    /\ UNCHANGED <<terminal, identity, scanning, active, entries, load>>

\* Environment: the user logs the terminal in to another account.
SwitchAccount ==
    /\ scanning => MidScanSwitch
    /\ \E a \in Accounts \ {terminal} : terminal' = a
    /\ UNCHANGED <<clock, quotes, identity, scanning, active, entries, load>>

\* run_scan asks ensure_ready for the connection status and keeps the
\* identity it gives, or none when its metadata is incomplete.
StartScan ==
    /\ ~scanning
    /\ scanning' = TRUE
    /\ identity' \in {terminal, NoAccount}
    /\ UNCHANGED <<clock, quotes, terminal, active, entries, load>>

EndScan ==
    /\ scanning /\ load = Idle
    /\ scanning' = FALSE
    /\ identity' = NoAccount
    /\ UNCHANGED <<clock, quotes, terminal, active, entries, load>>

BeginUncached(request) ==
    /\ scanning /\ load = Idle
    /\ identity = NoAccount
    /\ load' = Reading("uncached", request, 0)
    /\ UNCHANGED <<clock, quotes, terminal, identity, scanning, active, entries>>

\* A changed connection has emptied the cache, so its lookups are not usable.
\* Every timeframe is looked up, and one that is not usable reloads them all.
BeginCached(request) ==
    /\ scanning /\ load = Idle
    /\ identity # NoAccount
    /\ active' = identity
    /\ entries' = LookedUp(Activated(identity), identity, request)
    /\ load' = Reading(IF AllUsable(entries', identity) THEN "tail" ELSE "full",
                       request, TurnAfter(entries', identity))
    /\ UNCHANGED <<clock, quotes, terminal, identity, scanning>>

Requested(tf) == IF load.stage = "tail" THEN TailBars ELSE load.counts[tf]

Read(tf) ==
    /\ load # Idle
    /\ tf \notin DOMAIN load.reads
    /\ \E asOf \in (clock - MaxLag) .. clock :
        /\ Known(asOf) # {}
        /\ \E bars \in {Series(tf, terminal, Known(asOf), Requested(tf)), Garbled} :
            load' = [load EXCEPT !.reads =
                [t \in DOMAIN @ \cup {tf} |->
                    IF t = tf THEN [bars |-> bars, asOf |-> asOf] ELSE @[t]]]
    /\ UNCHANGED <<clock, quotes, terminal, identity, scanning, active, entries>>

\* symbol_select or copy_rates fails: the load raises and stores nothing.
ReadFails ==
    /\ load # Idle
    /\ DOMAIN load.reads # Timeframes
    /\ load' = Idle
    /\ UNCHANGED <<clock, quotes, terminal, identity, scanning, active, entries>>

AllRead == DOMAIN load.reads = Timeframes

TailsUsable ==
    \A tf \in Timeframes :
        TailUsable(tf, entries[identity][tf].bars, load.reads[tf].bars)

MergedEntry(tf) ==
    LET cached == entries[identity][tf]
        read == load.reads[tf]
    IN Entry(load.counts[tf], Merged(cached.bars, read.bars, load.counts[tf]),
             read.asOf,
             cached.overlapped /\ DOMAIN read.bars \cap DOMAIN cached.bars # {},
             load.turn)

\* A merge on the live cache, without the staging one: the usable tails are
\* in it before another one sends the load back to full histories.
MergeInPlace ==
    /\ load.stage = "tail" /\ AllRead
    /\ entries' = [entries EXCEPT ![identity] =
        [tf \in Timeframes |->
            IF TailUsable(tf, @[tf].bars, load.reads[tf].bars)
            THEN MergedEntry(tf) ELSE @[tf]]]
    /\ load' = IF TailsUsable THEN Idle ELSE Reading("full", load.counts, load.turn)
    /\ UNCHANGED <<clock, quotes, terminal, identity, scanning, active>>

\* Every tail is merged on a staging cache first, then all are committed.
CommitTails ==
    /\ load.stage = "tail" /\ AllRead
    /\ TailsUsable
    /\ entries' =
        [entries EXCEPT ![identity] = [tf \in Timeframes |-> MergedEntry(tf)]]
    /\ load' = Idle
    /\ UNCHANGED <<clock, quotes, terminal, identity, scanning, active>>

FallBack ==
    /\ load.stage = "tail" /\ AllRead
    /\ ~TailsUsable
    /\ load' = Reading("full", load.counts, load.turn)
    /\ UNCHANGED <<clock, quotes, terminal, identity, scanning, active, entries>>

FullValid(tf) == load.reads[tf].bars # Garbled

FullsValid == \A tf \in Timeframes : FullValid(tf)

FullEntry(tf) ==
    Entry(load.counts[tf], KeepNewest(load.reads[tf].bars, load.counts[tf]),
          load.reads[tf].asOf, TRUE, load.turn)

\* Every full history is validated before the first one is stored.
CommitFulls ==
    /\ load.stage = "full" /\ AllRead
    /\ FullsValid
    /\ entries' =
        [entries EXCEPT ![identity] = [tf \in Timeframes |-> FullEntry(tf)]]
    /\ load' = Idle
    /\ UNCHANGED <<clock, quotes, terminal, identity, scanning, active>>

\* An invalid full history raises; an uncached load returns what it read.
EndUnstored ==
    /\ AllRead
    /\ \/ load.stage = "full" /\ ~FullsValid
       \/ load.stage = "uncached"
    /\ load' = Idle
    /\ UNCHANGED <<clock, quotes, terminal, identity, scanning, active, entries>>

Next ==
    \/ Quote \/ SwitchAccount
    \/ StartScan \/ EndScan
    \/ \E request \in Requests : BeginUncached(request) \/ BeginCached(request)
    \/ \E tf \in Timeframes : Read(tf)
    \/ ReadFails \/ CommitTails \/ FallBack \/ CommitFulls \/ EndUnstored

Spec == Init /\ [][Next]_vars

----------------------------------------------------------------------------
(* Properties                                                              *)

IsHistory(h) == DOMAIN h \subseteq Instants /\ h \in [DOMAIN h -> Candles]

IsEntry(e) ==
    /\ e = Entry(e.count, e.bars, e.asOf, e.overlapped, e.turn)
    /\ e.count \in Counts /\ e.asOf \in Instants
    /\ e.overlapped \in BOOLEAN /\ e.turn \in {0, 1}
    /\ IsHistory(e.bars)
    /\ Cardinality(DOMAIN e.bars) \in 1 .. e.count

IsResponse(r) ==
    /\ r = [bars |-> r.bars, asOf |-> r.asOf]
    /\ r.bars = Garbled \/ (IsHistory(r.bars) /\ DOMAIN r.bars # {})
    /\ r.asOf \in Instants

TypeOK ==
    /\ clock \in Instants
    /\ quotes \subseteq Instants
    /\ terminal \in Accounts
    /\ identity \in Accounts \cup {NoAccount}
    /\ scanning \in BOOLEAN
    /\ active \in Accounts \cup {NoAccount}
    /\ entries = [a \in Accounts |-> [tf \in Timeframes |-> entries[a][tf]]]
    /\ \A a \in Accounts, tf \in Timeframes :
          entries[a][tf] = None \/ IsEntry(entries[a][tf])
    /\ load = [stage |-> load.stage, counts |-> load.counts, turn |-> load.turn,
               reads |-> load.reads]
    /\ load.stage \in {"idle", "tail", "full", "uncached"}
    /\ load.counts \in [Timeframes -> Counts \cup {0}] /\ load.turn \in {0, 1}
    /\ DOMAIN load.reads \subseteq Timeframes
    /\ \A tf \in DOMAIN load.reads : IsResponse(load.reads[tf])

(* Whatever is cached for an account was stored by one load: no read that  *)
(* failed, no tail that had to be given up and no history that was refused *)
(* leaves timeframes of two loads side by side.  A changed setting may     *)
(* drop some timeframes, it never mixes them with newer ones               *)
(* (_stage_tail_merge and _commit_history_snapshots validate all of them   *)
(* before the first is stored).                                            *)
OneLoad ==
    \A a \in Accounts, tf \in Timeframes, u \in Timeframes :
        entries[a][tf] # None /\ entries[a][u] # None =>
            entries[a][tf].turn = entries[a][u].turn

IsFullHistory(tf, account, entry) ==
    entry.bars = Series(tf, account, Known(entry.asOf), entry.count)

(* As long as every tail began inside the cached series, the merged series *)
(* is what a full load at the instant of the last read would have returned:*)
(* the same bars, each with the same content, the formerly forming ones    *)
(* with their final one.                                                   *)
WarmIsFull ==
    \A a \in Accounts, tf \in Timeframes :
        entries[a][tf] # None /\ entries[a][tf].overlapped =>
            IsFullHistory(tf, a, entries[a][tf])

(* A warm merge yields the same history as a full load, always (test_warm_ *)
(* merge_output_matches_equivalent_full_reload).                           *)
WarmMatchesFull ==
    \A a \in Accounts, tf \in Timeframes :
        entries[a][tf] # None => IsFullHistory(tf, a, entries[a][tf])

(* No candle of one account is kept under the identity of another (the     *)
(* docstring of load_primary_timeframes_cached).                           *)
NoForeignCandles ==
    \A a \in Accounts, tf \in Timeframes :
        entries[a][tf] # None =>
            \A t \in DOMAIN entries[a][tf].bars :
                entries[a][tf].bars[t].account = a

=============================================================================
