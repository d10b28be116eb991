----------------------------- MODULE RateLimiter -----------------------------
(***************************************************************************)
(* The in-memory limiter of login attempts (rate_limiter.rs): a sliding    *)
(* window of one-second slots for each client and one for all clients.     *)
(*                                                                         *)
(* A check reads the clock and then waits for the lock of the buckets, so  *)
(* that it hits with a time of before: the hits of a bucket need not come  *)
(* in the order of their times, and a login reads the clock twice.         *)
(*                                                                         *)
(* Time advances in ticks, Second of them to a second, so that hits fall   *)
(* anywhere within a slot, whose time is that of its first tick.           *)
(***************************************************************************)
EXTENDS Naturals, Sequences, SequencesExt, FiniteSets, Functions, ListOps

CONSTANTS ClientKeys,     \* keys of check_key: clients' addresses
          Logins,         \* login requests at a time
          Second,         \* ticks of a second
          KeyWindow, KeyLimit,        \* of check_key, in seconds and in hits
          GlobalWindow, GlobalLimit,  \* of check_global
          MaxTime, MaxHits, MaxPrunes \* bounds: ticks, attempts, calls of prune

GlobalBucket == "login:global"
ASSUME LimiterAssumption == /\ GlobalBucket \notin ClientKeys
                            /\ Second \in Nat \ {0}
                            /\ KeyWindow \in Nat /\ GlobalWindow \in Nat
                            /\ KeyLimit \in Nat /\ GlobalLimit \in Nat
Buckets == ClientKeys \cup {GlobalBucket}

VARIABLES clock,      \* now_ms
          buckets,    \* buckets[b]: the slots of a counter, <<time, hits>>
          login,      \* the requests: what each waits for, and the time it read
          pruning,    \* prune() likewise
          admitted,   \* history: the hits that each bucket let pass,
                      \* <<the time read, the time of the hit>>
          waited,     \* history: the longest wait between the two
          hits, prunes

rlvars == <<clock, buckets, login, pruning, admitted, waited, hits, prunes>>
Outside == [at |-> "none", key |-> GlobalBucket, read |-> 0]

LimiterInit ==
    /\ clock = 0 /\ hits = 0 /\ prunes = 0 /\ waited = 0
    /\ login = [a \in Logins |-> Outside] /\ pruning = Outside
    /\ buckets = [b \in Buckets |-> <<>>]
    /\ admitted = [b \in Buckets |-> <<>>]

WindowOfBucket(b) == Second * (IF b = GlobalBucket THEN GlobalWindow ELSE KeyWindow)
LimitOf(b) == IF b = GlobalBucket THEN GlobalLimit ELSE KeyLimit

(* saturating_sub *)
WindowStart(b, now) == IF now > WindowOfBucket(b) THEN now - WindowOfBucket(b) ELSE 0

Retained(b, now) ==
    Picked(buckets[b], {i \in DOMAIN buckets[b] : buckets[b][i][1] >= WindowStart(b, now)})

Slot(now) == (now \div Second) * Second

(* One hit, in the slot of its second if that is the last one *)
Hit(b, now) ==
    LET slots == Retained(b, now)
    IN IF slots # <<>> /\ Last(slots)[1] = Slot(now)
       THEN ReplaceAt(slots, Len(slots), <<Slot(now), Last(slots)[2] + 1>>)
       ELSE Append(slots, <<Slot(now), 1>>)

TotalHits(slots) == SumFunction([i \in DOMAIN slots |-> slots[i][2]])

Over(b, now) == TotalHits(Hit(b, now)) > LimitOf(b)

(* login: the client's window first, the common one only if it has room.   *)
(* Rejected hits count as well.  A client that goes away takes its request *)
(* with it where that waits for a lock.                                    *)
BeginLogin(a, k) ==
    /\ login[a].at = "none" /\ hits < MaxHits /\ hits' = hits + 1
    /\ login' = [login EXCEPT ![a] = [at |-> "lock", key |-> k, read |-> clock]]
    /\ UNCHANGED <<clock, buckets, pruning, admitted, waited, prunes>>

TakeHit(a) ==
    LET b == login[a].key  now == login[a].read
    IN  /\ login[a].at = "lock"
        /\ buckets' = [buckets EXCEPT ![b] = Hit(b, now)]
        /\ waited' = IF clock - now > waited THEN clock - now ELSE waited
        /\ IF Over(b, now)
           THEN login' = [login EXCEPT ![a] = Outside] /\ UNCHANGED admitted
           ELSE /\ login' = [login EXCEPT ![a] =
                                IF b = GlobalBucket THEN Outside ELSE [@ EXCEPT !.at = "global"]]
                /\ admitted' = [admitted EXCEPT ![b] = Append(@, <<now, clock>>)]
        /\ UNCHANGED <<clock, pruning, hits, prunes>>

CheckGlobal(a) ==
    /\ login[a].at = "global"
    /\ login' = [login EXCEPT ![a] = [at |-> "lock", key |-> GlobalBucket, read |-> clock]]
    /\ UNCHANGED <<clock, buckets, pruning, admitted, waited, hits, prunes>>

DropLogin(a) ==
    /\ login[a].at = "lock" /\ login' = [login EXCEPT ![a] = Outside]
    /\ UNCHANGED <<clock, buckets, pruning, admitted, waited, hits, prunes>>

(* prune, which nothing calls yet: one reading of the clock, then each of  *)
(* the two locks in turn.                                                  *)
PruneBegins ==
    /\ pruning.at = "none" /\ prunes < MaxPrunes /\ prunes' = prunes + 1
    /\ pruning' = [Outside EXCEPT !.at = "keys", !.read = clock]
    /\ UNCHANGED <<clock, buckets, login, admitted, waited, hits>>

PruneLocked ==
    /\ pruning.at \in {"keys", "global"}
    /\ buckets' = [b \in Buckets |-> IF (b = GlobalBucket) = (pruning.at = "global")
                                    THEN Retained(b, pruning.read) ELSE buckets[b]]
    /\ pruning' = IF pruning.at = "keys" THEN [pruning EXCEPT !.at = "global"] ELSE Outside
    /\ UNCHANGED <<clock, login, admitted, waited, hits, prunes>>

PassTime ==
    /\ clock < MaxTime /\ clock' = clock + 1
    /\ UNCHANGED <<buckets, login, pruning, admitted, waited, hits, prunes>>

LoginStep(a) ==
    \/ \E k \in ClientKeys : BeginLogin(a, k)
    \/ TakeHit(a) \/ CheckGlobal(a) \/ DropLogin(a)
LimiterNext == PassTime \/ PruneBegins \/ PruneLocked \/ \E a \in Logins : LoginStep(a)

LimiterSpec == LimiterInit /\ [][LimiterNext]_rlvars

(***************************************************************************)
(* Properties                                                              *)
(***************************************************************************)
(* Slots are whole seconds that have begun, in whatever order; the times   *)
(* that requests have read are past.                                       *)
LimiterTypeOK ==
    /\ \A b \in Buckets : \A i \in DOMAIN buckets[b] :
          /\ buckets[b][i][1] % Second = 0 /\ buckets[b][i][1] <= clock
          /\ buckets[b][i][2] >= 1
    /\ \A a \in Logins : login[a].read <= clock /\ login[a].key \in Buckets
    /\ pruning.read <= clock

(* WindowCounter: of the hits made with a time of the last window, less    *)
(* the part of a second by which slots are rounded down, a bucket lets no  *)
(* more pass than its limit, in whatever order they get the lock and       *)
(* whenever the slots are pruned.  Of the hits that passed in that window  *)
(* the same is true only when it is cut by the longest wait for the lock   *)
(* too, because a hit counts for the time that it read before its wait.    *)
CountedLately(b) == {i \in DOMAIN admitted[b] :
                       admitted[b][i][1] + WindowOfBucket(b) >= clock + (Second - 1)}
PassedLately(b) == {i \in DOMAIN admitted[b] :
                       admitted[b][i][2] + WindowOfBucket(b) >= clock + (Second - 1) + waited}
RateHeld ==
    \A b \in Buckets : /\ Cardinality(CountedLately(b)) <= LimitOf(b)
                       /\ Cardinality(PassedLately(b)) <= LimitOf(b)
=============================================================================
