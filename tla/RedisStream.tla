----------------------------- MODULE RedisStream -----------------------------
(***************************************************************************)
(* What the broker adapter uses of a Redis 7 stream with one consumer      *)
(* group.  Redis is external: these operators say what its commands do,    *)
(* as far as adapters/broker/{producer,consumer}.py depend on it.          *)
(*                                                                         *)
(* A stream is a record                                                    *)
(*   log    every entry ever added; an entry's id is its index             *)
(*   first  the oldest id the MAXLEN trim has left in the stream           *)
(*   last   the group's last-delivered id, or NoGroup                      *)
(*   pel    the pending-entries list: times_delivered of a pending id,     *)
(*          0 for an id that is not pending                                *)
(*                                                                         *)
(* The owner of a pending entry is not kept: no command the code issues    *)
(* depends on it (XAUTOCLAIM selects by idle time, XACK by group).         *)
(***************************************************************************)
EXTENDS Integers, Sequences, FiniteSetsExt

CONSTANTS
    MaxEntries,     \* bound: entries ever added to the work stream
    MaxLen,         \* broker.maxlen, the approximate cap of XADD MAXLEN ~
    MaxDelivery     \* broker.max_delivery_count

ASSUME StreamAssumption ==
    /\ MaxEntries \in Nat \ {0}
    /\ MaxLen \in Nat \ {0}
    /\ MaxDelivery \in Nat

Ids == 1 .. MaxEntries

NoGroup == -1

\* times_delivered is only ever compared with max_delivery_count, so it
\* saturates one above it.
DeliveryCounts == 0 .. (MaxDelivery + 1)

Pending(s) == {i \in Ids : s.pel[i] > 0}

\* Entries no consumer of the group has read yet and XREADGROUP can still serve.
Undelivered(s) == {i \in Ids : s.last < i /\ s.first <= i /\ i <= Len(s.log)}

\* XADD with MAXLEN ~: the trim may evict old entries or not, and never leaves
\* fewer than MaxLen. TrimPoints is the set of possible new values of first.
TrimPoints(s) ==
    {f \in s.first .. (Len(s.log) + 1) : f = s.first \/ Len(s.log) + 2 - f >= MaxLen}

XAdd(s, entry, f) == [s EXCEPT !.log = Append(@, entry), !.first = f]

\* XGROUP CREATE ... $ MKSTREAM; BUSYGROUP when the group exists.
XGroupCreate(s) == [s EXCEPT !.last = IF @ = NoGroup THEN Len(s.log) ELSE @]

\* XREADGROUP ... COUNT n '>': the first n undelivered entries.
XReadIds(s, n) ==
    LET from == IF s.first > s.last + 1 THEN s.first ELSE s.last + 1
    IN  Undelivered(s) \cap (from .. (from + n - 1))

XReadGroup(s, ids) ==
    [s EXCEPT !.last = Max(ids),
              !.pel  = [i \in Ids |-> IF i \in ids THEN 1 ELSE @[i]]]

\* XAUTOCLAIM ... start COUNT n, with `idle' the pending entries idle for long
\* enough: the possible sets of entries it returns. Pending entries that the
\* trim removed are met first, count towards n and are dropped from the PEL.
XAutoClaimSets(s, idle, start, n) ==
    LET gone  == {i \in Pending(s) : start <= i /\ i < s.first}
        ready == {i \in Pending(s) : start <= i /\ s.first <= i /\ i \in idle}
    IN  {R \in SUBSET (gone \cup ready) :
            /\ Cardinality(R) <= n
            /\ gone \subseteq R \/ (R \subseteq gone /\ Cardinality(R) = n)}

XAutoClaim(s, R) ==
    [s EXCEPT !.pel = [i \in Ids |->
        CASE i \in R /\ i < s.first  -> 0
          [] i \in R /\ i >= s.first -> IF @[i] > MaxDelivery THEN @[i] ELSE @[i] + 1
          [] OTHER                   -> @[i]]]

\* The cursor XAUTOCLAIM returns: where it stopped, or 0 at the end of the PEL.
XAutoClaimCursor(s, R, n) ==
    LET rest == {i \in Pending(s) : \A k \in R : k < i}
    IN  IF Cardinality(R) < n \/ rest = {} THEN 0 ELSE Min(rest)

XAck(s, i) == [s EXCEPT !.pel[i] = 0]
=============================================================================
