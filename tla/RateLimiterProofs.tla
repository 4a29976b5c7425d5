-------------------------- MODULE RateLimiterProofs --------------------------
(***************************************************************************)
(* Proofs about RateLimiter, for any requests, identities, policies and    *)
(* times.                                                                  *)
(*                                                                         *)
(* A row pays for the charges on record (Paid): from each of them on, what *)
(* was charged and what is left come to no more than the capacity and one  *)
(* token for each interval by which the row has moved on.  Refilling and   *)
(* charging keep this; a new row pays for everything its predecessor did,  *)
(* since that one was deleted a whole retention after its last refill.     *)
(* The order of the locks, which keeps requests from waiting in a circle,  *)
(* and the arithmetic of refills follow.                                   *)
(***************************************************************************)
EXTENDS RateLimiter, TLAPS, SequenceTheorems

-----------------------------------------------------------------------------
(* The inductive invariant *)

Charge == [now : Nat, at : Nat]

(* What rows a request may have locked, as it found them.                  *)
Holdings == UNION {[keys -> Row] : keys \in SUBSET Key}

Request == [pc : {"idle", "locking", "admitted"}, plan : SUBSET Key, rows : Holdings, now : Nat]

StateTyped ==
  /\ namespace \in Namespaces
  /\ config \in [Kinds -> Policy] /\ \A k \in Kinds : Accepted(config[k])
  /\ bucket \in [Key -> Row]
  /\ request \in [Requests -> Request]
  /\ clock \in 0..MaxTime
  /\ spent \in [Key -> Seq(Charge)]

OneOfEachKind(plan) == \A k, other \in plan : k[1] = other[1] => k = other

RequestsSound ==
  \A r \in Requests :
    /\ OneOfEachKind(request[r].plan) /\ Held(r) \subseteq request[r].plan
    /\ request[r].now <= clock
    /\ request[r].pc # "locking" => Held(r) = {}

(* A row is locked by one transaction at a time.                           *)
RowsHeldOnce == \A r, s \in Requests : r # s => Held(r) \cap Held(s) = {}

(* n charges, the first at the time since, and the tokens left at last.    *)
Covered(n, tokens, last, since, capacity, refill) ==
  (n + tokens - capacity) * refill <= last - since + refill - 1

Paid(s, policy, row) ==
  \A i \in 1..Len(s) :
    Covered(Len(s) - i + 1, row.tokens, row.last, s[i].now, policy.capacity, policy.refill)

(* The row of a bucket that has none is the one that would be created.     *)
Current(row, policy, time) ==
  IF row = NoRow THEN Written(policy.capacity, time, policy) ELSE row

WithinBudget(s, policy) ==
  \A i, j \in DOMAIN s :
    i < j => j - i + 1 <= policy.capacity + Ceiling(s[j].at - s[i].now, policy.refill)

(* A row that was charged under the running configuration has its deadline.*)
Sound(s, policy, row, time) ==
  /\ row.last <= time
  /\ Paid(s, policy, Current(row, policy, time))
  /\ s # <<>> /\ row # NoRow => row.expires = row.last + Retention(policy)
  /\ \A i \in DOMAIN s : s[i].now <= s[i].at /\ s[i].at <= time
  /\ WithinBudget(s, policy)

BucketsSound == \A k \in Key : Sound(spent[k], config[k[1]], bucket[k], clock)

(* A source was locked because it had a token at the time of the request.  *)
HeldRowsSound ==
  \A r \in Requests : \A k \in Held(r) :
    /\ request[r].rows[k].last <= clock
    /\ Paid(spent[k], config[k[1]], request[r].rows[k])
    /\ IsSource(k) => Refilled(request[r].rows[k], config[k[1]], request[r].now).tokens >= 1

IInv ==
  /\ StateTyped
  /\ RequestsSound
  /\ RowsHeldOnce
  /\ BucketsSound
  /\ HeldRowsSound

-----------------------------------------------------------------------------
(* Policies and rows *)

LEMMA KeyKind == \A k \in Key : k[1] \in Kinds
BY DEF Key

LEMMA Bounds == MaxDuration \in Nat /\ MaxTime \in Nat
BY LimiterAssumption

LEMMA KeptRetention ==
  ASSUME NEW policy \in Policy, Accepted(policy)
  PROVE  /\ policy.capacity \in Nat \ {0} /\ policy.refill \in Nat \ {0}
         /\ Retention(policy) = (policy.capacity + 1) * policy.refill
         /\ Retention(policy) \in Nat \ {0}
<1>1. policy.capacity \in Nat \ {0} /\ policy.refill \in Nat \ {0}
  BY DEF Policy
<1>2. MaxDuration \div policy.refill \in Nat
  <2> PICK b \in Nat \ {0} : b = policy.refill
    BY <1>1
  <2>1. MaxDuration \div b \in Nat
    BY Bounds
  <2> QED
    BY <2>1
<1>3. ~(policy.capacity >= MaxDuration \div policy.refill)
  BY <1>1, <1>2 DEF Accepted
<1>4. Retention(policy) = (policy.capacity + 1) * policy.refill
  BY <1>3 DEF Retention
<1>5. (policy.capacity + 1) * policy.refill \in Nat \ {0}
  BY <1>1
<1> QED
  BY <1>1, <1>4, <1>5

LEMMA WrittenRow ==
  ASSUME NEW tokens \in Nat, NEW last \in Nat, NEW policy \in Policy, Accepted(policy)
  PROVE  LET row == Written(tokens, last, policy) IN
         /\ row \in Row /\ row # NoRow
         /\ row.tokens = tokens /\ row.last = last /\ row.expires = row.last + Retention(policy)
<1>1. Retention(policy) \in Nat \ {0} /\ last + Retention(policy) \in Nat \ {0}
  BY KeptRetention
<1> QED
  BY <1>1 DEF Written, Row, NoRow

(* What a refill does to a row: it moves on by whole intervals, each worth *)
(* at most a token, and ends less than an interval before the time asked.  *)
LEMMA RefilledRow ==
  ASSUME NEW row \in Row, NEW policy \in Policy, Accepted(policy), NEW now \in Nat
  PROVE  LET new == Refilled(row, policy, now) IN
         /\ new \in Row /\ new # NoRow /\ new.expires = new.last + Retention(policy)
         /\ new.tokens <= policy.capacity
         /\ \E a \in Nat : new.tokens <= row.tokens + a /\ new.last = row.last + a * policy.refill
         /\ now < new.last + policy.refill
         /\ new.last <= row.last \/ new.last <= now
<1> DEFINE clipped == IF row.tokens > policy.capacity THEN policy.capacity ELSE row.tokens
           additions == IF now > row.last THEN (now - row.last) \div policy.refill ELSE 0
           tokens == IF clipped + additions > policy.capacity THEN policy.capacity
                     ELSE clipped + additions
<1>1. /\ row.tokens \in Nat /\ row.last \in Nat
      /\ policy.capacity \in Nat \ {0} /\ policy.refill \in Nat \ {0}
  BY DEF Row, Policy
<1>2. clipped \in Nat /\ clipped <= row.tokens
  BY <1>1
<1>3. /\ additions \in Nat
      /\ now < row.last + additions * policy.refill + policy.refill
      /\ additions = 0 \/ row.last + additions * policy.refill <= now
  <2>1. CASE now > row.last
    <3> PICK a : a = (now - row.last) \div policy.refill
      OBVIOUS
    <3>1. /\ a \in Nat /\ policy.refill * a <= now - row.last
          /\ now - row.last < policy.refill * a + policy.refill
      BY <1>1, <2>1
    <3>2. additions = a
      BY <2>1
    <3> HIDE DEF additions
    <3> QED
      BY <1>1, <3>1, <3>2
  <2>2. CASE ~(now > row.last)
    BY <1>1, <2>2
  <2> QED
    BY <2>1, <2>2
<1>4. tokens \in Nat /\ tokens <= policy.capacity /\ tokens <= row.tokens + additions
  <2> HIDE DEF clipped, additions
  <2> QED
    BY <1>1, <1>2, <1>3
<1>5. row.last + additions * policy.refill \in Nat
  <2> HIDE DEF additions
  <2> QED
    BY <1>1, <1>3
<1> PICK new : new = Refilled(row, policy, now)
  OBVIOUS
<1>6. new = Written(tokens, row.last + additions * policy.refill, policy)
  BY DEF Refilled
<1> HIDE DEF tokens, additions
<1>7. /\ new \in Row /\ new # NoRow /\ new.tokens = tokens
      /\ new.last = row.last + additions * policy.refill
      /\ new.expires = new.last + Retention(policy)
  BY <1>4, <1>5, <1>6, WrittenRow
<1>8. additions = 0 => new.last <= row.last
  BY <1>1, <1>3, <1>7
<1> QED
  BY <1>3, <1>4, <1>7, <1>8

-----------------------------------------------------------------------------
(* Paying *)

LEMMA PaidNothing == ASSUME NEW policy, NEW row PROVE Paid(<<>>, policy, row)
BY DEF Paid

LEMMA PaidMembers ==
  ASSUME NEW s \in Seq(Charge), NEW i \in 1..Len(s)
  PROVE  Len(s) \in Nat /\ i \in Nat /\ s[i].now \in Nat /\ s[i].at \in Nat
<1>1. s[i] \in Charge
  OBVIOUS
<1> QED
  BY <1>1 DEF Charge

(* The steps of arithmetic below, in numbers.                              *)
LEMMA CoveredMovedOn ==
  ASSUME NEW n \in Int, NEW t \in Nat, NEW l \in Nat, NEW w \in Nat, NEW c \in Nat,
         NEW refill \in Nat, Covered(n, t, l, w, c, refill),
         NEW u \in Nat, NEW m \in Nat, NEW a \in Nat, u <= t + a, l + a * refill <= m
  PROVE  Covered(n, u, m, w, c, refill)
<1> PICK x \in Int : x = n + t - c
  OBVIOUS
<1> PICK y \in Int : y = n + u - c
  OBVIOUS
<1>1. y <= x + a
  OBVIOUS
<1>2. y * refill <= (x + a) * refill
  BY <1>1
<1>3. (x + a) * refill = x * refill + a * refill
  OBVIOUS
<1>4. x * refill \in Int /\ a * refill \in Int /\ y * refill \in Int
  OBVIOUS
<1>5. x * refill <= l - w + refill - 1
  BY DEF Covered
<1>6. y * refill <= m - w + refill - 1
  BY <1>2, <1>3, <1>4, <1>5
<1> QED
  BY <1>6 DEF Covered

LEMMA CoveredOneMore ==
  ASSUME NEW n \in Int, NEW t \in Nat, NEW l \in Nat, NEW w \in Nat, NEW c \in Nat,
         NEW refill \in Nat, Covered(n, t, l, w, c, refill)
  PROVE  Covered(n + 1, t - 1, l, w, c, refill)
<1>1. n + 1 + (t - 1) - c = n + t - c
  OBVIOUS
<1> QED
  BY <1>1 DEF Covered

LEMMA CoveredFirst ==
  ASSUME NEW t \in Nat, NEW c \in Nat, t <= c, NEW refill \in Nat \ {0},
         NEW l \in Nat, NEW w \in Nat, w < l + refill
  PROVE  Covered(1, t - 1, l, w, c, refill)
<1> PICK x \in Int : x = t - c
  OBVIOUS
<1>1. x * refill <= 0 /\ x * refill \in Int
  OBVIOUS
<1>2. 1 + (t - 1) - c = x
  OBVIOUS
<1> QED
  BY <1>1, <1>2 DEF Covered

(* A row still pays when it moves on by intervals and gains no more tokens.*)
LEMMA PaidMovedOn ==
  ASSUME NEW s \in Seq(Charge), NEW policy \in Policy, NEW row \in Row, NEW new \in Row,
         Paid(s, policy, row), NEW a \in Nat,
         new.tokens <= row.tokens + a, row.last + a * policy.refill <= new.last
  PROVE  Paid(s, policy, new)
<1>1. ASSUME NEW i \in 1..Len(s)
      PROVE  Covered(Len(s) - i + 1, new.tokens, new.last, s[i].now, policy.capacity, policy.refill)
  <2>1. /\ Len(s) \in Nat /\ i \in Nat /\ s[i].now \in Nat
        /\ row.tokens \in Nat /\ row.last \in Nat /\ new.tokens \in Nat /\ new.last \in Nat
        /\ policy.capacity \in Nat /\ policy.refill \in Nat
    BY PaidMembers DEF Row, Policy
  <2>2. Covered(Len(s) - i + 1, row.tokens, row.last, s[i].now, policy.capacity, policy.refill)
    BY DEF Paid
  <2>3. Len(s) - i + 1 \in Int
    BY <2>1
  <2> PICK n \in Int : n = Len(s) - i + 1
    BY <2>3
  <2>4. Covered(n, row.tokens, row.last, s[i].now, policy.capacity, policy.refill)
    BY <2>2
  <2>5. Covered(n, new.tokens, new.last, s[i].now, policy.capacity, policy.refill)
    BY <2>1, <2>4, CoveredMovedOn, Zenon
  <2> QED
    BY <2>5
<1> QED
  BY <1>1 DEF Paid

LEMMA PaidByRefill ==
  ASSUME NEW s \in Seq(Charge), NEW policy \in Policy, Accepted(policy), NEW row \in Row,
         Paid(s, policy, row), NEW now \in Nat
  PROVE  Paid(s, policy, Refilled(row, policy, now))
<1> PICK new : new = Refilled(row, policy, now)
  OBVIOUS
<1>1. new \in Row
      /\ \E a \in Nat : new.tokens <= row.tokens + a /\ new.last = row.last + a * policy.refill
  BY RefilledRow
<1> PICK a \in Nat : new.tokens <= row.tokens + a /\ new.last = row.last + a * policy.refill
  BY <1>1
<1>2. row.last + a * policy.refill <= new.last
  BY <1>1 DEF Row
<1> QED
  BY <1>1, <1>2, PaidMovedOn

(* A charge of a refilled row goes on record.                              *)
LEMMA PaidCharge ==
  ASSUME NEW s \in Seq(Charge), NEW policy \in Policy, NEW row \in Row, NEW new \in Row,
         Paid(s, policy, row), NEW charge \in Charge,
         row.tokens <= policy.capacity, charge.now < row.last + policy.refill,
         new.tokens = row.tokens - 1, new.last = row.last
  PROVE  Paid(Append(s, charge), policy, new)
<1> PICK long : long = Append(s, charge)
  OBVIOUS
<1>1. /\ long \in Seq(Charge) /\ Len(long) = Len(s) + 1 /\ Len(s) \in Nat
      /\ long[Len(s) + 1] = charge /\ \A i \in 1..Len(s) : long[i] = s[i]
  OBVIOUS
<1>2. /\ row.tokens \in Nat /\ row.last \in Nat /\ new.tokens \in Nat /\ charge.now \in Nat
      /\ policy.capacity \in Nat /\ policy.refill \in Nat \ {0} /\ policy.refill \in Nat
  BY DEF Row, Policy, Charge
<1>3. ASSUME NEW i \in 1..Len(long)
      PROVE  Covered(Len(long) - i + 1, new.tokens, new.last, long[i].now,
                     policy.capacity, policy.refill)
  <2>1. CASE i \in 1..Len(s)
    <3>1. long[i] = s[i] /\ s[i].now \in Nat
      BY <1>1, <2>1, PaidMembers
    <3>2. Covered(Len(s) - i + 1, row.tokens, row.last, s[i].now, policy.capacity, policy.refill)
      BY <2>1 DEF Paid
    <3>3. Len(s) - i + 1 \in Int /\ Len(long) - i + 1 = (Len(s) - i + 1) + 1
      BY <1>1
    <3> PICK n \in Int : n = Len(s) - i + 1
      BY <3>3
    <3>4. Covered(n, row.tokens, row.last, s[i].now, policy.capacity, policy.refill)
      BY <3>2
    <3>5. Covered(n + 1, row.tokens - 1, row.last, s[i].now, policy.capacity, policy.refill)
      BY <1>2, <3>1, <3>4, CoveredOneMore, Zenon
    <3> QED
      BY <3>1, <3>3, <3>5
  <2>2. CASE i = Len(s) + 1
    <3>1. long[i].now = charge.now
      BY <1>1, <2>2
    <3>2. Len(long) - i + 1 = 1
      BY <1>1, <2>2
    <3>3. Covered(1, row.tokens - 1, row.last, charge.now, policy.capacity, policy.refill)
      BY <1>2, CoveredFirst, Zenon
    <3> QED
      BY <3>1, <3>2, <3>3
  <2>3. i \in 1..Len(s) \/ i = Len(s) + 1
    BY <1>1
  <2> QED
    BY <2>1, <2>2, <2>3
<1> QED
  BY <1>3 DEF Paid

(* A row that is created a retention after the last refill of its          *)
(* predecessor.                                                            *)
LEMMA PaidAfterRetention ==
  ASSUME NEW s \in Seq(Charge), NEW policy \in Policy, Accepted(policy), NEW row \in Row,
         NEW new \in Row, Paid(s, policy, row),
         row.last + Retention(policy) <= new.last, new.tokens = policy.capacity
  PROVE  Paid(s, policy, new)
<1>1. /\ policy.capacity \in Nat /\ policy.refill \in Nat \ {0}
      /\ Retention(policy) = (policy.capacity + 1) * policy.refill
  BY KeptRetention
<1>2. /\ row.tokens \in Nat /\ row.last \in Nat /\ new.last \in Nat
  BY DEF Row
<1>3. new.tokens <= row.tokens + policy.capacity
  BY <1>1, <1>2
<1>4. policy.capacity * policy.refill \in Nat
      /\ (policy.capacity + 1) * policy.refill = policy.capacity * policy.refill + policy.refill
  BY <1>1
<1>5. row.last + policy.capacity * policy.refill <= new.last
  BY <1>1, <1>2, <1>4
<1> QED
  BY <1>1, <1>3, <1>5, PaidMovedOn

(* The budget: the charges from one on, against the time they took.        *)
LEMMA CoveredBudget ==
  ASSUME NEW n \in Int, NEW t \in Nat, NEW l \in Nat, NEW w \in Nat, NEW c \in Nat,
         NEW refill \in Nat \ {0}, Covered(n, t, l, w, c, refill),
         NEW at \in Nat, l <= at, w <= at
  PROVE  n <= c + Ceiling(at - w, refill)
<1> PICK x \in Int : x = n + t - c
  OBVIOUS
<1> PICK y \in Nat : y = at - w + refill - 1
  OBVIOUS
<1> PICK q : q = y \div refill
  OBVIOUS
<1>1. q \in Nat /\ y < refill * q + refill
  OBVIOUS
<1>2. x * refill <= y
  <2>1. x * refill <= l - w + refill - 1
    BY DEF Covered
  <2>2. x * refill \in Int
    OBVIOUS
  <2> QED
    BY <2>1, <2>2
<1>3. ~(x >= q + 1)
  <2> SUFFICES ASSUME x >= q + 1 PROVE FALSE
    OBVIOUS
  <2>1. (q + 1) * refill <= x * refill
    BY <1>1
  <2>2. (q + 1) * refill = refill * q + refill
    BY <1>1
  <2>3. refill * q \in Int /\ x * refill \in Int
    BY <1>1
  <2> QED
    BY <1>1, <1>2, <2>1, <2>2, <2>3
<1>4. Ceiling(at - w, refill) = q
  BY DEF Ceiling
<1> QED
  BY <1>1, <1>3, <1>4

LEMMA PaidBudget ==
  ASSUME NEW s \in Seq(Charge), NEW policy \in Policy, NEW row \in Row, Paid(s, policy, row),
         NEW i \in 1..Len(s), NEW at \in Nat, row.last <= at, s[i].now <= at
  PROVE  Len(s) - i + 1 <= policy.capacity + Ceiling(at - s[i].now, policy.refill)
<1>1. /\ Len(s) \in Nat /\ i \in Nat /\ s[i].now \in Nat /\ at \in Nat
      /\ row.tokens \in Nat /\ row.last \in Nat
      /\ policy.capacity \in Nat /\ policy.refill \in Nat \ {0}
  BY PaidMembers DEF Row, Policy
<1>2. Len(s) - i + 1 \in Int
  BY <1>1
<1> PICK n \in Int : n = Len(s) - i + 1
  BY <1>2
<1>3. Covered(n, row.tokens, row.last, s[i].now, policy.capacity, policy.refill)
  BY DEF Paid
<1>4. n <= policy.capacity + Ceiling(at - s[i].now, policy.refill)
  BY <1>1, <1>3, CoveredBudget, Zenon
<1> QED
  BY <1>4

-----------------------------------------------------------------------------
(* What requests hold *)

LEMMA HoldingsAre ==
  ASSUME NEW f
  PROVE  f \in Holdings <=> DOMAIN f \subseteq Key /\ f \in [DOMAIN f -> Row]
BY Zenon DEF Holdings

LEMMA NoHoldings == <<>> \in Holdings /\ DOMAIN <<>> = {}
<1>1. DOMAIN <<>> = {} /\ <<>> \in [{} -> Row]
  OBVIOUS
<1> QED
  BY <1>1, HoldingsAre, Zenon

LEMMA IdleRequest ==
  /\ Idle \in Request /\ DOMAIN Idle.rows = {} /\ Idle.pc = "idle" /\ Idle.now = 0
  /\ OneOfEachKind(Idle.plan)
BY NoHoldings DEF Idle, Request, OneOfEachKind

-----------------------------------------------------------------------------
(* The initial states *)

LEMMA StartsAreConfigs ==
  ASSUME NEW c \in Starts
  PROVE  c \in [Kinds -> Policy] /\ \A k \in Kinds : Accepted(c[k])
<1>1. /\ Default \in [Kinds -> Policy]
      /\ Environments \subseteq [Kinds -> [capacity : Setting, refill : Setting]]
  BY LimiterAssumption
<1> PICK e \in Environments : c = Loaded(e)
  BY DEF Starts
<1>2. \A k \in Kinds : Accepted(c[k])
  BY DEF Starts
<1>3. ASSUME NEW k \in Kinds PROVE c[k] \in Policy
  <2>1. e[k] \in [capacity : Int, refill : Int] /\ Default[k] \in Policy
    BY <1>1 DEF Setting
  <2> PICK p : p = c[k]
    OBVIOUS
  <2>2. p = [f \in {"capacity", "refill"} |-> IF e[k][f] = Unset THEN Default[k][f] ELSE e[k][f]]
    BY DEF Loaded
  <2>3. p["capacity"] \in Int /\ p["refill"] \in Int
    BY <2>1, <2>2 DEF Policy
  <2>4. p["capacity"] > 0 /\ p["refill"] > 0
    BY <1>2 DEF Accepted
  <2>5. p["capacity"] \in Nat \ {0} /\ p["refill"] \in Nat \ {0}
    BY <2>3, <2>4
  <2> QED
    BY <2>2, <2>5 DEF Policy
<1>4. c = [k \in Kinds |-> c[k]]
  BY DEF Loaded
<1> QED
  BY <1>2, <1>3, <1>4

LEMMA FreshRow ==
  ASSUME NEW policy \in Policy, Accepted(policy), clock \in Nat
  PROVE  /\ Fresh(policy) \in Row /\ Fresh(policy) # NoRow
         /\ Fresh(policy).tokens = policy.capacity /\ Fresh(policy).last = clock
         /\ Fresh(policy).expires = clock + Retention(policy)
<1>1. policy.capacity \in Nat
  BY KeptRetention
<1> QED
  BY <1>1, WrittenRow DEF Fresh

-----------------------------------------------------------------------------
(* What happens to a bucket *)

LEMMA CurrentRow ==
  ASSUME NEW policy \in Policy, Accepted(policy), NEW row \in Row, NEW time \in Nat,
         row.last <= time
  PROVE  /\ Current(row, policy, time) \in Row
         /\ Current(row, policy, time).last <= time
         /\ row = NoRow => /\ Current(row, policy, time).tokens = policy.capacity
                           /\ Current(row, policy, time).last = time
<1>1. policy.capacity \in Nat
  BY KeptRetention
<1>2. CASE row = NoRow
  BY <1>1, <1>2, WrittenRow DEF Current
<1>3. CASE row # NoRow
  BY <1>3 DEF Current
<1> QED
  BY <1>2, <1>3

LEMMA SoundNothing ==
  ASSUME NEW policy, NEW row, NEW time, row.last <= time
  PROVE  Sound(<<>>, policy, row, time)
<1>1. DOMAIN <<>> = {}
  OBVIOUS
<1> QED
  BY <1>1, PaidNothing, Zenon DEF Sound, WithinBudget

(* A tick: the row that would be created is a later one.                   *)
LEMMA SoundLater ==
  ASSUME NEW s \in Seq(Charge), NEW policy \in Policy, Accepted(policy), NEW row \in Row,
         NEW time \in Nat, Sound(s, policy, row, time)
  PROVE  Sound(s, policy, row, time + 1)
<1>1. row.last \in Nat /\ row.last <= time /\ row.last <= time + 1
  BY DEF Sound, Row
<1>2. Paid(s, policy, Current(row, policy, time + 1))
  <2>1. CASE row = NoRow
    <3> PICK old \in Row, new \in Row :
          old = Current(row, policy, time) /\ new = Current(row, policy, time + 1)
      BY <1>1, CurrentRow
    <3>1. /\ old.tokens = policy.capacity /\ old.last = time
          /\ new.tokens = policy.capacity /\ new.last = time + 1
      BY <1>1, <2>1, CurrentRow
    <3>2. Paid(s, policy, old) /\ policy.refill \in Nat /\ policy.capacity \in Nat
      BY KeptRetention DEF Sound
    <3>3. new.tokens <= old.tokens + 0 /\ old.last + 0 * policy.refill <= new.last
      BY <3>1, <3>2
    <3>4. Paid(s, policy, new)
      BY <3>2, <3>3, PaidMovedOn
    <3> QED
      BY <3>4
  <2>2. CASE row # NoRow
    BY <2>2 DEF Sound, Current
  <2> QED
    BY <2>1, <2>2
<1>3. \A i \in DOMAIN s : s[i].now <= s[i].at /\ s[i].at <= time + 1
  <2> SUFFICES ASSUME NEW i \in DOMAIN s PROVE s[i].now <= s[i].at /\ s[i].at <= time + 1
    OBVIOUS
  <2>1. s[i].now <= s[i].at /\ s[i].at <= time
    BY DEF Sound
  <2>2. s[i].at \in Nat
    BY PaidMembers
  <2> QED
    BY <2>1, <2>2
<1> QED
  BY <1>1, <1>2, <1>3 DEF Sound

(* A deletion: of a row that nobody was charged for, or that is full.      *)
LEMMA SoundGone ==
  ASSUME NEW s \in Seq(Charge), NEW policy \in Policy, Accepted(policy), NEW row \in Row,
         NEW time \in Nat, Sound(s, policy, row, time), row # NoRow,
         s # <<>> => row.last + Retention(policy) <= time
  PROVE  Sound(s, policy, NoRow, time)
<1>1. NoRow.last <= time /\ NoRow \in Row
  BY DEF NoRow, Row
<1>2. Paid(s, policy, Current(NoRow, policy, time))
  <2>1. CASE s = <<>>
    BY <2>1, PaidNothing
  <2>2. CASE s # <<>>
    <3> PICK new \in Row : new = Current(NoRow, policy, time)
      BY <1>1, CurrentRow
    <3>1. new.tokens = policy.capacity /\ new.last = time
      BY <1>1, CurrentRow
    <3>2. Paid(s, policy, row) /\ row.last + Retention(policy) <= new.last
      BY <2>2, <3>1 DEF Sound, Current
    <3>3. Paid(s, policy, new)
      BY <3>1, <3>2, PaidAfterRetention
    <3> QED
      BY <3>3
  <2> QED
    BY <2>1, <2>2
<1> QED
  BY <1>1, <1>2 DEF Sound

(* A refill that is written back.                                          *)
LEMMA SoundRefill ==
  ASSUME NEW s \in Seq(Charge), NEW policy \in Policy, NEW row, NEW new \in Row, NEW time \in Nat,
         Sound(s, policy, row, time), new # NoRow, new.last <= time,
         new.expires = new.last + Retention(policy), Paid(s, policy, new)
  PROVE  Sound(s, policy, new, time)
BY DEF Sound, Current

(* A charge.                                                               *)
LEMMA SoundCharge ==
  ASSUME NEW s \in Seq(Charge), NEW policy \in Policy, NEW row, NEW new \in Row, NEW time \in Nat,
         Sound(s, policy, row, time), new # NoRow, new.last <= time,
         new.expires = new.last + Retention(policy),
         NEW charge \in Charge, charge.now <= time, charge.at = time,
         Paid(Append(s, charge), policy, new)
  PROVE  Sound(Append(s, charge), policy, new, time)
<1> PICK long : long = Append(s, charge)
  OBVIOUS
<1>1. /\ long \in Seq(Charge) /\ Len(long) = Len(s) + 1 /\ Len(s) \in Nat
      /\ DOMAIN long = 1..(Len(s) + 1) /\ DOMAIN s = 1..Len(s)
      /\ long[Len(s) + 1] = charge /\ \A i \in 1..Len(s) : long[i] = s[i]
  OBVIOUS
<1>2. \A i \in DOMAIN long :
        (i \in DOMAIN s /\ long[i] = s[i]) \/ (i = Len(s) + 1 /\ long[i] = charge)
  <2> TAKE i \in DOMAIN long
  <2>1. i \in 1..Len(s) \/ i = Len(s) + 1
    BY <1>1
  <2> QED
    BY <1>1, <2>1
<1>3. \A i \in DOMAIN long : long[i].now <= long[i].at /\ long[i].at <= time
  <2>1. \A i \in DOMAIN s : s[i].now <= s[i].at /\ s[i].at <= time
    BY DEF Sound
  <2>2. charge.now <= charge.at /\ charge.at <= time
    OBVIOUS
  <2> QED
    BY <1>2, <2>1, <2>2
<1>4. WithinBudget(long, policy)
  <2> SUFFICES ASSUME NEW i \in DOMAIN long, NEW j \in DOMAIN long, i < j
               PROVE  j - i + 1 <= policy.capacity + Ceiling(long[j].at - long[i].now, policy.refill)
    BY DEF WithinBudget
  <2>1. CASE j = Len(s) + 1
    <3>1. long[j].at = time /\ j = Len(long) /\ i \in 1..Len(long)
      BY <1>1, <2>1
    <3>2. long[i].now <= time
      <4>1. long[i].now \in Nat /\ long[i].at \in Nat
        BY <1>1, <3>1, PaidMembers
      <4> QED
        BY <1>3, <4>1
    <3>3. Len(long) - i + 1 <= policy.capacity + Ceiling(time - long[i].now, policy.refill)
      BY <1>1, <3>1, <3>2, PaidBudget
    <3> QED
      BY <3>1, <3>3
  <2>2. CASE j \in DOMAIN s /\ long[j] = s[j]
    <3>1. i \in DOMAIN s /\ long[i] = s[i]
      BY <1>1, <2>2
    <3> QED
      BY <2>2, <3>1 DEF Sound, WithinBudget
  <2> QED
    BY <1>2, <2>1, <2>2
<1>5. Current(new, policy, time) = new
  BY DEF Current
<1> QED
  BY <1>3, <1>4, <1>5 DEF Sound

-----------------------------------------------------------------------------
(* The initial states *)

LEMMA InitIInv == Init => IInv
<1> SUFFICES ASSUME Init PROVE IInv
  OBVIOUS
<1> USE DEF Init
<1>1. NoRow \in Row /\ NoRow.last = 0 /\ clock = 0
  BY DEF NoRow, Row
<1>2. \A k \in Key : spent[k] = <<>> /\ spent[k] \in Seq(Charge)
  OBVIOUS
<1>3. \A r \in Requests :
        request[r] = Idle /\ request[r] \in Request /\ Held(r) = {} /\ request[r].pc = "idle"
        /\ request[r].now = 0 /\ OneOfEachKind(request[r].plan)
  BY IdleRequest DEF Held
<1>4. StateTyped
  BY <1>1, <1>2, <1>3, StartsAreConfigs, Bounds DEF StateTyped
<1>5. RequestsSound /\ RowsHeldOnce /\ HeldRowsSound
  BY <1>1, <1>3 DEF RequestsSound, RowsHeldOnce, HeldRowsSound
<1>6. BucketsSound
  <2> SUFFICES ASSUME NEW k \in Key PROVE Sound(<<>>, config[k[1]], NoRow, clock)
    BY <1>2 DEF BucketsSound
  <2> QED
    BY <1>1, SoundNothing
<1> QED
  BY <1>4, <1>5, <1>6 DEF IInv

-----------------------------------------------------------------------------
(* The steps *)

LEMMA StateFacts ==
  ASSUME IInv
  PROVE  /\ clock \in Nat
         /\ \A k \in Key : /\ config[k[1]] \in Policy /\ Accepted(config[k[1]])
                           /\ bucket[k] \in Row /\ spent[k] \in Seq(Charge)
                           /\ Sound(spent[k], config[k[1]], bucket[k], clock)
<1>1. clock \in Nat
  BY Bounds DEF IInv, StateTyped
<1> QED
  BY <1>1, KeyKind DEF IInv, StateTyped, BucketsSound

LEMMA RequestFacts ==
  ASSUME IInv, NEW r \in Requests
  PROVE  /\ request[r] \in Request
         /\ request[r].pc \in {"idle", "locking", "admitted"} /\ request[r].plan \subseteq Key
         /\ request[r].rows \in [Held(r) -> Row] /\ Held(r) \subseteq Key
         /\ request[r].now \in Nat /\ request[r].now <= clock
         /\ OneOfEachKind(request[r].plan) /\ Held(r) \subseteq request[r].plan
         /\ request[r].pc # "locking" => Held(r) = {}
         /\ \A k \in Held(r) : /\ request[r].rows[k] \in Row
                               /\ request[r].rows[k].last <= clock
                               /\ Paid(spent[k], config[k[1]], request[r].rows[k])
                               /\ IsSource(k) => Refilled(request[r].rows[k], config[k[1]],
                                                          request[r].now).tokens >= 1
<1>1. /\ request[r] \in Request
      /\ request[r].pc \in {"idle", "locking", "admitted"} /\ request[r].plan \subseteq Key
      /\ request[r].rows \in Holdings /\ request[r].now \in Nat
  BY DEF IInv, StateTyped, Request
<1>2. request[r].rows \in [Held(r) -> Row] /\ Held(r) \subseteq Key
  BY <1>1, HoldingsAre, Zenon DEF Held
<1>3. \A k \in Held(r) : request[r].rows[k] \in Row
  BY <1>2
<1> QED
  BY <1>1, <1>2, <1>3 DEF IInv, RequestsSound, HeldRowsSound

(* A request that lets go of its rows.                                     *)
LEMMA LettingGo ==
  ASSUME IInv, NEW r \in Requests, NEW q \in Request, DOMAIN q.rows = {}, q.now = 0,
         OneOfEachKind(q.plan),
         request' = [request EXCEPT ![r] = q], clock' = clock
  PROVE  /\ request' \in [Requests -> Request]
         /\ RequestsSound' /\ RowsHeldOnce'
         /\ \A s \in Requests : \A k \in Held(s)' :
              s # r /\ k \in Held(s) /\ request'[s] = request[s]
<1>1. request \in [Requests -> Request]
  BY DEF IInv, StateTyped
<1>2. request'[r] = q /\ \A s \in Requests : s # r => request'[s] = request[s]
  BY <1>1
<1>3. request' \in [Requests -> Request]
  BY <1>1
<1>4. Held(r)' = {} /\ \A s \in Requests : s # r => Held(s)' = Held(s)
  BY <1>2 DEF Held
<1>5. RequestsSound'
  <2> SUFFICES ASSUME NEW s \in Requests
               PROVE  /\ OneOfEachKind(request'[s].plan) /\ Held(s)' \subseteq request'[s].plan
                      /\ request'[s].now <= clock'
                      /\ request'[s].pc # "locking" => Held(s)' = {}
    BY DEF RequestsSound
  <2>1. CASE s = r
    <3>1. 0 <= clock
      BY StateFacts
    <3> QED
      BY <1>2, <1>4, <2>1, <3>1
  <2>2. CASE s # r
    BY <1>2, <1>4, <2>2, RequestFacts
  <2> QED
    BY <2>1, <2>2
<1>6. RowsHeldOnce'
  BY <1>4 DEF IInv, RowsHeldOnce
<1> QED
  BY <1>2, <1>3, <1>4, <1>5, <1>6

LEMMA RequestsOnly ==
  ASSUME IInv, NEW r \in Requests, NEW q \in Request, DOMAIN q.rows = {}, q.now = 0,
         OneOfEachKind(q.plan),
         request' = [request EXCEPT ![r] = q], UNCHANGED <<namespace, config, bucket, clock, spent>>
  PROVE  IInv'
<1>1. /\ request' \in [Requests -> Request]
      /\ RequestsSound' /\ RowsHeldOnce'
      /\ \A s \in Requests : \A k \in Held(s)' :
           s # r /\ k \in Held(s) /\ request'[s] = request[s]
  BY LettingGo
<1>2. StateTyped'
  BY <1>1 DEF IInv, StateTyped
<1>3. BucketsSound'
  BY DEF IInv, BucketsSound
<1>4. HeldRowsSound'
  <2> SUFFICES ASSUME NEW s \in Requests, NEW k \in Held(s)'
               PROVE  /\ request'[s].rows[k].last <= clock'
                      /\ Paid(spent'[k], config'[k[1]], request'[s].rows[k])
                      /\ IsSource(k)' => Refilled(request'[s].rows[k], config'[k[1]],
                                                  request'[s].now).tokens >= 1
    BY DEF HeldRowsSound
  <2> QED
    BY <1>1, RequestFacts DEF IsSource
<1> QED
  BY <1>1, <1>2, <1>3, <1>4 DEF IInv

LEMMA LimitedKinds == namespace \in Namespaces => KindsOf(namespace) \subseteq Kinds
<1>1. Namespaces \subseteq AllNamespaces
  BY LimiterAssumption
<1>2. ASSUME NEW n \in AllNamespaces PROVE KindsOf(n) \subseteq Kinds
  BY <1>2 DEF AllNamespaces, KindsOf, Business, SourceAware, Kinds
<1> QED
  BY <1>1, <1>2

LEMMA BeginStep == ASSUME IInv, NEW r \in Requests, Begin(r) PROVE IInv'
<1> PICK who \in [KindsOf(namespace) -> UNION {Identity[k] : k \in Kinds}] :
      /\ \A k \in KindsOf(namespace) : who[k] \in Identity[k]
      /\ request' = [request EXCEPT ![r] =
           [Idle EXCEPT !.pc = "locking", !.plan = {<<k, who[k]>> : k \in KindsOf(namespace)}]]
  BY DEF Begin
<1>1. KindsOf(namespace) \subseteq Kinds
  BY LimitedKinds DEF IInv, StateTyped
<1> PICK plan : plan = {<<k, who[k]>> : k \in KindsOf(namespace)}
  OBVIOUS
<1>2. plan \subseteq Key /\ OneOfEachKind(plan)
  BY <1>1 DEF Key, OneOfEachKind
<1> PICK q : q = [Idle EXCEPT !.pc = "locking", !.plan = plan]
  OBVIOUS
<1>3. q \in Request /\ DOMAIN q.rows = {} /\ q.now = 0 /\ q.plan = plan
  BY <1>2, IdleRequest DEF Request, Idle
<1>4. request' = [request EXCEPT ![r] = q] /\ OneOfEachKind(q.plan)
  BY <1>2, <1>3
<1>5. UNCHANGED <<namespace, config, bucket, clock, spent>>
  BY DEF Begin
<1> QED
  BY <1>3, <1>4, <1>5, RequestsOnly

LEMMA GivingUpStep == ASSUME IInv, NEW r \in Requests, RollBack(r) \/ FailLogin(r) PROVE IInv'
<1>1. request' = [request EXCEPT ![r] = Idle] /\ UNCHANGED <<namespace, config, bucket, clock, spent>>
  BY DEF RollBack, FailLogin
<1> QED
  BY <1>1, IdleRequest, RequestsOnly

(* The row that is there, or the one that is created.                      *)
LEMMA EnsuredRow ==
  ASSUME IInv, NEW k \in Key
  PROVE  /\ Ensured(k) \in Row /\ Ensured(k).last <= clock
         /\ Paid(spent[k], config[k[1]], Ensured(k))
<1>1. Ensured(k) = Current(bucket[k], config[k[1]], clock)
  BY DEF Ensured, Current, Fresh
<1>2. /\ config[k[1]] \in Policy /\ Accepted(config[k[1]])
      /\ bucket[k] \in Row /\ bucket[k].last <= clock /\ clock \in Nat
      /\ Paid(spent[k], config[k[1]], Current(bucket[k], config[k[1]], clock))
  BY StateFacts DEF Sound
<1> QED
  BY <1>1, <1>2, CurrentRow

(* A request locks a row nobody else holds, and keeps what it found.       *)
LEMMA LockStep == ASSUME IInv, NEW r \in Requests, NEW k \in Key, Lock(r, k) PROVE IInv'
<1> PICK row \in Row : row = Ensured(k) /\ row.last <= clock /\ Paid(spent[k], config[k[1]], row)
  BY EnsuredRow
<1> PICK rows : rows = [x \in Held(r) \cup {k} |-> IF x = k THEN row ELSE request[r].rows[x]]
  OBVIOUS
<1> PICK now : now = IF IsSource(k) THEN clock ELSE request[r].now
  OBVIOUS
<1>1. /\ request[r].pc = "locking" /\ k \in request[r].plan /\ k \notin Held(r)
      /\ \A s \in Requests : k \notin Held(s)
      /\ IsSource(k) => Refilled(row, config[k[1]], clock).tokens >= 1
      /\ UNCHANGED <<namespace, config, bucket, clock, spent>>
  BY DEF Lock, IsNext, Locked
<1>2. /\ request \in [Requests -> Request]
      /\ request' = [request EXCEPT
           ![r].rows = [x \in DOMAIN @ \cup {k} |-> IF x = k THEN Ensured(k) ELSE @[x]],
           ![r].now = IF IsSource(k) THEN clock ELSE @]
  BY DEF Lock, IInv, StateTyped
<1>3. /\ request'[r].rows = rows /\ request'[r].now = now
      /\ request'[r].pc = request[r].pc /\ request'[r].plan = request[r].plan
      /\ \A s \in Requests : s # r => request'[s] = request[s]
  BY <1>2 DEF Request, Held
<1>4. /\ request[r] \in Request /\ request[r].plan \subseteq Key
      /\ request[r].rows \in [Held(r) -> Row] /\ Held(r) \subseteq request[r].plan
      /\ request[r].now \in Nat /\ request[r].now <= clock /\ clock \in Nat
      /\ OneOfEachKind(request[r].plan)
  BY RequestFacts, StateFacts
<1>5. now \in Nat /\ now <= clock
  BY <1>4
<1>6. DOMAIN rows = Held(r) \cup {k} /\ rows \in [DOMAIN rows -> Row]
  BY <1>4
<1>7. rows \in Holdings
  BY <1>1, <1>4, <1>6, HoldingsAre
<1>8. request' \in [Requests -> Request]
  <2>1. request' = [s \in Requests |-> request'[s]]
    BY <1>2
  <2>2. request'[r] = [request[r] EXCEPT !.rows = rows, !.now = now]
    BY <1>2 DEF Held
  <2>3. request'[r] \in Request
    BY <1>4, <1>5, <1>7, <2>2 DEF Request
  <2>4. \A s \in Requests : request'[s] \in Request
    BY <1>2, <1>3, <2>3
  <2> QED
    BY <2>1, <2>4
<1>9. Held(r)' = Held(r) \cup {k} /\ \A s \in Requests : s # r => Held(s)' = Held(s)
  BY <1>3, <1>6 DEF Held
<1>10. StateTyped'
  BY <1>1, <1>8 DEF IInv, StateTyped
<1>11. RequestsSound'
  <2> SUFFICES ASSUME NEW s \in Requests
               PROVE  /\ OneOfEachKind(request'[s].plan) /\ Held(s)' \subseteq request'[s].plan
                      /\ request'[s].now <= clock'
                      /\ request'[s].pc # "locking" => Held(s)' = {}
    BY DEF RequestsSound
  <2>1. CASE s = r
    BY <1>1, <1>3, <1>4, <1>5, <1>9, <2>1
  <2>2. CASE s # r
    BY <1>1, <1>3, <1>9, <2>2, RequestFacts
  <2> QED
    BY <2>1, <2>2
<1>12. RowsHeldOnce'
  BY <1>1, <1>9 DEF IInv, RowsHeldOnce
<1>13. BucketsSound'
  BY <1>1 DEF IInv, BucketsSound
<1>14. HeldRowsSound'
  <2> SUFFICES ASSUME NEW s \in Requests, NEW x \in Held(s)'
               PROVE  /\ request'[s].rows[x].last <= clock
                      /\ Paid(spent[x], config[x[1]], request'[s].rows[x])
                      /\ IsSource(x) => Refilled(request'[s].rows[x], config[x[1]],
                                                 request'[s].now).tokens >= 1
    BY <1>1 DEF HeldRowsSound, IsSource
  <2>1. CASE s # r
    BY <1>3, <1>9, <2>1, RequestFacts
  <2>2. CASE s = r /\ x = k
    <3>1. request'[s].rows[x] = row
      BY <1>3, <2>2
    <3>2. IsSource(x) => request'[s].now = clock
      BY <1>3, <2>2
    <3> QED
      BY <1>1, <2>2, <3>1, <3>2
  <2>3. CASE s = r /\ x # k
    <3>1. x \in Held(r) /\ request'[s].rows[x] = request[r].rows[x]
      BY <1>3, <1>9, <2>3
    <3>2. IsSource(x) => request'[s].now = request[r].now
      <4>1. IsSource(x) => ~IsSource(k)
        BY <1>1, <1>4, <2>3, <3>1 DEF OneOfEachKind, IsSource
      <4> QED
        BY <1>3, <2>3, <4>1
    <3> QED
      BY <3>1, <3>2, RequestFacts
  <2> QED
    BY <2>1, <2>2, <2>3
<1> QED
  BY <1>10, <1>11, <1>12, <1>13, <1>14 DEF IInv

(* Releasing the rows leaves the other requests as they are: what a bucket *)
(* owes may change only for a row that nobody else holds.                  *)
LEMMA OthersUnharmed ==
  ASSUME IInv, NEW r \in Requests, NEW q \in Request, DOMAIN q.rows = {}, q.now = 0,
         OneOfEachKind(q.plan), request' = [request EXCEPT ![r] = q],
         UNCHANGED <<namespace, config, clock>>,
         bucket' \in [Key -> Row], spent' \in [Key -> Seq(Charge)],
         \A k \in Key : Sound(spent'[k], config[k[1]], bucket'[k], clock),
         \A s \in Requests : s # r => \A k \in Held(s) : spent'[k] = spent[k]
  PROVE  IInv'
<1>1. /\ request' \in [Requests -> Request]
      /\ RequestsSound' /\ RowsHeldOnce'
      /\ \A s \in Requests : \A k \in Held(s)' :
           s # r /\ k \in Held(s) /\ request'[s] = request[s]
  BY LettingGo
<1>2. StateTyped'
  BY <1>1 DEF IInv, StateTyped
<1>3. BucketsSound'
  BY DEF BucketsSound
<1>4. HeldRowsSound'
  <2> SUFFICES ASSUME NEW s \in Requests, NEW k \in Held(s)'
               PROVE  /\ request'[s].rows[k].last <= clock'
                      /\ Paid(spent'[k], config'[k[1]], request'[s].rows[k])
                      /\ IsSource(k)' => Refilled(request'[s].rows[k], config'[k[1]],
                                                  request'[s].now).tokens >= 1
    BY DEF HeldRowsSound
  <2>1. s # r /\ k \in Held(s) /\ request'[s] = request[s] /\ spent'[k] = spent[k]
    BY <1>1
  <2> QED
    BY <2>1, RequestFacts DEF IsSource
<1> QED
  BY <1>1, <1>2, <1>3, <1>4 DEF IInv

(* A refill at a time that has passed.                                     *)
LEMMA RefilledSoFar ==
  ASSUME NEW s \in Seq(Charge), NEW policy \in Policy, Accepted(policy), NEW row \in Row,
         NEW time \in Nat, NEW now \in Nat, now <= time, row.last <= time, Paid(s, policy, row)
  PROVE  LET new == Refilled(row, policy, now) IN
         /\ new \in Row /\ new # NoRow /\ new.expires = new.last + Retention(policy)
         /\ new.tokens <= policy.capacity /\ now < new.last + policy.refill
         /\ new.last <= time /\ Paid(s, policy, new)
<1> PICK new \in Row : new = Refilled(row, policy, now)
  BY RefilledRow
<1>1. /\ new # NoRow /\ new.expires = new.last + Retention(policy)
      /\ new.tokens <= policy.capacity /\ now < new.last + policy.refill
      /\ new.last <= row.last \/ new.last <= now
  BY RefilledRow
<1>2. new.last <= time
  <2>1. new.last \in Nat /\ row.last \in Nat
    BY DEF Row
  <2> QED
    BY <1>1, <2>1
<1>3. Paid(s, policy, new)
  BY PaidByRefill
<1> QED
  BY <1>1, <1>2, <1>3

LEMMA DenyStep == ASSUME IInv, NEW r \in Requests, NEW k \in Key, DenyAtSource(r, k) PROVE IInv'
<1> PICK new : new = Refilled(Ensured(k), config[k[1]], clock)
  OBVIOUS
<1>1. /\ bucket' = [bucket EXCEPT ![k] = new] /\ request' = [request EXCEPT ![r] = Idle]
      /\ UNCHANGED <<namespace, config, clock, spent>>
  BY DEF DenyAtSource
<1>2. /\ config[k[1]] \in Policy /\ Accepted(config[k[1]]) /\ clock \in Nat
      /\ spent[k] \in Seq(Charge) /\ Sound(spent[k], config[k[1]], bucket[k], clock)
  BY StateFacts
<1>3. /\ new \in Row /\ new # NoRow /\ new.expires = new.last + Retention(config[k[1]])
      /\ new.last <= clock /\ Paid(spent[k], config[k[1]], new)
  BY <1>2, EnsuredRow, RefilledSoFar
<1>4. Sound(spent[k], config[k[1]], new, clock)
  BY <1>2, <1>3, SoundRefill
<1>5. bucket \in [Key -> Row] /\ spent \in [Key -> Seq(Charge)]
  BY DEF IInv, StateTyped
<1>6. bucket' \in [Key -> Row] /\ bucket'[k] = new /\ \A x \in Key : x # k => bucket'[x] = bucket[x]
  BY <1>1, <1>3, <1>5
<1>7. \A x \in Key : Sound(spent'[x], config[x[1]], bucket'[x], clock)
  BY <1>1, <1>4, <1>6, StateFacts
<1> QED
  BY <1>1, <1>5, <1>6, <1>7, IdleRequest, OthersUnharmed

LEMMA ResetStep == ASSUME IInv, NEW r \in Requests, ResetEmail(r) PROVE IInv'
<1> PICK k \in request[r].plan :
      /\ k[1] = "email" /\ ~Locked(k)
      /\ bucket' = [bucket EXCEPT ![k] = NoRow]
      /\ spent' = [spent EXCEPT ![k] = <<>>]
  BY DEF ResetEmail
<1>1. k \in Key
  BY RequestFacts
<1>2. request' = [request EXCEPT ![r] = Idle] /\ UNCHANGED <<namespace, config, clock>>
  BY DEF ResetEmail
<1>3. NoRow \in Row /\ NoRow.last <= clock /\ <<>> \in Seq(Charge)
  BY StateFacts DEF NoRow, Row
<1>4. bucket \in [Key -> Row] /\ spent \in [Key -> Seq(Charge)]
  BY DEF IInv, StateTyped
<1>5. /\ bucket' \in [Key -> Row] /\ bucket'[k] = NoRow
      /\ \A x \in Key : x # k => bucket'[x] = bucket[x]
  BY <1>1, <1>3, <1>4
<1>6. /\ spent' \in [Key -> Seq(Charge)] /\ spent'[k] = <<>>
      /\ \A x \in Key : x # k => spent'[x] = spent[x]
  BY <1>1, <1>3, <1>4
<1>7. \A x \in Key : Sound(spent'[x], config[x[1]], bucket'[x], clock)
  <2> TAKE x \in Key
  <2>1. CASE x = k
    BY <1>3, <1>5, <1>6, <2>1, SoundNothing
  <2>2. CASE x # k
    BY <1>5, <1>6, <2>2, StateFacts
  <2> QED
    BY <2>1, <2>2
<1>8. \A s \in Requests : s # r => \A x \in Held(s) : spent'[x] = spent[x]
  BY <1>6, RequestFacts DEF Locked
<1> QED
  BY <1>2, <1>5, <1>6, <1>7, <1>8, IdleRequest, OthersUnharmed

(* One bucket of a request that is decided: refilled, and maybe charged.   *)
LEMMA RefilledBucket ==
  ASSUME IInv, NEW r \in Requests, NEW k \in Held(r), NEW now \in Nat, now <= clock,
         NEW row, row = Refilled(request[r].rows[k], config[k[1]], now)
  PROVE  /\ row \in Row /\ row # NoRow /\ row.expires = row.last + Retention(config[k[1]])
         /\ row.tokens <= config[k[1]].capacity /\ now < row.last + config[k[1]].refill
         /\ row.last <= clock /\ Paid(spent[k], config[k[1]], row)
         /\ Sound(spent[k], config[k[1]], row, clock)
<1>1. /\ k \in Key /\ request[r].rows[k] \in Row /\ request[r].rows[k].last <= clock
      /\ Paid(spent[k], config[k[1]], request[r].rows[k])
  BY RequestFacts
<1>2. /\ config[k[1]] \in Policy /\ Accepted(config[k[1]]) /\ clock \in Nat
      /\ spent[k] \in Seq(Charge) /\ Sound(spent[k], config[k[1]], bucket[k], clock)
  BY <1>1, StateFacts
<1>3. /\ row \in Row /\ row # NoRow /\ row.expires = row.last + Retention(config[k[1]])
      /\ row.tokens <= config[k[1]].capacity /\ now < row.last + config[k[1]].refill
      /\ row.last <= clock /\ Paid(spent[k], config[k[1]], row)
  BY <1>1, <1>2, RefilledSoFar
<1> QED
  BY <1>2, <1>3, SoundRefill

LEMMA ChargedBucket ==
  ASSUME IInv, NEW r \in Requests, NEW k \in Held(r), NEW now \in Nat, now <= clock,
         NEW row, row = Refilled(request[r].rows[k], config[k[1]], now), row.tokens >= 1,
         NEW new, new = [row EXCEPT !.tokens = @ - 1],
         NEW s, s = Append(spent[k], [now |-> now, at |-> clock])
  PROVE  new \in Row /\ s \in Seq(Charge) /\ Sound(s, config[k[1]], new, clock)
<1>1. k \in Key
  BY RequestFacts
<1>2. /\ config[k[1]] \in Policy /\ Accepted(config[k[1]]) /\ clock \in Nat
      /\ spent[k] \in Seq(Charge) /\ Sound(spent[k], config[k[1]], bucket[k], clock)
  BY <1>1, StateFacts
<1>3. /\ row \in Row /\ row # NoRow /\ row.expires = row.last + Retention(config[k[1]])
      /\ row.tokens <= config[k[1]].capacity /\ now < row.last + config[k[1]].refill
      /\ row.last <= clock /\ Paid(spent[k], config[k[1]], row)
  BY RefilledBucket
<1> PICK charge \in Charge : charge = [now |-> now, at |-> clock]
  BY <1>2 DEF Charge
<1>4. charge.now = now /\ charge.at = clock
  OBVIOUS
<1>5. row.tokens \in Nat /\ row.last \in Nat /\ row.expires \in Nat
  BY <1>3 DEF Row
<1>6. new = [tokens |-> row.tokens - 1, last |-> row.last, expires |-> row.expires]
  BY <1>3 DEF Row
<1>7. row.tokens - 1 \in Nat
  BY <1>5
<1>8. /\ new \in Row /\ new.tokens = row.tokens - 1 /\ new.last = row.last
      /\ new.expires = row.expires
  BY <1>5, <1>6, <1>7 DEF Row
<1>9. new # NoRow
  <2>1. Retention(config[k[1]]) \in Nat \ {0}
    BY <1>2, KeptRetention
  <2>2. new.expires # 0
    BY <1>3, <1>5, <1>8, <2>1
  <2> QED
    BY <2>2 DEF NoRow
<1>10. Paid(Append(spent[k], charge), config[k[1]], new)
  BY <1>2, <1>3, <1>4, <1>8, PaidCharge
<1>11. s = Append(spent[k], charge) /\ s \in Seq(Charge)
  BY <1>2
<1>12. Sound(Append(spent[k], charge), config[k[1]], new, clock)
  BY <1>2, <1>3, <1>4, <1>8, <1>9, <1>10, SoundCharge
<1> QED
  BY <1>8, <1>11, <1>12

LEMMA DecideStep == ASSUME IInv, NEW r \in Requests, Decide(r) PROVE IInv'
<1> PICK now : now = IF namespace \in SourceAware THEN request[r].now ELSE clock
  OBVIOUS
<1> DEFINE row(k) == Refilled(request[r].rows[k], config[k[1]], now)
           allowed == \A k \in Held(r) : row(k).tokens >= 1
           written(k) == [row(k) EXCEPT !.tokens = IF Charged(k, allowed) THEN @ - 1 ELSE @]
           recorded(k) == IF Charged(k, allowed)
                            THEN Append(spent[k], [now |-> now, at |-> clock]) ELSE spent[k]
<1>1. /\ bucket' = [k \in Key |-> IF k \notin Held(r) THEN bucket[k] ELSE written(k)]
      /\ UNCHANGED <<namespace, config, clock>>
  BY DEF Decide
<1>2. spent' = [k \in Key |->
                 IF k \in Held(r) /\ Charged(k, allowed)
                   THEN Append(spent[k], [now |-> now, at |-> clock]) ELSE spent[k]]
  BY DEF Decide
<1>3. request' = [request EXCEPT ![r] =
                   IF allowed /\ namespace = "login"
                     THEN [Idle EXCEPT !.pc = "admitted", !.plan = request[r].plan] ELSE Idle]
  BY DEF Decide
<1>4. now \in Nat /\ now <= clock /\ clock \in Nat
  BY RequestFacts, StateFacts
<1>5. ASSUME NEW k \in Held(r), Charged(k, allowed) PROVE row(k).tokens >= 1
  <2>1. CASE IsSource(k)
    BY <2>1, RequestFacts DEF IsSource
  <2>2. CASE ~IsSource(k)
    BY <1>5, <2>2 DEF Charged
  <2> QED
    BY <2>1, <2>2
<1>6. ASSUME NEW k \in Held(r)
      PROVE  written(k) \in Row /\ recorded(k) \in Seq(Charge)
             /\ Sound(recorded(k), config[k[1]], written(k), clock)
  <2> PICK one : one = row(k)
    OBVIOUS
  <2>1. one = Refilled(request[r].rows[k], config[k[1]], now)
    OBVIOUS
  <2>2. CASE Charged(k, allowed)
    <3> PICK new, s : new = [one EXCEPT !.tokens = @ - 1]
                      /\ s = Append(spent[k], [now |-> now, at |-> clock])
      OBVIOUS
    <3>1. new = written(k) /\ s = recorded(k)
      BY <2>2
    <3>2. one.tokens >= 1
      BY <1>5, <2>2
    <3> HIDE DEF row, allowed, written, recorded
    <3>3. new \in Row /\ s \in Seq(Charge) /\ Sound(s, config[k[1]], new, clock)
      BY <1>4, <2>1, <3>2, ChargedBucket
    <3> QED
      BY <3>1, <3>3
  <2>3. CASE ~Charged(k, allowed)
    <3>1. one \in Row /\ Sound(spent[k], config[k[1]], one, clock)
      BY <1>4, <2>1, RefilledBucket
    <3>2. written(k) = one /\ recorded(k) = spent[k]
      BY <2>3, <3>1 DEF Row
    <3>3. spent[k] \in Seq(Charge)
      BY RequestFacts, StateFacts
    <3> QED
      BY <3>1, <3>2, <3>3
  <2> QED
    BY <2>2, <2>3
<1> HIDE DEF row, allowed, written
<1>7. \A k \in Key :
        IF k \in Held(r) THEN bucket'[k] = written(k) /\ spent'[k] = recorded(k)
                         ELSE bucket'[k] = bucket[k] /\ spent'[k] = spent[k]
  BY <1>1, <1>2
<1>8. \A k \in Key : /\ bucket'[k] \in Row /\ spent'[k] \in Seq(Charge)
                     /\ Sound(spent'[k], config[k[1]], bucket'[k], clock)
  BY <1>6, <1>7, StateFacts
<1>9. bucket' \in [Key -> Row] /\ spent' \in [Key -> Seq(Charge)]
  BY <1>1, <1>2, <1>8
<1>10. \A s \in Requests : s # r => \A k \in Held(s) : spent'[k] = spent[k]
  <2> TAKE s \in Requests
  <2> SUFFICES ASSUME s # r, NEW k \in Held(s) PROVE spent'[k] = spent[k]
    OBVIOUS
  <2>1. k \in Key /\ k \notin Held(r)
    BY RequestFacts DEF IInv, RowsHeldOnce
  <2> QED
    BY <1>7, <2>1
<1> PICK q : q = IF allowed /\ namespace = "login"
                   THEN [Idle EXCEPT !.pc = "admitted", !.plan = request[r].plan] ELSE Idle
  OBVIOUS
<1>11. q \in Request /\ DOMAIN q.rows = {} /\ q.now = 0 /\ OneOfEachKind(q.plan)
  <2> PICK admitted : admitted = [Idle EXCEPT !.pc = "admitted", !.plan = request[r].plan]
    OBVIOUS
  <2>1. /\ admitted \in Request /\ DOMAIN admitted.rows = {} /\ admitted.now = 0
        /\ admitted.plan = request[r].plan
    BY IdleRequest, RequestFacts DEF Request, Idle
  <2>2. OneOfEachKind(admitted.plan)
    BY <2>1, RequestFacts
  <2> QED
    BY <2>1, <2>2, IdleRequest
<1> QED
  BY <1>1, <1>3, <1>8, <1>9, <1>10, <1>11, OthersUnharmed

(* Cleanup deletes a row a retention after its last refill, or one that    *)
(* nobody was charged for.                                                 *)
LEMMA CleanupStep == ASSUME IInv, NEW k \in Key, Cleanup(k) PROVE IInv'
<1>1. /\ bucket' = [bucket EXCEPT ![k] = NoRow] /\ bucket[k] # NoRow /\ Deadline(k) <= clock
      /\ UNCHANGED <<namespace, config, request, clock, spent>>
  BY DEF Cleanup, Collectable
<1>2. /\ config[k[1]] \in Policy /\ Accepted(config[k[1]]) /\ clock \in Nat
      /\ bucket[k] \in Row
      /\ spent[k] \in Seq(Charge) /\ Sound(spent[k], config[k[1]], bucket[k], clock)
  BY StateFacts
<1>3. spent[k] # <<>> => bucket[k].last + Retention(config[k[1]]) <= clock
  BY <1>1, <1>2 DEF Deadline, Sound
<1>4. Sound(spent[k], config[k[1]], NoRow, clock)
  BY <1>1, <1>2, <1>3, SoundGone
<1>5. NoRow \in Row
  BY DEF NoRow, Row
<1>6. bucket \in [Key -> Row]
  BY DEF IInv, StateTyped
<1>7. bucket' \in [Key -> Row] /\ bucket'[k] = NoRow /\ \A x \in Key : x # k => bucket'[x] = bucket[x]
  BY <1>1, <1>5, <1>6
<1>8. StateTyped'
  BY <1>1, <1>7 DEF IInv, StateTyped
<1>9. BucketsSound'
  <2> SUFFICES ASSUME NEW x \in Key PROVE Sound(spent[x], config[x[1]], bucket'[x], clock)
    BY <1>1 DEF BucketsSound
  <2> QED
    BY <1>4, <1>7, StateFacts
<1>10. RequestsSound' /\ RowsHeldOnce' /\ HeldRowsSound'
  BY <1>1 DEF IInv, RequestsSound, RowsHeldOnce, HeldRowsSound, Held, IsSource
<1> QED
  BY <1>8, <1>9, <1>10 DEF IInv

(* A restart begins a new history: the budget is that of a configuration.  *)
LEMMA RestartStep == ASSUME IInv, Restart PROVE IInv'
<1>1. /\ config' \in Starts /\ request' = [r \in Requests |-> Idle]
      /\ spent' = [k \in Key |-> <<>>] /\ UNCHANGED <<namespace, bucket, clock>>
  BY DEF Restart
<1>2. config' \in [Kinds -> Policy] /\ \A k \in Kinds : Accepted(config'[k])
  BY <1>1, StartsAreConfigs
<1>3. \A r \in Requests :
        /\ request'[r] = Idle /\ request'[r] \in Request /\ Held(r)' = {}
        /\ request'[r].now = 0 /\ OneOfEachKind(request'[r].plan)
  BY <1>1, IdleRequest DEF Held
<1>4. request' \in [Requests -> Request]
  BY <1>1, <1>3
<1>5. \A k \in Key : spent'[k] = <<>> /\ spent'[k] \in Seq(Charge)
  BY <1>1
<1>6. StateTyped'
  BY <1>1, <1>2, <1>4, <1>5 DEF IInv, StateTyped
<1>7. RequestsSound' /\ RowsHeldOnce' /\ HeldRowsSound'
  BY <1>1, <1>3, StateFacts DEF RequestsSound, RowsHeldOnce, HeldRowsSound
<1>8. BucketsSound'
  <2> SUFFICES ASSUME NEW k \in Key PROVE Sound(<<>>, config'[k[1]], bucket[k], clock)
    BY <1>1, <1>5 DEF BucketsSound
  <2>1. bucket[k].last <= clock
    BY StateFacts DEF Sound
  <2> QED
    BY <2>1, SoundNothing
<1> QED
  BY <1>6, <1>7, <1>8 DEF IInv

LEMMA TickStep == ASSUME IInv, Tick PROVE IInv'
<1>1. /\ clock < MaxTime /\ clock' = clock + 1 /\ clock \in Nat
      /\ UNCHANGED <<namespace, config, bucket, request, spent>>
  BY StateFacts DEF Tick
<1>2. StateTyped'
  BY <1>1, Bounds DEF IInv, StateTyped
<1>3. RequestsSound' /\ RowsHeldOnce'
  <2> SUFFICES ASSUME NEW r \in Requests PROVE request[r].now <= clock + 1
    BY <1>1 DEF IInv, RequestsSound, RowsHeldOnce, Held
  <2> QED
    BY <1>1, RequestFacts
<1>4. BucketsSound'
  <2> SUFFICES ASSUME NEW k \in Key PROVE Sound(spent[k], config[k[1]], bucket[k], clock + 1)
    BY <1>1 DEF BucketsSound
  <2> QED
    BY <1>1, StateFacts, SoundLater
<1>5. HeldRowsSound'
  <2> SUFFICES ASSUME NEW r \in Requests, NEW k \in Held(r)
               PROVE  /\ request[r].rows[k].last <= clock + 1
                      /\ Paid(spent[k], config[k[1]], request[r].rows[k])
                      /\ IsSource(k) => Refilled(request[r].rows[k], config[k[1]],
                                                 request[r].now).tokens >= 1
    BY <1>1 DEF HeldRowsSound, Held, IsSource
  <2>1. /\ request[r].rows[k] \in Row /\ request[r].rows[k].last <= clock
        /\ Paid(spent[k], config[k[1]], request[r].rows[k])
        /\ IsSource(k) => Refilled(request[r].rows[k], config[k[1]], request[r].now).tokens >= 1
    BY RequestFacts
  <2>2. request[r].rows[k].last <= clock + 1
    BY <1>1, <2>1 DEF Row
  <2> QED
    BY <2>1, <2>2
<1> QED
  BY <1>2, <1>3, <1>4, <1>5 DEF IInv

LEMMA StutterStep == ASSUME IInv, UNCHANGED vars PROVE IInv'
<1>1. UNCHANGED <<namespace, config, bucket, request, clock, spent>>
  BY DEF vars
<1>2. StateTyped' /\ RequestsSound' /\ RowsHeldOnce'
  BY <1>1 DEF IInv, StateTyped, RequestsSound, RowsHeldOnce, Held
<1>3. BucketsSound' /\ HeldRowsSound'
  BY <1>1 DEF IInv, BucketsSound, HeldRowsSound, Held, IsSource
<1> QED
  BY <1>2, <1>3 DEF IInv

LEMMA NextKeepsIInv == ASSUME IInv, [Next]_vars PROVE IInv'
<1>1. CASE \E r \in Requests :
             \/ Begin(r) \/ Decide(r) \/ RollBack(r) \/ ResetEmail(r) \/ FailLogin(r)
             \/ \E k \in Key : Lock(r, k) \/ DenyAtSource(r, k)
  BY <1>1, BeginStep, DecideStep, GivingUpStep, ResetStep, LockStep, DenyStep
<1>2. CASE \E k \in Key : Cleanup(k)
  BY <1>2, CleanupStep
<1>3. CASE Restart
  BY <1>3, RestartStep
<1>4. CASE Tick
  BY <1>4, TickStep
<1>5. CASE UNCHANGED vars
  BY <1>5, StutterStep
<1> QED
  BY <1>1, <1>2, <1>3, <1>4, <1>5 DEF Next

-----------------------------------------------------------------------------
(* The theorems *)

(* The inductive invariant holds in every reachable state.                 *)
THEOREM InvariantHolds == Spec => []IInv
<1>1. IInv /\ [Next]_vars => IInv'
  BY NextKeepsIInv
<1> QED
  BY InitIInv, <1>1, PTL DEF Spec

(* Rows, requests and the running configuration keep their types: no       *)
(* bucket goes below zero, every policy in force was accepted at start-up, *)
(* and the time a request read is not later than the database's.           *)
THEOREM TypeCorrect == Spec => []TypeOK
<1>1. IInv => TypeOK
  <2> SUFFICES ASSUME IInv PROVE TypeOK
    OBVIOUS
  <2>1. \A r \in Requests :
          /\ request[r].pc \in {"idle", "locking", "admitted"}
          /\ request[r].plan \subseteq Key
          /\ Held(r) \subseteq request[r].plan /\ \A k \in Held(r) : request[r].rows[k] \in Row
          /\ request[r].now \in 0..clock
    BY RequestFacts, StateFacts
  <2> QED
    BY <2>1 DEF IInv, StateTyped, TypeOK
<1> QED
  BY <1>1, InvariantHolds, PTL

(* The limit of rate_limit.go, for any policy, any number of requests and  *)
(* every interleaving of them with resets, cleanup, restarts and time.     *)
THEOREM BudgetKept == Spec => []BudgetHolds
<1>1. IInv => BudgetHolds
  BY DEF IInv, BucketsSound, Sound, WithinBudget, BudgetHolds
<1> QED
  BY <1>1, InvariantHolds, PTL

(* A row left alone for capacity + 1 intervals is full, whoever wrote it.  *)
LEMMA FullAfterRetention ==
  ASSUME NEW row \in Row, NEW policy \in Policy, Accepted(policy), NEW now \in Nat,
         row.last + Retention(policy) <= now
  PROVE  Refilled(row, policy, now).tokens = policy.capacity
<1> PICK tokens \in Nat, last \in Nat : tokens = row.tokens /\ last = row.last
  BY DEF Row
<1> PICK c \in Nat, refill \in Nat \ {0} : c = policy.capacity /\ refill = policy.refill
  BY DEF Policy
<1> PICK d \in Nat \ {0} : d = Retention(policy)
  BY KeptRetention
<1>1. d = (c + 1) * refill /\ last + d <= now
  BY KeptRetention
<1> PICK a : a = (now - last) \div refill
  OBVIOUS
<1>2. now > last /\ now - last \in Nat /\ (c + 1) * refill <= now - last
  BY <1>1
<1>3. a \in Nat /\ now - last < refill * a + refill
  BY <1>2
<1>4. a > c
  <2> SUFFICES ASSUME ~(a > c) PROVE FALSE
    OBVIOUS
  <2>1. a <= c /\ refill * a <= refill * c
    BY <1>3
  <2>2. (c + 1) * refill = refill * c + refill
    OBVIOUS
  <2>3. refill * a \in Nat /\ refill * c \in Nat
    BY <1>3
  <2> QED
    BY <1>2, <1>3, <2>1, <2>2, <2>3
<1> DEFINE clipped == IF tokens > c THEN c ELSE tokens
<1>5. clipped \in Nat /\ clipped + a > c
  BY <1>3, <1>4
<1> HIDE DEF clipped
<1>6. Refilled(row, policy, now) = Written(c, last + a * refill, policy)
  BY <1>2, <1>5 DEF Refilled, clipped
<1> QED
  BY <1>6 DEF Written

(* Cleanup deletes only what a refill would fill, whatever configuration   *)
(* wrote the row: a deletion gives nobody a token.                         *)
THEOREM CollectableFull == Spec => []CollectableIsFull
<1>1. IInv => CollectableIsFull
  <2> SUFFICES ASSUME IInv, HasCleanupPolicy(namespace), NEW k \in Key, Collectable(k)
               PROVE  WouldBeFull(k)
    BY DEF CollectableIsFull
  <2>1. bucket[k].last + Retention(config[k[1]]) <= clock
    BY DEF Collectable, Deadline
  <2> QED
    BY <2>1, StateFacts, FullAfterRetention DEF WouldBeFull
<1> QED
  BY <1>1, InvariantHolds, PTL

(* Whose tokens a step takes.                                              *)
LEMMA OnlyDecideTakes ==
  ASSUME IInv, [Next]_vars, NEW k \in Key, Took(k)
  PROVE  \E r \in Requests : Decide(r)
<1>1. spent[k] \in Seq(Charge) /\ spent \in [Key -> Seq(Charge)]
  BY DEF IInv, StateTyped
<1>2. Len(spent[k]) \in Nat
  BY <1>1
<1>3. spent'[k] # spent[k] /\ spent'[k] # <<>>
  BY <1>2 DEF Took
<1>4. ASSUME NEW r \in Requests PROVE ~(Begin(r) \/ RollBack(r) \/ FailLogin(r))
  BY <1>3 DEF Begin, RollBack, FailLogin
<1>5. ASSUME NEW r \in Requests PROVE ~ResetEmail(r)
  <2> SUFFICES ASSUME ResetEmail(r) PROVE FALSE
    OBVIOUS
  <2> PICK x \in request[r].plan : spent' = [spent EXCEPT ![x] = <<>>]
    BY DEF ResetEmail
  <2> QED
    BY <1>1, <1>3
<1>6. ASSUME NEW r \in Requests, NEW x \in Key PROVE ~(Lock(r, x) \/ DenyAtSource(r, x))
  BY <1>3 DEF Lock, DenyAtSource
<1>7. ~(\E x \in Key : Cleanup(x)) /\ ~Tick /\ ~UNCHANGED vars
  BY <1>3 DEF Cleanup, Tick, vars
<1>8. ~Restart
  BY <1>3 DEF Restart
<1> QED
  BY <1>4, <1>5, <1>6, <1>7, <1>8 DEF Next

LEMMA StepChargesTogether ==
  ASSUME IInv, [Next]_vars
  PROVE  \A k \in Key : Took(k) /\ ~IsSource(k) =>
           \E r \in Requests : k \in request[r].plan /\ \A other \in request[r].plan : Took(other)
<1> SUFFICES ASSUME NEW k \in Key, Took(k), ~IsSource(k)
             PROVE  \E r \in Requests :
                      k \in request[r].plan /\ \A other \in request[r].plan : Took(other)
  OBVIOUS
<1> PICK r \in Requests : Decide(r)
  BY OnlyDecideTakes
<1> PICK now : now = IF namespace \in SourceAware THEN request[r].now ELSE clock
  OBVIOUS
<1> DEFINE allowed == \A x \in Held(r) : Refilled(request[r].rows[x], config[x[1]], now).tokens >= 1
<1>1. /\ Held(r) = request[r].plan
      /\ spent' = [x \in Key |->
                    IF x \in Held(r) /\ Charged(x, allowed)
                      THEN Append(spent[x], [now |-> now, at |-> clock]) ELSE spent[x]]
  BY DEF Decide
<1> HIDE DEF allowed
<1>2. \A x \in Key : spent[x] \in Seq(Charge)
  BY StateFacts
<1>3. k \in Held(r) /\ allowed
  <2>1. Len(spent[k]) \in Nat
    BY <1>2
  <2>2. spent'[k] # spent[k]
    BY <2>1 DEF Took
  <2> QED
    BY <1>1, <2>2 DEF Charged
<1>4. ASSUME NEW other \in request[r].plan PROVE Took(other)
  <2>1. other \in Key /\ other \in Held(r)
    BY <1>1, RequestFacts
  <2>2. spent'[other] = Append(spent[other], [now |-> now, at |-> clock])
    BY <1>1, <1>3, <2>1 DEF Charged
  <2> PICK charge : charge = [now |-> now, at |-> clock]
    OBVIOUS
  <2> PICK s \in Seq(Charge) : s = spent[other]
    BY <1>2, <2>1
  <2>3. Len(Append(s, charge)) = Len(s) + 1 /\ Len(s) \in Nat
    OBVIOUS
  <2> QED
    BY <2>2, <2>3 DEF Took
<1> QED
  BY <1>1, <1>3, <1>4

(* A denied request costs nobody but its source: tokens of the other       *)
(* buckets are taken from all it is about or from none.                    *)
THEOREM ChargesTogether == Spec => ChargedTogether
<1>1. IInv /\ [Next]_vars =>
        [\A k \in Key : Took(k) /\ ~IsSource(k) =>
           \E r \in Requests :
             k \in request[r].plan /\ \A other \in request[r].plan : Took(other)]_vars
  BY StepChargesTogether
<1> QED
  BY <1>1, InvariantHolds, PTL DEF Spec, ChargedTogether

-----------------------------------------------------------------------------
(* The order of the row locks *)

(* The source first, the others by rank.                                   *)
Place(k) == IF IsSource(k) THEN 0 ELSE 1 + Rank[k[1]]

LocksInOrder ==
  \A r \in Requests : \A h \in Held(r), k \in request[r].plan \ Held(r) : Place(h) < Place(k)

(* Waiting for a row: to lock it, or to reset it after a login.            *)
WaitsFor(c, d) ==
  \E k \in Held(d) :
    \/ IsNext(c, k)
    \/ request[c].pc = "admitted" /\ k \in request[c].plan /\ k[1] = "email"

NoCircularWait ==
  \A ring \in SUBSET Requests :
    ring # {} => \E c \in ring : \A d \in ring : ~WaitsFor(c, d)

LEMMA Places ==
  ASSUME NEW k \in Key
  PROVE  Place(k) \in 0..5 /\ (~IsSource(k) => Place(k) = 1 + Rank[k[1]] /\ Rank[k[1]] \in 0..4)
<1>1. ASSUME NEW x \in Kinds PROVE Rank[x] \in 0..4
  BY <1>1 DEF Kinds, Rank
<1>2. Rank[k[1]] \in 0..4
  BY <1>1, KeyKind
<1> QED
  BY <1>2 DEF Place

(* The next row is before all that are left.                               *)
LEMMA NextIsFirst ==
  ASSUME IInv, NEW r \in Requests, NEW k \in Key, IsNext(r, k),
         NEW other \in request[r].plan \ Held(r), other # k
  PROVE  Place(k) < Place(other)
<1>1. k \in request[r].plan /\ other \in Key
  BY RequestFacts DEF IsNext
<1>2. Place(k) \in Nat /\ Place(other) \in Nat /\ Rank[k[1]] \in Int /\ Rank[other[1]] \in Int
  <2>1. ASSUME NEW x \in Kinds PROVE Rank[x] \in Int
    BY <2>1 DEF Kinds, Rank
  <2> QED
    BY <1>1, <2>1, Places, KeyKind
<1>3. CASE IsSource(k)
  <2>1. ~IsSource(other)
    BY <1>1, <1>3, RequestFacts DEF IsSource, OneOfEachKind
  <2>2. Place(k) = 0 /\ Place(other) = 1 + Rank[other[1]] /\ Rank[other[1]] \in 0..4
    BY <1>1, <1>3, <2>1, Places DEF Place
  <2> QED
    BY <2>2
<1>4. CASE ~IsSource(k)
  <2>1. ~IsSource(other) /\ Rank[k[1]] < Rank[other[1]]
    BY <1>4 DEF IsNext
  <2>2. Place(k) = 1 + Rank[k[1]] /\ Place(other) = 1 + Rank[other[1]]
    BY <1>4, <2>1 DEF Place
  <2> QED
    BY <1>2, <2>1, <2>2
<1> QED
  BY <1>3, <1>4

(* A step that gives no row to anybody.                                    *)
LEMMA OrderWithoutLock ==
  ASSUME IInv, LocksInOrder, namespace' = namespace,
         \A r \in Requests : Held(r)' = {} \/ request'[r] = request[r]
  PROVE  LocksInOrder'
<1> SUFFICES ASSUME NEW r \in Requests, NEW h \in Held(r)', NEW k \in request'[r].plan \ Held(r)'
             PROVE  Place(h)' < Place(k)'
  BY DEF LocksInOrder
<1>1. request'[r] = request[r] /\ Held(r)' = Held(r)
  BY DEF Held
<1>2. Place(h) < Place(k)
  BY <1>1 DEF LocksInOrder
<1>3. Place(h)' = Place(h) /\ Place(k)' = Place(k)
  BY DEF Place, IsSource
<1> QED
  BY <1>2, <1>3

LEMMA NextKeepsOrder == ASSUME IInv, LocksInOrder, [Next]_vars PROVE LocksInOrder'
<1>1. request \in [Requests -> Request]
  BY DEF IInv, StateTyped
<1>2. ASSUME NEW r \in Requests, NEW q, DOMAIN q.rows = {},
             request' = [request EXCEPT ![r] = q], namespace' = namespace
      PROVE  LocksInOrder'
  <2>1. request'[r] = q /\ \A s \in Requests : s # r => request'[s] = request[s]
    BY <1>1, <1>2
  <2>2. Held(r)' = {}
    BY <1>2, <2>1 DEF Held
  <2> QED
    BY <1>2, <2>1, <2>2, OrderWithoutLock
<1>3. ASSUME NEW r \in Requests,
             Begin(r) \/ Decide(r) \/ RollBack(r) \/ ResetEmail(r) \/ FailLogin(r)
      PROVE  LocksInOrder'
  <2>1. CASE Begin(r)
    <3> PICK plan : request' = [request EXCEPT ![r] = [Idle EXCEPT !.pc = "locking", !.plan = plan]]
      BY <2>1 DEF Begin
    <3> PICK q : q = [Idle EXCEPT !.pc = "locking", !.plan = plan]
      OBVIOUS
    <3>1. DOMAIN q.rows = {}
      BY IdleRequest DEF Idle
    <3> QED
      BY <1>2, <2>1, <3>1 DEF Begin
  <2>2. CASE Decide(r)
    <3> PICK q : /\ request' = [request EXCEPT ![r] = q]
                 /\ q = Idle \/ q = [Idle EXCEPT !.pc = "admitted", !.plan = request[r].plan]
      BY <2>2 DEF Decide
    <3>1. DOMAIN q.rows = {}
      BY IdleRequest DEF Idle
    <3> QED
      BY <1>2, <2>2, <3>1 DEF Decide
  <2>3. CASE RollBack(r) \/ ResetEmail(r) \/ FailLogin(r)
    <3>1. request' = [request EXCEPT ![r] = Idle] /\ namespace' = namespace
      BY <2>3 DEF RollBack, ResetEmail, FailLogin
    <3> QED
      BY <1>2, <3>1, IdleRequest
  <2> QED
    BY <1>3, <2>1, <2>2, <2>3
<1>4. ASSUME NEW r \in Requests, NEW k \in Key, DenyAtSource(r, k) PROVE LocksInOrder'
  BY <1>2, <1>4, IdleRequest DEF DenyAtSource
<1>5. ASSUME NEW r \in Requests, NEW k \in Key, Lock(r, k) PROVE LocksInOrder'
  <2>1. IsNext(r, k) /\ namespace' = namespace
    BY <1>5 DEF Lock
  <2>2. request' = [request EXCEPT
           ![r].rows = [x \in DOMAIN @ \cup {k} |-> IF x = k THEN Ensured(k) ELSE @[x]],
           ![r].now = IF IsSource(k) THEN clock ELSE @]
    BY <1>5 DEF Lock
  <2>3. /\ DOMAIN request'[r].rows = Held(r) \cup {k} /\ request'[r].plan = request[r].plan
        /\ \A s \in Requests : s # r => request'[s] = request[s]
    BY <1>1, <2>2 DEF Request, Held
  <2>4. Held(r)' = Held(r) \cup {k} /\ \A s \in Requests : s # r => Held(s)' = Held(s)
    BY <2>3 DEF Held
  <2> SUFFICES ASSUME NEW s \in Requests, NEW h \in Held(s)',
                      NEW x \in request'[s].plan \ Held(s)'
               PROVE  Place(h) < Place(x)
    <3>1. \A y : Place(y)' = Place(y)
      BY <2>1 DEF Place, IsSource
    <3> QED
      BY <3>1 DEF LocksInOrder
  <2>5. CASE s # r
    BY <2>3, <2>4, <2>5 DEF LocksInOrder
  <2>6. CASE s = r /\ h \in Held(r)
    BY <2>3, <2>4, <2>6 DEF LocksInOrder
  <2>7. CASE s = r /\ h = k
    BY <2>1, <2>3, <2>4, <2>7, NextIsFirst
  <2> QED
    BY <2>4, <2>5, <2>6, <2>7
<1>6. ASSUME NEW k \in Key, Cleanup(k) PROVE LocksInOrder'
  BY <1>6, OrderWithoutLock DEF Cleanup
<1>7. CASE Restart
  BY <1>7, IdleRequest, OrderWithoutLock DEF Restart, Held
<1>8. CASE Tick \/ UNCHANGED vars
  BY <1>8, OrderWithoutLock DEF Tick, vars
<1> QED
  BY <1>3, <1>4, <1>5, <1>6, <1>7, <1>8 DEF Next

LEMMA LastPlace ==
  ASSUME NEW P \in SUBSET (0..5), P # {}
  PROVE  \E p \in P : \A q \in P : q <= p
<1>1. \A q \in P : q = 0 \/ q = 1 \/ q = 2 \/ q = 3 \/ q = 4 \/ q = 5
  OBVIOUS
<1>2. CASE 5 \in P
  BY <1>1, <1>2
<1>3. CASE 5 \notin P /\ 4 \in P
  BY <1>1, <1>3
<1>4. CASE 5 \notin P /\ 4 \notin P /\ 3 \in P
  BY <1>1, <1>4
<1>5. CASE 5 \notin P /\ 4 \notin P /\ 3 \notin P /\ 2 \in P
  BY <1>1, <1>5
<1>6. CASE 5 \notin P /\ 4 \notin P /\ 3 \notin P /\ 2 \notin P /\ 1 \in P
  <2>1. \A q \in P : q = 0 \/ q = 1
    BY <1>1, <1>6
  <2>2. \A q \in P : q <= 1
    BY <2>1
  <2> QED
    BY <1>6, <2>2
<1>7. CASE P \subseteq {0}
  <2> PICK p \in P : p = 0
    BY <1>7
  <2>1. \A q \in P : q <= p
    BY <1>7
  <2> QED
    BY <2>1
<1> QED
  BY <1>1, <1>2, <1>3, <1>4, <1>5, <1>6, <1>7

LEMMA NobodyWaitsInACircle == ASSUME IInv, LocksInOrder PROVE NoCircularWait
<1> SUFFICES ASSUME NEW ring \in SUBSET Requests, ring # {},
                    \A c \in ring : \E d \in ring : WaitsFor(c, d)
             PROVE  FALSE
  BY DEF NoCircularWait
<1> DEFINE Wants(c, k) == \/ IsNext(c, k)
                          \/ request[c].pc = "admitted" /\ k \in request[c].plan /\ k[1] = "email"
           W == {k \in Key : \E c, d \in ring : k \in Held(d) /\ Wants(c, k)}
           P == {Place(k) : k \in W}
<1>1. \A c \in ring : \E d \in ring : \E k \in Held(d) : Wants(c, k)
  BY DEF WaitsFor
<1>2. \A d \in ring : Held(d) \subseteq Key
  BY RequestFacts
<1> HIDE DEF Wants
<1>3. W # {}
  BY <1>1, <1>2
<1>4. P # {} /\ P \subseteq 0..5
  BY <1>3, Places
<1>5. PICK k \in W : \A m \in W : Place(m) <= Place(k)
  <2> HIDE DEF W
  <2> PICK p \in P : \A q \in P : q <= p
    BY <1>4, LastPlace
  <2> QED
    OBVIOUS
<1>6. PICK d \in ring : k \in Held(d)
  OBVIOUS
<1> PICK e \in ring : \E m \in Held(e) : Wants(d, m)
  BY <1>1
<1>7. PICK m \in Held(e) : Wants(d, m)
  OBVIOUS
<1>8. m \in W /\ m \in Key
  BY <1>2, <1>7
<1>9. IsNext(d, m)
  BY <1>6, <1>7, RequestFacts DEF Wants
<1>10. Place(k) < Place(m)
  BY <1>6, <1>9 DEF LocksInOrder, IsNext
<1>11. Place(k) \in 0..5 /\ Place(m) \in 0..5 /\ Place(m) <= Place(k)
  BY <1>5, <1>8, Places
<1> QED
  BY <1>10, <1>11

(* "The sorted order ... preventing cycles": whatever requests are in      *)
(* progress, in no set of them does every one wait for a bucket that       *)
(* another of them has locked.                                             *)
THEOREM NeverDeadlocked == Spec => []NoCircularWait
<1>1. Init => LocksInOrder
  BY IdleRequest DEF Init, LocksInOrder, Held
<1>2. IInv /\ LocksInOrder /\ [Next]_vars => LocksInOrder'
  BY NextKeepsOrder
<1>3. IInv /\ LocksInOrder => NoCircularWait
  BY NobodyWaitsInACircle
<1>4. IInv /\ [Next]_vars => IInv'
  BY NextKeepsIInv
<1> QED
  BY <1>1, <1>2, <1>3, <1>4, InitIInv, PTL DEF Spec

-----------------------------------------------------------------------------
(* The arithmetic of refills *)

Intervals(last, now, refill) == IF now > last THEN (now - last) \div refill ELSE 0

Clipped(tokens, capacity) == IF tokens > capacity THEN capacity ELSE tokens

LEMMA RefilledIs ==
  ASSUME NEW row, NEW policy, NEW now
  PROVE  LET a == Intervals(row.last, now, policy.refill) IN
         Refilled(row, policy, now)
           = Written(Clipped(Clipped(row.tokens, policy.capacity) + a, policy.capacity),
                     row.last + a * policy.refill, policy)
BY DEF Refilled, Intervals, Clipped

LEMMA QuotientIs ==
  ASSUME NEW x \in Nat, NEW b \in Nat \ {0}, NEW q \in Nat, b * q <= x, x < b * q + b
  PROVE  x \div b = q
<1> PICK d : d = x \div b
  OBVIOUS
<1>1. d \in Nat /\ b * d <= x /\ x < b * d + b
  OBVIOUS
<1>2. ~(d >= q + 1)
  <2> SUFFICES ASSUME d >= q + 1 PROVE FALSE
    OBVIOUS
  <2>1. b * d >= b * (q + 1) /\ b * (q + 1) = b * q + b
    BY <1>1
  <2> QED
    BY <1>1, <2>1
<1>3. ~(q >= d + 1)
  <2> SUFFICES ASSUME q >= d + 1 PROVE FALSE
    OBVIOUS
  <2>1. b * q >= b * (d + 1) /\ b * (d + 1) = b * d + b
    BY <1>1
  <2> QED
    BY <1>1, <2>1
<1> QED
  BY <1>1, <1>2, <1>3

(* What is counted up to a time, and from there on, is what there is.      *)
LEMMA IntervalsAdd ==
  \A last, t, u, refill, a, m, b :
    /\ last \in Nat /\ t \in Nat /\ u \in Nat /\ t <= u /\ refill \in Nat \ {0}
    /\ a = Intervals(last, t, refill) /\ m = last + a * refill /\ b = Intervals(m, u, refill)
    => a \in Nat /\ m \in Nat /\ b \in Nat /\ Intervals(last, u, refill) = a + b
<1> SUFFICES ASSUME NEW last \in Nat, NEW t \in Nat, NEW u \in Nat, t <= u,
                    NEW refill \in Nat \ {0}, NEW a, a = Intervals(last, t, refill),
                    NEW m, m = last + a * refill, NEW b, b = Intervals(m, u, refill)
             PROVE  a \in Nat /\ m \in Nat /\ b \in Nat /\ Intervals(last, u, refill) = a + b
  OBVIOUS
<1>1. CASE ~(t > last)
  <2>1. a = 0 /\ m = last
    BY <1>1 DEF Intervals
  <2>2. b = Intervals(last, u, refill) /\ b \in Nat
    BY <2>1 DEF Intervals
  <2> QED
    BY <2>1, <2>2
<1>2. CASE t > last
  <2>1. a \in Nat /\ refill * a <= t - last /\ t - last < refill * a + refill
    <3>1. a = (t - last) \div refill
      BY <1>2 DEF Intervals
    <3>2. t - last \in Nat
      BY <1>2
    <3> QED
      BY <3>1, <3>2
  <2>2. m \in Nat /\ m <= u /\ m = last + refill * a
    <3>1. a * refill = refill * a /\ refill * a \in Nat
      BY <2>1
    <3> QED
      BY <2>1, <3>1
  <2>3. b \in Nat /\ refill * b <= u - m /\ u - m < refill * b + refill
    <3>1. CASE u > m
      <4>1. b = (u - m) \div refill /\ u - m \in Nat
        BY <2>2, <3>1 DEF Intervals
      <4> QED
        BY <4>1
    <3>2. CASE u = m
      <4>1. b = 0
        BY <2>2, <3>2 DEF Intervals
      <4>2. b \in Nat /\ refill * b = 0
        BY <4>1
      <4>3. u - m = 0
        BY <2>2, <3>2
      <4>4. refill * b <= 0 /\ 0 < refill * b + refill
        BY <4>2
      <4> QED
        BY <4>2, <4>3, <4>4
    <3> QED
      BY <2>2, <3>1, <3>2
  <2>4. refill * (a + b) = refill * a + refill * b /\ refill * a \in Nat /\ refill * b \in Nat
    BY <2>1, <2>3
  <2>5. /\ a + b \in Nat /\ u - last \in Nat /\ u > last
        /\ refill * (a + b) <= u - last /\ u - last < refill * (a + b) + refill
    BY <1>2, <2>1, <2>2, <2>3, <2>4
  <2>6. (u - last) \div refill = a + b
    <3> PICK x \in Nat, q \in Nat : x = u - last /\ q = a + b
      BY <2>5
    <3>1. x \div refill = q
      BY <2>5, QuotientIs
    <3> QED
      BY <3>1
  <2> QED
    BY <2>1, <2>2, <2>3, <2>5, <2>6 DEF Intervals
<1> QED
  BY <1>1, <1>2

(* How often a bucket is looked at makes no difference: to refill it now   *)
(* and again later is to refill it later, and no remainder is lost.        *)
THEOREM RefillsCompose ==
  ASSUME NEW row \in Row, NEW policy \in Policy, Accepted(policy),
         NEW t \in Nat, NEW u \in Nat, t <= u
  PROVE  Refilled(Refilled(row, policy, t), policy, u) = Refilled(row, policy, u)
<1> PICK tokens \in Nat, last \in Nat : tokens = row.tokens /\ last = row.last
  BY DEF Row
<1> PICK c \in Nat, refill \in Nat \ {0} : c = policy.capacity /\ refill = policy.refill
  BY DEF Policy
<1> PICK a : a = Intervals(last, t, refill)
  OBVIOUS
<1> PICK m : m = last + a * refill
  OBVIOUS
<1> PICK b : b = Intervals(m, u, refill)
  OBVIOUS
<1>1. a \in Nat /\ m \in Nat /\ b \in Nat /\ Intervals(last, u, refill) = a + b
  BY IntervalsAdd
<1> PICK first : first = Clipped(Clipped(tokens, c) + a, c)
  OBVIOUS
<1> PICK new : new = Refilled(row, policy, t)
  OBVIOUS
<1>2. new.tokens = first /\ new.last = m
  BY RefilledIs DEF Written
<1>3. Refilled(new, policy, u) = Written(Clipped(Clipped(first, c) + b, c), m + b * refill, policy)
  BY <1>2, RefilledIs
<1>4. Refilled(row, policy, u)
        = Written(Clipped(Clipped(tokens, c) + (a + b), c), last + (a + b) * refill, policy)
  BY <1>1, RefilledIs
<1>5. Clipped(Clipped(first, c) + b, c) = Clipped(Clipped(tokens, c) + (a + b), c)
  BY <1>1 DEF Clipped
<1>6. m + b * refill = last + (a + b) * refill
  <2>1. (a + b) * refill = a * refill + b * refill /\ a * refill \in Nat /\ b * refill \in Nat
    BY <1>1
  <2> QED
    BY <1>1, <2>1
<1> QED
  BY <1>3, <1>4, <1>5, <1>6

(* An accepted policy keeps its rows for a time that is a time.Duration:   *)
(* bucketTTL of a running process never has to fall back to the largest.   *)
THEOREM RetentionIsADuration ==
  ASSUME NEW policy \in Policy, Accepted(policy)
  PROVE  /\ Retention(policy) = (policy.capacity + 1) * policy.refill
         /\ Retention(policy) <= MaxDuration
<1> PICK c \in Nat, refill \in Nat \ {0} : c = policy.capacity /\ refill = policy.refill
  BY DEF Policy
<1>1. Retention(policy) = (c + 1) * refill
  BY KeptRetention
<1> PICK most \in Nat : most = MaxDuration
  BY Bounds
<1> PICK q : q = most \div refill
  OBVIOUS
<1>2. q \in Nat /\ refill * q <= most
  OBVIOUS
<1>3. c < q
  BY DEF Accepted
<1>4. refill * (c + 1) <= refill * q /\ refill * (c + 1) = (c + 1) * refill
  BY <1>2, <1>3
<1>5. refill * (c + 1) \in Nat /\ refill * q \in Nat
  BY <1>2
<1> QED
  BY <1>1, <1>2, <1>4, <1>5
==============================================================================
