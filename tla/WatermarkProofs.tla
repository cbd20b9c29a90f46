-------------------------- MODULE WatermarkProofs --------------------------
(***************************************************************************)
(* Proofs about Watermark: the outcome of the policy, and that the soft    *)
(* vote reads the payload back.  The layout is arithmetic on remainders:   *)
(* the reader looks for a bit in the block that carries it (CarriedIs),    *)
(* damage reaches at most one copy of it (OneDamaged), and clipped to the  *)
(* smallest weight three copies outvote one (VotesDecide).                 *)
(***************************************************************************)
EXTENDS Watermark, SumTheorems

(* Remainders.                                                             *)

LEMMA DivMod ==
  ASSUME NEW a \in Nat, NEW n \in Nat \ {0}
  PROVE  /\ a \div n \in Nat /\ a % n \in 0 .. n - 1 /\ a % n \in Nat
         /\ a = n * (a \div n) + (a % n)
  OBVIOUS

LEMMA Divided ==
  ASSUME NEW a \in Nat, NEW n \in Nat \ {0}
  PROVE  \E k, r \in Nat : k = a \div n /\ r = a % n /\ r < n /\ a = n * k + r
  <1>1. PICK k : k = a \div n
    OBVIOUS
  <1>2. PICK r : r = a % n
    OBVIOUS
  <1>3. k \in Nat /\ r \in Nat /\ r < n /\ a = n * k + r
    BY <1>1, <1>2, DivMod
  <1> QED
    BY <1>1, <1>2, <1>3

LEMMA Multiples ==
  ASSUME NEW n \in Nat \ {0}, NEW x \in Int, -n < n * x, n * x < n
  PROVE  x = 0
  <1>1. x >= 1 => n * x >= n
    OBVIOUS
  <1>2. x <= -1 => n * x <= -n
    OBVIOUS
  <1> QED
    BY <1>1, <1>2

LEMMA SameRest ==
  ASSUME NEW n \in Nat \ {0}, NEW a \in Nat, NEW b \in Nat, a % n = b % n,
         -n < a - b, a - b < n
  PROVE  a = b
  <1>1. PICK p \in Nat, q \in Nat, r \in Nat : a = n * p + r /\ b = n * q + r
    <2>1. a \div n \in Nat /\ a % n \in Nat /\ a = n * (a \div n) + (a % n)
      BY DivMod
    <2>2. b \div n \in Nat /\ b = n * (b \div n) + (b % n)
      BY DivMod
    <2> QED
      BY <2>1, <2>2
  <1>2. a - b = n * (p - q) /\ p - q \in Int
    BY <1>1
  <1>3. p - q = 0
    BY <1>2, Multiples
  <1> QED
    BY <1>1, <1>3

LEMMA SmallRest ==
  ASSUME NEW n \in Nat \ {0}, NEW a \in 0 .. n - 1
  PROVE  a % n = a /\ a \div n = 0
  <1>1. a % n \in 0 .. n - 1 /\ a \div n \in Nat /\ a = n * (a \div n) + (a % n)
    <2>1. a \in Nat
      OBVIOUS
    <2> QED
      BY <2>1, DivMod
  <1>2. -n < n * (a \div n) /\ n * (a \div n) < n
    BY <1>1
  <1>3. a \div n = 0
    BY <1>1, <1>2, Multiples
  <1> QED
    BY <1>1, <1>3

LEMMA TwoExtremes ==
  ASSUME NEW a \in Int, NEW b \in Int
  PROVE  /\ Min({a, b}) = IF a <= b THEN a ELSE b
         /\ Max({a, b}) = IF a >= b THEN a ELSE b
  BY DEF Min, Max

LEMMA ClippedToOne ==
  ASSUME NEW v \in Int
  PROVE  Clipped(v, 1) = IF v >= 1 THEN 1 ELSE IF v <= -1 THEN -1 ELSE v
  <1>1. PICK m : m = Min({v, 1})
    OBVIOUS
  <1>2. m = (IF v <= 1 THEN v ELSE 1) /\ m \in Int
    BY <1>1, TwoExtremes
  <1>3. Max({-1, m}) = IF -1 >= m THEN -1 ELSE m
    BY <1>2, TwoExtremes
  <1> QED
    BY <1>1, <1>2, <1>3 DEF Clipped

-----------------------------------------------------------------------------
(* The layout.                                                             *)

Given == shape \in Shapes /\ bits \in PayloadBits /\ frames \in FrameCounts

LEMMA Sizes ==
  ASSUME Given, ~Refused
  PROVE  /\ Ncap \in Nat \ {0} /\ Segments \in Nat \ {0}
         /\ bits \in Nat \ {0} /\ frames \in Nat /\ Segments <= frames
         /\ \A t \in 0 .. bits - 1 : t \in Nat /\ t \div Ncap \in 0 .. Segments - 1
  <1>1. shape \in Nat \X Nat /\ bits \in Nat \ {0} /\ frames \in Nat
    BY WatermarkAssumption DEF Given
  <1>2. shape[1] \in Nat /\ shape[2] \in Nat
    BY <1>1
  <1>3. Capacity \in Int
    BY <1>2 DEF Capacity
  <1>4. Capacity >= 1 /\ MaxPayloadBits \in Nat \ {0}
    BY <1>3, WatermarkAssumption DEF Refused
  <1>5. Ncap \in Nat \ {0}
    BY <1>3, <1>4, TwoExtremes DEF Ncap
  <1>6. PICK n \in Nat \ {0} : n = Ncap
    BY <1>5
  <1>7. Segments = IF bits <= n THEN 1 ELSE (bits + n - 1) \div n
    BY <1>6 DEF Segments
  <1>8. Segments \in Nat \ {0} /\ \A t \in 0 .. bits - 1 : t \in Nat /\ t \div n \in 0 .. Segments - 1
    <2>1. CASE bits <= n
      <3>1. Segments = 1
        BY <1>7, <2>1
      <3>2. \A t \in 0 .. bits - 1 : t \in Nat /\ t \div n = 0
        BY <1>1, <2>1, SmallRest
      <3> QED
        BY <3>1, <3>2
    <2>2. CASE bits > n
      <3>1. bits + n - 1 \in Nat
        BY <1>1
      <3>2. PICK s \in Nat, r \in Nat : s = Segments /\ bits + n - 1 = n * s + r /\ r < n
        <4>1. PICK a \in Nat : a = bits + n - 1
          BY <3>1
        <4>2. /\ a \div n \in Nat /\ a % n \in Nat /\ a % n < n
              /\ a = n * (a \div n) + (a % n)
          BY DivMod
        <4>3. Segments = a \div n
          BY <1>1, <1>7, <2>2, <4>1
        <4> QED
          BY <4>1, <4>2, <4>3
      <3>3. n * s >= bits
        BY <1>1, <3>2
      <3>4. s # 0
        BY <1>1, <3>3
      <3>5. ASSUME NEW t \in 0 .. bits - 1
            PROVE  t \in Nat /\ t \div n \in 0 .. s - 1
        <4>1. t \in Nat /\ t < bits
          BY <1>1
        <4>2. PICK k, q \in Nat : k = t \div n /\ q = t % n /\ q < n /\ t = n * k + q
          BY <4>1, Divided
        <4>3. n * k < n * s
          BY <1>1, <3>3, <4>1, <4>2
        <4>4. s <= k => n * s <= n * k
          OBVIOUS
        <4> QED
          BY <4>1, <4>2, <4>3, <4>4
      <3> QED
        BY <3>2, <3>4, <3>5
    <2> QED
      BY <1>1, <2>1, <2>2
  <1>9. Segments <= frames
    BY <1>1, <1>8 DEF Refused
  <1> QED
    BY <1>1, <1>5, <1>6, <1>8, <1>9

(* The reader looks for a bit where the writer put it.                     *)
LEMMA CarriedIs ==
  ASSUME Given, ~Refused, NEW e \in Nat, NEW t \in 0 .. bits - 1,
         e % Segments = t \div Ncap
  PROVE  Carried(e, Place(e, t % Ncap)) = t
  <1>1. PICK n \in Nat \ {0} : n = Ncap
    BY Sizes
  <1>2. t \in Nat /\ t < bits /\ bits \in Nat
    BY Sizes
  <1>3. PICK k, r \in Nat : k = t \div n /\ r = t % n /\ r < n /\ t = n * k + r
    BY <1>2, Divided
  <1> DEFINE q == (r + e) % n
             mine == {i \in 0 .. n - 1 : (i + e) % n = q /\ k * n + i < bits}
  <1>4. k * n + r = t
    BY <1>3
  <1>5. r \in mine
    BY <1>2, <1>3, <1>4
  <1>6. \A i \in mine : i = r
    <2> SUFFICES ASSUME NEW i \in mine PROVE i = r
      OBVIOUS
    <2>1. i + e \in Nat /\ r + e \in Nat /\ i \in Nat /\ r \in Nat /\ (i + e) % n = (r + e) % n
      OBVIOUS
    <2>2. -n < (i + e) - (r + e) /\ (i + e) - (r + e) < n
      <3>1. i \in 0 .. n - 1
        OBVIOUS
      <3> HIDE DEF mine, q
      <3>2. i \in Int /\ r \in Int /\ e \in Int /\ n \in Int /\ 0 <= i /\ i < n /\ 0 <= r /\ r < n
        BY <1>3, <3>1
      <3>3. (i + e) - (r + e) = i - r
        BY <3>2
      <3> QED
        BY <3>2, <3>3
    <2>3. i + e = r + e
      BY <2>1, <2>2, SameRest
    <2> QED
      BY <2>1, <2>3
  <1>7. (CHOOSE i \in mine : TRUE) = r
    BY <1>5, <1>6
  <1>8. Place(e, t % Ncap) = q
    BY <1>1, <1>3 DEF Place, Rotation
  <1>9. {i \in 0 .. Ncap - 1 : Block(e, i) = q /\ (e % Segments) * Ncap + i < bits} = mine
    BY <1>1, <1>3 DEF Block, Rotation
  <1>10. Carried(e, q) = k * n + r
    BY <1>1, <1>3, <1>5, <1>7, <1>9 DEF Carried
  <1> QED
    BY <1>4, <1>8, <1>10

LEMMA ShiftedRest ==
  ASSUME NEW n \in Nat \ {0}, NEW i \in Nat, NEW a \in Nat, NEW b \in Nat,
         (i + a) % n = (i + b) % n
  PROVE  a % n = b % n
  <1>1. i + a \in Nat /\ i + b \in Nat
    OBVIOUS
  <1>2. PICK p, c \in Nat : c = (i + a) % n /\ i + a = n * p + c
    BY <1>1, Divided
  <1>3. PICK q, d \in Nat : d = (i + b) % n /\ i + b = n * q + d
    BY <1>1, Divided
  <1>4. PICK x, y \in Nat : x = a \div n /\ y = a % n /\ y < n /\ a = n * x + y
    BY Divided
  <1>5. PICK z, w \in Nat : z = b \div n /\ w = b % n /\ w < n /\ b = n * z + w
    BY Divided
  <1>6. n * ((p - q) - (x - z)) = ((n * p) - (n * q)) - ((n * x) - (n * z))
    OBVIOUS
  <1>7. y - w = ((n * p) - (n * q)) - ((n * x) - (n * z))
    <2>1. c = d /\ n * p \in Int /\ n * q \in Int /\ n * x \in Int /\ n * z \in Int
      BY <1>2, <1>3
    <2>2. (i + a) - (i + b) = (n * p) - (n * q)
      BY <1>2, <1>3, <2>1
    <2>3. a - b = (n * p) - (n * q)
      BY <2>2
    <2>4. a - b = ((n * x) - (n * z)) + (y - w)
      <3>1. PICK u \in Int, v \in Int : u = n * x /\ v = n * z
        BY <2>1
      <3>2. a = u + y /\ b = v + w
        BY <1>4, <1>5, <3>1
      <3>3. a - b = (u - v) + (y - w)
        BY <3>2
      <3> QED
        BY <3>1, <3>3
    <2> QED
      BY <2>1, <2>3, <2>4
  <1>8. (p - q) - (x - z) = 0
    <2>1. -n < y - w /\ y - w < n /\ (p - q) - (x - z) \in Int
      BY <1>4, <1>5
    <2>2. y - w = n * ((p - q) - (x - z))
      BY <1>6, <1>7
    <2> QED
      BY <2>1, <2>2, Multiples
  <1>9. y - w = 0
    BY <1>6, <1>7, <1>8
  <1> QED
    BY <1>4, <1>5, <1>9

-----------------------------------------------------------------------------
(* The vote.                                                               *)

LEMMA OutvotesOne ==
  ASSUME NEW f, IsFiniteSet(DOMAIN f), NEW d \in DOMAIN f, f[d] \in Int, f[d] >= -1,
         \A e \in DOMAIN f \ {d} : f[e] = 1,
         NEW a \in DOMAIN f \ {d}, NEW b \in DOMAIN f \ {d}, a # b
  PROVE  SumFunction(f) > 0
  <1> DEFINE g == [e \in DOMAIN f \ {d} |-> 1]
             h == [e \in (DOMAIN f \ {d}) \ {a} |-> 1]
  <1>1. /\ DOMAIN g = DOMAIN f \ {d} /\ DOMAIN h = (DOMAIN f \ {d}) \ {a}
        /\ \A e \in DOMAIN g : g[e] = 1 /\ f[e] = g[e]
        /\ \A e \in DOMAIN h : h[e] = 1 /\ g[e] = h[e]
        /\ a \in DOMAIN g /\ b \in DOMAIN h
    OBVIOUS
  <1> HIDE DEF g, h
  <1>2. IsFiniteSet(DOMAIN g) /\ IsFiniteSet(DOMAIN h)
    BY <1>1, FS_RemoveElement
  <1>3. AllIn(Int, f, DOMAIN f) /\ AllIn(Nat, g, DOMAIN g) /\ AllIn(Nat, h, DOMAIN h)
    BY <1>1 DEF AllIn
  <1>4. SumFunction(f) = f[d] + SumFunction(g)
    <2>1. d \notin DOMAIN g /\ DOMAIN f = DOMAIN g \cup {d}
      BY <1>1
    <2> QED
      BY <1>1, <1>2, <1>3, <2>1, SumOfMore
  <1>5. SumFunction(g) = g[a] + SumFunction(h)
    <2>1. a \notin DOMAIN h /\ DOMAIN g = DOMAIN h \cup {a}
      BY <1>1
    <2> QED
      BY <1>1, <1>2, <1>3, <2>1, SumOfMore
  <1>6. SumFunction(h) >= h[b] /\ SumFunction(h) \in Nat
    BY <1>1, <1>2, <1>3, SumIsAtLeast
  <1>7. g[a] = 1 /\ h[b] = 1
    BY <1>1
  <1> QED
    BY <1>4, <1>5, <1>6, <1>7

Harmless == damage.at = "nowhere"

(* n frames are enough to read the payload back. *)
Readable(n) == (Harmless /\ n >= Segments) \/ (n >= 3 * Segments /\ Spread(n))

(* What a copy of bit t says in frame e. *)
LEMMA Says ==
  ASSUME Given, ~Refused, damage \in Damages, NEW e \in Nat, NEW t \in 0 .. bits - 1,
         e % Segments = t \div Ncap,
         NEW v, v = Clipped(Reading(e, Place(e, t % Ncap), t), 1)
  PROVE  /\ ~Damaged(e, Place(e, t % Ncap)) => v = 1
         /\ v \in Int /\ v >= -1
  <1>1. CASE ~Damaged(e, Place(e, t % Ncap))
    <2>1. Reading(e, Place(e, t % Ncap), t) = 2
      BY <1>1, CarriedIs DEF Reading
    <2> QED
      BY <2>1, ClippedToOne
  <1>2. CASE Damaged(e, Place(e, t % Ncap))
    <2>1. damage.as \in Int
      BY WatermarkAssumption DEF Damages
    <2>2. Reading(e, Place(e, t % Ncap), t) = damage.as
      BY <1>2 DEF Reading
    <2> QED
      BY <1>2, <2>1, <2>2, ClippedToOne
  <1> QED
    BY <1>1, <1>2

(* The copies of one segment that the encoder damaged: at most one, when   *)
(* they are in different places.                                           *)
LEMMA OneDamaged ==
  ASSUME Given, ~Refused, damage \in Damages, NEW n \in Nat, Spread(n),
         NEW e \in 0 .. n - 1, NEW g \in 0 .. n - 1, e % Segments = g % Segments,
         NEW i \in Nat, Damaged(e, Place(e, i)), Damaged(g, Place(g, i))
  PROVE  e = g
  <1>1. CASE damage.at = "frame"
    BY <1>1 DEF Damaged
  <1>2. CASE damage.at # "frame"
    <2>1. PICK m \in Nat \ {0} : m = Ncap
      BY Sizes
    <2>2. (i + e) % m = (i + g) % m
      BY <1>2, <2>1 DEF Damaged, Place, Rotation
    <2>3. e % m = g % m
      <3>1. e \in Nat /\ g \in Nat
        OBVIOUS
      <3>2. \A a, b \in Nat : (i + a) % m = (i + b) % m => a % m = b % m
        BY ShiftedRest
      <3> QED
        BY <2>2, <3>1, <3>2
    <2> QED
      BY <2>1, <2>3 DEF Spread
  <1> QED
    BY <1>1, <1>2

LEMMA VotesDecide ==
  ASSUME Given, ~Refused, damage \in Damages, NEW n \in Nat, Readable(n),
         NEW t \in 0 .. bits - 1
  PROVE  Votes(t, n, Segments, 1) > 0
  <1>1. PICK s \in Nat \ {0} : s = Segments
    BY Sizes
  <1>2. PICK k \in 0 .. s - 1 : k = t \div Ncap
    BY <1>1, Sizes
  <1>3. PICK i \in Nat : i = t % Ncap
    <2>1. t \in Nat /\ Ncap \in Nat \ {0}
      BY Sizes
    <2> QED
      BY <2>1, DivMod
  <1>4. PICK copies : copies = {e \in 0 .. n - 1 : e % s = k}
    OBVIOUS
  <1>5. PICK f : f = [e \in copies |-> Clipped(Reading(e, Place(e, i), t), 1)]
    OBVIOUS
  <1>6. Votes(t, n, Segments, 1) = SumFunction(f)
    BY <1>1, <1>2, <1>3, <1>4, <1>5 DEF Votes
  <1>7. DOMAIN f = copies /\ IsFiniteSet(copies)
    <2>1. IsFiniteSet(0 .. n - 1)
      BY FS_Interval
    <2> QED
      BY <1>4, <1>5, <2>1, FS_Subset
  <1>8. \A e \in copies : /\ ~Damaged(e, Place(e, i)) => f[e] = 1
                          /\ f[e] \in Int /\ f[e] >= -1
    <2> SUFFICES ASSUME NEW e \in copies
                 PROVE  /\ ~Damaged(e, Place(e, i)) => f[e] = 1
                        /\ f[e] \in Int /\ f[e] >= -1
      OBVIOUS
    <2>1. e \in Nat /\ e % Segments = t \div Ncap
      BY <1>1, <1>2, <1>4
    <2>2. f[e] = Clipped(Reading(e, Place(e, t % Ncap), t), 1)
      BY <1>3, <1>5
    <2> QED
      BY <1>3, <2>1, <2>2, Says
  <1>9. k % s = k /\ (k + s) % s = k /\ (k + 2 * s) % s = k
    <2>1. k % s = k
      BY SmallRest
    <2>2. ASSUME NEW m \in Nat
          PROVE  (k + m * s) % s = k
      <3>1. k + m * s \in Nat
        OBVIOUS
      <3>2. PICK p, r \in Nat : r = (k + m * s) % s /\ r < s /\ k + m * s = s * p + r
        BY <3>1, Divided
      <3>3. k - r = s * (p - m) /\ -s < k - r /\ k - r < s /\ p - m \in Int
        BY <3>2
      <3>4. p - m = 0
        BY <3>3, Multiples
      <3> QED
        BY <3>2, <3>3, <3>4
    <2>3. (k + 1 * s) % s = k /\ (k + 2 * s) % s = k
      BY <2>2
    <2> QED
      BY <2>1, <2>3
  <1>10. CASE \A e \in copies : ~Damaged(e, Place(e, i))
    <2>1. k \in copies
      <3>1. n >= s
        BY <1>1, <1>2 DEF Readable
      <3> QED
        BY <1>2, <1>4, <1>9, <3>1
    <2>2. \A e \in copies : f[e] = 1
      BY <1>8, <1>10
    <2>3. AllIn(Nat, f, copies) /\ f[k] = 1
      BY <2>1, <2>2 DEF AllIn
    <2> QED
      BY <1>6, <1>7, <2>1, <2>3, SumIsAtLeast
  <1>11. ASSUME NEW d \in copies, Damaged(d, Place(d, i))
         PROVE  Votes(t, n, Segments, 1) > 0
    <2>1. ~Harmless
      BY <1>11 DEF Harmless, Damaged
    <2>2. n >= 3 * s /\ Spread(n)
      BY <1>1, <2>1 DEF Readable
    <2>3. \A e \in copies \ {d} : f[e] = 1
      <3>1. \A e \in copies : Damaged(e, Place(e, i)) => e = d
        BY <1>1, <1>4, <1>11, <2>2, OneDamaged
      <3> QED
        BY <1>8, <3>1
    <2>4. k \in copies /\ k + s \in copies /\ k + 2 * s \in copies
      BY <1>2, <1>4, <1>9, <2>2
    <2>5. PICK a, b \in copies \ {d} : a # b
      <3>1. k # k + s /\ k # k + 2 * s /\ k + s # k + 2 * s
        BY <1>2
      <3> QED
        BY <2>4, <3>1
    <2>6. SumFunction(f) > 0
      <3>1. d \in DOMAIN f /\ f[d] \in Int /\ f[d] >= -1 /\ DOMAIN f = copies
        BY <1>7, <1>8
      <3> QED
        BY <1>7, <2>3, <2>5, <3>1, OutvotesOne
    <2> QED
      BY <1>6, <2>6
  <1> QED
    BY <1>10, <1>11

(* So the payload is restored. *)
LEMMA ReadableRestored ==
  ASSUME Given, ~Refused, damage \in Damages, NEW n \in Nat, Readable(n)
  PROVE  Restored(n)
  <1>1. Segments \in 1 .. n
    BY Sizes DEF Readable
  <1>2. 1 \in Clips
    BY DEF Clips
  <1> QED
    BY <1>1, <1>2, VotesDecide DEF Restored

-----------------------------------------------------------------------------
(* The marking: inductive invariants.                                      *)

(* Where the attempts stand. *)
Attempts ==
    /\ pc = "policy" => attempts <= Retries /\ (~key => attempts = 0)
    /\ pc # "policy" /\ ~key => attempts = 1
    /\ pc \in {"policy", "true", "false", "settled"} => temps \subseteq stuck
    /\ pc = "settled" <=> result # None
    /\ pc # "settled" => sidecar = None /\ read = 0 /\ found = None

(* What the settled outcome says of the video. *)
Outcome ==
    /\ video = "marked" <=> pc = "true" \/ result = "ok"
    /\ pc = "settled" /\ key /\ result \notin {"ok", "probe"} =>
         /\ attempts = 1 + Retries
         /\ IF block THEN result = "blocked" ELSE sidecar = 1 + Retries \/ result = "unwritten"
    /\ pc = "settled" /\ ~key => result \in {"ok", "no_key", "probe"} /\ sidecar = None

(* What is left of the original before an attempt has succeeded. *)
Untouched ==
    /\ video = "broken" \/ pc = "mux" => audio
    /\ video # "marked" => sound = audio

(* Only a video that embed_video accepts has been encoded. *)
Encoded ==
    /\ damage # None => ~Refused
    /\ pc \in {"encoded", "mux", "true"} \/ result = "ok" => damage # None

(* Nothing that could be read back was missed. *)
NothingMissed ==
    result = "ok" /\ found # "payload" => \A m \in 1 .. read : DecodesAt(m) => ~Readable(m)

MarkInv == TypeOK /\ Attempts /\ Outcome /\ Untouched /\ Encoded
ReadInv == MarkInv /\ NothingMissed

LEMMA SameInput ==
  ASSUME UNCHANGED input
  PROVE  /\ UNCHANGED <<shape, bits, frames, audio, key, block>>
         /\ UNCHANGED <<Damages, Refused, Capacity, Ncap, Segments>>
  BY DEF input, Damages, Refused, Segments, Ncap, Capacity

(* What the finally block leaves could not be unlinked. *)
LEMMA Unlinked ==
  ASSUME NEW present \in SUBSET {"video", "audio"}, stuck \subseteq {"video", "audio"},
         Unlink(present)
  PROVE  temps' \subseteq {"video", "audio"} /\ temps' \subseteq stuck'
         /\ stuck' \subseteq {"video", "audio"}
  BY DEF Unlink

(* The results are not None. *)
LEMMA SomeResult ==
  /\ None \notin Nat /\ None # "payload"
  /\ None # "ok" /\ None # "no_key" /\ None # "sidecar" /\ None # "blocked"
  /\ None # "probe" /\ None # "unwritten"
  BY WatermarkAssumption DEF Results

LEMMA MarkInit == Init => ReadInv
  <1> SUFFICES ASSUME Init PROVE ReadInv
    OBVIOUS
  <1> USE DEF Init
  <1>1. TypeOK
    <2>1. attempts \in 0 .. 1 + Retries
      BY WatermarkAssumption
    <2> QED
      BY <2>1 DEF TypeOK
  <1>2. Attempts
    BY WatermarkAssumption DEF Attempts
  <1>3. Outcome /\ Untouched /\ Encoded
    BY SomeResult DEF Outcome, Untouched, Encoded
  <1>4. NothingMissed
    BY DEF NothingMissed
  <1> QED
    BY <1>1, <1>2, <1>3, <1>4 DEF ReadInv, MarkInv

LEMMA DamageIsSome ==
  ASSUME Given, ~Refused, NEW d \in Damages
  PROVE  d # None
  <1>1. Ncap \in Nat /\ frames \in Nat /\ Strong \in Nat
    BY Sizes, WatermarkAssumption
  <1>2. 0 .. Ncap - 1 \subseteq Nat /\ 0 .. frames - 1 \subseteq Nat /\ {0, -Strong} \subseteq Int
    BY <1>1
  <1>3. d \in [at : {"nowhere", "block", "frame"}, no : Nat, as : Int]
    BY <1>2 DEF Damages
  <1> QED
    BY <1>3, WatermarkAssumption

LEMMA MarkStep == MarkInv /\ [Next]_vars => MarkInv'
  <1> SUFFICES ASSUME MarkInv, [Next]_vars PROVE MarkInv'
    OBVIOUS
  <1>0. /\ Retries \in Nat
        /\ None \notin Nat /\ None # "payload"
        /\ None # "ok" /\ None # "no_key" /\ None # "sidecar" /\ None # "blocked"
        /\ None # "probe" /\ None # "unwritten"
    BY WatermarkAssumption, SomeResult
  <1>a. TypeOK /\ Attempts /\ Outcome /\ Untouched /\ Encoded
    BY DEF MarkInv
  <1>b. attempts \in 0 .. 1 + Retries
    BY <1>a DEF TypeOK
  <1>c. temps \subseteq {"video", "audio"} /\ stuck \subseteq {"video", "audio"}
    BY <1>a DEF TypeOK
  <1>d. pc # "settled" => result = None
    BY <1>a DEF Attempts
  <1>1. CASE UNCHANGED vars
    <2>1. UNCHANGED input /\ UNCHANGED <<damage, pc, attempts, video, sound, temps, sidecar,
                                         result, read, found, stuck>>
      BY <1>1 DEF vars
    <2> QED
      BY <1>a, <2>1, SameInput DEF MarkInv, TypeOK, Attempts, Outcome, Untouched, Encoded
  <1>2. CASE Refuse
    <2>1. UNCHANGED input /\ UNCHANGED <<read, found, damage, video, sound, sidecar, result>>
          /\ pc = "policy" /\ pc' = "false" /\ attempts' = attempts + 1
      BY <1>2 DEF Refuse, Unread
    <2>2. attempts' \in 0 .. 1 + Retries
      BY <1>0, <1>a, <1>b, <2>1 DEF Attempts
    <2>3. temps' \subseteq {"video", "audio"} /\ temps' \subseteq stuck'
          /\ stuck' \subseteq {"video", "audio"}
      BY <1>2, <1>c, Unlinked DEF Refuse
    <2>4. TypeOK'
      BY <1>a, <2>1, <2>2, <2>3, SameInput DEF TypeOK
    <2>5. Attempts'
      BY <1>a, <1>d, <2>1, <2>3, SameInput DEF Attempts
    <2>6. Outcome' /\ Untouched' /\ Encoded'
      BY <1>0, <1>a, <1>d, <2>1, SameInput DEF Outcome, Untouched, Encoded
    <2> QED
      BY <2>4, <2>5, <2>6 DEF MarkInv
  <1>3. CASE Encode
    <2>1. UNCHANGED input /\ UNCHANGED <<read, found, video, sound, sidecar, result, stuck>>
          /\ pc = "policy" /\ pc' \in {"encoded", "cleanup"} /\ attempts' = attempts + 1
          /\ temps' = temps \cup {"video"} /\ video = "original"
      BY <1>3 DEF Encode, Encoding, Unread
    <2>2. attempts' \in 0 .. 1 + Retries
      BY <1>0, <1>a, <1>b, <2>1 DEF Attempts
    <2>3. (damage' \in Damages /\ damage' # None) \/ (pc' = "cleanup" /\ damage' = damage)
      <3>1. Given /\ ~Refused
        BY <1>a, <1>3 DEF Encode, Encoding, TypeOK, Given
      <3>2. damage' \in Damages \/ (pc' = "cleanup" /\ damage' = damage)
        BY <1>3 DEF Encode, Encoding
      <3> QED
        BY <3>1, <3>2, DamageIsSome
    <2>4. TypeOK'
      BY <1>a, <2>1, <2>2, <2>3, SameInput DEF TypeOK
    <2>5. Attempts'
      BY <1>a, <1>d, <2>1, SameInput DEF Attempts
    <2>6. Outcome' /\ Untouched'
      BY <1>0, <1>a, <1>d, <2>1, SameInput DEF Outcome, Untouched
    <2>7. Encoded'
      <3>1. ~Refused
        BY <1>3 DEF Encode, Encoding
      <3> QED
        BY <1>0, <1>a, <1>d, <2>1, <2>3, <3>1, SameInput DEF Encoded
    <2> QED
      BY <2>4, <2>5, <2>6, <2>7 DEF MarkInv
  <1>4. CASE CopyAudio
    <2>1. UNCHANGED input
          /\ UNCHANGED <<read, found, damage, attempts, video, sound, sidecar, result, stuck>>
          /\ pc = "encoded" /\ pc' \in {"mux", "cleanup"} /\ sound
          /\ temps' \in {temps, temps \cup {"audio"}}
      BY <1>4 DEF CopyAudio, Unread
    <2>2. TypeOK'
      BY <1>a, <2>1, SameInput DEF TypeOK
    <2>3. Attempts'
      BY <1>a, <2>1, SameInput DEF Attempts
    <2>4. Outcome' /\ Encoded'
      BY <1>0, <1>a, <1>d, <2>1, SameInput DEF Outcome, Encoded
    <2>5. Untouched'
      <3>1. sound = audio /\ sound
        BY <1>0, <1>a, <1>d, <2>1 DEF Outcome, Untouched
      <3>2. audio
        BY <3>1
      <3> QED
        BY <1>a, <2>1, <3>1, <3>2, SameInput DEF Untouched
    <2> QED
      BY <2>2, <2>3, <2>4, <2>5 DEF MarkInv
  <1>5. CASE Mux
    <2>1. UNCHANGED input
          /\ UNCHANGED <<read, found, damage, attempts, sound, sidecar, result>>
          /\ pc = "mux"
          /\ \/ video' = "marked" /\ pc' = "true"
             \/ video' \in {"original", "broken"} /\ pc' = "cleanup"
      BY <1>5 DEF Mux, Unread
    <2>2. /\ temps' \subseteq {"video", "audio"} /\ stuck' \subseteq {"video", "audio"}
          /\ pc' = "true" => temps' \subseteq stuck'
      <3>1. CASE Unlink(temps)
        BY <1>c, <3>1, Unlinked
      <3>2. CASE UNCHANGED <<temps, stuck>> /\ pc' = "cleanup"
        BY <1>c, <3>2
      <3> QED
        BY <1>5, <3>1, <3>2 DEF Mux
    <2>3. TypeOK'
      BY <1>a, <2>1, <2>2, SameInput DEF TypeOK
    <2>4. Attempts'
      BY <1>a, <2>1, <2>2, SameInput DEF Attempts
    <2>5. Outcome' /\ Encoded'
      BY <1>0, <1>a, <1>d, <2>1, SameInput DEF Outcome, Encoded
    <2>6. Untouched'
      <3>1. sound = audio /\ audio
        BY <1>0, <1>a, <1>d, <2>1 DEF Outcome, Untouched
      <3> QED
        BY <2>1, <3>1, SameInput DEF Untouched
    <2> QED
      BY <2>3, <2>4, <2>5, <2>6 DEF MarkInv
  <1>6. CASE Replace
    <2>1. UNCHANGED input /\ UNCHANGED <<read, found, damage, attempts, sidecar, result>>
          /\ pc = "encoded"
          /\ \/ video' = "marked" /\ sound' = FALSE /\ pc' = "true"
             \/ UNCHANGED <<video, sound>> /\ pc' = "cleanup"
      BY <1>6 DEF Replace, Unread
    <2>2. /\ temps' \subseteq {"video", "audio"} /\ stuck' \subseteq {"video", "audio"}
          /\ pc' = "true" => temps' \subseteq stuck'
      <3>1. CASE Unlink((temps \cup (IF sound THEN {"audio"} ELSE {})) \ {"video"})
        BY <1>c, <3>1, Unlinked
      <3>2. CASE UNCHANGED <<temps, stuck>> /\ pc' = "cleanup"
        BY <1>c, <3>2
      <3> QED
        BY <1>6, <3>1, <3>2 DEF Replace
    <2>3. sound' \in BOOLEAN
      BY <1>a, <2>1 DEF TypeOK
    <2>4. TypeOK'
      BY <1>a, <2>1, <2>2, <2>3, SameInput DEF TypeOK
    <2>5. Attempts'
      BY <1>a, <2>1, <2>2, SameInput DEF Attempts
    <2>6. Outcome' /\ Untouched' /\ Encoded'
      BY <1>0, <1>a, <1>d, <2>1, SameInput DEF Outcome, Untouched, Encoded
    <2> QED
      BY <2>4, <2>5, <2>6 DEF MarkInv
  <1>7. CASE Cleanup
    <2>1. UNCHANGED input
          /\ UNCHANGED <<read, found, damage, attempts, video, sound, sidecar, result>>
          /\ pc = "cleanup" /\ pc' = "false"
      BY <1>7 DEF Cleanup, Unread
    <2>2. temps' \subseteq {"video", "audio"} /\ temps' \subseteq stuck'
          /\ stuck' \subseteq {"video", "audio"}
      BY <1>7, <1>c, Unlinked DEF Cleanup
    <2>3. TypeOK'
      BY <1>a, <2>1, <2>2, SameInput DEF TypeOK
    <2>4. Attempts'
      BY <1>a, <2>1, <2>2, SameInput DEF Attempts
    <2>5. Outcome' /\ Untouched' /\ Encoded'
      BY <1>0, <1>a, <1>d, <2>1, SameInput DEF Outcome, Untouched, Encoded
    <2> QED
      BY <2>3, <2>4, <2>5 DEF MarkInv
  <1>10. CASE ProbeRaises
    <2>1. UNCHANGED input
          /\ UNCHANGED <<read, found, damage, video, sound, temps, sidecar, stuck>>
          /\ pc = "policy" /\ pc' = "settled" /\ result' = "probe" /\ attempts' = attempts + 1
      BY <1>10 DEF ProbeRaises, Finish, Unread
    <2>2. attempts' \in 0 .. 1 + Retries
      BY <1>0, <1>a, <1>b, <2>1 DEF Attempts
    <2>3. TypeOK'
      BY <1>a, <2>1, <2>2, SameInput DEF TypeOK, Results
    <2>4. Attempts'
      BY <1>0, <1>a, <2>1, SameInput DEF Attempts
    <2>5. Outcome' /\ Untouched' /\ Encoded'
      BY <1>0, <1>a, <1>d, <2>1, SameInput DEF Attempts, Outcome, Untouched, Encoded
    <2> QED
      BY <2>3, <2>4, <2>5 DEF MarkInv
  <1>8. CASE Policy
    <2>1. UNCHANGED input
          /\ UNCHANGED <<read, found, damage, attempts, video, sound, temps, stuck>>
          /\ pc \in {"true", "false"}
      BY <1>8 DEF Policy, Unread
    <2>2. attempts >= Allowed => attempts = 1 + Retries /\ attempts # None
      BY <1>0, <1>b DEF Allowed
    <2>3. attempts < Allowed => attempts <= Retries
      BY <1>0, <1>b DEF Allowed
    <2>4. \/ pc = "true" /\ result' = "ok" /\ pc' = "settled" /\ sidecar' = sidecar
          \/ /\ pc = "false" /\ ~key /\ result' = "no_key" /\ pc' = "settled"
             /\ sidecar' = sidecar
          \/ /\ pc = "false" /\ key /\ attempts <= Retries /\ pc' = "policy"
             /\ result' = result /\ sidecar' = sidecar
          \/ /\ pc = "false" /\ key /\ attempts = 1 + Retries /\ pc' = "settled"
             /\ \/ block /\ result' = "blocked" /\ sidecar' = sidecar
                \/ ~block /\ result' = "sidecar" /\ sidecar' = attempts
                \/ ~block /\ result' = "unwritten" /\ sidecar' \in {None, 0}
      BY <1>8, <2>2, <2>3 DEF Policy, Finish
    <2>5. TypeOK'
      <3>1. sidecar' \in {None} \cup 0 .. 1 + Retries
        <4>1. sidecar \in {None} \cup 0 .. 1 + Retries /\ 0 \in 0 .. 1 + Retries
          BY <1>0, <1>a DEF TypeOK
        <4> QED
          BY <1>b, <2>4, <4>1
      <3>2. result' \in Results \cup {None} /\ pc' \in {"policy", "settled"}
        BY <1>a, <2>4 DEF TypeOK, Results
      <3> QED
        BY <1>a, <2>1, <3>1, <3>2, SameInput DEF TypeOK
    <2>6. Attempts'
      <3>1. ~key => attempts = 1
        BY <1>a, <2>1 DEF Attempts
      <3>2. temps \subseteq stuck /\ result = None /\ sidecar = None /\ read = 0 /\ found = None
        BY <1>a, <2>1 DEF Attempts
      <3> QED
        BY <1>0, <2>1, <2>4, <3>1, <3>2, SameInput DEF Attempts
    <2>7. Outcome'
      <3>1. sidecar = None /\ result = None /\ (video = "marked" <=> pc = "true")
        BY <1>0, <1>a, <2>1 DEF Attempts, Outcome
      <3> QED
        BY <1>0, <2>1, <2>4, <3>1, SameInput DEF Outcome
    <2>8. Untouched' /\ Encoded'
      BY <1>0, <1>a, <1>d, <2>1, <2>4, SameInput DEF Untouched, Encoded
    <2> QED
      BY <2>5, <2>6, <2>7, <2>8 DEF MarkInv
  <1>9. CASE ReadFrame
    <2>1. UNCHANGED input
      BY <1>9 DEF ReadFrame
    <2>2. read' \in Nat /\ found' \in {None, "payload"}
      BY <1>a, <1>9 DEF ReadFrame, TypeOK
    <2>3. TypeOK'
      BY <1>a, <1>9, <2>1, <2>2, SameInput DEF ReadFrame, TypeOK
    <2>4. Attempts' /\ Outcome' /\ Untouched' /\ Encoded'
      BY <1>0, <1>a, <1>9, <2>1, SameInput
         DEF ReadFrame, Attempts, Outcome, Untouched, Encoded
    <2> QED
      BY <2>3, <2>4 DEF MarkInv
  <1> QED
    BY <1>1, <1>2, <1>3, <1>4, <1>5, <1>6, <1>7, <1>8, <1>9, <1>10 DEF Next

LEMMA ReadStep == ReadInv /\ [Next]_vars => ReadInv'
  <1> SUFFICES ASSUME ReadInv, [Next]_vars PROVE ReadInv'
    OBVIOUS
  <1>0. None # "payload" /\ None # "ok"
    BY SomeResult
  <1>1. MarkInv /\ NothingMissed /\ MarkInv'
    BY MarkStep DEF ReadInv
  <1>2. ASSUME UNCHANGED <<input, damage>>
        PROVE  \A m : (DecodesAt(m)' <=> DecodesAt(m)) /\ (Readable(m)' <=> Readable(m))
    <2>1. UNCHANGED <<shape, bits, frames, Capacity, Ncap, Segments, damage>>
      BY <1>2, SameInput
    <2> QED
      BY <2>1 DEF DecodesAt, Readable, Harmless, Spread
  <1>3. CASE ReadFrame
    <2>1. UNCHANGED <<input, damage>> /\ result' = result
      BY <1>3 DEF ReadFrame
    <2>2. result = "ok" /\ found = None /\ read \in Nat /\ read' = read + 1
      BY <1>1, <1>3 DEF ReadFrame, MarkInv, TypeOK
    <2>3. found' # "payload" => (DecodesAt(read + 1) => ~Restored(read + 1))
      BY <1>3 DEF ReadFrame
    <2>4. Given /\ ~Refused /\ damage \in Damages
      BY <1>1, <2>2 DEF MarkInv, TypeOK, Encoded, Given
    <2>5. found' # "payload" => (DecodesAt(read + 1) => ~Readable(read + 1))
      BY <2>2, <2>3, <2>4, ReadableRestored
    <2>6. \A m \in 1 .. read' : m \in 1 .. read \/ m = read + 1
      BY <2>2
    <2>7. \A m \in 1 .. read : DecodesAt(m) => ~Readable(m)
      BY <1>0, <1>1, <2>2 DEF NothingMissed
    <2>8. found' # "payload" => \A m \in 1 .. read' : DecodesAt(m) => ~Readable(m)
      BY <2>5, <2>6, <2>7
    <2> QED
      BY <1>1, <1>2, <2>1, <2>8 DEF ReadInv, NothingMissed
  <1>4. CASE result' # "ok"
    BY <1>1, <1>4 DEF ReadInv, NothingMissed
  <1>5. CASE Policy
    <2>1. read' = 0
      BY <1>1, <1>5 DEF Policy, Unread, MarkInv, Attempts
    <2> QED
      BY <1>1, <2>1 DEF ReadInv, NothingMissed
  <1>6. CASE UNCHANGED vars
    <2>1. UNCHANGED <<input, damage>> /\ UNCHANGED <<result, found, read>>
      BY <1>6 DEF vars
    <2> QED
      BY <1>1, <1>2, <2>1 DEF ReadInv, NothingMissed
  <1>7. CASE Refuse \/ Encode \/ CopyAudio \/ Mux \/ Replace \/ Cleanup
    <2>1. pc # "settled" /\ result' = result
      BY <1>7 DEF Refuse, Encode, Encoding, CopyAudio, Mux, Replace, Cleanup
    <2>2. result' # "ok"
      BY <1>0, <1>1, <2>1 DEF MarkInv, Attempts
    <2> QED
      BY <1>4, <2>2
  <1>8. CASE ProbeRaises
    BY <1>4, <1>8 DEF ProbeRaises, Finish
  <1> QED
    BY <1>3, <1>5, <1>6, <1>7, <1>8 DEF Next

LEMMA MarkInvariant == Spec => []ReadInv
  BY MarkInit, ReadStep, PTL DEF Spec

-----------------------------------------------------------------------------
(* The variables of the marking keep their types: the policy never makes   *)
(* more than its one attempt and the retries, and the sidecar counts them. *)
THEOREM MarkTypeCorrect == Spec => []TypeOK
  <1>1. ReadInv => TypeOK
    BY DEF ReadInv, MarkInv
  <1> QED
    BY <1>1, MarkInvariant, PTL

(* Whatever fails or raises, the result says what became of the video, and *)
(* with a key an unmarked one is refused or on record after every retry,   *)
(* but for ffprobe raising and a sidecar that cannot be written.           *)
THEOREM FailuresAccounted == Spec => []FailureIsAccounted
  <1>1. ReadInv => FailureIsAccounted
    BY DEF ReadInv, MarkInv, Attempts, Outcome, FailureIsAccounted
  <1> QED
    BY <1>1, MarkInvariant, PTL

(* A video without sound survives every failing step of every attempt; one *)
(* with sound is destroyed by nothing but a failing mux, and never         *)
(* reported as marked then.                                                *)
THEOREM OriginalSafe == Spec => []OriginalKept
  <1>1. ReadInv => OriginalKept
    BY DEF ReadInv, MarkInv, Outcome, Untouched, OriginalKept
  <1> QED
    BY <1>1, MarkInvariant, PTL

LEMMA ExtractedDecides ==
  ASSUME ReadInv, Extracted, NEW n \in LastDecode, Readable(n)
  PROVE  found = "payload"
  <1>1. result = "ok" /\ n \in 1 .. read /\ DecodesAt(n)
    BY DEF Extracted, LastDecode
  <1> QED
    BY <1>1 DEF ReadInv, NothingMissed

(* An undamaged mark is read back from every video shape, payload length   *)
(* and cut into segments, for every number of frames at which the reader   *)
(* decodes once all segments went by.                                      *)
THEOREM PayloadRecovered == Spec => []EmbeddedIsRecovered
  <1>1. ReadInv => EmbeddedIsRecovered
    BY ExtractedDecides DEF EmbeddedIsRecovered, Readable, Harmless
  <1> QED
    BY <1>1, MarkInvariant, PTL

(* Three copies in different places outvote a block that is wrong in every *)
(* frame, or a frame that is wrong, however strong its wrong readings.     *)
THEOREM DamageOutvoted == Spec => []DamageIsOutvoted
  <1>1. ReadInv => DamageIsOutvoted
    BY ExtractedDecides DEF DamageIsOutvoted, Readable
  <1> QED
    BY <1>1, MarkInvariant, PTL
=============================================================================
