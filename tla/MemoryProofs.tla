---------------------------- MODULE MemoryProofs ----------------------------
(***************************************************************************)
(* The regions of an address space stay sorted and disjoint, and the page  *)
(* table holds what they say, through every sequence of calls, for address *)
(* spaces, regions and memories of any size.                               *)
(* Behind them: the counts of physical pages are the references that page  *)
(* tables hold, for any number of pages and address spaces.                *)
(***************************************************************************)
EXTENDS MCMemory, Sequences, FiniteSetTheorems, TLAPS

(* What the theorems about regions assume of their parameters: there are   *)
(* addresses, and a page can be writable.                                  *)
VmParameters ==
  /\ NumAddrs \in Nat \ {0} /\ MaxSize \in Nat
  /\ "rw" \in Flags /\ "free" \notin Flags

(* A region, and a list of them: none is empty, and each ends before those *)
(* behind it begin.                                                        *)
Extents == {r \in [start : Nat, end : V!Addrs, flags : Flags] :
              r.start < r.end /\ r.end <= r.start + MaxSize}
InOrder(rs) == \A i, j \in 1..Len(rs) : i < j => rs[i].end <= rs[j].start
Listed(rs) == rs \in Seq(Extents) /\ InOrder(rs)

(* A list put together of one up to i, a second one, and the first from j. *)
Joint(rs, i, s, j) == SubSeq(rs, 1, i) \o s \o SubSeq(rs, j, Len(rs))
Has(rs, r) == \E k \in 1..Len(rs) : rs[k] = r
HasUpTo(rs, i, r) == \E k \in 1..i : rs[k] = r
HasFrom(rs, j, r) == \E k \in j..Len(rs) : rs[k] = r

Laid(q, rs, i, s, j) ==
  /\ q \in Seq(Extents) /\ Len(q) = i + Len(s) + (Len(rs) - j + 1)
  /\ \A k \in 1..i : q[k] = rs[k]
  /\ \A k \in 1..Len(s) : q[i + k] = s[k]
  /\ \A k \in j..Len(rs) : q[i + Len(s) + (k - j + 1)] = rs[k]

(* What is known of a region.                                              *)
LEMMA ExtentFacts ==
  ASSUME VmParameters, NEW r \in Extents
  PROVE  /\ r.start \in Nat /\ r.end \in Nat /\ r.start < r.end /\ r.end <= r.start + MaxSize
         /\ r.end \in V!Addrs /\ r.flags \in Flags
  BY DEF Extents, V!Addrs, VmParameters

(* A range that is not empty and not too long is a region.                 *)
LEMMA RegionExtent ==
  ASSUME VmParameters, NEW a \in Nat, NEW b \in V!Addrs, NEW f \in Flags, a < b, b <= a + MaxSize
  PROVE  V!Region(a, b, f) \in Extents
  BY DEF V!Region, Extents

(* Two lists behind each other.                                            *)
LEMMA Behind ==
  ASSUME NEW a \in Seq(Extents), NEW b \in Seq(Extents)
  PROVE  /\ a \o b \in Seq(Extents) /\ Len(a \o b) = Len(a) + Len(b)
         /\ \A k \in 1..Len(a) : (a \o b)[k] = a[k]
         /\ \A k \in 1..Len(b) : (a \o b)[Len(a) + k] = b[k]
<1>1. a \o b \in Seq(Extents)
  OBVIOUS
<1>2. Len(a \o b) = Len(a) + Len(b)
  OBVIOUS
<1>3. \A k \in 1..Len(a) : (a \o b)[k] = a[k]
  OBVIOUS
<1>4. \A k \in 1..Len(b) : (a \o b)[Len(a) + k] = b[k]
  OBVIOUS
<1> QED
  BY <1>1, <1>2, <1>3, <1>4

(* The second list fits in between.                                        *)
Fits(rs, i, s, j) ==
  \A k \in 1..Len(s) : /\ \A n \in 1..i : rs[n].end <= s[k].start
                       /\ \A n \in j..Len(rs) : s[k].end <= rs[n].start

(* Where the elements of such a list come from.                            *)
LEMMA JointLaid ==
  ASSUME NEW rs \in Seq(Extents), NEW s \in Seq(Extents), NEW i \in 0..Len(rs), NEW j \in 1..(Len(rs) + 1)
  PROVE  Laid(Joint(rs, i, s, j), rs, i, s, j)
<1> DEFINE a == SubSeq(rs, 1, i)
           b == SubSeq(rs, j, Len(rs))
           c == a \o s
           q == c \o b
           m == Len(rs) - j + 1
<1>1. Len(rs) \in Nat /\ Len(s) \in Nat /\ m \in Nat
  OBVIOUS
<1>2. a \in Seq(Extents) /\ Len(a) = i /\ \A k \in 1..i : a[k] = rs[k]
  OBVIOUS
<1>3. b \in Seq(Extents) /\ Len(b) = m /\ \A k \in 1..m : b[k] = rs[j + k - 1]
  <2>1. b \in Seq(Extents) /\ Len(b) = m
    OBVIOUS
  <2>2. \A k \in 1..m : b[k] = rs[j + k - 1]
    OBVIOUS
  <2> QED
    BY <2>1, <2>2
<1>4. Joint(rs, i, s, j) = q
  BY DEF Joint
<1> HIDE DEF a, b
<1>5. /\ c \in Seq(Extents) /\ Len(c) = i + Len(s)
      /\ \A k \in 1..i : c[k] = rs[k]
      /\ \A k \in 1..Len(s) : c[i + k] = s[k]
  BY <1>2, Behind
<1> HIDE DEF c
<1>6. /\ q \in Seq(Extents) /\ Len(q) = Len(c) + Len(b)
      /\ \A k \in 1..Len(c) : q[k] = c[k]
      /\ \A k \in 1..Len(b) : q[Len(c) + k] = b[k]
  BY <1>3, <1>5, Behind
<1> HIDE DEF q
<1>7. ASSUME NEW k \in 1..i PROVE q[k] = rs[k]
  BY <1>1, <1>5, <1>6
<1>8. ASSUME NEW k \in 1..Len(s) PROVE q[i + k] = s[k]
  BY <1>1, <1>5, <1>6
<1>9. ASSUME NEW k \in j..Len(rs) PROVE q[i + Len(s) + (k - j + 1)] = rs[k]
  <2>1. k - j + 1 \in 1..m /\ j + (k - j + 1) - 1 = k
    BY <1>1
  <2>2. q[Len(c) + (k - j + 1)] = b[k - j + 1]
    BY <1>3, <1>6, <2>1
  <2>3. b[k - j + 1] = rs[k]
    BY <1>3, <2>1
  <2> QED
    BY <1>5, <2>2, <2>3
<1> QED
  BY <1>3, <1>4, <1>5, <1>6, <1>7, <1>8, <1>9 DEF Laid

(* Such a list is in order when the parts fit.                             *)
LEMMA JointListed ==
  ASSUME VmParameters, NEW rs, Listed(rs), NEW s, Listed(s), NEW i \in 0..Len(rs), NEW j \in (i + 1)..(Len(rs) + 1),
         Fits(rs, i, s, j), NEW q, Laid(q, rs, i, s, j)
  PROVE  /\ Listed(q)
         /\ \A r : Has(q, r) <=> HasUpTo(rs, i, r) \/ Has(s, r) \/ HasFrom(rs, j, r)
<1> DEFINE n == Len(rs)
           m == Len(s)
           e == i + m
<1>1. n \in Nat /\ m \in Nat /\ i \in Nat /\ j \in Nat /\ i <= n /\ i < j /\ j <= n + 1 /\ e \in Nat
  BY DEF Listed
<1>2. /\ q \in Seq(Extents) /\ Len(q) = e + (n - j + 1)
      /\ \A k \in 1..i : q[k] = rs[k]
      /\ \A k \in 1..m : q[i + k] = s[k]
      /\ \A k \in j..n : q[e + (k - j + 1)] = rs[k]
  BY DEF Laid
<1>3. /\ \A k \in 1..n : rs[k].start \in Nat /\ rs[k].end \in Nat /\ rs[k].start < rs[k].end
      /\ \A k, l \in 1..n : k < l => rs[k].end <= rs[l].start
  <2>1. \A k \in 1..n : rs[k] \in Extents
    BY DEF Listed
  <2>2. \A k, l \in 1..n : k < l => rs[k].end <= rs[l].start
    BY DEF Listed, InOrder
  <2> QED
    BY <2>1, <2>2, ExtentFacts
<1>4. /\ \A k \in 1..m : s[k].start \in Nat /\ s[k].end \in Nat /\ s[k].start < s[k].end
      /\ \A k, l \in 1..m : k < l => s[k].end <= s[l].start
  <2>1. \A k \in 1..m : s[k] \in Extents
    BY DEF Listed
  <2>2. \A k, l \in 1..m : k < l => s[k].end <= s[l].start
    BY DEF Listed, InOrder
  <2> QED
    BY <2>1, <2>2, ExtentFacts
<1>5. /\ \A k \in 1..m, x \in 1..i : rs[x].end <= s[k].start
      /\ \A k \in 1..m, x \in j..n : s[k].end <= rs[x].start
  BY DEF Fits
<1> HIDE DEF n, m, e
<1>6. e = i + m
  BY DEF e
(* Where an index of the new list is.                                      *)
<1>7. ASSUME NEW k \in 1..Len(q)
      PROVE  \/ k \in 1..i /\ q[k] = rs[k] /\ k \in 1..n
             \/ k - i \in 1..m /\ q[k] = s[k - i]
             \/ k - e + j - 1 \in j..n /\ q[k] = rs[k - e + j - 1]
  <2>1. CASE k <= i
    <3>1. k \in 1..i /\ k \in 1..n
      BY <1>1, <1>2, <2>1
    <3> QED
      BY <1>2, <3>1
  <2>2. CASE k > i /\ k <= e
    <3>1. k - i \in 1..m /\ i + (k - i) = k
      BY <1>1, <1>2, <1>6, <2>2
    <3>2. q[i + (k - i)] = s[k - i]
      BY <1>2, <3>1
    <3> QED
      BY <3>1, <3>2
  <2>3. CASE k > e
    <3> DEFINE x == k - e + j - 1
    <3>1. x \in j..n /\ e + (x - j + 1) = k
      <4>1. k \in Int /\ e \in Int /\ j \in Int /\ n \in Int /\ e < k /\ k <= e + (n - j + 1)
        BY <1>1, <1>2, <2>3
      <4>2. \A a, b, c, d \in Int : b < a /\ a <= b + (d - c + 1) =>
              a - b + c - 1 \in c..d /\ b + ((a - b + c - 1) - c + 1) = a
        OBVIOUS
      <4> QED
        BY <4>1, <4>2
    <3>2. q[e + (x - j + 1)] = rs[x]
      BY <1>2, <3>1
    <3> QED
      BY <3>1, <3>2
  <2> QED
    BY <1>1, <1>2, <2>1, <2>2, <2>3
<1>9. ASSUME NEW k \in 1..Len(q), NEW l \in 1..Len(q), k < l PROVE q[k].end <= q[l].start
  <2>1. CASE k \in 1..i /\ q[k] = rs[k] /\ k \in 1..n
    <3>1. CASE l \in 1..i /\ q[l] = rs[l] /\ l \in 1..n
      BY <1>3, <1>9, <2>1, <3>1
    <3>2. CASE l - i \in 1..m /\ q[l] = s[l - i]
      BY <1>5, <2>1, <3>2
    <3>3. CASE l - e + j - 1 \in j..n /\ q[l] = rs[l - e + j - 1]
      <4> DEFINE w == l - e + j - 1
      <4>0. w \in j..n /\ q[l] = rs[w]
        BY <3>3
      <4> HIDE DEF w
      <4>1. w \in 1..n /\ k < w
        BY <1>1, <2>1, <4>0
      <4> QED
        BY <1>3, <2>1, <4>0, <4>1
    <3> QED
      BY <1>7, <3>1, <3>2, <3>3
  <2>2. CASE k - i \in 1..m /\ q[k] = s[k - i]
    <3>1. CASE l \in 1..i /\ q[l] = rs[l] /\ l \in 1..n
      BY <1>1, <1>9, <2>2, <3>1
    <3>2. CASE l - i \in 1..m /\ q[l] = s[l - i]
      <4>1. k - i < l - i
        BY <1>1, <1>9
      <4> QED
        BY <1>4, <2>2, <3>2, <4>1
    <3>3. CASE l - e + j - 1 \in j..n /\ q[l] = rs[l - e + j - 1]
      BY <1>5, <2>2, <3>3
    <3> QED
      BY <1>7, <3>1, <3>2, <3>3
  <2>3. CASE k - e + j - 1 \in j..n /\ q[k] = rs[k - e + j - 1]
    <3>1. CASE l \in 1..i /\ q[l] = rs[l] /\ l \in 1..n
      BY <1>1, <1>6, <1>9, <2>3, <3>1
    <3>2. CASE l - i \in 1..m /\ q[l] = s[l - i]
      BY <1>1, <1>6, <1>9, <2>3, <3>2
    <3>3. CASE l - e + j - 1 \in j..n /\ q[l] = rs[l - e + j - 1]
      <4> DEFINE v == k - e + j - 1
                 w == l - e + j - 1
      <4>1. v < w
        BY <1>1, <1>9
      <4>2. v \in 1..n /\ w \in 1..n /\ q[k] = rs[v] /\ q[l] = rs[w]
        BY <1>1, <2>3, <3>3
      <4> HIDE DEF v, w
      <4> QED
        BY <1>3, <4>1, <4>2
    <3> QED
      BY <1>7, <3>1, <3>2, <3>3
  <2> QED
    BY <1>7, <2>1, <2>2, <2>3
<1>10. Listed(q)
  BY <1>2, <1>9 DEF Listed, InOrder
<1>11. ASSUME NEW r, Has(q, r) PROVE HasUpTo(rs, i, r) \/ Has(s, r) \/ HasFrom(rs, j, r)
  <2>1. PICK k \in 1..Len(q) : q[k] = r
    BY <1>11 DEF Has
  <2> QED
    BY <1>7, <2>1 DEF Has, HasUpTo, HasFrom, n, m
<1>12. ASSUME NEW r, HasUpTo(rs, i, r) PROVE Has(q, r)
  <2>1. PICK k \in 1..i : rs[k] = r
    BY <1>12 DEF HasUpTo
  <2>2. k \in 1..Len(q) /\ q[k] = r
    BY <1>1, <1>2, <1>6, <2>1
  <2> QED
    BY <2>2 DEF Has
<1>13. ASSUME NEW r, Has(s, r) PROVE Has(q, r)
  <2>1. PICK k \in 1..m : s[k] = r
    BY <1>13 DEF Has, m
  <2>2. i + k \in 1..Len(q) /\ q[i + k] = r
    BY <1>1, <1>2, <1>6, <2>1
  <2> QED
    BY <2>2 DEF Has
<1>14. ASSUME NEW r, HasFrom(rs, j, r) PROVE Has(q, r)
  <2>1. PICK k \in j..n : rs[k] = r
    BY <1>14 DEF HasFrom, n
  <2>2. e + (k - j + 1) \in 1..Len(q) /\ q[e + (k - j + 1)] = r
    BY <1>1, <1>2, <2>1
  <2> QED
    BY <2>2 DEF Has
<1> QED
  BY <1>10, <1>11, <1>12, <1>13, <1>14

-----------------------------------------------------------------------------
(* The access a list gives to a page: that of the region it is in.         *)
Covers(r, x) == r.start <= x /\ x < r.end
Access(rs, x) ==
  IF \E k \in 1..Len(rs) : Covers(rs[k], x)
    THEN rs[CHOOSE k \in 1..Len(rs) : Covers(rs[k], x)].flags
    ELSE "free"

(* No page is in two regions.                                              *)
LEMMA Apart ==
  ASSUME VmParameters, NEW rs, Listed(rs), NEW k \in 1..Len(rs), NEW l \in 1..Len(rs),
         NEW x \in Nat, Covers(rs[k], x), Covers(rs[l], x)
  PROVE  k = l
<1> DEFINE Before(a, b) == a < b => rs[a].end <= rs[b].start
<1>1. rs[k] \in Extents /\ rs[l] \in Extents
  BY DEF Listed
<1>2. rs[k].start \in Nat /\ rs[k].end \in Nat
  BY <1>1, ExtentFacts
<1>3. rs[l].start \in Nat /\ rs[l].end \in Nat
  BY <1>1, ExtentFacts
<1>4. Before(k, l) /\ Before(l, k)
  BY DEF Listed, InOrder
<1>5. ~(k < l)
  BY <1>2, <1>3, <1>4 DEF Covers
<1>6. ~(l < k)
  BY <1>2, <1>3, <1>4 DEF Covers
<1> QED
  BY <1>5, <1>6

(* The region a page is in says what access the page has.                  *)
LEMMA Owner ==
  ASSUME VmParameters, NEW rs, Listed(rs), NEW r, Has(rs, r), NEW x \in Nat, Covers(r, x)
  PROVE  Access(rs, x) = r.flags
<1>1. PICK k \in 1..Len(rs) : rs[k] = r
  BY DEF Has
<1> DEFINE l == CHOOSE n \in 1..Len(rs) : Covers(rs[n], x)
<1>2. l \in 1..Len(rs) /\ Covers(rs[l], x)
  BY <1>1
<1>3. Access(rs, x) = rs[l].flags
  BY <1>1 DEF Access
<1> HIDE DEF l
<1>4. k = l
  BY <1>1, <1>2, Apart
<1> QED
  BY <1>1, <1>3, <1>4

(* A page that no region holds is free.                                    *)
LEMMA NoOwner ==
  ASSUME NEW rs, NEW x, \A r : Has(rs, r) => ~Covers(r, x)
  PROVE  Access(rs, x) = "free"
  BY DEF Access, Has

(* What a list gives that was put together: where it is new, what its new  *)
(* part gives.                                                             *)
InNew(rs, i, s, j, x) ==
  \/ \E n \in (i + 1)..(j - 1) : Covers(rs[n], x)
  \/ \E k \in 1..Len(s) : Covers(s[k], x)
Merged(q, rs, i, s, j) ==
  \A x \in Nat : Access(q, x) = IF InNew(rs, i, s, j, x) THEN Access(s, x) ELSE Access(rs, x)

(* A list put together of parts that fit is in order, and gives            *)
(* what its parts give.                                                    *)
LEMMA JointAccess ==
  ASSUME VmParameters, NEW rs, Listed(rs), NEW s, Listed(s), NEW i \in 0..Len(rs),
         NEW j \in (i + 1)..(Len(rs) + 1), Fits(rs, i, s, j)
  PROVE  Listed(Joint(rs, i, s, j)) /\ Merged(Joint(rs, i, s, j), rs, i, s, j)
<1> DEFINE q == Joint(rs, i, s, j)
<1>1. rs \in Seq(Extents) /\ s \in Seq(Extents) /\ Len(rs) \in Nat /\ j \in 1..(Len(rs) + 1)
  BY DEF Listed
<1>2. Laid(q, rs, i, s, j)
  BY <1>1, JointLaid
<1> HIDE DEF q
<1>3. Listed(q) /\ \A r : Has(q, r) <=> HasUpTo(rs, i, r) \/ Has(s, r) \/ HasFrom(rs, j, r)
  BY <1>2, JointListed
<1>4. ASSUME NEW x \in Nat
      PROVE  Access(q, x) = IF InNew(rs, i, s, j, x) THEN Access(s, x) ELSE Access(rs, x)
  <2>1. CASE \E k \in 1..Len(s) : Covers(s[k], x)
    <3>1. PICK k \in 1..Len(s) : Covers(s[k], x)
      BY <2>1
    <3>2. Has(s, s[k]) /\ InNew(rs, i, s, j, x)
      BY <3>1 DEF Has, InNew
    <3>3. Access(s, x) = s[k].flags
      BY <3>1, <3>2, Owner
    <3>4. Access(q, x) = s[k].flags
      BY <1>3, <3>1, <3>2, Owner
    <3> QED
      BY <3>2, <3>3, <3>4
  <2>2. CASE /\ ~\E k \in 1..Len(s) : Covers(s[k], x)
             /\ \E n \in (i + 1)..(j - 1) : Covers(rs[n], x)
    <3>1. PICK m \in (i + 1)..(j - 1) : Covers(rs[m], x)
      BY <2>2
    <3>2. m \in 1..Len(rs) /\ i \in Nat /\ j \in Nat /\ i < m /\ m < j
      BY <1>1
    <3>4. ASSUME NEW n \in 1..Len(rs), Covers(rs[n], x) PROVE n = m
      BY <3>1, <3>2, <3>4, Apart
    <3>5. ASSUME NEW r, Has(q, r), Covers(r, x) PROVE FALSE
      <4>1. CASE HasUpTo(rs, i, r)
        <5>1. PICK n \in 1..i : rs[n] = r
          BY <4>1 DEF HasUpTo
        <5>2. n \in 1..Len(rs) /\ n # m
          BY <3>2, <1>1
        <5> QED
          BY <3>4, <3>5, <5>1, <5>2
      <4>2. CASE Has(s, r)
        BY <2>2, <3>5, <4>2 DEF Has
      <4>3. CASE HasFrom(rs, j, r)
        <5>1. PICK n \in j..Len(rs) : rs[n] = r
          BY <4>3 DEF HasFrom
        <5>2. n \in 1..Len(rs) /\ n # m
          BY <3>2, <1>1
        <5> QED
          BY <3>4, <3>5, <5>1, <5>2
      <4> QED
        BY <1>3, <3>5, <4>1, <4>2, <4>3
    <3>6. Access(q, x) = "free"
      BY <3>5, NoOwner
    <3>7. Access(s, x) = "free"
      BY <2>2 DEF Access
    <3>8. InNew(rs, i, s, j, x)
      BY <2>2 DEF InNew
    <3> QED
      BY <3>6, <3>7, <3>8
  <2>3. CASE ~InNew(rs, i, s, j, x)
    <3>1. ASSUME NEW r, Has(q, r), Covers(r, x) PROVE Has(rs, r)
      <4>1. ~Has(s, r)
        BY <2>3, <3>1 DEF Has, InNew
      <4>2. HasUpTo(rs, i, r) => Has(rs, r)
        BY <1>1 DEF HasUpTo, Has
      <4>3. HasFrom(rs, j, r) => Has(rs, r)
        BY <1>1 DEF HasFrom, Has
      <4> QED
        BY <1>3, <3>1, <4>1, <4>2, <4>3
    <3>2. ASSUME NEW r, Has(rs, r), Covers(r, x) PROVE Has(q, r)
      <4>1. PICK n \in 1..Len(rs) : rs[n] = r
        BY <3>2 DEF Has
      <4>2. n \notin (i + 1)..(j - 1)
        BY <2>3, <3>2, <4>1 DEF InNew
      <4>3. n \in 1..i \/ n \in j..Len(rs)
        BY <1>1, <4>2
      <4> QED
        BY <1>3, <4>1, <4>3 DEF HasUpTo, HasFrom
    <3>3. CASE \E r : Has(rs, r) /\ Covers(r, x)
      <4>1. PICK r : Has(rs, r) /\ Covers(r, x)
        BY <3>3
      <4>2. Access(rs, x) = r.flags
        BY <4>1, Owner
      <4>3. Access(q, x) = r.flags
        BY <1>3, <3>2, <4>1, Owner
      <4> QED
        BY <2>3, <4>2, <4>3
    <3>4. CASE ~\E r : Has(rs, r) /\ Covers(r, x)
      <4>1. Access(rs, x) = "free"
        BY <3>4, NoOwner
      <4>2. Access(q, x) = "free"
        BY <3>1, <3>4, NoOwner
      <4> QED
        BY <2>3, <4>1, <4>2
    <3> QED
      BY <3>3, <3>4
  <2> QED
    BY <2>1, <2>2, <2>3 DEF InNew
<1> QED
  BY <1>3, <1>4 DEF Merged, q

-----------------------------------------------------------------------------
(* A list within bounds.                                                   *)
Span(s, a, b) == Listed(s) /\ \A k \in 1..Len(s) : a <= s[k].start /\ s[k].end <= b

(* A list gives nothing outside its bounds.                                *)
LEMMA Outside ==
  ASSUME VmParameters, NEW s, NEW a \in Nat, NEW b \in Nat, Span(s, a, b), NEW x \in Nat, x < a \/ x >= b
  PROVE  Access(s, x) = "free" /\ ~\E k \in 1..Len(s) : Covers(s[k], x)
<1>1. ASSUME NEW k \in 1..Len(s) PROVE ~Covers(s[k], x)
  <2>1. s[k] \in Extents
    BY DEF Span, Listed
  <2>2. s[k].start \in Nat /\ s[k].end \in Nat /\ a <= s[k].start /\ s[k].end <= b
    BY <2>1, ExtentFacts DEF Span
  <2> QED
    BY <2>2 DEF Covers
<1> QED
  BY <1>1 DEF Access

(* One region, or none, as a list.                                         *)
LEMMA PartSpan ==
  ASSUME VmParameters, NEW a \in Nat, NEW b \in V!Addrs, NEW f \in Flags, a <= b, b <= a + MaxSize
  PROVE  /\ Span(V!Part(a, b, f), a, b)
         /\ \A x \in Nat : a <= x /\ x < b => Access(V!Part(a, b, f), x) = f
<1>0. b \in Nat
  BY DEF V!Addrs, VmParameters
<1>1. CASE a < b
  <2> DEFINE r == V!Region(a, b, f)
  <2>1. r \in Extents /\ r.start = a /\ r.end = b /\ r.flags = f
    BY <1>1, RegionExtent DEF V!Region
  <2>2. V!Part(a, b, f) = <<r>>
    BY <1>1 DEF V!Part
  <2> HIDE DEF r
  <2>3. <<r>> \in Seq(Extents) /\ Len(<<r>>) = 1 /\ <<r>>[1] = r
    BY <2>1
  <2>4. Listed(<<r>>) /\ Has(<<r>>, r)
    BY <2>3 DEF Listed, InOrder, Has
  <2>5. Span(<<r>>, a, b)
    BY <2>1, <2>3, <2>4, <1>0 DEF Span
  <2>6. ASSUME NEW x \in Nat, a <= x /\ x < b PROVE Access(<<r>>, x) = f
    BY <2>1, <2>4, <2>6, Owner DEF Covers
  <2> QED
    BY <2>2, <2>5, <2>6
<1>2. CASE a = b
  <2>1. V!Part(a, b, f) = <<>>
    BY <1>0, <1>2 DEF V!Part
  <2>2. Span(<<>>, a, b)
    BY DEF Span, Listed, InOrder
  <2>3. \A x \in Nat : ~(a <= x /\ x < b)
    BY <1>2
  <2> QED
    BY <2>1, <2>2, <2>3
<1> QED
  BY <1>0, <1>1, <1>2

(* One list behind another.                                                *)
LEMMA Chain ==
  ASSUME VmParameters, NEW a \in Nat, NEW b \in Nat, NEW c \in Nat, a <= b, b <= c,
         NEW s, NEW u, Span(s, a, b), Span(u, b, c)
  PROVE  /\ Span(s \o u, a, c)
         /\ \A x \in Nat : Access(s \o u, x) = IF x < b THEN Access(s, x) ELSE Access(u, x)
<1> DEFINE n == Len(s)
           q == Joint(s, n, u, n + 1)
<1>1. s \in Seq(Extents) /\ u \in Seq(Extents) /\ Listed(s) /\ Listed(u) /\ n \in Nat /\ Len(u) \in Nat
  BY DEF Span, Listed
<1>2. q = s \o u
  <2>1. SubSeq(s, 1, n) = s
    BY <1>1
  <2>2. SubSeq(s, n + 1, Len(s)) = <<>>
    BY <1>1
  <2>3. (s \o u) \o <<>> = s \o u
    BY <1>1
  <2> QED
    BY <2>1, <2>2, <2>3 DEF Joint
<1>3. /\ \A k \in 1..n : s[k].start \in Nat /\ s[k].end \in Nat /\ s[k].start < s[k].end
                       /\ a <= s[k].start /\ s[k].end <= b
      /\ \A k \in 1..Len(u) : u[k].start \in Nat /\ u[k].end \in Nat /\ u[k].start < u[k].end
                            /\ b <= u[k].start /\ u[k].end <= c
  <2>1. \A k \in 1..n : s[k] \in Extents
    BY <1>1
  <2>2. \A k \in 1..Len(u) : u[k] \in Extents
    BY <1>1
  <2>3. \A k \in 1..n : a <= s[k].start /\ s[k].end <= b
    BY DEF Span
  <2>4. \A k \in 1..Len(u) : b <= u[k].start /\ u[k].end <= c
    BY DEF Span
  <2> QED
    BY <2>1, <2>2, <2>3, <2>4, ExtentFacts
<1>4. Fits(s, n, u, n + 1)
  <2>1. ASSUME NEW k \in 1..Len(u), NEW l \in 1..n PROVE s[l].end <= u[k].start
    <3>1. s[l].end \in Nat /\ s[l].end <= b
      BY <1>3
    <3>2. u[k].start \in Nat /\ b <= u[k].start
      BY <1>3
    <3> QED
      BY <3>1, <3>2
  <2>2. \A l \in (n + 1)..Len(s) : FALSE
    BY <1>1
  <2> QED
    BY <2>1, <2>2 DEF Fits
<1> HIDE DEF q
<1>5. n \in 0..Len(s) /\ n + 1 \in (n + 1)..(Len(s) + 1) /\ n + 1 \in 1..(Len(s) + 1)
  BY <1>1
<1> HIDE DEF n
<1>9. Listed(q) /\ Merged(q, s, n, u, n + 1)
  BY <1>1, <1>4, <1>5, JointAccess DEF q
<1>10. Laid(q, s, n, u, n + 1)
  BY <1>1, <1>5, JointLaid DEF q
<1>6. Listed(q) /\ Merged(q, s, n, u, n + 1) /\ Laid(q, s, n, u, n + 1)
  BY <1>9, <1>10
<1>7. ASSUME NEW k \in 1..Len(q) PROVE a <= q[k].start /\ q[k].end <= c
  <2>1. /\ Len(q) = n + Len(u) /\ \A l \in 1..n : q[l] = s[l]
        /\ \A l \in 1..Len(u) : q[n + l] = u[l]
    BY <1>1, <1>6 DEF Laid, n
  <2>2. CASE k <= n
    BY <1>1, <1>3, <2>1, <2>2
  <2>3. CASE k > n
    <3>1. k - n \in 1..Len(u) /\ n + (k - n) = k
      BY <1>1, <2>1, <2>3
    <3>2. q[k] = u[k - n]
      BY <2>1, <3>1
    <3>3. u[k - n].start \in Nat /\ u[k - n].end \in Nat /\ b <= u[k - n].start /\ u[k - n].end <= c
      BY <1>3, <3>1
    <3> QED
      BY <3>2, <3>3
  <2> QED
    BY <1>1, <2>2, <2>3
<1>8. ASSUME NEW x \in Nat PROVE Access(q, x) = IF x < b THEN Access(s, x) ELSE Access(u, x)
  <2>0. Access(q, x) = IF InNew(s, n, u, n + 1, x) THEN Access(u, x) ELSE Access(s, x)
    BY <1>6 DEF Merged
  <2>1. InNew(s, n, u, n + 1, x) <=> \E k \in 1..Len(u) : Covers(u[k], x)
    BY <1>1 DEF InNew
  <2>2. CASE x < b
    <3>1. ~\E k \in 1..Len(u) : Covers(u[k], x)
      BY <2>2, Outside
    <3> QED
      BY <2>0, <2>1, <2>2, <3>1
  <2>3. CASE ~(x < b)
    <3>0. x >= b
      BY <2>3
    <3>1. Access(s, x) = "free"
      BY <3>0, Outside
    <3>2. (~\E k \in 1..Len(u) : Covers(u[k], x)) => Access(u, x) = "free"
      BY DEF Access
    <3> QED
      BY <2>0, <2>1, <2>3, <3>1, <3>2
  <2> QED
    BY <2>2, <2>3
<1> QED
  BY <1>2, <1>6, <1>7, <1>8 DEF Span

-----------------------------------------------------------------------------
(* The pages a..b - 1 get the access f, and no other page is touched.      *)
Painted(q, rs, a, b, f) ==
  \A x \in Nat : Access(q, x) = IF a <= x /\ x < b THEN f ELSE Access(rs, x)

(* The regions up to i end at a or before, those from j begin at b or     *)
(* behind.                                                                 *)
Gap(rs, i, j, a, b) ==
  /\ \A n \in 1..i : rs[n].end <= a
  /\ \A n \in j..Len(rs) : b <= rs[n].start

(* A list that stays between a and b fits there.                           *)
LEMMA GapFits ==
  ASSUME VmParameters, NEW rs, Listed(rs), NEW i \in 0..Len(rs), NEW j \in (i + 1)..(Len(rs) + 1),
         NEW a \in Nat, NEW b \in Nat, Gap(rs, i, j, a, b), NEW s, Span(s, a, b)
  PROVE  Fits(rs, i, s, j)
<1>0. Len(rs) \in Nat
  BY DEF Listed
<1>1. ASSUME NEW k \in 1..Len(s), NEW n \in 1..i PROVE rs[n].end <= s[k].start
  <2>1. s[k] \in Extents /\ a <= s[k].start
    BY DEF Span, Listed
  <2>2. s[k].start \in Nat
    BY <2>1, ExtentFacts
  <2>3. rs[n] \in Extents
    BY <1>0 DEF Listed
  <2>4. rs[n].end <= a
    BY DEF Gap
  <2>5. rs[n].end \in Nat
    BY <2>3, ExtentFacts
  <2> QED
    BY <2>1, <2>2, <2>4, <2>5
<1>2. ASSUME NEW k \in 1..Len(s), NEW n \in j..Len(rs) PROVE s[k].end <= rs[n].start
  <2>1. s[k] \in Extents /\ s[k].end <= b
    BY DEF Span, Listed
  <2>2. s[k].end \in Nat
    BY <2>1, ExtentFacts
  <2>3. rs[n] \in Extents
    BY <1>0 DEF Listed
  <2>4. b <= rs[n].start
    BY DEF Gap
  <2>5. rs[n].start \in Nat
    BY <2>3, ExtentFacts
  <2> QED
    BY <2>1, <2>2, <2>4, <2>5
<1> QED
  BY <1>1, <1>2 DEF Fits

(* A list gives nothing between two regions.                               *)
LEMMA Between ==
  ASSUME VmParameters, NEW rs, Listed(rs), NEW i \in 0..Len(rs), NEW a \in Nat, NEW b \in Nat,
         Gap(rs, i, i + 1, a, b),
         NEW x \in Nat, a <= x, x < b
  PROVE  Access(rs, x) = "free"
<1>1. ASSUME NEW n \in 1..Len(rs) PROVE ~Covers(rs[n], x)
  <2>1. rs[n] \in Extents /\ Len(rs) \in Nat
    BY DEF Listed
  <2>2. rs[n].start \in Nat /\ rs[n].end \in Nat
    BY <2>1, ExtentFacts
  <2>3. n \in 1..i \/ n \in (i + 1)..Len(rs)
    BY <2>1
  <2>4. rs[n].end <= a \/ b <= rs[n].start
    BY <2>3 DEF Gap
  <2> QED
    BY <2>2, <2>4 DEF Covers
<1> QED
  BY <1>1 DEF Access

(* vm_insert_region_after, where its assertions hold.                      *)
LEMMA Inserted ==
  ASSUME VmParameters, NEW rs, Listed(rs), NEW i \in 0..Len(rs),
         NEW a \in Nat, NEW b \in V!Addrs, NEW f \in Flags, a < b, b <= a + MaxSize,
         Gap(rs, i, i + 1, a, b)
  PROVE  /\ Listed(V!InsertAt(rs, i + 1, V!Region(a, b, f)))
         /\ Painted(V!InsertAt(rs, i + 1, V!Region(a, b, f)), rs, a, b, f)
         /\ \A x \in Nat : a <= x /\ x < b => Access(rs, x) = "free"
<1> DEFINE s == V!Part(a, b, f)
           q == Joint(rs, i, s, i + 1)
<1>0. b \in Nat /\ Len(rs) \in Nat
  BY DEF V!Addrs, VmParameters, Listed
<1>1. V!InsertAt(rs, i + 1, V!Region(a, b, f)) = q
  <2>1. s = <<V!Region(a, b, f)>> /\ (i + 1) - 1 = i
    BY <1>0 DEF V!Part
  <2> HIDE DEF s
  <2> QED
    BY <2>1, Zenon DEF V!InsertAt, Joint
<1>2. a <= b
  BY <1>0
<1>3. Span(s, a, b) /\ \A x \in Nat : a <= x /\ x < b => Access(s, x) = f
  BY <1>2, PartSpan
<1> HIDE DEF s
<1>5. i + 1 \in (i + 1)..(Len(rs) + 1) /\ Listed(s)
  BY <1>0, <1>3 DEF Span
<1>4. Fits(rs, i, s, i + 1)
  BY <1>0, <1>3, <1>5, GapFits
<1>6. Listed(q) /\ Merged(q, rs, i, s, i + 1)
  BY <1>4, <1>5, JointAccess
<1> HIDE DEF q
<1>7. \A x \in Nat : a <= x /\ x < b => Access(rs, x) = "free"
  BY <1>0, Between
<1>8. ASSUME NEW x \in Nat PROVE Access(q, x) = IF a <= x /\ x < b THEN f ELSE Access(rs, x)
  <2>1. Access(q, x) = IF \E k \in 1..Len(s) : Covers(s[k], x) THEN Access(s, x) ELSE Access(rs, x)
    <3>1. (i + 1)..((i + 1) - 1) = {}
      OBVIOUS
    <3>2. InNew(rs, i, s, i + 1, x) <=> \E k \in 1..Len(s) : Covers(s[k], x)
      BY <3>1 DEF InNew
    <3> QED
      BY <1>6, <3>2 DEF Merged
  <2>2. CASE a <= x /\ x < b
    <3>1. (~\E k \in 1..Len(s) : Covers(s[k], x)) => Access(s, x) = "free"
      BY DEF Access
    <3> QED
      BY <1>3, <1>7, <2>1, <2>2, <3>1
  <2>3. CASE ~(a <= x /\ x < b)
    <3>1. x < a \/ x >= b
      BY <1>0, <2>3
    <3>2. ~\E k \in 1..Len(s) : Covers(s[k], x)
      BY <1>0, <1>3, <3>1, Outside
    <3> QED
      BY <2>1, <2>3, <3>2
  <2> QED
    BY <2>2, <2>3
<1> QED
  BY <1>1, <1>6, <1>7, <1>8 DEF Painted

(* Region i is replaced by the regions of s, which stay within the gap     *)
(* between its neighbours.                                                 *)
LEMMA Replaced ==
  ASSUME VmParameters, NEW rs, Listed(rs), NEW i \in 1..Len(rs), NEW lo \in Nat, NEW hi \in Nat,
         NEW s, Span(s, lo, hi), lo <= rs[i].start, rs[i].end <= hi,
         Gap(rs, i - 1, i + 1, lo, hi)
  PROVE  /\ Listed(Joint(rs, i - 1, s, i + 1))
         /\ \A x \in Nat : Access(Joint(rs, i - 1, s, i + 1), x) =
                            IF lo <= x /\ x < hi THEN Access(s, x) ELSE Access(rs, x)
         /\ \A x \in Nat : lo <= x /\ x < hi /\ ~Covers(rs[i], x) => Access(rs, x) = "free"
<1> DEFINE h == i - 1
           j == i + 1
           q == Joint(rs, h, s, j)
<1>0. /\ Len(rs) \in Nat /\ h \in 0..Len(rs) /\ j \in (h + 1)..(Len(rs) + 1) /\ Listed(s)
      /\ (h + 1)..(j - 1) = {i}
  <2>1. Len(rs) \in Nat /\ Listed(s)
    BY DEF Listed, Span
  <2>2. h \in 0..Len(rs) /\ j \in (h + 1)..(Len(rs) + 1)
    BY <2>1
  <2>3. (h + 1)..(j - 1) = {i}
    OBVIOUS
  <2> QED
    BY <2>1, <2>2, <2>3
<1>1. rs[i] \in Extents
  BY DEF Listed
<1>2. rs[i].start \in Nat /\ rs[i].end \in Nat
  BY <1>1, ExtentFacts
<1>3. Gap(rs, h, j, lo, hi)
  OBVIOUS
<1> HIDE DEF h, j
<1>4. Fits(rs, h, s, j)
  BY <1>0, <1>3, GapFits
<1>5. Listed(q) /\ Merged(q, rs, h, s, j)
  BY <1>0, <1>4, JointAccess
<1> HIDE DEF q
<1>6. ASSUME NEW x \in Nat, lo <= x, x < hi, ~Covers(rs[i], x) PROVE Access(rs, x) = "free"
  <2>1. ASSUME NEW n \in 1..Len(rs) PROVE ~Covers(rs[n], x)
    <3>1. CASE n = i
      BY <1>6, <3>1
    <3>2. CASE n # i
      <4>1. rs[n] \in Extents
        BY DEF Listed
      <4>2. rs[n].start \in Nat /\ rs[n].end \in Nat
        BY <4>1, ExtentFacts
      <4>3. n \in 1..h \/ n \in j..Len(rs)
        BY <1>0, <3>2 DEF h, j
      <4>4. rs[n].end <= lo \/ hi <= rs[n].start
        BY <1>3, <4>3 DEF Gap
      <4> QED
        BY <1>6, <4>2, <4>4 DEF Covers
    <3> QED
      BY <3>1, <3>2
  <2> QED
    BY <2>1 DEF Access
<1>7. ASSUME NEW x \in Nat PROVE Access(q, x) = IF lo <= x /\ x < hi THEN Access(s, x) ELSE Access(rs, x)
  <2>1. Access(q, x) = IF Covers(rs[i], x) \/ \E k \in 1..Len(s) : Covers(s[k], x)
                         THEN Access(s, x) ELSE Access(rs, x)
    BY <1>0, <1>5 DEF Merged, InNew
  <2>2. CASE lo <= x /\ x < hi
    <3>1. (~\E k \in 1..Len(s) : Covers(s[k], x)) => Access(s, x) = "free"
      BY DEF Access
    <3> QED
      BY <1>6, <2>1, <2>2, <3>1
  <2>3. CASE ~(lo <= x /\ x < hi)
    <3>1. x < lo \/ x >= hi
      BY <2>3
    <3>2. ~\E k \in 1..Len(s) : Covers(s[k], x)
      BY <3>1, Outside
    <3>3. ~Covers(rs[i], x)
      BY <1>2, <3>1 DEF Covers
    <3> QED
      BY <2>1, <2>3, <3>2, <3>3
  <2> QED
    BY <2>2, <2>3
<1> QED
  BY <1>5, <1>6, <1>7 DEF q, h, j

-----------------------------------------------------------------------------
(* Around a region of the list.                                            *)
LEMMA Neighbours ==
  ASSUME VmParameters, NEW rs, Listed(rs), NEW i \in 1..Len(rs)
  PROVE  /\ Gap(rs, i - 1, i + 1, rs[i].start, rs[i].end)
         /\ rs[i].start \in Nat /\ rs[i].end \in Nat /\ rs[i].start < rs[i].end
         /\ rs[i].end <= rs[i].start + MaxSize /\ rs[i].end \in V!Addrs /\ rs[i].flags \in Flags
         /\ \A x \in Nat : rs[i].start <= x /\ x < rs[i].end => Access(rs, x) = rs[i].flags
<1>0. Len(rs) \in Nat /\ rs[i] \in Extents /\ Has(rs, rs[i])
  BY DEF Listed, Has
<1>1. ASSUME NEW n \in 1..(i - 1) PROVE rs[n].end <= rs[i].start
  <2>1. n \in 1..Len(rs) /\ n < i
    BY <1>0
  <2> QED
    BY <2>1 DEF Listed, InOrder
<1>2. ASSUME NEW n \in (i + 1)..Len(rs) PROVE rs[i].end <= rs[n].start
  <2>1. n \in 1..Len(rs) /\ i < n
    BY <1>0
  <2> QED
    BY <2>1 DEF Listed, InOrder
<1>3. Gap(rs, i - 1, i + 1, rs[i].start, rs[i].end)
  BY <1>1, <1>2 DEF Gap
<1>4. \A x \in Nat : rs[i].start <= x /\ x < rs[i].end => Access(rs, x) = rs[i].flags
  BY <1>0, Owner DEF Covers
<1> QED
  BY <1>0, <1>3, <1>4, ExtentFacts

(* set_flags: what is before and behind the range stays.                   *)
LEMMA Repainted ==
  ASSUME VmParameters, NEW rs, Listed(rs), NEW i \in 1..Len(rs), NEW a \in V!Addrs, NEW b \in V!Addrs,
         NEW f \in Flags, rs[i].start <= a, a < b, b <= rs[i].end,
         NEW s, s = V!Part(rs[i].start, a, rs[i].flags) \o V!Part(a, b, f) \o V!Part(b, rs[i].end, rs[i].flags)
  PROVE  Listed(Joint(rs, i - 1, s, i + 1)) /\ Painted(Joint(rs, i - 1, s, i + 1), rs, a, b, f)
<1> DEFINE lo == rs[i].start
           hi == rs[i].end
           g == rs[i].flags
           q == Joint(rs, i - 1, s, i + 1)
           s1 == V!Part(lo, a, g)
           s2 == V!Part(a, b, f)
           s3 == V!Part(b, hi, g)
<1>0. a \in Nat /\ b \in Nat /\ MaxSize \in Nat
  BY DEF V!Addrs, VmParameters
<1>1. /\ Gap(rs, i - 1, i + 1, lo, hi) /\ lo \in Nat /\ hi \in Nat /\ lo < hi
      /\ hi <= lo + MaxSize /\ hi \in V!Addrs /\ g \in Flags
      /\ \A x \in Nat : lo <= x /\ x < hi => Access(rs, x) = g
  BY Neighbours
<1>20. /\ lo \in Nat /\ hi \in Nat /\ lo < hi /\ hi <= lo + MaxSize
       /\ lo <= a /\ a < b /\ b <= hi
  BY <1>1
<1>2. lo <= a /\ a < b /\ b <= hi /\ s = (s1 \o s2) \o s3
  OBVIOUS
<1> HIDE DEF lo, hi, g
<1>3. a <= lo + MaxSize /\ b <= a + MaxSize /\ hi <= b + MaxSize /\ a <= b
  <2>1. a <= lo + MaxSize
    BY <1>0, <1>20
  <2>2. b <= a + MaxSize
    BY <1>0, <1>20
  <2>3. hi <= b + MaxSize
    BY <1>0, <1>20
  <2> QED
    BY <1>0, <1>20, <2>1, <2>2, <2>3
<1>4. Span(s1, lo, a) /\ \A x \in Nat : lo <= x /\ x < a => Access(s1, x) = g
  BY <1>0, <1>1, <1>2, <1>3, PartSpan
<1>5. Span(s2, a, b) /\ \A x \in Nat : a <= x /\ x < b => Access(s2, x) = f
  BY <1>0, <1>1, <1>2, <1>3, PartSpan
<1>6. Span(s3, b, hi) /\ \A x \in Nat : b <= x /\ x < hi => Access(s3, x) = g
  BY <1>0, <1>1, <1>2, <1>3, PartSpan
<1> HIDE DEF s1, s2, s3
<1>7. /\ Span(s1 \o s2, lo, b)
      /\ \A x \in Nat : Access(s1 \o s2, x) = IF x < a THEN Access(s1, x) ELSE Access(s2, x)
  BY <1>0, <1>1, <1>2, <1>3, <1>4, <1>5, Chain
<1>8. lo <= b
  BY <1>0, <1>20
<1>9. /\ Span(s, lo, hi)
      /\ \A x \in Nat : Access(s, x) = IF x < b THEN Access(s1 \o s2, x) ELSE Access(s3, x)
  BY <1>0, <1>1, <1>2, <1>6, <1>7, <1>8, Chain
<1>10. Listed(q) /\ \A x \in Nat : Access(q, x) = IF lo <= x /\ x < hi THEN Access(s, x) ELSE Access(rs, x)
  <2>1. lo <= rs[i].start /\ rs[i].end <= hi
    BY <1>1 DEF lo, hi
  <2>2. Gap(rs, i - 1, i + 1, lo, hi) /\ lo \in Nat /\ hi \in Nat /\ Span(s, lo, hi)
    BY <1>1, <1>9
  <2> QED
    BY <2>1, <2>2, Replaced
<1> HIDE DEF q
<1>11. ASSUME NEW x \in Nat PROVE Access(q, x) = IF a <= x /\ x < b THEN f ELSE Access(rs, x)
  <2>1. CASE x < lo \/ x >= hi
    <3>1. ~(lo <= x /\ x < hi) /\ ~(a <= x /\ x < b)
      BY <1>0, <1>20, <2>1
    <3> QED
      BY <1>10, <3>1
  <2>2. CASE lo <= x /\ x < a
    <3>1. x < hi /\ x < b /\ ~(a <= x)
      BY <1>0, <1>20, <2>2
    <3>2. Access(s, x) = g /\ Access(rs, x) = g
      BY <1>1, <1>4, <1>7, <1>9, <2>2, <3>1
    <3> QED
      BY <1>10, <2>2, <3>1, <3>2
  <2>3. CASE a <= x /\ x < b
    <3>1. x < hi /\ lo <= x /\ ~(x < a)
      BY <1>0, <1>20, <2>3
    <3>2. Access(s, x) = f
      BY <1>5, <1>7, <1>9, <2>3, <3>1
    <3> QED
      BY <1>10, <2>3, <3>1, <3>2
  <2>4. CASE b <= x /\ x < hi
    <3>1. lo <= x /\ ~(x < b)
      BY <1>0, <1>20, <2>4
    <3>2. Access(s, x) = g /\ Access(rs, x) = g
      BY <1>1, <1>6, <1>9, <2>4, <3>1
    <3> QED
      BY <1>10, <2>4, <3>1, <3>2
  <2> QED
    BY <1>0, <1>20, <2>1, <2>2, <2>3, <2>4
<1> QED
  BY <1>10, <1>11 DEF Painted, q

(* unmap: the same, with nothing in the middle.                            *)
LEMMA Cut ==
  ASSUME VmParameters, NEW rs, Listed(rs), NEW i \in 1..Len(rs), NEW a \in V!Addrs, NEW b \in V!Addrs,
         rs[i].start <= a, a < b, b <= rs[i].end,
         NEW s, s = V!Part(rs[i].start, a, rs[i].flags) \o V!Part(b, rs[i].end, rs[i].flags)
  PROVE  Listed(Joint(rs, i - 1, s, i + 1)) /\ Painted(Joint(rs, i - 1, s, i + 1), rs, a, b, "free")
<1> DEFINE lo == rs[i].start
           hi == rs[i].end
           g == rs[i].flags
           q == Joint(rs, i - 1, s, i + 1)
           s1 == V!Part(lo, a, g)
           s3 == V!Part(b, hi, g)
<1>0. a \in Nat /\ b \in Nat /\ MaxSize \in Nat
  BY DEF V!Addrs, VmParameters
<1>1. /\ Gap(rs, i - 1, i + 1, lo, hi) /\ lo \in Nat /\ hi \in Nat /\ lo < hi
      /\ hi <= lo + MaxSize /\ hi \in V!Addrs /\ g \in Flags
      /\ \A x \in Nat : lo <= x /\ x < hi => Access(rs, x) = g
  BY Neighbours
<1>20. /\ lo \in Nat /\ hi \in Nat /\ lo < hi /\ hi <= lo + MaxSize
       /\ lo <= a /\ a < b /\ b <= hi
  BY <1>1
<1>2. lo <= a /\ a < b /\ b <= hi /\ s = s1 \o s3
  OBVIOUS
<1> HIDE DEF lo, hi, g
<1>3. a <= lo + MaxSize /\ hi <= b + MaxSize /\ a <= hi
  <2>1. a <= lo + MaxSize
    BY <1>0, <1>20
  <2>2. hi <= b + MaxSize
    BY <1>0, <1>20
  <2>3. a <= hi
    BY <1>0, <1>20
  <2> QED
    BY <2>1, <2>2, <2>3
<1>4. Span(s1, lo, a) /\ \A x \in Nat : lo <= x /\ x < a => Access(s1, x) = g
  BY <1>0, <1>1, <1>2, <1>3, PartSpan
<1>5. Span(s3, b, hi) /\ \A x \in Nat : b <= x /\ x < hi => Access(s3, x) = g
  BY <1>0, <1>1, <1>2, <1>3, PartSpan
<1> HIDE DEF s1, s3
<1>6. Span(s3, a, hi)
  <2>1. ASSUME NEW k \in 1..Len(s3) PROVE a <= s3[k].start
    <3>1. s3[k] \in Extents /\ b <= s3[k].start
      BY <1>5 DEF Span, Listed
    <3>2. s3[k].start \in Nat
      BY <3>1, ExtentFacts
    <3> QED
      BY <1>0, <1>20, <3>1, <3>2
  <2> QED
    BY <1>5, <2>1 DEF Span
<1>7. ASSUME NEW x \in Nat, x < b PROVE Access(s3, x) = "free"
  BY <1>0, <1>1, <1>5, <1>7, Outside
<1>8. /\ Span(s, lo, hi)
      /\ \A x \in Nat : Access(s, x) = IF x < a THEN Access(s1, x) ELSE Access(s3, x)
  BY <1>0, <1>1, <1>2, <1>3, <1>4, <1>6, Chain
<1>9. Listed(q) /\ \A x \in Nat : Access(q, x) = IF lo <= x /\ x < hi THEN Access(s, x) ELSE Access(rs, x)
  <2>1. lo <= rs[i].start /\ rs[i].end <= hi
    BY <1>1 DEF lo, hi
  <2>2. Gap(rs, i - 1, i + 1, lo, hi) /\ lo \in Nat /\ hi \in Nat /\ Span(s, lo, hi)
    BY <1>1, <1>8
  <2> QED
    BY <2>1, <2>2, Replaced
<1> HIDE DEF q
<1>10. ASSUME NEW x \in Nat PROVE Access(q, x) = IF a <= x /\ x < b THEN "free" ELSE Access(rs, x)
  <2>1. CASE x < lo \/ x >= hi
    <3>1. ~(lo <= x /\ x < hi) /\ ~(a <= x /\ x < b)
      BY <1>0, <1>20, <2>1
    <3> QED
      BY <1>9, <3>1
  <2>2. CASE lo <= x /\ x < a
    <3>1. x < hi /\ x < b /\ ~(a <= x)
      BY <1>0, <1>20, <2>2
    <3>2. Access(s, x) = g /\ Access(rs, x) = g
      BY <1>1, <1>4, <1>8, <2>2, <3>1
    <3> QED
      BY <1>9, <2>2, <3>1, <3>2
  <2>3. CASE a <= x /\ x < b
    <3>1. x < hi /\ lo <= x /\ ~(x < a)
      BY <1>0, <1>20, <2>3
    <3>2. Access(s, x) = "free"
      BY <1>7, <1>8, <2>3, <3>1
    <3> QED
      BY <1>9, <2>3, <3>1, <3>2
  <2>4. CASE b <= x /\ x < hi
    <3>1. lo <= x /\ ~(x < b) /\ ~(x < a)
      BY <1>0, <1>20, <2>4
    <3>2. Access(s, x) = g /\ Access(rs, x) = g
      BY <1>1, <1>5, <1>8, <2>4, <3>1
    <3> QED
      BY <1>9, <2>4, <3>1, <3>2
  <2> QED
    BY <1>0, <1>20, <2>1, <2>2, <2>3, <2>4
<1> QED
  BY <1>9, <1>10 DEF Painted, q

(* vm_free: a region is taken out of the list.                             *)
LEMMA Removed ==
  ASSUME VmParameters, NEW rs, Listed(rs), NEW i \in 1..Len(rs)
  PROVE  /\ Listed(V!RemoveAt(rs, i))
         /\ Painted(V!RemoveAt(rs, i), rs, rs[i].start, rs[i].end, "free")
         /\ Laid(V!RemoveAt(rs, i), rs, i - 1, <<>>, i + 1)
<1> DEFINE lo == rs[i].start
           hi == rs[i].end
           q == Joint(rs, i - 1, <<>>, i + 1)
<1>0. rs \in Seq(Extents) /\ Len(rs) \in Nat /\ <<>> \in Seq(Extents)
  BY DEF Listed
<1>1. V!RemoveAt(rs, i) = q
  <2> DEFINE A == SubSeq(rs, 1, i - 1)
  <2>1. A \in Seq(Extents)
    BY <1>0
  <2> HIDE DEF A
  <2>2. A \o <<>> = A
    BY <2>1
  <2> QED
    BY <2>2, Zenon DEF V!RemoveAt, Joint, A
<1>2. Gap(rs, i - 1, i + 1, lo, hi) /\ lo \in Nat /\ hi \in Nat
  BY Neighbours
<1>3. Span(<<>>, lo, hi)
  BY <1>0 DEF Span, Listed, InOrder
<1>4. \A x : Access(<<>>, x) = "free"
  BY DEF Access
<1>5. lo <= rs[i].start /\ rs[i].end <= hi
  BY <1>2
<1>6. Listed(q) /\ \A x \in Nat : Access(q, x) = IF lo <= x /\ x < hi THEN Access(<<>>, x) ELSE Access(rs, x)
  BY <1>2, <1>3, <1>5, Replaced
<1>7. i - 1 \in 0..Len(rs) /\ i + 1 \in 1..(Len(rs) + 1)
  BY <1>0
<1>8. Laid(q, rs, i - 1, <<>>, i + 1)
  BY <1>0, <1>7, JointLaid
<1> HIDE DEF q
<1>9. Painted(q, rs, lo, hi, "free")
  BY <1>4, <1>6 DEF Painted
<1> QED
  BY <1>1, <1>6, <1>8, <1>9

(* resize in place: a region gets another end.                             *)
LEMMA Ended ==
  ASSUME VmParameters, NEW rs, Listed(rs), NEW i \in 1..Len(rs), NEW e \in V!Addrs, NEW hi \in Nat,
         rs[i].start < e, e <= rs[i].start + MaxSize, e <= hi, rs[i].end <= hi,
         Gap(rs, i - 1, i + 1, rs[i].start, hi)
  PROVE  /\ Listed([rs EXCEPT ![i].end = e])
         /\ \A x \in Nat : Access([rs EXCEPT ![i].end = e], x) =
              IF rs[i].start <= x /\ x < hi THEN (IF x < e THEN rs[i].flags ELSE "free") ELSE Access(rs, x)
         /\ \A x \in Nat : rs[i].end <= x /\ x < hi => Access(rs, x) = "free"
<1> DEFINE lo == rs[i].start
           g == rs[i].flags
           s == V!Part(lo, e, g)
           q == [rs EXCEPT ![i].end = e]
           J == Joint(rs, i - 1, s, i + 1)
           r == V!Region(lo, e, g)
<1>0. rs \in Seq(Extents) /\ Len(rs) \in Nat /\ e \in Nat /\ rs[i] \in Extents
  BY DEF Listed, V!Addrs, VmParameters
<1>1. lo \in Nat /\ rs[i].end \in Nat /\ g \in Flags /\ lo < rs[i].end
  BY <1>0, ExtentFacts
<1>2. lo < e /\ lo <= e /\ e <= lo + MaxSize
  BY <1>0, <1>1
<1>3. Span(s, lo, e) /\ \A x \in Nat : lo <= x /\ x < e => Access(s, x) = g
  BY <1>1, <1>2, PartSpan
<1>4. s = <<r>> /\ r \in Extents
  BY <1>1, <1>2, RegionExtent DEF V!Part
<1>5. q = J
  <2>1. s \in Seq(Extents) /\ Len(s) = 1 /\ s[1] = r
    BY <1>4
  <2>2. i - 1 \in 0..Len(rs) /\ i + 1 \in 1..(Len(rs) + 1)
    BY <1>0
  <2>3. Laid(J, rs, i - 1, s, i + 1)
    BY <1>0, <2>1, <2>2, JointLaid
  <2> HIDE DEF J, s
  <2>4. /\ J \in Seq(Extents) /\ Len(J) = Len(rs)
        /\ \A k \in 1..(i - 1) : J[k] = rs[k]
        /\ \A k \in (i + 1)..Len(rs) : J[(i - 1) + 1 + (k - (i + 1) + 1)] = rs[k]
        /\ J[(i - 1) + 1] = s[1]
    <3>1. /\ J \in Seq(Extents) /\ Len(J) = (i - 1) + 1 + (Len(rs) - (i + 1) + 1)
          /\ \A k \in 1..(i - 1) : J[k] = rs[k]
          /\ \A k \in 1..1 : J[(i - 1) + k] = s[k]
          /\ \A k \in (i + 1)..Len(rs) : J[(i - 1) + 1 + (k - (i + 1) + 1)] = rs[k]
      BY <2>1, <2>3, Zenon DEF Laid
    <3>2. (i - 1) + 1 + (Len(rs) - (i + 1) + 1) = Len(rs) /\ 1 \in 1..1
      BY <1>0
    <3> QED
      BY <3>1, <3>2, Zenon
  <2>5. ASSUME NEW k \in 1..Len(rs) PROVE q[k] = J[k]
    <3>1. CASE k = i
      <4>1. (i - 1) + 1 = i
        OBVIOUS
      <4>2. q[i] = [rs[i] EXCEPT !.end = e]
        BY <1>0
      <4>3. [rs[i] EXCEPT !.end = e] = r
        <5>1. rs[i] \in Extents
          BY <1>0
        <5>2. \A t \in Extents : [t EXCEPT !.end = e] = V!Region(t.start, e, t.flags)
          BY DEF Extents, V!Region
        <5> QED
          BY <5>1, <5>2
      <4> QED
        BY <2>1, <2>4, <3>1, <4>1, <4>2, <4>3, Zenon
    <3>2. CASE k < i
      <4>1. k \in 1..(i - 1)
        BY <3>2
      <4>2. q[k] = rs[k]
        BY <1>0, <3>2
      <4> QED
        BY <2>4, <4>1, <4>2, Zenon
    <3>3. CASE k > i
      <4>0. k \in (i + 1)..Len(rs)
        BY <1>0, <3>3
      <4>3. (i - 1) + 1 + (k - (i + 1) + 1) = k
        BY <1>0
      <4>1. k \in (i + 1)..Len(rs) /\ (i - 1) + 1 + (k - (i + 1) + 1) = k
        BY <4>0, <4>3
      <4>2. q[k] = rs[k]
        BY <1>0, <3>3
      <4> QED
        BY <2>4, <4>1, <4>2, Zenon
    <3> QED
      BY <3>1, <3>2, <3>3
  <2>6. q = [k \in 1..Len(rs) |-> q[k]]
    <3> DEFINE v == [rs[i] EXCEPT !.end = e]
    <3>1. q = [rs EXCEPT ![i] = v]
      OBVIOUS
    <3>2. rs \in [1..Len(rs) -> Extents]
      BY <1>0
    <3> HIDE DEF v, q
    <3> QED
      BY <3>1, <3>2
  <2>7. J = [k \in 1..Len(rs) |-> J[k]]
    BY <2>4
  <2> HIDE DEF q
  <2> QED
    BY <2>5, <2>6, <2>7
<1> HIDE DEF q, J, r
<1>6. Span(s, lo, hi)
  <2>1. ASSUME NEW k \in 1..Len(s) PROVE s[k].end <= hi
    <3>1. s[k] \in Extents /\ s[k].end <= e
      BY <1>3 DEF Span, Listed
    <3>2. s[k].end \in Nat
      BY <3>1, ExtentFacts
    <3> QED
      BY <1>0, <3>1, <3>2
  <2> QED
    BY <1>3, <2>1 DEF Span
<1>7. Gap(rs, i - 1, i + 1, lo, hi) /\ lo <= rs[i].start /\ rs[i].end <= hi
  BY <1>1
<1>8. /\ Listed(J) /\ \A x \in Nat : Access(J, x) = IF lo <= x /\ x < hi THEN Access(s, x) ELSE Access(rs, x)
      /\ \A x \in Nat : lo <= x /\ x < hi /\ ~Covers(rs[i], x) => Access(rs, x) = "free"
  BY <1>1, <1>6, <1>7, Replaced DEF J
<1>9. ASSUME NEW x \in Nat, ~(x < e) PROVE Access(s, x) = "free"
  <2>1. x >= e
    BY <1>0, <1>9
  <2> QED
    BY <1>0, <1>1, <1>3, <2>1, Outside
<1>10. ASSUME NEW x \in Nat, rs[i].end <= x, x < hi PROVE Access(rs, x) = "free"
  <2>1. lo <= x /\ ~Covers(rs[i], x)
    BY <1>1, <1>10 DEF Covers
  <2> QED
    BY <1>8, <1>10, <2>1
<1> HIDE DEF s
<1>11. ASSUME NEW x \in Nat
       PROVE  Access(J, x) = IF lo <= x /\ x < hi THEN (IF x < e THEN g ELSE "free") ELSE Access(rs, x)
  BY <1>3, <1>8, <1>9
<1> QED
  BY <1>5, <1>8, <1>10, <1>11, Zenon DEF q

-----------------------------------------------------------------------------
(* The page table.  An entry is a page and an access; a page that no       *)
(* region holds is absent, and so is one without access.                   *)
Entry(e) == e = [page |-> e.page, flags |-> e.flags]
Shown(f) == IF f = "free" THEN "none" ELSE f
Table(t) == t = [x \in V!Addrs |-> t[x]] /\ \A x \in V!Addrs : Entry(t[x])
TableOk(rs, t) == Table(t) /\ \A x \in V!Addrs : t[x].flags = Shown(Access(rs, x))

(* The pages a..b - 1 have got the access g, and no other page is touched. *)
Marked(u, t, a, b, g) ==
  /\ Table(u)
  /\ \A x \in V!Addrs : a <= x /\ x < b => u[x].flags = g
  /\ \A x \in V!Addrs : ~(a <= x /\ x < b) => u[x] = t[x]

(* The list and the table change together.                                 *)
LEMMA PaintTable ==
  ASSUME VmParameters, NEW rs, NEW t, TableOk(rs, t), NEW q, NEW u, NEW a, NEW b, NEW f, NEW g,
         Painted(q, rs, a, b, f), Marked(u, t, a, b, g), g = Shown(f)
  PROVE  TableOk(q, u)
<1>1. V!Addrs \subseteq Nat
  BY DEF V!Addrs, VmParameters
<1>2. ASSUME NEW x \in V!Addrs PROVE u[x].flags = Shown(Access(q, x))
  <2>1. Access(q, x) = IF a <= x /\ x < b THEN f ELSE Access(rs, x)
    BY <1>1 DEF Painted
  <2>2. t[x].flags = Shown(Access(rs, x))
    BY DEF TableOk
  <2>3. CASE a <= x /\ x < b
    BY <2>1, <2>3 DEF Marked
  <2>4. CASE ~(a <= x /\ x < b)
    BY <2>1, <2>2, <2>4 DEF Marked
  <2> QED
    BY <2>3, <2>4
<1> QED
  BY <1>2 DEF TableOk, Marked

(* Nothing is mapped where no access is given: the table is left alone.    *)
LEMMA PaintNone ==
  ASSUME VmParameters, NEW rs, NEW t, TableOk(rs, t), NEW q, NEW a, NEW b,
         Painted(q, rs, a, b, "none"), \A x \in Nat : a <= x /\ x < b => Access(rs, x) = "free"
  PROVE  TableOk(q, t)
<1>1. V!Addrs \subseteq Nat
  BY DEF V!Addrs, VmParameters
<1>2. ASSUME NEW x \in V!Addrs PROVE t[x].flags = Shown(Access(q, x))
  <2>1. Access(q, x) = IF a <= x /\ x < b THEN "none" ELSE Access(rs, x)
    BY <1>1 DEF Painted
  <2>2. t[x].flags = Shown(Access(rs, x))
    BY DEF TableOk
  <2>3. CASE a <= x /\ x < b
    BY <1>1, <2>1, <2>2, <2>3 DEF Shown
  <2>4. CASE ~(a <= x /\ x < b)
    BY <2>1, <2>2, <2>4
  <2> QED
    BY <2>3, <2>4
<1> QED
  BY <1>2 DEF TableOk

(* Every page of a range, as the page table counts them.                   *)
LEMMA InRange ==
  ASSUME VmParameters, NEW a \in Nat, NEW n \in Nat, NEW x \in V!Addrs
  PROVE  x \in V!PagesOf(a, n) <=> a <= x /\ x < a + n
<1>1. x \in Nat
  BY DEF V!Addrs, VmParameters
<1> QED
  BY <1>1 DEF V!PagesOf

(* The functions of page_table.c that vm.c calls.                          *)
LEMMA TableCalls ==
  ASSUME VmParameters, NEW t, Table(t), NEW a \in Nat, NEW n \in Nat, NEW f
  PROVE  /\ Marked(V!MapAnon(t, a, n, f), t, a, a + n, f)
         /\ Marked(V!MapForeign(t, a, n, f), t, a, a + n, f)
         /\ Marked(V!UnmapPages(t, a, n), t, a, a + n, "none")
         /\ Marked(V!SetFlags(t, a, n, f), t, a, a + n, f)
<1> DEFINE In(x) == a <= x /\ x < a + n
<1>0. \A x \in V!Addrs : x \in V!PagesOf(a, n) <=> In(x)
  BY InRange
<1>1. \A x \in V!Addrs : Entry(t[x])
  BY DEF Table
<1> HIDE DEF In
<1>2. Marked(V!MapAnon(t, a, n, f), t, a, a + n, f)
  <2> DEFINE u == V!MapAnon(t, a, n, f)
  <2>1. u = [x \in V!Addrs |-> IF In(x) THEN [page |-> V!NthFree(x - a + 1), flags |-> f] ELSE t[x]]
    BY <1>0 DEF V!MapAnon
  <2>2. u = [x \in V!Addrs |-> u[x]]
    BY <2>1
  <2>3. \A x \in V!Addrs : In(x) => Entry(u[x]) /\ u[x].flags = f
    BY <2>1 DEF Entry
  <2>4. \A x \in V!Addrs : ~In(x) => u[x] = t[x]
    BY <2>1
  <2> HIDE DEF u
  <2>5. \A x \in V!Addrs : Entry(u[x])
    BY <1>1, <2>3, <2>4
  <2>6. Table(u)
    BY <2>2, <2>5 DEF Table
  <2> QED
    BY <2>3, <2>4, <2>6 DEF Marked, In, u
<1>3. Marked(V!MapForeign(t, a, n, f), t, a, a + n, f)
  <2> DEFINE u == V!MapForeign(t, a, n, f)
  <2>1. u = [x \in V!Addrs |-> IF In(x) THEN [page |-> V!Foreign, flags |-> f] ELSE t[x]]
    BY <1>0 DEF V!MapForeign
  <2>2. u = [x \in V!Addrs |-> u[x]]
    BY <2>1
  <2>3. \A x \in V!Addrs : In(x) => Entry(u[x]) /\ u[x].flags = f
    BY <2>1 DEF Entry
  <2>4. \A x \in V!Addrs : ~In(x) => u[x] = t[x]
    BY <2>1
  <2> HIDE DEF u
  <2>5. \A x \in V!Addrs : Entry(u[x])
    BY <1>1, <2>3, <2>4
  <2>6. Table(u)
    BY <2>2, <2>5 DEF Table
  <2> QED
    BY <2>3, <2>4, <2>6 DEF Marked, In, u
<1>4. Marked(V!UnmapPages(t, a, n), t, a, a + n, "none")
  <2> DEFINE u == V!UnmapPages(t, a, n)
  <2>1. u = [x \in V!Addrs |-> IF In(x) THEN [page |-> V!Foreign, flags |-> "none"] ELSE t[x]]
    BY <1>0 DEF V!UnmapPages, V!Absent
  <2>2. u = [x \in V!Addrs |-> u[x]]
    BY <2>1
  <2>3. \A x \in V!Addrs : In(x) => Entry(u[x]) /\ u[x].flags = "none"
    BY <2>1 DEF Entry
  <2>4. \A x \in V!Addrs : ~In(x) => u[x] = t[x]
    BY <2>1
  <2> HIDE DEF u
  <2>5. \A x \in V!Addrs : Entry(u[x])
    BY <1>1, <2>3, <2>4
  <2>6. Table(u)
    BY <2>2, <2>5 DEF Table
  <2> QED
    BY <2>3, <2>4, <2>6 DEF Marked, In, u
<1>5. Marked(V!SetFlags(t, a, n, f), t, a, a + n, f)
  <2> DEFINE u == V!SetFlags(t, a, n, f)
  <2>1. u = [x \in V!Addrs |-> IF In(x) THEN [t[x] EXCEPT !.flags = f] ELSE t[x]]
    BY <1>0 DEF V!SetFlags
  <2>2. u = [x \in V!Addrs |-> u[x]]
    BY <2>1
  <2>3. ASSUME NEW e, Entry(e) PROVE Entry([e EXCEPT !.flags = f]) /\ [e EXCEPT !.flags = f].flags = f
    <3> DEFINE w == [page |-> e.page, flags |-> e.flags]
    <3>1. [w EXCEPT !.flags = f] = [page |-> e.page, flags |-> f]
      OBVIOUS
    <3>2. e = w
      BY <2>3 DEF Entry
    <3>3. [e EXCEPT !.flags = f] = [page |-> e.page, flags |-> f]
      <4> HIDE DEF w
      <4> QED
        BY <3>1, <3>2, Zenon
    <3> QED
      BY <3>3 DEF Entry
  <2>4. ASSUME NEW x \in V!Addrs, In(x) PROVE Entry(u[x]) /\ u[x].flags = f
    <3>1. u[x] = [t[x] EXCEPT !.flags = f]
      BY <2>1, <2>4
    <3> QED
      BY <1>1, <2>3, <3>1
  <2>5. \A x \in V!Addrs : ~In(x) => u[x] = t[x]
    BY <2>1
  <2> HIDE DEF u
  <2>6. \A x \in V!Addrs : Entry(u[x])
    BY <1>1, <2>4, <2>5
  <2>7. Table(u)
    BY <2>2, <2>6 DEF Table
  <2> QED
    BY <2>4, <2>5, <2>7 DEF Marked, In, u
<1> QED
  BY <1>2, <1>3, <1>4, <1>5

-----------------------------------------------------------------------------
(* The inductive invariant.                                                *)
VmInv == Listed(regions) /\ TableOk(regions, pt)
FreeIn(rs, a, b) == \A x \in Nat : a <= x /\ x < b => Access(rs, x) = "free"

(* The size of a call.                                                     *)
LEMMA SizeFacts ==
  ASSUME VmParameters, NEW size \in V!Sizes
  PROVE  size \in Nat /\ size > 0 /\ size <= MaxSize
  BY DEF V!Sizes, VmParameters

(* What is before an address is one.                                       *)
LEMMA BelowAddrs ==
  ASSUME VmParameters, NEW c \in V!Addrs, NEW b \in Nat, b <= c
  PROVE  b \in V!Addrs
  BY DEF V!Addrs, VmParameters

(* The assertions of vm_insert_region_after look at the neighbours only;   *)
(* the order of the list does the rest.                                    *)
LEMMA Slot ==
  ASSUME VmParameters, NEW rs, Listed(rs), NEW i \in 0..Len(rs), NEW a \in Nat, NEW b \in Nat,
         i > 0 => rs[i].end <= a, i < Len(rs) => b <= rs[i + 1].start
  PROVE  Gap(rs, i, i + 1, a, b)
<1>0. Len(rs) \in Nat
  BY DEF Listed
<1>1. ASSUME NEW n \in 1..i PROVE rs[n].end <= a
  <2>1. n \in 1..Len(rs) /\ i \in 1..Len(rs) /\ i > 0 /\ n <= i
    BY <1>0
  <2>2. CASE n = i
    BY <2>1, <2>2
  <2>3. CASE n # i
    <3>1. n < i
      BY <2>1, <2>3
    <3>2. rs[n].end <= rs[i].start
      BY <2>1, <3>1 DEF Listed, InOrder
    <3>3. rs[n] \in Extents /\ rs[i] \in Extents
      BY <2>1 DEF Listed
    <3>4. rs[n].end \in Nat /\ rs[i].start \in Nat /\ rs[i].end \in Nat /\ rs[i].start < rs[i].end
      BY <3>3, ExtentFacts
    <3>5. rs[i].end <= a
      BY <2>1
    <3> QED
      BY <3>2, <3>4, <3>5
  <2> QED
    BY <2>2, <2>3
<1>2. ASSUME NEW n \in (i + 1)..Len(rs) PROVE b <= rs[n].start
  <2> DEFINE k == i + 1
  <2>1. n \in 1..Len(rs) /\ k \in 1..Len(rs) /\ i < Len(rs) /\ k <= n
    BY <1>0
  <2>0. b <= rs[k].start
    BY <2>1
  <2> HIDE DEF k
  <2>2. CASE n = k
    BY <2>0, <2>2
  <2>3. CASE n # k
    <3>1. k < n
      BY <2>1, <2>3
    <3>2. rs[k].end <= rs[n].start
      BY <2>1, <3>1 DEF Listed, InOrder
    <3>3. rs[n] \in Extents /\ rs[k] \in Extents
      BY <2>1 DEF Listed
    <3>4. rs[n].start \in Nat /\ rs[k].start \in Nat /\ rs[k].end \in Nat /\ rs[k].start < rs[k].end
      BY <3>3, ExtentFacts
    <3> QED
      BY <2>0, <3>2, <3>4
  <2> QED
    BY <2>2, <2>3
<1> QED
  BY <1>1, <1>2 DEF Gap

(* vm_find_gap finds a range between two regions, or behind the last one.  *)
LEMMA GapFound ==
  ASSUME VmParameters, Listed(regions), NEW size \in V!Sizes, NEW i \in 0..Len(regions), NEW a,
         V!FindGap(size, i, a)
  PROVE  a \in Nat /\ a + size \in V!Addrs /\ Gap(regions, i, i + 1, a, a + size)
<1>0. size \in Nat /\ size > 0 /\ size <= MaxSize /\ Len(regions) \in Nat /\ NumAddrs \in Nat /\ MaxSize \in Nat
  BY SizeFacts DEF Listed, VmParameters
<1>1. CASE regions = <<>> /\ i = 0 /\ a = 0 /\ size <= NumAddrs
  <2>1. a + size \in V!Addrs /\ a \in Nat
    BY <1>0, <1>1 DEF V!Addrs
  <2>2. 1..i = {} /\ (i + 1)..Len(regions) = {}
    BY <1>1
  <2> QED
    BY <2>1, <2>2 DEF Gap
<1>2. CASE i \in V!Gaps(size) /\ a = regions[i].end
  <2>1. i \in 1..Len(regions)
    BY <1>2 DEF V!Gaps
  <2>2. regions[i].end + size <= IF i < Len(regions) THEN regions[i + 1].start ELSE NumAddrs
    BY <1>2 DEF V!Gaps
  <2>3. regions[i] \in Extents
    BY <2>1 DEF Listed
  <2>4. a \in Nat /\ a + size \in Nat
    BY <1>0, <1>2, <2>3, ExtentFacts
  <2>5. CASE i < Len(regions)
    <3> DEFINE k == i + 1
    <3>1. k \in 1..Len(regions) /\ a + size <= regions[k].start
      BY <1>0, <1>2, <2>1, <2>2, <2>5
    <3>2. regions[k] \in Extents
      BY <3>1 DEF Listed
    <3>3. regions[k].start \in Nat /\ regions[k].end \in V!Addrs /\ regions[k].start < regions[k].end
      BY <3>2, ExtentFacts
    <3>4. a + size \in V!Addrs
      BY <1>0, <2>4, <3>1, <3>3 DEF V!Addrs
    <3>5. Gap(regions, i, i + 1, a, a + size)
      BY <1>2, <2>4, <3>1, Slot
    <3> QED
      BY <2>4, <3>4, <3>5
  <2>6. CASE ~(i < Len(regions))
    <3>1. a + size <= NumAddrs
      BY <1>2, <2>2, <2>6
    <3>2. a + size \in V!Addrs
      BY <1>0, <2>4, <3>1 DEF V!Addrs
    <3>3. Gap(regions, i, i + 1, a, a + size)
      BY <1>2, <2>4, <2>6, Slot
    <3> QED
      BY <2>4, <3>2, <3>3
  <2> QED
    BY <2>5, <2>6
<1> QED
  BY <1>1, <1>2 DEF V!FindGap

(* A region is inserted and its range mapped.                              *)
LEMMA Placed ==
  ASSUME VmParameters, VmInv, NEW size \in V!Sizes, NEW f \in Flags, NEW i \in 0..Len(regions),
         NEW a \in Nat, a + size \in V!Addrs, Gap(regions, i, i + 1, a, a + size),
         regions' = V!InsertAt(regions, i + 1, V!Region(a, a + size, f)),
         (f = "none" /\ pt' = pt) \/ Marked(pt', pt, a, a + size, f)
  PROVE  /\ VmInv'
         /\ Painted(regions', regions, a, a + size, f) /\ FreeIn(regions, a, a + size)
<1> DEFINE b == a + size
<1>0. a < b /\ b <= a + MaxSize /\ b \in V!Addrs /\ Gap(regions, i, i + 1, a, b) /\ Listed(regions)
  BY SizeFacts DEF VmParameters, VmInv
<1>1. regions' = V!InsertAt(regions, i + 1, V!Region(a, b, f)) /\ TableOk(regions, pt)
  BY DEF VmInv
<1>2. (f = "none" /\ pt' = pt) \/ Marked(pt', pt, a, b, f)
  OBVIOUS
<1> HIDE DEF b
<1>3. Listed(regions') /\ Painted(regions', regions, a, b, f) /\ FreeIn(regions, a, b)
  BY <1>0, <1>1, Inserted DEF FreeIn
<1>4. CASE f = "none" /\ pt' = pt
  <2>1. Painted(regions', regions, a, b, "none")
    BY <1>3, <1>4
  <2>2. TableOk(regions', pt)
    BY <1>1, <1>3, <2>1, PaintNone DEF FreeIn
  <2>3. TableOk(regions', pt')
    BY <1>4, <2>2
  <2> QED
    BY <1>3, <2>3 DEF VmInv, b
<1>5. CASE Marked(pt', pt, a, b, f)
  <2>1. f = Shown(f)
    BY DEF Shown, VmParameters
  <2>2. TableOk(regions', pt')
    BY <1>1, <1>3, <1>5, <2>1, PaintTable
  <2> QED
    BY <1>3, <2>2 DEF VmInv, b
<1> QED
  BY <1>2, <1>4, <1>5

(* An assertion that fails leaves everything as it was.                    *)
LEMMA PanicKeeps ==
  ASSUME VmInv, NEW what, V!Panic(what)
  PROVE  VmInv'
<1>1. regions' = regions /\ pt' = pt
  BY DEF V!Panic
<1> QED
  BY <1>1 DEF VmInv

(* The regions of rs are what is left when the range is taken away.        *)
LEMMA Unmapped ==
  ASSUME VmParameters, VmInv, NEW a \in Nat, NEW n \in Nat, NEW rs, NEW o, NEW at, NEW size,
         Listed(rs), Painted(rs, regions, a, a + n, "free"), V!UnmapTo(a, n, rs, o, at, size)
  PROVE  VmInv'
<1>1. CASE V!AllPresent(a, n)
  <2>1. regions' = rs /\ pt' = V!UnmapPages(pt, a, n)
    BY <1>1 DEF V!UnmapTo
  <2>2. Marked(V!UnmapPages(pt, a, n), pt, a, a + n, "none")
    BY TableCalls DEF VmInv, TableOk
  <2>3. "none" = Shown("free") /\ TableOk(regions, pt)
    BY DEF Shown, VmInv
  <2>4. TableOk(rs, V!UnmapPages(pt, a, n))
    BY <2>2, <2>3, PaintTable
  <2> QED
    BY <2>1, <2>4 DEF VmInv
<1>2. CASE ~V!AllPresent(a, n)
  <2>1. V!Panic("unmap")
    BY <1>2 DEF V!UnmapTo
  <2> QED
    BY <2>1, PanicKeeps
<1> QED
  BY <1>1, <1>2

-----------------------------------------------------------------------------
(* alloc, phys_map and virt_map of something shared.                       *)
LEMMA AllocGapKeeps ==
  ASSUME VmParameters, VmInv, NEW size \in V!Sizes, NEW f \in Flags,
         V!AllocGap(size, f) \/ V!AllocForeign(size, f)
  PROVE  /\ VmInv'
         /\ \E a \in V!Addrs : Painted(regions', regions, a, a + size, f) /\ FreeIn(regions, a, a + size)
<1> DEFINE To(i, a) == regions' = V!InsertAt(regions, i + 1, V!Region(a, a + size, f))
<1>0. size \in Nat /\ Table(pt) /\ Listed(regions)
  BY SizeFacts DEF VmInv, TableOk
<1>1. \E i \in 0..Len(regions) : \E a \in V!Addrs :
         /\ V!FindGap(size, i, a) /\ To(i, a)
         /\ \/ f = "none" /\ pt' = pt
            \/ pt' = V!MapAnon(pt, a, size, f)
            \/ pt' = V!MapForeign(pt, a, size, f)
  BY DEF V!AllocGap, V!AllocForeign
<1>2. PICK i \in 0..Len(regions) : \E a \in V!Addrs :
         /\ V!FindGap(size, i, a) /\ To(i, a)
         /\ \/ f = "none" /\ pt' = pt
            \/ pt' = V!MapAnon(pt, a, size, f)
            \/ pt' = V!MapForeign(pt, a, size, f)
  BY <1>1
<1>3. PICK a \in V!Addrs :
         /\ V!FindGap(size, i, a) /\ To(i, a)
         /\ \/ f = "none" /\ pt' = pt
            \/ pt' = V!MapAnon(pt, a, size, f)
            \/ pt' = V!MapForeign(pt, a, size, f)
  BY <1>2
<1>4. a \in Nat /\ a + size \in V!Addrs /\ Gap(regions, i, i + 1, a, a + size)
  BY <1>0, <1>3, GapFound
<1>5. Marked(V!MapAnon(pt, a, size, f), pt, a, a + size, f) /\ Marked(V!MapForeign(pt, a, size, f), pt, a, a + size, f)
  BY <1>0, <1>4, TableCalls
<1>6. (f = "none" /\ pt' = pt) \/ Marked(pt', pt, a, a + size, f)
  BY <1>3, <1>5
<1>7. regions' = V!InsertAt(regions, i + 1, V!Region(a, a + size, f))
  BY <1>3
<1>8. VmInv' /\ Painted(regions', regions, a, a + size, f) /\ FreeIn(regions, a, a + size)
  BY <1>4, <1>6, <1>7, Placed
<1> QED
  BY <1>8

(* The number of regions that begin before a.                              *)
LEMMA BeforeCount ==
  ASSUME NEW a, Len(regions) \in Nat
  PROVE  V!Cardinality(V!Before(a)) \in 0..Len(regions)
<1> DEFINE S == V!Before(a)
<1>1. S \subseteq 1..Len(regions)
  BY DEF V!Before
<1>2. IsFiniteSet(1..Len(regions)) /\ Cardinality(1..Len(regions)) = Len(regions)
  <2>1. 1 \in Int /\ Len(regions) \in Int /\ Len(regions) - 1 + 1 = Len(regions)
    OBVIOUS
  <2>2. IsFiniteSet(1..Len(regions))
    BY <2>1, FS_Interval
  <2>3. Cardinality(1..Len(regions)) = IF 1 > Len(regions) THEN 0 ELSE Len(regions) - 1 + 1
    BY <2>1, FS_Interval
  <2> QED
    BY <2>2, <2>3
<1> HIDE DEF S
<1>3. IsFiniteSet(S) /\ Cardinality(S) <= Len(regions)
  BY <1>1, <1>2, FS_Subset
<1>4. Cardinality(S) \in Nat
  BY <1>3, FS_CardinalityType
<1>5. V!Cardinality(S) = Cardinality(S)
  BY DEF V!Cardinality, Cardinality, V!IsFiniteSet, IsFiniteSet
<1> QED
  BY <1>3, <1>4, <1>5 DEF S

(* alloc_at.  The number of regions that begin before a is the place of    *)
(* the new one.                                                            *)
LEMMA AllocAtKeeps ==
  ASSUME VmParameters, VmInv, NEW size \in V!Sizes, NEW a \in 0..(NumAddrs - 1), V!AllocAt(a, size)
  PROVE  /\ VmInv'
         /\ \/ regions' = regions /\ call' = call
            \/ /\ Painted(regions', regions, a, a + size, "rw") /\ FreeIn(regions, a, a + size)
               /\ call' = V!Call("map_at", a, size, "rw")
<1> DEFINE i == V!Cardinality(V!Before(a))
           r == V!Region(a, a + size, "rw")
           present == {x \in V!PagesOf(a, size) : V!Present(x)}
<1>0. size \in Nat /\ a \in Nat /\ NumAddrs \in Nat /\ MaxSize \in Nat /\ "rw" \in Flags
  BY SizeFacts DEF VmParameters
<1>1. Listed(regions) /\ TableOk(regions, pt) /\ Table(pt) /\ Len(regions) \in Nat
  BY DEF VmInv, TableOk, Listed
<1>2. CASE V!Panic("map") \/ V!Panic("insert")
  <2>1. VmInv'
    BY <1>2, PanicKeeps
  <2>2. regions' = regions /\ call' = call
    BY <1>2 DEF V!Panic
  <2> QED
    BY <2>1, <2>2
<1>3. CASE /\ V!InsertOk(i, r) /\ regions' = V!InsertAt(regions, i + 1, r)
           /\ pt' = V!MapAnon(pt, a, size, "rw") /\ a + size <= NumAddrs
           /\ call' = V!Call("map_at", a, size, "rw")
  <2>1. i \in 0..Len(regions)
    BY <1>1, BeforeCount
  <2> HIDE DEF i
  <2>2. a + size \in V!Addrs /\ a + size \in Nat
    BY <1>0, <1>3 DEF V!Addrs
  <2>3. r.start = a /\ r.end = a + size
    BY DEF V!Region
  <2>4. /\ i > 0 => regions[i].end <= a
        /\ i < Len(regions) => a + size <= regions[i + 1].start
    BY <1>3, <2>3 DEF V!InsertOk
  <2>5. Gap(regions, i, i + 1, a, a + size)
    BY <1>0, <1>1, <2>1, <2>2, <2>4, Slot
  <2>6. Marked(V!MapAnon(pt, a, size, "rw"), pt, a, a + size, "rw")
    BY <1>0, <1>1, TableCalls
  <2>7. Marked(pt', pt, a, a + size, "rw") /\ regions' = V!InsertAt(regions, i + 1, V!Region(a, a + size, "rw"))
    BY <1>3, <2>6
  <2>8. VmInv' /\ Painted(regions', regions, a, a + size, "rw") /\ FreeIn(regions, a, a + size)
    BY <1>0, <2>1, <2>2, <2>5, <2>7, Placed
  <2> QED
    BY <1>3, <2>8
<1>4. \/ V!Panic("map") \/ V!Panic("insert")
      \/ /\ V!InsertOk(i, r) /\ regions' = V!InsertAt(regions, i + 1, r)
         /\ pt' = V!MapAnon(pt, a, size, "rw") /\ a + size <= NumAddrs
         /\ call' = V!Call("map_at", a, size, "rw")
  <2>1. CASE present # {}
    BY <2>1 DEF V!AllocAt
  <2>2. CASE present = {} /\ ~V!InsertOk(i, r)
    BY <2>2 DEF V!AllocAt
  <2>3. CASE present = {} /\ V!InsertOk(i, r)
    BY <2>3 DEF V!AllocAt, V!Return
  <2> QED
    BY <2>1, <2>2, <2>3
<1> QED
  BY <1>2, <1>3, <1>4

(* set_flags.                                                              *)
LEMMA SetFlagsKeeps ==
  ASSUME VmParameters, VmInv, NEW i \in 1..Len(regions), NEW size \in V!Sizes, NEW a \in V!Addrs, NEW f \in Flags,
         V!SetRegionFlags(i, a, size, f)
  PROVE  VmInv' /\ Painted(regions', regions, a, a + size, f)
<1> DEFINE b == a + size
           r == regions[i]
           s == V!Part(r.start, a, r.flags) \o V!Part(a, b, f) \o V!Part(b, r.end, r.flags)
<1>0. size \in Nat /\ size > 0 /\ a \in Nat /\ b \in Nat /\ a < b
  BY SizeFacts DEF V!Addrs, VmParameters
<1>1. Listed(regions) /\ TableOk(regions, pt) /\ Table(pt)
  BY DEF VmInv, TableOk
<1>2. r.end \in V!Addrs /\ r.start \in Nat /\ r.end \in Nat
  BY <1>1, Neighbours
<1>3. r.start <= a /\ b <= r.end /\ regions' = Joint(regions, i - 1, s, i + 1)
  BY DEF V!SetRegionFlags, V!Holds, V!Splice, Joint
<1>4. pt' = IF f = "none" THEN V!UnmapPages(pt, a, size) ELSE V!SetFlags(pt, a, size, f)
  BY DEF V!SetRegionFlags
<1>5. b \in V!Addrs
  BY <1>0, <1>2, <1>3, BelowAddrs
<1> HIDE DEF b
<1>6. Listed(regions') /\ Painted(regions', regions, a, b, f)
  BY <1>0, <1>1, <1>3, <1>5, Repainted
<1>7. Marked(V!UnmapPages(pt, a, size), pt, a, b, "none") /\ Marked(V!SetFlags(pt, a, size, f), pt, a, b, f)
  BY <1>0, <1>1, TableCalls DEF b
<1>8. Marked(pt', pt, a, b, f) /\ f = Shown(f)
  BY <1>4, <1>7 DEF Shown, VmParameters
<1>9. TableOk(regions', pt')
  BY <1>1, <1>6, <1>8, PaintTable
<1> QED
  BY <1>6, <1>9 DEF VmInv, b

(* unmap.                                                                  *)
LEMMA UnmapRangeKeeps ==
  ASSUME VmParameters, VmInv, NEW i \in 1..Len(regions), NEW size \in V!Sizes, NEW a \in V!Addrs,
         V!UnmapRange(i, a, size)
  PROVE  /\ VmInv'
         /\ \/ regions' = regions /\ call' = call
            \/ /\ Painted(regions', regions, a, a + size, "free")
               /\ call' = V!Call("unmap", a, size, "none")
<1> DEFINE b == a + size
           r == regions[i]
           s == V!Part(r.start, a, r.flags) \o V!Part(b, r.end, r.flags)
           rest == Joint(regions, i - 1, s, i + 1)
<1>0. size \in Nat /\ size > 0 /\ a \in Nat /\ b \in Nat /\ a < b
  BY SizeFacts DEF V!Addrs, VmParameters
<1>1. Listed(regions)
  BY DEF VmInv
<1>2. r.end \in V!Addrs /\ r.start \in Nat /\ r.end \in Nat
  BY <1>1, Neighbours
<1>3. r.start <= a /\ b <= r.end /\ V!UnmapTo(a, size, rest, "unmap", a, size)
  BY DEF V!UnmapRange, V!Holds, V!Splice, Joint
<1>4. b \in V!Addrs
  BY <1>0, <1>2, <1>3, BelowAddrs
<1> HIDE DEF b
<1>5. Listed(rest) /\ Painted(rest, regions, a, b, "free")
  BY <1>0, <1>1, <1>3, <1>4, Cut
<1> HIDE DEF rest
<1>6. VmInv'
  BY <1>0, <1>3, <1>5, Unmapped DEF b
<1>7. \/ regions' = regions /\ call' = call
      \/ regions' = rest /\ call' = V!Call("unmap", a, size, "none")
  BY <1>3 DEF V!UnmapTo, V!Panic, V!Return
<1> QED
  BY <1>5, <1>6, <1>7 DEF b

(* vm_free.                                                                *)
LEMMA FreeRegionKeeps ==
  ASSUME VmParameters, VmInv, NEW i \in 1..Len(regions), V!FreeRegion(i)
  PROVE  /\ VmInv'
         /\ \/ regions' = regions /\ call' = call
            \/ /\ Painted(regions', regions, regions[i].start, regions[i].end, "free")
               /\ regions' = V!RemoveAt(regions, i)
               /\ call' = V!Call("free", regions[i].start, 0, "none")
<1> DEFINE lo == regions[i].start
           hi == regions[i].end
           n == hi - lo
           rest == V!RemoveAt(regions, i)
<1>1. Listed(regions)
  BY DEF VmInv
<1>2. lo \in Nat /\ hi \in Nat /\ lo < hi
  BY <1>1, Neighbours
<1>3. V!UnmapTo(lo, n, rest, "free", lo, 0)
  BY DEF V!FreeRegion, V!Size
<1>4. Listed(rest) /\ Painted(rest, regions, lo, hi, "free")
  BY <1>1, Removed
<1> HIDE DEF lo, hi, rest
<1>5. n \in Nat /\ lo + n = hi
  BY <1>2
<1>6. VmInv'
  BY <1>2, <1>3, <1>4, <1>5, Unmapped
<1>7. \/ regions' = regions /\ call' = call
      \/ regions' = rest /\ call' = V!Call("free", lo, 0, "none")
  BY <1>3 DEF V!UnmapTo, V!Panic, V!Return
<1> QED
  BY <1>4, <1>6, <1>7 DEF lo, hi, rest

(* resize to something smaller.                                            *)
LEMMA ShrinkKeeps ==
  ASSUME VmParameters, VmInv, NEW i \in 1..Len(regions), NEW size \in V!Sizes, V!Shrink(i, size)
  PROVE  /\ VmInv'
         /\ \/ regions' = regions /\ call' = call
            \/ /\ Painted(regions', regions, regions[i].start + size, regions[i].end, "free")
               /\ regions[i].start + size < regions[i].end
               /\ call' = V!Call("resize", regions[i].start, size, "none")
<1> DEFINE lo == regions[i].start
           hi == regions[i].end
           e == lo + size
           n == hi - lo - size
           rest == [regions EXCEPT ![i].end = e]
<1>0. size \in Nat /\ size > 0 /\ size <= MaxSize /\ MaxSize \in Nat
  BY SizeFacts DEF VmParameters
<1>1. Listed(regions)
  BY DEF VmInv
<1>2. lo \in Nat /\ hi \in Nat /\ lo < hi /\ hi \in V!Addrs
  BY <1>1, Neighbours
<1>3. size < hi - lo /\ V!UnmapTo(e, n, rest, "resize", lo, size)
  BY DEF V!Shrink, V!Size
<1>4. e \in Nat /\ e < hi /\ e <= hi /\ lo < e /\ e <= lo + MaxSize /\ n \in Nat /\ e + n = hi
  <2>1. size < hi - lo
    BY <1>3
  <2> HIDE DEF lo, hi
  <2> QED
    BY <1>0, <1>2, <2>1
<1>5. e \in V!Addrs
  BY <1>2, <1>4, BelowAddrs
<1>6. Gap(regions, i - 1, i + 1, lo, hi)
  BY <1>1, Neighbours
<1>7. /\ Listed(rest)
      /\ \A x \in Nat : Access(rest, x) =
           IF lo <= x /\ x < hi THEN (IF x < e THEN regions[i].flags ELSE "free") ELSE Access(regions, x)
  <2>1. hi <= hi /\ regions[i].start < e /\ e <= regions[i].start + MaxSize /\ e <= hi /\ regions[i].end <= hi
    BY <1>2, <1>4
  <2> HIDE DEF e
  <2> QED
    BY <1>1, <1>2, <1>5, <1>6, <2>1, Ended
<1>8. \A x \in Nat : lo <= x /\ x < hi => Access(regions, x) = regions[i].flags
  BY <1>1, Neighbours
<1> HIDE DEF lo, hi, e, rest
<1>9. Painted(rest, regions, e, hi, "free")
  <2>1. ASSUME NEW x \in Nat PROVE Access(rest, x) = IF e <= x /\ x < hi THEN "free" ELSE Access(regions, x)
    <3>1. CASE e <= x /\ x < hi
      <4>1. lo <= x /\ ~(x < e)
        BY <1>2, <1>4, <3>1
      <4> QED
        BY <1>7, <3>1, <4>1
    <3>2. CASE lo <= x /\ x < e
      <4>1. x < hi /\ ~(e <= x)
        BY <1>2, <1>4, <3>2
      <4> QED
        BY <1>7, <1>8, <3>2, <4>1
    <3>3. CASE ~(lo <= x /\ x < hi)
      <4>1. ~(e <= x /\ x < hi)
        BY <1>2, <1>4, <3>3
      <4> QED
        BY <1>7, <3>3, <4>1
    <3> QED
      BY <1>2, <1>4, <3>1, <3>2, <3>3
  <2> QED
    BY <2>1 DEF Painted
<1>10. Painted(rest, regions, e, e + n, "free")
  BY <1>4, <1>9
<1>11. VmInv'
  BY <1>3, <1>4, <1>7, <1>10, Unmapped
<1>12. \/ regions' = regions /\ call' = call
       \/ regions' = rest /\ call' = V!Call("resize", lo, size, "none")
  BY <1>3 DEF V!UnmapTo, V!Panic, V!Return
<1> QED
  BY <1>4, <1>9, <1>11, <1>12 DEF lo, hi, e

(* resize to something larger, in place.                                   *)
LEMMA GrowKeeps ==
  ASSUME VmParameters, VmInv, NEW i \in 1..Len(regions), NEW size \in V!Sizes, V!Grow(i, size)
  PROVE  /\ VmInv'
         /\ Painted(regions', regions, regions[i].end, regions[i].start + size, regions[i].flags)
         /\ FreeIn(regions, regions[i].end, regions[i].start + size)
         /\ regions[i].end < regions[i].start + size
         /\ Marked(pt', pt, regions[i].end, regions[i].start + size, regions[i].flags)
<1> DEFINE lo == regions[i].start
           hi == regions[i].end
           g == regions[i].flags
           e == lo + size
           more == size - (hi - lo)
           rest == [regions EXCEPT ![i].end = e]
<1>0. size \in Nat /\ size > 0 /\ size <= MaxSize /\ MaxSize \in Nat
  BY SizeFacts DEF VmParameters
<1>1. Listed(regions) /\ TableOk(regions, pt) /\ Table(pt) /\ Len(regions) \in Nat
  BY DEF VmInv, TableOk, Listed
<1>2. lo \in Nat /\ hi \in Nat /\ lo < hi /\ g \in Flags
  BY <1>1, Neighbours
<1>3. /\ size > hi - lo /\ V!FitsInPlace(i, size) /\ e \in V!Addrs
      /\ regions' = rest /\ pt' = V!MapAnon(pt, hi, more, g)
  BY DEF V!Grow, V!Size
<1>4. hi < e /\ hi <= e /\ lo < e /\ e <= lo + MaxSize /\ e \in Nat /\ more \in Nat /\ hi + more = e
  <2>1. size > hi - lo
    BY <1>3
  <2> HIDE DEF lo, hi
  <2> QED
    BY <1>0, <1>2, <2>1
<1>5. Gap(regions, i - 1, i + 1, lo, e)
  <2>1. Gap(regions, i - 1, i + 1, lo, hi)
    BY <1>1, Neighbours
  <2>2. i < Len(regions) => e < regions[i + 1].start
    BY <1>3 DEF V!FitsInPlace
  <2>3. i < Len(regions) => e <= regions[i + 1].start
    <3>1. CASE i < Len(regions)
      <4>1. i + 1 \in 1..Len(regions)
        BY <1>1, <3>1
      <4>2. regions[i + 1] \in Extents
        BY <1>1, <4>1 DEF Listed
      <4>3. regions[i + 1].start \in Nat
        BY <4>2, ExtentFacts
      <4> HIDE DEF e
      <4> QED
        BY <1>4, <2>2, <3>1, <4>3
    <3> QED
      BY <3>1
  <2>4. i \in 0..Len(regions) /\ i > 0 /\ regions[i].end <= e
    BY <1>1, <1>4
  <2> HIDE DEF lo, hi, e
  <2>5. Gap(regions, i, i + 1, e, e)
    BY <1>1, <1>4, <2>3, <2>4, Slot
  <2> QED
    BY <2>1, <2>5 DEF Gap
<1>6. /\ Listed(rest)
      /\ \A x \in Nat : Access(rest, x) =
           IF lo <= x /\ x < e THEN (IF x < e THEN g ELSE "free") ELSE Access(regions, x)
      /\ \A x \in Nat : hi <= x /\ x < e => Access(regions, x) = "free"
  <2>1. /\ e <= e /\ regions[i].start < e /\ e <= regions[i].start + MaxSize /\ regions[i].end <= e
        /\ Gap(regions, i - 1, i + 1, regions[i].start, e) /\ e \in V!Addrs /\ e \in Nat
    BY <1>2, <1>3, <1>4, <1>5
  <2> HIDE DEF e
  <2> QED
    BY <1>1, <2>1, Ended
<1>7. \A x \in Nat : lo <= x /\ x < hi => Access(regions, x) = g
  BY <1>1, Neighbours
<1> HIDE DEF lo, hi, e, rest, g
<1>8. Painted(rest, regions, hi, e, g)
  <2>1. ASSUME NEW x \in Nat PROVE Access(rest, x) = IF hi <= x /\ x < e THEN g ELSE Access(regions, x)
    <3>1. CASE hi <= x /\ x < e
      <4>1. lo <= x
        BY <1>2, <1>4, <3>1
      <4> QED
        BY <1>6, <3>1, <4>1
    <3>2. CASE lo <= x /\ x < hi
      <4>1. x < e /\ ~(hi <= x)
        BY <1>2, <1>4, <3>2
      <4> QED
        BY <1>6, <1>7, <3>2, <4>1
    <3>3. CASE ~(lo <= x /\ x < e)
      <4>1. ~(hi <= x /\ x < e)
        BY <1>2, <1>4, <3>3
      <4> QED
        BY <1>6, <3>3, <4>1
    <3> QED
      BY <1>2, <1>4, <3>1, <3>2, <3>3
  <2> QED
    BY <2>1 DEF Painted
<1>9. Marked(V!MapAnon(pt, hi, more, g), pt, hi, hi + more, g)
  BY <1>1, <1>2, <1>4, TableCalls
<1>10. Marked(pt', pt, hi, e, g)
  BY <1>3, <1>4, <1>9
<1>11. g = Shown(g)
  BY <1>2 DEF Shown, VmParameters
<1>12. TableOk(rest, pt')
  BY <1>1, <1>8, <1>10, <1>11, PaintTable
<1>13. VmInv'
  BY <1>3, <1>6, <1>12 DEF VmInv
<1> QED
  BY <1>3, <1>4, <1>6, <1>8, <1>10, <1>13 DEF lo, hi, e, g, FreeIn

-----------------------------------------------------------------------------
(* The pages that move have come from the old place, one for one.          *)
Carried(u, t, lo, n, a) == \A x \in V!Addrs : a <= x /\ x < a + n => u[x] = t[x - a + lo]

(* The page table of a move: the old place is unmapped and the new one,    *)
(* which was free, is mapped.                                              *)
LEMMA MovedTable ==
  ASSUME VmParameters, VmInv, NEW i \in 1..Len(regions), NEW size \in Nat, NEW a \in Nat, NEW old \in Nat,
         old = regions[i].end - regions[i].start, size > old, FreeIn(regions, a, a + size)
  PROVE  /\ Marked(V!Moved(regions[i], a, size), V!UnmapPages(pt, regions[i].start, old),
                   a, a + size, regions[i].flags)
         /\ Carried(V!Moved(regions[i], a, size), pt, regions[i].start, old, a)
<1> DEFINE lo == regions[i].start
           hi == regions[i].end
           g == regions[i].flags
           c == [x \in V!Addrs |-> IF x \in V!PagesOf(a, old) THEN pt[x - a + lo] ELSE pt[x]]
           m == V!MapAnon(c, a + old, size - old, g)
           u == V!UnmapPages(m, lo, old)
           t1 == V!UnmapPages(pt, lo, old)
<1>0. V!Addrs \subseteq Nat
  BY DEF V!Addrs, VmParameters
<1>1. Listed(regions) /\ TableOk(regions, pt) /\ Table(pt)
  BY DEF VmInv, TableOk
<1>2. lo \in Nat /\ hi \in Nat /\ lo < hi /\ g \in Flags /\ hi \in V!Addrs
  BY <1>1, Neighbours
<1>3. \A x \in Nat : lo <= x /\ x < hi => Access(regions, x) = g
  BY <1>1, Neighbours
<1>4. V!Moved(regions[i], a, size) = u
  BY Zenon DEF V!Moved
<1>5. old = hi - lo
  OBVIOUS
<1> HIDE DEF lo, hi, g
<1>6. hi = lo + old /\ a + old \in Nat /\ size - old \in Nat /\ a + old + (size - old) = a + size
  <2>0. \A x, y, z \in Int : z = x - y => x = y + z
    OBVIOUS
  <2>1. hi = lo + old
    <3>1. hi \in Int /\ lo \in Int /\ old \in Int
      BY <1>2
    <3> QED
      BY <1>5, <2>0, <3>1, Zenon
  <2>2. a + old \in Nat /\ size - old \in Nat
    OBVIOUS
  <2>3. a + old + (size - old) = a + size
    OBVIOUS
  <2> QED
    BY <2>1, <2>2, <2>3
<1>7. ASSUME NEW x \in V!Addrs, lo <= x /\ x < lo + old PROVE ~(a <= x /\ x < a + size)
  <2>1. CASE a <= x /\ x < a + size
    <3>1. Access(regions, x) = "free"
      BY <1>0, <2>1 DEF FreeIn
    <3>2. Access(regions, x) = g
      BY <1>0, <1>3, <1>6, <1>7
    <3> QED
      BY <1>2, <3>1, <3>2 DEF VmParameters
  <2> QED
    BY <2>1
<1>8. ASSUME NEW x \in V!Addrs, a <= x /\ x < a + old
      PROVE  x - a + lo \in V!Addrs /\ c[x] = pt[x - a + lo] /\ c[x].flags = g
  <2>1. x \in V!PagesOf(a, old) /\ x \in Nat
    BY <1>0, <1>8, InRange
  <2>2. c[x] = pt[x - a + lo]
    BY <2>1
  <2> DEFINE y == x - a + lo
  <2>3. y \in Nat /\ y < hi /\ lo <= y /\ y <= hi
    <3>1. lo \in Nat /\ hi = lo + old /\ x \in Nat /\ a <= x /\ x < a + old
      BY <1>2, <1>6, <1>8, <2>1
    <3>2. y \in Nat /\ lo <= y
      BY <3>1
    <3>3. y < hi
      <4>1. \A k, l, j, n \in Nat : l <= k /\ k < l + n => k - l + j < j + n
        OBVIOUS
      <4>2. a \in Nat /\ old \in Nat
        BY <1>0
      <4> QED
        BY <3>1, <4>1, <4>2
    <3> QED
      BY <3>1, <3>2, <3>3
  <2>5. c[x] = pt[y]
    BY <2>2
  <2> HIDE DEF y, c
  <2>4. y \in V!Addrs
    BY <1>2, <2>3, BelowAddrs
  <2>6. pt[y].flags = Shown(Access(regions, y)) /\ Access(regions, y) = g
    BY <1>1, <1>3, <2>3, <2>4 DEF TableOk
  <2>7. g = Shown(g)
    BY <1>2 DEF Shown, VmParameters
  <2> QED
    BY <2>4, <2>5, <2>6, <2>7 DEF y
<1>9. ASSUME NEW x \in V!Addrs, ~(a <= x /\ x < a + old) PROVE c[x] = pt[x]
  BY <1>9, InRange
<1>10. Table(c)
  <2>1. c = [x \in V!Addrs |-> c[x]]
    OBVIOUS
  <2> HIDE DEF c
  <2>2. \A x \in V!Addrs : Entry(pt[x])
    BY <1>1 DEF Table
  <2>3. \A x \in V!Addrs : Entry(c[x])
    BY <1>8, <1>9, <2>2
  <2> QED
    BY <2>1, <2>3 DEF Table
<1> HIDE DEF c
<1>11. Marked(m, c, a + old, a + size, g)
  <2>1. Marked(m, c, a + old, a + old + (size - old), g)
    BY <1>6, <1>10, TableCalls
  <2> QED
    BY <1>6, <2>1
<1> HIDE DEF m
<1>12. Table(m)
  BY <1>11 DEF Marked
<1>13. Marked(u, m, lo, lo + old, "none")
  BY <1>2, <1>12, TableCalls
<1>14. Marked(t1, pt, lo, lo + old, "none")
  BY <1>1, <1>2, TableCalls
<1>15. ASSUME NEW x \in V!Addrs, lo <= x /\ x < lo + old PROVE u[x] = t1[x]
  <2>1. x \in V!PagesOf(lo, old)
    BY <1>2, <1>15, InRange
  <2> QED
    BY <2>1 DEF V!UnmapPages
<1> HIDE DEF u, t1
<1>16. ASSUME NEW x \in V!Addrs, a <= x /\ x < a + size PROVE u[x].flags = g
  <2>1. ~(lo <= x /\ x < lo + old)
    BY <1>7, <1>16
  <2>2. u[x] = m[x]
    BY <1>13, <2>1 DEF Marked
  <2>3. CASE a + old <= x
    BY <1>11, <1>16, <2>2, <2>3 DEF Marked
  <2>4. CASE ~(a + old <= x)
    <3>1. m[x] = c[x]
      BY <1>11, <2>4 DEF Marked
    <3>2. a <= x /\ x < a + old
      BY <1>0, <1>16, <2>4
    <3> QED
      BY <1>8, <2>2, <3>1, <3>2
  <2> QED
    BY <2>3, <2>4
<1>17. ASSUME NEW x \in V!Addrs, ~(a <= x /\ x < a + size) PROVE u[x] = t1[x]
  <2>1. CASE lo <= x /\ x < lo + old
    BY <1>15, <2>1
  <2>2. CASE ~(lo <= x /\ x < lo + old)
    <3>1. u[x] = m[x] /\ t1[x] = pt[x]
      BY <1>13, <1>14, <2>2 DEF Marked
    <3>2. ~(a + old <= x /\ x < a + size) /\ ~(a <= x /\ x < a + old)
      BY <1>0, <1>17
    <3>3. m[x] = c[x] /\ c[x] = pt[x]
      BY <1>9, <1>11, <3>2 DEF Marked
    <3> QED
      BY <3>1, <3>3
  <2> QED
    BY <2>1, <2>2
<1>18. Marked(u, t1, a, a + size, g)
  BY <1>13, <1>16, <1>17 DEF Marked
<1>19. ASSUME NEW x \in V!Addrs, a <= x /\ x < a + old PROVE u[x] = pt[x - a + lo]
  <2>1. a <= x /\ x < a + size /\ ~(a + old <= x)
    BY <1>0, <1>19
  <2>2. ~(lo <= x /\ x < lo + old)
    BY <1>7, <2>1
  <2>3. u[x] = m[x] /\ m[x] = c[x]
    BY <1>11, <1>13, <2>1, <2>2 DEF Marked
  <2> QED
    BY <1>8, <1>19, <2>3
<1> QED
  BY <1>4, <1>18, <1>19 DEF Carried, lo, g, t1

(* The elements of a list without region i.                                *)
LEMMA RemovedAt ==
  ASSUME VmParameters, NEW rs, Listed(rs), NEW i \in 1..Len(rs), NEW mid, mid = V!RemoveAt(rs, i)
  PROVE  /\ mid \in Seq(Extents) /\ Len(mid) = Len(rs) - 1
         /\ \A n \in 1..Len(mid) : mid[n] = IF n < i THEN rs[n] ELSE rs[n + 1]
<1>0. rs \in Seq(Extents) /\ Len(rs) \in Nat
  BY DEF Listed
<1>1. Laid(mid, rs, i - 1, <<>>, i + 1)
  BY Removed
<1>2. /\ mid \in Seq(Extents) /\ Len(mid) = Len(rs) - 1
      /\ \A k \in 1..(i - 1) : mid[k] = rs[k]
      /\ \A k \in (i + 1)..Len(rs) : mid[k - 1] = rs[k]
  <2>1. /\ mid \in Seq(Extents) /\ Len(mid) = i - 1 + 0 + (Len(rs) - (i + 1) + 1)
        /\ \A k \in 1..(i - 1) : mid[k] = rs[k]
        /\ \A k \in (i + 1)..Len(rs) : mid[i - 1 + 0 + (k - (i + 1) + 1)] = rs[k]
    <3>1. Len(<<>>) = 0
      OBVIOUS
    <3> QED
      BY <1>1, <3>1, Zenon DEF Laid
  <2>2. \A k \in (i + 1)..Len(rs) : i - 1 + 0 + (k - (i + 1) + 1) = k - 1
    BY <1>0
  <2>3. Len(mid) = Len(rs) - 1
    BY <1>0, <2>1
  <2> QED
    BY <2>1, <2>2, <2>3
<1>3. ASSUME NEW n \in 1..Len(mid) PROVE mid[n] = IF n < i THEN rs[n] ELSE rs[n + 1]
  <2>1. CASE n < i
    <3>1. n \in 1..(i - 1)
      BY <2>1
    <3> QED
      BY <1>2, <2>1, <3>1
  <2>2. CASE ~(n < i)
    <3>1. n + 1 \in (i + 1)..Len(rs) /\ (n + 1) - 1 = n
      BY <1>0, <1>2, <2>2
    <3>2. mid[(n + 1) - 1] = rs[n + 1]
      BY <1>2, <3>1
    <3> QED
      BY <2>2, <3>1, <3>2
  <2> QED
    BY <2>1, <2>2
<1> QED
  BY <1>2, <1>3

(* The list after a move: the place found before the region was removed    *)
(* is still between the same two others.                                   *)
LEMMA MovedSlot ==
  ASSUME VmParameters, NEW rs, Listed(rs), NEW i \in 1..Len(rs), NEW j \in 0..Len(rs), i # j,
         NEW a \in Nat, NEW b \in Nat, Gap(rs, j, j + 1, a, b),
         NEW mid, mid = V!RemoveAt(rs, i), NEW p, p = IF i < j THEN j - 1 ELSE j
  PROVE  p \in 0..Len(mid) /\ Gap(mid, p, p + 1, a, b)
<1>0. rs \in Seq(Extents) /\ Len(rs) \in Nat
  BY DEF Listed
<1>1. mid \in Seq(Extents) /\ Len(mid) = Len(rs) - 1
  BY RemovedAt
<1>2. Len(mid) = Len(rs) - 1
  BY <1>1
<1>3. \A n \in 1..Len(mid) : mid[n] = IF n < i THEN rs[n] ELSE rs[n + 1]
  BY RemovedAt
<1>4. p \in 0..Len(mid)
  BY <1>0, <1>2
<1>5. ASSUME NEW n \in 1..p PROVE mid[n].end <= a
  <2>1. n \in 1..Len(mid)
    BY <1>0, <1>2, <1>4
  <2>2. CASE n < i
    <3>1. n \in 1..j
      BY <1>0, <2>2
    <3> QED
      BY <1>3, <2>1, <2>2, <3>1 DEF Gap
  <2>3. CASE ~(n < i)
    <3>1. n + 1 \in 1..j
      BY <1>0, <2>3
    <3>2. mid[n] = rs[n + 1]
      BY <1>3, <2>1, <2>3
    <3> QED
      BY <3>1, <3>2 DEF Gap
  <2> QED
    BY <2>2, <2>3
<1>6. ASSUME NEW n \in (p + 1)..Len(mid) PROVE b <= mid[n].start
  <2>1. n \in 1..Len(mid)
    BY <1>0, <1>2, <1>4
  <2>2. CASE n < i
    <3>1. n \in (j + 1)..Len(rs)
      BY <1>0, <1>2, <2>2
    <3> QED
      BY <1>3, <2>1, <2>2, <3>1 DEF Gap
  <2>3. CASE ~(n < i)
    <3>1. n + 1 \in (j + 1)..Len(rs)
      BY <1>0, <1>2, <2>3
    <3>2. mid[n] = rs[n + 1]
      BY <1>3, <2>1, <2>3
    <3> QED
      BY <3>1, <3>2 DEF Gap
  <2> QED
    BY <2>2, <2>3
<1> QED
  BY <1>4, <1>5, <1>6 DEF Gap

(* resize to something larger, at another place.                           *)
LEMMA MoveKeeps ==
  ASSUME VmParameters, VmInv, NEW i \in 1..Len(regions), NEW size \in V!Sizes, V!Move(i, size)
  PROVE  /\ VmInv'
         /\ \E a \in V!Addrs, p \in 0..Len(V!RemoveAt(regions, i)) :
              /\ Painted(V!RemoveAt(regions, i), regions, regions[i].start, regions[i].end, "free")
              /\ Painted(regions', V!RemoveAt(regions, i), a, a + size, regions[i].flags)
              /\ FreeIn(regions, a, a + size) /\ a + size \in V!Addrs
              /\ regions' = V!InsertAt(V!RemoveAt(regions, i), p + 1, V!Region(a, a + size, regions[i].flags))
              /\ Marked(pt', V!UnmapPages(pt, regions[i].start, regions[i].end - regions[i].start),
                        a, a + size, regions[i].flags)
              /\ Carried(pt', pt, regions[i].start, regions[i].end - regions[i].start, a)
<1> DEFINE lo == regions[i].start
           hi == regions[i].end
           g == regions[i].flags
           old == hi - lo
           mid == V!RemoveAt(regions, i)
           t1 == V!UnmapPages(pt, lo, old)
           Ins(k, a) == V!InsertAt(mid, k, V!Region(a, a + size, g))
<1>0. size \in Nat /\ size > 0 /\ size <= MaxSize /\ MaxSize \in Nat
  BY SizeFacts DEF VmParameters
<1>1. Listed(regions) /\ TableOk(regions, pt) /\ Table(pt) /\ Len(regions) \in Nat
  BY DEF VmInv, TableOk, Listed
<1>2. lo \in Nat /\ hi \in Nat /\ lo < hi /\ g \in Flags
  BY <1>1, Neighbours
<1>3. size > old /\ ~V!FitsInPlace(i, size)
  BY DEF V!Move, V!Size
<1>4. \E j \in 0..Len(regions) : \E a \in V!Addrs :
         /\ V!FindGap(size, j, a) /\ regions' = Ins(IF i < j THEN j ELSE j + 1, a)
         /\ pt' = V!Moved(regions[i], a, size)
  BY DEF V!Move
<1>5. PICK j \in 0..Len(regions) : \E a \in V!Addrs :
         /\ V!FindGap(size, j, a) /\ regions' = Ins(IF i < j THEN j ELSE j + 1, a)
         /\ pt' = V!Moved(regions[i], a, size)
  BY <1>4
<1>6. PICK a \in V!Addrs :
         /\ V!FindGap(size, j, a) /\ regions' = Ins(IF i < j THEN j ELSE j + 1, a)
         /\ pt' = V!Moved(regions[i], a, size)
  BY <1>5
<1> DEFINE b == a + size
           p == IF i < j THEN j - 1 ELSE j
<1>7. a \in Nat /\ b \in V!Addrs /\ Gap(regions, j, j + 1, a, b)
  BY <1>1, <1>6, GapFound
<1>8. b \in Nat /\ a < b /\ b <= a + MaxSize
  BY <1>0, <1>7
<1>9. i # j
  <2>1. CASE i = j
    <3> DEFINE k == i + 1
    <3>1. i < Len(regions) /\ ~(lo + size < regions[k].start)
      BY <1>3 DEF V!FitsInPlace
    <3>2. k \in 1..Len(regions)
      BY <1>1, <3>1
    <3>3. regions[k] \in Extents
      BY <1>1, <3>2 DEF Listed
    <3>4. regions[k].start \in Nat
      BY <3>3, ExtentFacts
    <3>5. k \in (j + 1)..Len(regions)
      BY <2>1, <3>2
    <3>6. b <= regions[k].start
      BY <1>7, <3>5 DEF Gap
    <3>7. hi <= a
      <4>1. i \in 1..j
        BY <2>1
      <4> QED
        BY <1>7, <4>1 DEF Gap
    <3> HIDE DEF lo, hi, k
    <3>8. lo + size < b
      BY <1>0, <1>2, <1>7, <3>7
    <3>9. lo + size < regions[k].start
      BY <1>0, <1>2, <1>8, <3>4, <3>6, <3>8
    <3> QED
      BY <3>1, <3>9
  <2> QED
    BY <2>1
<1>10. Listed(mid) /\ Painted(mid, regions, lo, hi, "free")
  BY <1>1, Removed
<1> HIDE DEF b
<1>11. p \in 0..Len(mid) /\ Gap(mid, p, p + 1, a, b)
  <2> HIDE DEF mid, p
  <2> QED
    BY <1>1, <1>7, <1>8, <1>9, MovedSlot DEF mid, p
<1>12. regions' = V!InsertAt(mid, p + 1, V!Region(a, b, g))
  <2>1. (IF i < j THEN j ELSE j + 1) = p + 1
    BY <1>1
  <2> HIDE DEF p, mid
  <2> QED
    BY <1>6, <2>1 DEF b
<1> HIDE DEF p, mid
<1>13. /\ Listed(regions') /\ Painted(regions', mid, a, b, g)
  BY <1>2, <1>7, <1>8, <1>10, <1>11, <1>12, Inserted DEF g
<1>14. FreeIn(regions, a, b)
  BY <1>1, <1>7, <1>8, Between DEF FreeIn
<1>15. old \in Nat /\ lo + old = hi
  <2> HIDE DEF lo, hi
  <2> QED
    BY <1>2
<1>16. Marked(pt', t1, a, b, g) /\ Carried(pt', pt, lo, old, a)
  <2>1. Marked(V!Moved(regions[i], a, size), t1, a, b, g) /\ Carried(V!Moved(regions[i], a, size), pt, lo, old, a)
    BY <1>0, <1>3, <1>7, <1>14, <1>15, MovedTable DEF b
  <2> QED
    BY <1>6, <2>1
<1>17. Marked(t1, pt, lo, hi, "none")
  <2>1. Marked(t1, pt, lo, lo + old, "none")
    BY <1>1, <1>2, <1>15, TableCalls
  <2> QED
    BY <1>15, <2>1
<1> HIDE DEF t1
<1>18. TableOk(mid, t1)
  <2>1. "none" = Shown("free")
    BY DEF Shown
  <2> QED
    BY <1>1, <1>10, <1>17, <2>1, PaintTable
<1>19. TableOk(regions', pt')
  <2>1. g = Shown(g)
    BY <1>2 DEF Shown, VmParameters
  <2> QED
    BY <1>13, <1>16, <1>18, <2>1, PaintTable
<1>20. VmInv'
  BY <1>13, <1>19 DEF VmInv
<1> QED
  BY <1>7, <1>10, <1>11, <1>12, <1>13, <1>14, <1>16, <1>20 DEF b, mid, t1

-----------------------------------------------------------------------------
(* An empty list and an empty page table agree.                            *)
LEMMA VmInitInv ==
  ASSUME VmParameters, V!Init
  PROVE  VmInv
<1>1. regions = <<>> /\ pt = [a \in V!Addrs |-> V!Absent]
  BY DEF V!Init
<1>2. Listed(<<>>)
  BY DEF Listed, InOrder
<1>3. \A x : Access(<<>>, x) = "free"
  BY DEF Access
<1>4. TableOk(<<>>, [a \in V!Addrs |-> V!Absent])
  BY <1>3 DEF TableOk, Table, Entry, Shown, V!Absent
<1> QED
  BY <1>1, <1>2, <1>4 DEF VmInv

(* Every call keeps the invariant.                                         *)
LEMMA VmStepInv ==
  ASSUME VmParameters, VmInv, [V!Next]_(V!vars)
  PROVE  VmInv'
<1>1. CASE UNCHANGED V!vars
  <2>1. regions' = regions /\ pt' = pt
    BY <1>1 DEF V!vars
  <2> QED
    BY <2>1 DEF VmInv
<1>2. ASSUME NEW size \in V!Sizes, NEW f \in Flags,
             V!Alloc(size, f) \/ V!AllocForeign(size, f) \/ V!AllocCopy(size, f)
      PROVE  VmInv'
  <2>1. V!Panic("memset") \/ V!Panic("flags") \/ V!AllocGap(size, f) \/ V!AllocForeign(size, f)
    BY <1>2 DEF V!Alloc, V!AllocCopy
  <2> QED
    BY <2>1, PanicKeeps, AllocGapKeeps
<1>3. ASSUME NEW size \in V!Sizes, NEW a \in 0..(NumAddrs - 1), V!AllocAt(a, size)
      PROVE  VmInv'
  BY <1>3, AllocAtKeeps
<1>4. ASSUME NEW i \in 1..Len(regions), V!FreeRegion(i)
      PROVE  VmInv'
  BY <1>4, FreeRegionKeeps
<1>5. ASSUME NEW i \in 1..Len(regions), NEW size \in V!Sizes,
             V!Shrink(i, size) \/ V!Grow(i, size) \/ V!Move(i, size)
      PROVE  VmInv'
  BY <1>5, ShrinkKeeps, GrowKeeps, MoveKeeps
<1>6. ASSUME NEW i \in 1..Len(regions), NEW size \in V!Sizes, NEW a \in V!Addrs, V!UnmapRange(i, a, size)
      PROVE  VmInv'
  BY <1>6, UnmapRangeKeeps
<1>7. ASSUME NEW i \in 1..Len(regions), NEW size \in V!Sizes, NEW a \in V!Addrs, NEW f \in Flags,
             V!SetRegionFlags(i, a, size, f)
      PROVE  VmInv'
  BY <1>7, SetFlagsKeeps
<1> QED
  BY <1>1, <1>2, <1>3, <1>4, <1>5, <1>6, <1>7 DEF V!Next

(* What the invariant says of the list and of the table.                   *)
LEMMA VmInvExact ==
  ASSUME VmParameters, VmInv
  PROVE  RegionsExact
<1>0. Len(regions) \in Nat /\ Listed(regions)
  BY DEF VmInv, Listed
<1>1. V!Sorted
  <2>1. ASSUME NEW i \in 1..Len(regions) PROVE regions[i].start < regions[i].end
    BY <1>0, Neighbours
  <2>2. ASSUME NEW i \in 1..(Len(regions) - 1) PROVE regions[i].end <= regions[i + 1].start
    <3>1. i \in 1..Len(regions) /\ i + 1 \in 1..Len(regions) /\ i < i + 1
      BY <1>0
    <3> QED
      BY <1>0, <3>1 DEF Listed, InOrder
  <2> QED
    BY <2>1, <2>2 DEF V!Sorted
<1>2. ASSUME NEW x \in V!Addrs PROVE pt[x].flags = V!FlagsAt(x)
  <2>1. pt[x].flags = Shown(Access(regions, x))
    BY DEF VmInv, TableOk
  <2>2. x \in Nat
    BY DEF V!Addrs, VmParameters
  <2>3. CASE \E k \in 1..Len(regions) : Covers(regions[k], x)
    <3>1. PICK k \in 1..Len(regions) : Covers(regions[k], x)
      BY <2>3
    <3>2. Has(regions, regions[k])
      BY DEF Has
    <3>3. Access(regions, x) = regions[k].flags
      BY <1>0, <2>2, <3>1, <3>2, Owner
    <3>4. Access(regions, x) = V!FlagsAt(x)
      BY <2>3 DEF Access, V!FlagsAt, V!Holds, Covers
    <3>5. Access(regions, x) # "free"
      BY <1>0, <3>3, Neighbours DEF VmParameters
    <3> QED
      BY <2>1, <3>4, <3>5 DEF Shown
  <2>4. CASE ~\E k \in 1..Len(regions) : Covers(regions[k], x)
    <3>1. Access(regions, x) = "free"
      BY <2>4 DEF Access
    <3>2. V!FlagsAt(x) = "none"
      BY <2>4 DEF V!FlagsAt, V!Holds, Covers
    <3> QED
      BY <2>1, <3>1, <3>2 DEF Shown
  <2> QED
    BY <2>3, <2>4
<1> QED
  BY <1>1, <1>2 DEF RegionsExact, V!TableExact

(* Through every sequence of calls the list of regions stays sorted and    *)
(* disjoint, the page table gives every page of a region the access of the *)
(* region, and every other page is absent.                                 *)
THEOREM RegionsStayExact ==
  ASSUME VmParameters
  PROVE  V!Spec => []RegionsExact
<1>1. V!Init => VmInv
  BY VmInitInv
<1>2. VmInv /\ [V!Next]_(V!vars) => VmInv'
  BY VmStepInv
<1>3. VmInv => RegionsExact
  BY VmInvExact
<1> QED
  BY <1>1, <1>2, <1>3, PTL DEF V!Spec

-----------------------------------------------------------------------------
(* The address space that the list stands for, as Vm maps it.              *)
Sp == [a \in V!Addrs |->
         IF \E i \in 1..Len(regions) : V!Holds(i, a)
           THEN regions[CHOOSE i \in 1..Len(regions) : V!Holds(i, a)].flags
           ELSE "free"]

(* The mapped address space, page by page, before and after a step.        *)
LEMMA SpAccess ==
  ASSUME NEW x \in V!Addrs
  PROVE  Sp[x] = Access(regions, x) /\ Sp'[x] = Access(regions', x)
<1>1. Sp[x] = Access(regions, x)
  BY DEF Sp, Access, V!Holds, Covers
<1>2. Sp'[x] = Access(regions', x)
  BY DEF Sp, Access, V!Holds, Covers
<1> QED
  BY <1>1, <1>2

(* The operators of AddressSpace, as they read here.                       *)
SpRange(a, n) == {x \in V!Addrs : a <= x /\ x < a + n}
SpSet(S, f) == [x \in V!Addrs |-> IF x \in S THEN f ELSE Sp[x]]
SpWas(S, f) == \A x \in S : Sp[x] = f

(* They mean the same.                                                     *)
LEMMA SpaceReads ==
  ASSUME NEW S, NEW f, NEW a, NEW n
  PROVE  /\ V!Space!Range(a, n) = SpRange(a, n)
         /\ V!Space!Set(S, f) = SpSet(S, f)
         /\ V!Space!Was(S, f) <=> SpWas(S, f)
<1>1. V!Space!Range(a, n) = SpRange(a, n)
  BY Zenon DEF V!Space!Range, SpRange
<1>2. V!Space!Set(S, f) = SpSet(S, f)
  BY Zenon DEF V!Space!Set, SpSet, Sp
<1>3. V!Space!Was(S, f) <=> SpWas(S, f)
  BY Zenon DEF V!Space!Was, SpWas, Sp
<1> QED
  BY <1>1, <1>2, <1>3

(* An address space begins empty.                                          *)
LEMMA SpaceInit ==
  ASSUME VmParameters, V!Init
  PROVE  V!Space!Init
<1>1. regions = <<>> /\ call = V!Call("none", 0, 0, "none")
  BY DEF V!Init
<1> QED
  BY <1>1 DEF V!Space!Init, V!Space!Free, V!Call

(* Two functions that agree are equal.                                     *)
LEMMA Agree ==
  ASSUME NEW D, NEW F, NEW G, F = [x \in D |-> F[x]], G = [x \in D |-> G[x]],
         \A x \in D : F[x] = G[x]
  PROVE  F = G
  OBVIOUS

(* What the range of a call is painted with, in the address space.         *)
LEMMA SpacePainted ==
  ASSUME VmParameters, NEW a \in Nat, NEW n \in Nat, NEW f, Painted(regions', regions, a, a + n, f)
  PROVE  Sp' = SpSet(SpRange(a, n), f)
<1>1. V!Addrs \subseteq Nat
  BY DEF V!Addrs, VmParameters
<1> DEFINE S == SpSet(SpRange(a, n), f)
<1>2. ASSUME NEW x \in V!Addrs PROVE Sp'[x] = S[x]
  <2>1. Access(regions', x) = IF a <= x /\ x < a + n THEN f ELSE Access(regions, x)
    BY <1>1 DEF Painted
  <2>2. S[x] = IF a <= x /\ x < a + n THEN f ELSE Sp[x]
    BY DEF SpSet, SpRange
  <2> QED
    BY <2>1, <2>2, SpAccess
<1>3. Sp' = [x \in V!Addrs |-> Sp'[x]]
  BY DEF Sp
<1>4. S = [x \in V!Addrs |-> S[x]]
  BY DEF SpSet
<1> HIDE DEF S
<1>5. \A x \in V!Addrs : Sp'[x] = S[x]
  BY <1>2
<1> QED
  BY <1>3, <1>4, <1>5, Agree DEF S

(* The calls of AddressSpace: vm_alloc, vm_phys_map and vm_virt_map.       *)
LEMMA SpaceMap ==
  ASSUME VmParameters, NEW size \in V!Sizes, NEW f \in Flags, NEW a \in V!Addrs,
         Painted(regions', regions, a, a + size, f), FreeIn(regions, a, a + size),
         call' = V!Call("map", 0, size, f)
  PROVE  V!Space!Map
<1>0. a \in Nat /\ size \in Nat /\ V!Addrs \subseteq Nat
  BY SizeFacts DEF V!Addrs, VmParameters
<1>1. Sp' = SpSet(SpRange(a, size), f)
  BY <1>0, SpacePainted
<1>2. SpWas(SpRange(a, size), "free")
  BY <1>0, SpAccess DEF SpWas, SpRange, FreeIn
<1>3. call'.op = "map" /\ call'.size = size /\ call'.flags = f
  BY DEF V!Call
<1>4. V!Space!Was(V!Space!Range(a, call'.size), "free")
  BY <1>2, <1>3, SpaceReads
<1>5. Sp' = V!Space!Set(V!Space!Range(a, call'.size), call'.flags)
  BY <1>1, <1>3, SpaceReads
<1> QED
  BY <1>3, <1>4, <1>5 DEF V!Space!Map, V!Space!Free, Sp

(* vm_alloc_at.                                                            *)
LEMMA SpaceMapAt ==
  ASSUME VmParameters, NEW size \in V!Sizes, NEW a \in V!Addrs,
         Painted(regions', regions, a, a + size, "rw"), FreeIn(regions, a, a + size),
         call' = V!Call("map_at", a, size, "rw")
  PROVE  V!Space!MapAt
<1>0. a \in Nat /\ size \in Nat /\ V!Addrs \subseteq Nat
  BY SizeFacts DEF V!Addrs, VmParameters
<1>1. Sp' = SpSet(SpRange(a, size), "rw")
  BY <1>0, SpacePainted
<1>2. SpWas(SpRange(a, size), "free")
  BY <1>0, SpAccess DEF SpWas, SpRange, FreeIn
<1>3. call'.op = "map_at" /\ call'.at = a /\ call'.size = size /\ call'.flags = "rw"
  BY DEF V!Call
<1>4. V!Space!Asked = SpRange(a, size)
  BY <1>3, SpaceReads DEF V!Space!Asked
<1>5. V!Space!Was(V!Space!Asked, "free") /\ Sp' = V!Space!Set(V!Space!Asked, call'.flags)
  BY <1>1, <1>2, <1>3, <1>4, SpaceReads
<1> QED
  BY <1>3, <1>5 DEF V!Space!MapAt, V!Space!Free, Sp

(* vm_set_flags and vm_unmap: the range is in one region.                  *)
LEMMA SpaceChange ==
  ASSUME VmParameters, Listed(regions), NEW i \in 1..Len(regions), NEW size \in V!Sizes,
         NEW a \in V!Addrs, NEW f, NEW o,
         V!Holds(i, a), a + size <= regions[i].end,
         \/ o = "protect" /\ Painted(regions', regions, a, a + size, f) /\ call' = V!Call(o, a, size, f)
         \/ o = "unmap" /\ Painted(regions', regions, a, a + size, "free") /\ call' = V!Call(o, a, size, f)
  PROVE  V!Space!Next
<1>0. a \in Nat /\ size \in Nat /\ V!Addrs \subseteq Nat
  BY SizeFacts DEF V!Addrs, VmParameters
<1>1. call'.op = o /\ call'.at = a /\ call'.size = size /\ call'.flags = f
  BY DEF V!Call
<1>2. V!Space!Asked = SpRange(a, size)
  BY <1>1, SpaceReads DEF V!Space!Asked
<1>3. ASSUME NEW x \in SpRange(a, size) PROVE Sp[x] # "free"
  <2>1. x \in V!Addrs /\ x \in Nat /\ a <= x /\ x < a + size
    BY <1>0 DEF SpRange
  <2>2. regions[i].start \in Nat /\ regions[i].end \in Nat /\ regions[i].flags \in Flags
    BY Neighbours
  <2>3. regions[i].start <= x /\ x < regions[i].end
    BY <1>0, <2>1, <2>2 DEF V!Holds
  <2>4. Access(regions, x) = regions[i].flags
    BY <2>1, <2>3, Neighbours
  <2> QED
    BY <2>1, <2>2, <2>4, SpAccess DEF VmParameters
<1>4. CASE o = "protect" /\ Painted(regions', regions, a, a + size, f)
  <2>1. Sp' = SpSet(SpRange(a, size), f)
    BY <1>0, <1>4, SpacePainted
  <2>2. Sp' = V!Space!Set(V!Space!Asked, call'.flags)
    BY <1>1, <1>2, <2>1, SpaceReads
  <2>3. \A x \in V!Space!Asked : Sp[x] # "free"
    BY <1>2, <1>3
  <2>4. V!Space!Protect
    BY <1>1, <1>4, <2>2, <2>3 DEF V!Space!Protect, V!Space!Free, Sp
  <2> QED
    BY <2>4 DEF V!Space!Next
<1>5. CASE o = "unmap" /\ Painted(regions', regions, a, a + size, "free")
  <2>1. Sp' = SpSet(SpRange(a, size), "free")
    BY <1>0, <1>5, SpacePainted
  <2>2. Sp' = V!Space!Set(V!Space!Asked, "free")
    BY <1>2, <2>1, SpaceReads
  <2>3. \A x \in V!Space!Asked : Sp[x] # "free"
    BY <1>2, <1>3
  <2>4. V!Space!Unmap
    BY <1>1, <1>5, <2>2, <2>3 DEF V!Space!Unmap, V!Space!Free, Sp
  <2> QED
    BY <2>4 DEF V!Space!Next
<1> QED
  BY <1>4, <1>5

(* vm_resize and vm_free: n pages at lo are given up for m pages at b.     *)
Given(lo, n, g) == \A x \in Nat : lo <= x /\ x < lo + n => Access(regions, x) = g
Taking(lo, n, b, m) ==
  \A x \in Nat : b <= x /\ x < b + m /\ ~(lo <= x /\ x < lo + n) => Access(regions, x) = "free"
Elsewhere(lo, n, b, m) == \A x \in Nat : ~(b <= x /\ x < b + m /\ lo <= x /\ x < lo + n)
Resulting(rs, lo, n, b, m, g) ==
  \A x \in Nat : Access(rs, x) = IF b <= x /\ x < b + m THEN g
                                 ELSE IF lo <= x /\ x < lo + n THEN "free" ELSE Access(regions, x)

(* Such a step is a Resize.                                                *)
LEMMA SpaceResize ==
  ASSUME VmParameters, NEW lo \in V!Addrs, NEW n \in V!Sizes, NEW b \in V!Addrs, NEW m, NEW g \in Flags, NEW o,
         o \in {"resize", "free"}, call' = V!Call(o, lo, m, "none"),
         Given(lo, n, g), Taking(lo, n, b, m), b = lo \/ Elsewhere(lo, n, b, m),
         Resulting(regions', lo, n, b, m, g)
  PROVE  V!Space!Next
<1> DEFINE old == SpRange(lo, n)
           new == SpRange(b, m)
           res == [x \in V!Addrs |-> IF x \in new THEN g ELSE IF x \in old THEN "free" ELSE Sp[x]]
<1>0. V!Addrs \subseteq Nat
  BY DEF V!Addrs, VmParameters
<1>1. call'.op = o /\ call'.at = lo /\ call'.size = m
  BY DEF V!Call
<1>2. V!Space!Range(call'.at, n) = old /\ V!Space!Range(b, call'.size) = new
  BY <1>1, SpaceReads
<1>3. SpWas(old, g)
  BY <1>0, SpAccess DEF SpWas, SpRange, Given
<1>4. SpWas(new \ old, "free")
  <2>1. ASSUME NEW x \in new \ old PROVE Sp[x] = "free"
    <3>1. x \in V!Addrs /\ x \in Nat /\ b <= x /\ x < b + m /\ ~(lo <= x /\ x < lo + n)
      BY <1>0, <2>1 DEF SpRange
    <3> QED
      BY <3>1, SpAccess DEF Taking
  <2> QED
    BY <2>1 DEF SpWas
<1>5. b = lo \/ new \cap old = {}
  <2>1. CASE Elsewhere(lo, n, b, m)
    BY <1>0, <2>1 DEF Elsewhere, SpRange
  <2> QED
    BY <2>1
<1>6. Sp' = res
  <2>1. ASSUME NEW x \in V!Addrs PROVE Sp'[x] = res[x]
    <3>1. Access(regions', x) = IF b <= x /\ x < b + m THEN g
                                ELSE IF lo <= x /\ x < lo + n THEN "free" ELSE Access(regions, x)
      BY <1>0 DEF Resulting
    <3>2. res[x] = IF b <= x /\ x < b + m THEN g
                   ELSE IF lo <= x /\ x < lo + n THEN "free" ELSE Sp[x]
      BY DEF SpRange
    <3> HIDE DEF res
    <3> QED
      BY <3>1, <3>2, SpAccess
  <2>2. Sp' = [x \in V!Addrs |-> Sp'[x]]
    BY DEF Sp
  <2>3. res = [x \in V!Addrs |-> res[x]]
    OBVIOUS
  <2>4. \A x \in V!Addrs : Sp'[x] = res[x]
    BY <2>1
  <2> HIDE DEF res
  <2> QED
    BY <2>2, <2>3, <2>4, Agree
<1> HIDE DEF old, new
<1>7. /\ V!Space!Was(old, g) /\ V!Space!Was(new \ old, "free")
      /\ b = call'.at \/ new \cap old = {}
      /\ call'.op \in {"resize", "free"}
  BY <1>1, <1>3, <1>4, <1>5, SpaceReads
<1>8. V!Space!Resize
  <2> DEFINE From(k) == V!Space!Range(call'.at, k)
             To(c) == V!Space!Range(c, call'.size)
             After(k, c, f) == [x \in V!Addrs |-> IF x \in To(c) THEN f ELSE IF x \in From(k) THEN "free" ELSE Sp[x]]
             Good(k, c, f) == /\ V!Space!Was(From(k), f) /\ V!Space!Was(To(c) \ From(k), "free")
                              /\ c = call'.at \/ To(c) \cap From(k) = {}
                              /\ Sp' = After(k, c, f)
  <2>1. From(n) = old /\ To(b) = new
    BY <1>2
  <2>2. After(n, b, g) = res
    BY <2>1, Zenon
  <2> HIDE DEF From, To, After
  <2>3. Good(n, b, g)
    BY <1>6, <1>7, <2>1, <2>2, Zenon
  <2>4. \E k \in V!Sizes : \E c \in V!Addrs : \E f \in Flags : Good(k, c, f)
    BY <2>3, Zenon
  <2> QED
    BY <1>7, <2>4, Zenon DEF V!Space!Resize, V!Space!Free, Sp, From, To, After
<1> QED
  BY <1>8 DEF V!Space!Next

-----------------------------------------------------------------------------
Still == regions' = regions /\ call' = call

(* The region that is resized or freed.                                    *)
LEMMA Resizing ==
  ASSUME VmParameters, Listed(regions), NEW i \in 1..Len(regions),
         NEW lo, lo = regions[i].start, NEW hi, hi = regions[i].end, NEW n, n = hi - lo
  PROVE  /\ lo \in V!Addrs /\ lo \in Nat /\ hi \in Nat /\ lo < hi /\ n \in V!Sizes /\ n \in Nat /\ lo + n = hi
         /\ regions[i].flags \in Flags /\ Given(lo, n, regions[i].flags)
<1>1. lo \in Nat /\ hi \in Nat /\ lo < hi /\ hi <= lo + MaxSize /\ hi \in V!Addrs /\ regions[i].flags \in Flags
  BY Neighbours
<1>2. n \in Nat /\ lo + n = hi /\ n \in 1..MaxSize /\ lo <= hi
  <2>1. \A x, y, z \in Nat : y < x /\ x <= y + z => x - y \in Nat /\ y + (x - y) = x /\ x - y \in 1..z /\ y <= x
    OBVIOUS
  <2>2. MaxSize \in Nat
    BY DEF VmParameters
  <2> QED
    BY <1>1, <2>1, <2>2
<1>3. lo \in V!Addrs /\ n \in V!Sizes
  BY <1>1, <1>2, BelowAddrs DEF V!Sizes
<1>4. Given(lo, n, regions[i].flags)
  BY <1>2, Neighbours DEF Given
<1> QED
  BY <1>1, <1>2, <1>3, <1>4

(* vm_free, as a step of AddressSpace.                                     *)
LEMMA FreeStep ==
  ASSUME VmParameters, VmInv, NEW i \in 1..Len(regions), V!FreeRegion(i)
  PROVE  V!Space!Next \/ Still
<1> DEFINE lo == regions[i].start
           hi == regions[i].end
           n == hi - lo
           g == regions[i].flags
<1>1. Listed(regions)
  BY DEF VmInv
<1>2. lo \in V!Addrs /\ lo \in Nat /\ n \in V!Sizes /\ n \in Nat /\ lo + n = hi /\ g \in Flags /\ Given(lo, n, g)
  BY <1>1, Resizing
<1>3. Still \/ (Painted(regions', regions, lo, hi, "free") /\ call' = V!Call("free", lo, 0, "none"))
  BY FreeRegionKeeps DEF Still
<1> HIDE DEF lo, hi, n, g
<1>4. CASE Painted(regions', regions, lo, hi, "free") /\ call' = V!Call("free", lo, 0, "none")
  <2>1. \A x \in Nat : ~(lo <= x /\ x < lo + 0)
    BY <1>2
  <2>2. Taking(lo, n, lo, 0) /\ Resulting(regions', lo, n, lo, 0, g)
    BY <1>2, <1>4, <2>1 DEF Taking, Resulting, Painted
  <2> QED
    BY <1>2, <1>4, <2>2, SpaceResize
<1> QED
  BY <1>3, <1>4

(* A resize to less, as a step of AddressSpace.                            *)
LEMMA ShrinkStep ==
  ASSUME VmParameters, VmInv, NEW i \in 1..Len(regions), NEW size \in V!Sizes, V!Shrink(i, size)
  PROVE  V!Space!Next \/ Still
<1> DEFINE lo == regions[i].start
           hi == regions[i].end
           n == hi - lo
           g == regions[i].flags
           e == lo + size
<1>0. size \in Nat
  BY SizeFacts
<1>1. Listed(regions)
  BY DEF VmInv
<1>2. /\ lo \in V!Addrs /\ lo \in Nat /\ n \in V!Sizes /\ n \in Nat /\ lo + n = hi /\ hi \in Nat
      /\ g \in Flags /\ Given(lo, n, g)
  BY <1>1, Resizing
<1>3. Still \/ (Painted(regions', regions, e, hi, "free") /\ e < hi /\ call' = V!Call("resize", lo, size, "none"))
  BY ShrinkKeeps DEF Still
<1> HIDE DEF lo, hi, n, g
<1>4. CASE Painted(regions', regions, e, hi, "free") /\ e < hi /\ call' = V!Call("resize", lo, size, "none")
  <2>0. e \in Nat /\ e < hi /\ lo <= e
    BY <1>0, <1>2, <1>4
  <2>1. ASSUME NEW x \in Nat
        PROVE  Access(regions', x) = IF lo <= x /\ x < e THEN g
                                     ELSE IF lo <= x /\ x < hi THEN "free" ELSE Access(regions, x)
    <3>1. Access(regions', x) = IF e <= x /\ x < hi THEN "free" ELSE Access(regions, x)
      BY <1>4 DEF Painted
    <3>2. lo <= x /\ x < hi => Access(regions, x) = g
      BY <1>2 DEF Given
    <3> HIDE DEF e
    <3> QED
      BY <1>2, <2>0, <3>1, <3>2
  <2>2. Resulting(regions', lo, n, lo, size, g)
    BY <1>2, <2>1 DEF Resulting
  <2>3. ASSUME NEW x \in Nat, lo <= x /\ x < lo + size PROVE lo <= x /\ x < lo + n
    <3>1. x < e
      BY <2>3
    <3> HIDE DEF e
    <3> QED
      BY <1>2, <2>0, <2>3, <3>1
  <2>4. Taking(lo, n, lo, size)
    BY <2>3 DEF Taking
  <2> QED
    BY <1>2, <1>4, <2>2, <2>4, SpaceResize
<1> QED
  BY <1>3, <1>4

(* A resize in place, as a step of AddressSpace.                           *)
LEMMA GrowStep ==
  ASSUME VmParameters, VmInv, NEW i \in 1..Len(regions), NEW size \in V!Sizes, V!Grow(i, size)
  PROVE  V!Space!Next
<1> DEFINE lo == regions[i].start
           hi == regions[i].end
           n == hi - lo
           g == regions[i].flags
           e == lo + size
<1>0. size \in Nat /\ call' = V!Call("resize", lo, size, "none")
  BY SizeFacts DEF V!Grow, V!Return
<1>1. Listed(regions)
  BY DEF VmInv
<1>2. /\ lo \in V!Addrs /\ lo \in Nat /\ n \in V!Sizes /\ n \in Nat /\ lo + n = hi /\ hi \in Nat
      /\ g \in Flags /\ Given(lo, n, g)
  BY <1>1, Resizing
<1>3. Painted(regions', regions, hi, e, g) /\ hi < e /\ FreeIn(regions, hi, e)
  BY GrowKeeps
<1> HIDE DEF lo, hi, n, g
<1>4. e \in Nat /\ lo <= hi
  BY <1>0, <1>2
<1>5. ASSUME NEW x \in Nat
      PROVE  Access(regions', x) = IF lo <= x /\ x < e THEN g
                                   ELSE IF lo <= x /\ x < hi THEN "free" ELSE Access(regions, x)
  <2>1. Access(regions', x) = IF hi <= x /\ x < e THEN g ELSE Access(regions, x)
    BY <1>3 DEF Painted
  <2>2. lo <= x /\ x < hi => Access(regions, x) = g
    BY <1>2 DEF Given
  <2>3. hi < e
    BY <1>3
  <2> HIDE DEF e
  <2> QED
    BY <1>2, <1>4, <2>1, <2>2, <2>3
<1>6. Resulting(regions', lo, n, lo, size, g)
  BY <1>2, <1>5 DEF Resulting
<1>7. Taking(lo, n, lo, size)
  <2>1. ASSUME NEW x \in Nat, lo <= x /\ x < lo + size, ~(lo <= x /\ x < lo + n) PROVE Access(regions, x) = "free"
    <3>1. hi <= x /\ x < e
      BY <1>2, <2>1
    <3> QED
      BY <1>3, <3>1 DEF FreeIn
  <2> QED
    BY <2>1 DEF Taking
<1> QED
  BY <1>0, <1>2, <1>6, <1>7, SpaceResize

(* A resize with a move, as a step of AddressSpace.                        *)
LEMMA MoveStep ==
  ASSUME VmParameters, VmInv, NEW i \in 1..Len(regions), NEW size \in V!Sizes, V!Move(i, size)
  PROVE  V!Space!Next
<1> DEFINE lo == regions[i].start
           hi == regions[i].end
           n == hi - lo
           g == regions[i].flags
           mid == V!RemoveAt(regions, i)
<1>0. size \in Nat /\ call' = V!Call("resize", lo, size, "none")
  BY SizeFacts DEF V!Move, V!Return
<1>1. Listed(regions)
  BY DEF VmInv
<1>2. /\ lo \in V!Addrs /\ lo \in Nat /\ n \in V!Sizes /\ n \in Nat /\ lo + n = hi /\ hi \in Nat
      /\ g \in Flags /\ Given(lo, n, g)
  BY <1>1, Resizing
<1>3. PICK a \in V!Addrs : /\ Painted(mid, regions, lo, hi, "free") /\ Painted(regions', mid, a, a + size, g)
                           /\ FreeIn(regions, a, a + size)
  BY MoveKeeps
<1> HIDE DEF lo, hi, n, g, mid
<1>4. ASSUME NEW x \in Nat
      PROVE  Access(regions', x) = IF a <= x /\ x < a + size THEN g
                                   ELSE IF lo <= x /\ x < hi THEN "free" ELSE Access(regions, x)
  <2>1. Access(mid, x) = IF lo <= x /\ x < hi THEN "free" ELSE Access(regions, x)
    BY <1>3 DEF Painted
  <2>2. Access(regions', x) = IF a <= x /\ x < a + size THEN g ELSE Access(mid, x)
    BY <1>3 DEF Painted
  <2> QED
    BY <2>1, <2>2
<1>5. Resulting(regions', lo, n, a, size, g)
  BY <1>2, <1>4 DEF Resulting
<1>6. Taking(lo, n, a, size)
  BY <1>3 DEF Taking, FreeIn
<1>7. Elsewhere(lo, n, a, size)
  <2>1. ASSUME NEW x \in Nat, a <= x /\ x < a + size, lo <= x /\ x < lo + n PROVE FALSE
    <3>1. Access(regions, x) = "free"
      BY <1>3, <2>1 DEF FreeIn
    <3>2. Access(regions, x) = g
      BY <1>2, <2>1 DEF Given
    <3> QED
      BY <1>2, <3>1, <3>2 DEF VmParameters
  <2> QED
    BY <2>1 DEF Elsewhere
<1> QED
  BY <1>0, <1>2, <1>5, <1>6, <1>7, SpaceResize

(* Every step is one of AddressSpace, or leaves the address space alone.   *)
LEMMA SpaceStep ==
  ASSUME VmParameters, VmInv, V!Next
  PROVE  V!Space!Next \/ Still
<1>0. Listed(regions) /\ V!Addrs \subseteq Nat /\ NumAddrs \in Nat /\ MaxSize \in Nat
  BY DEF VmInv, V!Addrs, VmParameters
<1>1. ASSUME NEW what, V!Panic(what) PROVE Still
  BY <1>1 DEF V!Panic, Still
<1>2. ASSUME NEW size \in V!Sizes, NEW f \in Flags,
             V!Alloc(size, f) \/ V!AllocForeign(size, f) \/ V!AllocCopy(size, f)
      PROVE  V!Space!Next \/ Still
  <2>1. V!Panic("memset") \/ V!Panic("flags") \/ V!AllocGap(size, f) \/ V!AllocForeign(size, f)
    BY <1>2 DEF V!Alloc, V!AllocCopy
  <2>2. CASE V!AllocGap(size, f) \/ V!AllocForeign(size, f)
    <3>1. call' = V!Call("map", 0, size, f)
      BY <2>2 DEF V!AllocGap, V!AllocForeign, V!Return
    <3>2. PICK a \in V!Addrs : Painted(regions', regions, a, a + size, f) /\ FreeIn(regions, a, a + size)
      BY <2>2, AllocGapKeeps
    <3>3. V!Space!Map
      BY <3>1, <3>2, SpaceMap
    <3> QED
      BY <3>3 DEF V!Space!Next
  <2> QED
    BY <1>1, <2>1, <2>2
<1>3. ASSUME NEW size \in V!Sizes, NEW a \in 0..(NumAddrs - 1), V!AllocAt(a, size)
      PROVE  V!Space!Next \/ Still
  <2>1. a \in V!Addrs
    BY <1>0 DEF V!Addrs
  <2>2. \/ Still
        \/ /\ Painted(regions', regions, a, a + size, "rw") /\ FreeIn(regions, a, a + size)
           /\ call' = V!Call("map_at", a, size, "rw")
    BY <1>3, AllocAtKeeps DEF Still
  <2> QED
    BY <2>1, <2>2, SpaceMapAt DEF V!Space!Next
<1>4. ASSUME NEW i \in 1..Len(regions), V!FreeRegion(i)
      PROVE  V!Space!Next \/ Still
  BY <1>4, FreeStep
<1>5. ASSUME NEW i \in 1..Len(regions), NEW size \in V!Sizes,
             V!Shrink(i, size) \/ V!Grow(i, size) \/ V!Move(i, size)
      PROVE  V!Space!Next \/ Still
  BY <1>5, ShrinkStep, GrowStep, MoveStep
<1>6. ASSUME NEW i \in 1..Len(regions), NEW size \in V!Sizes, NEW a \in V!Addrs, V!UnmapRange(i, a, size)
      PROVE  V!Space!Next \/ Still
  <2>1. V!Holds(i, a) /\ a + size <= regions[i].end
    BY <1>6 DEF V!UnmapRange
  <2>2. \/ Still
        \/ Painted(regions', regions, a, a + size, "free") /\ call' = V!Call("unmap", a, size, "none")
    BY <1>6, UnmapRangeKeeps DEF Still
  <2> QED
    BY <1>0, <2>1, <2>2, SpaceChange
<1>7. ASSUME NEW i \in 1..Len(regions), NEW size \in V!Sizes, NEW a \in V!Addrs, NEW f \in Flags,
             V!SetRegionFlags(i, a, size, f)
      PROVE  V!Space!Next \/ Still
  <2>1. V!Holds(i, a) /\ a + size <= regions[i].end /\ call' = V!Call("protect", a, size, f)
    BY <1>7 DEF V!SetRegionFlags, V!Return
  <2>2. Painted(regions', regions, a, a + size, f)
    BY <1>7, SetFlagsKeeps
  <2> QED
    BY <1>0, <2>1, <2>2, SpaceChange
<1> QED
  BY <1>2, <1>3, <1>4, <1>5, <1>6, <1>7 DEF V!Next

(* Every call does to the address space what its arguments say and nothing *)
(* else: the list implements AddressSpace.                                 *)
THEOREM RegionsImplementSpace ==
  ASSUME VmParameters
  PROVE  V!Spec => V!ImplementsAddressSpace
<1>1. V!Init => VmInv /\ V!Space!Init
  BY VmInitInv, SpaceInit
<1>2. VmInv /\ [V!Next]_(V!vars) => VmInv'
  BY VmStepInv
<1>3. VmInv /\ [V!Next]_(V!vars) => [V!Space!Next]_<<Sp, call>>
  <2>1. SUFFICES ASSUME VmInv, [V!Next]_(V!vars) PROVE V!Space!Next \/ (Sp' = Sp /\ call' = call)
    OBVIOUS
  <2>2. V!Space!Next \/ Still
    BY <2>1, SpaceStep DEF V!vars, Still
  <2>3. Still => Sp' = Sp /\ call' = call
    BY DEF Still, Sp, V!Holds
  <2> QED
    BY <2>2, <2>3
<1> QED
  BY <1>1, <1>2, <1>3, PTL DEF V!Spec, V!ImplementsAddressSpace, V!Space!Spec, Sp

-----------------------------------------------------------------------------
(* A list with a region more.                                              *)
LEMMA InsertedAt ==
  ASSUME VmParameters, NEW rs \in Seq(Extents), NEW p \in 0..Len(rs), NEW r \in Extents,
         NEW q, q = V!InsertAt(rs, p + 1, r)
  PROVE  /\ q \in Seq(Extents) /\ Len(q) = Len(rs) + 1 /\ q[p + 1] = r
         /\ \A k \in 1..Len(rs) : rs[k] = IF k < p + 1 THEN q[k] ELSE q[k + 1]
<1>0. Len(rs) \in Nat
  OBVIOUS
<1>1. q = Joint(rs, p, <<r>>, p + 1)
  <2>1. (p + 1) - 1 = p
    OBVIOUS
  <2> QED
    BY <2>1, Zenon DEF V!InsertAt, Joint
<1>2. <<r>> \in Seq(Extents) /\ p + 1 \in 1..(Len(rs) + 1)
  BY <1>0
<1>3. Laid(q, rs, p, <<r>>, p + 1)
  BY <1>1, <1>2, JointLaid
<1>4. Len(<<r>>) = 1 /\ <<r>>[1] = r /\ 1 \in 1..1
  OBVIOUS
<1>5. /\ q \in Seq(Extents) /\ Len(q) = p + 1 + (Len(rs) - (p + 1) + 1)
      /\ \A k \in 1..p : q[k] = rs[k]
      /\ q[p + 1] = r
      /\ \A k \in (p + 1)..Len(rs) : q[p + 1 + (k - (p + 1) + 1)] = rs[k]
  BY <1>3, <1>4, Zenon DEF Laid
<1>6. Len(q) = Len(rs) + 1
  BY <1>0, <1>5
<1>7. ASSUME NEW k \in 1..Len(rs) PROVE rs[k] = IF k < p + 1 THEN q[k] ELSE q[k + 1]
  <2>1. CASE k < p + 1
    <3>1. k \in 1..p
      BY <2>1
    <3> QED
      BY <1>5, <2>1, <3>1
  <2>2. CASE ~(k < p + 1)
    <3>1. k \in (p + 1)..Len(rs) /\ p + 1 + (k - (p + 1) + 1) = k + 1
      BY <1>0, <2>2
    <3>2. q[p + 1 + (k - (p + 1) + 1)] = rs[k]
      BY <1>5, <3>1
    <3> QED
      BY <2>2, <3>1, <3>2
  <2> QED
    BY <2>1, <2>2
<1> QED
  BY <1>5, <1>6, <1>7

(* Two lists of regions that agree are equal.                              *)
LEMMA SameList ==
  ASSUME NEW u \in Seq(Extents), NEW v \in Seq(Extents), Len(u) = Len(v), \A k \in 1..Len(u) : u[k] = v[k]
  PROVE  u = v
<1>1. u = [k \in 1..Len(u) |-> u[k]] /\ v = [k \in 1..Len(u) |-> v[k]]
  OBVIOUS
<1> QED
  BY <1>1, Agree

(* The pages that are taken are those of some access.                      *)
LEMMA TakenAccess ==
  ASSUME VmParameters, Listed(regions), NEW x \in V!Addrs
  PROVE  x \in V!Taken <=> Access(regions, x) # "free"
<1>0. x \in Nat
  BY DEF V!Addrs, VmParameters
<1>1. x \in V!Taken <=> \E k \in 1..Len(regions) : Covers(regions[k], x)
  BY DEF V!Taken, V!Holds, Covers
<1>2. CASE \E k \in 1..Len(regions) : Covers(regions[k], x)
  <2>1. PICK k \in 1..Len(regions) : Covers(regions[k], x)
    BY <1>2
  <2>2. Access(regions, x) = regions[k].flags /\ regions[k].flags \in Flags
    BY <1>0, <2>1, Neighbours DEF Covers
  <2> QED
    BY <1>1, <1>2, <2>2 DEF VmParameters
<1>3. CASE ~\E k \in 1..Len(regions) : Covers(regions[k], x)
  BY <1>1, <1>3 DEF Access
<1> QED
  BY <1>2, <1>3

(* The same after a step.                                                  *)
LEMMA TakenAccessNext ==
  ASSUME VmParameters, Listed(regions'), NEW x \in V!Addrs, x \in V!Taken'
  PROVE  Access(regions', x) # "free"
<1>0. x \in Nat
  BY DEF V!Addrs, VmParameters
<1>1. PICK k \in 1..Len(regions') : Covers(regions'[k], x)
  BY DEF V!Taken, V!Holds, Covers
<1>2. Access(regions', x) = regions'[k].flags /\ regions'[k].flags \in Flags
  BY <1>0, <1>1, Neighbours DEF Covers
<1> QED
  BY <1>2 DEF VmParameters

(* Only a call that takes more pages, with as many regions, is a resize.   *)
LEMMA NotResized ==
  ASSUME VmParameters, VmInv, VmInv',
         \/ Len(regions') # Len(regions)
         \/ \A x \in V!Addrs : Access(regions, x) = "free" => Access(regions', x) = "free"
  PROVE  ~V!Resized
<1>1. CASE Len(regions') # Len(regions)
  BY <1>1 DEF V!Resized
<1>2. CASE \A x \in V!Addrs : Access(regions, x) = "free" => Access(regions', x) = "free"
  <2> DEFINE S == V!Taken
             T == V!Taken'
  <2>1. S \subseteq V!Addrs /\ T \subseteq V!Addrs
    BY DEF V!Taken
  <2>2. T \subseteq S
    <3>1. ASSUME NEW x \in T PROVE x \in S
      <4>1. x \in V!Addrs
        BY <2>1
      <4>2. Access(regions', x) # "free"
        BY <4>1, TakenAccessNext DEF VmInv
      <4> QED
        BY <1>2, <4>1, <4>2, TakenAccess DEF VmInv
    <3> QED
      BY <3>1
  <2>3. IsFiniteSet(V!Addrs)
    <3>1. 0 \in Int /\ NumAddrs + MaxSize \in Int
      BY DEF VmParameters
    <3> QED
      BY <3>1, FS_Interval DEF V!Addrs
  <2>4. V!Resized => V!Cardinality(T) > V!Cardinality(S)
    BY DEF V!Resized
  <2> HIDE DEF S, T
  <2>5. IsFiniteSet(S)
    BY <2>1, <2>3, FS_Subset
  <2>6. IsFiniteSet(T) /\ Cardinality(T) <= Cardinality(S)
    BY <2>2, <2>5, FS_Subset
  <2>7. Cardinality(S) \in Nat /\ Cardinality(T) \in Nat
    BY <2>5, <2>6, FS_CardinalityType
  <2>8. V!Cardinality(S) = Cardinality(S)
    BY DEF V!Cardinality, Cardinality, V!IsFiniteSet, IsFiniteSet
  <2>9. V!Cardinality(T) = Cardinality(T)
    BY DEF V!Cardinality, Cardinality, V!IsFiniteSet, IsFiniteSet
  <2>10. ~(Cardinality(T) > Cardinality(S))
    BY <2>6, <2>7
  <2> QED
    BY <2>4, <2>8, <2>9, <2>10
<1> QED
  BY <1>1, <1>2

(* What KeepsPages says of a step.                                         *)
PagesKept ==
  \E i, j \in 1..Len(regions) :
    /\ V!RemoveAt(regions, i) = V!RemoveAt(regions', j)
    /\ \A k \in 0..(V!Size(i) - 1) : pt'[regions'[j].start + k] = pt[regions[i].start + k]
    /\ \A a \in V!Taken \ V!PagesOf(regions[i].start, V!Size(i)) : pt'[a] = pt[a]

(* A region that grows in place keeps its pages.                           *)
LEMMA GrowKeepsPages ==
  ASSUME VmParameters, VmInv, VmInv', NEW i \in 1..Len(regions), NEW size \in V!Sizes, V!Grow(i, size)
  PROVE  PagesKept
<1> DEFINE lo == regions[i].start
           hi == regions[i].end
           n == hi - lo
           e == lo + size
           mid == V!RemoveAt(regions, i)
           mid2 == V!RemoveAt(regions', i)
<1>0. Listed(regions) /\ Listed(regions') /\ regions \in Seq(Extents) /\ Len(regions) \in Nat
  BY DEF VmInv, Listed
<1>1. lo \in Nat /\ hi \in Nat /\ lo < hi /\ n \in Nat /\ lo + n = hi /\ V!Size(i) = n /\ hi \in V!Addrs
  BY <1>0, Resizing, Neighbours DEF V!Size
<1>2. FreeIn(regions, hi, e) /\ Marked(pt', pt, hi, e, regions[i].flags)
  BY GrowKeeps
<1>3. regions' = [regions EXCEPT ![i].end = e]
  BY DEF V!Grow
<1>4. /\ Len(regions') = Len(regions) /\ regions'[i].start = lo
      /\ \A k \in 1..Len(regions) : k # i => regions'[k] = regions[k]
  <2>1. regions[i] \in [start : Nat, end : V!Addrs, flags : Flags]
    BY <1>0 DEF Extents
  <2> HIDE DEF e
  <2> DEFINE v == [regions[i] EXCEPT !.end = e]
  <2>2. v.start = lo
    BY <2>1
  <2>3. regions' = [regions EXCEPT ![i] = v]
    BY <1>3
  <2> HIDE DEF v, lo
  <2>4. Len(regions') = Len(regions)
    BY <1>0, <2>3
  <2>5. regions'[i] = v /\ \A k \in 1..Len(regions) : k # i => regions'[k] = regions[k]
    BY <1>0, <2>3
  <2> QED
    BY <2>2, <2>4, <2>5
<1>5. mid = mid2
  <2>1. /\ mid \in Seq(Extents) /\ Len(mid) = Len(regions) - 1
        /\ \A k \in 1..Len(mid) : mid[k] = IF k < i THEN regions[k] ELSE regions[k + 1]
    BY <1>0, RemovedAt
  <2>2. i \in 1..Len(regions')
    BY <1>4
  <2>3. /\ mid2 \in Seq(Extents) /\ Len(mid2) = Len(regions') - 1
        /\ \A k \in 1..Len(mid2) : mid2[k] = IF k < i THEN regions'[k] ELSE regions'[k + 1]
    BY <1>0, <2>2, RemovedAt
  <2> HIDE DEF mid, mid2
  <2>4. Len(mid) = Len(mid2)
    BY <1>4, <2>1, <2>3
  <2>5. ASSUME NEW k \in 1..Len(mid) PROVE mid[k] = mid2[k]
    <3>1. CASE k < i
      <4>1. k \in 1..Len(regions) /\ k # i
        BY <1>0, <3>1
      <4> QED
        BY <1>4, <2>1, <2>3, <2>4, <3>1, <4>1
    <3>2. CASE ~(k < i)
      <4>1. k + 1 \in 1..Len(regions) /\ k + 1 # i
        BY <1>0, <2>1, <3>2
      <4>2. regions'[k + 1] = regions[k + 1]
        BY <1>4, <4>1
      <4> QED
        BY <2>1, <2>3, <2>4, <3>2, <4>2
    <3> QED
      BY <3>1, <3>2
  <2> QED
    BY <2>1, <2>3, <2>4, <2>5, SameList
<1> HIDE DEF lo, hi, n, e, mid, mid2
<1>6. ASSUME NEW k \in 0..(n - 1) PROVE pt'[lo + k] = pt[lo + k]
  <2>1. lo + k \in Nat /\ lo + k < hi /\ lo + k <= hi
    BY <1>1
  <2>2. lo + k \in V!Addrs /\ ~(hi <= lo + k /\ lo + k < e)
    BY <1>1, <2>1, BelowAddrs
  <2> QED
    BY <1>2, <2>2 DEF Marked
<1>7. ASSUME NEW a \in V!Taken \ V!PagesOf(lo, n) PROVE pt'[a] = pt[a]
  <2>1. a \in V!Addrs /\ a \in V!Taken
    BY DEF V!Taken
  <2>2. Access(regions, a) # "free" /\ a \in Nat
    BY <1>0, <2>1, TakenAccess DEF V!Addrs, VmParameters
  <2>3. ~(hi <= a /\ a < e)
    BY <1>2, <2>2 DEF FreeIn
  <2> QED
    BY <1>2, <2>1, <2>3 DEF Marked
<1>8. /\ V!RemoveAt(regions, i) = V!RemoveAt(regions', i)
      /\ \A k \in 0..(V!Size(i) - 1) : pt'[regions'[i].start + k] = pt[regions[i].start + k]
      /\ \A a \in V!Taken \ V!PagesOf(regions[i].start, V!Size(i)) : pt'[a] = pt[a]
  <2>1. V!RemoveAt(regions, i) = V!RemoveAt(regions', i)
    BY <1>5 DEF mid, mid2
  <2>2. \A k \in 0..(V!Size(i) - 1) : pt'[regions'[i].start + k] = pt[regions[i].start + k]
    BY <1>1, <1>4, <1>6 DEF lo
  <2>3. \A a \in V!Taken \ V!PagesOf(regions[i].start, V!Size(i)) : pt'[a] = pt[a]
    BY <1>1, <1>7 DEF lo
  <2> QED
    BY <2>1, <2>2, <2>3
<1> QED
  BY <1>8, Zenon DEF PagesKept

(* A region that moves takes its pages along.                              *)
LEMMA MoveKeepsPages ==
  ASSUME VmParameters, VmInv, VmInv', NEW i \in 1..Len(regions), NEW size \in V!Sizes, V!Move(i, size)
  PROVE  PagesKept
<1> DEFINE lo == regions[i].start
           hi == regions[i].end
           n == hi - lo
           g == regions[i].flags
           mid == V!RemoveAt(regions, i)
           t1 == V!UnmapPages(pt, lo, n)
<1>0. Listed(regions) /\ Listed(regions') /\ Len(regions) \in Nat /\ Table(pt)
  BY DEF VmInv, Listed, TableOk
<1>1. lo \in Nat /\ hi \in Nat /\ lo < hi /\ n \in Nat /\ lo + n = hi /\ V!Size(i) = n /\ hi \in V!Addrs /\ g \in Flags
  BY <1>0, Resizing, Neighbours DEF V!Size
<1>2. size \in Nat /\ size > 0 /\ size <= MaxSize /\ size > n /\ MaxSize \in Nat
  BY SizeFacts DEF V!Move, V!Size, VmParameters
<1> DEFINE To(a, p) == /\ FreeIn(regions, a, a + size) /\ a + size \in V!Addrs
                       /\ regions' = V!InsertAt(mid, p + 1, V!Region(a, a + size, g))
                       /\ Marked(pt', t1, a, a + size, g)
                       /\ Carried(pt', pt, lo, n, a)
<1>3. \E a \in V!Addrs : \E p \in 0..Len(mid) : To(a, p)
  BY MoveKeeps
<1>4. PICK a \in V!Addrs : \E p \in 0..Len(mid) : To(a, p)
  BY <1>3
<1>5. PICK p \in 0..Len(mid) : To(a, p)
  BY <1>4
<1> DEFINE j == p + 1
           r == V!Region(a, a + size, g)
           mid2 == V!RemoveAt(regions', j)
<1>6. mid \in Seq(Extents) /\ Len(mid) = Len(regions) - 1
  BY <1>0, RemovedAt
<1>7. a \in Nat /\ r.start = a /\ a < a + size /\ a + size <= a + MaxSize
  BY <1>2 DEF V!Region, V!Addrs, VmParameters
<1>8. r \in Extents
  BY <1>1, <1>5, <1>7, RegionExtent
<1> HIDE DEF lo, hi, n, g, mid, t1, r
<1>9. /\ Len(regions') = Len(mid) + 1 /\ regions'[j] = r
      /\ \A k \in 1..Len(mid) : mid[k] = IF k < j THEN regions'[k] ELSE regions'[k + 1]
  BY <1>5, <1>6, <1>8, InsertedAt DEF r
<1>10. Len(mid) \in Nat /\ j \in 1..Len(regions') /\ j \in 1..Len(regions)
  BY <1>0, <1>6, <1>9
<1> HIDE DEF j
<1>11. mid = mid2
  <2>1. /\ mid2 \in Seq(Extents) /\ Len(mid2) = Len(regions') - 1
        /\ \A k \in 1..Len(mid2) : mid2[k] = IF k < j THEN regions'[k] ELSE regions'[k + 1]
    BY <1>0, <1>10, RemovedAt
  <2> HIDE DEF mid2
  <2>2. Len(mid) = Len(mid2)
    BY <1>9, <1>10, <2>1
  <2>3. \A k \in 1..Len(mid) : mid[k] = mid2[k]
    BY <1>9, <2>1, <2>2
  <2> QED
    BY <1>6, <2>1, <2>2, <2>3, SameList
<1>12. ASSUME NEW k \in 0..(n - 1) PROVE pt'[a + k] = pt[lo + k]
  <2>1. a + k \in Nat /\ a <= a + k /\ a + k < a + n /\ a + k <= a + size /\ (a + k) - a + lo = lo + k
    <3>1. k \in Nat /\ k < n
      BY <1>1
    <3>2. a + k \in Nat /\ a <= a + k /\ a + k < a + n
      BY <1>1, <1>7, <3>1
    <3>3. a + k <= a + size
      BY <1>1, <1>2, <1>7, <3>1
    <3>4. (a + k) - a + lo = lo + k
      BY <1>1, <1>7, <3>1
    <3> QED
      BY <3>2, <3>3, <3>4
  <2>2. a + k \in V!Addrs
    BY <1>5, <2>1, BelowAddrs
  <2>3. pt'[a + k] = pt[(a + k) - a + lo]
    <3> DEFINE y == a + k
    <3>1. Carried(pt', pt, lo, n, a) /\ y \in V!Addrs /\ a <= y /\ y < a + n
      BY <1>5, <2>1, <2>2
    <3> HIDE DEF y
    <3>2. pt'[y] = pt[y - a + lo]
      BY <3>1 DEF Carried
    <3> QED
      BY <3>2 DEF y
  <2> QED
    BY <2>1, <2>3
<1>13. Marked(t1, pt, lo, lo + n, "none")
  BY <1>0, <1>1, TableCalls DEF t1
<1>14. ASSUME NEW x \in V!Taken \ V!PagesOf(lo, n) PROVE pt'[x] = pt[x]
  <2>1. x \in V!Addrs /\ x \in V!Taken
    BY DEF V!Taken
  <2>2. Access(regions, x) # "free" /\ x \in Nat
    BY <1>0, <2>1, TakenAccess DEF V!Addrs, VmParameters
  <2>3. ~(a <= x /\ x < a + size)
    BY <1>5, <2>2 DEF FreeIn
  <2>4. ~(lo <= x /\ x < lo + n)
    BY <1>1, <2>1, InRange
  <2>5. pt'[x] = t1[x]
    BY <1>5, <2>1, <2>3 DEF Marked
  <2>6. t1[x] = pt[x]
    BY <1>13, <2>1, <2>4 DEF Marked
  <2> QED
    BY <2>5, <2>6
<1>15. /\ V!RemoveAt(regions, i) = V!RemoveAt(regions', j)
       /\ \A k \in 0..(V!Size(i) - 1) : pt'[regions'[j].start + k] = pt[regions[i].start + k]
       /\ \A x \in V!Taken \ V!PagesOf(regions[i].start, V!Size(i)) : pt'[x] = pt[x]
  <2>1. V!RemoveAt(regions, i) = V!RemoveAt(regions', j)
    BY <1>11 DEF mid
  <2>2. \A k \in 0..(V!Size(i) - 1) : pt'[regions'[j].start + k] = pt[regions[i].start + k]
    BY <1>1, <1>7, <1>9, <1>12 DEF lo
  <2>3. \A x \in V!Taken \ V!PagesOf(regions[i].start, V!Size(i)) : pt'[x] = pt[x]
    BY <1>1, <1>14 DEF lo
  <2> QED
    BY <2>1, <2>2, <2>3
<1> QED
  BY <1>10, <1>15, Zenon DEF PagesKept

(* A new region is one more.                                               *)
LEMMA AllocLonger ==
  ASSUME VmParameters, VmInv, NEW size \in V!Sizes, NEW f \in Flags, V!AllocGap(size, f) \/ V!AllocForeign(size, f)
  PROVE  Len(regions') # Len(regions)
<1>0. Listed(regions) /\ regions \in Seq(Extents) /\ Len(regions) \in Nat
  BY DEF VmInv, Listed
<1> DEFINE To(i, a) == V!FindGap(size, i, a) /\ regions' = V!InsertAt(regions, i + 1, V!Region(a, a + size, f))
<1>1. \E i \in 0..Len(regions) : \E a \in V!Addrs : To(i, a)
  BY DEF V!AllocGap, V!AllocForeign
<1>2. PICK i \in 0..Len(regions) : \E a \in V!Addrs : To(i, a)
  BY <1>1
<1>3. PICK a \in V!Addrs : To(i, a)
  BY <1>2
<1>4. a \in Nat /\ a + size \in V!Addrs
  BY <1>0, <1>3, GapFound
<1>5. a < a + size /\ a + size <= a + MaxSize
  BY <1>4, SizeFacts DEF VmParameters
<1>6. V!Region(a, a + size, f) \in Extents
  BY <1>4, <1>5, RegionExtent
<1> DEFINE r == V!Region(a, a + size, f)
<1>8. regions' = V!InsertAt(regions, i + 1, r) /\ r \in Extents
  BY <1>3, <1>6
<1> HIDE DEF r
<1>7. Len(regions') = Len(regions) + 1
  BY <1>0, <1>8, InsertedAt
<1> QED
  BY <1>0, <1>7

(* alloc_at, unless an assertion fails.                                    *)
LEMMA AllocAtLonger ==
  ASSUME VmParameters, VmInv, NEW size \in V!Sizes, NEW a \in 0..(NumAddrs - 1), V!AllocAt(a, size),
         regions' # regions
  PROVE  Len(regions') # Len(regions)
<1> DEFINE i == V!Cardinality(V!Before(a))
           r == V!Region(a, a + size, "rw")
           present == {x \in V!PagesOf(a, size) : V!Present(x)}
<1>0. regions \in Seq(Extents) /\ Len(regions) \in Nat
  BY DEF VmInv, Listed
<1>1. size \in Nat /\ size > 0 /\ size <= MaxSize /\ MaxSize \in Nat /\ NumAddrs \in Nat /\ a \in Nat /\ "rw" \in Flags
  BY SizeFacts DEF VmParameters
<1>2. regions' = V!InsertAt(regions, i + 1, r) /\ a + size <= NumAddrs
  <2>1. ~V!Panic("map") /\ ~V!Panic("insert")
    BY DEF V!Panic
  <2>2. CASE present # {}
    BY <2>1, <2>2 DEF V!AllocAt
  <2>3. CASE present = {} /\ ~V!InsertOk(i, r)
    BY <2>1, <2>3 DEF V!AllocAt
  <2>4. CASE present = {} /\ V!InsertOk(i, r)
    BY <2>4 DEF V!AllocAt
  <2> QED
    BY <2>2, <2>3, <2>4
<1>3. i \in 0..Len(regions)
  BY <1>0, BeforeCount
<1>4. a + size \in V!Addrs /\ a < a + size /\ a + size <= a + MaxSize
  BY <1>1, <1>2 DEF V!Addrs
<1>5. r \in Extents
  BY <1>1, <1>4, RegionExtent
<1> HIDE DEF i, r
<1>6. Len(regions') = Len(regions) + 1
  BY <1>0, <1>2, <1>3, <1>5, InsertedAt
<1> QED
  BY <1>0, <1>6

(* Of a step: whatever is not a resize to more pages does not look like one. *)
LEMMA KeepStep ==
  ASSUME VmParameters, VmInv, VmInv', V!Next
  PROVE  V!Resized => PagesKept
<1>0. Listed(regions) /\ V!Addrs \subseteq Nat
  BY DEF VmInv, V!Addrs, VmParameters
<1> DEFINE Fewer == \A x \in V!Addrs : Access(regions, x) = "free" => Access(regions', x) = "free"
<1>1. ASSUME regions' = regions PROVE ~V!Resized
  <2>1. Fewer
    BY <1>1
  <2> QED
    BY <2>1, NotResized
<1>2. ASSUME NEW a, NEW b, Painted(regions', regions, a, b, "free") PROVE ~V!Resized
  <2>1. Fewer
    BY <1>0, <1>2 DEF Painted
  <2> QED
    BY <2>1, NotResized
<1>3. ASSUME NEW size \in V!Sizes, NEW f \in Flags,
             V!Alloc(size, f) \/ V!AllocForeign(size, f) \/ V!AllocCopy(size, f)
      PROVE  ~V!Resized
  <2>1. V!Panic("memset") \/ V!Panic("flags") \/ V!AllocGap(size, f) \/ V!AllocForeign(size, f)
    BY <1>3 DEF V!Alloc, V!AllocCopy
  <2>2. CASE V!Panic("memset") \/ V!Panic("flags")
    BY <1>1, <2>2 DEF V!Panic
  <2>3. CASE V!AllocGap(size, f) \/ V!AllocForeign(size, f)
    BY <2>3, AllocLonger, NotResized
  <2> QED
    BY <2>1, <2>2, <2>3
<1>4. ASSUME NEW size \in V!Sizes, NEW a \in 0..(NumAddrs - 1), V!AllocAt(a, size)
      PROVE  ~V!Resized
  BY <1>1, <1>4, AllocAtLonger, NotResized
<1>5. ASSUME NEW i \in 1..Len(regions), V!FreeRegion(i)
      PROVE  ~V!Resized
  BY <1>1, <1>2, <1>5, FreeRegionKeeps
<1>6. ASSUME NEW i \in 1..Len(regions), NEW size \in V!Sizes, V!Shrink(i, size)
      PROVE  ~V!Resized
  BY <1>1, <1>2, <1>6, ShrinkKeeps
<1>7. ASSUME NEW i \in 1..Len(regions), NEW size \in V!Sizes, V!Grow(i, size) \/ V!Move(i, size)
      PROVE  PagesKept
  BY <1>7, GrowKeepsPages, MoveKeepsPages
<1>8. ASSUME NEW i \in 1..Len(regions), NEW size \in V!Sizes, NEW a \in V!Addrs, V!UnmapRange(i, a, size)
      PROVE  ~V!Resized
  BY <1>1, <1>2, <1>8, UnmapRangeKeeps
<1>9. ASSUME NEW i \in 1..Len(regions), NEW size \in V!Sizes, NEW a \in V!Addrs, NEW f \in Flags,
             V!SetRegionFlags(i, a, size, f)
      PROVE  ~V!Resized
  <2>1. Painted(regions', regions, a, a + size, f)
    BY <1>9, SetFlagsKeeps
  <2>2. V!Holds(i, a) /\ a + size <= regions[i].end
    BY <1>9 DEF V!SetRegionFlags
  <2>3. ASSUME NEW x \in V!Addrs, Access(regions, x) = "free" PROVE Access(regions', x) = "free"
    <3>1. x \in Nat /\ a \in Nat /\ size \in Nat
      BY <1>0, SizeFacts
    <3>2. regions[i].start \in Nat /\ regions[i].end \in Nat /\ regions[i].flags \in Flags
      BY <1>0, Neighbours
    <3>3. ~(regions[i].start <= x /\ x < regions[i].end)
      BY <1>0, <2>3, <3>1, <3>2, Neighbours DEF VmParameters
    <3>4. ~(a <= x /\ x < a + size)
      BY <2>2, <3>1, <3>2, <3>3 DEF V!Holds
    <3> QED
      BY <2>1, <2>3, <3>1, <3>4 DEF Painted
  <2> QED
    BY <2>3, NotResized
<1> QED
  BY <1>3, <1>4, <1>5, <1>6, <1>7, <1>8, <1>9 DEF V!Next

(* The list and the page table implement the address space of              *)
(* AddressSpace, and a region that krealloc makes larger keeps its pages,  *)
(* in their order, where it is or at another place.                        *)
THEOREM AddressSpaceImplemented ==
  ASSUME VmParameters
  PROVE  V!Spec => ImplementsAddressSpace
<1>1. V!Init => VmInv
  BY VmInitInv
<1>2. VmInv /\ [V!Next]_(V!vars) => VmInv'
  BY VmStepInv
<1>3. VmInv /\ VmInv' /\ [V!Next]_(V!vars) => [V!Resized => PagesKept]_(V!vars)
  BY KeepStep
<1>4. V!Spec => [][V!Resized => PagesKept]_(V!vars)
  BY <1>1, <1>2, <1>3, PTL DEF V!Spec
<1>5. V!Spec => V!KeepsPages
  BY <1>4 DEF V!KeepsPages, PagesKept
<1> QED
  BY <1>5, RegionsImplementSpace, PTL DEF ImplementsAddressSpace

-----------------------------------------------------------------------------
(***************************************************************************)
(* Physical pages and the page tables that refer to them, for any number   *)
(* of pages, tables, entries and address spaces.                           *)
(***************************************************************************)

Entries == [page : PhysPages \cup {NoPage, Beyond}, shared : BOOLEAN]

(* The shape of the page tables, and what the three calls of page.c keep.  *)
TablesTyped ==
  /\ live \subseteq Vms
  /\ table \in [Vms -> [Tables -> PhysPages \cup {NoPage}]]
  /\ entry \in [Vms -> [Addrs -> Entries]]
  /\ op \in [Vms -> Ops]
PagesTyped ==
  /\ refs \in [PhysPages -> 0..MaxRef] /\ free \subseteq PhysPages /\ stats \in Int
  /\ BitmapExact

(* Nothing is mapped from a page on.                                       *)
Blank(v, from) == \A a \in Addrs : a >= from => ~Present(v, a)

(* How far each operation has come: what it has mapped or unmapped of its  *)
(* range, and what it is going to map is absent.                           *)
MapKinds == {"anon", "phys", "copy"}
MapOk(v) ==
  op[v].kind \in MapKinds =>
    /\ v \in live /\ op[v].first \in Addrs /\ op[v].last \in Addrs
    /\ op[v].first <= op[v].next /\ op[v].next <= op[v].last + 1
    /\ \A a \in Addrs : op[v].first <= a /\ a < op[v].next => Present(v, a)
    /\ \A a \in Addrs : op[v].next <= a /\ a <= op[v].last => ~Present(v, a)
    /\ op[v].kind # "anon" => op[v].arg.page # NoPage
UnmapOk(v) ==
  op[v].kind = "unmap" =>
    /\ v \in live /\ op[v].first \in Addrs /\ op[v].last <= LastAddr
    /\ op[v].first <= op[v].next /\ op[v].next <= op[v].last + 1
    /\ \A a \in Addrs : op[v].first <= a /\ a < op[v].next => ~Present(v, a)
CloneOk(v) ==
  op[v].kind = "clone" /\ v \notin live => op[v].last = LastAddr /\ Blank(v, op[v].next)
DestroyOk(v) == op[v].kind = "destroy" => v \notin live /\ op[v].last = LastAddr
TablesOk(v) ==
  op[v].kind = "tables" => v \notin live /\ op[v].last = NumTables - 1 /\ Blank(v, 0)
IdleOk(v) == op[v].kind = "idle" /\ v \notin live => Blank(v, 0)
CallOk(v) == MapOk(v) /\ UnmapOk(v) /\ CloneOk(v) /\ DestroyOk(v) /\ TablesOk(v) /\ IdleOk(v)

PagesInv ==
  /\ TablesTyped /\ PagesTyped /\ astray \in [PhysPages -> Int]
  /\ RefsExact
  /\ \A v \in Vms : CallOk(v)

(* Pages are numbers from 0 to LastAddr, in one of the tables each, and    *)
(* every set that is counted is finite.                                    *)
LEMMA AddrFacts ==
  /\ LastAddr \in Int /\ NumTables \in Nat /\ MaxRef \in Nat /\ MaxRef > 1
  /\ \A a : a \in Addrs <=> a \in Nat /\ a <= LastAddr
  /\ \A a \in Addrs : TableOf(a) \in Tables
  /\ IsFiniteSet(PhysPages) /\ IsFiniteSet(Addrs) /\ IsFiniteSet(Tables)
  /\ IsFiniteSet(Vms \X Addrs) /\ IsFiniteSet(Vms \X Tables)
  /\ NoPage \notin PhysPages /\ Beyond \notin PhysPages
<1>0. NumTables \in Nat /\ NumEntries \in Nat /\ NumEntries > 0 /\ NumPages \in Nat /\ MaxRef \in Nat
        /\ MaxRef > 1
  BY SizesAssumption
<1>1. LastAddr \in Int
  BY <1>0 DEF LastAddr
<1>2. \A a : a \in Addrs <=> a \in Nat /\ a <= LastAddr
  BY <1>1 DEF Addrs
<1>3. ASSUME NEW a \in Addrs
      PROVE  TableOf(a) \in Tables
  <2>1. a \in Nat /\ a < NumTables * NumEntries
    BY <1>0, <1>2 DEF LastAddr
  <2> DEFINE q == a \div NumEntries
  <2>2. q \in Int /\ q * NumEntries <= a /\ a < (q + 1) * NumEntries
    BY <1>0, <2>1
  <2> HIDE DEF q
  <2>3. q >= 0
    <3>1. ~(q + 1 <= 0)
      <4>1. ASSUME q + 1 <= 0
            PROVE  (q + 1) * NumEntries <= 0
        BY <4>1, <2>2, <1>0
      <4> QED
        BY <4>1, <2>1, <2>2, <1>0
    <3> QED
      BY <3>1, <2>2
  <2>4. q < NumTables
    <3>1. ASSUME q >= NumTables
          PROVE  q * NumEntries >= NumTables * NumEntries
      BY <3>1, <2>2, <1>0
    <3> QED
      BY <3>1, <2>1, <2>2, <1>0
  <2> QED
    BY <1>0, <2>2, <2>3, <2>4 DEF q, TableOf, Tables
<1>4. IsFiniteSet(PhysPages) /\ IsFiniteSet(Addrs) /\ IsFiniteSet(Tables)
  BY <1>0, <1>1, FS_Interval DEF PhysPages, Addrs, Tables
<1>5. IsFiniteSet(Vms \X Addrs) /\ IsFiniteSet(Vms \X Tables)
  BY <1>4, VmsAssumption, FS_Product
<1>6. NoPage \notin PhysPages /\ Beyond \notin PhysPages
  BY <1>0 DEF NoPage, Beyond, PhysPages
<1> QED
  BY <1>0, <1>1, <1>2, <1>3, <1>4, <1>5, <1>6

(* Adding and taking away one element of a finite set.                     *)
One(b) == IF b THEN 1 ELSE 0
LEMMA OneElement ==
  ASSUME NEW S, NEW T, NEW x, NEW b \in BOOLEAN, IsFiniteSet(S),
         \A y : y \in T <=> (y \in S /\ y # x) \/ (y = x /\ b)
  PROVE  /\ Cardinality(S) \in Nat /\ Cardinality(T) \in Nat
         /\ Cardinality(T) = Cardinality(S) - One(x \in S) + One(b)
<1>1. /\ IsFiniteSet(S \ {x}) /\ Cardinality(S) \in Nat
      /\ Cardinality(S \ {x}) = IF x \in S THEN Cardinality(S) - 1 ELSE Cardinality(S)
  BY FS_RemoveElement, FS_CardinalityType
<1>2. x \notin S \ {x}
  OBVIOUS
<1>3. CASE b
  <2>1. T = (S \ {x}) \cup {x}
    BY <1>3
  <2>2. IsFiniteSet(T) /\ Cardinality(T) = Cardinality(S \ {x}) + 1
    BY <1>1, <1>2, <2>1, FS_AddElement
  <2> QED
    BY <1>1, <1>3, <2>2, FS_CardinalityType DEF One
<1>4. CASE ~b
  <2>1. T = S \ {x}
    BY <1>4
  <2> QED
    BY <1>1, <1>4, <2>1, FS_CardinalityType DEF One
<1> QED
  BY <1>3, <1>4

(* A finite set and a part of it taken away.                               *)
LEMMA PartAway ==
  ASSUME NEW S, NEW T, NEW U, IsFiniteSet(S), T \subseteq S, U = S \ T
  PROVE  /\ Cardinality(S) \in Nat /\ Cardinality(U) \in Nat /\ Cardinality(T) \in Nat
         /\ Cardinality(S) = Cardinality(U) + Cardinality(T)
<1>1. S \cap T = T /\ IsFiniteSet(T)
  BY FS_Subset
<1>2. IsFiniteSet(S \ T) /\ Cardinality(S \ T) = Cardinality(S) - Cardinality(S \cap T)
  BY FS_Difference
<1>3. Cardinality(S) \in Nat /\ Cardinality(T) \in Nat /\ Cardinality(S \ T) \in Nat
  BY <1>1, <1>2, FS_CardinalityType
<1> QED
  BY <1>1, <1>2, <1>3

(* The pairs of one address space are as many as its pages.                *)
LEMMA RowCount ==
  ASSUME NEW v, NEW R, IsFiniteSet(R)
  PROVE  IsFiniteSet({v} \X R) /\ Cardinality({v} \X R) = Cardinality(R)
<1>1. IsFiniteSet({v}) /\ Cardinality({v}) = 1
  BY FS_Singleton
<1>2. IsFiniteSet({v} \X R) /\ Cardinality({v} \X R) = Cardinality({v}) * Cardinality(R)
  BY <1>1, FS_Product
<1>3. Cardinality(R) \in Nat
  BY FS_CardinalityType
<1> QED
  BY <1>1, <1>2, <1>3

(* Who refers to a page.                                                   *)
LEMMA Referrers ==
  ASSUME NEW q
  PROVE  /\ \A u, b : <<u, b>> \in EntriesOf(q) <=> u \in Vms /\ b \in Addrs /\ entry[u][b].page = q
         /\ \A u, b : <<u, b>> \in TablesOf(q) <=> u \in Vms /\ b \in Tables /\ table[u][b] = q
         /\ \A x \in EntriesOf(q) : x = <<x[1], x[2]>> /\ x[1] \in Vms /\ x[2] \in Addrs
         /\ \A x \in TablesOf(q) : x = <<x[1], x[2]>> /\ x[1] \in Vms /\ x[2] \in Tables
         /\ IsFiniteSet(EntriesOf(q)) /\ Cardinality(EntriesOf(q)) \in Nat
         /\ IsFiniteSet(TablesOf(q)) /\ Cardinality(TablesOf(q)) \in Nat
<1>1. /\ \A u, b : <<u, b>> \in EntriesOf(q) <=> u \in Vms /\ b \in Addrs /\ entry[u][b].page = q
      /\ \A u, b : <<u, b>> \in TablesOf(q) <=> u \in Vms /\ b \in Tables /\ table[u][b] = q
  BY DEF EntriesOf, TablesOf
<1>2. /\ \A x \in EntriesOf(q) : x = <<x[1], x[2]>> /\ x[1] \in Vms /\ x[2] \in Addrs
      /\ \A x \in TablesOf(q) : x = <<x[1], x[2]>> /\ x[1] \in Vms /\ x[2] \in Tables
  BY DEF EntriesOf, TablesOf
<1>3. EntriesOf(q) \subseteq Vms \X Addrs /\ TablesOf(q) \subseteq Vms \X Tables
  BY DEF EntriesOf, TablesOf
<1>4. IsFiniteSet(EntriesOf(q)) /\ IsFiniteSet(TablesOf(q))
  BY <1>3, AddrFacts, FS_Subset
<1> QED
  BY <1>1, <1>2, <1>4, FS_CardinalityType

-----------------------------------------------------------------------------
(* What a step does to the counts of page.c, and to the references that    *)
(* page tables hold: d of page p come or go.                               *)
Saturated == \A p \in PhysPages : refs[p] = MaxRef => refs'[p] = MaxRef
Counts(p, d) ==
  /\ PagesTyped' /\ Saturated
  /\ \A q \in PhysPages : refs'[q] < MaxRef =>
       refs[q] < MaxRef /\ refs'[q] = refs[q] + (IF q = p THEN d ELSE 0)
Refers(p, d) ==
  /\ astray' \in [PhysPages -> Int]
  /\ \A q \in PhysPages : References(q)' = References(q) + (IF q = p THEN d ELSE 0)

(* The number of references of a page is a number.                         *)
LEMMA ReferencesInt ==
  ASSUME astray \in [PhysPages -> Int], NEW q \in PhysPages
  PROVE  References(q) \in Int
  BY Referrers DEF References

(* A count that moves with the references stays exact.                     *)
LEMMA ExactKept ==
  ASSUME PagesInv, NEW p, NEW d \in Int, Counts(p, d), Refers(p, d)
  PROVE  RefsExact'
<1> SUFFICES ASSUME NEW q \in PhysPages \ Reserved, refs'[q] < MaxRef
             PROVE  refs'[q] = References(q)'
  BY DEF RefsExact
<1>1. refs[q] < MaxRef /\ refs'[q] = refs[q] + (IF q = p THEN d ELSE 0)
  BY DEF Counts
<1>2. refs[q] = References(q)
  BY <1>1 DEF PagesInv, RefsExact
<1>3. References(q)' = References(q) + (IF q = p THEN d ELSE 0)
  BY DEF Refers
<1> QED
  BY <1>1, <1>2, <1>3

(* page_alloc.                                                             *)
LEMMA AllocCounts ==
  ASSUME PagesInv, NEW p \in PhysPages, PageAlloc(p)
  PROVE  Counts(p, 1)
<1>1. /\ refs \in [PhysPages -> 0..MaxRef] /\ free \subseteq PhysPages /\ stats \in Int
      /\ \A q \in PhysPages : q \in free <=> refs[q] = 0
      /\ stats = Cardinality(free)
  BY DEF PagesInv, PagesTyped, BitmapExact
<1>2. /\ p \in free /\ refs' = [refs EXCEPT ![p] = 1]
      /\ free' = free \ {p} /\ stats' = stats - 1
  BY DEF PageAlloc
<1>3. MaxRef \in Nat /\ MaxRef > 1 /\ IsFiniteSet(free)
  BY <1>1, AddrFacts, FS_Subset
<1>4. \A q \in PhysPages : refs'[q] = IF q = p THEN 1 ELSE refs[q]
  BY <1>1, <1>2
<1>5. refs' \in [PhysPages -> 0..MaxRef]
  BY <1>1, <1>2, <1>3
<1>6. \A q \in PhysPages : q \in free' <=> refs'[q] = 0
  BY <1>1, <1>2, <1>4
<1>7. stats' = Cardinality(free')
  BY <1>1, <1>2, <1>3, FS_RemoveElement
<1>8. PagesTyped'
  BY <1>1, <1>2, <1>5, <1>6, <1>7 DEF PagesTyped, BitmapExact
<1>9. refs[p] = 0
  BY <1>1, <1>2
<1> QED
  BY <1>1, <1>3, <1>4, <1>8, <1>9 DEF Counts, Saturated

(* page_ref, which stops at MaxRef.                                        *)
LEMMA RefCounts ==
  ASSUME PagesInv, NEW p, PageRef(p)
  PROVE  Counts(p, 1)
<1>1. /\ refs \in [PhysPages -> 0..MaxRef] /\ free \subseteq PhysPages /\ stats \in Int
      /\ \A q \in PhysPages : q \in free <=> refs[q] = 0
      /\ stats = Cardinality(free)
  BY DEF PagesInv, PagesTyped, BitmapExact
<1>2. MaxRef \in Nat /\ MaxRef > 1
  BY AddrFacts
<1>3. CASE p \in PhysPages
  <2>1. /\ refs[p] > 0 /\ p \notin free /\ free' = free /\ stats' = stats
        /\ refs' = [refs EXCEPT ![p] = IF @ < MaxRef THEN @ + 1 ELSE @]
    BY <1>3 DEF PageRef
  <2>2. \A q \in PhysPages :
          refs'[q] = IF q = p THEN (IF refs[q] < MaxRef THEN refs[q] + 1 ELSE refs[q]) ELSE refs[q]
    BY <1>1, <2>1
  <2>3. refs' \in [PhysPages -> 0..MaxRef]
    <3> DEFINE n == IF refs[p] < MaxRef THEN refs[p] + 1 ELSE refs[p]
    <3>1. refs[p] \in 0..MaxRef /\ n \in 0..MaxRef
      BY <1>1, <1>2, <1>3, <2>1
    <3>2. refs' = [refs EXCEPT ![p] = n]
      BY <2>1
    <3> HIDE DEF n
    <3> QED
      BY <1>1, <3>1, <3>2
  <2>4. PagesTyped'
    BY <1>1, <1>2, <2>1, <2>2, <2>3 DEF PagesTyped, BitmapExact
  <2> QED
    BY <1>1, <1>2, <2>2, <2>4 DEF Counts, Saturated
<1>4. CASE p \notin PhysPages
  <2>1. refs' = refs /\ free' = free /\ stats' = stats
    BY <1>4 DEF PageRef, memVars
  <2>2. PagesTyped'
    BY <1>1, <2>1 DEF PagesTyped, BitmapExact
  <2> QED
    BY <1>1, <1>4, <2>1, <2>2 DEF Counts, Saturated
<1> QED
  BY <1>3, <1>4

(* page_unref, which leaves a saturated count alone.                       *)
LEMMA UnrefCounts ==
  ASSUME PagesInv, NEW p, PageUnref(p)
  PROVE  Counts(p, -1)
<1>1. /\ refs \in [PhysPages -> 0..MaxRef] /\ free \subseteq PhysPages /\ stats \in Int
      /\ \A q \in PhysPages : q \in free <=> refs[q] = 0
      /\ stats = Cardinality(free)
  BY DEF PagesInv, PagesTyped, BitmapExact
<1>2. MaxRef \in Nat /\ MaxRef > 1 /\ IsFiniteSet(free)
  BY <1>1, AddrFacts, FS_Subset
<1>3. CASE p \in PhysPages
  <2>1. /\ refs[p] > 0 /\ p \notin free
        /\ free' = IF refs[p] = 1 THEN free \cup {p} ELSE free
        /\ stats' = IF refs[p] = 1 THEN stats + 1 ELSE stats
        /\ refs' = [refs EXCEPT ![p] = IF @ < MaxRef THEN @ - 1 ELSE @]
    BY <1>3 DEF PageUnref
  <2>2. \A q \in PhysPages :
          refs'[q] = IF q = p THEN (IF refs[q] < MaxRef THEN refs[q] - 1 ELSE refs[q]) ELSE refs[q]
    BY <1>1, <2>1
  <2>3. refs' \in [PhysPages -> 0..MaxRef]
    <3> DEFINE n == IF refs[p] < MaxRef THEN refs[p] - 1 ELSE refs[p]
    <3>1. refs[p] \in 0..MaxRef /\ n \in 0..MaxRef
      BY <1>1, <1>2, <1>3, <2>1
    <3>2. refs' = [refs EXCEPT ![p] = n]
      BY <2>1
    <3> HIDE DEF n
    <3> QED
      BY <1>1, <3>1, <3>2
  <2>4. \A q \in PhysPages : q \in free' <=> refs'[q] = 0
    BY <1>1, <1>2, <2>1, <2>2
  <2>5. stats' = Cardinality(free') /\ free' \subseteq PhysPages /\ stats' \in Int
    <3>1. Cardinality(free \cup {p}) = Cardinality(free) + 1
      BY <1>2, <2>1, FS_AddElement
    <3> QED
      BY <1>1, <1>3, <2>1, <3>1
  <2>6. PagesTyped'
    BY <2>3, <2>4, <2>5 DEF PagesTyped, BitmapExact
  <2> QED
    BY <1>1, <1>2, <2>2, <2>6 DEF Counts, Saturated
<1>4. CASE p \notin PhysPages
  <2>1. refs' = refs /\ free' = free /\ stats' = stats
    BY <1>4 DEF PageUnref, memVars
  <2>2. PagesTyped'
    BY <1>1, <2>1 DEF PagesTyped, BitmapExact
  <2> QED
    BY <1>1, <1>4, <2>1, <2>2 DEF Counts, Saturated
<1> QED
  BY <1>3, <1>4

(* A step that calls none of the three.                                    *)
LEMMA SameCounts ==
  ASSUME PagesInv, UNCHANGED memVars
  PROVE  Counts(NoPage, 0)
<1>1. refs' = refs /\ free' = free /\ stats' = stats
  BY DEF memVars
<1>2. PagesTyped' /\ refs \in [PhysPages -> 0..MaxRef] /\ MaxRef \in Nat
  BY <1>1, AddrFacts DEF PagesInv, PagesTyped, BitmapExact
<1> QED
  BY <1>1, <1>2 DEF Counts, Saturated

-----------------------------------------------------------------------------
(* The references, when neither page tables nor what has gone astray move. *)
LEMMA SameRefers ==
  ASSUME PagesInv, UNCHANGED <<table, entry, astray>>
  PROVE  Refers(NoPage, 0)
<1>1. table' = table /\ entry' = entry /\ astray' = astray
  OBVIOUS
<1>2. \A q \in PhysPages : References(q) \in Int
  BY ReferencesInt DEF PagesInv
<1>3. \A q \in PhysPages : References(q)' = References(q)
  BY <1>1 DEF References, EntriesOf, TablesOf
<1> QED
  BY <1>1, <1>2, <1>3 DEF Refers, PagesInv

(* One entry of a page table is set.                                       *)
LEMMA EntryRefers ==
  ASSUME PagesInv, NEW v \in Vms, NEW a \in Addrs, NEW e \in Entries,
         SetEntry(v, a, e), UNCHANGED <<table, astray>>, NEW q \in PhysPages
  PROVE  References(q)' = References(q) - One(entry[v][a].page = q) + One(e.page = q)
<1>1. entry \in [Vms -> [Addrs -> Entries]]
  BY DEF PagesInv, TablesTyped
<1>2. \A u \in Vms : \A b \in Addrs :
        entry'[u][b] = IF u = v /\ b = a THEN e ELSE entry[u][b]
  BY <1>1 DEF SetEntry
<1>3. ASSUME NEW y
      PROVE  y \in EntriesOf(q)' <=> (y \in EntriesOf(q) /\ y # <<v, a>>) \/ (y = <<v, a>> /\ e.page = q)
  BY <1>2 DEF EntriesOf
<1>4. <<v, a>> \in EntriesOf(q) <=> entry[v][a].page = q
  BY Referrers
<1>5. IsFiniteSet(EntriesOf(q))
  BY Referrers
<1>6. /\ Cardinality(EntriesOf(q)) \in Nat /\ Cardinality(EntriesOf(q)') \in Nat
      /\ Cardinality(EntriesOf(q)') =
           Cardinality(EntriesOf(q)) - One(<<v, a>> \in EntriesOf(q)) + One(e.page = q)
  <2> DEFINE S == EntriesOf(q)
             T == EntriesOf(q)'
             x == <<v, a>>
             b == e.page = q
  <2>1. IsFiniteSet(S) /\ b \in BOOLEAN /\ \A y : y \in T <=> (y \in S /\ y # x) \/ (y = x /\ b)
    BY <1>3, <1>5
  <2> HIDE DEF S, T, x, b
  <2>2. /\ Cardinality(S) \in Nat /\ Cardinality(T) \in Nat
        /\ Cardinality(T) = Cardinality(S) - One(x \in S) + One(b)
    BY <2>1, OneElement
  <2> QED
    BY <2>2 DEF S, T, x, b
<1>7. TablesOf(q)' = TablesOf(q) /\ astray' = astray
  BY DEF TablesOf
<1>8. Cardinality(TablesOf(q)) \in Nat /\ astray[q] \in Int
  BY Referrers DEF PagesInv
<1>9. One(<<v, a>> \in EntriesOf(q)) = One(entry[v][a].page = q)
  BY <1>4 DEF One
<1>10. One(entry[v][a].page = q) \in Int /\ One(e.page = q) \in Int
  BY DEF One
<1>11. References(q)' = Cardinality(EntriesOf(q)') + Cardinality(TablesOf(q)) + astray[q]
  BY <1>7 DEF References
<1> QED
  BY <1>6, <1>8, <1>9, <1>10, <1>11 DEF References

(* A page is mapped where none was, and one is unmapped.                   *)
LEMMA MapRefers ==
  ASSUME PagesInv, NEW v \in Vms, NEW a \in Addrs, NEW e \in Entries,
         SetEntry(v, a, e), UNCHANGED <<table, astray>>
  PROVE  /\ ~Present(v, a) => Refers(e.page, 1)
         /\ e = NotPresent => Refers(entry[v][a].page, -1)
<1>1. \A q \in PhysPages : References(q) \in Int /\ q # NoPage
  BY ReferencesInt, AddrFacts DEF PagesInv
<1>2. \A q \in PhysPages :
        References(q)' = References(q) - One(entry[v][a].page = q) + One(e.page = q)
  BY EntryRefers
<1>3. astray' \in [PhysPages -> Int]
  BY DEF PagesInv
<1>4. ASSUME ~Present(v, a)
      PROVE  Refers(e.page, 1)
  BY <1>1, <1>2, <1>3, <1>4 DEF Refers, Present, One
<1>5. ASSUME e = NotPresent
      PROVE  Refers(entry[v][a].page, -1)
  BY <1>1, <1>2, <1>3, <1>5 DEF Refers, NotPresent, One
<1> QED
  BY <1>4, <1>5

(* The same of a page table in a page directory.                           *)
LEMMA TableRefers ==
  ASSUME PagesInv, NEW v \in Vms, NEW i \in Tables, NEW p \in PhysPages \cup {NoPage},
         table' = [table EXCEPT ![v][i] = p], UNCHANGED <<entry, astray>>
  PROVE  /\ table[v][i] = NoPage => Refers(p, 1)
         /\ p = NoPage => Refers(table[v][i], -1)
<1>1. table \in [Vms -> [Tables -> PhysPages \cup {NoPage}]]
  BY DEF PagesInv, TablesTyped
<1>2. \A u \in Vms : \A b \in Tables :
        table'[u][b] = IF u = v /\ b = i THEN p ELSE table[u][b]
  BY <1>1
<1>3. ASSUME NEW q \in PhysPages
      PROVE  References(q)' = References(q) - One(table[v][i] = q) + One(p = q)
  <2>1. ASSUME NEW y
        PROVE  y \in TablesOf(q)' <=> (y \in TablesOf(q) /\ y # <<v, i>>) \/ (y = <<v, i>> /\ p = q)
    BY <1>2 DEF TablesOf
  <2>2. <<v, i>> \in TablesOf(q) <=> table[v][i] = q
    BY Referrers
  <2>3. IsFiniteSet(TablesOf(q))
    BY Referrers
  <2>4. /\ Cardinality(TablesOf(q)) \in Nat /\ Cardinality(TablesOf(q)') \in Nat
        /\ Cardinality(TablesOf(q)') =
             Cardinality(TablesOf(q)) - One(<<v, i>> \in TablesOf(q)) + One(p = q)
    <3> DEFINE S == TablesOf(q)
               T == TablesOf(q)'
               x == <<v, i>>
               b == p = q
    <3>1. IsFiniteSet(S) /\ b \in BOOLEAN /\ \A y : y \in T <=> (y \in S /\ y # x) \/ (y = x /\ b)
      BY <2>1, <2>3
    <3> HIDE DEF S, T, x, b
    <3>2. /\ Cardinality(S) \in Nat /\ Cardinality(T) \in Nat
          /\ Cardinality(T) = Cardinality(S) - One(x \in S) + One(b)
      BY <3>1, OneElement
    <3> QED
      BY <3>2 DEF S, T, x, b
  <2>5. EntriesOf(q)' = EntriesOf(q) /\ astray' = astray
    BY DEF EntriesOf
  <2>6. Cardinality(EntriesOf(q)) \in Nat /\ astray[q] \in Int
    BY Referrers DEF PagesInv
  <2>7. One(<<v, i>> \in TablesOf(q)) = One(table[v][i] = q)
    BY <2>2 DEF One
  <2>8. One(table[v][i] = q) \in Int /\ One(p = q) \in Int
    BY DEF One
  <2>9. References(q)' = Cardinality(EntriesOf(q)) + Cardinality(TablesOf(q)') + astray[q]
    BY <2>5 DEF References
  <2> QED
    BY <2>4, <2>6, <2>7, <2>8, <2>9 DEF References
<1>4. \A q \in PhysPages : References(q) \in Int /\ q # NoPage
  BY ReferencesInt, AddrFacts DEF PagesInv
<1>5. astray' \in [PhysPages -> Int]
  BY DEF PagesInv
<1>6. ASSUME table[v][i] = NoPage
      PROVE  Refers(p, 1)
  BY <1>3, <1>4, <1>5, <1>6 DEF Refers, One
<1>7. ASSUME p = NoPage
      PROVE  Refers(table[v][i], -1)
  BY <1>3, <1>4, <1>5, <1>7 DEF Refers, One
<1> QED
  BY <1>6, <1>7

(* All entries of an address space are forgotten, and its page tables with *)
(* them or not: their references go astray.                                *)
LEMMA ForgottenRefers ==
  ASSUME PagesInv, NEW v \in Vms,
         entry' = [entry EXCEPT ![v] = [b \in Addrs |-> NotPresent]],
         \/ /\ table' = table
            /\ astray' = [p \in PhysPages |->
                            astray[p] + Cardinality({b \in Addrs : entry[v][b].page = p})]
         \/ /\ table' = [table EXCEPT ![v] = [i \in Tables |-> NoPage]]
            /\ astray' = [p \in PhysPages |-> astray[p] + Mappings(v, p)]
  PROVE  Refers(NoPage, 0)
<1> DEFINE E(q) == {b \in Addrs : entry[v][b].page = q}
           T(q) == {i \in Tables : table[v][i] = q}
<1>1. /\ entry \in [Vms -> [Addrs -> Entries]] /\ table \in [Vms -> [Tables -> PhysPages \cup {NoPage}]]
      /\ astray \in [PhysPages -> Int]
  BY DEF PagesInv, TablesTyped
<1>2. \A u \in Vms : \A b \in Addrs :
        entry'[u][b] = IF u = v THEN NotPresent ELSE entry[u][b]
  BY <1>1
<1>3. NoPage \notin PhysPages
  BY AddrFacts
<1>4. ASSUME NEW q \in PhysPages
      PROVE  /\ Cardinality(EntriesOf(q)) \in Nat /\ Cardinality(EntriesOf(q)') \in Nat
             /\ Cardinality(E(q)) \in Nat
             /\ Cardinality(EntriesOf(q)) = Cardinality(EntriesOf(q)') + Cardinality(E(q))
  <2>1. IsFiniteSet(E(q))
    BY AddrFacts, FS_Subset
  <2>2. EntriesOf(q)' = EntriesOf(q) \ ({v} \X E(q))
    BY <1>2, <1>3 DEF EntriesOf, NotPresent
  <2>3. {v} \X E(q) \subseteq EntriesOf(q)
    BY DEF EntriesOf
  <2>4. Cardinality({v} \X E(q)) = Cardinality(E(q))
    BY <2>1, RowCount
  <2>5. IsFiniteSet(EntriesOf(q))
    BY Referrers
  <2> HIDE DEF E
  <2> QED
    BY <2>2, <2>3, <2>4, <2>5, PartAway
<1>5. ASSUME NEW q \in PhysPages, table' = [table EXCEPT ![v] = [i \in Tables |-> NoPage]]
      PROVE  /\ Cardinality(TablesOf(q)) \in Nat /\ Cardinality(TablesOf(q)') \in Nat
             /\ Cardinality(T(q)) \in Nat
             /\ Cardinality(TablesOf(q)) = Cardinality(TablesOf(q)') + Cardinality(T(q))
  <2>0. \A u \in Vms : \A b \in Tables :
          table'[u][b] = IF u = v THEN NoPage ELSE table[u][b]
    BY <1>1, <1>5
  <2>1. IsFiniteSet(T(q))
    BY AddrFacts, FS_Subset
  <2>2. TablesOf(q)' = TablesOf(q) \ ({v} \X T(q))
    BY <2>0, <1>3 DEF TablesOf
  <2>3. {v} \X T(q) \subseteq TablesOf(q)
    BY DEF TablesOf
  <2>4. Cardinality({v} \X T(q)) = Cardinality(T(q))
    BY <2>1, RowCount
  <2>5. IsFiniteSet(TablesOf(q))
    BY Referrers
  <2> HIDE DEF T
  <2> QED
    BY <2>2, <2>3, <2>4, <2>5, PartAway
<1>6. ASSUME NEW q \in PhysPages
      PROVE  References(q)' = References(q) /\ astray'[q] \in Int
  <2>1. CASE table' = table /\ astray' = [p \in PhysPages |-> astray[p] + Cardinality(E(p))]
    <3>1. TablesOf(q)' = TablesOf(q) /\ astray'[q] = astray[q] + Cardinality(E(q))
      BY <2>1 DEF TablesOf
    <3>2. Cardinality(TablesOf(q)) \in Nat /\ astray[q] \in Int
      BY <1>1, Referrers
    <3>3. References(q)' = Cardinality(EntriesOf(q)') + Cardinality(TablesOf(q)) + astray'[q]
      BY <3>1 DEF References
    <3> HIDE DEF E
    <3> QED
      BY <1>4, <3>1, <3>2, <3>3 DEF References
  <2>2. CASE /\ table' = [table EXCEPT ![v] = [i \in Tables |-> NoPage]]
             /\ astray' = [p \in PhysPages |-> astray[p] + Mappings(v, p)]
    <3>1. astray'[q] = astray[q] + (Cardinality(E(q)) + Cardinality(T(q)))
      BY <2>2 DEF Mappings
    <3>2. astray[q] \in Int
      BY <1>1
    <3>3. References(q)' = Cardinality(EntriesOf(q)') + Cardinality(TablesOf(q)') + astray'[q]
      BY DEF References
    <3>4. /\ Cardinality(TablesOf(q)) \in Nat /\ Cardinality(TablesOf(q)') \in Nat
          /\ Cardinality(T(q)) \in Nat
          /\ Cardinality(TablesOf(q)) = Cardinality(TablesOf(q)') + Cardinality(T(q))
      BY <1>5, <2>2
    <3> HIDE DEF E, T
    <3> QED
      BY <1>4, <3>1, <3>2, <3>3, <3>4 DEF References
  <2> QED
    BY <2>1, <2>2
<1>7. astray' \in [PhysPages -> Int]
  <2>1. \/ astray' = [p \in PhysPages |-> astray[p] + Cardinality(E(p))]
        \/ astray' = [p \in PhysPages |-> astray[p] + Mappings(v, p)]
    OBVIOUS
  <2> QED
    BY <1>6, <2>1
<1>8. \A q \in PhysPages : References(q) \in Int
  BY <1>1, ReferencesInt
<1> QED
  BY <1>6, <1>7, <1>8 DEF Refers

(* A reference that no entry of the page accounts for is dropped.          *)
LEMMA AstrayRefers ==
  ASSUME PagesInv, UNCHANGED <<table, entry>>, NEW p,
         astray' = IF p \in PhysPages THEN [astray EXCEPT ![p] = @ - 1] ELSE astray
  PROVE  Refers(p, -1)
<1>1. astray \in [PhysPages -> Int]
  BY DEF PagesInv
<1>2. astray' \in [PhysPages -> Int]
  BY <1>1
<1>3. ASSUME NEW q \in PhysPages
      PROVE  References(q)' = References(q) + (IF q = p THEN -1 ELSE 0)
  <2>1. astray'[q] = astray[q] + (IF q = p THEN -1 ELSE 0)
    BY <1>1
  <2>2. EntriesOf(q)' = EntriesOf(q) /\ TablesOf(q)' = TablesOf(q)
    BY DEF EntriesOf, TablesOf
  <2>3. Cardinality(EntriesOf(q)) \in Nat /\ Cardinality(TablesOf(q)) \in Nat /\ astray[q] \in Int
    BY <1>1, Referrers
  <2>4. References(q)' = Cardinality(EntriesOf(q)) + Cardinality(TablesOf(q)) + astray'[q]
    BY <2>2 DEF References
  <2> QED
    BY <2>1, <2>3, <2>4 DEF References
<1> QED
  BY <1>2, <1>3 DEF Refers

-----------------------------------------------------------------------------
(* An address space that a step leaves alone, and an operation that is     *)
(* over: the body of AllOrNothing.                                         *)
Same(u) == op'[u] = op[u] /\ entry'[u] = entry[u] /\ (u \in live' <=> u \in live)
WholeOf(v) ==
  op[v] # Idle /\ op'[v] = Idle =>
    LET range == op[v].first..op[v].last
    IN CASE op[v].kind \in {"anon", "phys", "copy"} -> \A a \in range : Present(v, a)
         [] op[v].kind = "unmap" -> \A a \in range : ~Present(v, a)
         [] OTHER -> TRUE
CallsKept == \A v \in Vms : CallOk(v)' /\ WholeOf(v)
Kept == PagesInv' /\ Saturated /\ \A v \in Vms : WholeOf(v)

(* What is left alone stays as it was.                                     *)
LEMMA SameKept ==
  ASSUME NEW u \in Vms, CallOk(u), Same(u)
  PROVE  CallOk(u)' /\ WholeOf(u)
<1>1. op'[u] = op[u] /\ entry'[u] = entry[u] /\ (u \in live' <=> u \in live)
  BY DEF Same
<1>2. \A a : Present(u, a)' <=> Present(u, a)
  BY <1>1 DEF Present
<1>3. MapOk(u)' /\ UnmapOk(u)'
  BY <1>1, <1>2 DEF CallOk, MapOk, UnmapOk
<1>4. CloneOk(u)' /\ DestroyOk(u)' /\ TablesOk(u)' /\ IdleOk(u)'
  BY <1>1, <1>2 DEF CallOk, CloneOk, DestroyOk, TablesOk, IdleOk, Blank
<1>5. WholeOf(u)
  BY <1>1 DEF WholeOf
<1> QED
  BY <1>3, <1>4, <1>5 DEF CallOk

(* The parts of a step put together.                                       *)
LEMMA StepKept ==
  ASSUME PagesInv, TablesTyped', NEW p, NEW d \in Int, Counts(p, d), Refers(p, d), CallsKept
  PROVE  Kept
<1>1. RefsExact'
  BY ExactKept
<1>2. PagesTyped' /\ Saturated /\ astray' \in [PhysPages -> Int]
  BY DEF Counts, Refers
<1> QED
  BY <1>1, <1>2 DEF Kept, PagesInv, CallsKept

(* A step of one address space.                                            *)
LEMMA OneKept ==
  ASSUME PagesInv, NEW v \in Vms, \A u \in Vms \ {v} : Same(u), CallOk(v)', WholeOf(v)
  PROVE  CallsKept
<1> SUFFICES ASSUME NEW u \in Vms
             PROVE  CallOk(u)' /\ WholeOf(u)
  BY DEF CallsKept
<1>1. CASE u # v
  BY <1>1, SameKept DEF PagesInv
<1>2. CASE u = v
  BY <1>2
<1> QED
  BY <1>1, <1>2

(* An operation goes on to its next page, and one begins or ends.          *)
LEMMA NextPage ==
  ASSUME PagesInv, NEW v \in Vms, Step(v)
  PROVE  /\ op' \in [Vms -> Ops] /\ op[v] \in Ops /\ \A u \in Vms \ {v} : op'[u] = op[u]
         /\ op'[v].kind = op[v].kind /\ op'[v].first = op[v].first /\ op'[v].last = op[v].last
         /\ op'[v].arg = op[v].arg /\ op'[v].next = op[v].next + 1
         /\ op[v].kind # "idle" => WholeOf(v)
<1>1. op \in [Vms -> Ops] /\ op[v] \in Ops
  BY DEF PagesInv, TablesTyped
<1> DEFINE r == [op[v] EXCEPT !.next = @ + 1]
<1>2. op' = [op EXCEPT ![v] = r]
  BY <1>1 DEF Step
<1>3. /\ r \in Ops /\ r.kind = op[v].kind /\ r.first = op[v].first /\ r.last = op[v].last
      /\ r.arg = op[v].arg /\ r.next = op[v].next + 1
  <2> DEFINE o == op[v]
  <2>1. /\ o.kind \in OpKinds /\ o.next \in Nat /\ o.first \in Nat /\ o.last \in Int
        /\ o.arg \in Entries /\ o.of \in SUBSET Vms
        /\ o = [kind |-> o.kind, next |-> o.next, first |-> o.first, last |-> o.last,
                arg |-> o.arg, of |-> o.of]
    BY <1>1 DEF Ops, Entries
  <2> HIDE DEF o
  <2>2. r = [kind |-> o.kind, next |-> o.next + 1, first |-> o.first, last |-> o.last,
             arg |-> o.arg, of |-> o.of]
    <3>1. r = [o EXCEPT !.next = o.next + 1]
      BY DEF o
    <3> QED
      BY <2>1, <3>1
  <2>3. o.next + 1 \in Nat
    BY <2>1
  <2>4. r \in Ops
    BY <2>1, <2>2, <2>3 DEF Ops, Entries
  <2> QED
    BY <2>2, <2>4 DEF o
<1> HIDE DEF r
<1>4. op' \in [Vms -> Ops] /\ op'[v] = r /\ \A u \in Vms \ {v} : op'[u] = op[u]
  BY <1>1, <1>2, <1>3
<1>5. op[v].kind # "idle" => WholeOf(v)
  BY <1>3, <1>4 DEF WholeOf, Idle
<1> QED
  BY <1>1, <1>3, <1>4, <1>5

(* An operation begins or ends.                                            *)
LEMMA NextCall ==
  ASSUME PagesInv, NEW v \in Vms, NEW r \in Ops, op' = [op EXCEPT ![v] = r]
  PROVE  /\ op' \in [Vms -> Ops] /\ op[v] \in Ops /\ \A u \in Vms \ {v} : op'[u] = op[u]
         /\ op'[v] = r
  BY DEF PagesInv, TablesTyped

(* The record of no operation.                                             *)
LEMMA IdleType == Idle \in Ops /\ Idle.kind = "idle" /\ NotPresent \in Entries
<1>1. NotPresent \in Entries
  BY DEF NotPresent, Entries
<1> QED
  BY <1>1 DEF Idle, Ops, OpKinds, Entries

(* One entry or one page table is set, the rest is left alone.             *)
LEMMA EntryTyped ==
  ASSUME PagesInv, NEW v \in Vms, NEW a \in Addrs, NEW e \in Entries, SetEntry(v, a, e)
  PROVE  /\ entry' \in [Vms -> [Addrs -> Entries]]
         /\ \A u \in Vms \ {v} : entry'[u] = entry[u]
         /\ \A b \in Addrs : Present(v, b)' <=> IF b = a THEN e.page # NoPage ELSE Present(v, b)
<1>1. entry \in [Vms -> [Addrs -> Entries]]
  BY DEF PagesInv, TablesTyped
<1>2. /\ entry' \in [Vms -> [Addrs -> Entries]]
      /\ \A u \in Vms \ {v} : entry'[u] = entry[u]
      /\ \A b \in Addrs : entry'[v][b] = IF b = a THEN e ELSE entry[v][b]
  BY <1>1 DEF SetEntry
<1> QED
  BY <1>2 DEF Present

(* Kinds of operations are told apart, so that one part of CallOk matters. *)
LEMMA MapsKept ==
  ASSUME NEW v, op'[v].kind \in MapKinds, MapOk(v)'
  PROVE  CallOk(v)'
  BY DEF CallOk, MapKinds, UnmapOk, CloneOk, DestroyOk, TablesOk, IdleOk
LEMMA UnmapsKept ==
  ASSUME NEW v, op'[v].kind = "unmap", UnmapOk(v)'
  PROVE  CallOk(v)'
  BY DEF CallOk, MapKinds, MapOk, CloneOk, DestroyOk, TablesOk, IdleOk
LEMMA ClonesKept ==
  ASSUME NEW v, op'[v].kind = "clone", CloneOk(v)'
  PROVE  CallOk(v)'
  BY DEF CallOk, MapKinds, UnmapOk, MapOk, DestroyOk, TablesOk, IdleOk
LEMMA DestroysKept ==
  ASSUME NEW v, op'[v].kind = "destroy", DestroyOk(v)'
  PROVE  CallOk(v)'
  BY DEF CallOk, MapKinds, UnmapOk, MapOk, CloneOk, TablesOk, IdleOk
LEMMA TableCallsKept ==
  ASSUME NEW v, op'[v].kind = "tables", TablesOk(v)'
  PROVE  CallOk(v)'
  BY DEF CallOk, MapKinds, UnmapOk, MapOk, CloneOk, DestroyOk, IdleOk
LEMMA IdlesKept ==
  ASSUME NEW v, op'[v].kind = "idle", IdleOk(v)'
  PROVE  CallOk(v)'
  BY DEF CallOk, MapKinds, UnmapOk, MapOk, CloneOk, DestroyOk, TablesOk

-----------------------------------------------------------------------------
(* The operations, one by one.                                             *)

(* What is known of the operation that maps or unmaps a page now.          *)
LEMMA MapNow ==
  ASSUME PagesInv, NEW v \in Vms, op[v].kind \in MapKinds
  PROVE  /\ MapOk(v) /\ v \in live /\ op[v] \in Ops
         /\ op[v].next \in Nat /\ op[v].first \in Nat /\ op[v].last \in Int
         /\ op[v].arg \in Entries
         /\ op[v].next <= op[v].last => op[v].next \in Addrs /\ ~Present(v, op[v].next)
<1>1. MapOk(v) /\ op[v] \in Ops
  BY DEF PagesInv, CallOk, TablesTyped
<1>2. /\ op[v].next \in Nat /\ op[v].first \in Nat /\ op[v].last \in Int
      /\ op[v].arg \in Entries
  BY <1>1 DEF Ops, Entries
<1>3. v \in live /\ op[v].last \in Addrs
  BY <1>1 DEF MapOk
<1>4. ASSUME op[v].next <= op[v].last
      PROVE  op[v].next \in Addrs
  BY <1>2, <1>3, <1>4, AddrFacts
<1>5. ASSUME op[v].next <= op[v].last
      PROVE  ~Present(v, op[v].next)
  BY <1>1, <1>2, <1>4, <1>5 DEF MapOk
<1> QED
  BY <1>1, <1>2, <1>3, <1>4, <1>5

(* An operation that maps or unmaps begins.                                *)
LEMMA BeginKept ==
  ASSUME PagesInv, NEW v \in Vms, NEW kind \in MapKinds \cup {"unmap"},
         NEW first \in Addrs, NEW last \in Addrs, first <= last, NEW arg \in Entries,
         Begin(v, kind, first, last, arg),
         kind \in MapKinds => \A a \in first..last : ~Present(v, a),
         kind \in {"phys", "copy"} => arg.page # NoPage
  PROVE  Kept
<1> DEFINE r == [kind |-> kind, next |-> first, first |-> first, last |-> last, arg |-> arg, of |-> {}]
<1>1. /\ v \in live /\ op[v] = Idle /\ op' = [op EXCEPT ![v] = r] /\ UNCHANGED memVars
      /\ live' = live /\ table' = table /\ entry' = entry /\ astray' = astray
  BY DEF Begin
<1>2. first \in Nat /\ last \in Nat /\ last <= LastAddr /\ LastAddr \in Int
  BY AddrFacts
<1>3. r \in Ops
  BY <1>2 DEF Ops, OpKinds, MapKinds, Entries
<1>4. /\ op' \in [Vms -> Ops] /\ op'[v] = r /\ \A u \in Vms \ {v} : op'[u] = op[u]
  BY <1>1, <1>3, NextCall
<1>5. TablesTyped'
  BY <1>1, <1>4 DEF PagesInv, TablesTyped
<1>6. /\ op'[v].kind = kind /\ op'[v].next = first /\ op'[v].first = first /\ op'[v].last = last
      /\ op'[v].arg = arg
  BY <1>4
<1> HIDE DEF r
<1>7. \A u \in Vms \ {v} : Same(u)
  BY <1>1, <1>4 DEF Same
<1>8. WholeOf(v)
  BY <1>1 DEF WholeOf
<1>9. \A a : Present(v, a)' <=> Present(v, a)
  BY <1>1 DEF Present
<1>10. CallOk(v)'
  <2>1. CASE kind \in MapKinds
    <3>1. \A a \in Addrs : first <= a /\ a <= last => ~Present(v, a)'
      <4> SUFFICES ASSUME NEW a \in Addrs, first <= a, a <= last
                   PROVE  ~Present(v, a)'
        OBVIOUS
      <4>1. a \in first..last
        BY <1>2, AddrFacts
      <4> QED
        BY <1>9, <2>1, <4>1
    <3>2. \A a \in Addrs : ~(first <= a /\ a < first)
      BY <1>2, AddrFacts
    <3>3. MapOk(v)'
      BY <1>1, <1>2, <1>6, <2>1, <3>1, <3>2 DEF MapOk, MapKinds
    <3> QED
      BY <1>6, <2>1, <3>3, MapsKept
  <2>2. CASE kind = "unmap"
    <3>1. \A a \in Addrs : ~(first <= a /\ a < first)
      BY <1>2, AddrFacts
    <3>2. UnmapOk(v)'
      BY <1>1, <1>2, <1>6, <2>2, <3>1 DEF UnmapOk
    <3> QED
      BY <1>6, <2>2, <3>2, UnmapsKept
  <2> QED
    BY <2>1, <2>2
<1>11. CallsKept
  BY <1>7, <1>8, <1>10, OneKept
<1> QED
  BY <1>1, <1>5, <1>11, SameCounts, SameRefers, StepKept

(* get_or_create_page_table.                                               *)
LEMMA MakeTableKept ==
  ASSUME PagesInv, NEW v \in Vms, MakeTable(v)
  PROVE  Kept
<1> DEFINE i == TableOf(op[v].next)
<1>1. PICK p \in PhysPages : PageAlloc(p) /\ table' = [table EXCEPT ![v][i] = p]
  BY DEF MakeTable
<1>2. /\ op[v].kind \in MapKinds /\ op[v].next <= op[v].last /\ table[v][i] = NoPage
      /\ live' = live /\ entry' = entry /\ op' = op /\ astray' = astray
  BY DEF MakeTable, Maps, HasTable, MapKinds
<1>3. i \in Tables
  BY <1>2, MapNow, AddrFacts
<1> HIDE DEF i
<1>4. TablesTyped'
  BY <1>1, <1>2, <1>3 DEF PagesInv, TablesTyped
<1>5. Refers(p, 1)
  BY <1>1, <1>2, <1>3, TableRefers
<1>6. \A u \in Vms : Same(u)
  BY <1>2 DEF Same
<1>7. CallsKept
  BY <1>6, SameKept DEF CallsKept, PagesInv
<1> QED
  BY <1>1, <1>4, <1>5, <1>7, AllocCounts, StepKept

(* One page is mapped.                                                     *)
LEMMA PageMapped ==
  ASSUME PagesInv, NEW v \in Vms, Maps(v), NEW e \in Entries, e.page # NoPage,
         SetEntry(v, op[v].next, e), Step(v), UNCHANGED <<live, table, astray>>, Counts(e.page, 1)
  PROVE  Kept
<1> DEFINE n == op[v].next
<1>0. op[v].kind \in MapKinds /\ n <= op[v].last
  BY DEF Maps, MapKinds
<1>1. /\ MapOk(v) /\ v \in live /\ n \in Nat /\ op[v].first \in Nat /\ op[v].last \in Int
      /\ n \in Addrs /\ ~Present(v, n)
  BY <1>0, MapNow
<1>2. /\ op' \in [Vms -> Ops] /\ \A u \in Vms \ {v} : op'[u] = op[u]
      /\ op'[v].kind = op[v].kind /\ op'[v].first = op[v].first /\ op'[v].last = op[v].last
      /\ op'[v].arg = op[v].arg /\ op'[v].next = n + 1
  BY NextPage
<1>3. WholeOf(v)
  BY <1>0, NextPage DEF MapKinds
<1>4. /\ entry' \in [Vms -> [Addrs -> Entries]]
      /\ \A u \in Vms \ {v} : entry'[u] = entry[u]
      /\ \A b \in Addrs : Present(v, b)' <=> IF b = n THEN e.page # NoPage ELSE Present(v, b)
  BY <1>1, EntryTyped
<1>5. Refers(e.page, 1)
  BY <1>1, MapRefers
<1> HIDE DEF n
<1>6. TablesTyped'
  BY <1>2, <1>4 DEF PagesInv, TablesTyped
<1>7. \A u \in Vms \ {v} : Same(u)
  BY <1>2, <1>4 DEF Same
<1>8. MapOk(v)'
  <2>1. /\ op[v].first \in Addrs /\ op[v].last \in Addrs
        /\ op[v].first <= n
        /\ \A a \in Addrs : op[v].first <= a /\ a < n => Present(v, a)
        /\ \A a \in Addrs : n <= a /\ a <= op[v].last => ~Present(v, a)
        /\ op[v].kind # "anon" => op[v].arg.page # NoPage
    BY <1>0, <1>1 DEF MapOk, n
  <2>2. \A a \in Addrs : op[v].first <= a /\ a < n + 1 => Present(v, a)'
    BY <1>1, <1>4, <2>1, AddrFacts
  <2>3. \A a \in Addrs : n + 1 <= a /\ a <= op[v].last => ~Present(v, a)'
    BY <1>1, <1>4, <2>1, AddrFacts
  <2>4. op[v].first <= n + 1 /\ n + 1 <= op[v].last + 1 /\ v \in live'
    BY <1>0, <1>1, <2>1
  <2> QED
    BY <1>2, <2>1, <2>2, <2>3, <2>4 DEF MapOk
<1>9. CallsKept
  BY <1>0, <1>2, <1>3, <1>7, <1>8, MapsKept, OneKept
<1> QED
  BY <1>5, <1>6, <1>9, StepKept

(* page_table_map_anon, one page.                                          *)
LEMMA MapAnonKept ==
  ASSUME PagesInv, NEW v \in Vms, MapAnon(v)
  PROVE  Kept
<1> DEFINE e(p) == [page |-> p, shared |-> op[v].arg.shared]
<1>1. /\ Maps(v) /\ Step(v) /\ UNCHANGED <<live, table, astray>>
      /\ \E p \in PhysPages : PageAlloc(p) /\ SetEntry(v, op[v].next, e(p))
  BY DEF MapAnon
<1>2. PICK p \in PhysPages : PageAlloc(p) /\ SetEntry(v, op[v].next, e(p))
  BY <1>1
<1>3. op[v].arg \in Entries
  BY <1>1, MapNow DEF Maps, MapKinds
<1>4. e(p) \in Entries /\ e(p).page = p /\ p # NoPage
  BY <1>3, AddrFacts DEF Entries
<1>5. Counts(p, 1)
  BY <1>2, AllocCounts
<1> HIDE DEF e
<1> QED
  BY <1>1, <1>2, <1>4, <1>5, PageMapped

(* page_table_map_phys and page_table_shallow_copy, one page.              *)
LEMMA MapPageKept ==
  ASSUME PagesInv, NEW v \in Vms, MapPage(v)
  PROVE  Kept
<1>1. /\ Maps(v) /\ Step(v) /\ UNCHANGED <<live, table, astray>> /\ op[v].kind \in {"phys", "copy"}
      /\ PageRef(op[v].arg.page) /\ SetEntry(v, op[v].next, op[v].arg)
  BY DEF MapPage
<1>2. op[v].arg \in Entries /\ MapOk(v)
  BY <1>1, MapNow DEF Maps, MapKinds
<1>3. op[v].arg.page # NoPage
  BY <1>1, <1>2 DEF MapOk, MapKinds
<1>4. Counts(op[v].arg.page, 1)
  BY <1>1, RefCounts
<1> QED
  BY <1>1, <1>2, <1>3, <1>4, PageMapped

(* The call that runs out of pages takes back what it has mapped.          *)
LEMMA MapFailKept ==
  ASSUME PagesInv, NEW v \in Vms, MapFail(v)
  PROVE  Kept
<1> DEFINE r == [kind |-> "unmap", next |-> op[v].first, first |-> op[v].first,
                 last |-> op[v].next - 1, arg |-> NotPresent, of |-> {}]
<1>1. /\ op[v].kind \in MapKinds /\ op' = [op EXCEPT ![v] = r] /\ UNCHANGED memVars
      /\ live' = live /\ table' = table /\ entry' = entry /\ astray' = astray
  BY DEF MapFail, Maps, MapKinds
<1>2. /\ MapOk(v) /\ v \in live /\ op[v].next \in Nat /\ op[v].first \in Nat /\ op[v].last \in Int
  BY <1>1, MapNow
<1>3. NotPresent \in Entries /\ op[v].next - 1 \in Int
  BY <1>2, IdleType
<1>4. r \in Ops
  BY <1>2, <1>3 DEF Ops, OpKinds, Entries
<1>5. /\ op' \in [Vms -> Ops] /\ op'[v] = r /\ \A u \in Vms \ {v} : op'[u] = op[u]
  BY <1>1, <1>4, NextCall
<1>6. /\ op'[v].kind = "unmap" /\ op'[v].next = op[v].first /\ op'[v].first = op[v].first
      /\ op'[v].last = op[v].next - 1
  BY <1>5
<1> HIDE DEF r
<1>7. TablesTyped'
  BY <1>1, <1>5 DEF PagesInv, TablesTyped
<1>8. \A u \in Vms \ {v} : Same(u)
  BY <1>1, <1>5 DEF Same
<1>9. WholeOf(v)
  BY <1>6 DEF WholeOf, Idle
<1>10. UnmapOk(v)'
  <2>1. /\ op[v].first \in Addrs /\ op[v].last \in Addrs /\ op[v].first <= op[v].next
        /\ op[v].next <= op[v].last + 1
    BY <1>1, <1>2 DEF MapOk
  <2>2. \A a \in Addrs : ~(op[v].first <= a /\ a < op[v].first)
    BY <1>2, AddrFacts
  <2>3. op[v].next - 1 <= LastAddr /\ op[v].first <= op[v].next - 1 + 1
    BY <1>2, <2>1, AddrFacts
  <2>4. op[v].first <= op[v].first /\ v \in live'
    BY <1>1, <1>2
  <2> QED
    BY <1>6, <2>1, <2>2, <2>3, <2>4 DEF UnmapOk
<1>11. CallsKept
  BY <1>6, <1>8, <1>9, <1>10, UnmapsKept, OneKept
<1> QED
  BY <1>1, <1>7, <1>11, SameCounts, SameRefers, StepKept

(* page_table_unmap, one page.                                             *)
LEMMA UnmapKept ==
  ASSUME PagesInv, NEW v \in Vms, Unmap(v)
  PROVE  Kept
<1> DEFINE n == op[v].next
<1>1. /\ op[v].kind = "unmap" /\ n <= op[v].last /\ PageUnref(entry[v][n].page)
      /\ SetEntry(v, n, NotPresent) /\ Step(v) /\ UNCHANGED <<live, table, astray>>
  BY DEF Unmap
<1>2. UnmapOk(v) /\ op[v] \in Ops
  BY DEF PagesInv, CallOk, TablesTyped
<1>3. n \in Nat /\ op[v].first \in Nat /\ op[v].last \in Int
  BY <1>2 DEF Ops
<1>4. /\ v \in live /\ op[v].first \in Addrs /\ op[v].last <= LastAddr
      /\ op[v].first <= n
      /\ \A a \in Addrs : op[v].first <= a /\ a < n => ~Present(v, a)
  BY <1>1, <1>2 DEF UnmapOk
<1>5. n \in Addrs
  BY <1>1, <1>3, <1>4, AddrFacts
<1>6. /\ op' \in [Vms -> Ops] /\ \A u \in Vms \ {v} : op'[u] = op[u]
      /\ op'[v].kind = op[v].kind /\ op'[v].first = op[v].first /\ op'[v].last = op[v].last
      /\ op'[v].next = n + 1
  BY <1>1, NextPage
<1>7. WholeOf(v)
  BY <1>1, NextPage
<1>8. NotPresent \in Entries /\ NotPresent.page = NoPage
  BY IdleType DEF NotPresent
<1>9. /\ entry' \in [Vms -> [Addrs -> Entries]]
      /\ \A u \in Vms \ {v} : entry'[u] = entry[u]
      /\ \A b \in Addrs : Present(v, b)' <=> IF b = n THEN NotPresent.page # NoPage ELSE Present(v, b)
  BY <1>1, <1>5, <1>8, EntryTyped
<1>10. Refers(entry[v][n].page, -1) /\ Counts(entry[v][n].page, -1)
  BY <1>1, <1>5, <1>8, MapRefers, UnrefCounts
<1> HIDE DEF n
<1>11. TablesTyped'
  BY <1>1, <1>6, <1>9 DEF PagesInv, TablesTyped
<1>12. \A u \in Vms \ {v} : Same(u)
  BY <1>1, <1>6, <1>9 DEF Same
<1>13. UnmapOk(v)'
  <2>1. \A a \in Addrs : op[v].first <= a /\ a < n + 1 => ~Present(v, a)'
    BY <1>3, <1>4, <1>8, <1>9, AddrFacts
  <2>2. op[v].first <= n + 1 /\ n + 1 <= op[v].last + 1 /\ v \in live'
    BY <1>1, <1>3, <1>4
  <2> QED
    BY <1>4, <1>6, <2>1, <2>2 DEF UnmapOk
<1>14. CallsKept
  BY <1>1, <1>6, <1>7, <1>12, <1>13, UnmapsKept, OneKept
<1> QED
  BY <1>10, <1>11, <1>14, StepKept

(* The operation is over: its whole range is mapped, or unmapped.          *)
LEMMA DoneKept ==
  ASSUME PagesInv, NEW v \in Vms, Done(v)
  PROVE  Kept
<1>1. /\ op[v].kind \in {"anon", "phys", "copy", "unmap"} /\ op[v].next > op[v].last
      /\ op' = [op EXCEPT ![v] = Idle] /\ UNCHANGED memVars
      /\ live' = live /\ table' = table /\ entry' = entry /\ astray' = astray
  BY DEF Done, Finish
<1>2. MapOk(v) /\ UnmapOk(v) /\ op[v] \in Ops
  BY DEF PagesInv, CallOk, TablesTyped
<1>3. op[v].next \in Nat /\ op[v].first \in Nat /\ op[v].last \in Int
  BY <1>2 DEF Ops
<1>4. /\ op' \in [Vms -> Ops] /\ op'[v] = Idle /\ \A u \in Vms \ {v} : op'[u] = op[u]
  BY <1>1, IdleType, NextCall
<1>5. TablesTyped'
  BY <1>1, <1>4 DEF PagesInv, TablesTyped
<1>6. \A u \in Vms \ {v} : Same(u)
  BY <1>1, <1>4 DEF Same
<1>7. v \in live' /\ op[v].last <= LastAddr
  <2>1. v \in live /\ (op[v].last \in Addrs \/ op[v].last <= LastAddr)
    BY <1>1, <1>2 DEF MapOk, UnmapOk, MapKinds
  <2> QED
    BY <1>1, <2>1, AddrFacts
<1>8. CallOk(v)'
  BY <1>4, <1>7, IdleType, IdlesKept DEF IdleOk
<1>9. WholeOf(v)
  <2>1. ASSUME NEW a \in op[v].first..op[v].last
        PROVE  a \in Addrs /\ op[v].first <= a /\ a < op[v].next
    BY <1>1, <1>3, <1>7, AddrFacts
  <2>2. CASE op[v].kind \in {"anon", "phys", "copy"}
    <3>1. \A a \in Addrs : op[v].first <= a /\ a < op[v].next => Present(v, a)
      BY <1>2, <2>2 DEF MapOk, MapKinds
    <3>2. \A a \in op[v].first..op[v].last : Present(v, a)
      BY <2>1, <3>1
    <3> QED
      BY <2>2, <3>2 DEF WholeOf
  <2>3. CASE op[v].kind = "unmap"
    <3>1. \A a \in Addrs : op[v].first <= a /\ a < op[v].next => ~Present(v, a)
      BY <1>2, <2>3 DEF UnmapOk
    <3>2. \A a \in op[v].first..op[v].last : ~Present(v, a)
      BY <2>1, <3>1
    <3> QED
      BY <2>3, <3>2 DEF WholeOf
  <2> QED
    BY <1>1, <2>2, <2>3
<1>10. CallsKept
  BY <1>6, <1>8, <1>9, OneKept
<1> QED
  BY <1>1, <1>5, <1>10, SameCounts, SameRefers, StepKept

-----------------------------------------------------------------------------
(* Cloning and destroying an address space.                                *)

(* An operation that is none of the four that map and unmap ends.          *)
LEMMA OtherWhole ==
  ASSUME NEW v, op[v].kind \notin {"anon", "phys", "copy", "unmap"}
  PROVE  WholeOf(v)
  BY DEF WholeOf

(* page_directory_clone_current begins with an empty address space.        *)
LEMMA BeginCloneKept ==
  ASSUME PagesInv, NEW v \in Vms, NEW w \in Vms, BeginClone(v, w)
  PROVE  Kept
<1> DEFINE r == [Idle EXCEPT !.kind = "clone", !.last = LastAddr, !.of = {v}]
           s == [Idle EXCEPT !.kind = "clone"]
<1>1. /\ v \in live /\ w \notin live /\ op[v] = Idle /\ op[w] = Idle
      /\ op' = [op EXCEPT ![w] = r, ![v] = s] /\ UNCHANGED memVars
      /\ live' = live /\ table' = table /\ entry' = entry /\ astray' = astray
  BY DEF BeginClone
<1>2. LastAddr \in Int
  BY AddrFacts
<1>3. /\ r \in Ops /\ r.kind = "clone" /\ r.last = LastAddr /\ r.next = 0
      /\ s \in Ops /\ s.kind = "clone"
  BY <1>2, IdleType DEF Idle, Ops, OpKinds
<1> HIDE DEF r, s
<1>4. op \in [Vms -> Ops]
  BY DEF PagesInv, TablesTyped
<1>5. /\ op' \in [Vms -> Ops] /\ op'[w] = r /\ op'[v] = s
      /\ \A u \in Vms \ {v, w} : op'[u] = op[u]
  BY <1>1, <1>3, <1>4
<1>6. TablesTyped'
  BY <1>1, <1>5 DEF PagesInv, TablesTyped
<1>7. \A u \in Vms \ {v, w} : Same(u)
  BY <1>1, <1>5 DEF Same
<1>8. CallOk(v)' /\ WholeOf(v)
  BY <1>1, <1>3, <1>5, ClonesKept DEF CloneOk, WholeOf
<1>9. CallOk(w)' /\ WholeOf(w)
  <2>1. Blank(w, 0)
    BY <1>1, IdleType DEF PagesInv, CallOk, IdleOk
  <2>2. Blank(w, 0)'
    BY <1>1, <2>1 DEF Blank, Present
  <2>3. CloneOk(w)'
    BY <1>3, <1>5, <2>2 DEF CloneOk
  <2> QED
    BY <1>1, <1>3, <1>5, <2>3, ClonesKept DEF WholeOf
<1>10. CallsKept
  BY <1>7, <1>8, <1>9, SameKept DEF CallsKept, PagesInv
<1> QED
  BY <1>1, <1>6, <1>10, SameCounts, SameRefers, StepKept

(* What is known of the clone and of the page it comes to now.             *)
LEMMA CloneNow ==
  ASSUME PagesInv, NEW v \in Vms, NEW w \in Vms, Source(v, w)
  PROVE  /\ v # w /\ v \in live /\ w \notin live /\ op[v].kind = "clone" /\ op[w].kind = "clone"
         /\ op[w] \in Ops /\ op[w].next \in Nat /\ op[w].last = LastAddr
         /\ Blank(w, op[w].next)
         /\ op[w].next <= op[w].last => op[w].next \in Addrs /\ ~Present(w, op[w].next)
<1>1. v # w /\ v \in live /\ w \notin live /\ op[v].kind = "clone" /\ op[w].kind = "clone"
  BY DEF Source
<1>2. CloneOk(w) /\ op[w] \in Ops
  BY DEF PagesInv, CallOk, TablesTyped
<1>3. op[w].last = LastAddr /\ Blank(w, op[w].next) /\ op[w].next \in Nat
  BY <1>1, <1>2 DEF CloneOk, Ops
<1>4. ASSUME op[w].next <= op[w].last
      PROVE  op[w].next \in Addrs
  BY <1>3, <1>4, AddrFacts
<1>5. ASSUME op[w].next <= op[w].last
      PROVE  ~Present(w, op[w].next)
  BY <1>3, <1>4, <1>5 DEF Blank
<1> QED
  BY <1>1, <1>2, <1>3, <1>4, <1>5

(* A page table for the clone.                                             *)
LEMMA CloneTableKept ==
  ASSUME PagesInv, NEW v \in Vms, NEW w \in Vms, CloneTable(v, w)
  PROVE  Kept
<1> DEFINE i == TableOf(op[w].next)
<1>1. /\ Source(v, w) /\ op[w].next <= op[w].last /\ table[w][i] = NoPage
      /\ live' = live /\ entry' = entry /\ op' = op /\ astray' = astray
      /\ \E p \in PhysPages : PageAlloc(p) /\ table' = [table EXCEPT ![w][i] = p]
  BY DEF CloneTable
<1>2. PICK p \in PhysPages : PageAlloc(p) /\ table' = [table EXCEPT ![w][i] = p]
  BY <1>1
<1>3. i \in Tables
  BY <1>1, CloneNow, AddrFacts
<1> HIDE DEF i
<1>4. TablesTyped'
  BY <1>1, <1>2, <1>3 DEF PagesInv, TablesTyped
<1>5. Refers(p, 1)
  BY <1>1, <1>2, <1>3, TableRefers
<1>6. \A u \in Vms : Same(u)
  BY <1>1 DEF Same
<1>7. CallsKept
  BY <1>6, SameKept DEF CallsKept, PagesInv
<1> QED
  BY <1>2, <1>4, <1>5, <1>7, AllocCounts, StepKept

(* The clone comes to its next page; this one may have got an entry.       *)
LEMMA ClonedOn ==
  ASSUME PagesInv, NEW v \in Vms, NEW w \in Vms, Source(v, w), op[w].next <= op[w].last,
         Step(w), live' = live, \A u \in Vms \ {w} : entry'[u] = entry[u],
         \A b \in Addrs : b # op[w].next => (Present(w, b)' <=> Present(w, b))
  PROVE  CallsKept
<1>1. /\ w \notin live /\ op[w].kind = "clone" /\ op[w].next \in Nat /\ op[w].last = LastAddr
      /\ Blank(w, op[w].next)
  BY CloneNow
<1>2. /\ \A u \in Vms \ {w} : op'[u] = op[u]
      /\ op'[w].kind = op[w].kind /\ op'[w].last = op[w].last /\ op'[w].next = op[w].next + 1
      /\ WholeOf(w)
  BY <1>1, NextPage
<1>3. \A u \in Vms \ {w} : Same(u)
  BY <1>2 DEF Same
<1>4. \A b \in Addrs : b >= op[w].next + 1 => ~Present(w, b)'
  BY <1>1, AddrFacts DEF Blank
<1>5. CloneOk(w)'
  BY <1>1, <1>2, <1>4 DEF CloneOk, Blank
<1> QED
  BY <1>1, <1>2, <1>3, <1>5, ClonesKept, OneKept

(* Nothing to clone at this page.                                          *)
LEMMA CloneAbsentKept ==
  ASSUME PagesInv, NEW v \in Vms, NEW w \in Vms, CloneAbsent(v, w)
  PROVE  Kept
<1>1. /\ Source(v, w) /\ op[w].next <= op[w].last /\ Step(w) /\ UNCHANGED memVars
      /\ live' = live /\ table' = table /\ entry' = entry /\ astray' = astray
  BY DEF CloneAbsent
<1>2. \A b : Present(w, b)' <=> Present(w, b)
  BY <1>1 DEF Present
<1>3. CallsKept
  BY <1>1, <1>2, ClonedOn
<1>4. TablesTyped'
  BY <1>1, NextPage DEF PagesInv, TablesTyped
<1> QED
  BY <1>1, <1>3, <1>4, SameCounts, SameRefers, StepKept

(* One page is mapped in the clone.                                        *)
LEMMA PageCloned ==
  ASSUME PagesInv, NEW v \in Vms, NEW w \in Vms, Source(v, w), op[w].next <= op[w].last,
         NEW e \in Entries, SetEntry(w, op[w].next, e), Step(w),
         UNCHANGED <<live, table, astray>>, Counts(e.page, 1)
  PROVE  Kept
<1>1. op[w].next \in Addrs /\ ~Present(w, op[w].next)
  BY CloneNow
<1>2. /\ entry' \in [Vms -> [Addrs -> Entries]]
      /\ \A u \in Vms \ {w} : entry'[u] = entry[u]
      /\ \A b \in Addrs : Present(w, b)' <=>
           IF b = op[w].next THEN e.page # NoPage ELSE Present(w, b)
  BY <1>1, EntryTyped
<1>3. \A b \in Addrs : b # op[w].next => (Present(w, b)' <=> Present(w, b))
  BY <1>2
<1>4. CallsKept
  BY <1>2, <1>3, ClonedOn
<1>5. Refers(e.page, 1)
  BY <1>1, MapRefers
<1>6. TablesTyped'
  BY <1>2, NextPage DEF PagesInv, TablesTyped
<1> QED
  BY <1>4, <1>5, <1>6, StepKept

(* A shared page gets one more reference.                                  *)
LEMMA CloneSharedKept ==
  ASSUME PagesInv, NEW v \in Vms, NEW w \in Vms, CloneShared(v, w)
  PROVE  Kept
<1> DEFINE e == entry[v][op[w].next]
<1>1. /\ Source(v, w) /\ op[w].next <= op[w].last /\ PageRef(e.page)
      /\ SetEntry(w, op[w].next, e) /\ Step(w) /\ UNCHANGED <<live, table, astray>>
  BY DEF CloneShared
<1>2. e \in Entries
  BY <1>1, CloneNow DEF PagesInv, TablesTyped
<1>3. Counts(e.page, 1)
  BY <1>1, RefCounts
<1> HIDE DEF e
<1> QED
  BY <1>1, <1>2, <1>3, PageCloned

(* A private page is copied to a new one.                                  *)
LEMMA CloneCopyKept ==
  ASSUME PagesInv, NEW v \in Vms, NEW w \in Vms, CloneCopy(v, w)
  PROVE  Kept
<1> DEFINE e(p) == [page |-> p, shared |-> FALSE]
<1>1. /\ Source(v, w) /\ op[w].next <= op[w].last /\ Step(w) /\ UNCHANGED <<live, table, astray>>
      /\ \E p \in PhysPages : PageAlloc(p) /\ SetEntry(w, op[w].next, e(p))
  BY DEF CloneCopy
<1>2. PICK p \in PhysPages : PageAlloc(p) /\ SetEntry(w, op[w].next, e(p))
  BY <1>1
<1>3. e(p) \in Entries /\ e(p).page = p
  BY DEF Entries
<1>4. Counts(p, 1)
  BY <1>2, AllocCounts
<1> HIDE DEF e
<1> QED
  BY <1>1, <1>2, <1>3, <1>4, PageCloned

(* The clone is over, whole or given up.                                   *)
LEMMA CloneOver ==
  ASSUME PagesInv, NEW v \in Vms, NEW w \in Vms, Source(v, w),
         op' = [op EXCEPT ![v] = Idle, ![w] = Idle],
         \A u \in Vms \ {w} : entry'[u] = entry[u] /\ (u \in live' <=> u \in live),
         w \in live' \/ \A b \in Addrs : ~Present(w, b)'
  PROVE  CallsKept /\ op' \in [Vms -> Ops]
<1>1. /\ v # w /\ v \in live /\ op[v].kind = "clone" /\ op[w].kind = "clone"
  BY CloneNow
<1>2. op \in [Vms -> Ops] /\ Idle \in Ops /\ Idle.kind = "idle"
  BY IdleType DEF PagesInv, TablesTyped
<1>3. /\ op' \in [Vms -> Ops] /\ op'[w] = Idle /\ op'[v] = Idle
      /\ \A u \in Vms \ {v, w} : op'[u] = op[u]
  BY <1>2
<1>4. \A u \in Vms \ {v, w} : Same(u)
  BY <1>3 DEF Same
<1>5. CallOk(v)' /\ WholeOf(v)
  BY <1>1, <1>2, <1>3, IdlesKept, OtherWhole DEF IdleOk
<1>6. CallOk(w)' /\ WholeOf(w)
  BY <1>1, <1>2, <1>3, IdlesKept, OtherWhole DEF IdleOk, Blank
<1> QED
  BY <1>3, <1>4, <1>5, <1>6, SameKept DEF CallsKept, PagesInv

(* The clone is whole.                                                     *)
LEMMA CloneDoneKept ==
  ASSUME PagesInv, NEW v \in Vms, NEW w \in Vms, CloneDone(v, w)
  PROVE  Kept
<1>1. /\ Source(v, w) /\ op' = [op EXCEPT ![v] = Idle, ![w] = Idle] /\ live' = live \cup {w}
      /\ UNCHANGED memVars /\ table' = table /\ entry' = entry /\ astray' = astray
  BY DEF CloneDone
<1>2. CallsKept /\ op' \in [Vms -> Ops]
  BY <1>1, CloneOver
<1>3. TablesTyped'
  BY <1>1, <1>2 DEF PagesInv, TablesTyped
<1> QED
  BY <1>1, <1>2, <1>3, SameCounts, SameRefers, StepKept

(* Out of pages: the clone is lost with what it refers to.                 *)
LEMMA CloneFailKept ==
  ASSUME PagesInv, NEW v \in Vms, NEW w \in Vms, CloneFail(v, w)
  PROVE  Kept
<1>1. /\ Source(v, w) /\ op' = [op EXCEPT ![v] = Idle, ![w] = Idle] /\ live' = live
      /\ astray' = [p \in PhysPages |-> astray[p] + Mappings(w, p)]
      /\ table' = [table EXCEPT ![w] = [i \in Tables |-> NoPage]]
      /\ entry' = [entry EXCEPT ![w] = [b \in Addrs |-> NotPresent]]
      /\ UNCHANGED memVars
  BY DEF CloneFail
<1>2. /\ entry \in [Vms -> [Addrs -> Entries]] /\ NotPresent \in Entries
      /\ table \in [Vms -> [Tables -> PhysPages \cup {NoPage}]]
  BY IdleType DEF PagesInv, TablesTyped
<1>3. /\ entry' \in [Vms -> [Addrs -> Entries]]
      /\ table' \in [Vms -> [Tables -> PhysPages \cup {NoPage}]]
      /\ \A u \in Vms \ {w} : entry'[u] = entry[u]
      /\ \A b \in Addrs : entry'[w][b] = NotPresent
  BY <1>1, <1>2
<1>4. \A b \in Addrs : ~Present(w, b)'
  BY <1>3 DEF Present, NotPresent
<1>5. CallsKept /\ op' \in [Vms -> Ops]
  BY <1>1, <1>3, <1>4, CloneOver
<1>6. TablesTyped'
  BY <1>1, <1>3, <1>5 DEF PagesInv, TablesTyped
<1>7. Refers(NoPage, 0)
  BY <1>1, ForgottenRefers
<1> QED
  BY <1>1, <1>5, <1>6, <1>7, SameCounts, StepKept

(* page_directory_destroy_current begins.                                  *)
LEMMA BeginDestroyKept ==
  ASSUME PagesInv, NEW v \in Vms, BeginDestroy(v)
  PROVE  Kept
<1> DEFINE r == [Idle EXCEPT !.kind = "destroy", !.last = LastAddr]
<1>1. /\ op[v] = Idle /\ op' = [op EXCEPT ![v] = r] /\ live' = live \ {v} /\ UNCHANGED memVars
      /\ table' = table /\ entry' = entry /\ astray' = astray
  BY DEF BeginDestroy
<1>2. r \in Ops /\ r.kind = "destroy" /\ r.last = LastAddr
  BY AddrFacts, IdleType DEF Idle, Ops, OpKinds
<1> HIDE DEF r
<1>3. /\ op' \in [Vms -> Ops] /\ op'[v] = r /\ \A u \in Vms \ {v} : op'[u] = op[u]
  BY <1>1, <1>2, NextCall
<1>4. TablesTyped'
  BY <1>1, <1>3 DEF PagesInv, TablesTyped
<1>5. \A u \in Vms \ {v} : Same(u)
  BY <1>1, <1>3 DEF Same
<1>6. CallOk(v)' /\ WholeOf(v)
  BY <1>1, <1>2, <1>3, DestroysKept DEF DestroyOk, WholeOf
<1>7. CallsKept
  BY <1>5, <1>6, OneKept
<1> QED
  BY <1>1, <1>4, <1>7, SameCounts, SameRefers, StepKept

(* It drops a reference for every entry present.                           *)
LEMMA DestroyKept ==
  ASSUME PagesInv, NEW v \in Vms, Destroy(v)
  PROVE  Kept
<1> DEFINE p == Dropped(v, op[v].next)
<1>1. /\ op[v].kind = "destroy" /\ Step(v) /\ live' = live /\ table' = table /\ entry' = entry
      /\ \/ /\ PageUnref(p)
            /\ astray' = IF p \in PhysPages THEN [astray EXCEPT ![p] = @ - 1] ELSE astray
         \/ UNCHANGED memVars /\ astray' = astray
  BY DEF Destroy
<1> HIDE DEF p
<1>2. DestroyOk(v)
  BY DEF PagesInv, CallOk
<1>3. /\ op' \in [Vms -> Ops] /\ \A u \in Vms \ {v} : op'[u] = op[u]
      /\ op'[v].kind = op[v].kind /\ op'[v].last = op[v].last /\ WholeOf(v)
  BY <1>1, NextPage
<1>4. TablesTyped'
  BY <1>1, <1>3 DEF PagesInv, TablesTyped
<1>5. \A u \in Vms \ {v} : Same(u)
  BY <1>1, <1>3 DEF Same
<1>6. CallOk(v)'
  BY <1>1, <1>2, <1>3, DestroysKept DEF DestroyOk
<1>7. CallsKept
  BY <1>3, <1>5, <1>6, OneKept
<1>8. CASE /\ PageUnref(p)
           /\ astray' = IF p \in PhysPages THEN [astray EXCEPT ![p] = @ - 1] ELSE astray
  <2>1. Counts(p, -1) /\ Refers(p, -1)
    BY <1>1, <1>8, UnrefCounts, AstrayRefers
  <2> QED
    BY <1>4, <1>7, <2>1, StepKept
<1>9. CASE UNCHANGED memVars /\ astray' = astray
  BY <1>1, <1>4, <1>7, <1>9, SameCounts, SameRefers, StepKept
<1> QED
  BY <1>1, <1>8, <1>9

(* The entries go with their tables.                                       *)
LEMMA DestroyEntriesKept ==
  ASSUME PagesInv, NEW v \in Vms, DestroyEntries(v)
  PROVE  Kept
<1> DEFINE r == [Idle EXCEPT !.kind = "tables", !.last = NumTables - 1]
<1>1. /\ op[v].kind = "destroy" /\ op' = [op EXCEPT ![v] = r] /\ UNCHANGED memVars
      /\ astray' = [p \in PhysPages |->
                      astray[p] + Cardinality({b \in Addrs : entry[v][b].page = p})]
      /\ entry' = [entry EXCEPT ![v] = [b \in Addrs |-> NotPresent]]
      /\ live' = live /\ table' = table
  BY DEF DestroyEntries
<1>2. r \in Ops /\ r.kind = "tables" /\ r.last = NumTables - 1
  <2>1. NumTables - 1 \in Int
    BY AddrFacts
  <2> QED
    BY <2>1, IdleType DEF Idle, Ops, OpKinds
<1> HIDE DEF r
<1>3. /\ op' \in [Vms -> Ops] /\ op'[v] = r /\ \A u \in Vms \ {v} : op'[u] = op[u]
  BY <1>1, <1>2, NextCall
<1>4. entry \in [Vms -> [Addrs -> Entries]] /\ NotPresent \in Entries
  BY IdleType DEF PagesInv, TablesTyped
<1>5. /\ entry' \in [Vms -> [Addrs -> Entries]]
      /\ \A u \in Vms \ {v} : entry'[u] = entry[u]
      /\ \A b \in Addrs : entry'[v][b] = NotPresent
  BY <1>1, <1>4
<1>6. TablesTyped'
  BY <1>1, <1>3, <1>5 DEF PagesInv, TablesTyped
<1>7. \A u \in Vms \ {v} : Same(u)
  BY <1>1, <1>3, <1>5 DEF Same
<1>8. Blank(v, 0)'
  BY <1>5 DEF Blank, Present, NotPresent
<1>9. v \notin live
  BY <1>1 DEF PagesInv, CallOk, DestroyOk
<1>10. CallOk(v)' /\ WholeOf(v)
  BY <1>1, <1>2, <1>3, <1>8, <1>9, TableCallsKept, OtherWhole DEF TablesOk
<1>11. CallsKept
  BY <1>7, <1>10, OneKept
<1>12. Refers(NoPage, 0)
  BY <1>1, ForgottenRefers
<1> QED
  BY <1>1, <1>6, <1>11, <1>12, SameCounts, StepKept

(* A page table is given back.                                             *)
LEMMA DestroyTableKept ==
  ASSUME PagesInv, NEW v \in Vms, DestroyTable(v)
  PROVE  Kept
<1> DEFINE i == op[v].next
<1>1. /\ op[v].kind = "tables" /\ i <= op[v].last /\ Step(v)
      /\ IF table[v][i] # NoPage THEN PageUnref(table[v][i]) ELSE UNCHANGED memVars
      /\ table' = [table EXCEPT ![v][i] = NoPage]
      /\ live' = live /\ entry' = entry /\ astray' = astray
  BY DEF DestroyTable
<1>2. TablesOk(v) /\ op[v] \in Ops
  BY DEF PagesInv, CallOk, TablesTyped
<1>3. v \notin live /\ op[v].last = NumTables - 1 /\ Blank(v, 0) /\ i \in Nat
  BY <1>1, <1>2 DEF TablesOk, Ops
<1>4. i \in Tables
  BY <1>1, <1>3, AddrFacts DEF Tables
<1>5. /\ op' \in [Vms -> Ops] /\ \A u \in Vms \ {v} : op'[u] = op[u]
      /\ op'[v].kind = op[v].kind /\ op'[v].last = op[v].last /\ WholeOf(v)
  BY <1>1, NextPage
<1> HIDE DEF i
<1>6. TablesTyped'
  BY <1>1, <1>4, <1>5 DEF PagesInv, TablesTyped
<1>7. \A u \in Vms \ {v} : Same(u)
  BY <1>1, <1>5 DEF Same
<1>8. Blank(v, 0)'
  BY <1>1, <1>3 DEF Blank, Present
<1>9. CallOk(v)'
  BY <1>1, <1>3, <1>5, <1>8, TableCallsKept DEF TablesOk
<1>10. CallsKept
  BY <1>5, <1>7, <1>9, OneKept
<1>11. Refers(table[v][i], -1)
  BY <1>1, <1>4, TableRefers
<1>12. Counts(table[v][i], -1)
  <2>1. CASE table[v][i] # NoPage
    BY <1>1, <2>1, UnrefCounts
  <2>2. CASE table[v][i] = NoPage
    <3>1. Counts(NoPage, 0) /\ NoPage \notin PhysPages
      BY <1>1, <2>2, SameCounts, AddrFacts
    <3> QED
      BY <2>2, <3>1 DEF Counts
  <2> QED
    BY <2>1, <2>2
<1> QED
  BY <1>6, <1>10, <1>11, <1>12, StepKept

(* The page directory is gone.                                             *)
LEMMA DestroyDoneKept ==
  ASSUME PagesInv, NEW v \in Vms, DestroyDone(v)
  PROVE  Kept
<1>1. /\ op[v].kind = "tables" /\ op' = [op EXCEPT ![v] = Idle] /\ UNCHANGED memVars
      /\ live' = live /\ table' = table /\ entry' = entry /\ astray' = astray
  BY DEF DestroyDone, Finish
<1>2. /\ op' \in [Vms -> Ops] /\ op'[v] = Idle /\ \A u \in Vms \ {v} : op'[u] = op[u]
  BY <1>1, IdleType, NextCall
<1>3. TablesTyped'
  BY <1>1, <1>2 DEF PagesInv, TablesTyped
<1>4. \A u \in Vms \ {v} : Same(u)
  BY <1>1, <1>2 DEF Same
<1>5. Blank(v, 0)
  BY <1>1 DEF PagesInv, CallOk, TablesOk
<1>6. Blank(v, 0)'
  BY <1>1, <1>5 DEF Blank, Present
<1>7. CallOk(v)' /\ WholeOf(v)
  BY <1>1, <1>2, <1>6, IdleType, IdlesKept, OtherWhole DEF IdleOk
<1>8. CallsKept
  BY <1>4, <1>7, OneKept
<1> QED
  BY <1>1, <1>3, <1>8, SameCounts, SameRefers, StepKept

-----------------------------------------------------------------------------
(* What page_init leaves.                                                  *)
LEMMA PagesInit ==
  ASSUME Init
  PROVE  PagesInv
<1>1. /\ refs = [p \in PhysPages |-> IF p \in Reserved THEN MaxRef ELSE 0]
      /\ free = PhysPages \ Reserved /\ stats = Cardinality(PhysPages \ Reserved)
      /\ live = {InitVm} /\ table = [v \in Vms |-> [i \in Tables |-> NoPage]]
      /\ entry = [v \in Vms |-> [a \in Addrs |-> NotPresent]]
      /\ op = [v \in Vms |-> Idle] /\ astray = [p \in PhysPages |-> 0]
  BY DEF Init
<1>2. MaxRef \in Nat /\ MaxRef > 1 /\ IsFiniteSet(PhysPages) /\ NoPage \notin PhysPages
  BY AddrFacts
<1>3. TablesTyped
  BY <1>1, IdleType, VmsAssumption DEF TablesTyped
<1>4. PagesTyped
  <2>1. refs \in [PhysPages -> 0..MaxRef] /\ free \subseteq PhysPages
    BY <1>1, <1>2
  <2>2. \A p \in PhysPages : p \in free <=> refs[p] = 0
    BY <1>1, <1>2
  <2>3. stats = Cardinality(free) /\ stats \in Int
    <3>1. IsFiniteSet(free)
      BY <1>2, <2>1, FS_Subset
    <3>2. Cardinality(free) \in Nat
      BY <3>1, FS_CardinalityType
    <3> QED
      BY <1>1, <3>2
  <2> QED
    BY <2>1, <2>2, <2>3 DEF PagesTyped, BitmapExact
<1>5. RefsExact
  <2> SUFFICES ASSUME NEW p \in PhysPages \ Reserved
               PROVE  refs[p] = References(p)
    BY DEF RefsExact
  <2>1. refs[p] = 0 /\ astray[p] = 0
    BY <1>1
  <2>2. EntriesOf(p) = {} /\ TablesOf(p) = {}
    BY <1>1, <1>2 DEF EntriesOf, TablesOf, NotPresent
  <2> QED
    BY <2>1, <2>2, FS_EmptySet DEF References
<1>6. ASSUME NEW v \in Vms
      PROVE  CallOk(v)
  <2>1. op[v].kind = "idle" /\ \A a \in Addrs : ~Present(v, a)
    BY <1>1, IdleType DEF Present, NotPresent
  <2> QED
    BY <2>1 DEF CallOk, MapOk, UnmapOk, CloneOk, DestroyOk, TablesOk, IdleOk, MapKinds, Blank
<1> QED
  BY <1>1, <1>3, <1>4, <1>5, <1>6 DEF PagesInv

(* Every step keeps the invariant, saturated counts and whole ranges.      *)
LEMMA PagesStep ==
  ASSUME PagesInv, Next
  PROVE  Kept
<1>1. ASSUME NEW v \in Vms, VmStep(v)
      PROVE  Kept
  <2>1. ASSUME NEW first \in Addrs, NEW last \in Addrs, first <= last, NEW shared \in BOOLEAN,
               BeginMapAnon(v, first, last, shared)
        PROVE  Kept
    <3>1. [page |-> NoPage, shared |-> shared] \in Entries
      BY DEF Entries
    <3> QED
      BY <2>1, <3>1, BeginKept DEF BeginMapAnon, MapKinds
  <2>2. ASSUME NEW first \in Addrs, NEW last \in Addrs, first <= last, BeginUnmap(v, first, last)
        PROVE  Kept
    BY <2>2, IdleType, BeginKept DEF BeginUnmap, MapKinds
  <2>3. ASSUME NEW a \in Addrs, NEW p \in Reserved \cup {Beyond}, BeginMapPhys(v, a, p)
        PROVE  Kept
    <3> DEFINE e == [page |-> p, shared |-> TRUE]
    <3>1. p \in PhysPages \cup {Beyond}
      BY ReservedAssumption DEF PhysPages
    <3>2. p # NoPage
      BY <3>1, SizesAssumption DEF PhysPages, Beyond, NoPage
    <3>3. e \in Entries /\ e.page # NoPage
      BY <3>1, <3>2 DEF Entries
    <3>4. a <= a /\ \A b \in a..a : b = a
      BY AddrFacts
    <3>5. Begin(v, "phys", a, a, e) /\ ~Present(v, a)
      BY <2>3 DEF BeginMapPhys
    <3> HIDE DEF e
    <3> QED
      BY <3>3, <3>4, <3>5, BeginKept DEF MapKinds
  <2>4. ASSUME NEW a \in Addrs, NEW b \in Addrs, BeginCopy(v, a, b)
        PROVE  Kept
    <3> DEFINE e == [page |-> entry[v][b].page, shared |-> TRUE]
    <3>1. entry[v][b] \in Entries
      BY DEF PagesInv, TablesTyped
    <3>2. Begin(v, "copy", a, a, e) /\ ~Present(v, a) /\ entry[v][b].page # NoPage
      BY <2>4 DEF BeginCopy, Present
    <3>3. e \in Entries /\ e.page # NoPage
      BY <3>1, <3>2 DEF Entries
    <3>4. a <= a /\ \A c \in a..a : c = a
      BY AddrFacts
    <3> HIDE DEF e
    <3> QED
      BY <3>2, <3>3, <3>4, BeginKept DEF MapKinds
  <2>5. CASE MapAnon(v) \/ MakeTable(v) \/ MapPage(v) \/ MapFail(v) \/ Unmap(v) \/ Done(v)
    BY <2>5, MapAnonKept, MakeTableKept, MapPageKept, MapFailKept, UnmapKept, DoneKept
  <2>6. CASE BeginDestroy(v) \/ Destroy(v) \/ DestroyEntries(v) \/ DestroyTable(v) \/ DestroyDone(v)
    BY <2>6, BeginDestroyKept, DestroyKept, DestroyEntriesKept, DestroyTableKept, DestroyDoneKept
  <2> QED
    BY <1>1, <2>1, <2>2, <2>3, <2>4, <2>5, <2>6 DEF VmStep
<1>2. ASSUME NEW v \in Vms, NEW w \in Vms, CloneStep(v, w)
      PROVE  Kept
  BY <1>2, BeginCloneKept, CloneTableKept, CloneAbsentKept, CloneSharedKept, CloneCopyKept,
     CloneDoneKept, CloneFailKept DEF CloneStep
<1> QED
  BY <1>1, <1>2 DEF Next

(* A step of others keeps the invariant.                                   *)
LEMMA PagesStutter ==
  ASSUME PagesInv, UNCHANGED vars
  PROVE  PagesInv'
<1>1. UNCHANGED memVars /\ live' = live /\ table' = table /\ entry' = entry /\ op' = op
        /\ astray' = astray
  BY DEF vars, memVars
<1>2. \A u \in Vms : Same(u)
  BY <1>1 DEF Same
<1>3. CallsKept
  BY <1>2, SameKept DEF CallsKept, PagesInv
<1>4. TablesTyped'
  BY <1>1 DEF PagesInv, TablesTyped
<1> QED
  BY <1>1, <1>3, <1>4, SameCounts, SameRefers, StepKept DEF Kept

(* Through every interleaving of mapping, unmapping, cloning and           *)
(* destroying in any number of address spaces, out of memory or not: a     *)
(* page is free exactly when its count is zero, the statistics count the   *)
(* free ones, and a count below saturation is the number of entries and    *)
(* page tables that refer to the page, but for what has gone astray.       *)
THEOREM FramesStayExact == Spec => []FramesExact
<1>1. Init => PagesInv
  BY PagesInit
<1>2. PagesInv /\ [Next]_vars => PagesInv'
  BY PagesStep, PagesStutter DEF Kept
<1>3. PagesInv => FramesExact
  BY DEF PagesInv, PagesTyped, FramesExact
<1> QED
  BY <1>1, <1>2, <1>3, PTL DEF Spec

(* When an operation that maps or unmaps returns, it has done the whole of *)
(* its range, or, out of memory, nothing of it; and page_ref and           *)
(* page_unref leave a saturated count where it is.                         *)
THEOREM MappingsStayExact == Spec => MappingsExact
<1>1. Init => PagesInv
  BY PagesInit
<1>2. PagesInv /\ [Next]_vars => PagesInv'
  BY PagesStep, PagesStutter DEF Kept
<1>3. PagesInv /\ [Next]_vars =>
        [\A v \in Vms : op[v] # Idle /\ op'[v] = Idle =>
           LET range == op[v].first..op[v].last
           IN CASE op[v].kind \in {"anon", "phys", "copy"} -> \A a \in range : Present(v, a)
                [] op[v].kind = "unmap" -> \A a \in range : ~Present(v, a)
                [] OTHER -> TRUE]_vars
  BY PagesStep DEF Kept, WholeOf
<1>4. PagesInv /\ [Next]_vars => [\A p \in PhysPages : refs[p] = MaxRef => refs'[p] = MaxRef]_vars
  BY PagesStep DEF Kept, Saturated
<1>5. Spec => AllOrNothing
  BY <1>1, <1>2, <1>3, PTL DEF Spec, AllOrNothing
<1>6. Spec => SaturatedStays
  BY <1>1, <1>2, <1>4, PTL DEF Spec, SaturatedStays
<1> QED
  BY <1>5, <1>6 DEF MappingsExact
=============================================================================
