---------------------------- MODULE DeviceProofs ----------------------------
(***************************************************************************)
(* The drivers of the sound card and of the disk hand their buffers to a   *)
(* device that works on its own, in order and without losing one, for      *)
(* rings of any size; poll, select and sleep return with the right answer  *)
(* and not too early, for any files, timeouts and clock.                   *)
(***************************************************************************)
EXTENDS MCDevices, FiniteSetTheorems, WellFoundedInduction, TLAPS

(* Division with remainder.                                                *)
LEMMA DivMod ==
  ASSUME NEW C \in Nat \ {0}, NEW k \in Nat
  PROVE  k \div C \in Nat /\ k % C \in 0..(C - 1) /\ k = (k \div C) * C + (k % C)
BY SMT

(* The multiples of C are at least C apart.                                *)
LEMMA Multiples ==
  ASSUME NEW C \in Nat \ {0}, NEW a \in Nat, NEW b \in Nat, a < b
  PROVE  a * C + C <= b * C
<1>1. PICK d \in Nat : b = a + 1 + d
  <2>1. b - a - 1 \in Nat
    OBVIOUS
  <2> QED
    BY <2>1
<1>2. b * C = a * C + C + d * C
  BY <1>1
<1>3. d * C >= 0
  OBVIOUS
<1> QED
  BY <1>2, <1>3

(* The remainder of a number written as a multiple of C and a rest.        *)
LEMMA Remainder ==
  ASSUME NEW C \in Nat \ {0}, NEW q \in Nat, NEW r \in 0..(C - 1)
  PROVE  (q * C + r) % C = r
<1> DEFINE k == q * C + r
<1>1. k \in Nat /\ k = q * C + r
  OBVIOUS
<1> HIDE DEF k
<1>2. PICK x \in Nat, y \in 0..(C - 1) : k = x * C + y /\ k % C = y
  BY <1>1, DivMod
<1>3. ~(q < x) /\ ~(x < q)
  BY <1>1, <1>2, Multiples
<1>4. q = x
  BY <1>3
<1>5. r = k % C
  BY <1>1, <1>2, <1>4
<1> QED
  BY <1>5 DEF k

(* Less than a round further, with and without a wrap-around.              *)
LEMMA Onwards ==
  ASSUME NEW C \in Nat \ {0}, NEW k \in Nat, NEW d \in 0..(C - 1)
  PROVE  /\ k % C \in 0..(C - 1)
         /\ (k + d) % C = IF (k % C) + d < C THEN (k % C) + d ELSE (k % C) + d - C
<1> DEFINE q == k \div C
           r == k % C
<1>1. q \in Nat /\ r \in 0..(C - 1) /\ k = q * C + r
  BY DivMod
<1> HIDE DEF q, r
<1>2. CASE r + d < C
  <2>1. k + d = q * C + (r + d) /\ r + d \in 0..(C - 1)
    BY <1>1, <1>2
  <2>2. (k + d) % C = r + d
    BY <1>1, <2>1, Remainder
  <2> QED
    BY <1>1, <1>2, <2>2 DEF r
<1>3. CASE ~(r + d < C)
  <2>1. k + d = (q + 1) * C + (r + d - C) /\ r + d - C \in 0..(C - 1) /\ q + 1 \in Nat
    BY <1>1, <1>3
  <2>2. (k + d) % C = r + d - C
    BY <2>1, Remainder
  <2> QED
    BY <1>1, <1>3, <2>2 DEF r
<1> QED
  BY <1>2, <1>3

(* The index after the next.                                               *)
LEMMA Following ==
  ASSUME NEW C \in Nat \ {0}, NEW k \in Nat
  PROVE  ((k % C) + 1) % C = (k + 1) % C
<1> DEFINE r == k % C
<1>1. r \in 0..(C - 1)
  BY DivMod
<1>2. CASE C = 1
  <2>1. r = 0
    BY <1>1, <1>2
  <2>2. (r + 1) % C \in 0..(C - 1) /\ (k + 1) % C \in 0..(C - 1)
    BY <2>1, DivMod
  <2> QED
    BY <1>2, <2>2
<1>3. CASE C # 1
  <2>1. 1 \in 0..(C - 1)
    BY <1>3
  <2>2. (k + 1) % C = IF r + 1 < C THEN r + 1 ELSE r + 1 - C
    BY <2>1, Onwards
  <2> HIDE DEF r
  <2>3. CASE r + 1 < C
    <3>1. r + 1 = 0 * C + (r + 1) /\ r + 1 \in 0..(C - 1)
      BY <1>1, <2>3
    <3>2. (r + 1) % C = r + 1
      BY <3>1, Remainder
    <3> QED
      BY <2>2, <2>3, <3>2 DEF r
  <2>4. CASE ~(r + 1 < C)
    <3>1. r + 1 = 1 * C + 0 /\ 0 \in 0..(C - 1)
      BY <1>1, <2>4
    <3>2. (r + 1) % C = 0
      BY <3>1, Remainder
    <3> QED
      BY <1>1, <2>2, <2>4, <3>2 DEF r
  <2> QED
    BY <2>3, <2>4
<1> QED
  BY <1>2, <1>3

(* How far apart two indexes are, computed from the indexes.               *)
LEMMA Distance ==
  ASSUME NEW C \in Nat \ {0}, NEW k \in Nat, NEW d \in 0..(C - 1)
  PROVE  (((k + d) % C) + C - (k % C)) % C = d
<1> DEFINE r == k % C
           s == (k + d) % C
<1>1. r \in 0..(C - 1) /\ s = IF r + d < C THEN r + d ELSE r + d - C
  BY Onwards
<1> HIDE DEF r, s
<1>2. CASE r + d < C
  <2>1. s + C - r = 1 * C + d
    BY <1>1, <1>2
  <2> QED
    BY <2>1, Remainder DEF r, s
<1>3. CASE ~(r + d < C)
  <2>1. s + C - r = 0 * C + d
    BY <1>1, <1>3
  <2> QED
    BY <2>1, Remainder DEF r, s
<1> QED
  BY <1>2, <1>3

(* Indexes less than a round apart differ.                                 *)
LEMMA Apart ==
  ASSUME NEW C \in Nat \ {0}, NEW i \in Nat, NEW j \in Nat, i < j, j - i < C
  PROVE  i % C # j % C
<1> DEFINE d == j - i
<1>1. d \in 0..(C - 1) /\ d # 0 /\ j = i + d
  OBVIOUS
<1> HIDE DEF d
<1>2. (i % C) \in 0..(C - 1) /\ (i + d) % C = IF (i % C) + d < C THEN (i % C) + d ELSE (i % C) + d - C
  BY <1>1, Onwards
<1> QED
  BY <1>1, <1>2
-----------------------------------------------------------------------------
(* The sound card.  Buffers are counted from the first: Posted have been   *)
(* handed to the controller, Heard have been played, and civ is the index  *)
(* of number Current, which is played or, when the controller has halted,  *)
(* was the last to be.                                                     *)
SoundParameters ==
  Pages \in Nat \ {0} /\ Entries \in Nat \ {0} /\ Pages <= Entries

Posted == next - 1
Heard == Len(played)
Current == IF device = "halted" THEN Heard - 1 ELSE Heard

SoundTypes ==
  /\ next \in Nat \ {0} /\ played \in Seq(Nat) /\ running \in BOOLEAN
  /\ device \in {"stopped", "playing", "halted"}
  /\ soundAt \in {"idle", "last", "decide", "full", "block", "again", "copy", "post"}
  /\ content \in [0..(Pages - 1) -> Nat] /\ list \in [0..(Entries - 1) -> 0..(Pages - 1)]
  /\ page = Posted % Pages /\ idx = Posted % Entries

(* Before the first buffer, and from then on: no more are under way than   *)
(* there are pages, and one less when the writer has found room.           *)
Silent == ~running /\ Posted = 0 /\ device = "stopped" /\ civ = 0 /\ lvi = 0 /\ Heard = 0
Sounding ==
  /\ running /\ Posted > 0 /\ device \in {"playing", "halted"} /\ (device = "halted" => Heard > 0)
  /\ lvi = (Posted - 1) % Entries /\ civ = Current % Entries
  /\ Current <= Posted - 1 /\ Posted - Current <= Pages
  /\ soundAt \in {"copy", "post"} => Posted - Current < Pages

(* The buffers under way are where the controller will look for them.      *)
Stored ==
  /\ \A i \in Heard..(Posted - 1) : list[i % Entries] = i % Pages /\ content[i % Pages] = i + 1
  /\ soundAt = "post" => content[page] = next

(* The index the writer has read is, or was, the current one.              *)
ReadBefore ==
  /\ soundAt \in {"last", "decide"} =>
       IF running THEN \E c \in Nat : /\ c <= Current /\ Posted - c <= Pages
                                      /\ cur = c % Entries
       ELSE cur = 0
  /\ soundAt = "decide" => last = lvi
  /\ soundAt \in {"full", "block", "again"} => running

SoundInv ==
  /\ SoundTypes /\ (Silent \/ Sounding) /\ Stored /\ ReadBefore
  /\ \A i \in DOMAIN played : played[i] = i

(* Nothing has been written.                                               *)
LEMMA InitSoundInv ==
  ASSUME SoundParameters, A!Init
  PROVE  SoundInv
<1>1. 0 % Pages = 0 /\ 0 % Entries = 0
  <2>1. 0 = 0 * Pages + 0 /\ 0 = 0 * Entries + 0
    BY DEF SoundParameters
  <2> QED
    BY <2>1, Remainder DEF SoundParameters
<1>2. next = 1 /\ played = <<>> /\ Posted = 0 /\ Heard = 0
  BY DEF A!Init, Posted, Heard
<1>3. SoundTypes
  BY <1>1, <1>2 DEF A!Init, SoundTypes, SoundParameters
<1>4. Silent
  BY <1>2 DEF A!Init, Silent
<1> QED
  BY <1>2, <1>3, <1>4 DEF A!Init, SoundInv, Stored, ReadBefore

(* What the writer computes from the indexes it read: at least as many     *)
(* buffers as are under way, and no more than there are pages.             *)
LEMMA HeadDistance ==
  ASSUME SoundParameters, SoundInv, soundAt = "decide"
  PROVE  /\ A!head_distance \in 0..Pages
         /\ Silent => A!head_distance = 0
         /\ Sounding => Posted - Current <= A!head_distance
<1>1. /\ (Silent \/ Sounding) /\ last = lvi
      /\ Pages \in Nat \ {0} /\ Entries \in Nat \ {0} /\ Pages <= Entries
      /\ Posted \in Nat /\ Current \in Int
  BY DEF SoundInv, SoundTypes, ReadBefore, SoundParameters, Posted, Current, Heard
<1>2. CASE Silent
  <2>1. cur = 0 /\ last = 0 /\ ~running
    BY <1>1, <1>2 DEF SoundInv, ReadBefore, Silent
  <2>2. last + Entries - cur = 1 * Entries + 0 /\ 0 \in 0..(Entries - 1)
    BY <1>1, <2>1
  <2>3. (last + Entries - cur) % Entries = 0
    BY <1>1, <2>2, Remainder
  <2>4. A!head_distance = 0
    BY <2>1, <2>3 DEF A!head_distance
  <2> QED
    BY <1>1, <1>2, <2>4 DEF Silent, Sounding
<1>3. CASE Sounding
  <2>1. PICK c \in Nat : c <= Current /\ Posted - c <= Pages /\ cur = c % Entries
    BY <1>3 DEF SoundInv, ReadBefore, Sounding
  <2> DEFINE d == Posted - 1 - c
  <2>2. Current <= Posted - 1 /\ running /\ lvi = (Posted - 1) % Entries
    BY <1>3 DEF Sounding
  <2>3. d \in 0..(Entries - 1) /\ Posted - 1 = c + d /\ d < Pages
    BY <1>1, <2>1, <2>2
  <2>4. d + 1 = Posted - c
    BY <1>1
  <2> HIDE DEF d
  <2>5. (((c + d) % Entries) + Entries - (c % Entries)) % Entries = d
    BY <1>1, <2>3, Distance
  <2>6. A!head_distance = d + 1
    BY <1>1, <2>1, <2>2, <2>3, <2>5 DEF A!head_distance
  <2> QED
    BY <1>1, <1>3, <2>1, <2>2, <2>3, <2>4, <2>6 DEF Silent
<1> QED
  BY <1>1, <1>2, <1>3

(* A step of the writer that leaves the buffers and the controller alone.  *)
LEMMA WriterStep ==
  ASSUME SoundInv, UNCHANGED <<civ, lvi, device, played, content, list, page, idx, next, running>>,
         soundAt' \in {"idle", "last", "decide", "full", "block", "again", "copy"},
         soundAt' = "copy" => Silent \/ Posted - Current < Pages, ReadBefore'
  PROVE  SoundInv'
<1>1. Posted' = Posted /\ Heard' = Heard /\ Current' = Current
  BY DEF Posted, Heard, Current
<1>2. SoundTypes'
  BY <1>1 DEF SoundInv, SoundTypes
<1>3. Silent => Silent'
  BY <1>1 DEF Silent
<1>4. Sounding => Sounding'
  BY <1>1 DEF Sounding, Silent
<1>5. Stored'
  BY <1>1 DEF SoundInv, Stored
<1> QED
  BY <1>2, <1>3, <1>4, <1>5 DEF SoundInv

(* A page into which a buffer is copied holds none that is under way.      *)
LEMMA CopySoundInv ==
  ASSUME SoundParameters, SoundInv, A!Copy
  PROVE  SoundInv'
<1>1. /\ soundAt = "copy" /\ soundAt' = "post" /\ content' = [content EXCEPT ![page] = next]
      /\ UNCHANGED <<civ, lvi, device, played, list, page, idx, next, running>>
  BY DEF A!Copy, A!deviceVars
<1>2. Posted' = Posted /\ Heard' = Heard /\ Current' = Current
  BY <1>1 DEF Posted, Heard, Current
<1>3. /\ Posted \in Nat /\ Heard \in Nat /\ page = Posted % Pages /\ page \in 0..(Pages - 1)
      /\ content \in [0..(Pages - 1) -> Nat] /\ next = Posted + 1
  <2>1. Posted \in Nat /\ Heard \in Nat /\ page = Posted % Pages /\ next = Posted + 1
    BY DEF SoundInv, SoundTypes, Posted, Heard
  <2> QED
    BY <2>1, DivMod DEF SoundParameters, SoundInv, SoundTypes
<1>4. SoundTypes'
  BY <1>1, <1>2, <1>3 DEF SoundInv, SoundTypes
<1>5. Silent' \/ Sounding'
  BY <1>1, <1>2 DEF SoundInv, Silent, Sounding
<1>6. ASSUME NEW i \in Heard..(Posted - 1) PROVE content'[i % Pages] = i + 1
  <2>1. Posted - i < Pages /\ i \in Nat /\ i < Posted
    BY <1>1, <1>3 DEF SoundInv, Silent, Sounding, Current, SoundParameters
  <2>2. i % Pages # page /\ i % Pages \in 0..(Pages - 1)
    BY <1>3, <2>1, Apart, DivMod DEF SoundParameters
  <2>3. content[i % Pages] = i + 1
    BY DEF SoundInv, Stored
  <2> QED
    BY <1>1, <1>3, <2>2, <2>3
<1>7. Stored'
  BY <1>1, <1>2, <1>3, <1>6 DEF SoundInv, Stored
<1>8. ReadBefore'
  BY <1>1 DEF ReadBefore
<1> QED
  BY <1>1, <1>4, <1>5, <1>7, <1>8 DEF SoundInv

(* A buffer is handed to the controller, the first starts it.              *)
LEMMA PostSoundInv ==
  ASSUME SoundParameters, SoundInv, A!Post
  PROVE  SoundInv'
<1>1. /\ soundAt = "post" /\ soundAt' = "idle" /\ next' = next + 1
      /\ list' = [list EXCEPT ![idx] = page] /\ lvi' = idx /\ running' = TRUE
      /\ device' = IF device = "stopped" THEN "playing" ELSE device
      /\ page' = (page + 1) % Pages /\ idx' = (idx + 1) % Entries
      /\ UNCHANGED <<content, civ, played>>
  BY DEF A!Post
<1>2. /\ Posted \in Nat /\ Heard \in Nat /\ page = Posted % Pages /\ idx = Posted % Entries
      /\ next = Posted + 1 /\ Pages \in Nat \ {0} /\ Entries \in Nat \ {0} /\ Pages <= Entries
  BY DEF SoundInv, SoundTypes, Posted, Heard, SoundParameters
<1>3. page \in 0..(Pages - 1) /\ idx \in 0..(Entries - 1)
  BY <1>2, DivMod
<1>4. Posted' = Posted + 1 /\ Heard' = Heard /\ next' \in Nat \ {0}
  <2>1. next \in Nat
    BY DEF SoundInv, SoundTypes
  <2> QED
    BY <1>1, <2>1 DEF Posted, Heard
<1>5. page' = (Posted + 1) % Pages /\ idx' = (Posted + 1) % Entries
  BY <1>1, <1>2, Following
<1>6. list' \in [0..(Entries - 1) -> 0..(Pages - 1)]
  BY <1>1, <1>3 DEF SoundInv, SoundTypes
<1>7. SoundTypes'
  <2>1. device' \in {"stopped", "playing", "halted"}
    BY <1>1 DEF SoundInv, SoundTypes
  <2>2. page' = Posted' % Pages /\ idx' = Posted' % Entries
    BY <1>4, <1>5
  <2> QED
    BY <1>1, <1>4, <1>6, <2>1, <2>2 DEF SoundInv, SoundTypes
<1>8. Sounding'
  <2>1. CASE Silent
    <3>1. device' = "playing" /\ Posted = 0 /\ Heard = 0 /\ Current' = 0 /\ civ' = 0
      BY <1>1, <1>4, <2>1 DEF Silent, Current
    <3>2. idx = 0
      <4>1. 0 = 0 * Entries + 0 /\ 0 \in 0..(Entries - 1)
        BY <1>2
      <4> QED
        BY <1>2, <3>1, <4>1, Remainder
    <3> QED
      BY <1>1, <1>2, <1>4, <3>1, <3>2 DEF Sounding
  <2>2. CASE Sounding
    <3>1. device' = device /\ Current' = Current /\ Posted - Current < Pages /\ Current \in Int
      BY <1>1, <1>2, <1>4, <2>2 DEF Sounding, Current
    <3> QED
      BY <1>1, <1>2, <1>4, <2>2, <3>1 DEF Sounding
  <2> QED
    BY <2>1, <2>2 DEF SoundInv
<1>9. ASSUME NEW i \in Heard..Posted
      PROVE  list'[i % Entries] = i % Pages /\ content'[i % Pages] = i + 1
  <2>1. CASE i = Posted
    <3>1. list'[idx] = page
      BY <1>1, <1>3 DEF SoundInv, SoundTypes
    <3>2. content[page] = next
      BY <1>1 DEF SoundInv, Stored
    <3> QED
      BY <1>1, <1>2, <2>1, <3>1, <3>2
  <2>2. CASE i # Posted
    <3>1. i \in Heard..(Posted - 1) /\ i \in Nat /\ i < Posted /\ Posted - i < Entries
      BY <1>1, <1>2, <2>2 DEF SoundInv, Silent, Sounding, Current
    <3>2. i % Entries # idx /\ i % Entries \in 0..(Entries - 1)
      BY <1>2, <3>1, Apart, DivMod
    <3>3. list[i % Entries] = i % Pages /\ content[i % Pages] = i + 1
      BY <3>1 DEF SoundInv, Stored
    <3> QED
      BY <1>1, <3>2, <3>3 DEF SoundInv, SoundTypes
  <2> QED
    BY <2>1, <2>2
<1>10. Stored'
  BY <1>1, <1>2, <1>4, <1>9 DEF Stored
<1>11. ReadBefore'
  BY <1>1 DEF ReadBefore
<1> QED
  BY <1>1, <1>7, <1>8, <1>10, <1>11 DEF SoundInv

(* The controller plays the next buffer; in between the writer's view of   *)
(* it grows old.                                                           *)
LEMMA PlaySoundInv ==
  ASSUME SoundParameters, SoundInv, A!Play
  PROVE  SoundInv'
<1>1. /\ device = "playing" /\ played' = Append(played, content[list[civ]])
      /\ UNCHANGED <<lvi, content, list, page, idx, next, running, soundAt, cur, last>>
  BY DEF A!Play, A!bufVars
<1>2. /\ Sounding /\ Posted \in Nat /\ Heard \in Nat /\ Current = Heard
      /\ Pages \in Nat \ {0} /\ Entries \in Nat \ {0} /\ Pages <= Entries
  BY <1>1 DEF SoundInv, SoundTypes, Silent, Posted, Heard, Current, SoundParameters
<1>3. civ = Heard % Entries /\ Heard <= Posted - 1 /\ lvi = (Posted - 1) % Entries
  BY <1>2 DEF Sounding
<1>4. content[list[civ]] = Heard + 1
  <2>1. Heard \in Heard..(Posted - 1)
    BY <1>2, <1>3
  <2> QED
    BY <1>3, <2>1 DEF SoundInv, Stored
<1>5. played' = Append(played, Heard + 1) /\ played \in Seq(Nat)
  BY <1>1, <1>4 DEF SoundInv, SoundTypes
<1>6. /\ played' \in Seq(Nat) /\ Heard' = Heard + 1 /\ Posted' = Posted
      /\ DOMAIN played' = 1..(Heard + 1) /\ played'[Heard + 1] = Heard + 1
      /\ \A i \in 1..Heard : played'[i] = played[i]
  BY <1>1, <1>2, <1>5 DEF Heard, Posted
<1>7. \A i \in DOMAIN played' : played'[i] = i
  <2>1. ASSUME NEW i \in 1..(Heard + 1) PROVE played'[i] = i
    <3>1. CASE i = Heard + 1
      BY <1>6, <3>1
    <3>2. CASE i # Heard + 1
      <4>1. i \in 1..Heard
        BY <1>2, <3>2
      <4>2. i \in DOMAIN played
        BY <1>5, <4>1 DEF Heard
      <4> QED
        BY <1>6, <4>1, <4>2 DEF SoundInv
    <3> QED
      BY <3>1, <3>2
  <2> QED
    BY <1>6, <2>1
<1>8. /\ device' \in {"playing", "halted"} /\ civ' = Current' % Entries
      /\ Current' <= Posted - 1 /\ Current <= Current' /\ Current' \in Nat
  <2>1. CASE civ = lvi
    <3>1. device' = "halted" /\ civ' = civ
      BY <2>1 DEF A!Play
    <3> QED
      BY <1>2, <1>3, <1>6, <3>1 DEF Current
  <2>2. CASE civ # lvi
    <3>1. device' = "playing" /\ civ' = (civ + 1) % Entries
      BY <1>1, <2>2 DEF A!Play
    <3>2. Heard # Posted - 1
      BY <1>3, <2>2
    <3>3. civ' = (Heard + 1) % Entries
      BY <1>2, <1>3, <3>1, Following
    <3> QED
      BY <1>2, <1>3, <1>6, <3>1, <3>2, <3>3 DEF Current
  <2> QED
    BY <2>1, <2>2
<1>9. Sounding'
  <2>1. /\ running /\ Posted > 0 /\ Posted - Current <= Pages
        /\ soundAt \in {"copy", "post"} => Posted - Current < Pages
    BY <1>2 DEF Sounding
  <2>a. Posted \in Int /\ Current \in Int /\ Heard \in Nat
    BY <1>2
  <2>b. Posted' = Posted /\ Heard' = Heard + 1
    BY <1>6
  <2>c. Current <= Current' /\ Current' \in Int
    BY <1>8
  <2>d. \A a, b, c \in Int : b <= c => a - c <= a - b
    OBVIOUS
  <2>2. Posted - Current' <= Posted - Current
    BY <2>a, <2>c, <2>d
  <2>5. Heard' > 0
    BY <2>a, <2>b
  <2>3. Posted - Current' \in Int /\ Posted - Current \in Int
    BY <2>a, <2>c
  <2>4. /\ Posted' - Current' <= Pages
        /\ soundAt \in {"copy", "post"} => Posted' - Current' < Pages
    BY <1>2, <2>1, <2>2, <2>3, <2>b
  <2> QED
    BY <1>1, <1>3, <1>6, <1>8, <2>1, <2>4, <2>5 DEF Sounding
<1>10. SoundTypes'
  BY <1>1, <1>6, <1>8 DEF SoundInv, SoundTypes
<1>11. Stored'
  <2>1. \A i \in Heard'..(Posted' - 1) : i \in Heard..(Posted - 1)
    BY <1>2, <1>6
  <2>2. \A i \in Heard..(Posted - 1) : list[i % Entries] = i % Pages /\ content[i % Pages] = i + 1
    BY DEF SoundInv, Stored
  <2>3. soundAt = "post" => content[page] = next
    BY DEF SoundInv, Stored
  <2> QED
    BY <1>1, <2>1, <2>2, <2>3 DEF Stored
<1>12. ReadBefore'
  <2>1. ReadBefore /\ running
    BY <1>2 DEF SoundInv, Sounding
  <2>2. ASSUME soundAt \in {"last", "decide"}
        PROVE  \E c \in Nat : c <= Current' /\ Posted' - c <= Pages /\ cur = c % Entries
    <3>1. PICK c \in Nat : c <= Current /\ Posted - c <= Pages /\ cur = c % Entries
      BY <2>1, <2>2 DEF ReadBefore
    <3>2. c <= Current' /\ Posted' - c <= Pages
      BY <1>2, <1>6, <1>8, <3>1
    <3> QED
      BY <3>1, <3>2
  <2> QED
    BY <1>1, <2>1, <2>2 DEF ReadBefore
<1> QED
  BY <1>7, <1>9, <1>10, <1>11, <1>12 DEF SoundInv

(* A controller that had halted goes on.                                   *)
LEMMA GoOnSoundInv ==
  ASSUME SoundParameters, SoundInv, A!GoOn
  PROVE  SoundInv'
<1>1. /\ device = "halted" /\ civ # lvi /\ device' = "playing" /\ civ' = (civ + 1) % Entries
      /\ UNCHANGED <<lvi, played, content, list, page, idx, next, running, soundAt, cur, last>>
  BY DEF A!GoOn, A!bufVars
<1>2. /\ Sounding /\ Posted \in Nat /\ Heard \in Nat /\ Current = Heard - 1
      /\ Pages \in Nat \ {0} /\ Entries \in Nat \ {0} /\ Pages <= Entries
  BY <1>1 DEF SoundInv, SoundTypes, Silent, Posted, Heard, Current, SoundParameters
<1>3. /\ civ = Current % Entries /\ Current <= Posted - 1 /\ lvi = (Posted - 1) % Entries
      /\ Heard > 0
  BY <1>1, <1>2 DEF Sounding
<1>4. Current # Posted - 1 /\ Current \in Nat
  BY <1>1, <1>2, <1>3
<1>5. Posted' = Posted /\ Heard' = Heard /\ Current' = Heard
  BY <1>1 DEF Posted, Heard, Current
<1>6. civ' = (Current + 1) % Entries
  BY <1>1, <1>2, <1>3, <1>4, Following
<1>7. civ' = Current' % Entries /\ Current' <= Posted - 1 /\ Current <= Current' /\ Current' \in Nat
  BY <1>2, <1>3, <1>4, <1>5, <1>6
<1>8. Sounding'
  BY <1>1, <1>2, <1>5, <1>7 DEF Sounding
<1>9. SoundTypes'
  BY <1>1, <1>5 DEF SoundInv, SoundTypes
<1>10. Stored'
  BY <1>1, <1>5 DEF SoundInv, Stored
<1>11. ReadBefore'
  BY <1>1, <1>2, <1>5, <1>7 DEF SoundInv, ReadBefore
<1> QED
  BY <1>1, <1>8, <1>9, <1>10, <1>11 DEF SoundInv

(* Each step of the writer, the interrupt handler and the controller.      *)
LEMMA NextSoundInv == SoundParameters /\ SoundInv /\ [A!Next]_ac97Vars => SoundInv'
<1> SUFFICES ASSUME SoundParameters, SoundInv, [A!Next]_ac97Vars PROVE SoundInv'
  OBVIOUS
<1> DEFINE Kept == UNCHANGED <<civ, lvi, device, played, content, list, page, idx, next, running>>
<1>0. Pages \in Nat \ {0} /\ Entries \in Nat \ {0} /\ (Silent \/ Sounding) /\ ReadBefore
  BY DEF SoundInv, SoundParameters
<1>k. Kept => Posted' = Posted /\ Current' = Current /\ Heard' = Heard
  BY DEF Posted, Current, Heard
<1>1. CASE A!ReadCurrent
  <2>1. soundAt' = "last" /\ cur' = civ /\ Kept
    BY <1>1 DEF A!ReadCurrent, A!deviceVars, A!bufVars
  <2>2. ReadBefore'
    <3>1. CASE Silent
      BY <2>1, <3>1 DEF Silent, ReadBefore
    <3>2. CASE Sounding
      <4>1. /\ Current \in Nat /\ Current <= Current /\ Posted - Current <= Pages
            /\ civ = Current % Entries /\ running
        BY <3>2 DEF Sounding, SoundInv, SoundTypes, Current, Heard
      <4> QED
        BY <1>k, <2>1, <4>1 DEF ReadBefore
    <3> QED
      BY <1>0, <3>1, <3>2
  <2> QED
    BY <2>1, <2>2, WriterStep
<1>2. CASE A!ReadLast
  <2>1. soundAt = "last" /\ soundAt' = "decide" /\ last' = lvi /\ cur' = cur /\ Kept
    BY <1>2 DEF A!ReadLast, A!deviceVars, A!bufVars
  <2>2. ReadBefore'
    BY <1>0, <1>k, <2>1 DEF ReadBefore
  <2> QED
    BY <2>1, <2>2, WriterStep
<1>3. CASE A!Decide
  <2>1. /\ soundAt = "decide" /\ Kept
        /\ soundAt' = IF A!head_distance < Pages THEN "copy" ELSE "full"
    BY <1>3 DEF A!Decide, A!deviceVars, A!bufVars
  <2>2. /\ A!head_distance \in 0..Pages
        /\ Silent => A!head_distance = 0
        /\ Sounding => Posted - Current <= A!head_distance
    BY <2>1, HeadDistance
  <2>3. Posted - Current \in Int
    BY DEF SoundInv, SoundTypes, Posted, Current, Heard
  <2>4. soundAt' = "copy" => Silent \/ Posted - Current < Pages
    BY <1>0, <2>1, <2>2, <2>3
  <2>5. soundAt' = "full" => running
    BY <1>0, <2>1, <2>2 DEF Sounding
  <2>6. ReadBefore'
    BY <2>1, <2>5 DEF ReadBefore
  <2> QED
    BY <2>1, <2>4, <2>6, WriterStep
<1>4. CASE A!MarkFull
  <2>1. soundAt = "full" /\ soundAt' = "block" /\ Kept
    BY <1>4 DEF A!MarkFull, A!deviceVars, A!bufVars
  <2>2. ReadBefore'
    BY <1>0, <2>1 DEF ReadBefore
  <2> QED
    BY <2>1, <2>2, WriterStep
<1>5. CASE A!Unblock
  <2>1. soundAt = "block" /\ Kept /\ running
    BY <1>0, <1>5 DEF A!Unblock, A!deviceVars, A!bufVars, ReadBefore
  <2>2. soundAt' \in {"idle", "again"}
    BY <1>5, <2>1 DEF A!Unblock
  <2>3. ReadBefore'
    BY <2>1, <2>2 DEF ReadBefore
  <2> QED
    BY <2>1, <2>2, <2>3, WriterStep
<1>6. CASE A!irq_handler
  <2>1. /\ Kept /\ UNCHANGED <<soundAt, cur, last>>
    BY <1>6 DEF A!irq_handler, A!bufVars
  <2>2. SoundTypes' /\ Stored' /\ ReadBefore'
    BY <1>k, <2>1 DEF SoundInv, SoundTypes, Stored, ReadBefore
  <2>3. Silent' \/ Sounding'
    BY <1>0, <1>k, <2>1 DEF Silent, Sounding
  <2> QED
    BY <2>1, <2>2, <2>3 DEF SoundInv
<1>7. CASE UNCHANGED ac97Vars
  <2>1. /\ Kept /\ UNCHANGED <<soundAt, cur, last>>
    BY <1>7 DEF ac97Vars
  <2>2. SoundTypes' /\ Stored' /\ ReadBefore'
    BY <1>k, <2>1 DEF SoundInv, SoundTypes, Stored, ReadBefore
  <2>3. Silent' \/ Sounding'
    BY <1>0, <1>k, <2>1 DEF Silent, Sounding
  <2> QED
    BY <2>1, <2>2, <2>3 DEF SoundInv
<1> QED
  BY <1>1, <1>2, <1>3, <1>4, <1>5, <1>6, <1>7,
     CopySoundInv, PostSoundInv, PlaySoundInv, GoOnSoundInv DEF A!Next

(* Sound is heard in the order it was written, whatever the number of      *)
(* pages and of descriptors: the page a buffer is copied into is free, the *)
(* writer's old view of the controller notwithstanding.                    *)
THEOREM DeviceSoundInOrder == ASSUME SoundParameters PROVE A!Spec => []SoundInOrder
<1>1. SoundInv => SoundInOrder
  BY HeadDistance DEF SoundInv, SoundInOrder, A!SoundInOrder, SoundParameters
<1>2. A!Init => SoundInv
  BY InitSoundInv
<1>3. SoundInv /\ [A!Next]_A!ac97Vars => SoundInv'
  BY NextSoundInv DEF A!ac97Vars, ac97Vars
<1> QED
  BY <1>1, <1>2, <1>3, PTL DEF A!Spec
-----------------------------------------------------------------------------
(* Waiting for files and for time.  A tick of the timer is a whole number  *)
(* of nanoseconds, times to wait are normalised, descriptors are numbers,  *)
(* and no file reports POLLNVAL.                                           *)
TickNanos == NANOS \div CLK_TCK
Normal(t) == t = P!T(t.sec, t.nsec) /\ t.sec \in Int /\ t.nsec \in 0..(NANOS - 1)
WaitParameters ==
  /\ CLK_TCK \in Nat \ {0} /\ TickNanos \in Nat \ {0} /\ NANOS = TickNanos * CLK_TCK
  /\ \A t \in Timeouts : Normal(t)
  /\ Fds \subseteq Nat /\ Closed \subseteq Fds
  /\ \A r \in Readiness : "NVAL" \notin r
  /\ \A p \in PollSets : /\ IsFiniteSet(DOMAIN p)
                         /\ \A i \in DOMAIN p : p[i][1] \in Int /\ (p[i][1] >= 0 => p[i][1] \in Fds)
  /\ \A s \in SelectSets : /\ IsFiniteSet(s.read) /\ IsFiniteSet(s.write) /\ IsFiniteSet(s.except)
                           /\ s.read \subseteq Fds /\ s.write \subseteq Fds /\ s.except \subseteq Fds

(* A multiple divided.                                                     *)
LEMMA Quotient ==
  ASSUME NEW C \in Nat \ {0}, NEW q \in Nat, NEW r \in 0..(C - 1)
  PROVE  (q * C + r) \div C = q
<1> DEFINE k == q * C + r
<1>1. k \in Nat /\ k = q * C + r
  OBVIOUS
<1> HIDE DEF k
<1>2. PICK x \in Nat, y \in 0..(C - 1) : k = x * C + y /\ k \div C = x
  BY <1>1, DivMod
<1>3. ~(q < x) /\ ~(x < q)
  BY <1>1, <1>2, Multiples
<1>4. q = x
  BY <1>3
<1>5. k \div C = q
  BY <1>2, <1>4
<1> QED
  BY <1>5 DEF k

(* The monotonic clock counts the ticks.                                   *)
LEMMA ClockTicks ==
  ASSUME WaitParameters, uptime \in Nat
  PROVE  /\ Normal(P!time_now("MONOTONIC"))
         /\ P!Total(P!time_now("MONOTONIC")) = uptime * TickNanos
<1> DEFINE q == uptime \div CLK_TCK
           r == uptime % CLK_TCK
           k == TickNanos
<1>1. /\ CLK_TCK \in Nat \ {0} /\ k \in Nat \ {0} /\ NANOS = k * CLK_TCK
  BY DEF WaitParameters
<1>2. q \in Nat /\ r \in 0..(CLK_TCK - 1) /\ uptime = q * CLK_TCK + r
  BY <1>1, DivMod
<1> HIDE DEF q, r, k
<1>3. uptime - q * CLK_TCK = r
  BY <1>1, <1>2
<1>4. (r * NANOS) \div CLK_TCK = r * k
  <2>1. r * NANOS = (r * k) * CLK_TCK + 0 /\ r * k \in Nat /\ 0 \in 0..(CLK_TCK - 1)
    BY <1>1, <1>2
  <2> QED
    BY <1>1, <2>1, Quotient
<1>5. P!time_now("MONOTONIC") = P!T(q, r * k)
  BY <1>3, <1>4 DEF P!time_now, q
<1>6. r * k \in 0..(NANOS - 1)
  <2>1. r * k + k <= CLK_TCK * k
    BY <1>1, <1>2, Multiples
  <2> QED
    BY <1>1, <1>2, <2>1
<1>7. q * NANOS + r * k = uptime * k
  BY <1>1, <1>2
<1> QED
  BY <1>2, <1>5, <1>6, <1>7 DEF P!T, P!Total, Normal, k

(* Sums of times.                                                          *)
LEMMA AddsUp ==
  ASSUME NANOS \in Nat \ {0}, NEW a, NEW b, Normal(a), Normal(b)
  PROVE  /\ Normal(P!timespec_add(a, b))
         /\ P!Total(P!timespec_add(a, b)) = P!Total(a) + P!Total(b)
<1> DEFINE s == a.sec + b.sec
           n == a.nsec + b.nsec
<1>1. s \in Int /\ n \in 0..(NANOS - 1 + NANOS - 1) /\ P!Total(a) + P!Total(b) = s * NANOS + n
  BY DEF Normal, P!Total
<1>2. P!timespec_add(a, b) = IF n >= NANOS THEN P!T(s + 1, n - NANOS) ELSE P!T(s, n)
  BY DEF P!timespec_add, P!Carry, P!T
<1> HIDE DEF s, n
<1>3. CASE n >= NANOS
  <2>1. s + 1 \in Int /\ n - NANOS \in 0..(NANOS - 1)
    BY <1>1, <1>3
  <2>2. (s + 1) * NANOS + (n - NANOS) = s * NANOS + n
    BY <1>1
  <2>3. P!timespec_add(a, b) = P!T(s + 1, n - NANOS)
    BY <1>2, <1>3
  <2>4. P!T(s + 1, n - NANOS).sec = s + 1 /\ P!T(s + 1, n - NANOS).nsec = n - NANOS
    BY DEF P!T
  <2> QED
    BY <1>1, <2>1, <2>2, <2>3, <2>4 DEF P!Total, Normal
<1>4. CASE ~(n >= NANOS)
  BY <1>1, <1>2, <1>4 DEF P!T, P!Total, Normal
<1> QED
  BY <1>3, <1>4

(* Comparison of times.                                                    *)
LEMMA Compares ==
  ASSUME NANOS \in Nat \ {0}, NEW a, NEW b, Normal(a), Normal(b), P!AtLeast(a, b)
  PROVE  P!Total(a) >= P!Total(b)
<1> DEFINE x == a.sec
           y == b.sec
<1>1. /\ x \in Int /\ y \in Int /\ a.nsec \in 0..(NANOS - 1) /\ b.nsec \in 0..(NANOS - 1)
      /\ x > y \/ (x = y /\ a.nsec >= b.nsec)
      /\ P!Total(a) = x * NANOS + a.nsec /\ P!Total(b) = y * NANOS + b.nsec
  BY DEF Normal, P!AtLeast, P!Total
<1> HIDE DEF x, y
<1>2. CASE x = y
  BY <1>1, <1>2
<1>3. CASE x # y
  <2>1. PICK d \in Nat : x = y + 1 + d
    <3>1. x - y - 1 \in Nat /\ x = y + 1 + (x - y - 1)
      BY <1>1, <1>3
    <3> QED
      BY <3>1
  <2>2. x * NANOS = y * NANOS + NANOS + d * NANOS /\ d * NANOS >= 0
    BY <1>1, <2>1
  <2> QED
    BY <1>1, <2>2
<1> QED
  BY <1>2, <1>3

(* What is left of a time.                                                 *)
LEMMA Remains ==
  ASSUME NANOS \in Nat \ {0}, NEW a, NEW b, Normal(a), Normal(b)
  PROVE  P!Total(P!timespec_saturating_sub(a, b)) = P!Max({0, P!Total(a) - P!Total(b)})
<1> DEFINE s == a.sec - b.sec
           n == a.nsec - b.nsec
           m == P!Total(a) - P!Total(b)
           z == IF n < 0 THEN s - 1 ELSE s
           e == IF n < 0 THEN n + NANOS ELSE n
<1>1. s \in Int /\ n \in Int /\ -NANOS < n /\ n < NANOS /\ m = s * NANOS + n
  BY DEF Normal, P!Total
<1>2. P!timespec_saturating_sub(a, b) = IF z < 0 THEN P!T(0, 0) ELSE P!T(z, e)
  <2>1. P!Borrow(P!T(s, n)) = P!T(z, e)
    BY DEF P!Borrow, P!T
  <2>2. P!T(z, e).sec = z
    BY DEF P!T
  <2> QED
    BY <2>1, <2>2 DEF P!timespec_saturating_sub
<1> HIDE DEF s, n, m
<1>3. z \in Int /\ e \in 0..(NANOS - 1) /\ m = z * NANOS + e
  BY <1>1
<1> HIDE DEF z, e
<1>4. \A x, y \in Int : x >= y => P!Max({x, y}) = x /\ P!Max({y, x}) = x
  BY DEF P!Max
<1>5. CASE z < 0
  <2>1. PICK d \in Nat : z = -1 - d
    <3>1. -1 - z \in Nat /\ z = -1 - (-1 - z)
      BY <1>3, <1>5
    <3> QED
      BY <3>1
  <2>2. z * NANOS = -NANOS - d * NANOS /\ d * NANOS >= 0
    BY <2>1
  <2>3. m < 0 /\ m \in Int
    BY <1>3, <2>2
  <2>4. P!Max({0, m}) = 0
    BY <1>4, <2>3
  <2>5. P!Total(P!T(0, 0)) = 0
    BY DEF P!Total, P!T
  <2> QED
    BY <1>2, <1>5, <2>4, <2>5 DEF m
<1>6. CASE ~(z < 0)
  <2>1. z * NANOS >= 0
    BY <1>3, <1>6
  <2>2. m >= 0 /\ m \in Int
    BY <1>3, <2>1
  <2>3. P!Max({0, m}) = m
    BY <1>4, <2>2
  <2>4. P!Total(P!T(z, e)) = m
    BY <1>3 DEF P!Total, P!T
  <2> QED
    BY <1>2, <1>6, <2>3, <2>4 DEF m
<1> QED
  BY <1>5, <1>6

(* What a call keeps, from when it begins to when it returns.              *)
Kind(c) == c.kind \in {"poll", "select", "sleep"} /\ c.phase \in {"check", "blocked", "woken", "done"}
Shaped(c) ==
  c = [kind |-> c.kind, phase |-> c.phase, entries |-> c.entries, asked |-> c.asked,
       clock |-> c.clock, absolute |-> c.absolute, timed |-> c.timed, deadline |-> c.deadline,
       limit |-> c.limit, began |-> c.began, saw |-> c.saw, remain |-> c.remain, ret |-> c.ret,
       answer |-> c.answer]

EntryOk(e) ==
  /\ e = [fd |-> e.fd, events |-> e.events, revents |-> e.revents]
  /\ e.fd \in Int /\ (e.fd >= 0 => e.fd \in Fds)
  /\ ~P!Opened(e) => e.revents = IF e.fd \in Closed THEN {"NVAL"} ELSE {}
EntriesOk(entries) == IsFiniteSet(DOMAIN entries) /\ \A i \in DOMAIN entries : EntryOk(entries[i])

(* The entries of a select are the descriptors of its sets.                *)
Selected(entries, asked) ==
  /\ DOMAIN entries = asked.read \cup asked.write \cup asked.except
  /\ DOMAIN entries \subseteq Fds
  /\ \A f \in DOMAIN entries : /\ entries[f].fd = f
                               /\ entries[f].events = P!SelectEvents(asked, f)

(* The deadline is the time asked for after the call began.                *)
Relative(c) == c.timed /\ c.clock = "MONOTONIC" /\ ~c.absolute
Timed(c) ==
  Relative(c) => /\ Normal(c.deadline) /\ P!Total(c.limit) \in Int
                 /\ c.began \in Nat /\ c.began <= uptime
                 /\ P!Total(c.deadline) = c.began * TickNanos + P!Total(c.limit)

(* A call that is woken has looked at the files, and if it found nothing   *)
(* at the time.                                                            *)
Found(entries) == {i \in DOMAIN entries : entries[i].revents # {}}
Looked(c) ==
  /\ \A f \in Fds : "NVAL" \notin c.saw[f]
  /\ \A i \in DOMAIN c.entries :
       P!Opened(c.entries[i]) => c.entries[i].revents = c.saw[c.entries[i].fd] \cap c.entries[i].events
  /\ Found(c.entries) = {} =>
       c.timed /\ (Relative(c) => uptime * TickNanos >= P!Total(c.deadline))

CallInv(c) ==
  /\ Kind(c) /\ Shaped(c) /\ EntriesOk(c.entries) /\ Timed(c)
  /\ c.kind = "select" => Selected(c.entries, c.asked)
  /\ c.phase = "woken" => Looked(c)

WaitInv ==
  /\ uptime \in Nat /\ ready \in [Fds -> Readiness \cup {{}}]
  /\ call = P!Nobody \/ CallInv(call)

(* No call has been made.                                                  *)
LEMMA InitWaitInv == P!Init => WaitInv
BY DEF P!Init, WaitInv

(* The invariant says of a call that is woken what it promises.            *)
LEMMA WaitInvExact ==
  ASSUME WaitParameters, WaitInv
  PROVE  WaitsExact
<1> DEFINE c == call
<1> SUFFICES ASSUME call.kind # "none", call.phase = "woken" PROVE
       LET missed == \E f \in Fds \ Closed : c.saw[f] \cap P!Asked(c, f) # {}
           found == {i \in DOMAIN c.entries : c.entries[i].revents # {}}
       IN /\ missed <=> (\E i \in found : c.entries[i].revents # {"NVAL"})
          /\ found = {} => c.timed /\ (c.clock = "MONOTONIC" /\ ~c.absolute => P!Elapsed(c) >= P!Total(c.limit))
          /\ \A i \in found : c.entries[i].revents \subseteq c.entries[i].events \cup {"NVAL"}
          /\ c.timed /\ c.clock = "MONOTONIC" /\ ~c.absolute =>
               P!Total(P!timespec_saturating_sub(c.deadline, P!time_now(c.clock)))
                 = P!Max({0, P!Total(c.limit) - P!Elapsed(c)})
          /\ c.kind = "select" /\ ~P!Bad(c) =>
               /\ P!Answer(c).read = {f \in c.asked.read : c.saw[f] \cap P!READ_SET # {}}
               /\ P!Answer(c).write = {f \in c.asked.write : c.saw[f] \cap P!WRITE_SET # {}}
               /\ P!Answer(c).except = {f \in c.asked.except : c.saw[f] \cap P!EXCEPT_SET # {}}
  BY DEF WaitsExact, P!WaitsExact
<1>1. /\ CallInv(c) /\ Looked(c) /\ EntriesOk(c.entries) /\ Timed(c) /\ uptime \in Nat
      /\ c.kind = "select" => Selected(c.entries, c.asked)
  BY DEF WaitInv, CallInv, P!Nobody
<1> HIDE DEF c
<1>2. ASSUME NEW i \in DOMAIN c.entries
      PROVE  /\ P!Opened(c.entries[i]) =>
                  /\ c.entries[i].fd \in Fds \ Closed /\ "NVAL" \notin c.entries[i].revents
                  /\ c.entries[i].revents = c.saw[c.entries[i].fd] \cap c.entries[i].events
             /\ ~P!Opened(c.entries[i]) => c.entries[i].revents \in {{}, {"NVAL"}}
  BY <1>1 DEF Looked, EntriesOk, EntryOk, P!Opened
<1>3. (\E f \in Fds \ Closed : c.saw[f] \cap P!Asked(c, f) # {})
        <=> (\E i \in Found(c.entries) : c.entries[i].revents # {"NVAL"})
  <2>1. ASSUME NEW f \in Fds \ Closed, c.saw[f] \cap P!Asked(c, f) # {}
        PROVE  \E i \in Found(c.entries) : c.entries[i].revents # {"NVAL"}
    <3>1. PICK x : x \in c.saw[f] /\ x \in P!Asked(c, f)
      BY <2>1
    <3>2. PICK i \in DOMAIN c.entries : c.entries[i].fd = f /\ x \in c.entries[i].events
      BY <3>1 DEF P!Asked
    <3>3. f >= 0
      BY DEF WaitParameters
    <3>4. P!Opened(c.entries[i])
      BY <3>2, <3>3 DEF P!Opened
    <3>5. x \in c.entries[i].revents /\ "NVAL" \notin c.entries[i].revents
      BY <1>2, <3>1, <3>2, <3>4
    <3> QED
      BY <3>2, <3>5 DEF Found
  <2>2. ASSUME NEW i \in Found(c.entries), c.entries[i].revents # {"NVAL"}
        PROVE  \E f \in Fds \ Closed : c.saw[f] \cap P!Asked(c, f) # {}
    <3>1. i \in DOMAIN c.entries /\ c.entries[i].revents # {}
      BY DEF Found
    <3>2. P!Opened(c.entries[i])
      BY <1>2, <2>2, <3>1
    <3> DEFINE f == c.entries[i].fd
    <3>3. f \in Fds \ Closed /\ c.entries[i].revents = c.saw[f] \cap c.entries[i].events
      BY <1>2, <3>1, <3>2
    <3>4. c.entries[i].events \subseteq P!Asked(c, f)
      BY <3>1 DEF P!Asked
    <3> QED
      BY <3>1, <3>3, <3>4
  <2> QED
    BY <2>1, <2>2
<1>4. ASSUME Relative(c)
      PROVE  /\ P!Elapsed(c) \in Int /\ P!Total(c.limit) \in Int
             /\ P!Total(c.deadline) = uptime * TickNanos - P!Elapsed(c) + P!Total(c.limit)
             /\ Normal(c.deadline)
  <2>1. /\ Normal(c.deadline) /\ P!Total(c.limit) \in Int /\ c.began \in Nat
        /\ P!Total(c.deadline) = c.began * TickNanos + P!Total(c.limit)
    BY <1>1, <1>4 DEF Timed
  <2>2. P!Elapsed(c) = (uptime - c.began) * TickNanos
    BY DEF P!Elapsed, TickNanos
  <2>3. TickNanos \in Nat
    BY DEF WaitParameters
  <2> QED
    BY <1>1, <2>1, <2>2, <2>3
<1>5. Found(c.entries) = {} => c.timed /\ (c.clock = "MONOTONIC" /\ ~c.absolute => P!Elapsed(c) >= P!Total(c.limit))
  <2> SUFFICES ASSUME Found(c.entries) = {}
               PROVE  c.timed /\ (Relative(c) => P!Elapsed(c) >= P!Total(c.limit))
    BY DEF Relative
  <2>1. c.timed /\ (Relative(c) => uptime * TickNanos >= P!Total(c.deadline))
    BY <1>1 DEF Looked
  <2>2. uptime * TickNanos \in Int
    BY <1>1 DEF WaitParameters
  <2> QED
    BY <1>4, <2>1, <2>2
<1>6. \A i \in Found(c.entries) : c.entries[i].revents \subseteq c.entries[i].events \cup {"NVAL"}
  BY <1>2 DEF Found
<1>7. ASSUME Relative(c)
      PROVE  P!Total(P!timespec_saturating_sub(c.deadline, P!time_now(c.clock)))
               = P!Max({0, P!Total(c.limit) - P!Elapsed(c)})
  <2>1. /\ Normal(P!time_now(c.clock))
        /\ P!Total(P!time_now(c.clock)) = uptime * TickNanos
    BY <1>1, <1>7, ClockTicks DEF Relative
  <2>2. NANOS \in Nat \ {0}
    BY DEF WaitParameters
  <2>3. P!Total(c.deadline) - P!Total(P!time_now(c.clock)) = P!Total(c.limit) - P!Elapsed(c)
    <3>1. uptime * TickNanos \in Int
      BY <1>1 DEF WaitParameters
    <3> QED
      BY <1>4, <1>7, <2>1, <3>1
  <2> QED
    BY <1>4, <1>7, <2>1, <2>2, <2>3, Remains
<1>8. ASSUME c.kind = "select", ~P!Bad(c), NEW set, NEW events,
             set \subseteq DOMAIN c.entries,
             \A f \in set : events \subseteq P!SelectEvents(c.asked, f)
      PROVE  P!Kept(c, set, events) = {f \in set : c.saw[f] \cap events # {}}
  <2>1. ASSUME NEW f \in set
        PROVE  (\E i \in DOMAIN c.entries : c.entries[i].fd = f /\ c.entries[i].revents \cap events # {})
                 <=> c.saw[f] \cap events # {}
    <3>1. /\ f \in DOMAIN c.entries /\ f \in Fds /\ c.entries[f].fd = f
          /\ events \subseteq c.entries[f].events
          /\ \A i \in DOMAIN c.entries : c.entries[i].fd = f => i = f
      BY <1>1, <1>8 DEF Selected
    <3>2. "NVAL" \notin c.entries[f].revents
      BY <1>8, <3>1 DEF P!Bad
    <3>3. P!Opened(c.entries[f])
      <4>0. \A g \in Fds : g >= 0
        BY DEF WaitParameters
      <4>1. c.entries[f].fd >= 0
        BY <3>1, <4>0
      <4>2. EntryOk(c.entries[f])
        BY <1>1, <3>1 DEF EntriesOk
      <4>3. ASSUME c.entries[f].fd \in Closed PROVE FALSE
        BY <3>2, <4>2, <4>3 DEF EntryOk, P!Opened
      <4> QED
        BY <4>1, <4>3 DEF P!Opened
    <3>4. c.entries[f].revents = c.saw[f] \cap c.entries[f].events
      BY <1>2, <3>1, <3>3
    <3> QED
      BY <3>1, <3>4
  <2> QED
    BY <2>1 DEF P!Kept
<1>9. ASSUME c.kind = "select", ~P!Bad(c)
      PROVE  /\ P!Answer(c).read = {f \in c.asked.read : c.saw[f] \cap P!READ_SET # {}}
             /\ P!Answer(c).write = {f \in c.asked.write : c.saw[f] \cap P!WRITE_SET # {}}
             /\ P!Answer(c).except = {f \in c.asked.except : c.saw[f] \cap P!EXCEPT_SET # {}}
  <2>1. DOMAIN c.entries = c.asked.read \cup c.asked.write \cup c.asked.except
    BY <1>1, <1>9 DEF Selected
  <2>2. /\ \A f \in c.asked.read : P!READ_SET \subseteq P!SelectEvents(c.asked, f)
        /\ \A f \in c.asked.write : P!WRITE_SET \subseteq P!SelectEvents(c.asked, f)
        /\ \A f \in c.asked.except : P!EXCEPT_SET \subseteq P!SelectEvents(c.asked, f)
    BY DEF P!SelectEvents
  <2>3. P!Kept(c, c.asked.read, P!READ_SET) = {f \in c.asked.read : c.saw[f] \cap P!READ_SET # {}}
    BY <1>8, <1>9, <2>1, <2>2
  <2>4. P!Kept(c, c.asked.write, P!WRITE_SET) = {f \in c.asked.write : c.saw[f] \cap P!WRITE_SET # {}}
    BY <1>8, <1>9, <2>1, <2>2
  <2>5. P!Kept(c, c.asked.except, P!EXCEPT_SET) = {f \in c.asked.except : c.saw[f] \cap P!EXCEPT_SET # {}}
    BY <1>8, <1>9, <2>1, <2>2
  <2> QED
    BY <2>3, <2>4, <2>5 DEF P!Answer
<1> QED
  BY <1>3, <1>5, <1>6, <1>7, <1>9 DEF Found, Relative

(* A call begins with its deadline, and without having looked.             *)
LEMMA CallBegins ==
  ASSUME WaitParameters, WaitInv, NEW kind \in {"poll", "select", "sleep"}, NEW entries, NEW asked,
         NEW timeout \in Timeouts, EntriesOk(entries), kind = "select" => Selected(entries, asked)
  PROVE  CallInv(P!Started(kind, entries, asked, timeout))
<1> DEFINE c == P!Started(kind, entries, asked, timeout)
<1>1. /\ Kind(c) /\ Shaped(c) /\ c.entries = entries /\ c.asked = asked /\ c.kind = kind
      /\ c.phase = "check" /\ c.began = uptime
  BY DEF P!Started, P!Call, Kind, Shaped
<1>2. CASE timeout = P!Never
  <2>1. c.timed = FALSE
    BY <1>2 DEF P!Started, P!Call
  <2> QED
    BY <1>1, <2>1 DEF CallInv, Timed, Relative
<1>3. CASE timeout # P!Never
  <2>1. c.deadline = P!timespec_add(P!time_now("MONOTONIC"), timeout) /\ c.limit = timeout
    BY <1>3 DEF P!Started, P!Call, P!Deadline
  <2>2. Normal(timeout) /\ uptime \in Nat /\ NANOS \in Nat \ {0}
    BY DEF WaitParameters, WaitInv
  <2>3. P!Total(timeout) \in Int
    BY <2>2 DEF Normal, P!Total
  <2> HIDE DEF c
  <2>4. Normal(c.deadline) /\ P!Total(c.deadline) = uptime * TickNanos + P!Total(timeout)
    BY <2>1, <2>2, ClockTicks, AddsUp
  <2>5. c.began \in Nat /\ c.began <= uptime /\ P!Total(c.limit) \in Int
    BY <1>1, <2>1, <2>2, <2>3
  <2>6. P!Total(c.deadline) = c.began * TickNanos + P!Total(c.limit)
    BY <1>1, <2>1, <2>4
  <2>7. Timed(c)
    BY <2>4, <2>5, <2>6 DEF Timed
  <2>8. EntriesOk(c.entries) /\ (c.kind = "select" => Selected(c.entries, c.asked))
    BY <1>1
  <2>9. CallInv(c)
    BY <1>1, <2>7, <2>8 DEF CallInv
  <2> QED
    BY <2>9 DEF c
<1> QED
  BY <1>2, <1>3

(* The end of a call keeps what it was.                                    *)
LEMMA CallEnds ==
  ASSUME NEW c, NEW d, CallInv(c), Shaped(d), d.kind = c.kind, d.phase = "done",
         d.entries = c.entries, d.asked = c.asked, d.clock = c.clock, d.absolute = c.absolute,
         d.timed = c.timed, d.deadline = c.deadline, d.limit = c.limit, d.began = c.began
  PROVE  CallInv(d)
BY DEF CallInv, Kind, Timed, Relative

(* Done sets the result and nothing else that matters.                     *)
LEMMA CallDone ==
  ASSUME NEW c, NEW ret, CallInv(c)
  PROVE  CallInv(P!Done(c, ret))
<1> DEFINE d == P!Done(c, ret)
<1>1. Shaped(c)
  BY DEF CallInv
<1>2. d = [kind |-> c.kind, phase |-> "done", entries |-> c.entries, asked |-> c.asked,
           clock |-> c.clock, absolute |-> c.absolute, timed |-> c.timed,
           deadline |-> c.deadline, limit |-> c.limit, began |-> c.began, saw |-> c.saw,
           remain |-> c.remain, ret |-> ret, answer |-> c.answer]
  <2>1. d = [c EXCEPT !.phase = "done", !.ret = ret]
    BY DEF P!Done
  <2> HIDE DEF d
  <2> QED
    BY <1>1, <2>1 DEF Shaped
<1> HIDE DEF d
<1>3. /\ Shaped(d) /\ d.kind = c.kind /\ d.phase = "done" /\ d.entries = c.entries
      /\ d.asked = c.asked /\ d.clock = c.clock /\ d.absolute = c.absolute /\ d.timed = c.timed
      /\ d.deadline = c.deadline /\ d.limit = c.limit /\ d.began = c.began
  BY <1>2 DEF Shaped
<1>4. CallInv(d)
  BY <1>3, CallEnds
<1> QED
  BY <1>4 DEF d

(* unblock_poll looks at the files, and then at the time.                  *)
LEMMA UnblockedInv ==
  ASSUME WaitParameters, WaitInv, CallInv(call)
  PROVE  CallInv(P!Unblocked(call))
<1> DEFINE c == call
           d == P!Unblocked(call)
           polled == P!Polled(c.entries)
<1>1. /\ Kind(c) /\ Shaped(c) /\ EntriesOk(c.entries) /\ Timed(c)
      /\ c.kind = "select" => Selected(c.entries, c.asked)
      /\ uptime \in Nat /\ ready \in [Fds -> Readiness \cup {{}}]
  BY DEF CallInv, WaitInv
<1>2. /\ Kind(d) /\ Shaped(d) /\ d.entries = polled /\ d.saw = ready /\ d.kind = c.kind
      /\ d.asked = c.asked /\ d.clock = c.clock /\ d.absolute = c.absolute /\ d.timed = c.timed
      /\ d.deadline = c.deadline /\ d.limit = c.limit /\ d.began = c.began
      /\ d.phase = IF P!NumEvents(polled) > 0 \/ P!Expired(c) THEN "woken" ELSE "blocked"
  <2> DEFINE phase == IF P!NumEvents(polled) > 0 \/ P!Expired(c) THEN "woken" ELSE "blocked"
  <2>1. d = [c EXCEPT !.entries = polled, !.saw = ready, !.phase = phase]
    BY DEF P!Unblocked
  <2>2. phase \in {"woken", "blocked"}
    OBVIOUS
  <2> HIDE DEF phase, polled, d, c
  <2>3. d = [kind |-> c.kind, phase |-> phase, entries |-> polled, asked |-> c.asked,
             clock |-> c.clock, absolute |-> c.absolute, timed |-> c.timed,
             deadline |-> c.deadline, limit |-> c.limit, began |-> c.began, saw |-> ready,
             remain |-> c.remain, ret |-> c.ret, answer |-> c.answer]
    BY <1>1, <2>1 DEF Shaped
  <2>4. /\ Shaped(d) /\ d.entries = polled /\ d.saw = ready /\ d.kind = c.kind
        /\ d.asked = c.asked /\ d.clock = c.clock /\ d.absolute = c.absolute /\ d.timed = c.timed
        /\ d.deadline = c.deadline /\ d.limit = c.limit /\ d.began = c.began
        /\ d.phase = phase
    BY <2>3 DEF Shaped
  <2>5. Kind(d)
    BY <1>1, <2>2, <2>4 DEF Kind
  <2> QED
    BY <2>4, <2>5 DEF phase
<1> HIDE DEF c, d
<1>3. DOMAIN polled = DOMAIN c.entries
  BY DEF P!Polled
<1>4. ASSUME NEW i \in DOMAIN c.entries
      PROVE  /\ EntryOk(polled[i]) /\ polled[i].fd = c.entries[i].fd
             /\ polled[i].events = c.entries[i].events
             /\ P!Opened(polled[i]) <=> P!Opened(c.entries[i])
             /\ P!Opened(polled[i]) => polled[i].revents = ready[polled[i].fd] \cap polled[i].events
  <2>1. EntryOk(c.entries[i])
    BY <1>1 DEF EntriesOk
  <2>2. polled[i] = IF P!Opened(c.entries[i])
                    THEN [c.entries[i] EXCEPT !.revents = ready[c.entries[i].fd] \cap c.entries[i].events]
                    ELSE c.entries[i]
    BY DEF P!Polled
  <2>3. CASE P!Opened(c.entries[i])
    <3>1. polled[i] = [fd |-> c.entries[i].fd, events |-> c.entries[i].events,
                       revents |-> ready[c.entries[i].fd] \cap c.entries[i].events]
      BY <2>1, <2>2, <2>3 DEF EntryOk
    <3>2. /\ polled[i].fd = c.entries[i].fd /\ polled[i].events = c.entries[i].events
          /\ polled[i].revents = ready[c.entries[i].fd] \cap c.entries[i].events
      BY <3>1
    <3>3. P!Opened(polled[i])
      BY <2>3, <3>2 DEF P!Opened
    <3> QED
      BY <2>1, <2>3, <3>1, <3>2, <3>3 DEF EntryOk
  <2>4. CASE ~P!Opened(c.entries[i])
    BY <2>1, <2>2, <2>4
  <2> QED
    BY <2>3, <2>4
<1> HIDE DEF polled
<1>5. EntriesOk(polled)
  BY <1>1, <1>3, <1>4 DEF EntriesOk
<1>6. c.kind = "select" => Selected(polled, c.asked)
  BY <1>1, <1>3, <1>4 DEF Selected
<1>7. Timed(d)
  BY <1>1, <1>2 DEF Timed, Relative
<1>8. ASSUME d.phase = "woken" PROVE Looked(d)
  <2>1. \A f \in Fds : "NVAL" \notin d.saw[f]
    BY <1>1, <1>2 DEF WaitParameters
  <2>2. \A i \in DOMAIN d.entries :
          P!Opened(d.entries[i]) => d.entries[i].revents = d.saw[d.entries[i].fd] \cap d.entries[i].events
    BY <1>2, <1>3, <1>4
  <2>3. ASSUME Found(d.entries) = {}
        PROVE  d.timed /\ (Relative(d) => uptime * TickNanos >= P!Total(d.deadline))
    <3>0. P!Cardinality({}) = Cardinality({})
      BY DEF P!Cardinality, Cardinality
    <3>1. P!NumEvents(polled) = 0
      BY <1>2, <2>3, <3>0, FS_EmptySet DEF Found, P!NumEvents
    <3>2. c.timed /\ P!AtLeast(P!time_now(c.clock), c.deadline)
      BY <1>2, <1>8, <3>1 DEF P!Expired
    <3>3. ASSUME Relative(d) PROVE uptime * TickNanos >= P!Total(d.deadline)
      <4>1. Normal(c.deadline) /\ c.clock = "MONOTONIC"
        BY <1>1, <1>2, <3>3 DEF Timed, Relative
      <4>2. NANOS \in Nat \ {0}
        BY DEF WaitParameters
      <4>3. /\ Normal(P!time_now(c.clock))
            /\ P!Total(P!time_now(c.clock)) = uptime * TickNanos
        BY <1>1, <4>1, ClockTicks
      <4> QED
        BY <1>2, <3>2, <4>1, <4>2, <4>3, Compares
    <3> QED
      BY <1>2, <3>2, <3>3
  <2> QED
    BY <2>1, <2>2, <2>3 DEF Looked
<1>9. CallInv(d)
  BY <1>2, <1>5, <1>6, <1>7, <1>8 DEF CallInv
<1> QED
  BY <1>9 DEF d

(* Each step of the call, of the files and of the clocks.                  *)
LEMMA NextWaitInv == WaitParameters /\ WaitInv /\ [P!Next]_pollVars => WaitInv'
<1> SUFFICES ASSUME WaitParameters, WaitInv, [P!Next]_pollVars PROVE WaitInv'
  OBVIOUS
<1>0. uptime \in Nat /\ ready \in [Fds -> Readiness \cup {{}}] /\ (call = P!Nobody \/ CallInv(call))
  BY DEF WaitInv
<1>n. P!Nobody.kind = "none"
  BY DEF P!Nobody
<1>s. ASSUME uptime' = uptime, ready' = ready, CallInv(call') PROVE WaitInv'
  <2>1. CallInv(call)'
    BY <1>s DEF CallInv, Timed, Looked
  <2> QED
    BY <1>0, <1>s, <2>1 DEF WaitInv
<1>1. CASE P!time_tick
  <2>1. uptime' = uptime + 1 /\ UNCHANGED <<ready, call>>
    BY <1>1 DEF P!time_tick
  <2>2. ASSUME CallInv(call) PROVE CallInv(call)'
    <3>1. uptime' \in Nat /\ uptime <= uptime'
      BY <1>0, <2>1
    <3>2. /\ uptime * TickNanos <= uptime' * TickNanos
          /\ uptime * TickNanos \in Int /\ uptime' * TickNanos \in Int
      BY <1>0, <2>1 DEF WaitParameters
    <3>3. Timed(call)'
      <4> SUFFICES ASSUME Relative(call) PROVE Timed(call)'
        BY <2>1 DEF Timed, Relative
      <4>1. Timed(call)
        BY <2>2 DEF CallInv
      <4>2. call.began \in Nat /\ call.began <= uptime'
        BY <1>0, <3>1, <4>1 DEF Timed
      <4> QED
        BY <2>1, <4>1, <4>2 DEF Timed, Relative
    <3>4. ASSUME call.phase = "woken" PROVE Looked(call)'
      <4>1. Looked(call) /\ Timed(call)
        BY <2>2, <3>4 DEF CallInv
      <4>2. Relative(call) => P!Total(call.deadline) \in Int
        <5>1. NANOS \in Int
          BY DEF WaitParameters
        <5> QED
          BY <4>1, <5>1 DEF Timed, Normal, P!Total
      <4>3. ASSUME Relative(call), uptime * TickNanos >= P!Total(call.deadline)
            PROVE  uptime' * TickNanos >= P!Total(call.deadline)
        BY <3>2, <4>2, <4>3
      <4> QED
        BY <2>1, <4>1, <4>3 DEF Looked, Relative
    <3> QED
      BY <2>1, <2>2, <3>3, <3>4 DEF CallInv
  <2> QED
    BY <1>0, <2>1, <2>2 DEF WaitInv
<1>2. CASE P!time_set
  BY <1>0, <1>2, <1>s DEF P!time_set, WaitInv
<1>3. CASE P!Change
  <2>1. ready' \in [Fds -> Readiness \cup {{}}] /\ UNCHANGED <<uptime, call>>
    BY <1>0, <1>3 DEF P!Change
  <2> QED
    BY <1>0, <2>1 DEF WaitInv, CallInv, Timed, Looked
<1>4. CASE P!unblock
  <2>1. CallInv(call) /\ call' = P!Unblocked(call) /\ UNCHANGED <<uptime, ready>>
    BY <1>0, <1>4, <1>n DEF P!unblock, P!Waiting, P!Others
  <2> QED
    BY <1>s, <2>1, UnblockedInv
<1>5. CASE P!Interrupt
  <2>1. CallInv(call) /\ call' = P!Done(call, P!EINTR) /\ UNCHANGED <<uptime, ready>>
    BY <1>0, <1>5, <1>n DEF P!Interrupt, P!Others
  <2>2. CallInv(call')
    BY <2>1, CallDone
  <2> QED
    BY <1>s, <2>1, <2>2
<1>6. CASE P!Finish
  <2> DEFINE left == IF call.timed THEN P!timespec_saturating_sub(call.deadline, P!time_now(call.clock))
                     ELSE call.remain
             c == [call EXCEPT !.remain = left]
  <2>1. CallInv(call) /\ UNCHANGED <<uptime, ready>>
    BY <1>0, <1>6, <1>n DEF P!Finish, P!Others
  <2>2. Shaped(call) /\ call.kind \in {"poll", "select", "sleep"}
    BY <2>1 DEF CallInv, Kind
  <2>3. call' = CASE c.kind = "poll" -> P!Done(c, P!NumEvents(c.entries))
                  [] c.kind = "sleep" -> P!Done(c, 0)
                  [] c.kind = "select" /\ P!Bad(c) -> P!Done(c, P!EBADF)
                  [] c.kind = "select" /\ ~P!Bad(c) ->
                       P!Done([c EXCEPT !.answer = P!Answer(c)], P!Bits(P!Answer(c)))
    BY <1>6, <2>2 DEF P!Finish, Shaped
  <2> HIDE DEF left
  <2>4. /\ Shaped(c) /\ c.kind = call.kind /\ c.entries = call.entries /\ c.asked = call.asked
        /\ c.clock = call.clock /\ c.absolute = call.absolute /\ c.timed = call.timed
        /\ c.deadline = call.deadline /\ c.limit = call.limit /\ c.began = call.began
    BY <2>2 DEF Shaped
  <2> HIDE DEF c
  <2>5. \E ret, answer : call' = P!Done([c EXCEPT !.answer = answer], ret)
    <3>1. c = [c EXCEPT !.answer = c.answer]
      BY <2>4 DEF Shaped
    <3>2. CASE c.kind = "poll"
      BY <2>3, <3>1, <3>2
    <3>3. CASE c.kind = "sleep"
      BY <2>3, <3>1, <3>3
    <3>4. CASE c.kind = "select" /\ P!Bad(c)
      BY <2>3, <3>1, <3>4
    <3>5. CASE c.kind = "select" /\ ~P!Bad(c)
      BY <2>3, <3>5
    <3> QED
      BY <2>2, <2>4, <3>2, <3>3, <3>4, <3>5
  <2>6. PICK ret, answer : call' = P!Done([c EXCEPT !.answer = answer], ret)
    BY <2>5
  <2>7. /\ Shaped(call') /\ call'.kind = c.kind /\ call'.entries = c.entries /\ call'.asked = c.asked
        /\ call'.clock = c.clock /\ call'.absolute = c.absolute /\ call'.timed = c.timed
        /\ call'.deadline = c.deadline /\ call'.limit = c.limit /\ call'.began = c.began
        /\ call'.phase = "done"
    BY <2>4, <2>6 DEF P!Done, Shaped
  <2>8. CallInv(call')
    BY <2>1, <2>4, <2>7, CallEnds
  <2> QED
    BY <1>s, <2>1, <2>8
<1>7. CASE P!Return
  BY <1>0, <1>7 DEF P!Return, P!Others, WaitInv
<1>8. ASSUME NEW t \in Timeouts, NEW p \in PollSets, P!sys_poll(p, t) PROVE WaitInv'
  <2> DEFINE entries == [i \in DOMAIN p |-> P!Entry(p[i][1], p[i][2] \cup {"ERR", "HUP"})]
  <2>1. call' = P!Started("poll", entries, P!Nothing, t) /\ UNCHANGED <<uptime, ready>>
    BY <1>8 DEF P!sys_poll, P!Calls
  <2>2. EntriesOk(entries)
    <3>1. IsFiniteSet(DOMAIN entries)
      BY DEF WaitParameters
    <3>2. ASSUME NEW i \in DOMAIN p PROVE EntryOk(entries[i])
      <4>1. p[i][1] \in Int /\ (p[i][1] >= 0 => p[i][1] \in Fds)
        BY DEF WaitParameters
      <4>2. \A f \in Closed : f >= 0
        BY DEF WaitParameters
      <4> QED
        BY <4>1, <4>2 DEF EntryOk, P!Entry, P!Opened
    <3> QED
      BY <3>1, <3>2 DEF EntriesOk
  <2> HIDE DEF entries
  <2>3. CallInv(call')
    BY <2>1, <2>2, CallBegins
  <2> QED
    BY <1>s, <2>1, <2>3
<1>9. ASSUME NEW t \in Timeouts, NEW s \in SelectSets, P!sys_select(s, t) PROVE WaitInv'
  <2> DEFINE fds == s.read \cup s.write \cup s.except
             entries == [fd \in fds |-> P!Entry(fd, P!SelectEvents(s, fd))]
             c == P!Started("select", entries, s, t)
  <2>1. call' \in {P!Done(c, P!ENOMEM), c} /\ UNCHANGED <<uptime, ready>>
    BY <1>9 DEF P!sys_select, P!Calls
  <2>2. fds \subseteq Fds /\ Fds \subseteq Nat /\ IsFiniteSet(fds)
    BY FS_Union DEF WaitParameters
  <2>3. EntriesOk(entries)
    <3>1. DOMAIN entries = fds
      OBVIOUS
    <3>2. ASSUME NEW f \in fds PROVE EntryOk(entries[f])
      <4>1. entries[f] = P!Entry(f, P!SelectEvents(s, f)) /\ f \in Nat /\ f \in Fds
        BY <2>2
      <4>2. P!Entry(f, P!SelectEvents(s, f)).fd = f
        BY DEF P!Entry
      <4> HIDE DEF entries, fds
      <4> QED
        BY <4>1, <4>2 DEF EntryOk, P!Entry, P!Opened
    <3> QED
      BY <2>2, <3>1, <3>2 DEF EntriesOk
  <2>4. Selected(entries, s)
    BY <2>2 DEF Selected, P!Entry
  <2> HIDE DEF entries, fds
  <2>5. CallInv(c)
    BY <2>3, <2>4, CallBegins
  <2> HIDE DEF c
  <2>6. CASE call' = c
    BY <1>s, <2>1, <2>5, <2>6
  <2>7. CASE call' = P!Done(c, P!ENOMEM)
    <3>1. CallInv(call')
      BY <2>5, <2>7, CallDone
    <3> QED
      BY <1>s, <2>1, <3>1
  <2> QED
    BY <2>1, <2>6, <2>7
<1>10. ASSUME NEW t \in Timeouts \ {P!Never}, NEW clock \in {"MONOTONIC", "REALTIME"},
              NEW a \in BOOLEAN, P!clock_nanosleep(clock, a, t)
       PROVE  WaitInv'
  <2> DEFINE deadline == IF a THEN t ELSE P!timespec_add(P!time_now(clock), t)
  <2>1. /\ UNCHANGED <<uptime, ready>>
        /\ call' = [P!Call("sleep", <<>>, P!Nothing, clock, TRUE, deadline, t) EXCEPT !.absolute = a]
    BY <1>10 DEF P!clock_nanosleep, P!Calls
  <2>2. ~a /\ clock = "MONOTONIC" =>
          Normal(deadline) /\ P!Total(deadline) = uptime * TickNanos + P!Total(t)
    <3>1. Normal(t) /\ NANOS \in Nat \ {0}
      BY DEF WaitParameters
    <3> QED
      BY <1>0, <3>1, ClockTicks, AddsUp
  <2>3. P!Total(t) \in Int
    BY DEF WaitParameters, Normal, P!Total
  <2> HIDE DEF deadline
  <2>4. /\ Kind(call') /\ Shaped(call') /\ call'.kind = "sleep" /\ call'.phase = "check"
        /\ call'.entries = <<>> /\ call'.clock = clock /\ call'.absolute = a /\ call'.limit = t
        /\ call'.deadline = deadline /\ call'.began = uptime
    BY <2>1 DEF P!Call, Kind, Shaped
  <2>5. EntriesOk(call'.entries)
    <3>1. DOMAIN <<>> = {}
      OBVIOUS
    <3> QED
      BY <2>4, <3>1, FS_EmptySet DEF EntriesOk
  <2>6. Timed(call')
    BY <1>0, <2>2, <2>3, <2>4 DEF Timed, Relative
  <2>7. CallInv(call')
    BY <2>4, <2>5, <2>6 DEF CallInv
  <2> QED
    BY <1>s, <2>1, <2>7
<1>11. CASE UNCHANGED pollVars
  BY <1>0, <1>11, <1>s DEF pollVars, WaitInv
<1> QED
  BY <1>1, <1>2, <1>3, <1>4, <1>5, <1>6, <1>7, <1>8, <1>9, <1>10, <1>11 DEF P!Next

(* poll, select and sleep return neither early nor with the wrong answer,  *)
(* whatever the files and the clocks do meanwhile.                         *)
THEOREM DeviceWaitsExact == ASSUME WaitParameters PROVE P!Spec => []WaitsExact
<1>1. WaitInv => WaitsExact
  BY WaitInvExact
<1>2. P!Init => WaitInv
  BY InitWaitInv
<1>3. WaitInv /\ [P!Next]_P!pollVars => WaitInv'
  BY NextWaitInv DEF P!pollVars, pollVars
<1> QED
  BY <1>1, <1>2, <1>3, PTL DEF P!Spec
-----------------------------------------------------------------------------
(* The disk.  A queue of at least one descriptor, and an index that can    *)
(* tell one request from none.                                             *)
DiskParameters ==
  /\ Size \in Nat \ {0} /\ Modulus \in Nat \ {0, 1} /\ Capacity \in Nat /\ NoTask \notin Tasks

(* A set of numbers that is not empty has a least one.                     *)
LEMMA LeastNumber ==
  ASSUME NEW Ns, Ns \subseteq Nat, Ns # {}
  PROVE  \E n \in Ns : \A m \in Ns : n <= m
<1> DEFINE R == OpToRel(<, Nat)
<1>1. IsWellFoundedOn(R, Nat)
  BY NatLessThanWellFounded, Zenon
<1>2. \A u, v \in Nat : v < u => <<v, u>> \in R
  BY DEF OpToRel
<1> HIDE DEF R
<1>3. Ns \subseteq Nat /\ Ns # {}
  OBVIOUS
<1>4. \E u \in Ns : \A v \in Ns : ~(<<v, u>> \in R)
  BY <1>1, <1>3, WFMin
<1>5. PICK u \in Ns : \A v \in Ns : ~(<<v, u>> \in R)
  BY <1>4
<1>6. ASSUME NEW v \in Ns PROVE u <= v
  <2>1. u \in Nat /\ v \in Nat
    BY <1>3
  <2>2. ~(v < u)
    BY <1>2, <1>5, <2>1
  <2> QED
    BY <2>1, <2>2
<1> QED
  BY <1>6

(* The list that begins with a descriptor: the first that had no successor *)
(* would be one too many.                                                  *)
LinksTo(i, m, f) == f = [n \in 1..m |-> IF n = 1 THEN i ELSE desc[f[n - 1]].next]

(* There is such a list of any length.                                     *)
LEMMA LinksExist ==
  ASSUME NEW i, NEW m \in Nat
  PROVE  \E f : LinksTo(i, m, f)
<1> DEFINE S == {k \in Nat : ~ \E f : LinksTo(i, k, f)}
<1> SUFFICES S = {}
  OBVIOUS
<1> SUFFICES ASSUME S # {} PROVE FALSE
  OBVIOUS
<1>1. PICK k \in S : \A l \in S : k <= l
  BY LeastNumber
<1>2. k \in Nat /\ ~ \E f : LinksTo(i, k, f)
  OBVIOUS
<1>3. k # 0
  <2>1. LinksTo(i, 0, [n \in 1..0 |-> i])
    BY DEF LinksTo
  <2> QED
    BY <1>2, <2>1
<1>4. k - 1 \in Nat /\ k - 1 \notin S
  BY <1>1, <1>2, <1>3
<1>5. PICK f : LinksTo(i, k - 1, f)
  BY <1>4
<1> DEFINE g == [n \in 1..k |-> IF n = 1 THEN i ELSE desc[f[n - 1]].next]
<1>6. ASSUME NEW n \in 1..(k - 1) PROVE g[n] = f[n]
  BY <1>2, <1>5 DEF LinksTo
<1>7. ASSUME NEW n \in 1..k PROVE g[n] = IF n = 1 THEN i ELSE desc[g[n - 1]].next
  <2>1. CASE n = 1
    BY <2>1
  <2>2. CASE n # 1
    <3>1. n - 1 \in 1..(k - 1)
      BY <1>2, <2>2
    <3>2. g[n - 1] = f[n - 1]
      BY <1>6, <3>1
    <3> QED
      BY <2>2, <3>2
  <2> QED
    BY <2>1, <2>2
<1>8. g = [n \in 1..k |-> g[n]]
  OBVIOUS
<1> HIDE DEF g
<1>9. LinksTo(i, k, g)
  BY <1>7, <1>8 DEF LinksTo
<1> QED
  BY <1>2, <1>9

(* Descriptors that follow each other in the table are listed in order.    *)
LEMMA LinksInOrder ==
  ASSUME DiskParameters, \A d \in D!Descs : desc[d].next = (d + 1) % Size,
         NEW i \in D!Descs, NEW k \in 1..Size
  PROVE  D!Links(i)[k] = (i + (k - 1)) % Size
<1> DEFINE f == D!Links(i)
<1>1. Size \in Nat \ {0} /\ i \in Nat
  BY DEF DiskParameters, D!Descs
<1>2. \E g : LinksTo(i, Size, g)
  BY <1>1, LinksExist
<1>3. f = [n \in 1..Size |-> IF n = 1 THEN i ELSE desc[f[n - 1]].next]
  BY <1>2 DEF D!Links, LinksTo
<1> HIDE DEF f
<1>4. ASSUME NEW n \in 1..Size PROVE f[n] = IF n = 1 THEN i ELSE desc[f[n - 1]].next
  BY <1>3
<1> DEFINE S == {n \in 1..Size : f[n] # (i + (n - 1)) % Size}
<1>5. S = {}
  <2> SUFFICES ASSUME S # {} PROVE FALSE
    OBVIOUS
  <2>1. S \subseteq Nat
    BY <1>1
  <2>2. PICK n \in S : \A l \in S : n <= l
    BY <2>1, LeastNumber
  <2>3. n \in 1..Size /\ f[n] # (i + (n - 1)) % Size
    OBVIOUS
  <2>4. CASE n = 1
    <3>1. i + (n - 1) = 0 * Size + i /\ i \in 0..(Size - 1)
      BY <1>1, <2>4 DEF D!Descs
    <3>2. (i + (n - 1)) % Size = i
      BY <1>1, <3>1, Remainder
    <3> QED
      BY <1>4, <2>3, <2>4, <3>2
  <2>5. CASE n # 1
    <3>1. n - 1 \in 1..Size /\ n - 1 \notin S
      BY <1>1, <2>2, <2>3, <2>5
    <3> DEFINE d == i + (n - 2)
    <3>2. d \in Nat /\ d = i + ((n - 1) - 1) /\ d + 1 = i + (n - 1)
      BY <1>1, <2>3, <2>5
    <3> HIDE DEF d
    <3>3. f[n - 1] = d % Size
      BY <3>1, <3>2
    <3>4. d % Size \in D!Descs
      BY <1>1, <3>2, DivMod DEF D!Descs
    <3>5. f[n] = ((d % Size) + 1) % Size
      BY <1>4, <2>3, <2>5, <3>3, <3>4
    <3> QED
      BY <1>1, <2>3, <3>2, <3>5, Following
  <2> QED
    BY <2>4, <2>5
<1> QED
  BY <1>5 DEF f

Holding == {"push", "ring", "publish", "blocked"}
Places == Holding \cup {"idle", "wait", "lock", "done"}
DiskTypes ==
  /\ at \in [Tasks -> Places] /\ owner \in Tasks \cup {NoTask} /\ served \in [Tasks -> Nat]
  /\ chain \in [Tasks -> [head : Nat, tail : Nat, pushed : Nat]]
  /\ req \in [Tasks -> [type : {"none", "in", "out"}, sector : Nat, count : Nat]]
  /\ desc \in [D!Descs -> [buf : (Tasks \cup {NoTask}) \X {"none", "header", "data", "footer"},
                           write : BOOLEAN, more : BOOLEAN, next : D!Descs]]
  /\ ring \in [D!Descs -> {0}] /\ seen \in 0..(Modulus - 1)

(* Only the owner of the lock has descriptors, so that they come off and   *)
(* go back to the front of the free list: their order never changes, and   *)
(* every chain begins with descriptor 0.                                   *)
Taken0 == IF owner = NoTask THEN 0 ELSE chain[owner].pushed
InOrder ==
  /\ \A i \in D!Descs : desc[i].next = (i + 1) % Size
  /\ Taken0 \in 0..Size /\ numFree = Size - Taken0 /\ freeHead = Taken0 % Size

(* The chain of the owner is as long as it has come.                       *)
Chained(t) ==
  /\ chain[t].pushed \in 0..3 /\ Size >= 3 /\ (at[t] = "push" <=> chain[t].pushed < 3)
  /\ chain[t].pushed > 0 => chain[t].head = 0 /\ chain[t].tail = chain[t].pushed - 1
  /\ \A k \in 1..chain[t].pushed :
       /\ desc[k - 1].buf = <<t, D!Parts[k]>> /\ desc[k - 1].write = D!Writable(t, D!Parts[k])
       /\ desc[k - 1].more <=> k < chain[t].pushed

(* At most one request is on the ring, and the indexes say which.          *)
After(i) == (i + 1) % Modulus
Here == IF owner = NoTask THEN "idle" ELSE at[owner]
Indexed ==
  /\ usedIdx = seen
  /\ Here \notin {"publish", "blocked"} => shadow = seen /\ availIdx = seen
  /\ Here = "publish" => shadow = After(seen) /\ availIdx = seen
  /\ Here = "blocked" => availIdx = shadow /\ shadow \in {seen, After(seen)}

(* A request is within the disk and has been answered as often as it       *)
(* should.                                                                 *)
Asking(t) ==
  /\ at[t] \in Holding <=> owner = t
  /\ at[t] # "idle" => req[t].sector + req[t].count <= Capacity
  /\ at[t] = "done" => served[t] = 1
  /\ at[t] = "blocked" => served[t] = IF seen = shadow THEN 1 ELSE 0
  /\ at[t] \notin {"done", "blocked"} => served[t] = 0

(* How the device was brought up.                                          *)
Up ==
  /\ stage = "features" => status = {"ACKNOWLEDGE", "DRIVER", "FEATURES_OK"}
  /\ stage = "queues" => status = {"ACKNOWLEDGE", "DRIVER", "FEATURES_OK"}
  /\ stage \in {"config", "live"} => status = {"ACKNOWLEDGE", "DRIVER", "FEATURES_OK", "DRIVER_OK"}

DiskInv ==
  /\ DiskTypes /\ InOrder /\ Indexed /\ Up
  /\ owner # NoTask => Chained(owner)
  /\ \A t \in Tasks : Asking(t)

(* The index after the next is another one.                                *)
LEMMA AfterIndex ==
  ASSUME DiskParameters, NEW i \in 0..(Modulus - 1)
  PROVE  After(i) \in 0..(Modulus - 1) /\ After(i) # i
<1>1. Modulus \in Nat \ {0} /\ i \in Nat /\ 1 \in 0..(Modulus - 1)
  BY DEF DiskParameters
<1>2. i = 0 * Modulus + i
  BY <1>1
<1>3. i % Modulus = i
  BY <1>1, <1>2, Remainder
<1>4. (i + 1) % Modulus = IF i + 1 < Modulus THEN i + 1 ELSE i + 1 - Modulus
  BY <1>1, <1>3, Onwards
<1>5. Modulus > 1
  BY DEF DiskParameters
<1> QED
  BY <1>1, <1>4, <1>5 DEF After

(* The whole chain that the device finds.                                  *)
LEMMA ChainFound ==
  ASSUME DiskParameters, DiskInv, NEW t \in Tasks, owner = t, chain[t].pushed = 3, NEW i \in D!Descs
  PROVE  D!ChainAt(ring[i]) = [n \in 1..3 |-> desc[n - 1]]
<1>1. /\ ring[i] = 0 /\ Size \in Nat /\ Size >= 3 /\ 0 \in D!Descs
      /\ desc[0].more /\ desc[1].more /\ ~desc[2].more
  <2>1. Chained(t) /\ DiskTypes
    BY DEF DiskInv, DiskParameters
  <2>2. \A k \in 1..3 : desc[k - 1].more <=> k < 3
    BY <2>1 DEF Chained
  <2>3. 1 - 1 = 0 /\ 2 - 1 = 1 /\ 3 - 1 = 2
    OBVIOUS
  <2>4. desc[0].more /\ desc[1].more /\ ~desc[2].more
    BY <2>2, <2>3
  <2>5. ring[i] = 0
    BY <2>1 DEF DiskTypes
  <2>6. Size \in Nat /\ Size >= 3
    BY <2>1 DEF Chained, DiskParameters
  <2>7. 0 \in D!Descs
    BY <2>6 DEF D!Descs
  <2> QED
    BY <2>4, <2>5, <2>6, <2>7
<1>2. ASSUME NEW n \in 1..Size PROVE D!Links(0)[n] = n - 1
  <2>1. D!Links(0)[n] = (0 + (n - 1)) % Size
    BY <1>1, LinksInOrder DEF DiskInv, InOrder
  <2>2. 0 + (n - 1) = 0 * Size + (n - 1) /\ n - 1 \in 0..(Size - 1)
    BY <1>1
  <2>3. (0 + (n - 1)) % Size = n - 1
    BY <1>1, <2>2, Remainder
  <2> QED
    BY <2>1, <2>3
<1> DEFINE ends == {n \in 1..Size : n = Size \/ ~desc[D!Links(0)[n]].more}
           last3 == CHOOSE n \in ends : \A m \in ends : n <= m
<1>3. 3 \in ends /\ 1 \notin ends /\ 2 \notin ends
  <2>1. D!Links(0)[1] = 0 /\ D!Links(0)[2] = 1 /\ D!Links(0)[3] = 2
    BY <1>1, <1>2
  <2> QED
    BY <1>1, <2>1
<1>4. \A m \in ends : 3 <= m
  BY <1>1, <1>3
<1>5. last3 = 3
  <2>1. \E n \in ends : \A m \in ends : n <= m
    BY <1>3, <1>4
  <2>2. last3 \in ends /\ \A m \in ends : last3 <= m
    BY <2>1
  <2>3. ends \subseteq Nat
    BY <1>1
  <2> HIDE DEF last3, ends
  <2>4. last3 <= 3 /\ 3 <= last3 /\ last3 \in Nat
    BY <1>3, <1>4, <2>2, <2>3
  <2> QED
    BY <2>4
<1>6. D!ChainAt(0) = [n \in 1..last3 |-> desc[D!Links(0)[n]]]
  BY DEF D!ChainAt
<1> HIDE DEF last3
<1>7. \A n \in 1..3 : D!Links(0)[n] = n - 1
  BY <1>1, <1>2
<1> QED
  BY <1>1, <1>5, <1>6, <1>7

(* The invariant says what the driver and the device promise each other.   *)
LEMMA DiskInvExact ==
  ASSUME DiskParameters, DiskInv
  PROVE  DiskRequestsExact
<1>1. ASSUME seen # availIdx
      PROVE  LET c == D!ChainAt(ring[seen % Size]) IN
             \E t \in Tasks :
               /\ at[t] = "blocked"
               /\ [i \in DOMAIN c |-> c[i].buf] = [i \in 1..3 |-> <<t, D!Parts[i]>>]
               /\ \A i \in 1..3 : c[i].write = D!Writable(t, D!Parts[i])
               /\ req[t].sector + req[t].count <= Capacity
  <2>1. Here = "blocked"
    BY <1>1 DEF DiskInv, Indexed
  <2>2. owner \in Tasks /\ at[owner] = "blocked" /\ Chained(owner) /\ Asking(owner)
    BY <2>1 DEF Here, DiskInv, DiskTypes, DiskParameters
  <2>3. seen % Size \in D!Descs
    BY DivMod DEF DiskInv, DiskTypes, DiskParameters, D!Descs
  <2>4. chain[owner].pushed = 3
    BY <2>2 DEF Chained
  <2> DEFINE c == D!ChainAt(ring[seen % Size])
  <2>5. c = [n \in 1..3 |-> desc[n - 1]]
    BY <2>2, <2>3, <2>4, ChainFound
  <2> HIDE DEF c
  <2>6. \A k \in 1..3 : c[k].buf = <<owner, D!Parts[k]>> /\ c[k].write = D!Writable(owner, D!Parts[k])
    BY <2>2, <2>4, <2>5 DEF Chained
  <2>7. [i \in DOMAIN c |-> c[i].buf] = [i \in 1..3 |-> <<owner, D!Parts[i]>>]
    BY <2>5, <2>6
  <2>8. req[owner].sector + req[owner].count <= Capacity
    BY <2>2 DEF Asking
  <2>9. \E t \in Tasks :
          /\ at[t] = "blocked"
          /\ [i \in DOMAIN c |-> c[i].buf] = [i \in 1..3 |-> <<t, D!Parts[i]>>]
          /\ \A i \in 1..3 : c[i].write = D!Writable(t, D!Parts[i])
          /\ req[t].sector + req[t].count <= Capacity
    BY <2>2, <2>6, <2>7, <2>8
  <2> QED
    BY <2>9 DEF c
<1>2. \A t \in Tasks : at[t] = "done" => served[t] = 1
  BY DEF DiskInv, Asking
<1> DEFINE u == Taken0
<1>3. /\ Size \in Nat \ {0} /\ u \in 0..Size /\ numFree = Size - u /\ freeHead = u % Size
      /\ \A d \in D!Descs : desc[d].next = (d + 1) % Size
  BY DEF DiskInv, InOrder, DiskParameters
<1>4. ASSUME NEW i \in D!Descs, NEW n \in 0..(Size - i)
      PROVE  D!Walk(i, n) = i..(i + n - 1)
  <2>1. ASSUME NEW k \in 1..n PROVE D!Links(i)[k] = i + (k - 1)
    <3>1. k \in 1..Size /\ i \in Nat /\ i + (k - 1) \in 0..(Size - 1)
      BY <1>3 DEF D!Descs
    <3>2. D!Links(i)[k] = (i + (k - 1)) % Size
      BY <1>3, <3>1, LinksInOrder
    <3>3. i + (k - 1) = 0 * Size + (i + (k - 1))
      BY <1>3, <3>1
    <3>4. (0 * Size + (i + (k - 1))) % Size = i + (k - 1)
      BY <1>3, <3>1, Remainder
    <3> QED
      BY <3>2, <3>3, <3>4
  <2>2. ASSUME NEW j \in i..(i + n - 1) PROVE \E k \in 1..n : D!Links(i)[k] = j
    <3>1. j - i + 1 \in 1..n /\ i + ((j - i + 1) - 1) = j
      BY <1>3 DEF D!Descs
    <3> QED
      BY <2>1, <3>1
  <2>3. ASSUME NEW k \in 1..n PROVE D!Links(i)[k] \in i..(i + n - 1)
    <3>1. i + (k - 1) \in i..(i + n - 1)
      BY <1>3 DEF D!Descs
    <3> QED
      BY <2>1, <3>1
  <2> QED
    BY <2>2, <2>3 DEF D!Walk
<1>5. D!Walk(freeHead, numFree) = u..(Size - 1)
  <2>1. CASE u = Size
    <3>1. numFree = 0
      BY <1>3, <2>1
    <3>2. D!Walk(freeHead, numFree) = {}
      BY <3>1 DEF D!Walk
    <3>3. Size..(Size - 1) = {}
      BY <1>3
    <3> QED
      BY <2>1, <3>2, <3>3
  <2>2. CASE u # Size
    <3>1. u = 0 * Size + u /\ u \in 0..(Size - 1)
      BY <1>3, <2>2
    <3>2. freeHead = u
      BY <1>3, <3>1, Remainder
    <3>3. u \in D!Descs /\ Size - u \in 0..(Size - u) /\ u + (Size - u) - 1 = Size - 1
      BY <1>3, <3>1 DEF D!Descs
    <3> QED
      BY <1>3, <1>4, <3>2, <3>3
  <2> QED
    BY <2>1, <2>2
<1>6. IF owner = NoTask THEN D!Walk(freeHead, numFree) = D!Descs
      ELSE D!Walk(freeHead, numFree) = D!Descs \ D!Walk(chain[owner].head, chain[owner].pushed)
  <2>1. CASE owner = NoTask
    BY <1>5, <2>1 DEF Taken0, D!Descs
  <2>2. CASE owner # NoTask
    <3>1. u = chain[owner].pushed /\ Chained(owner)
      BY <2>2 DEF Taken0, DiskInv
    <3>2. CASE u = 0
      <4>1. D!Walk(chain[owner].head, chain[owner].pushed) = {}
        BY <3>1, <3>2 DEF D!Walk
      <4> QED
        BY <1>5, <2>2, <3>2, <4>1 DEF D!Descs
    <3>3. CASE u # 0
      <4>1. chain[owner].head = 0
        BY <1>3, <3>1, <3>3 DEF Chained
      <4>2. D!Walk(0, u) = 0..(0 + u - 1)
        <5>1. 0 \in D!Descs /\ u \in 0..(Size - 0)
          BY <1>3 DEF D!Descs
        <5> QED
          BY <1>4, <5>1
      <4>3. u..(Size - 1) = (0..(Size - 1)) \ (0..(0 + u - 1))
        BY <1>3
      <4> QED
        BY <1>5, <2>2, <3>1, <4>1, <4>2, <4>3 DEF D!Descs
    <3> QED
      BY <3>2, <3>3
  <2> QED
    BY <2>1, <2>2
<1>7. stage = "live" => {"FEATURES_OK", "DRIVER_OK"} \subseteq status /\ "FAILED" \notin status
  BY DEF DiskInv, Up
<1> QED
  BY <1>1, <1>2, <1>6, <1>7 DEF DiskRequestsExact, D!DiskRequestsExact

(* The device has not been looked for.                                     *)
LEMMA InitDiskInv ==
  ASSUME DiskParameters, D!Init
  PROVE  DiskInv
<1>1. /\ Size \in Nat \ {0} /\ Modulus \in Nat \ {0} /\ NoTask \notin Tasks /\ Capacity \in Nat
  BY DEF DiskParameters
<1>2. \A i \in D!Descs : (i + 1) % Size \in D!Descs
  BY <1>1, DivMod DEF D!Descs
<1>3. DiskTypes
  <2>1. desc \in [D!Descs -> [buf : (Tasks \cup {NoTask}) \X {"none", "header", "data", "footer"},
                              write : BOOLEAN, more : BOOLEAN, next : D!Descs]]
    BY <1>2 DEF D!Init, D!NoBuf
  <2> QED
    BY <1>1, <2>1 DEF D!Init, DiskTypes, Places, Holding, D!NoReq, D!NoChain
<1>4. InOrder
  <2>1. Taken0 = 0
    BY DEF D!Init, Taken0
  <2>2. 0 = 0 * Size + 0 /\ 0 \in 0..(Size - 1)
    BY <1>1
  <2>3. 0 % Size = 0
    BY <1>1, <2>2, Remainder
  <2> QED
    BY <1>1, <2>1, <2>3 DEF D!Init, InOrder
<1>5. Indexed
  BY DEF D!Init, Indexed, Here
<1>6. Up
  BY DEF D!Init, Up
<1>7. ASSUME NEW t \in Tasks PROVE Asking(t)
  BY <1>1 DEF D!Init, Asking, Holding
<1> QED
  BY <1>3, <1>4, <1>5, <1>6, <1>7 DEF DiskInv, D!Init

(* What a step leaves of the other tasks.                                  *)
Others(t) ==
  \A u \in Tasks \ {t} : /\ at'[u] = at[u] /\ req'[u] = req[u] /\ served'[u] = served[u]
                         /\ chain'[u] = chain[u]

(* A step of a task that neither has nor gets the lock.                    *)
LEMMA WithoutLock ==
  ASSUME DiskParameters, DiskInv, NEW t \in Tasks, Others(t), DiskTypes', Up', owner # t,
         UNCHANGED <<desc, freeHead, numFree, shadow, ring, availIdx, usedIdx, seen, owner, chain>>,
         at'[t] \notin Holding, Asking(t)'
  PROVE  DiskInv'
<1>1. Taken0' = Taken0
  BY DEF Taken0
<1>2. InOrder'
  BY <1>1 DEF DiskInv, InOrder
<1>3. owner # NoTask => at'[owner] = at[owner] /\ req'[owner] = req[owner]
  BY DEF Others, DiskInv, DiskTypes
<1>4. Here' = Here
  BY <1>3 DEF Here
<1>5. Indexed'
  BY <1>4 DEF DiskInv, Indexed, After
<1>6. owner # NoTask => Chained(owner)'
  BY <1>3 DEF DiskInv, Chained, D!Writable
<1>7. ASSUME NEW u \in Tasks PROVE Asking(u)'
  <2>1. CASE u = t
    BY <2>1
  <2>2. CASE u # t
    BY <2>2 DEF Others, DiskInv, Asking
  <2> QED
    BY <2>1, <2>2
<1> QED
  BY <1>2, <1>5, <1>6, <1>7 DEF DiskInv

(* A step of the owner of the lock, or of who gets it.                     *)
LEMMA OthersAsk ==
  ASSUME DiskInv, NEW t \in Tasks, Others(t), owner \in {t, NoTask}, owner' \in {t, NoTask},
         NoTask \notin Tasks, Asking(t)'
  PROVE  \A u \in Tasks : Asking(u)'
<1> SUFFICES ASSUME NEW u \in Tasks PROVE Asking(u)'
  OBVIOUS
<1>1. CASE u = t
  BY <1>1
<1>2. CASE u # t
  <2>1. Asking(u) /\ owner # u /\ owner' # u
    BY <1>2 DEF DiskInv
  <2>2. at[u] \notin Holding
    BY <2>1 DEF Asking
  <2> QED
    BY <1>2, <2>1, <2>2 DEF Others, Asking, Holding
<1> QED
  BY <1>1, <1>2

(* A task gets the lock: there is no chain yet, and room for one.          *)
LEMMA LockDiskInv ==
  ASSUME DiskParameters, DiskInv, NEW t \in Tasks, D!Lock(t)
  PROVE  DiskInv'
<1>1. /\ at[t] = "lock" /\ owner = NoTask /\ numFree >= 3 /\ owner' = t /\ t # NoTask
      /\ at' = [at EXCEPT ![t] = "push"] /\ chain' = [chain EXCEPT ![t] = D!NoChain]
      /\ UNCHANGED <<stage, status, req, served, desc, freeHead, numFree, shadow, ring, availIdx,
                     usedIdx, seen>>
  BY DEF D!Lock, D!Goto, D!queueVars, DiskParameters
<1>2. DiskTypes /\ InOrder /\ Indexed /\ Asking(t) /\ Up /\ Size \in Nat \ {0}
  BY DEF DiskInv, DiskParameters
<1>3. at'[t] = "push" /\ chain'[t] = D!NoChain /\ Others(t)
  BY <1>1, <1>2 DEF DiskTypes, Others
<1>4. DiskTypes'
  BY <1>1, <1>2 DEF DiskTypes, Places, Holding, D!NoChain
<1>5. Taken0 = 0 /\ Taken0' = 0
  BY <1>1, <1>3 DEF Taken0, D!NoChain
<1>6. InOrder' /\ Size >= 3
  BY <1>1, <1>2, <1>5 DEF InOrder
<1>7. Indexed'
  BY <1>1, <1>2, <1>3 DEF Indexed, Here, After
<1>8. Chained(t)'
  BY <1>3, <1>6 DEF Chained, D!NoChain
<1>9. Asking(t)'
  BY <1>1, <1>2, <1>3 DEF Asking, Holding
<1>10. \A u \in Tasks : Asking(u)'
  BY <1>1, <1>3, <1>9, OthersAsk DEF DiskParameters
<1>11. Up'
  BY <1>1, <1>2 DEF Up
<1> QED
  BY <1>1, <1>4, <1>6, <1>7, <1>8, <1>10, <1>11 DEF DiskInv

(* A buffer is put into the first free descriptor, the one after the last  *)
(* of the chain.                                                           *)
LEMMA PushDiskInv ==
  ASSUME DiskParameters, DiskInv, NEW t \in Tasks, D!push_buf(t)
  PROVE  DiskInv'
<1> DEFINE n == chain[t].pushed + 1
           p == chain[t].pushed
           filled == [desc EXCEPT ![freeHead] = [@ EXCEPT !.buf = <<t, D!Parts[n]>>, !.more = FALSE,
                                                          !.write = D!Writable(t, D!Parts[n])]]
<1>1. /\ at[t] = "push"
      /\ desc' = IF n = 1 THEN filled
                 ELSE [filled EXCEPT ![chain[t].tail] = [@ EXCEPT !.next = freeHead, !.more = TRUE]]
      /\ freeHead' = desc[freeHead].next /\ numFree' = numFree - 1
      /\ chain' = [chain EXCEPT ![t] = [head |-> IF n = 1 THEN freeHead ELSE chain[t].head,
                                        tail |-> freeHead, pushed |-> n]]
      /\ at' = [at EXCEPT ![t] = IF n = 3 THEN "ring" ELSE "push"]
      /\ UNCHANGED <<stage, status, shadow, ring, availIdx, usedIdx, seen, owner, req, served>>
  BY DEF D!push_buf, D!Goto
<1>2. DiskTypes /\ InOrder /\ Indexed /\ Asking(t) /\ Up /\ Size \in Nat \ {0} /\ NoTask \notin Tasks
  BY DEF DiskInv, DiskParameters
<1>3. owner = t /\ t # NoTask /\ Chained(t)
  BY <1>1, <1>2 DEF DiskInv, Asking, Holding
<1>4. p \in 0..2 /\ n = p + 1 /\ Size >= 3 /\ p \in D!Descs /\ Taken0 = p
  BY <1>1, <1>2, <1>3 DEF Chained, D!Descs, Taken0
<1>5. freeHead = p
  <2>1. p = 0 * Size + p /\ p \in 0..(Size - 1)
    BY <1>2, <1>4
  <2> HIDE DEF p
  <2>2. p % Size = p
    BY <1>2, <2>1, Remainder
  <2> QED
    BY <1>2, <1>4, <2>2 DEF InOrder
<1>6. p > 0 => chain[t].head = 0 /\ chain[t].tail = p - 1 /\ p - 1 \in D!Descs
  BY <1>2, <1>3, <1>4 DEF Chained, D!Descs
<1>7. \A k \in 1..p : /\ desc[k - 1].buf = <<t, D!Parts[k]>>
                      /\ desc[k - 1].write = D!Writable(t, D!Parts[k])
                      /\ desc[k - 1].more <=> k < p
  BY <1>3 DEF Chained
<1> DEFINE buf == <<t, D!Parts[n]>>
           wr == D!Writable(t, D!Parts[n])
<1>8. /\ D!Parts[n] \in {"header", "data", "footer"} /\ wr \in BOOLEAN
      /\ buf \in (Tasks \cup {NoTask}) \X {"none", "header", "data", "footer"}
  BY <1>4 DEF D!Parts, D!Writable
<1> HIDE DEF p, n, buf, wr
<1>9. /\ filled = [desc EXCEPT ![p] = [desc[p] EXCEPT !.buf = buf, !.more = FALSE, !.write = wr]]
      /\ at'[t] = (IF n = 3 THEN "ring" ELSE "push") /\ chain'[t].pushed = n /\ Others(t)
      /\ chain'[t].head = (IF n = 1 THEN 0 ELSE chain[t].head) /\ chain'[t].tail = p
  BY <1>1, <1>2, <1>4, <1>5 DEF DiskTypes, Others, buf, wr
<1> HIDE DEF filled
<1>10. desc \in [D!Descs -> [buf : (Tasks \cup {NoTask}) \X {"none", "header", "data", "footer"},
                            write : BOOLEAN, more : BOOLEAN, next : D!Descs]]
  BY <1>2 DEF DiskTypes
<1> DEFINE Rec == [buf : (Tasks \cup {NoTask}) \X {"none", "header", "data", "footer"},
                   write : BOOLEAN, more : BOOLEAN, next : D!Descs]
<1>11. /\ filled \in [D!Descs -> Rec] /\ \A i \in D!Descs \ {p} : filled[i] = desc[i]
       /\ filled[p].buf = buf /\ filled[p].write = wr /\ ~filled[p].more
       /\ filled[p].next = desc[p].next
  <2> DEFINE new == [desc[p] EXCEPT !.buf = buf, !.more = FALSE, !.write = wr]
  <2>1. desc[p] \in Rec
    BY <1>4, <1>10
  <2>2. /\ new \in Rec /\ new.buf = buf /\ new.write = wr /\ new.more = FALSE
        /\ new.next = desc[p].next
    BY <1>8, <2>1
  <2>3. filled = [desc EXCEPT ![p] = new]
    BY <1>9
  <2> HIDE DEF new, Rec
  <2> QED
    BY <1>4, <1>10, <2>2, <2>3 DEF Rec
<1>12. /\ desc' \in [D!Descs -> Rec]
       /\ \A i \in D!Descs : desc'[i].buf = filled[i].buf /\ desc'[i].write = filled[i].write
       /\ \A i \in D!Descs : i # p - 1 => desc'[i] = filled[i]
       /\ p > 0 => desc'[p - 1].more /\ desc'[p - 1].next = p
  <2>1. CASE n = 1
    <3>1. desc' = filled /\ ~(p > 0)
      BY <1>1, <1>4, <2>1
    <3> QED
      BY <1>11, <3>1
  <2>2. CASE n # 1
    <3>1. p > 0
      BY <1>4, <2>2
    <3>2. desc' = [filled EXCEPT ![p - 1] = [filled[p - 1] EXCEPT !.next = p, !.more = TRUE]]
      BY <1>1, <1>5, <1>6, <1>11, <2>2, <3>1
    <3> DEFINE new == [filled[p - 1] EXCEPT !.next = p, !.more = TRUE]
    <3>3. filled[p - 1] \in Rec
      BY <1>6, <1>11, <3>1
    <3>4. /\ new \in Rec /\ new.next = p /\ new.more = TRUE /\ new.buf = filled[p - 1].buf
          /\ new.write = filled[p - 1].write
      BY <1>4, <3>3
    <3>5. desc' = [filled EXCEPT ![p - 1] = new]
      BY <3>2
    <3> HIDE DEF new, Rec
    <3> QED
      BY <1>6, <1>11, <3>1, <3>4, <3>5
  <2> QED
    BY <2>1, <2>2
<1>13. \A i \in D!Descs : desc'[i].next = (i + 1) % Size
  <2> SUFFICES ASSUME NEW i \in D!Descs PROVE desc'[i].next = (i + 1) % Size
    OBVIOUS
  <2>1. desc[i].next = (i + 1) % Size /\ filled[i].next = desc[i].next
    BY <1>2, <1>11 DEF InOrder
  <2>2. CASE i # p - 1
    BY <1>12, <2>1, <2>2
  <2>3. CASE i = p - 1
    <3>1. p > 0 /\ i + 1 = p
      BY <1>4, <2>3 DEF D!Descs
    <3>2. desc'[i].next = p
      BY <1>12, <2>3, <3>1
    <3>3. p % Size = p
      <4>1. p = 0 * Size + p /\ p \in 0..(Size - 1)
        BY <1>2, <1>4 DEF D!Descs
      <4> QED
        BY <1>2, <4>1, Remainder
    <3> QED
      BY <3>1, <3>2, <3>3
  <2> QED
    BY <2>2, <2>3
<1>14. InOrder'
  <2>1. Taken0' = n
    BY <1>1, <1>3, <1>9 DEF Taken0
  <2>2. freeHead' = n % Size
    BY <1>1, <1>2, <1>4, <1>5 DEF InOrder
  <2>3. numFree' = Size - n /\ n \in 0..Size
    BY <1>1, <1>2, <1>4 DEF InOrder
  <2> QED
    BY <1>13, <2>1, <2>2, <2>3 DEF InOrder, D!Descs
<1>15. ASSUME NEW k \in 1..n
       PROVE  /\ desc'[k - 1].buf = <<t, D!Parts[k]>> /\ desc'[k - 1].write = D!Writable(t, D!Parts[k])
              /\ desc'[k - 1].more <=> k < n
  <2>1. k - 1 \in D!Descs /\ k \in 1..3
    BY <1>2, <1>4 DEF D!Descs
  <2>2. CASE k = n
    <3>1. k - 1 = p /\ k - 1 # p - 1
      BY <1>4, <2>2
    <3> QED
      BY <1>4, <1>11, <1>12, <2>1, <2>2, <3>1 DEF buf, wr
  <2>3. CASE k # n
    <3>1. k \in 1..p /\ k - 1 # p /\ k < n
      BY <1>4, <2>3
    <3>2. desc'[k - 1].buf = desc[k - 1].buf /\ desc'[k - 1].write = desc[k - 1].write
      BY <1>11, <1>12, <2>1, <3>1
    <3>3. desc'[k - 1].more
      <4>1. CASE k = p
        BY <1>4, <1>12, <4>1
      <4>2. CASE k # p
        <5>1. k < p /\ k - 1 # p - 1
          BY <1>4, <3>1, <4>2
        <5> QED
          BY <1>7, <1>11, <1>12, <2>1, <3>1, <5>1
      <4> QED
        BY <4>1, <4>2
    <3> QED
      BY <1>7, <3>1, <3>2, <3>3
  <2> QED
    BY <2>2, <2>3
<1>16. Chained(t)'
  <2>1. \A k \in 1..n : D!Writable(t, D!Parts[k])' = D!Writable(t, D!Parts[k])
    BY <1>1 DEF D!Writable
  <2>2. chain'[t].head = 0 /\ chain'[t].tail = n - 1
    BY <1>4, <1>6, <1>9
  <2>3. n \in 0..3 /\ (at'[t] = "push" <=> n < 3)
    BY <1>4, <1>9
  <2> QED
    BY <1>4, <1>9, <1>15, <2>1, <2>2, <2>3 DEF Chained
<1>17. DiskTypes'
  <2>1. chain' \in [Tasks -> [head : Nat, tail : Nat, pushed : Nat]]
    <3>1. n \in Nat /\ p \in Nat /\ (IF n = 1 THEN freeHead ELSE chain[t].head) \in Nat
      BY <1>2, <1>4, <1>5 DEF DiskTypes
    <3> QED
      BY <1>1, <1>2, <1>5, <3>1 DEF DiskTypes
  <2>2. at' \in [Tasks -> Places]
    BY <1>1, <1>2 DEF DiskTypes, Places, Holding
  <2> QED
    BY <1>1, <1>2, <1>12, <2>1, <2>2 DEF DiskTypes, D!Descs
<1>18. Indexed'
  BY <1>1, <1>2, <1>3, <1>9 DEF Indexed, Here, After
<1>19. Asking(t)'
  BY <1>1, <1>2, <1>3, <1>9 DEF Asking, Holding
<1>20. \A u \in Tasks : Asking(u)'
  BY <1>1, <1>2, <1>3, <1>9, <1>19, OthersAsk
<1>21. Up'
  BY <1>1, <1>2 DEF Up
<1> QED
  BY <1>1, <1>3, <1>14, <1>16, <1>17, <1>18, <1>20, <1>21 DEF DiskInv

(* The head of the chain is put on the ring, at the entry after the ones   *)
(* that the device has seen.                                               *)
LEMMA FillDiskInv ==
  ASSUME DiskParameters, DiskInv, NEW t \in Tasks, D!Fill(t)
  PROVE  DiskInv'
<1>1. /\ at[t] = "ring" /\ at' = [at EXCEPT ![t] = "publish"]
      /\ ring' = [ring EXCEPT ![shadow % Size] = chain[t].head] /\ shadow' = (shadow + 1) % Modulus
      /\ UNCHANGED <<stage, status, desc, freeHead, numFree, availIdx, usedIdx, seen,
                     owner, req, chain, served>>
  BY DEF D!Fill, D!Goto
<1>2. DiskTypes /\ InOrder /\ Indexed /\ Asking(t) /\ Up /\ NoTask \notin Tasks
  BY DEF DiskInv, DiskParameters
<1>3. owner = t /\ t # NoTask /\ Chained(t)
  BY <1>1, <1>2 DEF DiskInv, Asking, Holding
<1>4. chain[t].pushed = 3 /\ chain[t].head = 0
  BY <1>1, <1>3 DEF Chained
<1>5. at'[t] = "publish" /\ Others(t)
  BY <1>1, <1>2 DEF DiskTypes, Others
<1>6. ring' \in [D!Descs -> {0}]
  BY <1>1, <1>2, <1>4 DEF DiskTypes
<1>7. DiskTypes'
  BY <1>1, <1>2, <1>6 DEF DiskTypes, Places, Holding, D!Descs
<1>8. Here = "ring" /\ Here' = "publish"
  BY <1>1, <1>3, <1>5 DEF Here
<1>9. Indexed'
  BY <1>1, <1>2, <1>8 DEF Indexed, After
<1>10. InOrder' /\ Chained(t)'
  BY <1>1, <1>2, <1>3, <1>4, <1>5 DEF InOrder, Taken0, Chained, D!Descs, D!Writable
<1>11. Asking(t)'
  BY <1>1, <1>2, <1>3, <1>5 DEF Asking, Holding
<1>12. \A u \in Tasks : Asking(u)'
  BY <1>1, <1>2, <1>3, <1>5, <1>11, OthersAsk
<1>13. Up'
  BY <1>1, <1>2 DEF Up
<1> QED
  BY <1>1, <1>3, <1>7, <1>9, <1>10, <1>12, <1>13 DEF DiskInv

(* The device is shown the entry; it has not answered it.                  *)
LEMMA PublishDiskInv ==
  ASSUME DiskParameters, DiskInv, NEW t \in Tasks, D!Publish(t)
  PROVE  DiskInv'
<1>1. /\ at[t] = "publish" /\ at' = [at EXCEPT ![t] = "blocked"] /\ availIdx' = shadow
      /\ UNCHANGED <<stage, status, desc, freeHead, numFree, shadow, ring, usedIdx, seen,
                     owner, req, chain, served>>
  BY DEF D!Publish, D!Goto
<1>2. DiskTypes /\ InOrder /\ Indexed /\ Asking(t) /\ Up /\ NoTask \notin Tasks
  BY DEF DiskInv, DiskParameters
<1>3. owner = t /\ t # NoTask /\ Chained(t)
  BY <1>1, <1>2 DEF DiskInv, Asking, Holding
<1>4. at'[t] = "blocked" /\ Others(t)
  BY <1>1, <1>2 DEF DiskTypes, Others
<1>5. DiskTypes'
  BY <1>1, <1>2 DEF DiskTypes, Places, Holding, D!Descs
<1>6. Here = "publish" /\ Here' = "blocked"
  BY <1>1, <1>3, <1>4 DEF Here
<1>7. Indexed'
  BY <1>1, <1>2, <1>6 DEF Indexed, After
<1>8. InOrder' /\ Chained(t)'
  BY <1>1, <1>2, <1>3, <1>4 DEF InOrder, Taken0, Chained, D!Descs, D!Writable
<1>9. shadow # seen
  BY <1>2, <1>6, AfterIndex DEF Indexed, DiskTypes
<1>10. Asking(t)'
  BY <1>1, <1>2, <1>3, <1>4, <1>9 DEF Asking, Holding
<1>11. \A u \in Tasks : Asking(u)'
  BY <1>1, <1>2, <1>3, <1>4, <1>10, OthersAsk
<1>12. Up'
  BY <1>1, <1>2 DEF Up
<1> QED
  BY <1>1, <1>3, <1>5, <1>7, <1>8, <1>11, <1>12 DEF DiskInv

(* The queue is ready only when the request has been answered; the chain   *)
(* goes back to where it was taken from.                                   *)
LEMMA ReclaimDiskInv ==
  ASSUME DiskParameters, DiskInv, NEW t \in Tasks, D!Reclaim(t)
  PROVE  DiskInv'
<1>1. /\ at[t] = "blocked" /\ at' = [at EXCEPT ![t] = "done"] /\ usedIdx = shadow /\ owner' = NoTask
      /\ desc' = [desc EXCEPT ![chain[t].tail].next = freeHead]
      /\ freeHead' = chain[t].head /\ numFree' = numFree + chain[t].pushed
      /\ chain' = [chain EXCEPT ![t] = D!NoChain]
      /\ UNCHANGED <<stage, status, shadow, ring, availIdx, usedIdx, seen, req, served>>
  BY DEF D!Reclaim, D!Goto, D!virtq_is_ready
<1>2. /\ DiskTypes /\ InOrder /\ Indexed /\ Asking(t) /\ Up /\ NoTask \notin Tasks
      /\ Size \in Nat \ {0}
  BY DEF DiskInv, DiskParameters
<1>3. owner = t /\ t # NoTask /\ Chained(t)
  BY <1>1, <1>2 DEF DiskInv, Asking, Holding
<1>4. chain[t].pushed = 3 /\ chain[t].head = 0 /\ chain[t].tail = 2 /\ Size >= 3
  BY <1>1, <1>3 DEF Chained
<1>5. at'[t] = "done" /\ Others(t)
  BY <1>1, <1>2 DEF DiskTypes, Others
<1>6. /\ desc \in [D!Descs -> [buf : (Tasks \cup {NoTask}) \X {"none", "header", "data", "footer"},
                               write : BOOLEAN, more : BOOLEAN, next : D!Descs]]
      /\ 2 \in D!Descs /\ freeHead = 3 % Size /\ desc[2].next = 3 % Size
  <2>1. 2 \in D!Descs /\ Taken0 = 3 /\ 2 + 1 = 3
    BY <1>2, <1>3, <1>4 DEF Taken0, D!Descs
  <2>2. freeHead = 3 % Size /\ desc[2].next = (2 + 1) % Size
    BY <1>2, <2>1 DEF InOrder
  <2> QED
    BY <1>2, <2>1, <2>2 DEF DiskTypes
<1>7. desc' = desc
  <2>1. desc[2].next = freeHead
    BY <1>6
  <2>2. [desc[2] EXCEPT !.next = desc[2].next] = desc[2]
    BY <1>6
  <2> QED
    BY <1>1, <1>4, <1>6, <2>1, <2>2
<1>8. DiskTypes'
  BY <1>1, <1>2, <1>7 DEF DiskTypes, Places, Holding, D!Descs, D!NoChain
<1>9. InOrder'
  <2>1. Taken0' = 0 /\ Taken0 = 3
    BY <1>1, <1>3, <1>4 DEF Taken0
  <2>2. numFree' = Size /\ freeHead' = 0
    BY <1>1, <1>2, <1>4, <2>1 DEF InOrder
  <2>3. 0 = 0 * Size + 0 /\ 0 \in 0..(Size - 1)
    BY <1>2
  <2>4. 0 % Size = 0
    BY <1>2, <2>3, Remainder
  <2> QED
    BY <1>2, <1>7, <2>1, <2>2, <2>4 DEF InOrder, D!Descs
<1>10. Here = "blocked" /\ Here' = "idle"
  BY <1>1, <1>3 DEF Here
<1>11. Indexed' /\ seen = shadow
  BY <1>1, <1>2, <1>10 DEF Indexed, After
<1>12. Asking(t)'
  BY <1>1, <1>2, <1>3, <1>5, <1>11 DEF Asking, Holding
<1>13. \A u \in Tasks : Asking(u)'
  BY <1>1, <1>2, <1>3, <1>5, <1>12, OthersAsk
<1>14. Up'
  BY <1>1, <1>2 DEF Up
<1> QED
  BY <1>1, <1>8, <1>9, <1>11, <1>13, <1>14 DEF DiskInv

(* The device finds the chain of the owner of the lock, and answers it for *)
(* the first time.                                                         *)
LEMMA ServeDiskInv ==
  ASSUME DiskParameters, DiskInv, D!Serve
  PROVE  DiskInv'
<1> DEFINE c == D!ChainAt(ring[seen % Size])
<1>1. /\ seen # availIdx /\ served' = [served EXCEPT ![c[Len(c)].buf[1]] = @ + 1]
      /\ seen' = After(seen) /\ usedIdx' = (usedIdx + 1) % Modulus
      /\ UNCHANGED <<stage, status, desc, freeHead, numFree, shadow, ring, availIdx,
                     owner, at, req, chain>>
  BY DEF D!Serve, After
<1>2. /\ DiskTypes /\ InOrder /\ Indexed /\ Up /\ NoTask \notin Tasks
      /\ Size \in Nat \ {0} /\ Modulus \in Nat \ {0}
  BY DEF DiskInv, DiskParameters
<1>3. Here = "blocked"
  BY <1>1, <1>2 DEF Indexed
<1>4. PICK t \in Tasks : owner = t /\ at[t] = "blocked" /\ Chained(t) /\ Asking(t)
  BY <1>2, <1>3 DEF Here, DiskTypes, DiskInv
<1>5. chain[t].pushed = 3
  BY <1>4 DEF Chained
<1>6. c = [n \in 1..3 |-> desc[n - 1]]
  <2>1. seen \in Int
    BY <1>2 DEF DiskTypes
  <2>2. seen % Size \in D!Descs
    BY <1>2, <2>1, DivMod DEF D!Descs
  <2> QED
    BY <1>4, <1>5, <2>2, ChainFound
<1>7. c[Len(c)].buf[1] = t
  <2> HIDE DEF c
  <2>1. Len(c) = 3
    BY <1>6
  <2>2. c[3] = desc[3 - 1]
    BY <1>6
  <2>3. desc[3 - 1].buf = <<t, D!Parts[3]>>
    BY <1>4, <1>5 DEF Chained
  <2> QED
    BY <2>1, <2>2, <2>3
<1> HIDE DEF c
<1>8. served' = [served EXCEPT ![t] = served[t] + 1]
  BY <1>1, <1>7
<1>9. seen' \in 0..(Modulus - 1) /\ availIdx = shadow /\ shadow = After(seen) /\ usedIdx = seen
  BY <1>1, <1>2, <1>3, AfterIndex DEF Indexed, DiskTypes
<1>10. DiskTypes'
  <2>1. served \in [Tasks -> Nat]
    BY <1>2 DEF DiskTypes
  <2>2. served' \in [Tasks -> Nat]
    BY <1>8, <2>1
  <2> QED
    BY <1>1, <1>2, <1>9, <2>2 DEF DiskTypes, D!Descs
<1>11. InOrder' /\ Up' /\ Chained(t)'
  BY <1>1, <1>2, <1>4, <1>5 DEF InOrder, Taken0, Up, Chained, D!Descs, D!Writable
<1>12. Here' = "blocked"
  BY <1>1, <1>3 DEF Here
<1>13. Indexed'
  BY <1>1, <1>9, <1>12 DEF Indexed, After
<1>14. Asking(t)'
  <2>1. served[t] = 0
    BY <1>1, <1>4, <1>9 DEF Asking
  <2>2. served'[t] = 1
    BY <1>2, <1>8, <2>1 DEF DiskTypes
  <2> QED
    BY <1>1, <1>4, <1>9, <2>2 DEF Asking, Holding
<1>15. \A u \in Tasks : Asking(u)'
  <2>1. Others(t)
    BY <1>1, <1>2, <1>8 DEF Others, DiskTypes
  <2>2. owner = t /\ owner' = t
    BY <1>1, <1>4
  <2> QED
    BY <1>2, <1>4, <1>14, <2>1, <2>2, OthersAsk
<1> QED
  BY <1>1, <1>4, <1>10, <1>11, <1>13, <1>15 DEF DiskInv

(* Bringing up the device touches neither the queue nor the tasks.         *)
LEMMA QueueUnmoved ==
  ASSUME DiskInv, Up',
         UNCHANGED <<desc, freeHead, numFree, shadow, ring, availIdx, usedIdx, seen,
                     owner, at, req, chain, served>>
  PROVE  DiskInv'
<1>1. DiskTypes'
  BY DEF DiskInv, DiskTypes, D!Descs
<1>2. InOrder'
  BY DEF DiskInv, InOrder, Taken0, D!Descs
<1>3. Indexed'
  BY DEF DiskInv, Indexed, Here, After
<1>4. (owner # NoTask => Chained(owner))'
  BY DEF DiskInv, Chained, D!Writable
<1>5. (\A t \in Tasks : Asking(t))'
  BY DEF DiskInv, Asking
<1> QED
  BY <1>1, <1>2, <1>3, <1>4, <1>5 DEF DiskInv

(* Each step of the driver or of the device keeps the invariant.           *)
LEMMA NextDiskInv == DiskParameters /\ DiskInv /\ [D!Next]_virtioVars => DiskInv'
<1> SUFFICES ASSUME DiskParameters, DiskInv, [D!Next]_virtioVars PROVE DiskInv'
  OBVIOUS
<1>1. DiskTypes /\ Up /\ NoTask \notin Tasks /\ Capacity \in Nat
  BY DEF DiskInv, DiskParameters
<1>2. CASE UNCHANGED virtioVars
  BY <1>1, <1>2, QueueUnmoved DEF virtioVars, Up
<1>3. CASE D!Create
  <2>1. UNCHANGED <<desc, freeHead, numFree, shadow, ring, availIdx, usedIdx, seen,
                    owner, at, req, chain, served>>
    BY <1>3 DEF D!Create, D!queueVars, D!taskVars
  <2>2. Up'
    <3>1. CASE D!Discover
      BY <3>1 DEF D!Discover, Up
    <3>2. CASE D!Reset
      BY <3>2 DEF D!Reset, Up
    <3>3. CASE D!Features
      BY <1>1, <3>3 DEF D!Features, Up
    <3>4. CASE D!Queues
      BY <1>1, <3>4 DEF D!Queues, Up
    <3>5. CASE D!Config
      BY <1>1, <3>5 DEF D!Config, Up
    <3> QED
      BY <1>3, <3>1, <3>2, <3>3, <3>4, <3>5 DEF D!Create
  <2> QED
    BY <2>1, <2>2, QueueUnmoved
<1>4. CASE D!Serve
  BY <1>4, ServeDiskInv
<1>5. ASSUME NEW t \in Tasks, NEW type \in {"in", "out"}, NEW s \in 0..Capacity, NEW n \in {1, 2},
             D!do_io(t, type, s, n)
      PROVE  DiskInv'
  <2> DEFINE r == [type |-> type, sector |-> s, count |-> D!Least(n, Capacity - s)]
  <2>1. /\ at[t] = "idle" /\ Up' /\ UNCHANGED <<desc, freeHead, numFree, shadow, ring, availIdx,
                                              usedIdx, seen, owner, chain, served>>
        /\ \/ UNCHANGED <<at, req>>
           \/ s < Capacity /\ at' = [at EXCEPT ![t] = "wait"] /\ req' = [req EXCEPT ![t] = r]
    BY <1>1, <1>5 DEF D!do_io, D!Goto, D!queueVars, Up
  <2>2. s < Capacity => r.sector + r.count <= Capacity /\ r.count \in Nat
    BY <1>1 DEF D!Least
  <2>3. r.sector = s /\ r.type = type /\ s \in Nat
    BY <1>1
  <2>4. r = [type |-> type, sector |-> s, count |-> r.count]
    OBVIOUS
  <2> HIDE DEF r
  <2>5. Asking(t) /\ owner # t
    <3>1. Asking(t)
      BY DEF DiskInv
    <3> QED
      BY <2>1, <3>1 DEF Asking, Holding
  <2>6. at'[t] \in {"idle", "wait"} /\ Others(t) /\ (at'[t] = "wait" => s < Capacity /\ req'[t] = r)
    BY <1>1, <2>1 DEF DiskTypes, Others
  <2>7. at' \in [Tasks -> Places]
    BY <1>1, <2>1 DEF DiskTypes, Places, Holding
  <2>8. req' \in [Tasks -> [type : {"none", "in", "out"}, sector : Nat, count : Nat]]
    <3>1. s < Capacity => r \in [type : {"none", "in", "out"}, sector : Nat, count : Nat]
      BY <2>2, <2>3, <2>4
    <3> QED
      BY <1>1, <2>1, <3>1 DEF DiskTypes
  <2>9. DiskTypes'
    BY <1>1, <2>1, <2>7, <2>8 DEF DiskTypes, D!Descs
  <2>10. Asking(t)'
    BY <2>1, <2>2, <2>5, <2>6 DEF Asking, Holding
  <2>11. at'[t] \notin Holding
    BY <2>6 DEF Holding
  <2> QED
    BY <2>1, <2>5, <2>6, <2>9, <2>10, <2>11, WithoutLock
<1>6. ASSUME NEW t \in Tasks, D!Wait(t) PROVE DiskInv'
  <2>1. /\ at[t] = "wait" /\ UNCHANGED <<stage, status, desc, freeHead, numFree, shadow, ring,
                                       availIdx, usedIdx, seen, owner, chain>>
        /\ \/ at' = [at EXCEPT ![t] = "lock"] /\ UNCHANGED <<req, served>>
           \/ /\ at' = [at EXCEPT ![t] = "idle"] /\ req' = [req EXCEPT ![t] = D!NoReq]
              /\ served' = [served EXCEPT ![t] = 0]
    BY <1>6 DEF D!Wait, D!Goto, D!Put, D!queueVars
  <2>2. Asking(t) /\ owner # t
    <3>1. Asking(t)
      BY DEF DiskInv
    <3> QED
      BY <2>1, <3>1 DEF Asking, Holding
  <2>3. /\ at'[t] \in {"lock", "idle"} /\ Others(t) /\ served'[t] = 0
        /\ (at'[t] = "lock" => req'[t] = req[t])
    <3>1. served[t] = 0
      BY <2>1, <2>2 DEF Asking
    <3> QED
      BY <1>1, <2>1, <3>1 DEF DiskTypes, Others
  <2>4. DiskTypes'
    <3>1. at' \in [Tasks -> Places]
      BY <1>1, <2>1 DEF DiskTypes, Places, Holding
    <3>2. served' \in [Tasks -> Nat]
      BY <1>1, <2>1 DEF DiskTypes
    <3>3. req' \in [Tasks -> [type : {"none", "in", "out"}, sector : Nat, count : Nat]]
      BY <1>1, <2>1 DEF DiskTypes, D!NoReq
    <3> QED
      BY <1>1, <2>1, <3>1, <3>2, <3>3 DEF DiskTypes, D!Descs
  <2>5. Asking(t)' /\ at'[t] \notin Holding
    BY <2>1, <2>2, <2>3 DEF Asking, Holding
  <2>6. Up'
    BY <1>1, <2>1 DEF Up
  <2> QED
    BY <2>1, <2>2, <2>3, <2>4, <2>5, <2>6, WithoutLock
<1>7. ASSUME NEW t \in Tasks, D!Answer(t) PROVE DiskInv'
  <2>1. /\ at[t] = "done" /\ UNCHANGED <<stage, status, desc, freeHead, numFree, shadow, ring,
                                       availIdx, usedIdx, seen, owner, chain>>
        /\ at' = [at EXCEPT ![t] = "idle"] /\ req' = [req EXCEPT ![t] = D!NoReq]
        /\ served' = [served EXCEPT ![t] = 0]
    BY <1>7 DEF D!Answer, D!Goto, D!Put, D!queueVars
  <2>2. Asking(t) /\ owner # t
    <3>1. Asking(t)
      BY DEF DiskInv
    <3> QED
      BY <2>1, <3>1 DEF Asking, Holding
  <2>3. at'[t] = "idle" /\ served'[t] = 0 /\ Others(t)
    BY <1>1, <2>1 DEF DiskTypes, Others
  <2>4. DiskTypes'
    BY <1>1, <2>1 DEF DiskTypes, Places, Holding, D!NoReq, D!Descs
  <2>5. Asking(t)' /\ at'[t] \notin Holding
    BY <2>1, <2>2, <2>3 DEF Asking, Holding
  <2>6. Up'
    BY <1>1, <2>1 DEF Up
  <2> QED
    BY <2>1, <2>2, <2>3, <2>4, <2>5, <2>6, WithoutLock
<1>8. ASSUME NEW t \in Tasks, D!Step(t) PROVE DiskInv'
  <2>1. CASE D!Wait(t) \/ D!Answer(t)
    BY <1>6, <1>7, <2>1
  <2>2. CASE D!Lock(t) \/ D!push_buf(t) \/ D!Fill(t) \/ D!Publish(t) \/ D!Reclaim(t)
    BY <2>2, LockDiskInv, PushDiskInv, FillDiskInv, PublishDiskInv, ReclaimDiskInv
  <2> QED
    BY <1>8, <2>1, <2>2 DEF D!Step
<1> QED
  BY <1>2, <1>3, <1>4, <1>5, <1>8 DEF D!Next

(* Every request to the disk reaches the device as one whole chain of its  *)
(* own buffers and within the disk, is answered once before its task goes  *)
(* on, and no descriptor is lost or used twice (virtq_desc_chain_push_buf, *)
(* virtq_desc_chain_submit, virtio_blk_do_io), for any number of tasks,    *)
(* any size of the queue, and wherever the indexes wrap.                   *)
THEOREM DeviceDiskRequestsExact == ASSUME DiskParameters PROVE D!Spec => []DiskRequestsExact
<1>1. DiskInv => DiskRequestsExact
  BY DiskInvExact
<1>2. D!Init => DiskInv
  BY InitDiskInv
<1>3. DiskInv /\ [D!Next]_D!virtioVars => DiskInv'
  BY NextDiskInv DEF D!virtioVars, virtioVars
<1> QED
  BY <1>1, <1>2, <1>3, PTL DEF D!Spec
=============================================================================
